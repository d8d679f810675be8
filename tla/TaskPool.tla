------------------------------ MODULE TaskPool ------------------------------
(***************************************************************************)
(* What performTask promises: a task is run once, by one of Capacity       *)
(* threads, and, until the pool is closed, every task is run.  A task that *)
(* still waits when the pool closes may stay there for ever.               *)
(***************************************************************************)
EXTENDS Naturals, FiniteSets

CONSTANTS Tasks, Capacity

VARIABLES waiting, running, finished, closed

vars == <<waiting, running, finished, closed>>

Init ==
    /\ waiting = {}
    /\ running = {}
    /\ finished = {}
    /\ closed = FALSE

Submit(t) ==
    /\ t \notin waiting \cup running \cup finished
    /\ waiting' = waiting \cup {t}
    /\ UNCHANGED <<running, finished, closed>>

Start(t) ==
    /\ t \in waiting
    /\ Cardinality(running) < Capacity
    /\ waiting' = waiting \ {t}
    /\ running' = running \cup {t}
    /\ UNCHANGED <<finished, closed>>

Finish(t) ==
    /\ t \in running
    /\ running' = running \ {t}
    /\ finished' = finished \cup {t}
    /\ UNCHANGED <<waiting, closed>>

Close ==
    /\ ~closed
    /\ closed' = TRUE
    /\ UNCHANGED <<waiting, running, finished>>

Next ==
    \/ \E t \in Tasks : Submit(t) \/ Start(t) \/ Finish(t)
    \/ Close

\* Submitting and closing are up to the callers.
Fairness ==
    \A t \in Tasks : /\ WF_vars(Finish(t))
                     /\ SF_vars(~closed /\ Start(t))

Spec == Init /\ [][Next]_vars /\ Fairness
=============================================================================
