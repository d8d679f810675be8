----------------------------- MODULE TaskGroup -----------------------------
(***************************************************************************)
(* stappler::web::AsyncTaskGroup and the life of its tasks (AsyncTask), on *)
(* top of TaskPool, which UnixRoot implements.  The owner of a group is    *)
(* the thread that waits for it: one outside the pool, as that of a        *)
(* websocket connection, or the worker of a task.  Tasks are added by the  *)
(* owner and by tasks of the group, in their own code or in a completion;  *)
(* workers report them with onPerformed; update completes them, on the     *)
(* owner's thread or on the one that made the group; waitForAll lets the   *)
(* owner go on, and destroy the group, when all are complete.              *)
(*                                                                         *)
(*   task   new --> counted --> queued --> execute --> notify --> called   *)
(*              onAdded   pushTask    start     onPerformed    --> released*)
(*   group  open --> collect --> complete --> added | completed --> gone   *)
(*                      ^                          |                       *)
(*                      +--------- asleep ---------+       waitForAll      *)
(*                                                                         *)
(* What a thread does inside update, inside onAdded, is not ordered        *)
(* against the rest of the push.  The clock is left open: update may       *)
(* always be due.                                                          *)
(***************************************************************************)
EXTENDS Naturals, FiniteSets

CONSTANTS
    Tasks, Groups,
    Capacity,       \* the number of worker threads
    Main,           \* the thread outside the pool
    NoGroup,        \* the group of a task that has none
    GroupOf,        \* the group a task is made for
    OwnerOf,        \* the thread that waits for the group; it has one group
    MadeByWorker    \* the groups a thread of the pool made for another owner

ASSUME TasksAssumption == IsFiniteSet(Tasks) /\ Main \notin Tasks

ASSUME GroupsAssumption ==
    /\ NoGroup \notin Groups
    /\ GroupOf \in [Tasks -> Groups \cup {NoGroup}]
    /\ OwnerOf \in [Groups -> Tasks \cup {Main}]
    /\ \A g, h \in Groups : OwnerOf[g] = OwnerOf[h] => g = h
    /\ MadeByWorker \subseteq Groups

Threads == Tasks \cup {Main}

VARIABLES
    waiting, running, finished, closed,  \* of the pool
    step,        \* how far each task is
    adder,       \* who is adding the task
    phase,       \* where the owner of each group is
    added,       \* _added
    completed,   \* _completed
    loaded,      \* what waitForAll has loaded of the two to compare them
    performed,   \* _queue: executed and not collected
    batch        \* the tasks each thread collected in update, to complete

poolVars == <<waiting, running, finished, closed>>
groupVars == <<phase, added, completed, loaded, performed, batch>>
vars == <<poolVars, step, adder, groupVars>>

Pool == INSTANCE TaskPool

Steps == {"new", "counted", "queued", "execute", "notify", "called", "released"}
Phases == {"open", "collect", "complete", "added", "completed", "asleep", "gone"}

TypeOK ==
    /\ waiting \in SUBSET Tasks /\ running \in SUBSET Tasks
    /\ finished \in SUBSET Tasks /\ closed \in BOOLEAN
    /\ step \in [Tasks -> Steps]
    /\ adder \in [Tasks -> Threads]
    /\ phase \in [Groups -> Phases]
    /\ added \in [Groups -> Nat]
    /\ completed \in [Groups -> Nat]
    /\ loaded \in [Groups -> Nat]
    /\ performed \in [Groups -> SUBSET Tasks]
    /\ batch \in [Threads -> SUBSET Tasks]

Init ==
    /\ Pool!Init
    /\ step = [t \in Tasks |-> "new"]
    /\ adder = [t \in Tasks |-> Main]
    /\ phase = [g \in Groups |-> "open"]
    /\ added = [g \in Groups |-> 0]
    /\ completed = [g \in Groups |-> 0]
    /\ loaded = [g \in Groups |-> 0]
    /\ performed = [g \in Groups |-> {}]
    /\ batch = [th \in Threads |-> {}]

At(t, here) == step[t] = here
Goto(t, there) == step' = [step EXCEPT ![t] = there]
Enter(g, there) == phase' = [phase EXCEPT ![g] = there]

Adding(th) == \E t \in Tasks : At(t, "counted") /\ adder[t] = th

\* The user's code runs in a thread: in a task or outside the pool, before or
\* after waitForAll, and in the completion of a task.
InUserCode(th) ==
    /\ th # Main => At(th, "execute")
    /\ \/ batch[th] # {}
       \/ /\ ~Adding(th)
          /\ \A g \in Groups : OwnerOf[g] = th => phase[g] \in {"open", "gone"}

----------------------------------------------------------------------------
\* Mutant of Collected: update copies the queue and does not empty it.
CollectedCopy(th, g) ==
    /\ batch' = [batch EXCEPT ![th] = @ \cup performed[g]]
    /\ UNCHANGED performed

\* update, first part: swap the queue, under _mutex.
Collected(th, g) ==
    /\ batch' = [batch EXCEPT ![th] = @ \cup performed[g]]
    /\ performed' = [performed EXCEPT ![g] = {}]

\* Mutant of Count: only the owner's own tasks are counted.
CountOwn(th, g) ==
    IF OwnerOf[g] = th THEN added' = [added EXCEPT ![g] = @ + 1] ELSE UNCHANGED added

Count(th, g) == added' = [added EXCEPT ![g] = @ + 1]

\* A task of the group runs in some thread.
Inside(th, g) == th # Main /\ GroupOf[th] = g

\* std::this_thread::get_id() == _threadId may hold: for the owner if it made
\* the group, else for the one task that is on the worker that did.
OnItsThread(th, g) ==
    IF g \in MadeByWorker
    THEN /\ th # OwnerOf[g]
         /\ \A u \in Tasks \ {th, OwnerOf[g]} : \A t \in batch[u] : GroupOf[t] # g
    ELSE th = OwnerOf[g]

\* onAdded, at the beginning of pushTask, with the update that may be due.
OnAdded(th, t) ==
    LET g == GroupOf[t] IN
    /\ At(t, "new")
    /\ InUserCode(th)
    /\ \/ g = NoGroup /\ UNCHANGED <<added, batch, performed>>
       \/ /\ g # NoGroup
          /\ (th = OwnerOf[g] /\ phase[g] # "gone") \/ Inside(th, g)
          /\ Count(th, g)
          /\ \/ UNCHANGED <<batch, performed>>
             \/ OnItsThread(th, g) /\ Collected(th, g)
    /\ Goto(t, "counted")
    /\ adder' = [adder EXCEPT ![t] = th]
    /\ UNCHANGED <<poolVars, phase, completed, loaded>>

\* The rest of pushTask.
PushTask(t) ==
    /\ At(t, "counted")
    /\ Pool!Submit(t)
    /\ Goto(t, "queued")
    /\ UNCHANGED <<adder, groupVars>>

StartTask(t) ==
    /\ Pool!Start(t)
    /\ Goto(t, "execute")
    /\ UNCHANGED <<adder, groupVars>>

\* AsyncTask::run returns and onPerformed puts the task into the group's
\* queue, under _mutex.  A task that made a group has waited for it.  A task
\* without a group is completed and destroyed by its worker.
OnPerformed(t) ==
    LET g == GroupOf[t] IN
    /\ At(t, "execute")
    /\ ~Adding(t)
    /\ batch[t] = {}
    /\ \A h \in Groups : OwnerOf[h] = t => phase[h] = "gone" \/ (phase[h] = "open" /\ added[h] = 0)
    /\ IF g = NoGroup
       THEN Goto(t, "called") /\ UNCHANGED performed
       ELSE Goto(t, "notify") /\ performed' = [performed EXCEPT ![g] = @ \cup {t}]
    /\ UNCHANGED <<poolVars, adder, phase, added, completed, loaded, batch>>

\* onPerformed, second part: _condition.notify_one, and _notifyFn.
Notify(t) ==
    /\ At(t, "notify")
    /\ IF phase[GroupOf[t]] = "asleep"
       THEN Enter(GroupOf[t], "collect")
       ELSE UNCHANGED phase
    /\ Goto(t, "called")
    /\ UNCHANGED <<poolVars, adder, added, completed, loaded, performed, batch>>

\* The worker is free again.
Release(t) ==
    /\ At(t, "called")
    /\ Pool!Finish(t)
    /\ Goto(t, "released")
    /\ UNCHANGED <<adder, groupVars>>

----------------------------------------------------------------------------
\* update called by the owner between other work.
Update(g) ==
    /\ phase[g] = "open"
    /\ InUserCode(OwnerOf[g])
    /\ performed[g] # {}
    /\ Collected(OwnerOf[g], g)
    /\ UNCHANGED <<poolVars, step, adder, phase, added, completed, loaded>>

\* waitForAll, not from a completion: the owner runs update first.
WaitForAll(g) ==
    /\ phase[g] = "open"
    /\ InUserCode(OwnerOf[g])
    /\ batch[OwnerOf[g]] = {}
    /\ Enter(g, "collect")
    /\ UNCHANGED <<poolVars, step, adder, added, completed, loaded, performed, batch>>

Collect(g) ==
    /\ phase[g] = "collect"
    /\ Collected(OwnerOf[g], g)
    /\ Enter(g, "complete")
    /\ UNCHANGED <<poolVars, step, adder, added, completed, loaded>>

\* The body of update's loop: onComplete, ++ _completed, destroy.
Complete(th, t) ==
    /\ t \in batch[th]
    /\ batch' = [batch EXCEPT ![th] = @ \ {t}]
    /\ completed' = [completed EXCEPT ![GroupOf[t]] = @ + 1]
    /\ UNCHANGED <<poolVars, step, adder, phase, added, loaded, performed>>

\* Mutant of Finished: the owner leaves when there is nothing to collect.
FinishedEmpty(g) == performed[g] = {}

\* What was loaded first, and the other counter now.
Finished(g) == loaded[g] = IF phase[g] = "added" THEN completed[g] ELSE added[g]

\* while (_added != _completed): the counters are loaded one after the other,
\* and the language leaves open in which order.
LoadCounter(g) ==
    /\ phase[g] = "complete"
    /\ batch[OwnerOf[g]] = {}
    /\ ~Adding(OwnerOf[g])
    /\ \/ Enter(g, "added") /\ loaded' = [loaded EXCEPT ![g] = added[g]]
       \/ Enter(g, "completed") /\ loaded' = [loaded EXCEPT ![g] = completed[g]]
    /\ UNCHANGED <<poolVars, step, adder, added, completed, performed, batch>>

\* The second load and the comparison.  A notification between it and the wait
\* finds nobody, like one that comes between update and the test.
TestCounters(g) ==
    /\ phase[g] \in {"added", "completed"}
    /\ Enter(g, IF Finished(g) THEN "gone" ELSE "asleep")
    /\ UNCHANGED <<poolVars, step, adder, added, completed, loaded, performed, batch>>

\* Mutant of WaitTimeout: _condition.wait without a time.
WaitTimeoutNever(g) == phase[g] = "asleep" /\ FALSE /\ UNCHANGED vars

\* _condition.wait_for ends after 50 ms.
WaitTimeout(g) ==
    /\ phase[g] = "asleep"
    /\ Enter(g, "collect")
    /\ UNCHANGED <<poolVars, step, adder, added, completed, loaded, performed, batch>>

\* UnixRoot::cancel: queued tasks may stay where they are.
Cancel == Pool!Close /\ UNCHANGED <<step, adder, groupVars>>

----------------------------------------------------------------------------
WorkerStep(t) == PushTask(t) \/ OnPerformed(t) \/ Notify(t) \/ Release(t)

CompleteStep(th) == \E t \in Tasks : Complete(th, t)

OwnerStep(g) == Collect(g) \/ LoadCounter(g) \/ TestCounters(g) \/ WaitTimeout(g)

Next ==
    \/ \E t \in Tasks : WorkerStep(t) \/ StartTask(t) \/ \E th \in Threads : OnAdded(th, t)
    \/ \E th \in Threads : CompleteStep(th)
    \/ \E g \in Groups : OwnerStep(g) \/ Update(g) \/ WaitForAll(g)
    \/ Cancel

\* Threads run, the pool keeps its promise, and a task that uses a group waits
\* for it.
Fairness ==
    /\ \A t \in Tasks : WF_vars(WorkerStep(t)) /\ SF_vars(~closed /\ StartTask(t))
    /\ \A th \in Threads : WF_vars(CompleteStep(th))
    /\ \A g \in Groups : WF_vars(OwnerStep(g)) /\ WF_vars(OwnerOf[g] # Main /\ WaitForAll(g))

Spec == Init /\ [][Next]_vars /\ Fairness

----------------------------------------------------------------------------
\* Added and not complete: on the way through the pool, in the group's queue, or
\* collected by update.
Unfinished(g) ==
    {t \in Tasks :
        /\ GroupOf[t] = g
        /\ \/ step[t] \in {"counted", "queued", "execute"}
           \/ t \in performed[g]
           \/ \E th \in Threads : t \in batch[th]}

\* The two counters of a group differ by the tasks that were added and are not
\* complete: no task is lost or completed twice between the worker that runs
\* it, _queue, and two threads inside update.
GroupBalance ==
    \A g \in Groups : added[g] = completed[g] + Cardinality(Unfinished(g))

\* waitForAll loaded _added, and then a task of the group added another one.
Missed(g) == added[g] > loaded[g]

\* When waitForAll returns, every task of the group that was added, by the
\* owner or by another task of the group, is executed and complete.  Only if
\* another thread than the owner completes tasks, too, that of a worker that
\* made the group, can it return too early: when a task is added between the
\* two loads, and as many complete there as were missing.
WaitIsComplete ==
    \A g \in Groups :
        phase[g] = "gone" => Unfinished(g) = {} \/ (g \in MadeByWorker /\ Missed(g))

\* A task is in one place at a time: the strengthening that makes GroupBalance
\* inductive.
Performed == {"notify", "called", "released"}

Places ==
    /\ \A t \in waiting : step[t] = "queued"
    /\ \A g \in Groups : \A t \in performed[g] : GroupOf[t] = g /\ step[t] \in Performed
    /\ \A th \in Threads : \A t \in batch[th] :
        /\ GroupOf[t] \in Groups
        /\ step[t] \in Performed
        /\ t \notin performed[GroupOf[t]]
    /\ \A th, u \in Threads : th # u => batch[th] \cap batch[u] = {}

\* Only the owner completes the tasks of a group it made, and nothing while it
\* waits.  What it loaded is then not met by chance: either it is still the
\* whole, or a task that it counts is on its way.
Waits == {"collect", "added", "completed", "asleep"}

Loading ==
    /\ \A th \in Threads : \A t \in batch[th] :
        GroupOf[t] \notin MadeByWorker => th = OwnerOf[GroupOf[t]]
    /\ \A g \in Groups :
        /\ phase[g] \in Waits => batch[OwnerOf[g]] = {}
        /\ phase[g] = "added" =>
            /\ loaded[g] <= added[g]
            /\ g \notin MadeByWorker => loaded[g] = added[g] \/ completed[g] < loaded[g]
        /\ phase[g] = "completed" => loaded[g] <= completed[g]

GroupInv == TypeOK /\ Places /\ Loading /\ GroupBalance /\ WaitIsComplete

\* The counters and the queue of a group that its owner may have destroyed are
\* not used again, unless it returned too early: no late onAdded, no late push
\* in onPerformed.
GoneIsQuiet ==
    [][\A g \in Groups :
        phase[g] = "gone" /\ ~(g \in MadeByWorker /\ Missed(g)) =>
            UNCHANGED <<added[g], completed[g], performed[g]>>]_vars

\* Every worker is inside waitForAll.
Starved ==
    Cardinality({t \in running : \E g \in Groups :
                    OwnerOf[g] = t /\ phase[g] \in Waits \cup {"complete"}}) = Capacity

\* waitForAll returns, also for a task that waits for a group of its own on a
\* worker, unless the server is cancelled under it, or all the workers are left
\* waiting and none to run what they wait for.
WaitReturns ==
    \A g \in Groups :
        phase[g] \in Waits \cup {"complete"} ~> phase[g] = "gone" \/ closed \/ []Starved
=============================================================================
