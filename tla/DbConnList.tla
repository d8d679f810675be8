----------------------------- MODULE DbConnList -----------------------------
(***************************************************************************)
(* stappler::web::DbConnList behind DbdModule: the pool of database        *)
(* connections that every thread of the server opens from and closes to,   *)
(* for the persistent configuration, in which connections are kept.        *)
(*                                                                         *)
(* A connection is a handle; connect returns one that was never seen.      *)
(* Its age is below exptime until it is Expired, which it stays: the clock *)
(* does not step back.  It may get lost at any time.  The list is pushed   *)
(* and popped under the mutex; the limits are tested before it is taken.   *)
(***************************************************************************)
EXTENDS Naturals, SequencesExt

CONSTANTS
    Users,          \* the threads
    Handles,        \* the connections that can be made
    NKeep, NMax,    \* config.nkeep, config.nmax
    Expires,        \* whether config.exptime is not zero
    NoUser, NoHandle

ASSUME UsersAssumption == IsFiniteSet(Users) /\ NoUser \notin Users

ASSUME HandlesAssumption == NoHandle \notin Handles

\* DbdModule::create clamps both.
ASSUME LimitsAssumption ==
    NKeep \in Nat \ {0} /\ NMax \in Nat \ {0} /\ Expires \in BOOLEAN

VARIABLES
    opened,     \* the list of connections kept, the next to be handed out first
    count,      \* count
    lock,       \* who has the mutex
    target,     \* where cleanup is in the list
    pc,         \* where each user is in open and close
    handle,     \* the connection each user opens or closes now
    held,       \* the connections each user has open
    fresh,      \* handles not connected yet
    expired,    \* connections older than exptime
    lost,       \* connections that are not valid and idle any more
    finished    \* handles the driver has finished

listVars == <<opened, count, lock, target>>
userVars == <<pc, handle, held>>
handleVars == <<fresh, expired, lost, finished>>
vars == <<listVars, userVars, handleVars>>

Steps == {"idle", "openCleanup", "pop", "connect", "check",
          "passed", "closeCleanup", "push", "count"}

TypeOK ==
    /\ opened \in Seq(Handles)
    /\ count \in Nat
    /\ lock \in Users \cup {NoUser}
    /\ target \in Nat \ {0}
    /\ pc \in [Users -> Steps]
    /\ handle \in [Users -> Handles \cup {NoHandle}]
    /\ held \in [Users -> SUBSET Handles]
    /\ fresh \in SUBSET Handles
    /\ expired \in SUBSET Handles
    /\ lost \in SUBSET Handles
    /\ finished \in SUBSET Handles

Init ==
    /\ opened = <<>>
    /\ count = 0
    /\ lock = NoUser
    /\ target = 1
    /\ pc = [u \in Users |-> "idle"]
    /\ handle = [u \in Users |-> NoHandle]
    /\ held = [u \in Users |-> {}]
    /\ fresh = Handles
    /\ expired = {}
    /\ lost = {}
    /\ finished = {}

At(u, here) == pc[u] = here
Goto(u, there) == pc' = [pc EXCEPT ![u] = there]
Take(u, h) == handle' = [handle EXCEPT ![u] = h]
Finish(h) == finished' = finished \cup {h}

----------------------------------------------------------------------------
\* Mutant of LockFor: close does not call cleanup.
LockForUnclean(u, op) ==
    /\ lock = NoUser
    /\ lock' = u
    /\ target' = 1
    /\ Goto(u, IF op = "close" THEN "push" ELSE "openCleanup")
    /\ UNCHANGED <<opened, count, handle, held, handleVars>>

\* open and close take the mutex, and cleanup begins at the head.
LockFor(u, op) ==
    /\ lock = NoUser
    /\ lock' = u
    /\ target' = 1
    /\ Goto(u, IF op = "close" THEN "closeCleanup" ELSE "openCleanup")
    /\ UNCHANGED <<opened, count, handle, held, handleVars>>

Open(u) == At(u, "idle") /\ LockFor(u, "open")

InCleanup(u) == pc[u] \in {"openCleanup", "closeCleanup"}

\* What cleanup removes: the connections that have not expired.  The code reads
\* the clock once, at the beginning; here a connection may expire on the way.
Doomed(h) == Expires /\ h \notin expired

\* Mutant of CleanupRemove: the counter is left alone.
CleanupRemoveUncounted(u) ==
    /\ InCleanup(u)
    /\ count > NKeep
    /\ target <= Len(opened)
    /\ Doomed(opened[target])
    /\ Finish(Head(opened))
    /\ opened' = RemoveAt(opened, target)
    /\ UNCHANGED <<count, lock, target, userVars, fresh, expired, lost>>

\* One round of cleanup's loop.  It finishes the first connection of the list
\* and takes the one at target out of it.
CleanupRemove(u) ==
    /\ InCleanup(u)
    /\ count > NKeep
    /\ target <= Len(opened)
    /\ Doomed(opened[target])
    /\ Finish(Head(opened))
    /\ opened' = RemoveAt(opened, target)
    /\ count' = count - 1
    /\ UNCHANGED <<lock, target, userVars, fresh, expired, lost>>

CleanupNext(u) ==
    /\ InCleanup(u)
    /\ count > NKeep
    /\ target < Len(opened)
    /\ ~Doomed(opened[target])
    /\ target' = target + 1
    /\ UNCHANGED <<opened, count, lock, userVars, handleVars>>

CleanupDone(u) ==
    /\ InCleanup(u)
    /\ \/ count <= NKeep
       \/ target = Len(opened) /\ ~Doomed(opened[target])
    /\ Goto(u, IF At(u, "openCleanup") THEN "pop" ELSE "push")
    /\ UNCHANGED <<listVars, handle, held, handleVars>>

\* isValid of a finished handle reads freed memory and may answer anything.
MayBeValid(h) == h \in finished \/ h \notin lost
MayBeInvalid(h) == h \in finished \/ h \in lost

\* Mutant of PopValid: the connection is handed out and stays in the list.
PopValidKept(u) ==
    /\ At(u, "pop")
    /\ opened # <<>>
    /\ MayBeValid(Head(opened))
    /\ Take(u, Head(opened))
    /\ lock' = NoUser
    /\ Goto(u, "check")
    /\ UNCHANGED <<opened, count, target, held, handleVars>>

\* One round of open's loop: the connection is handed out, or is finished and
\* the next one is tried.
PopValid(u) ==
    /\ At(u, "pop")
    /\ opened # <<>>
    /\ MayBeValid(Head(opened))
    /\ Take(u, Head(opened))
    /\ opened' = Tail(opened)
    /\ count' = count - 1
    /\ lock' = NoUser
    /\ Goto(u, "check")
    /\ UNCHANGED <<target, held, handleVars>>

PopInvalid(u) ==
    /\ At(u, "pop")
    /\ opened # <<>>
    /\ MayBeInvalid(Head(opened))
    /\ Finish(Head(opened))
    /\ opened' = Tail(opened)
    /\ count' = count - 1
    /\ UNCHANGED <<lock, target, userVars, fresh, expired, lost>>

PopNothing(u) ==
    /\ At(u, "pop")
    /\ opened = <<>>
    /\ lock' = NoUser
    /\ Goto(u, "connect")
    /\ UNCHANGED <<opened, count, target, handle, held, handleVars>>

\* connect makes a connection, or fails and open returns none.
Connect(u) ==
    /\ At(u, "connect")
    /\ \/ \E h \in fresh : Take(u, h) /\ fresh' = fresh \ {h} /\ Goto(u, "check")
       \/ UNCHANGED <<handle, fresh>> /\ Goto(u, "idle")
    /\ UNCHANGED <<listVars, held, expired, lost, finished>>

\* The test in openConnection: an invalid connection is neither handed out nor
\* finished.
OpenConnection(u) ==
    /\ At(u, "check")
    /\ \/ MayBeValid(handle[u]) /\ held' = [held EXCEPT ![u] = @ \cup {handle[u]}]
       \/ MayBeInvalid(handle[u]) /\ UNCHANGED held
    /\ Take(u, NoHandle)
    /\ Goto(u, "idle")
    /\ UNCHANGED <<listVars, handleVars>>

----------------------------------------------------------------------------
\* Mutant of Full: the maximum is forgotten.
FullForgotten(h) == count >= NKeep /\ (~Expires \/ h \notin expired)

\* close tests the limits without the mutex.
Full(h) ==
    \/ count >= NMax
    \/ count >= NKeep /\ (~Expires \/ h \notin expired)

\* Mutant of CloseFinish: the connection is finished and kept.
CloseFinishKept(u, h) ==
    /\ At(u, "idle")
    /\ h \in held[u]
    /\ MayBeInvalid(h) \/ Full(h)
    /\ Finish(h)
    /\ held' = [held EXCEPT ![u] = @ \ {h}]
    /\ Take(u, h)
    /\ Goto(u, "passed")
    /\ UNCHANGED <<listVars, fresh, expired, lost>>

CloseFinish(u, h) ==
    /\ At(u, "idle")
    /\ h \in held[u]
    /\ MayBeInvalid(h) \/ Full(h)
    /\ Finish(h)
    /\ held' = [held EXCEPT ![u] = @ \ {h}]
    /\ UNCHANGED <<listVars, pc, handle, fresh, expired, lost>>

ClosePass(u, h) ==
    /\ At(u, "idle")
    /\ h \in held[u]
    /\ MayBeValid(h)
    /\ ~Full(h)
    /\ held' = [held EXCEPT ![u] = @ \ {h}]
    /\ Take(u, h)
    /\ Goto(u, "passed")
    /\ UNCHANGED <<listVars, handleVars>>

CloseLock(u) == At(u, "passed") /\ LockFor(u, "close")

\* The connection goes to the front of the list, then it is counted.
Push(u) ==
    /\ At(u, "push")
    /\ opened' = <<handle[u]>> \o opened
    /\ Take(u, NoHandle)
    /\ Goto(u, "count")
    /\ UNCHANGED <<count, lock, target, held, handleVars>>

Count(u) ==
    /\ At(u, "count")
    /\ count' = count + 1
    /\ lock' = NoUser
    /\ Goto(u, "idle")
    /\ UNCHANGED <<opened, target, handle, held, handleVars>>

\* Time, and the other end of the connections.
Expire(h) ==
    /\ Expires
    /\ h \notin fresh \cup expired
    /\ expired' = expired \cup {h}
    /\ UNCHANGED <<listVars, userVars, fresh, lost, finished>>

Lose(h) ==
    /\ h \notin fresh \cup lost
    /\ lost' = lost \cup {h}
    /\ UNCHANGED <<listVars, userVars, fresh, expired, finished>>

----------------------------------------------------------------------------
UserStep(u) ==
    \/ CleanupRemove(u) \/ CleanupNext(u) \/ CleanupDone(u)
    \/ PopValid(u) \/ PopInvalid(u) \/ PopNothing(u)
    \/ Connect(u) \/ OpenConnection(u)
    \/ CloseLock(u) \/ Push(u) \/ Count(u)

Next ==
    \/ \E u \in Users :
        \/ UserStep(u) \/ Open(u)
        \/ \E h \in Handles : CloseFinish(u, h) \/ ClosePass(u, h)
    \/ \E h \in Handles : Expire(h) \/ Lose(h)

\* A thread inside open or close goes on; the mutex is not fair.
Fairness == \A u \in Users : WF_vars(UserStep(u))

Spec == Init /\ [][Next]_vars /\ Fairness

----------------------------------------------------------------------------
Counting == {u \in Users : pc[u] = "count"}
Passed == {u \in Users : pc[u] \in {"passed", "closeCleanup", "push", "count"}}

\* count is the length of the list whenever the mutex is free, and behind it
\* by one only inside close.
CountIsLength == Len(opened) = count + Cardinality(Counting)

InHands(u) == held[u] \cup ({handle[u]} \ {NoHandle})

\* No connection is given to two threads, kept twice, or kept and in use.
OneOwner ==
    /\ IsInjective(opened)
    /\ \A u, v \in Users : u # v => InHands(u) \cap InHands(v) = {}
    /\ \A u \in Users : handle[u] \notin held[u] /\ InHands(u) \cap ToSet(opened) = {}

\* cleanup tests only the counter against nkeep, and follows target without a
\* test: it still never runs off the end of the list.
CleanupInList ==
    \A u \in Users : InCleanup(u) /\ count > NKeep => target <= Len(opened)

\* close tests nmax before it takes the mutex, so the list may get longer, but
\* by no more than the other threads.
Bounded == Len(opened) <= NMax + Cardinality(Users) - 1

\* Who has the mutex, and how far the threads that passed the test can take the
\* list: the strengthening that makes the counts inductive.
Locking ==
    \A u \in Users :
        lock = u <=> pc[u] \in {"openCleanup", "pop", "closeCleanup", "push", "count"}

Carrying ==
    \A u \in Users :
        pc[u] \in {"check", "passed", "closeCleanup", "push"} => handle[u] \in Handles

Pressure == count + Cardinality(Passed) <= NMax + Cardinality(Users) - 1

CountInv == TypeOK /\ Locking /\ Carrying /\ CountIsLength /\ Pressure

\* The connections of the list from position k on have expired.
ExpiredFrom(k) == \A i \in 1 .. Len(opened) : i >= k => opened[i] \in expired

\* Why cleanup stays in the list.  It ends with nkeep connections or with expired
\* ones only, and close puts one in front of these: if more than one is to be
\* removed, then only the first of the list can be young.
Swept ==
    Expires =>
        /\ count <= NKeep + 1 \/ ExpiredFrom(2)
        /\ \A u \in Users :
            /\ pc[u] \in {"pop", "push"} => count <= NKeep \/ ExpiredFrom(1)
            /\ pc[u] = "count" => count <= NKeep \/ ExpiredFrom(2)
            /\ InCleanup(u) =>
                \A i \in 1 .. Len(opened) : i < target => opened[i] \in expired

SweptInv == CountInv /\ Swept /\ CleanupInList

\* A connection that was not connected yet is nowhere.
FreshIsFree ==
    /\ fresh \cap ToSet(opened) = {}
    /\ \A u \in Users : fresh \cap InHands(u) = {}

OwnerInv == CountInv /\ OneOwner /\ FreshIsFree

\* Until the first connection expires, and so for ever without an expiry time, a
\* connection that is kept, or in the hands of a thread, was not finished.  After
\* that cleanup breaks it: it finishes the first connection of the list
\* whichever one it takes out.
KeptIsLive ==
    expired = {} =>
        /\ \A i \in DOMAIN opened : opened[i] \notin finished
        /\ \A u \in Users : InHands(u) \cap finished = {}

\* With the connections not made yet: what makes it inductive.
InUse(h) == h \in fresh \cup ToSet(opened) \/ \E u \in Users : h \in InHands(u)
UsedIsLive == expired = {} => \A h \in finished : ~InUse(h)
=============================================================================
