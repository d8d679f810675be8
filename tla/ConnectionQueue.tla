-------------------------- MODULE ConnectionQueue --------------------------
(***************************************************************************)
(* stappler::web::ConnectionQueue: the task queue the workers share, the   *)
(* counter of unfinished tasks, the eventfd that carries one wake-up per   *)
(* queued task, and the reference count the root and the workers hold.     *)
(*                                                                         *)
(* pushTask is three steps, because a worker may pop the task between any  *)
(* two of them.  The queue (a memory::PriorityQueue with its own locks) is *)
(* a set: pop may return any element, so that nothing depends on the order *)
(* of the priorities.                                                      *)
(***************************************************************************)
EXTENDS EventPoll, Integers

CONSTANTS
    Tasks,      \* the AsyncTask objects of the instance
    NoTask      \* nullptr

ASSUME TasksAssumption == IsFiniteSet(Tasks) /\ NoTask \notin Tasks

VARIABLES
    queue,        \* _inputQueue
    taskCounter,  \* _taskCounter, as an integer: the size_t is its value mod 2^64
    refCount      \* _refCount; the queue deletes itself at 0

queueVars == <<queue, taskCounter, refCount>>

ConnectionQueueTypeOK ==
    /\ queue \in SUBSET Tasks
    /\ taskCounter \in Int
    /\ refCount \in Int

ConnectionQueueInit ==
    /\ queue = {}
    /\ taskCounter = 0
    /\ refCount = 1

\* pushTask, first part: the task is in the queue and may be popped.
PushTask(t) == queue' = queue \cup {t} /\ UNCHANGED taskCounter

\* Mutant of CountTask: the task is never counted.
CountTaskForgotten == UNCHANGED <<taskCounter, queue>>

\* pushTask, second part: ++ _taskCounter.
CountTask == taskCounter' = taskCounter + 1 /\ UNCHANGED queue

\* Mutants of WriteEvent: the worker forwards one wake-up only, or forgets to
\* subtract the one it keeps.
WriteEventOne(n, registered, waiting) ==
    /\ eventFd' = eventFd + 1
    /\ NotifyExclusive("event", registered, waiting)

WriteEventExtra(n, registered, waiting) ==
    /\ eventFd' = eventFd + n + 1
    /\ NotifyExclusive("event", registered, waiting)

\* pushTask, last part, and the worker's forwarding write: add to the eventfd.
WriteEvent(n, registered, waiting) ==
    /\ eventFd' = eventFd + n
    /\ NotifyExclusive("event", registered, waiting)

\* popTask returns nullptr when the queue is empty.
Poppable == IF queue = {} THEN {NoTask} ELSE queue

PopTask(t) == t \in Poppable /\ queue' = queue \ {t}

\* releaseTask: the task is destroyed, or handed to its group, and uncounted.
ReleaseTask == taskCounter' = taskCounter - 1

\* Mutant of Retain: a worker does not keep the queue alive.
RetainForgotten == UNCHANGED refCount

\* The constructor and the destructor of a worker; the root holds one more.
Retain == refCount' = refCount + 1
Release == refCount' = refCount - 1

Deleted == refCount <= 0
=============================================================================
