------------------------------ MODULE UnixRoot ------------------------------
(***************************************************************************)
(* stappler::web::UnixRoot with its ConnectionQueue and ConnectionWorkers: *)
(* the whole unix server as one specification.  The main thread starts the *)
(* workers (init) and stops them (cancel); it and the workers themselves   *)
(* push tasks (performTask), a worker while it runs a task or a request;   *)
(* peers connect and send.                                                 *)
(***************************************************************************)
EXTENDS ConnectionWorker

CONSTANT
    Main        \* the thread that owns the root

ASSUME MainAssumption == Main \notin Workers

Actors == Workers \cup {Main}

VARIABLES
    root,       \* the life of the root, a step of UnixRoot::init or cancel
    pushStep,   \* where each actor is in pushTask
    fresh,      \* tasks not created yet
    done        \* tasks that ran and were released

rootVars == <<root, pushStep, fresh, done>>
vars == <<pollVars, queueVars, workerVars, rootVars>>

Stages == {"init", "running", "joining", "stopped"}
PushSteps == {"none", "queued", "counted"}

TypeOK ==
    /\ EventPollTypeOK
    /\ ConnectionQueueTypeOK
    /\ ConnectionWorkerTypeOK
    /\ root \in Stages
    /\ pushStep \in [Actors -> PushSteps]
    /\ fresh \in SUBSET Tasks
    /\ done \in SUBSET Tasks

Init ==
    /\ EventPollInit
    /\ ConnectionQueueInit
    /\ ConnectionWorkerInit
    /\ root = "init"
    /\ pushStep = [a \in Actors |-> "none"]
    /\ fresh = Tasks
    /\ done = {}

----------------------------------------------------------------------------
\* UnixRoot::init: ConnectionQueue::run creates the workers one by one; each
\* thread starts before the constructor retains the queue.
SpawnWorker(w) ==
    /\ root = "init"
    /\ At(w, "none")
    /\ Goto(w, "start")
    /\ Retain
    /\ UNCHANGED <<pollVars, queue, taskCounter, rootVars,
                   batch, value, task, shouldClose, errnoIntr, accepted>>

FinishInit ==
    /\ root = "init"
    /\ \A w \in Workers : pc[w] # "none"
    /\ root' = "running"
    /\ UNCHANGED <<pollVars, queueVars, workerVars, pushStep, fresh, done>>

\* performTask: may this actor call it now?  The main thread does so between
\* init and cancel, a worker from the code of a task or of a request.
MayPush(a) ==
    \/ a = Main /\ root = "running"
    \/ a \in Workers /\ (pc[a] = "run" \/ pc[a] = "serve")

PerformTask(a, t) ==
    /\ pushStep[a] = "none"
    /\ MayPush(a)
    /\ t \in fresh
    /\ fresh' = fresh \ {t}
    /\ PushTask(t)
    /\ pushStep' = [pushStep EXCEPT ![a] = "queued"]
    /\ UNCHANGED <<pollVars, refCount, workerVars, root, done>>

CountPushed(a) ==
    /\ pushStep[a] = "queued"
    /\ CountTask
    /\ pushStep' = [pushStep EXCEPT ![a] = "counted"]
    /\ UNCHANGED <<pollVars, refCount, workerVars, root, fresh, done>>

SignalPushed(a) ==
    /\ pushStep[a] = "counted"
    /\ WriteEvent(1, Registered, Waiting)
    /\ pushStep' = [pushStep EXCEPT ![a] = "none"]
    /\ UNCHANGED <<cancelPipe, backlog, unread, queueVars, workerVars, root, fresh, done>>

\* The user's code of a task or of a request returns: no push is under way.
ReturnTask(w) ==
    /\ pushStep[w] = "none"
    /\ FinishTask(w)
    /\ done' = done \cup {task[w]}
    /\ UNCHANGED <<root, pushStep, fresh>>

ReturnClient(w) ==
    /\ pushStep[w] = "none"
    /\ FinishClient(w)
    /\ UNCHANGED rootVars

----------------------------------------------------------------------------
\* UnixRoot::cancel and ConnectionQueue::cancel: write "END!", then join and
\* delete the workers, then drop the root's reference.
StartCancel ==
    /\ root = "running"
    /\ pushStep[Main] = "none"
    /\ root' = "joining"
    /\ cancelPipe' = TRUE
    /\ Notify("cancel", Registered)
    /\ UNCHANGED <<eventFd, backlog, unread, queueVars, workerVars, pushStep, fresh, done>>

JoinWorker(w) ==
    /\ root = "joining"
    /\ At(w, "closed")
    /\ Goto(w, "joined")
    /\ Release
    /\ UNCHANGED <<pollVars, queue, taskCounter, rootVars,
                   batch, value, task, shouldClose, errnoIntr, accepted>>

FinishCancel ==
    /\ root = "joining"
    /\ \A w \in Workers : At(w, "joined")
    /\ Release
    /\ root' = "stopped"
    /\ UNCHANGED <<pollVars, queue, taskCounter, workerVars, pushStep, fresh, done>>

----------------------------------------------------------------------------
\* The peers.
Connect(c) ==
    /\ root = "running"
    /\ c \notin backlog
    /\ \A w \in Workers : c \notin accepted[w]
    /\ backlog' = backlog \cup {c}
    /\ NotifyExclusive("input", Registered, Waiting)
    /\ UNCHANGED <<eventFd, cancelPipe, unread, queueVars, workerVars, rootVars>>

Send(c) ==
    /\ root = "running"
    /\ c \notin unread
    /\ c \in backlog \/ \E w \in Workers : c \in accepted[w]
    /\ unread' = unread \cup {c}
    /\ Notify(c, {w \in Workers : c \in accepted[w]})
    /\ UNCHANGED <<eventFd, cancelPipe, backlog, queueVars, workerVars, rootVars>>

----------------------------------------------------------------------------
\* The steps a worker takes by itself, and those of a pushing thread.
WorkerStep(w) ==
    \/ /\ \/ ThreadInit(w) \/ EpollWait(w)
          \/ ReadEvent(w) \/ TakeTask(w) \/ Forward(w)
          \/ DispatchEvent(w) \/ DispatchCancel(w) \/ DispatchInput(w)
          \/ \E c \in Clients : Accept(w, c) \/ DispatchClient(w, c)
          \/ AcceptDone(w) \/ EndBatch(w) \/ Close(w)
       /\ UNCHANGED rootVars
    \/ ReturnTask(w)
    \/ ReturnClient(w)

PushStep(a) == CountPushed(a) \/ SignalPushed(a)

RootStep ==
    \/ \E w \in Workers : SpawnWorker(w) \/ JoinWorker(w)
    \/ FinishInit
    \/ FinishCancel

Environment ==
    \/ \E c \in Clients : Connect(c) \/ Send(c)
    \/ \E w \in Workers : EpollInterrupted(w) /\ UNCHANGED rootVars

Next ==
    \/ \E w \in Workers : WorkerStep(w)
    \/ \E a \in Actors : PushStep(a) \/ \E t \in Tasks : PerformTask(a, t)
    \/ RootStep
    \/ StartCancel
    \/ Environment

\* Threads run, and the code of tasks and requests returns; nobody has to
\* push a task, to connect or to call cancel.
Fairness ==
    /\ \A w \in Workers : WF_vars(WorkerStep(w))
    /\ \A a \in Actors : WF_vars(PushStep(a))
    /\ WF_vars(RootStep)

Spec == Init /\ [][Next]_vars /\ Fairness

----------------------------------------------------------------------------
(* Safety *)

\* The wake-ups that workers hold: each one a pair <<worker, number>>.
TokensOf(v) == UNION {{w} \X (1 .. v[w]) : w \in Workers}
HeldTokens == TokensOf(value)

InStep(step) == {a \in Actors : pushStep[a] = step}
Busy == {w \in Workers : task[w] # NoTask}

\* Every queued task has one wake-up of its own, in the eventfd, in the hands
\* of a worker, or still to be written by the thread that pushed it, and no
\* wake-up is without a task: pushTask, popTask and "forward event to another
\* worker" in poll() together neither lose nor invent one.
TokenBalance ==
    Cardinality(queue) =
        eventFd + Cardinality(HeldTokens)
        + Cardinality(InStep("queued")) + Cardinality(InStep("counted"))

\* A worker that read a wake-up finds a task: popTask never returns nullptr.
WokenFindsTask == \A w \in Workers : pc[w] = "pop" => queue # {}

\* The task is pushed before it is counted, so the counter may be behind the
\* queue; it still never wraps below zero, and hasTasks() is false only when
\* no counted task is queued or runs.
CounterBalance ==
    taskCounter = eventFd + Cardinality(HeldTokens)
                  + Cardinality(InStep("counted")) + Cardinality(Busy)

CounterNeverWraps == taskCounter >= 0

\* A wake-up in the eventfd is on its way to a worker that is free to take it,
\* or else every worker will look at it when it is free again: a queued task
\* never waits for a busy worker while an idle one stays in epoll_wait.
WorkConserving ==
    eventFd > 0 =>
        \/ \E w \in Workers : pc[w] = "wait" /\ "event" \in ready[w]
        \/ \E w \in Workers : pc[w] = "read"
        \/ \A w \in Registered : "event" \in ready[w]

\* The queue is deleted, and its eventfd, pipe and socket are closed, only
\* when every worker has been joined and nobody is inside pushTask.
QueueOutlivesUsers ==
    Deleted => /\ \A w \in Workers : pc[w] = "joined"
               /\ \A a \in Actors : pushStep[a] = "none"

\* What a worker holds where: the strengthening that makes the balances
\* inductive.
Holding ==
    /\ \A w \in Workers :
        /\ value[w] > 0 => pc[w] \in {"pop", "forward"}
        /\ pc[w] = "pop" => value[w] > 0
        /\ pc[w] = "run" => task[w] # NoTask
        /\ task[w] # NoTask => pc[w] \in {"forward", "run"}
    /\ queue \cap fresh = {}
    /\ IsFiniteSet(HeldTokens)

\* Who keeps the queue alive: the root and each worker that was started and
\* not joined; and who may be inside pushTask.
Users == {w \in Workers : pc[w] \notin {"none", "joined"}}

ReferenceInv ==
    /\ refCount = Cardinality(Users) + (IF root = "stopped" THEN 0 ELSE 1)
    /\ root = "stopped" => Users = {}
    /\ \A w \in Workers : pushStep[w] # "none" => pc[w] \in {"run", "serve"}
    /\ pushStep[Main] # "none" => root = "running"
    /\ root # "init" => \A w \in Workers : pc[w] # "none"

TokenInv == TypeOK /\ Holding /\ TokenBalance /\ CounterBalance

----------------------------------------------------------------------------
(* Liveness *)

\* UnixRoot::cancel returns once it is called.
CancelReturns == root = "joining" ~> root = "stopped"

\* The server implements the pool of tasks it is meant to be.
Pool == INSTANCE TaskPool WITH
    Capacity <- Cardinality(Workers),
    waiting <- queue,
    running <- {task[w] : w \in Workers} \ {NoTask},
    finished <- done,
    closed <- cancelPipe

ImplementsTaskPool == Pool!Spec
=============================================================================
