-------------------------- MODULE ConnectionWorker --------------------------
(***************************************************************************)
(* stappler::web::ConnectionWorker: the threads of the unix web server.    *)
(* Each runs poll(): wait for events, serve at most one task from the      *)
(* queue, then handle the rest of the batch, until the cancel pipe is      *)
(* seen.                                                                   *)
(*                                                                         *)
(*   none --> start --> wait --> read --> pop --> forward --> run          *)
(*                       ^  \                                  |           *)
(*                       |   +--------> dispatch <-------------+           *)
(*                       |               |  ^  |                           *)
(*                       |            accept serve                         *)
(*                       +---------------+                                 *)
(*   then close --> closed --> joined, when _shouldClose is set.           *)
(*                                                                         *)
(* What a request does to its client is abstracted: performRead drains the *)
(* socket and the handler runs while the worker is at "serve".  Errors on  *)
(* a descriptor and hang-ups are not modelled here.                        *)
(***************************************************************************)
EXTENDS ConnectionQueue

CONSTANT
    StaleErrno  \* may a task or a handler return with errno = EINTR?

ASSUME StaleErrnoAssumption == StaleErrno \in BOOLEAN

VARIABLES
    pc,           \* where each thread is
    batch,        \* the events of the current epoll_wait not handled yet
    value,        \* the wake-ups the worker read from the eventfd and still owes
    task,         \* the task popped from the queue
    shouldClose,  \* _shouldClose
    errnoIntr,    \* the thread's errno is EINTR
    accepted      \* the clients in the worker's generation

workerVars == <<pc, batch, value, task, shouldClose, errnoIntr, accepted>>

Locations == {"none", "start", "wait", "read", "pop", "forward", "run", "dispatch",
              "accept", "serve", "close", "closed", "joined"}

ConnectionWorkerTypeOK ==
    /\ pc \in [Workers -> Locations]
    /\ batch \in [Workers -> SUBSET Sources]
    /\ value \in [Workers -> Nat]
    /\ task \in [Workers -> Tasks \cup {NoTask}]
    /\ shouldClose \in [Workers -> BOOLEAN]
    /\ errnoIntr \in [Workers -> BOOLEAN]
    /\ accepted \in [Workers -> SUBSET Clients]

ConnectionWorkerInit ==
    /\ pc = [w \in Workers |-> "none"]
    /\ batch = [w \in Workers |-> {}]
    /\ value = [w \in Workers |-> 0]
    /\ task = [w \in Workers |-> NoTask]
    /\ shouldClose = [w \in Workers |-> FALSE]
    /\ errnoIntr = [w \in Workers |-> FALSE]
    /\ accepted = [w \in Workers |-> {}]

\* The workers whose epoll instance exists, and those in epoll_wait.
Registered == {w \in Workers : pc[w] \notin {"none", "start", "closed", "joined"}}
Waiting == {w \in Workers : pc[w] = "wait"}

At(w, here) == pc[w] = here
Goto(w, there) == pc' = [pc EXCEPT ![w] = there]

----------------------------------------------------------------------------
\* threadInit: a new epoll instance with the three system descriptors.
ThreadInit(w) ==
    /\ At(w, "start")
    /\ Register(w, SystemSources)
    /\ Goto(w, "wait")
    /\ UNCHANGED <<eventFd, cancelPipe, backlog, unread, queueVars,
                   batch, value, task, shouldClose, errnoIntr, accepted>>

\* epoll_wait returns.  The code reads errno without looking at the result
\* first: a left-over EINTR makes it drop the batch it was given and go on,
\* after reading the signalfd, which sets errno to EAGAIN.
EpollWait(w) ==
    /\ At(w, "wait")
    /\ ready[w] # {}
    /\ Harvest(w)
    /\ IF errnoIntr[w] /\ Harvested(w) # {}
       THEN /\ errnoIntr' = [errnoIntr EXCEPT ![w] = FALSE]
            /\ UNCHANGED <<pc, batch>>
       ELSE /\ batch' = [batch EXCEPT ![w] = Harvested(w)]
            /\ Goto(w, IF Harvested(w) = {} THEN "wait"
                       ELSE IF "event" \in Harvested(w) THEN "read" ELSE "dispatch")
            /\ UNCHANGED errnoIntr
    /\ UNCHANGED <<eventFd, cancelPipe, backlog, unread, queueVars,
                   value, task, shouldClose, accepted>>

\* epoll_wait fails with EINTR; the signalfd is drained.
EpollInterrupted(w) ==
    /\ At(w, "wait")
    /\ errnoIntr' = [errnoIntr EXCEPT ![w] = FALSE]
    /\ UNCHANGED <<pollVars, queueVars, pc, batch, value, task, shouldClose, accepted>>

----------------------------------------------------------------------------
\* Mutants of ReadEvent: a failed read is taken for a wake-up; the eventfd is
\* read as a semaphore (EFD_SEMAPHORE), one wake-up at a time.
ReadEventUntested(w) ==
    /\ At(w, "read")
    /\ eventFd' = 0
    /\ value' = [value EXCEPT ![w] = eventFd]
    /\ Goto(w, "pop")
    /\ UNCHANGED <<cancelPipe, backlog, unread, ready, queueVars,
                   batch, task, shouldClose, errnoIntr, accepted>>

ReadEventSemaphore(w) ==
    /\ At(w, "read")
    /\ eventFd' = IF eventFd > 0 THEN eventFd - 1 ELSE 0
    /\ value' = [value EXCEPT ![w] = IF eventFd > 0 THEN 1 ELSE 0]
    /\ errnoIntr' = [errnoIntr EXCEPT ![w] = @ /\ eventFd > 0]
    /\ Goto(w, IF eventFd > 0 THEN "pop" ELSE "dispatch")
    /\ UNCHANGED <<cancelPipe, backlog, unread, ready, queueVars,
                   batch, task, shouldClose, accepted>>

\* The first pass: the eventfd.
ReadEvent(w) ==
    /\ At(w, "read")
    /\ eventFd' = 0
    /\ value' = [value EXCEPT ![w] = eventFd]
    /\ errnoIntr' = [errnoIntr EXCEPT ![w] = @ /\ eventFd > 0]
    /\ Goto(w, IF eventFd > 0 THEN "pop" ELSE "dispatch")
    /\ UNCHANGED <<cancelPipe, backlog, unread, ready, queueVars,
                   batch, task, shouldClose, accepted>>

\* The worker keeps one wake-up for itself and owes the others.
TakeTask(w) ==
    /\ At(w, "pop")
    /\ \E t \in Poppable :
        /\ PopTask(t)
        /\ task' = [task EXCEPT ![w] = t]
        /\ Goto(w, IF value[w] > 1 THEN "forward"
                   ELSE IF t = NoTask THEN "dispatch" ELSE "run")
    /\ value' = [value EXCEPT ![w] = @ - 1]
    /\ UNCHANGED <<pollVars, taskCounter, refCount, batch, shouldClose, errnoIntr, accepted>>

\* Mutant of Forward: the wake-ups a worker owes are dropped.
ForwardDropped(w) ==
    /\ At(w, "forward")
    /\ value' = [value EXCEPT ![w] = 0]
    /\ Goto(w, IF task[w] = NoTask THEN "dispatch" ELSE "run")
    /\ UNCHANGED <<pollVars, queueVars, batch, task, shouldClose, errnoIntr, accepted>>

\* "forward event to another worker"
Forward(w) ==
    /\ At(w, "forward")
    /\ WriteEvent(value[w], Registered, Waiting)
    /\ value' = [value EXCEPT ![w] = 0]
    /\ Goto(w, IF task[w] = NoTask THEN "dispatch" ELSE "run")
    /\ UNCHANGED <<cancelPipe, backlog, unread, queueVars,
                   batch, task, shouldClose, errnoIntr, accepted>>

\* runTask: the body of the task ends and releaseTask follows.
FinishTask(w) ==
    /\ At(w, "run")
    /\ ReleaseTask
    /\ task' = [task EXCEPT ![w] = NoTask]
    /\ \E intr \in {FALSE, StaleErrno} :
        errnoIntr' = [errnoIntr EXCEPT ![w] = intr]
    /\ Goto(w, "dispatch")
    /\ UNCHANGED <<pollVars, queue, refCount, batch, value, shouldClose, accepted>>

----------------------------------------------------------------------------
\* The second pass: the rest of the batch, in the order of the ready list.
Handled(w, s) == batch' = [batch EXCEPT ![w] = @ \ {s}]

DispatchEvent(w) ==
    /\ At(w, "dispatch")
    /\ "event" \in batch[w]
    /\ Handled(w, "event")
    /\ UNCHANGED <<pollVars, queueVars, pc, value, task, shouldClose, errnoIntr, accepted>>

\* Mutant of DispatchCancel: the end signal is ignored.
DispatchCancelIgnored(w) ==
    /\ At(w, "dispatch")
    /\ "cancel" \in batch[w]
    /\ Handled(w, "cancel")
    /\ UNCHANGED <<pollVars, queueVars, pc, value, task, shouldClose, errnoIntr, accepted>>

DispatchCancel(w) ==
    /\ At(w, "dispatch")
    /\ "cancel" \in batch[w]
    /\ Handled(w, "cancel")
    /\ shouldClose' = [shouldClose EXCEPT ![w] = TRUE]
    /\ UNCHANGED <<pollVars, queueVars, pc, value, task, errnoIntr, accepted>>

DispatchInput(w) ==
    /\ At(w, "dispatch")
    /\ "input" \in batch[w]
    /\ Goto(w, "accept")
    /\ UNCHANGED <<pollVars, queueVars, batch, value, task, shouldClose, errnoIntr, accepted>>

\* accept and pushFd: the new client joins the worker's epoll instance.
Accept(w, c) ==
    /\ At(w, "accept")
    /\ c \in backlog
    /\ backlog' = backlog \ {c}
    /\ accepted' = [accepted EXCEPT ![w] = @ \cup {c}]
    /\ Register(w, {c})
    /\ UNCHANGED <<eventFd, cancelPipe, unread, queueVars,
                   pc, batch, value, task, shouldClose, errnoIntr>>

\* accept fails with EAGAIN, and "break" leaves the loop over the batch:
\* the events after this one are never handled.
AcceptDone(w) ==
    /\ At(w, "accept")
    /\ backlog = {}
    /\ batch' = [batch EXCEPT ![w] = {}]
    /\ errnoIntr' = [errnoIntr EXCEPT ![w] = FALSE]
    /\ Goto(w, "dispatch")
    /\ UNCHANGED <<pollVars, queueVars, value, task, shouldClose, accepted>>

\* performRead takes every byte of the client and starts its handler.
DispatchClient(w, c) ==
    /\ At(w, "dispatch")
    /\ c \in batch[w]
    /\ Handled(w, c)
    /\ unread' = unread \ {c}
    /\ errnoIntr' = [errnoIntr EXCEPT ![w] = FALSE]
    /\ Goto(w, "serve")
    /\ UNCHANGED <<eventFd, cancelPipe, backlog, ready, queueVars,
                   value, task, shouldClose, accepted>>

FinishClient(w) ==
    /\ At(w, "serve")
    /\ \E intr \in {FALSE, StaleErrno} :
        errnoIntr' = [errnoIntr EXCEPT ![w] = intr]
    /\ Goto(w, "dispatch")
    /\ UNCHANGED <<pollVars, queueVars, batch, value, task, shouldClose, accepted>>

\* The end of the batch: while (!_shouldClose).
EndBatch(w) ==
    /\ At(w, "dispatch")
    /\ batch[w] = {}
    /\ Goto(w, IF shouldClose[w] THEN "close" ELSE "wait")
    /\ UNCHANGED <<pollVars, queueVars, batch, value, task, shouldClose, errnoIntr, accepted>>

\* The generation lets go of its clients, and threadDispose closes epoll.
Close(w) ==
    /\ At(w, "close")
    /\ accepted' = [accepted EXCEPT ![w] = {}]
    /\ ready' = [ready EXCEPT ![w] = {}]
    /\ Goto(w, "closed")
    /\ UNCHANGED <<eventFd, cancelPipe, backlog, unread, queueVars,
                   batch, value, task, shouldClose, errnoIntr>>
=============================================================================
