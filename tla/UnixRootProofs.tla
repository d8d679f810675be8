--------------------------- MODULE UnixRootProofs ---------------------------
(***************************************************************************)
(* Proofs about UnixRoot, for every number of workers, tasks and clients.  *)
(***************************************************************************)
EXTENDS UnixRoot, FiniteSetTheorems, TLAPS

(***************************************************************************)
(* A worker that owes n wake-ups accounts for n of the tokens.             *)
(***************************************************************************)
LEMMA TokenColumn ==
    ASSUME NEW w, NEW n \in Nat
    PROVE  /\ IsFiniteSet({w} \X (1 .. n))
           /\ Cardinality({w} \X (1 .. n)) = n
<1> DEFINE f == [i \in 1 .. n |-> <<w, i>>]
<1>0. f \in [1 .. n -> {w} \X (1 .. n)]
  OBVIOUS
<1>1. f \in Bijection(1 .. n, {w} \X (1 .. n))
  <2>1. ASSUME NEW i \in DOMAIN f, NEW j \in DOMAIN f, f[i] = f[j]
        PROVE  i = j
    BY <2>1
  <2>2. ASSUME NEW p \in {w} \X (1 .. n)
        PROVE  \E i \in 1 .. n : f[i] = p
    <3>1. PICK i \in 1 .. n : p = <<w, i>>
      OBVIOUS
    <3> QED BY <3>1
  <2> QED
    BY <1>0, <2>1, <2>2, Zenon DEF Bijection, Injection, Surjection, IsInjective
<1>2. ExistsBijection(1 .. n, {w} \X (1 .. n))
  BY <1>1 DEF ExistsBijection
<1>3. IsFiniteSet({w} \X (1 .. n))
  BY <1>2, FS_NatBijection
<1> QED
  BY <1>2, <1>3, FS_CountingElements

(***************************************************************************)
(* Changing what one worker owes changes the number of tokens by as much.  *)
(***************************************************************************)
LEMMA TokenCount ==
    ASSUME NEW v \in [Workers -> Nat], NEW w \in Workers, NEW n \in Nat,
           NEW u, u = [v EXCEPT ![w] = n],
           IsFiniteSet(TokensOf(v))
    PROVE  /\ IsFiniteSet(TokensOf(u))
           /\ Cardinality(TokensOf(u)) = Cardinality(TokensOf(v)) - v[w] + n
           /\ Cardinality(TokensOf(v)) >= v[w]
<1> DEFINE All == TokensOf(v)
           Old == {w} \X (1 .. v[w])
           New == {w} \X (1 .. n)
<1>1. /\ IsFiniteSet(Old) /\ Cardinality(Old) = v[w]
      /\ IsFiniteSet(New) /\ Cardinality(New) = n
  BY TokenColumn
<1>2. Old \subseteq All /\ All \cap Old = Old
  BY DEF TokensOf
<1> HIDE DEF All, Old, New
<1>3. /\ IsFiniteSet(All \ Old)
      /\ Cardinality(All \ Old) = Cardinality(All) - v[w]
  <2>1. /\ IsFiniteSet(All \ Old)
        /\ Cardinality(All \ Old) = Cardinality(All) - Cardinality(All \cap Old)
    BY FS_Difference DEF All
  <2>2. Cardinality(All \cap Old) = v[w]
    BY <1>1, <1>2
  <2> QED
    BY <2>1, <2>2
<1>4. (All \ Old) \cap New = {}
  BY DEF TokensOf, All, Old, New
<1>5. TokensOf(u) = (All \ Old) \cup New
  BY DEF TokensOf, All, Old, New
<1>6. /\ IsFiniteSet((All \ Old) \cup New)
      /\ Cardinality((All \ Old) \cup New)
           = Cardinality(All \ Old) + Cardinality(New) - Cardinality((All \ Old) \cap New)
  BY <1>1, <1>3, FS_Union
<1>7. Cardinality((All \ Old) \cap New) = 0
  BY <1>4, FS_EmptySet
<1>8. Cardinality(All) \in Nat /\ Cardinality(All) >= v[w]
  BY <1>1, <1>2, FS_Subset, FS_CardinalityType DEF All
<1>9. v[w] \in Nat
  OBVIOUS
<1>10. Cardinality((All \ Old) \cup New) = Cardinality(All) - v[w] + n
  BY <1>1, <1>3, <1>6, <1>7, <1>8, <1>9
<1> QED
  BY <1>5, <1>6, <1>8, <1>10 DEF All

(***************************************************************************)
(* Every step keeps the variables in their sets.                           *)
(***************************************************************************)
LEMMA TypeStep ==
    ASSUME TypeOK, Holding, [Next]_vars
    PROVE  TypeOK'
<1> USE DEF TypeOK, EventPollTypeOK, ConnectionQueueTypeOK, ConnectionWorkerTypeOK,
            pollVars, queueVars, workerVars, rootVars, At, Goto, Actors,
            Stages, PushSteps, Locations, Sources, SystemSources
<1>1. ASSUME NEW w \in Workers, WorkerStep(w)
      PROVE  TypeOK'
  <2>1. CASE ThreadInit(w) /\ UNCHANGED rootVars
    BY <2>1 DEF ThreadInit, Register
  <2>2. CASE EpollWait(w) /\ UNCHANGED rootVars
    <3>1. Harvested(w) \in SUBSET Sources
      BY DEF Harvested
    <3> HIDE DEF Sources, SystemSources
    <3>2. ready' \in [Workers -> SUBSET Sources]
      BY <2>2, <3>1 DEF EpollWait, Harvest
    <3>3. /\ batch' \in [Workers -> SUBSET Sources]
          /\ errnoIntr' \in [Workers -> BOOLEAN]
          /\ pc' \in [Workers -> Locations]
      BY <2>2, <3>1 DEF EpollWait
    <3> QED
      BY <2>2, <3>2, <3>3 DEF EpollWait
  <2>3. CASE ReadEvent(w) /\ UNCHANGED rootVars
    BY <2>3 DEF ReadEvent
  <2>4. CASE TakeTask(w) /\ UNCHANGED rootVars
    BY <2>4 DEF TakeTask, PopTask, Poppable, Holding
  <2>5. CASE Forward(w) /\ UNCHANGED rootVars
    BY <2>5 DEF Forward, WriteEvent, NotifyExclusive, Notify
  <2>6. CASE DispatchEvent(w) /\ UNCHANGED rootVars
    BY <2>6 DEF DispatchEvent, Handled
  <2>7. CASE DispatchCancel(w) /\ UNCHANGED rootVars
    BY <2>7 DEF DispatchCancel, Handled
  <2>8. CASE DispatchInput(w) /\ UNCHANGED rootVars
    BY <2>8 DEF DispatchInput
  <2>9. ASSUME NEW c \in Clients, Accept(w, c), UNCHANGED rootVars
        PROVE  TypeOK'
    BY <2>9 DEF Accept, Register
  <2>10. ASSUME NEW c \in Clients, DispatchClient(w, c), UNCHANGED rootVars
         PROVE  TypeOK'
    BY <2>10 DEF DispatchClient, Handled
  <2>11. CASE AcceptDone(w) /\ UNCHANGED rootVars
    BY <2>11 DEF AcceptDone
  <2>12. CASE EndBatch(w) /\ UNCHANGED rootVars
    BY <2>12 DEF EndBatch
  <2>13. CASE Close(w) /\ UNCHANGED rootVars
    BY <2>13 DEF Close
  <2>14. CASE ReturnTask(w)
    <3>1. errnoIntr' \in [Workers -> BOOLEAN]
      BY <2>14, StaleErrnoAssumption, Zenon DEF ReturnTask, FinishTask
    <3>2. task[w] \in Tasks
      BY <2>14 DEF ReturnTask, FinishTask, Holding
    <3> QED
      BY <2>14, <3>1, <3>2 DEF ReturnTask, FinishTask, ReleaseTask
  <2>15. CASE ReturnClient(w)
    <3>1. errnoIntr' \in [Workers -> BOOLEAN]
      BY <2>15, StaleErrnoAssumption, Zenon DEF ReturnClient, FinishClient
    <3> QED
      BY <2>15, <3>1 DEF ReturnClient, FinishClient
  <2> QED
    BY <1>1, <2>1, <2>2, <2>3, <2>4, <2>5, <2>6, <2>7, <2>8, <2>9, <2>10,
       <2>11, <2>12, <2>13, <2>14, <2>15, Zenon DEF WorkerStep
<1>2. ASSUME NEW a \in Actors, PushStep(a)
      PROVE  TypeOK'
  BY <1>2 DEF PushStep, CountPushed, SignalPushed, CountTask, WriteEvent,
              NotifyExclusive, Notify
<1>3. ASSUME NEW a \in Actors, NEW t \in Tasks, PerformTask(a, t)
      PROVE  TypeOK'
  BY <1>3 DEF PerformTask, PushTask
<1>4. CASE RootStep
  BY <1>4 DEF RootStep, SpawnWorker, JoinWorker, FinishInit, FinishCancel, Retain, Release
<1>5. CASE StartCancel
  BY <1>5 DEF StartCancel, Notify
<1>6. CASE Environment
  <2>1. ASSUME NEW c \in Clients, Connect(c)
        PROVE  TypeOK'
    BY <2>1 DEF Connect, NotifyExclusive, Notify
  <2>2. ASSUME NEW c \in Clients, Send(c)
        PROVE  TypeOK'
    BY <2>2 DEF Send, Notify
  <2>3. ASSUME NEW w \in Workers, EpollInterrupted(w), UNCHANGED rootVars
        PROVE  TypeOK'
    BY <2>3 DEF EpollInterrupted
  <2> QED
    BY <1>6, <2>1, <2>2, <2>3, Zenon DEF Environment
<1>7. CASE UNCHANGED vars
  BY <1>7 DEF vars
<1> QED
  BY <1>1, <1>2, <1>3, <1>4, <1>5, <1>6, <1>7, Zenon DEF Next


(***************************************************************************)
(* The sets whose sizes the balances relate are finite.                    *)
(***************************************************************************)
LEMMA FiniteParts ==
    ASSUME TypeOK
    PROVE  /\ IsFiniteSet(queue) /\ Cardinality(queue) \in Nat
           /\ IsFiniteSet(Busy) /\ Cardinality(Busy) \in Nat
           /\ \A step : /\ IsFiniteSet(InStep(step))
                        /\ Cardinality(InStep(step)) \in Nat
<1>1. IsFiniteSet(Actors)
  BY SourcesAssumption, FS_AddElement DEF Actors
<1>2. queue \in SUBSET Tasks /\ Busy \in SUBSET Workers
  BY DEF TypeOK, ConnectionQueueTypeOK, Busy
<1>3. \A step : InStep(step) \in SUBSET Actors
  BY DEF InStep
<1> QED
  BY <1>1, <1>2, <1>3, SourcesAssumption, TasksAssumption, FS_Subset, FS_CardinalityType

(***************************************************************************)
(* The steps that touch neither the queue nor a wake-up.                   *)
(***************************************************************************)
TokenState == <<queue, fresh, eventFd, value, task, taskCounter, pushStep>>

Quiet ==
    /\ UNCHANGED TokenState
    /\ \A w \in Workers :
        \/ pc'[w] = pc[w]
        \/ {pc[w], pc'[w]} \cap {"pop", "forward", "run"} = {}

(***************************************************************************)
(* A quiet step keeps the invariant.                                       *)
(***************************************************************************)
LEMMA QuietStep ==
    ASSUME TokenInv, TypeOK', Quiet
    PROVE  TokenInv'
<1>1. HeldTokens' = HeldTokens /\ Busy' = Busy /\ queue' = queue
      /\ InStep("queued")' = InStep("queued") /\ InStep("counted")' = InStep("counted")
  BY DEF Quiet, TokenState, HeldTokens, TokensOf, Busy, InStep
<1>2. Holding'
  BY <1>1 DEF TokenInv, Quiet, TokenState, Holding
<1>3. TokenBalance' /\ CounterBalance'
  BY <1>1 DEF TokenInv, Quiet, TokenState, TokenBalance, CounterBalance
<1> QED
  BY <1>2, <1>3 DEF TokenInv

(***************************************************************************)
(* The steps of the threads that are quiet: starting, waiting in epoll,    *)
(* dispatching, accepting, closing and joining.                            *)
(***************************************************************************)
LEMMA QuietActions ==
    ASSUME TypeOK, Holding, NEW w \in Workers,
           \/ ThreadInit(w) /\ UNCHANGED rootVars
           \/ EpollWait(w) /\ UNCHANGED rootVars
           \/ DispatchEvent(w) /\ UNCHANGED rootVars
           \/ DispatchCancel(w) /\ UNCHANGED rootVars
           \/ DispatchInput(w) /\ UNCHANGED rootVars
           \/ \E c \in Clients : Accept(w, c) \/ DispatchClient(w, c)
           \/ AcceptDone(w) \/ EndBatch(w) \/ Close(w) \/ ReturnClient(w)
           \/ SpawnWorker(w) \/ JoinWorker(w) \/ EpollInterrupted(w),
           UNCHANGED <<pushStep, fresh, done>>
    PROVE  Quiet
<1> USE DEF TypeOK, ConnectionWorkerTypeOK, Quiet, TokenState, At, Goto,
            pollVars, queueVars, workerVars, rootVars
<1>1. CASE ThreadInit(w) /\ UNCHANGED rootVars
  BY <1>1 DEF ThreadInit
<1>2. CASE EpollWait(w) /\ UNCHANGED rootVars
  BY <1>2 DEF EpollWait
<1>3. CASE DispatchEvent(w) /\ UNCHANGED rootVars
  BY <1>3 DEF DispatchEvent
<1>4. CASE DispatchCancel(w) /\ UNCHANGED rootVars
  BY <1>4 DEF DispatchCancel
<1>5. CASE DispatchInput(w) /\ UNCHANGED rootVars
  BY <1>5 DEF DispatchInput
<1>6. ASSUME NEW c \in Clients, Accept(w, c) \/ DispatchClient(w, c)
      PROVE  Quiet
  BY <1>6 DEF Accept, DispatchClient
<1>7. CASE AcceptDone(w) \/ EndBatch(w) \/ Close(w) \/ ReturnClient(w)
  BY <1>7 DEF AcceptDone, EndBatch, Close, ReturnClient, FinishClient
<1>8. CASE SpawnWorker(w) \/ JoinWorker(w) \/ EpollInterrupted(w)
  BY <1>8 DEF SpawnWorker, JoinWorker, EpollInterrupted, Retain, Release
<1> QED
  BY <1>1, <1>2, <1>3, <1>4, <1>5, <1>6, <1>7, <1>8, Zenon

(***************************************************************************)
(* The same, for the step that gives one worker another value.             *)
(***************************************************************************)
LEMMA TokensMove ==
    ASSUME NEW w \in Workers, NEW n \in Nat, value \in [Workers -> Nat],
           value' = [value EXCEPT ![w] = n], IsFiniteSet(HeldTokens)
    PROVE  /\ IsFiniteSet(HeldTokens)'
           /\ Cardinality(HeldTokens)' = Cardinality(HeldTokens) - value[w] + n
<1>1. /\ IsFiniteSet(TokensOf(value'))
      /\ Cardinality(TokensOf(value')) = Cardinality(TokensOf(value)) - value[w] + n
  BY TokenCount DEF HeldTokens
<1> QED
  BY <1>1 DEF HeldTokens

(***************************************************************************)
(* A worker takes the whole eventfd.                                       *)
(***************************************************************************)
LEMMA ReadEventStep ==
    ASSUME TokenInv, TypeOK', NEW w \in Workers, ReadEvent(w), UNCHANGED rootVars
    PROVE  TokenInv'
<1> USE DEF TypeOK, EventPollTypeOK, ConnectionQueueTypeOK, ConnectionWorkerTypeOK,
            queueVars, rootVars, At, Goto
<1>1. TypeOK /\ Holding /\ TokenBalance /\ CounterBalance
  BY Zenon DEF TokenInv
<1>2. /\ value[w] = 0 /\ value \in [Workers -> Nat] /\ eventFd \in Nat
      /\ value' = [value EXCEPT ![w] = eventFd] /\ eventFd' = 0
      /\ IsFiniteSet(HeldTokens)
  BY <1>1 DEF ReadEvent, Holding
<1>3. /\ IsFiniteSet(HeldTokens')
      /\ Cardinality(HeldTokens') = Cardinality(HeldTokens) + eventFd
  <2>1. /\ IsFiniteSet(HeldTokens')
        /\ Cardinality(HeldTokens') = Cardinality(HeldTokens) - value[w] + eventFd
    BY <1>2, TokensMove
  <2>2. Cardinality(HeldTokens) \in Nat
    BY <1>2, FS_CardinalityType
  <2> QED
    BY <1>2, <2>1, <2>2
<1>4. queue' = queue /\ Busy' = Busy /\ taskCounter' = taskCounter
      /\ InStep("queued")' = InStep("queued") /\ InStep("counted")' = InStep("counted")
  BY DEF ReadEvent, Busy, InStep
<1>5. Holding'
  BY <1>1, <1>3 DEF ReadEvent, Holding
<1>6. /\ Cardinality(HeldTokens) \in Nat /\ Cardinality(queue) \in Nat
      /\ Cardinality(Busy) \in Nat
      /\ Cardinality(InStep("queued")) \in Nat /\ Cardinality(InStep("counted")) \in Nat
  BY <1>1, <1>2, FiniteParts, FS_CardinalityType
<1>7. TokenBalance' /\ CounterBalance'
  BY <1>1, <1>2, <1>3, <1>4, <1>6 DEF TokenBalance, CounterBalance
<1> QED
  BY <1>5, <1>7 DEF TokenInv

(***************************************************************************)
(* A worker that owes a wake-up finds a task.                              *)
(***************************************************************************)
LEMMA OwingFindsTask ==
    ASSUME TokenInv, NEW w \in Workers, value[w] > 0
    PROVE  queue # {}
<1>1. /\ value \in [Workers -> Nat] /\ IsFiniteSet(HeldTokens) /\ eventFd \in Nat
      /\ TokenBalance /\ TypeOK
  BY DEF TokenInv, Holding, TypeOK, ConnectionWorkerTypeOK, EventPollTypeOK
<1>2. Cardinality(HeldTokens) >= value[w] /\ Cardinality(HeldTokens) \in Nat
  BY <1>1, TokenCount, FS_CardinalityType DEF HeldTokens
<1>3. Cardinality(queue) > 0
  BY <1>1, <1>2, FiniteParts DEF TokenBalance
<1> QED
  BY <1>3, FS_EmptySet

(***************************************************************************)
(* popTask: one wake-up and one task are used up, and the task runs.       *)
(***************************************************************************)
LEMMA TakeTaskStep ==
    ASSUME TokenInv, TypeOK', NEW w \in Workers, TakeTask(w), UNCHANGED rootVars
    PROVE  TokenInv'
<1> USE DEF TypeOK, EventPollTypeOK, ConnectionQueueTypeOK, ConnectionWorkerTypeOK,
            pollVars, rootVars, At, Goto
<1>1. TypeOK /\ Holding /\ TokenBalance /\ CounterBalance
  BY Zenon DEF TokenInv
<1>2. /\ value[w] > 0 /\ value \in [Workers -> Nat] /\ eventFd \in Nat
      /\ value' = [value EXCEPT ![w] = value[w] - 1] /\ eventFd' = eventFd
      /\ task[w] = NoTask /\ IsFiniteSet(HeldTokens)
  BY <1>1 DEF TakeTask, Holding
<1>3. /\ IsFiniteSet(HeldTokens')
      /\ Cardinality(HeldTokens') = Cardinality(HeldTokens) - 1
  <2>1. value[w] - 1 \in Nat
    BY <1>2
  <2>2. /\ IsFiniteSet(HeldTokens')
        /\ Cardinality(HeldTokens') = Cardinality(HeldTokens) - value[w] + (value[w] - 1)
    BY <1>2, <2>1, TokensMove
  <2>3. Cardinality(HeldTokens) \in Nat
    BY <1>2, FS_CardinalityType
  <2> QED
    BY <1>2, <2>2, <2>3
<1>4. PICK t \in queue : /\ queue' = queue \ {t}
                         /\ task' = [task EXCEPT ![w] = t]
                         /\ pc' = [pc EXCEPT ![w] = IF value[w] > 1 THEN "forward" ELSE "run"]
  <2>1. queue # {}
    BY <1>2, OwingFindsTask
  <2> QED
    <3>1. PICK t \in Poppable :
            /\ PopTask(t)
            /\ task' = [task EXCEPT ![w] = t]
            /\ Goto(w, IF value[w] > 1 THEN "forward"
                       ELSE IF t = NoTask THEN "dispatch" ELSE "run")
      BY Zenon DEF TakeTask
    <3>2. t \in queue /\ t # NoTask
      BY <1>1, <2>1, TasksAssumption DEF Poppable
    <3> QED
      BY <3>1, <3>2 DEF PopTask
<1>5. t # NoTask /\ t \in Tasks
  BY <1>1, TasksAssumption
<1>6. Busy' = Busy \cup {w} /\ w \notin Busy
  BY <1>1, <1>2, <1>4, <1>5 DEF Busy
<1>7. Holding'
  BY <1>1, <1>2, <1>3, <1>4, <1>5 DEF Holding
<1>8. /\ InStep("queued")' = InStep("queued") /\ InStep("counted")' = InStep("counted")
      /\ taskCounter' = taskCounter
  BY DEF TakeTask, InStep
<1>9. /\ Cardinality(queue') = Cardinality(queue) - 1
      /\ Cardinality(Busy') = Cardinality(Busy) + 1
  BY <1>1, <1>4, <1>6, FiniteParts, FS_RemoveElement, FS_AddElement
<1>10. /\ Cardinality(HeldTokens) \in Nat /\ Cardinality(queue) \in Nat
       /\ Cardinality(Busy) \in Nat
       /\ Cardinality(InStep("queued")) \in Nat /\ Cardinality(InStep("counted")) \in Nat
  BY <1>1, <1>2, FiniteParts, FS_CardinalityType
<1>11. TokenBalance' /\ CounterBalance'
  BY <1>1, <1>2, <1>3, <1>8, <1>9, <1>10 DEF TokenBalance, CounterBalance
<1> QED
  BY <1>7, <1>11 DEF TokenInv

(***************************************************************************)
(* "forward event to another worker": what the worker owes goes back.      *)
(***************************************************************************)
LEMMA ForwardStep ==
    ASSUME TokenInv, TypeOK', NEW w \in Workers, Forward(w), UNCHANGED rootVars
    PROVE  TokenInv'
<1> USE DEF TypeOK, EventPollTypeOK, ConnectionQueueTypeOK, ConnectionWorkerTypeOK,
            queueVars, rootVars, At, Goto
<1>1. TypeOK /\ Holding /\ TokenBalance /\ CounterBalance
  BY Zenon DEF TokenInv
<1>2. /\ value[w] \in Nat /\ value \in [Workers -> Nat] /\ eventFd \in Nat
      /\ value' = [value EXCEPT ![w] = 0] /\ eventFd' = eventFd + value[w]
      /\ IsFiniteSet(HeldTokens)
  BY <1>1 DEF Forward, WriteEvent, Holding
<1>3. /\ IsFiniteSet(HeldTokens)'
      /\ Cardinality(HeldTokens)' = Cardinality(HeldTokens) - value[w] + 0
  <2>1. 0 \in Nat
    OBVIOUS
  <2> QED
    BY <1>2, <2>1, TokensMove
<1>4. queue' = queue /\ Busy' = Busy /\ taskCounter' = taskCounter
      /\ InStep("queued")' = InStep("queued") /\ InStep("counted")' = InStep("counted")
  BY DEF Forward, Busy, InStep
<1>5. Holding'
  BY <1>1, <1>3 DEF Forward, Holding
<1>6. /\ Cardinality(HeldTokens) \in Nat /\ Cardinality(queue) \in Nat
      /\ Cardinality(Busy) \in Nat
      /\ Cardinality(InStep("queued")) \in Nat /\ Cardinality(InStep("counted")) \in Nat
  BY <1>1, <1>2, FiniteParts, FS_CardinalityType
<1>7. TokenBalance' /\ CounterBalance'
  BY <1>1, <1>2, <1>3, <1>4, <1>6 DEF TokenBalance, CounterBalance
<1> QED
  BY <1>5, <1>7 DEF TokenInv

(***************************************************************************)
(* releaseTask.                                                            *)
(***************************************************************************)
LEMMA ReturnTaskStep ==
    ASSUME TokenInv, TypeOK', NEW w \in Workers, ReturnTask(w)
    PROVE  TokenInv'
<1> USE DEF TypeOK, EventPollTypeOK, ConnectionQueueTypeOK, ConnectionWorkerTypeOK,
            pollVars, At, Goto
<1>1. TypeOK /\ Holding /\ TokenBalance /\ CounterBalance
  BY Zenon DEF TokenInv
<1>2. /\ HeldTokens' = HeldTokens /\ queue' = queue /\ eventFd' = eventFd
      /\ InStep("queued")' = InStep("queued") /\ InStep("counted")' = InStep("counted")
      /\ taskCounter' = taskCounter - 1
  BY DEF ReturnTask, FinishTask, ReleaseTask, HeldTokens, TokensOf, InStep
<1>3. Busy' = Busy \ {w} /\ w \in Busy
  BY <1>1 DEF ReturnTask, FinishTask, Holding, Busy
<1>4. Cardinality(Busy') = Cardinality(Busy) - 1
  BY <1>1, <1>3, FiniteParts, FS_RemoveElement
<1>5. Holding'
  BY <1>1, <1>2 DEF ReturnTask, FinishTask, Holding
<1>6. /\ Cardinality(HeldTokens) \in Nat /\ Cardinality(Busy) \in Nat
      /\ Cardinality(InStep("counted")) \in Nat
  BY <1>1, FiniteParts, FS_CardinalityType DEF Holding
<1>7. TokenBalance' /\ CounterBalance'
  BY <1>1, <1>2, <1>4, <1>6 DEF TokenBalance, CounterBalance
<1> QED
  BY <1>5, <1>7 DEF TokenInv

(***************************************************************************)
(* The three parts of pushTask.                                            *)
(***************************************************************************)
LEMMA PushTaskStep ==
    ASSUME TokenInv, TypeOK', NEW a \in Actors,
           \/ \E t \in Tasks : PerformTask(a, t)
           \/ CountPushed(a)
           \/ SignalPushed(a)
    PROVE  TokenInv'
<1> USE DEF TypeOK, EventPollTypeOK, ConnectionQueueTypeOK, ConnectionWorkerTypeOK,
            queueVars, pollVars, workerVars
<1>1. TypeOK /\ Holding /\ TokenBalance /\ CounterBalance
  BY Zenon DEF TokenInv
<1>2. HeldTokens' = HeldTokens /\ Busy' = Busy
  BY DEF PerformTask, CountPushed, SignalPushed, HeldTokens, TokensOf, Busy
<1>3. /\ Cardinality(HeldTokens) \in Nat /\ Cardinality(queue) \in Nat
      /\ Cardinality(Busy) \in Nat
      /\ Cardinality(InStep("queued")) \in Nat /\ Cardinality(InStep("counted")) \in Nat
  BY <1>1, FiniteParts, FS_CardinalityType DEF Holding
<1>4. ASSUME NEW t \in Tasks, PerformTask(a, t)
      PROVE  TokenInv'
  <2>1. /\ queue' = queue \cup {t} /\ t \notin queue /\ eventFd' = eventFd
        /\ taskCounter' = taskCounter
    BY <1>1, <1>4 DEF PerformTask, PushTask, Holding
  <2>2. /\ InStep("queued")' = InStep("queued") \cup {a} /\ a \notin InStep("queued")
        /\ InStep("counted")' = InStep("counted")
    BY <1>1, <1>4 DEF PerformTask, InStep
  <2>3. /\ Cardinality(queue') = Cardinality(queue) + 1
        /\ Cardinality(InStep("queued")') = Cardinality(InStep("queued")) + 1
    BY <1>1, <2>1, <2>2, FiniteParts, FS_AddElement
  <2>4. Holding'
    BY <1>1, <1>2, <1>4 DEF PerformTask, PushTask, Holding
  <2>5. TokenBalance' /\ CounterBalance'
    BY <1>1, <1>2, <1>3, <2>1, <2>2, <2>3 DEF TokenBalance, CounterBalance
  <2> QED
    BY <2>4, <2>5 DEF TokenInv
<1>5. CASE CountPushed(a)
  <2>1. /\ queue' = queue /\ eventFd' = eventFd /\ taskCounter' = taskCounter + 1
    BY <1>5 DEF CountPushed, CountTask
  <2>2. /\ InStep("queued")' = InStep("queued") \ {a} /\ a \in InStep("queued")
        /\ InStep("counted")' = InStep("counted") \cup {a} /\ a \notin InStep("counted")
    BY <1>1, <1>5 DEF CountPushed, InStep
  <2>3. /\ Cardinality(InStep("queued")') = Cardinality(InStep("queued")) - 1
        /\ Cardinality(InStep("counted")') = Cardinality(InStep("counted")) + 1
    <3>1. IsFiniteSet(InStep("queued")) /\ IsFiniteSet(InStep("counted"))
      BY <1>1, FiniteParts
    <3>2. Cardinality(InStep("queued")') = Cardinality(InStep("queued")) - 1
      BY <3>1, <2>2, FS_RemoveElement
    <3>3. Cardinality(InStep("counted")') = Cardinality(InStep("counted")) + 1
      BY <3>1, <2>2, FS_AddElement
    <3> QED
      BY <3>2, <3>3
  <2>4. Holding'
    BY <1>1, <1>2, <1>5 DEF CountPushed, CountTask, Holding
  <2>5. TokenBalance' /\ CounterBalance'
    BY <1>1, <1>2, <1>3, <2>1, <2>3 DEF TokenBalance, CounterBalance
  <2> QED
    BY <2>4, <2>5 DEF TokenInv
<1>6. CASE SignalPushed(a)
  <2>1. /\ queue' = queue /\ eventFd' = eventFd + 1 /\ taskCounter' = taskCounter
    BY <1>6 DEF SignalPushed, WriteEvent
  <2>2. /\ InStep("queued")' = InStep("queued")
        /\ InStep("counted")' = InStep("counted") \ {a} /\ a \in InStep("counted")
    BY <1>1, <1>6 DEF SignalPushed, InStep
  <2>3. Cardinality(InStep("counted")') = Cardinality(InStep("counted")) - 1
    BY <1>1, <2>2, FiniteParts, FS_RemoveElement
  <2>4. Holding'
    BY <1>1, <1>2, <1>6 DEF SignalPushed, Holding
  <2>5. TokenBalance' /\ CounterBalance'
    BY <1>1, <1>2, <1>3, <2>1, <2>2, <2>3 DEF TokenBalance, CounterBalance
  <2> QED
    BY <2>4, <2>5 DEF TokenInv
<1> QED
  BY <1>4, <1>5, <1>6, Zenon

(***************************************************************************)
(* The wake-ups and the queued tasks stay in balance at every step.        *)
(***************************************************************************)
LEMMA TokenStep ==
    ASSUME TokenInv, [Next]_vars
    PROVE  TokenInv'
<1>1. TypeOK /\ Holding
  BY Zenon DEF TokenInv
<1>2. TypeOK'
  BY <1>1, TypeStep
<1>3. ASSUME NEW w \in Workers, WorkerStep(w)
      PROVE  TokenInv'
  <2>1. CASE ReadEvent(w) /\ UNCHANGED rootVars
    BY <1>2, <2>1, ReadEventStep
  <2>2. CASE TakeTask(w) /\ UNCHANGED rootVars
    BY <1>2, <2>2, TakeTaskStep
  <2>3. CASE Forward(w) /\ UNCHANGED rootVars
    BY <1>2, <2>3, ForwardStep
  <2>4. CASE ReturnTask(w)
    BY <1>2, <2>4, ReturnTaskStep
  <2>5. CASE \/ /\ \/ ThreadInit(w) \/ EpollWait(w) \/ DispatchEvent(w)
                   \/ DispatchCancel(w) \/ DispatchInput(w)
                   \/ \E c \in Clients : Accept(w, c) \/ DispatchClient(w, c)
                   \/ AcceptDone(w) \/ EndBatch(w) \/ Close(w)
                /\ UNCHANGED rootVars
             \/ ReturnClient(w)
    <3>1. UNCHANGED <<pushStep, fresh, done>>
      BY <2>5 DEF rootVars, ReturnClient
    <3>2. Quiet
      BY <1>1, <2>5, <3>1, QuietActions, Zenon
    <3> QED
      BY <1>2, <3>2, QuietStep
  <2> QED
    BY <1>3, <2>1, <2>2, <2>3, <2>4, <2>5, Zenon DEF WorkerStep
<1>4. ASSUME NEW a \in Actors, PushStep(a) \/ \E t \in Tasks : PerformTask(a, t)
      PROVE  TokenInv'
  BY <1>2, <1>4, PushTaskStep DEF PushStep
<1>5. ASSUME NEW w \in Workers,
             \/ SpawnWorker(w) \/ JoinWorker(w)
             \/ EpollInterrupted(w) /\ UNCHANGED rootVars
      PROVE  TokenInv'
  <2>1. UNCHANGED <<pushStep, fresh, done>>
    BY <1>5 DEF SpawnWorker, JoinWorker, rootVars
  <2>2. Quiet
    BY <1>1, <1>5, <2>1, QuietActions, Zenon
  <2> QED
    BY <1>2, <2>2, QuietStep
<1>6. ASSUME \/ FinishInit \/ FinishCancel \/ StartCancel \/ UNCHANGED vars
             \/ \E c \in Clients : Connect(c) \/ Send(c)
      PROVE  TokenInv'
  <2>1. Quiet
    BY <1>6 DEF FinishInit, FinishCancel, StartCancel, Connect, Send, vars,
                Release, Quiet, TokenState, pollVars, queueVars, workerVars, rootVars
  <2> QED
    BY <1>2, <2>1, QuietStep
<1> QED
  BY <1>3, <1>4, <1>5, <1>6, Zenon DEF Next, RootStep, Environment

(***************************************************************************)
(* A new server has no task and no wake-up.                                *)
(***************************************************************************)
LEMMA TokenInit ==
    ASSUME Init
    PROVE  TokenInv
<1> USE DEF Init, EventPollInit, ConnectionQueueInit, ConnectionWorkerInit
<1>1. TypeOK
  <2>1. EventPollTypeOK
    <3>1. ready \in [Workers -> SUBSET Sources]
      OBVIOUS
    <3> QED
      BY <3>1 DEF EventPollTypeOK
  <2>2. ConnectionWorkerTypeOK
    BY DEF ConnectionWorkerTypeOK, Locations
  <2>3. ConnectionQueueTypeOK
    BY DEF ConnectionQueueTypeOK
  <2> QED
    BY <2>1, <2>2, <2>3 DEF TypeOK, Stages, PushSteps
<1>2. /\ HeldTokens = {} /\ queue = {} /\ Busy = {}
      /\ InStep("queued") = {} /\ InStep("counted") = {}
  BY DEF HeldTokens, TokensOf, Busy, InStep
<1>3. Holding
  BY <1>2, FS_EmptySet DEF Holding
<1>4. TokenBalance /\ CounterBalance
  BY <1>2, FS_EmptySet DEF TokenBalance, CounterBalance
<1> QED
  BY <1>1, <1>3, <1>4 DEF TokenInv

(***************************************************************************)
(* The inductive invariant behind the theorems below.                      *)
(***************************************************************************)
THEOREM TokenInvariance == Spec => []TokenInv
<1>1. Init => TokenInv
  BY TokenInit
<1>2. TokenInv /\ [Next]_vars => TokenInv'
  BY TokenStep
<1> QED
  BY <1>1, <1>2, PTL DEF Spec

(***************************************************************************)
(* Every variable of the server stays in its set.                          *)
(***************************************************************************)
THEOREM TypeCorrect == Spec => []TypeOK
<1>1. TokenInv => TypeOK
  BY Zenon DEF TokenInv
<1> QED
  BY <1>1, TokenInvariance, PTL

(***************************************************************************)
(* pushTask and poll() neither lose nor invent a wake-up, and the counter  *)
(* follows them.                                                           *)
(***************************************************************************)
THEOREM WakeUpsBalance == Spec => [](TokenBalance /\ CounterBalance)
<1>1. TokenInv => TokenBalance /\ CounterBalance
  BY Zenon DEF TokenInv
<1> QED
  BY <1>1, TokenInvariance, PTL

(***************************************************************************)
(* A worker that read a wake-up never finds the queue empty.               *)
(***************************************************************************)
THEOREM WokenNeverIdle == Spec => []WokenFindsTask
<1>1. TokenInv => WokenFindsTask
  BY OwingFindsTask DEF TokenInv, Holding, WokenFindsTask
<1> QED
  BY <1>1, TokenInvariance, PTL

(***************************************************************************)
(* The task counter never wraps below zero.                                *)
(***************************************************************************)
THEOREM CounterIsSound == Spec => []CounterNeverWraps
<1>1. TokenInv => CounterNeverWraps
  <2> SUFFICES ASSUME TokenInv PROVE CounterNeverWraps
    OBVIOUS
  <2>1. /\ Cardinality(HeldTokens) \in Nat /\ eventFd \in Nat
        /\ Cardinality(Busy) \in Nat /\ Cardinality(InStep("counted")) \in Nat
    BY FiniteParts, FS_CardinalityType DEF TokenInv, Holding, TypeOK, EventPollTypeOK
  <2> QED
    BY <2>1 DEF TokenInv, CounterBalance, CounterNeverWraps
<1> QED
  BY <1>1, TokenInvariance, PTL

(***************************************************************************)
(* What makes WorkConserving inductive: no errno hides a batch.            *)
(***************************************************************************)
WakeInv == TypeOK /\ Holding /\ WorkConserving /\ \A w \in Workers : ~errnoIntr[w]

(***************************************************************************)
(* Writing to the eventfd reaches a waiting worker, or else every worker.  *)
(***************************************************************************)
LEMMA WriteReaches ==
    ASSUME TypeOK, NEW n, WriteEvent(n, Registered, Waiting)
    PROVE  \/ \E w \in Workers : pc[w] = "wait" /\ "event" \in ready'[w]
           \/ \A w \in Registered : "event" \in ready'[w]
<1>1. PICK woken \in SUBSET Registered :
        /\ woken \cap Waiting # {} \/ woken = Registered
        /\ Notify("event", woken)
  BY Zenon DEF WriteEvent, NotifyExclusive
<1>2. \A w \in woken : w \in Workers /\ "event" \in ready'[w]
  BY <1>1 DEF Notify, Registered
<1> QED
  BY <1>1, <1>2 DEF Waiting

(***************************************************************************)
(* Every step that leaves a wake-up in the eventfd leaves a worker that    *)
(* will take it.                                                           *)
(***************************************************************************)
LEMMA WakeStep ==
    ASSUME WakeInv, [Next]_vars, ~StaleErrno, TypeOK', Holding'
    PROVE  WakeInv'
<1> DEFINE Reached ==
             \/ \E w \in Workers : pc[w] = "wait" /\ "event" \in ready[w]
             \/ \E w \in Workers : pc[w] = "read"
             \/ \A w \in Registered : "event" \in ready[w]
           Clean == \A w \in Workers : ~errnoIntr[w]
<1> USE DEF At, Goto, pollVars, queueVars, workerVars, rootVars
<1>1. TypeOK /\ (eventFd > 0 => Reached) /\ Clean /\ eventFd \in Nat
      /\ pc \in [Workers -> Locations] /\ errnoIntr \in [Workers -> BOOLEAN]
      /\ ready \in [Workers -> SUBSET Sources]
  BY DEF WakeInv, WorkConserving, TypeOK, EventPollTypeOK, ConnectionWorkerTypeOK
<1>2. SUFFICES (eventFd' > 0 => Reached') /\ Clean'
  BY DEF WakeInv, WorkConserving
<1>3. ASSUME NEW w \in Workers, WorkerStep(w)
      PROVE  (eventFd' > 0 => Reached') /\ Clean'
  <2>1. CASE ThreadInit(w)
    BY <1>1, <2>1 DEF ThreadInit, Register, Readable, Registered, SystemSources
  <2>2. CASE EpollWait(w)
    BY <1>1, <2>2 DEF EpollWait, Harvest, Harvested, Readable, Registered
  <2>3. CASE ReadEvent(w)
    BY <1>1, <2>3 DEF ReadEvent
  <2>4. CASE TakeTask(w)
    BY <1>1, <2>4 DEF TakeTask, Registered
  <2>5. CASE Forward(w)
    BY <1>1, <2>5, WriteReaches DEF Forward, Registered
  <2>6. CASE DispatchEvent(w) \/ DispatchCancel(w) \/ DispatchInput(w)
             \/ AcceptDone(w) \/ EndBatch(w)
    BY <1>1, <2>6 DEF DispatchEvent, DispatchCancel, DispatchInput, AcceptDone,
                      EndBatch, Registered
  <2>7. ASSUME NEW c \in Clients, Accept(w, c) \/ DispatchClient(w, c)
        PROVE  (eventFd' > 0 => Reached') /\ Clean'
    BY <1>1, <2>7 DEF Accept, DispatchClient, Register, Registered
  <2>8. CASE Close(w)
    BY <1>1, <2>8 DEF Close, Registered
  <2>9. CASE ReturnTask(w) \/ ReturnClient(w)
    BY <1>1, <2>9 DEF ReturnTask, FinishTask, ReturnClient, FinishClient, Registered
  <2> QED
    BY <1>3, <2>1, <2>2, <2>3, <2>4, <2>5, <2>6, <2>7, <2>8, <2>9, Zenon DEF WorkerStep
<1>4. ASSUME NEW a \in Actors, PushStep(a) \/ \E t \in Tasks : PerformTask(a, t)
      PROVE  (eventFd' > 0 => Reached') /\ Clean'
  BY <1>1, <1>4, WriteReaches
     DEF PushStep, CountPushed, SignalPushed, PerformTask, Registered
<1>5. ASSUME NEW w \in Workers,
             SpawnWorker(w) \/ JoinWorker(w) \/ EpollInterrupted(w)
      PROVE  (eventFd' > 0 => Reached') /\ Clean'
  BY <1>1, <1>5 DEF SpawnWorker, JoinWorker, EpollInterrupted, Registered
<1>6. CASE FinishInit \/ FinishCancel \/ UNCHANGED vars
  BY <1>1, <1>6 DEF FinishInit, FinishCancel, vars, Registered
<1>7. ASSUME StartCancel \/ \E c \in Clients : Connect(c) \/ Send(c)
      PROVE  (eventFd' > 0 => Reached') /\ Clean'
  BY <1>1, <1>7 DEF StartCancel, Connect, Send, NotifyExclusive, Notify, Registered
<1> QED
  BY <1>3, <1>4, <1>5, <1>6, <1>7, Zenon DEF Next, RootStep, Environment

(***************************************************************************)
(* If no code leaves EINTR in errno, a queued task never waits for a busy  *)
(* worker while an idle one stays blocked in epoll_wait.                   *)
(***************************************************************************)
THEOREM WorkIsConserved ==
    ASSUME ~StaleErrno
    PROVE  Spec => []WorkConserving
<1>1. Init => WakeInv
  <2> SUFFICES ASSUME Init PROVE WakeInv
    OBVIOUS
  <2>1. TypeOK /\ Holding
    BY TokenInit DEF TokenInv
  <2>2. eventFd = 0 /\ \A w \in Workers : ~errnoIntr[w]
    BY DEF Init, EventPollInit, ConnectionWorkerInit
  <2> QED
    BY <2>1, <2>2 DEF WakeInv, WorkConserving
<1>2. TokenInv' /\ WakeInv /\ [Next]_vars => WakeInv'
  BY WakeStep DEF TokenInv
<1>3. WakeInv => WorkConserving
  BY Zenon DEF WakeInv
<1> QED
  BY <1>1, <1>2, <1>3, TokenInvariance, PTL DEF Spec

(***************************************************************************)
(* Steps after which the same threads hold a reference.                    *)
(***************************************************************************)
SameUsers ==
    /\ UNCHANGED <<refCount, root>>
    /\ \A w \in Workers :
        /\ pc'[w] \in {"none", "joined"} <=> pc[w] \in {"none", "joined"}
        /\ pc'[w] = "none" => pc[w] = "none"
        /\ pushStep'[w] # "none" => pc'[w] \in {"run", "serve"}
    /\ pushStep'[Main] # "none" => root = "running"

(***************************************************************************)
(* Such a step keeps the references in balance.                            *)
(***************************************************************************)
LEMMA SameUsersStep ==
    ASSUME ReferenceInv, SameUsers
    PROVE  ReferenceInv'
<1>1. Users' = Users
  BY DEF SameUsers, Users
<1> QED
  BY <1>1 DEF ReferenceInv, SameUsers

\* The steps between init and cancel.
ServingStep ==
    \/ \E w \in Workers : WorkerStep(w)
    \/ \E a \in Actors : PushStep(a) \/ \E t \in Tasks : PerformTask(a, t)
    \/ Environment

(***************************************************************************)
(* All the steps are of that kind but those of init and of cancel.         *)
(***************************************************************************)
LEMMA SameUsersActions ==
    ASSUME TypeOK, ReferenceInv, ServingStep \/ UNCHANGED vars
    PROVE  SameUsers
<1> USE DEF SameUsers, At, Goto, pollVars, queueVars, workerVars, rootVars
<1>1. /\ pc \in [Workers -> Locations] /\ pushStep \in [Actors -> PushSteps]
      /\ Main \in Actors /\ Main \notin Workers /\ Workers \subseteq Actors
  BY MainAssumption DEF TypeOK, ConnectionWorkerTypeOK, Actors
<1>2. /\ \A w \in Workers : pushStep[w] # "none" => pc[w] \in {"run", "serve"}
      /\ pushStep[Main] # "none" => root = "running"
  BY DEF ReferenceInv
<1>3. ASSUME NEW w \in Workers, WorkerStep(w)
      PROVE  SameUsers
  <2>1. CASE (ThreadInit(w) \/ EpollWait(w) \/ ReadEvent(w)) /\ UNCHANGED rootVars
    BY <1>1, <1>2, <2>1 DEF ThreadInit, EpollWait, ReadEvent
  <2>2. CASE (TakeTask(w) \/ Forward(w)) /\ UNCHANGED rootVars
    BY <1>1, <1>2, <2>2 DEF TakeTask, Forward
  <2>3. CASE (DispatchEvent(w) \/ DispatchCancel(w) \/ DispatchInput(w)) /\ UNCHANGED rootVars
    BY <1>1, <1>2, <2>3 DEF DispatchEvent, DispatchCancel, DispatchInput
  <2>4. ASSUME NEW c \in Clients, Accept(w, c) \/ DispatchClient(w, c), UNCHANGED rootVars
        PROVE  SameUsers
    BY <1>1, <1>2, <2>4 DEF Accept, DispatchClient
  <2>5. CASE (AcceptDone(w) \/ EndBatch(w) \/ Close(w)) /\ UNCHANGED rootVars
    BY <1>1, <1>2, <2>5 DEF AcceptDone, EndBatch, Close
  <2>6. CASE ReturnTask(w)
    BY <1>1, <1>2, <2>6 DEF ReturnTask, FinishTask
  <2>7. CASE ReturnClient(w)
    BY <1>1, <1>2, <2>7 DEF ReturnClient, FinishClient
  <2> QED
    BY <1>3, <2>1, <2>2, <2>3, <2>4, <2>5, <2>6, <2>7, Zenon DEF WorkerStep
<1>4. ASSUME NEW w \in Workers, EpollInterrupted(w), UNCHANGED rootVars
      PROVE  SameUsers
  BY <1>1, <1>2, <1>4 DEF EpollInterrupted
<1>5. ASSUME NEW a \in Actors, PushStep(a)
      PROVE  SameUsers
  BY <1>1, <1>2, <1>5 DEF PushStep, CountPushed, SignalPushed
<1>6. ASSUME NEW a \in Actors, NEW t \in Tasks, PerformTask(a, t)
      PROVE  SameUsers
  BY <1>1, <1>2, <1>6 DEF PerformTask, MayPush
<1>7. ASSUME NEW c \in Clients, Connect(c) \/ Send(c)
      PROVE  SameUsers
  BY <1>1, <1>2, <1>7 DEF Connect, Send
<1>8. CASE UNCHANGED vars
  BY <1>1, <1>2, <1>8 DEF vars
<1> QED
  BY <1>3, <1>4, <1>5, <1>6, <1>7, <1>8, Zenon DEF ServingStep, Environment

(***************************************************************************)
(* The reference count follows the workers through init and cancel.        *)
(***************************************************************************)
LEMMA ReferenceStep ==
    ASSUME TypeOK, ReferenceInv, [Next]_vars
    PROVE  ReferenceInv'
<1> USE DEF At, Goto, pollVars, queueVars, workerVars, rootVars
<1>1. /\ pc \in [Workers -> Locations] /\ pushStep \in [Actors -> PushSteps]
      /\ Main \in Actors /\ Main \notin Workers /\ Workers \subseteq Actors
  BY MainAssumption DEF TypeOK, ConnectionWorkerTypeOK, Actors
<1>2. IsFiniteSet(Users) /\ Cardinality(Users) \in Nat
  BY SourcesAssumption, FS_Subset, FS_CardinalityType DEF Users
<1>3. ASSUME NEW w \in Workers, SpawnWorker(w)
      PROVE  ReferenceInv'
  <2>1. Users' = Users \cup {w} /\ w \notin Users
    BY <1>1, <1>3 DEF SpawnWorker, Users
  <2>2. Cardinality(Users') = Cardinality(Users) + 1
    BY <1>2, <2>1, FS_AddElement
  <2>3. root = "init" /\ root' = root /\ refCount' = refCount + 1
    BY <1>3 DEF SpawnWorker, Retain
  <2>4. refCount' = Cardinality(Users') + 1
    BY <1>2, <2>2, <2>3 DEF ReferenceInv
  <2> QED
    BY <1>1, <1>3, <2>3, <2>4 DEF SpawnWorker, ReferenceInv
<1>4. ASSUME NEW w \in Workers, JoinWorker(w)
      PROVE  ReferenceInv'
  <2>1. Users' = Users \ {w} /\ w \in Users
    BY <1>1, <1>4 DEF JoinWorker, Users
  <2>2. Cardinality(Users') = Cardinality(Users) - 1
    BY <1>2, <2>1, FS_RemoveElement
  <2>3. root = "joining" /\ root' = root /\ refCount' = refCount - 1
    BY <1>4 DEF JoinWorker, Release
  <2>4. refCount' = Cardinality(Users') + 1
    BY <1>2, <2>2, <2>3 DEF ReferenceInv
  <2> QED
    BY <1>1, <1>4, <2>3, <2>4 DEF JoinWorker, ReferenceInv
<1>5. CASE FinishInit \/ StartCancel
  <2>1. Users' = Users
    BY <1>5 DEF FinishInit, StartCancel, Users
  <2> QED
    BY <1>5, <2>1 DEF FinishInit, StartCancel, ReferenceInv
<1>6. CASE FinishCancel
  <2>1. Users' = Users /\ Users = {}
    BY <1>6 DEF FinishCancel, Users
  <2>2. refCount' = refCount - 1 /\ root = "joining" /\ root' = "stopped"
    BY <1>6 DEF FinishCancel, Release
  <2>3. refCount' = Cardinality(Users') + 0
    BY <1>2, <2>1, <2>2 DEF ReferenceInv
  <2>4. pc' = pc /\ pushStep' = pushStep
    BY <1>6 DEF FinishCancel
  <2>5. \A w \in Workers : pc[w] = "joined" /\ pushStep[w] = "none"
    BY <1>6 DEF FinishCancel, ReferenceInv
  <2>6. pushStep[Main] = "none"
    BY <1>6, <2>2 DEF ReferenceInv
  <2> QED
    BY <2>1, <2>2, <2>3, <2>4, <2>5, <2>6 DEF ReferenceInv
<1>7. CASE ServingStep \/ UNCHANGED vars
  BY <1>7, SameUsersActions, SameUsersStep
<1>8. Next => RootStep \/ StartCancel \/ ServingStep
  BY Zenon DEF Next, ServingStep
<1> QED
  BY <1>3, <1>4, <1>5, <1>6, <1>7, <1>8, Zenon DEF RootStep

(***************************************************************************)
(* cancel never deletes the queue under a worker that runs or a thread     *)
(* inside pushTask: ~ConnectionQueue comes after the last join.            *)
(***************************************************************************)
THEOREM QueueIsRetained == Spec => []QueueOutlivesUsers
<1>1. Init => ReferenceInv
  <2> SUFFICES ASSUME Init PROVE ReferenceInv
    OBVIOUS
  <2>1. Users = {} /\ refCount = 1 /\ root = "init"
    BY DEF Init, ConnectionWorkerInit, ConnectionQueueInit, Users
  <2>2. Cardinality(Users) = 0
    BY <2>1, FS_EmptySet
  <2>3. \A a \in Actors : pushStep[a] = "none"
    BY DEF Init
  <2> QED
    BY <2>1, <2>2, <2>3 DEF ReferenceInv, Actors
<1>2. TypeOK /\ ReferenceInv /\ [Next]_vars => ReferenceInv'
  BY ReferenceStep
<1>3. TypeOK /\ ReferenceInv => QueueOutlivesUsers
  <2> SUFFICES ASSUME TypeOK, ReferenceInv, Deleted PROVE QueueOutlivesUsers
    BY DEF QueueOutlivesUsers
  <2>1. IsFiniteSet(Users) /\ Cardinality(Users) \in Nat
    BY SourcesAssumption, FS_Subset, FS_CardinalityType DEF Users
  <2>2. root = "stopped" /\ Users = {}
    BY <2>1 DEF ReferenceInv, Deleted
  <2> QED
    BY <2>2 DEF ReferenceInv, QueueOutlivesUsers, Users, Actors
<1> QED
  BY <1>1, <1>2, <1>3, TypeCorrect, PTL DEF Spec

----------------------------------------------------------------------------
(***************************************************************************)
(* The unix server implements TaskPool: every step of its threads submits, *)
(* starts or finishes one task, closes the pool, or changes nothing the    *)
(* pool shows.                                                             *)
(***************************************************************************)

\* A task is in one place: not created, queued, in the hands of one worker,
\* or done.
RunOnce ==
    /\ done \cap (queue \cup fresh) = {}
    /\ \A w \in Workers : task[w] \notin queue \cup fresh \cup done
    /\ \A v, w \in Workers : task[v] = task[w] => v = w \/ task[v] = NoTask

\* "END!" is written once, by cancel.
ClosedByCancel == cancelPipe => root \in {"joining", "stopped"}

PoolInv == TokenInv /\ RunOnce /\ ClosedByCancel

Running == {task[w] : w \in Workers} \ {NoTask}

\* What the pool shows, and where the tasks are.
PoolState == <<queue, task, done, cancelPipe, fresh>>

Unseen ==
    /\ UNCHANGED PoolState
    /\ root' = root \/ root \notin {"joining", "stopped"} \/ root' = "stopped"

(***************************************************************************)
(* All the steps but performTask, popTask, the return of a task and cancel *)
(* are unseen.                                                             *)
(***************************************************************************)
LEMMA UnseenActions ==
    ASSUME TokenInv, NEW w \in Workers,
           \/ /\ \/ ThreadInit(w) \/ EpollWait(w) \/ ReadEvent(w) \/ Forward(w)
                 \/ DispatchEvent(w) \/ DispatchCancel(w) \/ DispatchInput(w)
                 \/ \E c \in Clients : Accept(w, c) \/ DispatchClient(w, c)
                 \/ AcceptDone(w) \/ EndBatch(w) \/ Close(w) \/ EpollInterrupted(w)
              /\ UNCHANGED rootVars
           \/ ReturnClient(w) \/ SpawnWorker(w) \/ JoinWorker(w)
           \/ FinishInit \/ FinishCancel \/ UNCHANGED vars
           \/ \E a \in Actors : PushStep(a)
           \/ \E c \in Clients : Connect(c) \/ Send(c)
    PROVE  Unseen
<1> USE DEF Unseen, PoolState, pollVars, queueVars, workerVars, rootVars
<1>1. CASE (ThreadInit(w) \/ EpollWait(w) \/ ReadEvent(w) \/ Forward(w)) /\ UNCHANGED rootVars
  BY <1>1 DEF ThreadInit, EpollWait, ReadEvent, Forward
<1>2. CASE /\ DispatchEvent(w) \/ DispatchCancel(w) \/ DispatchInput(w)
           /\ UNCHANGED rootVars
  BY <1>2 DEF DispatchEvent, DispatchCancel, DispatchInput
<1>3. CASE /\ \E c \in Clients : Accept(w, c) \/ DispatchClient(w, c)
           /\ UNCHANGED rootVars
  BY <1>3 DEF Accept, DispatchClient
<1>4. CASE /\ AcceptDone(w) \/ EndBatch(w) \/ Close(w) \/ EpollInterrupted(w)
           /\ UNCHANGED rootVars
  BY <1>4 DEF AcceptDone, EndBatch, Close, EpollInterrupted
<1>5. CASE ReturnClient(w) \/ SpawnWorker(w) \/ JoinWorker(w)
  BY <1>5 DEF ReturnClient, FinishClient, SpawnWorker, JoinWorker
<1>6. CASE FinishInit \/ FinishCancel \/ UNCHANGED vars
  BY <1>6 DEF FinishInit, FinishCancel, vars
<1>7. CASE \E a \in Actors : PushStep(a)
  BY <1>7 DEF PushStep, CountPushed, CountTask, SignalPushed
<1>8. CASE \E c \in Clients : Connect(c) \/ Send(c)
  BY <1>8 DEF Connect, Send
<1> QED
  BY <1>1, <1>2, <1>3, <1>4, <1>5, <1>6, <1>7, <1>8, Zenon

(***************************************************************************)
(* An unseen step leaves the tasks where they are and the pool as it was.  *)
(***************************************************************************)
LEMMA UnseenStep ==
    ASSUME RunOnce, ClosedByCancel, Unseen
    PROVE  RunOnce' /\ ClosedByCancel' /\ UNCHANGED Pool!vars
<1>1. queue' = queue /\ task' = task /\ done' = done /\ fresh' = fresh
      /\ cancelPipe' = cancelPipe
  BY DEF Unseen, PoolState
<1>2. RunOnce'
  BY <1>1 DEF RunOnce
<1>3. ClosedByCancel'
  BY <1>1 DEF Unseen, ClosedByCancel
<1> QED
  BY <1>1, <1>2, <1>3 DEF Pool!vars

(***************************************************************************)
(* performTask submits a task the pool never saw.                          *)
(***************************************************************************)
LEMMA SubmitStep ==
    ASSUME TokenInv, RunOnce, ClosedByCancel,
           NEW a \in Actors, NEW t \in Tasks, PerformTask(a, t)
    PROVE  RunOnce' /\ ClosedByCancel' /\ Pool!Submit(t)
<1>1. t \in fresh /\ fresh' = fresh \ {t} /\ queue' = queue \cup {t}
      /\ task' = task /\ done' = done /\ cancelPipe' = cancelPipe /\ root' = root
  BY DEF PerformTask, PushTask, workerVars, pollVars
<1>2. t \notin queue /\ t \notin done /\ \A w \in Workers : task[w] # t
  BY <1>1 DEF TokenInv, Holding, RunOnce
<1>3. RunOnce'
  BY <1>1, <1>2 DEF RunOnce
<1> QED
  BY <1>1, <1>2, <1>3 DEF ClosedByCancel, Pool!Submit

(***************************************************************************)
(* Fewer tasks run than there are workers when one of them has none.       *)
(***************************************************************************)
LEMMA SpareWorker ==
    ASSUME TypeOK, NEW w \in Workers, task[w] = NoTask
    PROVE  Cardinality(Running) < Cardinality(Workers)
<1> DEFINE f == [v \in Busy |-> task[v]]
<1>1. IsFiniteSet(Busy) /\ Cardinality(Busy) \in Nat
  BY FiniteParts
<1>2. f \in Surjection(Busy, Running)
  <2>1. f \in [Busy -> Running]
    BY DEF Busy, Running
  <2>2. \A t \in Running : \E v \in Busy : f[v] = t
    BY DEF Busy, Running
  <2> QED
    BY <2>1, <2>2, Zenon DEF Surjection
<1>3. IsFiniteSet(Running) /\ Cardinality(Running) <= Cardinality(Busy)
  BY <1>1, <1>2, FS_Surjection
<1>4. Busy \in SUBSET Workers /\ Busy # Workers
  BY DEF Busy
<1>5. /\ Cardinality(Busy) <= Cardinality(Workers)
      /\ Cardinality(Busy) # Cardinality(Workers)
  BY <1>4, SourcesAssumption, FS_Subset
<1>6. Cardinality(Workers) \in Nat /\ Cardinality(Running) \in Nat
  BY <1>3, SourcesAssumption, FS_CardinalityType
<1> QED
  BY <1>1, <1>3, <1>5, <1>6

(***************************************************************************)
(* The pool counts as the server does.                                     *)
(***************************************************************************)
LEMMA PoolCardinality ==
    ASSUME NEW S
    PROVE  Pool!Cardinality(S) = Cardinality(S)
BY Zenon DEF Pool!Cardinality, Cardinality

(***************************************************************************)
(* popTask starts a task that waits, while fewer run than the pool has     *)
(* threads.                                                                *)
(***************************************************************************)
LEMMA StartStep ==
    ASSUME TokenInv, RunOnce, ClosedByCancel,
           NEW w \in Workers, TakeTask(w), UNCHANGED rootVars
    PROVE  RunOnce' /\ ClosedByCancel' /\ \E t \in Tasks : Pool!Start(t)
<1>1. value[w] > 0 /\ task[w] = NoTask /\ TypeOK
  BY DEF TokenInv, Holding, TakeTask, At
<1>2. queue # {}
  BY <1>1, OwingFindsTask
<1>3. PICK t \in queue : queue' = queue \ {t} /\ task' = [task EXCEPT ![w] = t]
  <2>1. PICK t \in Poppable : PopTask(t) /\ task' = [task EXCEPT ![w] = t]
    BY Zenon DEF TakeTask
  <2> QED
    BY <1>2, <2>1 DEF Poppable, PopTask
<1>4. /\ done' = done /\ fresh' = fresh /\ root' = root /\ cancelPipe' = cancelPipe
      /\ task \in [Workers -> Tasks \cup {NoTask}] /\ queue \in SUBSET Tasks
      /\ NoTask \notin Tasks
  BY <1>1, TasksAssumption
     DEF TakeTask, rootVars, pollVars, TypeOK, ConnectionWorkerTypeOK, ConnectionQueueTypeOK
<1>5. t \in Tasks /\ t \notin fresh /\ t \notin done /\ \A v \in Workers : task[v] # t
  BY <1>3, <1>4 DEF TokenInv, Holding, RunOnce
<1>6. RunOnce'
  BY <1>1, <1>3, <1>4, <1>5 DEF RunOnce
<1>7. Running' = Running \cup {t}
  BY <1>1, <1>3, <1>4, <1>5 DEF Running
<1>8. Cardinality(Running) < Cardinality(Workers)
  BY <1>1, SpareWorker
<1>9. Pool!Start(t)
  BY <1>3, <1>4, <1>7, <1>8, PoolCardinality DEF Pool!Start, Running
<1> QED
  BY <1>4, <1>5, <1>6, <1>9 DEF ClosedByCancel

(***************************************************************************)
(* The return of a task's code finishes it.                                *)
(***************************************************************************)
LEMMA FinishStep ==
    ASSUME TokenInv, RunOnce, ClosedByCancel, NEW w \in Workers, ReturnTask(w)
    PROVE  RunOnce' /\ ClosedByCancel' /\ \E t \in Tasks : Pool!Finish(t)
<1>1. /\ task[w] # NoTask /\ task' = [task EXCEPT ![w] = NoTask]
      /\ done' = done \cup {task[w]}
      /\ queue' = queue /\ fresh' = fresh /\ root' = root /\ cancelPipe' = cancelPipe
  BY DEF ReturnTask, FinishTask, At, pollVars, TokenInv, Holding
<1>2. /\ task \in [Workers -> Tasks \cup {NoTask}] /\ queue \in SUBSET Tasks
      /\ fresh \in SUBSET Tasks /\ done \in SUBSET Tasks /\ NoTask \notin Tasks
  BY TasksAssumption DEF TokenInv, TypeOK, ConnectionWorkerTypeOK, ConnectionQueueTypeOK
<1>3. PICK t \in Tasks : t = task[w]
  BY <1>1, <1>2
<1>4. RunOnce'
  BY <1>1, <1>2, <1>3 DEF RunOnce
<1>5. Running' = Running \ {t} /\ t \in Running
  BY <1>1, <1>2, <1>3 DEF RunOnce, Running
<1>6. Pool!Finish(t)
  BY <1>1, <1>3, <1>5 DEF Pool!Finish, Running
<1>7. ClosedByCancel'
  BY <1>1 DEF ClosedByCancel
<1> QED
  BY <1>4, <1>6, <1>7, Zenon

(***************************************************************************)
(* cancel closes the pool.                                                 *)
(***************************************************************************)
LEMMA CloseStep ==
    ASSUME RunOnce, ClosedByCancel, StartCancel
    PROVE  RunOnce' /\ ClosedByCancel' /\ Pool!Close
<1>1. /\ root = "running" /\ root' = "joining" /\ cancelPipe' = TRUE
      /\ queue' = queue /\ task' = task /\ done' = done /\ fresh' = fresh
  BY DEF StartCancel, queueVars, workerVars
<1> QED
  BY <1>1 DEF RunOnce, ClosedByCancel, Pool!Close

(***************************************************************************)
(* Every step of the server is a step of the pool or a stutter.            *)
(***************************************************************************)
LEMMA PoolStep ==
    ASSUME PoolInv, [Next]_vars
    PROVE  RunOnce' /\ ClosedByCancel' /\ [Pool!Next]_(Pool!vars)
<1>1. TokenInv /\ RunOnce /\ ClosedByCancel
  BY Zenon DEF PoolInv
<1>2. ASSUME NEW w \in Workers, WorkerStep(w)
      PROVE  RunOnce' /\ ClosedByCancel' /\ [Pool!Next]_(Pool!vars)
  <2>1. CASE TakeTask(w) /\ UNCHANGED rootVars
    BY <1>1, <2>1, StartStep, Zenon DEF Pool!Next
  <2>2. CASE ReturnTask(w)
    BY <1>1, <2>2, FinishStep, Zenon DEF Pool!Next
  <2>3. CASE \/ /\ \/ ThreadInit(w) \/ EpollWait(w) \/ ReadEvent(w) \/ Forward(w)
                   \/ DispatchEvent(w) \/ DispatchCancel(w) \/ DispatchInput(w)
                   \/ \E c \in Clients : Accept(w, c) \/ DispatchClient(w, c)
                   \/ AcceptDone(w) \/ EndBatch(w) \/ Close(w)
                /\ UNCHANGED rootVars
             \/ ReturnClient(w)
    <3>1. Unseen
      BY <1>1, <2>3, UnseenActions, Zenon
    <3> QED
      BY <1>1, <3>1, UnseenStep
  <2> QED
    BY <1>2, <2>1, <2>2, <2>3, Zenon DEF WorkerStep
<1>3. ASSUME NEW a \in Actors, NEW t \in Tasks, PerformTask(a, t)
      PROVE  RunOnce' /\ ClosedByCancel' /\ [Pool!Next]_(Pool!vars)
  BY <1>1, <1>3, SubmitStep, Zenon DEF Pool!Next
<1>4. CASE StartCancel
  BY <1>1, <1>4, CloseStep, Zenon DEF Pool!Next
<1>5. ASSUME NEW w \in Workers,
             \/ SpawnWorker(w) \/ JoinWorker(w)
             \/ EpollInterrupted(w) /\ UNCHANGED rootVars
      PROVE  RunOnce' /\ ClosedByCancel' /\ [Pool!Next]_(Pool!vars)
  <2>1. Unseen
    BY <1>1, <1>5, UnseenActions, Zenon
  <2> QED
    BY <1>1, <2>1, UnseenStep
<1>6. CASE FinishInit \/ FinishCancel \/ UNCHANGED vars
  <2>1. Unseen
    BY <1>6 DEF FinishInit, FinishCancel, vars, Unseen, PoolState,
                pollVars, queueVars, workerVars, rootVars
  <2> QED
    BY <1>1, <2>1, UnseenStep
<1>7. ASSUME \/ \E a \in Actors : PushStep(a)
             \/ \E c \in Clients : Connect(c) \/ Send(c)
      PROVE  RunOnce' /\ ClosedByCancel' /\ [Pool!Next]_(Pool!vars)
  <2>1. Unseen
    BY <1>7 DEF PushStep, CountPushed, CountTask, SignalPushed, Connect, Send,
                Unseen, PoolState, pollVars, queueVars, workerVars, rootVars
  <2> QED
    BY <1>1, <2>1, UnseenStep
<1> QED
  BY <1>2, <1>3, <1>4, <1>5, <1>6, <1>7, Zenon DEF Next, RootStep, Environment

(***************************************************************************)
(* A new server is a new pool.                                             *)
(***************************************************************************)
LEMMA PoolInit ==
    ASSUME Init
    PROVE  RunOnce /\ ClosedByCancel /\ Pool!Init
<1>1. /\ queue = {} /\ done = {} /\ fresh = Tasks /\ cancelPipe = FALSE
      /\ task = [w \in Workers |-> NoTask]
  BY DEF Init, ConnectionQueueInit, ConnectionWorkerInit, EventPollInit
<1>2. \A w \in Workers : task[w] = NoTask
  BY <1>1
<1>3. RunOnce
  BY <1>1, <1>2, TasksAssumption DEF RunOnce
<1>4. Pool!Init
  BY <1>1, <1>2 DEF Pool!Init
<1> QED
  BY <1>1, <1>3, <1>4 DEF ClosedByCancel

(***************************************************************************)
(* A task is run by one worker, once.                                      *)
(***************************************************************************)
THEOREM TaskRunsOnce == Spec => []RunOnce
<1>1. Init => RunOnce /\ ClosedByCancel
  BY PoolInit
<1>2. TokenInv /\ RunOnce /\ ClosedByCancel /\ [Next]_vars => RunOnce' /\ ClosedByCancel'
  BY PoolStep DEF PoolInv
<1> QED
  BY <1>1, <1>2, TokenInvariance, PTL DEF Spec

(***************************************************************************)
(* UnixRoot, its queue and its workers keep the promise of TaskPool, as    *)
(* far as it is about what may happen: performTask submits a new task,     *)
(* popTask starts one that waits, on one of as many threads as there are   *)
(* workers, and no other step of the threads, of the peers or of cancel    *)
(* shows in the pool.                                                      *)
(***************************************************************************)
THEOREM PoolIsImplemented == Spec => Pool!Init /\ [][Pool!Next]_(Pool!vars)
<1>1. Init => RunOnce /\ ClosedByCancel /\ Pool!Init
  BY PoolInit
<1>2. TokenInv /\ RunOnce /\ ClosedByCancel /\ [Next]_vars
        => RunOnce' /\ ClosedByCancel' /\ [Pool!Next]_(Pool!vars)
  BY PoolStep DEF PoolInv
<1> QED
  BY <1>1, <1>2, TokenInvariance, PTL DEF Spec
=============================================================================
