------------------------ MODULE HttpdWebsocketProofs ------------------------
(***************************************************************************)
(* Proofs about HttpdWebsocket, for every script, window and brigade, and  *)
(* every number of tasks, threads that broadcast and messages.             *)
(***************************************************************************)
EXTENDS HttpdWebsocket, SequenceLemmas

----------------------------------------------------------------------------
(* The manager's list and the tasks.                                        *)

\* The connection is in the manager's list from beginCb to endCb.
Listed == pc \in {"poll", "out", "emptied", "in", "handle", "unlist"}

\* A broadcast has a handler before it only while it holds _mutex and the
\* handler is listed: removeHandler and the end of the connection come later.
CastInv ==
    /\ pc \in Steps
    /\ handlers = IF Listed THEN <<Self>> ELSE <<>>
    /\ destroyed \in [Handlers -> BOOLEAN]
    /\ \A h \in Handlers : destroyed[h] => pc = "destroyed"
    /\ todo \in [Casters -> {<<>>, <<Self>>}]
    /\ casting \in [Casters -> {"idle", "test", "put", "wake"}]
    /\ \A b \in Casters :
        /\ casting[b] # "idle" => managerMutex = b
        /\ todo[b] # <<>> => casting[b] # "idle" /\ Listed
        /\ casting[b] \in {"put", "wake"} => todo[b] # <<>>

\* No code of a task is left once waitForAll has returned.
TaskInv ==
    /\ pc \in Steps
    /\ pc \in {"begin", "drain", "flush", "close", "destroyed"} => AllComplete

\* A step that leaves the manager alone.
Apart ==
    /\ UNCHANGED managerVars
    /\ pc' \in Steps
    /\ Listed' = Listed
    /\ pc = "destroyed" => pc' = "destroyed"

(***************************************************************************)
(* Continue and Leave stay inside the loop, or end it.                     *)
(***************************************************************************)
LEMMA ContinueGoes ==
    ASSUME NEW left, Continue(left) \/ Leave
    PROVE  pc' \in {"out", "in", "poll", "unlist"}
BY DEF Continue, Leave, Goto

(***************************************************************************)
(* The steps that leave the manager alone.                                 *)
(***************************************************************************)
LEMMA ApartActions ==
    ASSUME pc \in Steps,
           \/ PollReturns \/ PollTimeout \/ WriteSocket \/ DropInterest \/ ReadSocket
           \/ HandleFrame \/ WaitForAll \/ Drain \/ Flush \/ PeerStep
           \/ \E t \in Tasks : TaskStep(t)
           \/ UNCHANGED vars
    PROVE  Apart
<1> USE DEF Apart, Listed, Steps
<1>1. CASE PollReturns
  <2>1. pc = "poll" /\ UNCHANGED managerVars
    BY <1>1 DEF PollReturns
  <2>2. pc' \in {"out", "in", "poll", "unlist"}
    BY <1>1, ContinueGoes DEF PollReturns, Goto
  <2> QED
    BY <2>1, <2>2
<1>2. CASE PollTimeout
  BY <1>2, ContinueGoes DEF PollTimeout
<1>3. CASE WriteSocket
  <2>1. pc = "out" /\ UNCHANGED managerVars
    BY <1>3 DEF WriteSocket
  <2>2. pc' \in {"out", "emptied", "in", "poll", "unlist"}
    BY <1>3, <2>1, ContinueGoes DEF WriteSocket, EndWrite, Goto
  <2> QED
    BY <2>1, <2>2
<1>10. CASE DropInterest
  <2>1. pc = "emptied" /\ UNCHANGED managerVars
    BY <1>10 DEF DropInterest
  <2>2. pc' \in {"out", "in", "poll", "unlist"}
    BY <1>10, ContinueGoes DEF DropInterest, EndWrite
  <2> QED
    BY <2>1, <2>2
<1>4. CASE ReadSocket
  <2>1. pc = "in" /\ UNCHANGED managerVars
    BY <1>4 DEF ReadSocket
  <2>2. pc' \in {"out", "in", "poll", "unlist", "handle"}
    BY <1>4, <2>1, ContinueGoes DEF ReadSocket, ReadAgain, Goto
  <2> QED
    BY <2>1, <2>2
<1>5. CASE HandleFrame
  <2>1. pc = "handle" /\ UNCHANGED managerVars
    BY <1>5 DEF HandleFrame
  <2>2. pc' \in {"in", "unlist"}
    BY <1>5 DEF HandleFrame, Goto, Leave
  <2> QED
    BY <2>1, <2>2
<1>6. CASE WaitForAll \/ Drain \/ Flush
  BY <1>6 DEF WaitForAll, Drain, Flush, Goto
<1>7. CASE PeerStep
  BY <1>7 DEF PeerStep, PeerSends, PeerDrains, PeerLeaves
<1>8. CASE \E t \in Tasks : TaskStep(t)
  BY <1>8 DEF TaskStep, StartTask, TaskBeginsWrite, TaskWrites, Terminate, OnPerformed,
              NotifyGroup
<1>9. CASE UNCHANGED vars
  BY <1>9 DEF vars
<1> QED
  BY <1>1, <1>2, <1>3, <1>4, <1>5, <1>6, <1>7, <1>8, <1>9, <1>10, Zenon

(***************************************************************************)
(* removeHandler of the only handler in the list leaves none.              *)
(***************************************************************************)
LEMMA RemoveOnly ==
    ASSUME NEW h
    PROVE  RemoveFirst(<<h>>, h) = <<>>
<1> DEFINE s == <<h>>
<1>1. Len(s) = 1 /\ s[1] = h /\ {i \in 1 .. Len(s) : s[i] = h} = {1}
  OBVIOUS
<1>2. Min({1}) = 1
  BY DEF Min
<1>3. SelectInSeq(s, LAMBDA v : v = h) = 1
  BY <1>1, <1>2 DEF SelectInSeq
<1>4. RemoveAt(s, 1) = <<>>
  <2>1. SubSeq(s, 1, 0) = <<>> /\ SubSeq(s, 2, 1) = <<>>
    BY SubSeqEmpty
  <2>2. SubSeq(s, 1, 1 - 1) = <<>> /\ SubSeq(s, 1 + 1, Len(s)) = <<>>
    BY <1>1, <2>1
  <2>3. <<>> \o <<>> = <<>>
    BY ConcatEmptySeq, EmptySeq
  <2> QED
    BY <2>2, <2>3 DEF RemoveAt
<1> QED
  BY <1>1, <1>3, <1>4 DEF RemoveFirst

(***************************************************************************)
(* Nothing comes after the only one.                                       *)
(***************************************************************************)
LEMMA TailOnly ==
    ASSUME NEW h
    PROVE  Tail(<<h>>) = <<>>
<1>1. <<h>> \in Seq({h}) /\ <<h>> # <<>> /\ Len(<<h>>) = 1
  OBVIOUS
<1>2. Tail(<<h>>) = SubSeq(<<h>>, 2, 1)
  BY <1>1, TailIsSubSeq
<1> QED
  BY <1>2, SubSeqEmpty

(***************************************************************************)
(* Every step keeps the broadcasts within the time a handler is listed.    *)
(***************************************************************************)
LEMMA CastStep ==
    ASSUME CastInv, [Next]_vars
    PROVE  CastInv'
<1> USE DEF CastInv, managerVars
<1>0. Self \in Handlers /\ Nobody \notin Casters
  BY ConnectionAssumption, ManagerAssumption
<1>1. ASSUME Apart
      PROVE  CastInv'
  BY <1>1 DEF Apart
<1>2. CASE Begin
  BY <1>2 DEF Begin, AddHandler, Listed, Steps, Goto
<1>3. CASE Disable
  BY <1>3 DEF Disable, Listed
<1>4. CASE Unlist
  <2>1. \A b \in Casters : casting[b] = "idle" /\ todo[b] = <<>>
    BY <1>0, <1>4 DEF Unlist, RemoveHandler
  <2>2. handlers' = <<>>
    BY <1>4, RemoveOnly DEF Unlist, RemoveHandler, Listed
  <2> QED
    BY <1>4, <2>1, <2>2 DEF Unlist, Listed, Steps, Goto
<1>5. CASE Destroy
  BY <1>0, <1>5 DEF Destroy, Listed, Steps, Goto
<1>6. ASSUME NEW b \in Casters, Cast(b)
      PROVE  CastInv'
  <2> USE DEF Listed
  <2>1. CASE ReceiveBroadcast(b) /\ pc' = pc
    BY <1>0, <2>1 DEF ReceiveBroadcast
  <2>2. CASE TestEnabled(b) /\ pc' = pc
    <3>1. todo[b] = <<Self>> /\ Tail(todo[b]) = <<>>
      BY <2>2, TailOnly DEF TestEnabled
    <3> QED
      BY <2>2, <3>1 DEF TestEnabled
  <2>3. CASE PutMessage(b) /\ pc' = pc
    BY <2>3 DEF PutMessage
  <2>4. CASE EndBroadcast(b) /\ pc' = pc
    BY <2>4 DEF EndBroadcast
  <2>5. CASE WakeConnection(b) /\ pc' = pc
    <3>1. todo[b] = <<Self>> /\ Tail(todo[b]) = <<>>
      BY <2>5, TailOnly DEF WakeConnection
    <3> QED
      BY <2>5, <3>1 DEF WakeConnection
  <2> QED
    BY <1>6, <2>1, <2>2, <2>3, <2>4, <2>5 DEF Cast
<1>7. CASE \/ PollReturns \/ PollTimeout \/ WriteSocket \/ DropInterest \/ ReadSocket
           \/ HandleFrame \/ WaitForAll \/ Drain \/ Flush \/ PeerStep
           \/ \E t \in Tasks : TaskStep(t)
           \/ UNCHANGED vars
  BY <1>1, <1>7, ApartActions
<1> QED
  BY <1>2, <1>3, <1>4, <1>5, <1>6, <1>7, Zenon DEF Next, LoopStep

(***************************************************************************)
(* A broadcast never uses a connection that its thread has destroyed.      *)
(***************************************************************************)
THEOREM CastersAreSafe == Spec => []CastersTouchLive
<1>1. Init => CastInv
  BY DEF Init, ManagerInit, CastInv, Listed, Steps
<1>2. CastInv /\ [Next]_vars => CastInv'
  BY CastStep
<1>3. CastInv => CastersTouchLive
  <2> SUFFICES ASSUME CastInv, NEW b \in Casters, NEW k \in DOMAIN todo[b]
               PROVE  ~destroyed[todo[b][k]]
    BY DEF CastersTouchLive
  <2>1. todo[b] = <<Self>> /\ k = 1
    BY DEF CastInv
  <2>2. pc # "destroyed"
    BY <2>1 DEF CastInv, Listed
  <2>3. Self \in Handlers
    BY ConnectionAssumption
  <2> QED
    BY <2>1, <2>2, <2>3 DEF CastInv
<1> QED
  BY <1>1, <1>2, <1>3, PTL DEF Spec

(***************************************************************************)
(* Every step leaves the tasks as they were once waitForAll has returned.  *)
(***************************************************************************)
LEMMA TaskInvStep ==
    ASSUME TaskInv, task \in [Tasks -> TaskSteps], [Next]_vars
    PROVE  TaskInv' /\ task' \in [Tasks -> TaskSteps]
<1> USE DEF TaskInv, AllComplete
<1>1. ASSUME NEW t \in Tasks, TaskStep(t)
      PROVE  TaskInv' /\ task' \in [Tasks -> TaskSteps]
  BY <1>1 DEF TaskStep, StartTask, TaskBeginsWrite, TaskWrites, Terminate, OnPerformed,
              NotifyGroup, TaskGoto, TaskSteps
<1>2. CASE HandleFrame
  <2>1. pc' \in {"in", "unlist"}
    BY <1>2 DEF HandleFrame, Goto, Leave
  <2>2. task' \in [Tasks -> TaskSteps]
    BY <1>2 DEF HandleFrame, TaskSteps
  <2> QED
    BY <2>1, <2>2 DEF Steps
<1>3. CASE WaitForAll
  BY <1>3 DEF WaitForAll, Goto, Steps
<1>4. CASE \/ PollReturns \/ PollTimeout \/ WriteSocket \/ DropInterest \/ ReadSocket
  <2>1. pc \in {"poll", "out", "emptied", "in"} /\ task' = task
    BY <1>4 DEF PollReturns, PollTimeout, WriteSocket, DropInterest, ReadSocket
  <2>2. Listed' = Listed /\ pc' \in Steps
    BY <1>4, ApartActions DEF Apart
  <2> QED
    BY <2>1, <2>2 DEF Listed
<1>5. CASE Begin \/ Disable \/ Unlist \/ Drain \/ Flush \/ Destroy
  BY <1>5 DEF Begin, Disable, Unlist, Drain, Flush, Destroy, Goto, Steps
<1>6. CASE PeerStep
  BY <1>6 DEF PeerStep, PeerSends, PeerDrains, PeerLeaves
<1>7. ASSUME NEW b \in Casters, Cast(b)
      PROVE  TaskInv' /\ task' \in [Tasks -> TaskSteps]
  BY <1>7 DEF Cast
<1>8. CASE UNCHANGED vars
  BY <1>8 DEF vars
<1> QED
  BY <1>1, <1>2, <1>3, <1>4, <1>5, <1>6, <1>7, <1>8, Zenon DEF Next, LoopStep

(***************************************************************************)
(* When cancel begins, and until the thread destroys the connection, no    *)
(* task is left whose code may use it.                                     *)
(***************************************************************************)
THEOREM TasksEndFirst == Spec => []TasksAreDone
<1> DEFINE Inv == TaskInv /\ task \in [Tasks -> TaskSteps]
<1>1. Init => Inv
  BY DEF Init, TaskInv, AllComplete, Steps, TaskSteps
<1>2. Inv /\ [Next]_vars => Inv'
  BY TaskInvStep
<1>3. Inv => TasksAreDone
  BY DEF TaskInv, AllComplete, TasksAreDone
<1> QED
  BY <1>1, <1>2, <1>3, PTL DEF Spec
----------------------------------------------------------------------------
(* What the writer keeps.                                                   *)

Unit == Nat \X Nat

(***************************************************************************)
(* Concatenation is associative.                                           *)
(***************************************************************************)
LEMMA UnitsAssociate ==
    \A x, y, z \in Seq(Unit) : (x \o y) \o z = x \o (y \o z)
BY ConcatAssociative

\* A slot with something in it.
Slots ==
    {s \in [alloc : Nat, offset : Nat, slices : Seq(Seq(Unit))] :
        s.slices # <<>> /\ s.offset <= Len(Head(s.slices))}

\* What a slot has left to send.
Left(slot) == After(FlattenSeq(slot.slices), slot.offset)
Lefts(w) == [k \in DOMAIN w |-> Left(w[k])]

(***************************************************************************)
(* A slot has what is left of its first slice, and then the others.        *)
(***************************************************************************)
LEMMA LeftType ==
    ASSUME NEW s \in Slots
    PROVE  /\ Left(s) \in Seq(Unit)
           /\ s.offset \in 0 .. Len(FlattenSeq(s.slices))
           /\ After(Head(s.slices), s.offset) \in Seq(Unit)
           /\ FlattenSeq(Tail(s.slices)) \in Seq(Unit)
           /\ Left(s) = After(Head(s.slices), s.offset) \o FlattenSeq(Tail(s.slices))
<1> SUFFICES ASSUME NEW q, q = s.slices, NEW head, head = Head(q),
                    NEW rest, rest = Tail(q), NEW n, n = s.offset
             PROVE  /\ After(FlattenSeq(q), n) \in Seq(Unit)
                    /\ n \in 0 .. Len(FlattenSeq(q))
                    /\ After(head, n) \in Seq(Unit)
                    /\ FlattenSeq(rest) \in Seq(Unit)
                    /\ After(FlattenSeq(q), n) = After(head, n) \o FlattenSeq(rest)
  BY ZenonT(60) DEF Left
<1>1. q \in Seq(Seq(Unit)) /\ q # <<>> /\ n \in Nat /\ n <= Len(head)
  BY DEF Slots
<1>2. head \in Seq(Unit) /\ rest \in Seq(Seq(Unit))
  BY <1>1, HeadTailProperties
<1>3. q = <<head>> \o rest
  BY <1>1, HeadTailConcat, Zenon
<1>4. FlattenSeq(q) = head \o FlattenSeq(rest)
  BY <1>2, <1>3, FlattenCons, Zenon
<1>5. FlattenSeq(rest) \in Seq(Unit)
  BY <1>2, FlattenType
<1>6. /\ n \in 0 .. Len(head)
      /\ n \in 0 .. Len(head \o FlattenSeq(rest)) /\ head \o FlattenSeq(rest) \in Seq(Unit)
  <2>1. n \in 0 .. Len(head) /\ n \in 0 .. Len(head \o FlattenSeq(rest))
    BY <1>1, <1>2, <1>5, WithinConcat, Zenon
  <2>2. head \o FlattenSeq(rest) \in Seq(Unit)
    BY <1>2, <1>5, ConcatProperties
  <2> QED
    BY <2>1, <2>2, Zenon
<1>7. After(head, n) \in Seq(Unit)
  BY <1>2, <1>6, AfterType
<1>8. After(head \o FlattenSeq(rest), n) = After(head, n) \o FlattenSeq(rest)
  BY <1>2, <1>5, <1>6, AfterConcat
<1>9. After(head, n) \o FlattenSeq(rest) \in Seq(Unit)
  BY <1>5, <1>7, ConcatProperties
<1> QED
  BY <1>4, <1>5, <1>6, <1>7, <1>8, <1>9

(***************************************************************************)
(* What waits is what the slots have left, slot by slot.                   *)
(***************************************************************************)
LEMMA LeftsType ==
    ASSUME NEW w \in Seq(Slots)
    PROVE  /\ Lefts(w) \in Seq(Seq(Unit))
           /\ Len(Lefts(w)) = Len(w)
           /\ \A k \in 1 .. Len(w) : Lefts(w)[k] = Left(w[k])
           /\ Unsent(w) = FlattenSeq(Lefts(w))
           /\ Unsent(w) \in Seq(Unit)
<1>1. Len(w) \in Nat /\ DOMAIN w = 1 .. Len(w)
  BY LenProperties
<1>2. Lefts(w) = [k \in 1 .. Len(w) |-> Left(w[k])]
  BY <1>1 DEF Lefts
<1>3. \A k \in 1 .. Len(w) : Left(w[k]) \in Seq(Unit)
  BY LeftType, ElementOfSeq
<1>4. /\ Lefts(w) \in Seq(Seq(Unit)) /\ Len(Lefts(w)) = Len(w)
      /\ \A k \in 1 .. Len(w) : Lefts(w)[k] = Left(w[k])
  BY <1>1, <1>2, <1>3
<1>5. Unsent(w) = FlattenSeq(Lefts(w))
  BY Zenon DEF Unsent, Lefts, Left, After
<1>6. FlattenSeq(Lefts(w)) \in Seq(Unit)
  BY <1>4, FlattenType
<1> QED
  BY <1>4, <1>5, <1>6

(***************************************************************************)
(* A new slot waits after the others.                                      *)
(***************************************************************************)
LEMMA UnsentAppend ==
    ASSUME NEW w \in Seq(Slots), NEW s \in Slots
    PROVE  Unsent(Append(w, s)) = Unsent(w) \o Left(s)
<1> SUFFICES ASSUME NEW v, v = Append(w, s)
             PROVE  Unsent(v) = Unsent(w) \o Left(s)
  OBVIOUS
<1>1. v \in Seq(Slots) /\ Len(v) = Len(w) + 1 /\ Len(w) \in Nat
      /\ (\A i \in 1 .. Len(w) : v[i] = w[i]) /\ v[Len(w) + 1] = s
  BY AppendProperties, LenProperties
<1>2. /\ Lefts(w) \in Seq(Seq(Unit)) /\ Len(Lefts(w)) = Len(w)
      /\ \A k \in 1 .. Len(w) : Lefts(w)[k] = Left(w[k])
  BY LeftsType
<1>3. /\ Lefts(v) \in Seq(Seq(Unit)) /\ Len(Lefts(v)) = Len(v)
      /\ \A k \in 1 .. Len(v) : Lefts(v)[k] = Left(v[k])
  BY <1>1, LeftsType
<1>4. Left(s) \in Seq(Unit)
  BY LeftType
<1>5. Lefts(v) = Append(Lefts(w), Left(s))
  <2> SUFFICES ASSUME NEW a, a = Append(Lefts(w), Left(s))
               PROVE  Lefts(v) = a
    OBVIOUS
  <2>1. /\ a \in Seq(Seq(Unit)) /\ Len(a) = Len(Lefts(w)) + 1
        /\ \A i \in 1 .. Len(Lefts(w)) : a[i] = Lefts(w)[i]
        /\ a[Len(Lefts(w)) + 1] = Left(s)
    BY <1>2, <1>4, AppendProperties
  <2>2. ASSUME NEW k \in 1 .. Len(v)
        PROVE  Lefts(v)[k] = a[k]
    <3>0. k = Len(w) + 1 \/ k \in 1 .. Len(w)
      BY <1>1
    <3>1. CASE k = Len(w) + 1
      BY <1>1, <1>2, <1>3, <2>1, <3>1
    <3>2. CASE k \in 1 .. Len(w)
      <4>1. Lefts(v)[k] = Left(v[k]) /\ a[k] = Left(w[k]) /\ v[k] = w[k]
        BY <1>1, <1>2, <1>3, <2>1, <3>2
      <4> QED
        BY <4>1
    <3> QED
      BY <3>0, <3>1, <3>2
  <2>3. Len(Lefts(v)) = Len(a)
    BY <1>1, <1>2, <1>3, <2>1
  <2> QED
    BY <1>3, <2>1, <2>2, <2>3, SeqEqual
<1>6. FlattenSeq(Lefts(v)) = FlattenSeq(Lefts(w)) \o Left(s)
  BY <1>2, <1>4, <1>5, FlattenAppend, Zenon
<1>7. Unsent(v) = FlattenSeq(Lefts(v)) /\ Unsent(w) = FlattenSeq(Lefts(w))
  BY <1>1, LeftsType, Zenon
<1> QED
  BY <1>6, <1>7

(***************************************************************************)
(* The first slot comes before the others.                                 *)
(***************************************************************************)
LEMMA UnsentCons ==
    ASSUME NEW w \in Seq(Slots), NEW s \in Slots
    PROVE  /\ <<s>> \o w \in Seq(Slots)
           /\ Unsent(<<s>> \o w) = Left(s) \o Unsent(w)
<1> SUFFICES ASSUME NEW v, v = <<s>> \o w
             PROVE  v \in Seq(Slots) /\ Unsent(v) = Left(s) \o Unsent(w)
  OBVIOUS
<1>1. /\ v \in Seq(Slots) /\ Len(v) = Len(w) + 1 /\ Len(w) \in Nat /\ v[1] = s
      /\ \A i \in 1 .. Len(w) : v[i + 1] = w[i]
  BY ConsProperties, LenProperties
<1>2. /\ Lefts(w) \in Seq(Seq(Unit)) /\ Len(Lefts(w)) = Len(w)
      /\ \A k \in 1 .. Len(w) : Lefts(w)[k] = Left(w[k])
  BY LeftsType
<1>3. /\ Lefts(v) \in Seq(Seq(Unit)) /\ Len(Lefts(v)) = Len(v)
      /\ \A k \in 1 .. Len(v) : Lefts(v)[k] = Left(v[k])
  BY <1>1, LeftsType
<1>4. Left(s) \in Seq(Unit)
  BY LeftType
<1>5. Lefts(v) = <<Left(s)>> \o Lefts(w)
  <2> SUFFICES ASSUME NEW a, a = <<Left(s)>> \o Lefts(w)
               PROVE  Lefts(v) = a
    OBVIOUS
  <2>1. /\ a \in Seq(Seq(Unit)) /\ Len(a) = Len(Lefts(w)) + 1 /\ a[1] = Left(s)
        /\ \A i \in 1 .. Len(Lefts(w)) : a[i + 1] = Lefts(w)[i]
    BY <1>2, <1>4, ConsProperties
  <2>2. ASSUME NEW k \in 1 .. Len(v)
        PROVE  Lefts(v)[k] = a[k]
    <3>1. CASE k = 1
      BY <1>1, <1>3, <2>1, <3>1
    <3>2. CASE k # 1
      <4>1. PICK i \in 1 .. Len(w) : k = i + 1
        <5>1. k - 1 \in 1 .. Len(w) /\ k = (k - 1) + 1
          BY <1>1, <3>2
        <5> QED
          BY <5>1
      <4>2. Lefts(v)[k] = Left(v[k]) /\ v[k] = w[i] /\ a[k] = Lefts(w)[i]
        BY <1>1, <1>2, <1>3, <2>1, <4>1
      <4>3. Lefts(w)[i] = Left(w[i])
        BY <1>2
      <4> QED
        BY <4>2, <4>3
    <3> QED
      BY <3>1, <3>2
  <2>3. Len(Lefts(v)) = Len(a)
    BY <1>1, <1>2, <1>3, <2>1
  <2> QED
    BY <1>3, <2>1, <2>2, <2>3, SeqEqual
<1>6. FlattenSeq(Lefts(v)) = Left(s) \o FlattenSeq(Lefts(w))
  BY <1>2, <1>4, <1>5, FlattenCons, Zenon
<1>7. Unsent(v) = FlattenSeq(Lefts(v)) /\ Unsent(w) = FlattenSeq(Lefts(w))
  BY <1>1, LeftsType, Zenon
<1> QED
  BY <1>1, <1>6, <1>7
(***************************************************************************)
(* The slices are left after what a slot has, be it new or not.            *)
(***************************************************************************)
LEMMA GrownLeft ==
    ASSUME NEW s, s \in Slots \/ s = NewSlot,
           NEW rest \in Seq(Seq(Unit)), rest # <<>>
    PROVE  /\ Grown(s, rest) \in Slots
           /\ Left(s) \in Seq(Unit)
           /\ Left(Grown(s, rest)) = Left(s) \o FlattenSeq(rest)
<1> SUFFICES ASSUME NEW q, q = s.slices, NEW n, n = s.offset,
                    NEW g, g = Grown(s, rest), NEW p, p = q \o rest
             PROVE  /\ g \in Slots
                    /\ After(FlattenSeq(q), n) \in Seq(Unit)
                    /\ After(FlattenSeq(g.slices), g.offset)
                            = After(FlattenSeq(q), n) \o FlattenSeq(rest)
  BY Zenon DEF Left
<1>1. q \in Seq(Seq(Unit)) /\ n \in 0 .. Len(FlattenSeq(q))
  <2>1. CASE s \in Slots
    BY <2>1, LeftType DEF Slots
  <2>2. CASE s = NewSlot
    <3>1. q = <<>> /\ n = 0
      BY <2>2 DEF NewSlot
    <3>2. Len(FlattenSeq(q)) = 0 /\ q \in Seq(Seq(Unit))
      BY <3>1, FlattenEmpty, EmptySeq
    <3> QED
      BY <3>1, <3>2
  <2> QED
    BY <2>1, <2>2
<1>2. g.slices = p /\ g.offset = n
  BY DEF Grown, Slots, NewSlot
<1>3. FlattenSeq(p) = FlattenSeq(q) \o FlattenSeq(rest)
  BY <1>1, FlattenConcat, Zenon
<1>4. FlattenSeq(q) \in Seq(Unit) /\ FlattenSeq(rest) \in Seq(Unit)
  BY <1>1, FlattenType, Zenon
<1>5. After(FlattenSeq(q) \o FlattenSeq(rest), n) = After(FlattenSeq(q), n) \o FlattenSeq(rest)
  BY <1>1, <1>4, AfterConcat, Zenon
<1>6. After(FlattenSeq(q), n) \in Seq(Unit)
  BY <1>1, <1>4, AfterType, Zenon
<1>7. g \in Slots
  <2>1. p \in Seq(Seq(Unit)) /\ Len(p) = Len(q) + Len(rest)
        /\ \A i \in 1 .. Len(q) + Len(rest) : p[i] = IF i <= Len(q) THEN q[i] ELSE rest[i - Len(q)]
    BY <1>1, ConcatProperties
  <2>2. Len(rest) \in Nat \ {0} /\ Len(q) \in Nat
    BY <1>1, EmptySeq, LenProperties
  <2>3. p # <<>>
    BY <2>1, <2>2, EmptySeq
  <2>4. n \in Nat /\ n <= Len(Head(p))
    <3>1. CASE s \in Slots
      <4>1. n \in Nat /\ n <= Len(Head(q)) /\ q # <<>>
        BY <3>1 DEF Slots
      <4>2. Len(q) # 0
        BY <1>1, <4>1, EmptySeq
      <4>3. p[1] = q[1]
        BY <2>1, <2>2, <4>2
      <4> QED
        BY <1>1, <2>1, <2>3, <4>1, <4>3
    <3>2. CASE s = NewSlot
      <4>1. n = 0
        BY <3>2 DEF NewSlot
      <4>2. Head(p) \in Seq(Unit)
        BY <2>1, <2>3, HeadTailProperties
      <4>3. Len(Head(p)) \in Nat
        BY <4>2, LenProperties
      <4> QED
        BY <4>1, <4>3
    <3> QED
      BY <3>1, <3>2
  <2>5. g.alloc \in Nat
    <3>1. Len(FlattenSeq(rest)) \in Nat
      BY <1>4, LenProperties
    <3>2. Len(rest) * SliceOverhead \in Nat
      BY <2>2, WriterAssumption
    <3>3. s.alloc \in Nat
      BY DEF Slots, NewSlot
    <3>4. g.alloc = s.alloc + Len(FlattenSeq(rest)) + Len(rest) * SliceOverhead
      BY DEF Grown, Slots, NewSlot
    <3> HIDE DEF Grown
    <3> QED
      BY <3>1, <3>2, <3>3, <3>4
  <2>6. g \in [alloc : Nat, offset : Nat, slices : Seq(Seq(Unit))]
    <3>1. g = [alloc |-> g.alloc, offset |-> g.offset, slices |-> g.slices]
      BY DEF Grown, Slots, NewSlot
    <3> QED
      BY <1>2, <2>1, <2>4, <2>5, <3>1
  <2> QED
    BY <1>2, <2>3, <2>4, <2>6 DEF Slots
<1> QED
  BY <1>2, <1>3, <1>5, <1>6, <1>7

(***************************************************************************)
(* What is cached waits after all the rest, in whichever slot.             *)
(***************************************************************************)
LEMMA CachedUnsent ==
    ASSUME NEW w \in Seq(Slots), NEW size, NEW rest \in Seq(Seq(Unit)), rest # <<>>
    PROVE  /\ Emplace(NextEmplaceSlot(w, size), rest) \in Seq(Slots)
           /\ Unsent(Emplace(NextEmplaceSlot(w, size), rest)) = Unsent(w) \o FlattenSeq(rest)
<1> DEFINE Records == [alloc : Nat, offset : Nat, slices : Seq(Seq(Unit))]
<1>0. NewSlot \in Records /\ Slots \subseteq Records
  BY EmptySeq DEF NewSlot, Slots
<1> HIDE DEF Records
<1>1. ASSUME NEW u \in Seq(Slots), NEW a, a \in Slots \/ a = NewSlot
      PROVE  /\ Emplace(Append(u, a), rest) \in Seq(Slots)
             /\ Unsent(Emplace(Append(u, a), rest)) = Unsent(u) \o (Left(a) \o FlattenSeq(rest))
  <2>1. Grown(a, rest) \in Slots /\ Left(Grown(a, rest)) = Left(a) \o FlattenSeq(rest)
    BY <1>1, GrownLeft, Zenon
  <2>2. u \in Seq(Records)
    BY <1>0, SeqMonotonic
  <2>3. a \in Records /\ Grown(a, rest) \in Records
    BY <1>0, <1>1, <2>1
  <2>4. Emplace(Append(u, a), rest) = Append(u, Grown(a, rest))
    BY <2>2, <2>3, ReplaceLast DEF Emplace
  <2>5. Append(u, Grown(a, rest)) \in Seq(Slots)
    BY <2>1, AppendProperties
  <2>6. Unsent(Append(u, Grown(a, rest))) = Unsent(u) \o Left(Grown(a, rest))
    BY <2>1, UnsentAppend, Zenon
  <2> QED
    BY <2>1, <2>4, <2>5, <2>6
<1>2. Unsent(w) \in Seq(Unit) /\ FlattenSeq(rest) \in Seq(Unit)
  BY LeftsType, FlattenType, Zenon
<1>3. CASE NextEmplaceSlot(w, size) = Append(w, NewSlot)
  <2>1. Left(NewSlot) = <<>>
    <3>1. NewSlot.slices = <<>> /\ NewSlot.offset = 0 /\ <<>> \in Seq(Unit)
      BY EmptySeq DEF NewSlot
    <3>2. Left(NewSlot) = After(<<>>, 0)
      BY <3>1, FlattenEmpty DEF Left
    <3> QED
      BY <3>1, <3>2, AfterEnds
  <2>2. <<>> \o FlattenSeq(rest) = FlattenSeq(rest)
    BY <1>2, ConcatEmptySeq
  <2> QED
    BY <1>1, <1>3, <2>1, <2>2
<1>4. CASE NextEmplaceSlot(w, size) = w /\ w # <<>>
  <2>0. w # <<>>
    BY <1>4
  <2>1. PICK u \in Seq(Slots), a \in Slots : w = Append(u, a)
    BY <2>0, SequenceEmptyOrAppend, Zenon
  <2>2. Unsent(w) = Unsent(u) \o Left(a)
    BY <2>1, UnsentAppend, Zenon
  <2>3. Unsent(u) \in Seq(Unit) /\ Left(a) \in Seq(Unit)
    BY LeftsType, LeftType, Zenon
  <2>4. (Unsent(u) \o Left(a)) \o FlattenSeq(rest) = Unsent(u) \o (Left(a) \o FlattenSeq(rest))
    BY <1>2, <2>3, UnitsAssociate, Zenon
  <2> QED
    BY <1>1, <1>4, <2>1, <2>2, <2>4
<1>5. \/ NextEmplaceSlot(w, size) = Append(w, NewSlot)
      \/ NextEmplaceSlot(w, size) = w /\ w # <<>>
  <2>1. Append(<<>>, NewSlot) = <<NewSlot>>
    OBVIOUS
  <2> QED
    BY <2>1, Zenon DEF NextEmplaceSlot
<1> QED
  BY <1>3, <1>4, <1>5

(***************************************************************************)
(* What is popped was at the front, and the rest waits on.                 *)
(***************************************************************************)
LEMMA PoppedUnsent ==
    ASSUME NEW w \in Seq(Slots), w # <<>>, NEW n \in 0 .. Len(NextBytes(w))
    PROVE  /\ PopWritten(w, n) \in Seq(Slots)
           /\ SubSeq(NextBytes(w), 1, n) \in Seq(Unit)
           /\ SubSeq(NextBytes(w), 1, n) \o Unsent(PopWritten(w, n)) = Unsent(w)
<1> SUFFICES ASSUME NEW s, s = Head(w), NEW more, more = Tail(w),
                    NEW next, next = NextBytes(w), NEW p, p = Pop(s, n),
                    NEW first, first = Head(s.slices),
                    NEW others, others = FlattenSeq(Tail(s.slices)),
                    NEW popped, popped = PopWritten(w, n)
             PROVE  /\ popped \in Seq(Slots)
                    /\ SubSeq(next, 1, n) \in Seq(Unit)
                    /\ SubSeq(next, 1, n) \o Unsent(popped) = Unsent(w)
  OBVIOUS
<1>1. s \in Slots /\ more \in Seq(Slots) /\ w = <<s>> \o more
  BY HeadTailProperties, HeadTailConcat
<1>2. Unsent(w) = Left(s) \o Unsent(more) /\ Unsent(more) \in Seq(Unit)
  BY <1>1, UnsentCons, LeftsType, Zenon
<1>3. next = After(first, s.offset)
  BY Zenon DEF NextBytes, After
<1>4. next \in Seq(Unit) /\ others \in Seq(Unit) /\ Left(s) = next \o others
  BY <1>1, <1>3, LeftType, Zenon
<1>5. SubSeq(next, 1, n) \in Seq(Unit) /\ SubSeq(next, 1, n) \o After(next, n) = next
      /\ After(next, n) \in Seq(Unit)
  BY <1>4, AfterSplit, AfterType
<1>6. popped = IF p.slices = <<>> THEN more ELSE <<p>> \o more
  BY Zenon DEF PopWritten
<1>7. s.slices \in Seq(Seq(Unit)) /\ s.slices # <<>> /\ s.offset \in 0 .. Len(first)
      /\ first \in Seq(Unit) /\ Tail(s.slices) \in Seq(Seq(Unit))
  <2>1. s.slices \in Seq(Seq(Unit)) /\ s.slices # <<>> /\ s.offset \in Nat /\ s.offset <= Len(first)
    BY <1>1 DEF Slots
  <2>2. first \in Seq(Unit) /\ Tail(s.slices) \in Seq(Seq(Unit))
    BY <2>1, HeadTailProperties
  <2>3. Len(first) \in Nat
    BY <2>2, LenProperties
  <2> QED
    BY <2>1, <2>2, <2>3
<1>8. Len(next) = Len(first) - s.offset /\ Len(first) \in Nat /\ n \in Nat
  <2>1. Len(next) = Len(first) - s.offset
    BY <1>3, <1>7, AfterType, Zenon
  <2>2. Len(first) \in Nat
    BY <1>7, LenProperties
  <2> QED
    BY <1>7, <2>1, <2>2
<1>9. /\ popped \in Seq(Slots)
      /\ After(next, n) \o (others \o Unsent(more)) = Unsent(popped)
  <2>1. CASE n >= Len(first) - s.offset
    <3>1. n = Len(next)
      BY <1>8, <2>1
    <3>2. After(next, n) = <<>>
      BY <1>4, <3>1, AfterEnds
    <3>3. others \o Unsent(more) \in Seq(Unit)
      BY <1>2, <1>4, ConcatProperties
    <3>4. After(next, n) \o (others \o Unsent(more)) = others \o Unsent(more)
      BY <3>2, <3>3, ConcatEmptySeq
    <3>5. p = [s EXCEPT !.slices = Tail(@), !.offset = 0]
      BY <2>1 DEF Pop
    <3>6. p.slices = Tail(s.slices) /\ p.offset = 0
      BY <1>1, <3>5 DEF Slots
    <3>7. CASE p.slices = <<>>
      <4>1. others = <<>>
        BY <3>6, <3>7, FlattenEmpty
      <4>2. others \o Unsent(more) = Unsent(more)
        BY <1>2, <4>1, ConcatEmptySeq
      <4> QED
        BY <1>1, <1>6, <3>4, <3>7, <4>2
    <3>8. CASE p.slices # <<>>
      <4>1. Len(Head(p.slices)) \in Nat
        <5>1. Head(p.slices) \in Seq(Unit)
          BY <1>7, <3>6, <3>8, HeadTailProperties
        <5> QED
          BY <5>1, LenProperties
      <4>2. p \in [alloc : Nat, offset : Nat, slices : Seq(Seq(Unit))]
        <5>1. s.alloc \in Nat /\ p = [alloc |-> s.alloc, offset |-> 0, slices |-> Tail(s.slices)]
          BY <1>1, <3>5 DEF Slots
        <5>2. PICK q \in Seq(Seq(Unit)) : q = Tail(s.slices)
          BY <1>7
        <5>3. p = [alloc |-> s.alloc, offset |-> 0, slices |-> q] /\ s.alloc \in Nat
          BY <5>1, <5>2
        <5> QED
          BY <5>3
      <4>3. p \in Slots
        BY <3>6, <3>8, <4>1, <4>2 DEF Slots
      <4>4. <<p>> \o more \in Seq(Slots) /\ Unsent(<<p>> \o more) = Left(p) \o Unsent(more)
        BY <1>1, <4>3, UnsentCons, Zenon
      <4>5. Left(p) = others
        <5>1. Left(p) = After(others, 0)
          BY <3>6 DEF Left
        <5> QED
          BY <1>4, <5>1, AfterEnds
      <4> QED
        BY <1>6, <3>4, <3>8, <4>4, <4>5
    <3> QED
      BY <3>7, <3>8
  <2>2. CASE ~(n >= Len(first) - s.offset)
    <3>1. p = [s EXCEPT !.offset = @ + n]
      BY <2>2 DEF Pop
    <3>2. p.slices = s.slices /\ p.offset = s.offset + n
      BY <1>1, <3>1 DEF Slots
    <3>3. s.offset + n \in Nat /\ s.offset + n <= Len(first)
          /\ n \in 0 .. Len(first) - s.offset
      BY <1>7, <1>8, <2>2
    <3>4. p \in Slots
      <4>1. p \in [alloc : Nat, offset : Nat, slices : Seq(Seq(Unit))]
        BY <1>1, <3>1, <3>3 DEF Slots
      <4> QED
        BY <1>7, <3>2, <3>3, <4>1 DEF Slots
    <3>5. Left(p) = After(first, s.offset + n) \o others
      BY <3>2, <3>4, LeftType, Zenon
    <3>6. After(first, s.offset + n) = After(next, n)
      BY <1>3, <1>7, <3>3, AfterAfter
    <3>7. <<p>> \o more \in Seq(Slots) /\ Unsent(<<p>> \o more) = Left(p) \o Unsent(more)
      BY <1>1, <3>4, UnsentCons, Zenon
    <3>. After(next, n) \in Seq(Unit) /\ others \in Seq(Unit) /\ Unsent(more) \in Seq(Unit)
      BY <1>2, <1>4, <1>5
    <3>8. (After(next, n) \o others) \o Unsent(more) = After(next, n) \o (others \o Unsent(more))
      BY UnitsAssociate, ZenonT(60)
    <3>9. popped = <<p>> \o more
      BY <1>6, <1>7, <3>2
    <3> QED
      BY <3>5, <3>6, <3>7, <3>8, <3>9
  <2> QED
    BY <2>1, <2>2
<1>10. SubSeq(next, 1, n) \o (After(next, n) \o (others \o Unsent(more))) = Unsent(w)
  <2>1. PICK x \in Seq(Unit) : x = SubSeq(next, 1, n)
    BY <1>5
  <2>2. PICK y \in Seq(Unit) : y = After(next, n)
    BY <1>5
  <2>3. PICK z \in Seq(Unit) : z = others
    BY <1>4
  <2>4. PICK t \in Seq(Unit) : t = Unsent(more)
    BY <1>2
  <2>5. z \o t \in Seq(Unit) /\ x \o y \in Seq(Unit)
    BY ConcatProperties
  <2>6. (x \o y) \o (z \o t) = x \o (y \o (z \o t))
    BY <2>5, UnitsAssociate, ZenonT(60)
  <2>7. ((x \o y) \o z) \o t = (x \o y) \o (z \o t)
    BY <2>5, UnitsAssociate, ZenonT(60)
  <2> QED
    BY <1>2, <1>4, <1>5, <2>1, <2>2, <2>3, <2>4, <2>6, <2>7
<1> QED
  BY <1>5, <1>9, <1>10
----------------------------------------------------------------------------
(* The units of a frame.                                                    *)

\* The units of the f-th frame after the a-th, up to the b-th.
Span(f, a, b) == [i \in 1 .. b - a |-> <<f, a + i>>]

\* Where the buckets of a frame may end.
Shapes ==
    {e \in Seq(Nat \ {0}) :
        e # <<>> /\ \A i, j \in DOMAIN e : i < j => e[i] < e[j]}

(***************************************************************************)
(* A span is a sequence of units, as long as it says.                      *)
(***************************************************************************)
LEMMA SpanType ==
    ASSUME NEW f \in Nat, NEW a \in Nat, NEW b \in Nat, a <= b
    PROVE  /\ Span(f, a, b) \in Seq(Unit)
           /\ Len(Span(f, a, b)) = b - a
           /\ \A i \in 1 .. b - a : Span(f, a, b)[i] = <<f, a + i>>
<1>1. b - a \in Nat
  OBVIOUS
<1>2. \A i \in 1 .. b - a : <<f, a + i>> \in Unit
  BY DEF Unit
<1>3. Span(f, a, b) \in [1 .. b - a -> Unit]
  BY <1>2 DEF Span
<1>4. Span(f, a, b) \in Seq(Unit)
  BY <1>1, <1>3, SeqDef
<1>5. Len(Span(f, a, b)) = b - a
  BY <1>1, <1>3, <1>4, LenProperties
<1>6. \A i \in 1 .. b - a : Span(f, a, b)[i] = <<f, a + i>>
  BY DEF Span
<1> QED
  BY <1>4, <1>5, <1>6

(***************************************************************************)
(* Spans that meet are one.                                                *)
(***************************************************************************)
LEMMA SpanJoin ==
    ASSUME NEW f \in Nat, NEW a \in Nat, NEW b \in Nat, NEW c \in Nat, a <= b, b <= c
    PROVE  Span(f, a, b) \o Span(f, b, c) = Span(f, a, c)
<1> SUFFICES ASSUME NEW x, x = Span(f, a, b), NEW y, y = Span(f, b, c),
                    NEW z, z = Span(f, a, c)
             PROVE  x \o y = z
  BY Zenon
<1>1. /\ x \in Seq(Unit) /\ Len(x) = b - a
      /\ \A i \in 1 .. b - a : x[i] = <<f, a + i>>
  BY SpanType
<1>2. /\ y \in Seq(Unit) /\ Len(y) = c - b
      /\ \A i \in 1 .. c - b : y[i] = <<f, b + i>>
  BY SpanType
<1>3. /\ z \in Seq(Unit) /\ Len(z) = c - a
      /\ \A i \in 1 .. c - a : z[i] = <<f, a + i>>
  <2>1. a <= c
    OBVIOUS
  <2> QED
    BY <2>1, SpanType
<1> SUFFICES ASSUME NEW xy, xy = x \o y
             PROVE  xy = z
  BY Zenon
<1>4. /\ xy \in Seq(Unit) /\ Len(xy) = Len(x) + Len(y)
      /\ \A i \in 1 .. Len(x) + Len(y) : xy[i] = IF i <= Len(x) THEN x[i] ELSE y[i - Len(x)]
  BY <1>1, <1>2, ConcatProperties
<1>5. ASSUME NEW i \in 1 .. c - a
      PROVE  xy[i] = z[i]
  <2>1. CASE i <= b - a
    <3>1. i \in 1 .. b - a /\ i \in 1 .. Len(x) + Len(y) /\ i <= Len(x)
      BY <1>1, <1>2, <2>1
    <3>2. xy[i] = x[i]
      BY <1>4, <3>1
    <3> QED
      BY <1>1, <1>3, <3>1, <3>2
  <2>2. CASE ~(i <= b - a)
    <3>1. i - (b - a) \in 1 .. c - b /\ b + (i - (b - a)) = a + i
      BY <2>2
    <3>2. xy[i] = y[i - (b - a)]
      BY <1>1, <1>2, <1>4, <2>2, SMTT(60)
    <3>3. y[i - (b - a)] = <<f, b + (i - (b - a))>>
      BY <1>2, <3>1
    <3> QED
      BY <1>3, <3>1, <3>2, <3>3
  <2> QED
    BY <2>1, <2>2
<1>6. Len(xy) = c - a
  BY <1>1, <1>2, <1>4
<1> QED
  BY <1>3, <1>4, <1>5, <1>6, SeqEqual

(***************************************************************************)
(* The units of a frame, in the order of its buckets.                      *)
(***************************************************************************)
LEMMA BucketsFlat ==
    ASSUME NEW f \in Nat, NEW from \in Nat, NEW e \in Shapes, from < e[1]
    PROVE  /\ Buckets(f, from, e) \in Seq(Seq(Unit))
           /\ Buckets(f, from, e) # <<>>
           /\ FlattenSeq(Buckets(f, from, e)) = Span(f, from, Last(e))
<1> DEFINE begin(k) == IF k = 1 THEN from ELSE e[k - 1]
<1> SUFFICES ASSUME NEW b, b = Buckets(f, from, e), NEW m, m = Len(e)
             PROVE  b \in Seq(Seq(Unit)) /\ b # <<>> /\ FlattenSeq(b) = Span(f, from, e[m])
  BY DEF Last
<1>1. /\ m \in Nat \ {0} /\ DOMAIN e = 1 .. m
      /\ \A k \in 1 .. m : e[k] \in Nat
      /\ \A i, j \in 1 .. m : i < j => e[i] < e[j]
  <2>1. e \in Seq(Nat \ {0}) /\ e # <<>> /\ \A i, j \in DOMAIN e : i < j => e[i] < e[j]
    BY DEF Shapes
  <2>2. m \in Nat \ {0} /\ DOMAIN e = 1 .. m
    BY <2>1, EmptySeq, LenProperties
  <2>3. \A k \in 1 .. m : e[k] \in Nat
    BY <2>1, ElementOfSeq
  <2> QED
    BY <2>1, <2>2, <2>3
<1>2. \A k \in 1 .. m : begin(k) \in Nat /\ begin(k) <= e[k] /\ from <= e[k]
  <2> SUFFICES ASSUME NEW k \in 1 .. m
               PROVE  begin(k) \in Nat /\ begin(k) <= e[k] /\ from <= e[k]
    OBVIOUS
  <2>1. CASE k = 1
    BY <1>1, <2>1
  <2>2. CASE k # 1
    <3>1. k - 1 \in 1 .. m /\ k - 1 < k /\ 1 \in 1 .. m /\ 1 < k
      BY <1>1, <2>2
    <3>2. e[k - 1] \in Nat /\ e[k] \in Nat /\ e[1] \in Nat /\ e[k - 1] < e[k] /\ e[1] < e[k]
      BY <1>1, <3>1
    <3> QED
      BY <2>2, <3>2
  <2> QED
    BY <2>1, <2>2
<1>3. b = [k \in 1 .. m |-> Span(f, begin(k), e[k])]
  BY <1>1, Zenon DEF Buckets, Span
<1> HIDE DEF begin
<1>4. ASSUME NEW k \in 1 .. m
      PROVE  b[k] = Span(f, begin(k), e[k]) /\ b[k] \in Seq(Unit)
  <2>1. b[k] = Span(f, begin(k), e[k])
    BY <1>3
  <2>2. begin(k) \in Nat /\ e[k] \in Nat /\ begin(k) <= e[k]
    BY <1>1, <1>2
  <2>3. Span(f, begin(k), e[k]) \in Seq(Unit)
    BY <2>2, SpanType
  <2> QED
    BY <2>1, <2>3
<1>5. b \in Seq(Seq(Unit)) /\ Len(b) = m
  <2>1. b \in [1 .. m -> Seq(Unit)]
    BY <1>3, <1>4
  <2>2. b \in Seq(Seq(Unit))
    BY <1>1, <2>1, SeqDef
  <2> QED
    BY <1>1, <2>1, <2>2, LenProperties
<1>6. /\ \A k \in 1 .. Len(b) :
            Flattening(b)[k] = IF k = 1 THEN b[k] ELSE Flattening(b)[k - 1] \o b[k]
      /\ FlattenSeq(b) = IF Len(b) = 0 THEN b ELSE Flattening(b)[Len(b)]
  BY <1>5, FlattenSteps, Zenon
<1> DEFINE T == {k \in Nat : k \in 1 .. m => Flattening(b)[k] = Span(f, from, e[k])}
<1>7. 0 \in T
  OBVIOUS
<1>8. ASSUME NEW k \in Nat, k \in T
      PROVE  k + 1 \in T
  <2> SUFFICES ASSUME k + 1 \in 1 .. m
               PROVE  Flattening(b)[k + 1] = Span(f, from, e[k + 1])
    OBVIOUS
  <2>1. Flattening(b)[k + 1] = IF k + 1 = 1 THEN b[k + 1] ELSE Flattening(b)[(k + 1) - 1] \o b[k + 1]
    BY <1>5, <1>6, Zenon
  <2>2. b[k + 1] = Span(f, begin(k + 1), e[k + 1])
    BY <1>4
  <2>3. CASE k = 0
    BY <2>1, <2>2, <2>3 DEF begin
  <2>4. CASE k # 0
    <3>1. k \in 1 .. m /\ (k + 1) - 1 = k /\ k + 1 # 1
      BY <2>4
    <3>2. Flattening(b)[k] = Span(f, from, e[k])
      BY <1>8, <3>1
    <3>3. begin(k + 1) = e[k]
      BY <3>1 DEF begin
    <3>4. from <= e[k] /\ e[k] <= e[k + 1] /\ e[k] \in Nat /\ e[k + 1] \in Nat
      BY <1>1, <1>2, <3>1, <3>3
    <3>5. Span(f, from, e[k]) \o Span(f, e[k], e[k + 1]) = Span(f, from, e[k + 1])
      BY <3>4, SpanJoin
    <3> QED
      BY <2>1, <2>2, <3>1, <3>2, <3>3, <3>5
  <2> QED
    BY <2>3, <2>4
<1> HIDE DEF T
<1>9. Nat \subseteq T
  BY <1>7, <1>8, Induction
<1>10. Flattening(b)[m] = Span(f, from, e[m])
  BY <1>1, <1>9 DEF T
<1>11. b # <<>>
  BY <1>1, <1>5, EmptySeq
<1> QED
  BY <1>1, <1>5, <1>6, <1>10, <1>11

(***************************************************************************)
(* What is left of a frame after n units, in the rest of its buckets.      *)
(***************************************************************************)
LEMMA RestFlat ==
    ASSUME NEW f \in Nat, NEW n \in Nat, NEW e \in Shapes, n < Last(e)
    PROVE  /\ Rest(f, e, n) \in Seq(Seq(Unit))
           /\ Rest(f, e, n) # <<>>
           /\ FlattenSeq(Rest(f, e, n)) = Span(f, n, Last(e))
<1> DEFINE m == Len(e)
           Starts(k) == n < e[k] /\ (k = 1 \/ e[k - 1] <= n)
           first == CHOOSE k \in DOMAIN e : Starts(k)
           tail == SubSeq(e, first, m)
<1>1. /\ m \in Nat \ {0} /\ DOMAIN e = 1 .. m /\ e \in Seq(Nat \ {0})
      /\ \A k \in 1 .. m : e[k] \in Nat \ {0}
      /\ \A i, j \in 1 .. m : i < j => e[i] < e[j]
  <2>1. e \in Seq(Nat \ {0}) /\ e # <<>> /\ \A i, j \in DOMAIN e : i < j => e[i] < e[j]
    BY DEF Shapes
  <2>2. m \in Nat \ {0} /\ DOMAIN e = 1 .. m
    BY <2>1, EmptySeq, LenProperties
  <2>3. \A k \in 1 .. m : e[k] \in Nat \ {0}
    BY <2>1, ElementOfSeq
  <2> QED
    BY <2>1, <2>2, <2>3
<1>2. first \in 1 .. m /\ Starts(first)
  <2> DEFINE T == {k \in 1 .. m : n < e[k]}
  <2>1. T \subseteq Nat /\ m \in T
    BY <1>1 DEF Last
  <2>2. PICK k \in T : \A y \in T : k <= y
    <3> HIDE DEF T
    <3> QED
      BY <2>1, Least
  <2>3. k = 1 \/ e[k - 1] <= n
    <3> SUFFICES ASSUME k # 1
                 PROVE  e[k - 1] <= n
      OBVIOUS
    <3>1. k - 1 \in 1 .. m /\ ~(k <= k - 1)
      BY <1>1
    <3>2. k - 1 \notin T
      BY <2>2, <3>1
    <3> QED
      BY <1>1, <3>1, <3>2
  <2>4. \E j \in DOMAIN e : Starts(j)
    BY <1>1, <2>3
  <2> HIDE DEF Starts
  <2> QED
    BY <1>1, <2>4
<1>3. Rest(f, e, n) = Buckets(f, n, tail)
  BY Zenon DEF Rest
<1> HIDE DEF first
<1>4. /\ tail \in Seq(Nat \ {0}) /\ Len(tail) = m - first + 1
      /\ \A i \in 1 .. m - first + 1 : tail[i] = e[first + i - 1]
  <2>1. \A i \in first .. m : e[i] \in Nat \ {0}
    BY <1>1, <1>2
  <2> HIDE DEF m
  <2>2. /\ tail \in Seq(Nat \ {0}) /\ Len(tail) = IF first <= m THEN m - first + 1 ELSE 0
        /\ \A i \in 1 .. m - first + 1 : tail[i] = e[first + i - 1]
    BY <1>1, <1>2, <2>1, SubSeqProperties
  <2> QED
    BY <1>1, <1>2, <2>2
<1> HIDE DEF tail, m
<1>5. tail # <<>> /\ Last(tail) = Last(e) /\ tail[1] = e[first]
  <2>1. m - first + 1 \in 1 .. m - first + 1 /\ first + (m - first + 1) - 1 = m
        /\ 1 \in 1 .. m - first + 1 /\ first + 1 - 1 = first
    BY <1>1, <1>2
  <2>2. Len(tail) # 0
    BY <1>1, <1>2, <1>4
  <2>3. Last(tail) = e[m]
    BY <1>4, <2>1 DEF Last
  <2>4. tail[1] = e[first]
    BY <1>4, <2>1
  <2> QED
    BY <2>2, <2>3, <2>4, EmptySeq DEF Last, m
<1>6. tail \in Shapes
  <2>1. DOMAIN tail = 1 .. m - first + 1
    BY <1>4, LenProperties
  <2>2. ASSUME NEW i \in 1 .. m - first + 1, NEW j \in 1 .. m - first + 1, i < j
        PROVE  tail[i] < tail[j]
    <3>1. first + i - 1 \in 1 .. m /\ first + j - 1 \in 1 .. m /\ first + i - 1 < first + j - 1
      BY <1>1, <1>2, <2>2
    <3>2. e[first + i - 1] < e[first + j - 1]
      BY <1>1, <3>1
    <3> QED
      BY <1>4, <3>2
  <2> QED
    BY <1>4, <1>5, <2>1, <2>2 DEF Shapes
<1>7. n < tail[1]
  BY <1>2, <1>5
<1> QED
  BY <1>3, <1>5, <1>6, <1>7, BucketsFlat
----------------------------------------------------------------------------
(* Frames on their way.                                                     *)

\* Every unit on its way is one of a frame that was written.
UnitsInv == wire \in Seq(Units) /\ Unsent(writer) \in Seq(Units)

\* What the socket took and what waits are the frames that were written, and the
\* socket is given no more than it has room for.
WriteInv ==
    /\ inflight \in 0 .. Window
    /\ frames \in Nat
    /\ wire \in Seq(Unit)
    /\ expected \in Seq(Unit)
    /\ writer \in Seq(Slots)
    /\ broken \in BOOLEAN
    /\ FramesWhole
    /\ UnitsInv

(***************************************************************************)
(* Of two numbers Min is the smaller.                                      *)
(***************************************************************************)
LEMMA MinOfTwo ==
    ASSUME NEW a \in Nat, NEW b \in Nat
    PROVE  Min({a, b}) \in Nat /\ Min({a, b}) <= a /\ Min({a, b}) <= b
<1>1. \E x \in {a, b} : \A y \in {a, b} : x <= y
  <2>1. CASE a <= b
    BY <2>1
  <2>2. CASE ~(a <= b)
    BY <2>2
  <2> QED
    BY <2>1, <2>2
<1>2. Min({a, b}) \in {a, b} /\ \A y \in {a, b} : Min({a, b}) <= y
  BY <1>1 DEF Min
<1> QED
  BY <1>2

(***************************************************************************)
(* Nothing waits in an empty writer.                                       *)
(***************************************************************************)
LEMMA UnsentEmpty == Unsent(<<>>) = <<>>
<1>1. <<>> \in Seq(Slots)
  BY EmptySeq
<1>2. Lefts(<<>>) \in Seq(Seq(Unit)) /\ Len(Lefts(<<>>)) = Len(<<>>)
      /\ Unsent(<<>>) = FlattenSeq(Lefts(<<>>))
  BY <1>1, LeftsType
<1>3. Lefts(<<>>) = <<>>
  BY <1>2, EmptySeq
<1> QED
  BY <1>2, <1>3, FlattenEmpty

(***************************************************************************)
(* What a frame adds, if nothing waited before the units the socket took.  *)
(***************************************************************************)
LEMMA UnitsJoin ==
    ASSUME NEW f \in Nat, NEW m \in Nat, NEW n \in 0 .. m,
           NEW sofar \in Seq(Unit), NEW waits \in Seq(Unit), n = 0 \/ waits = <<>>
    PROVE  /\ SubSeq(Span(f, 0, m), 1, n) \in Seq(Unit)
           /\ Len(SubSeq(Span(f, 0, m), 1, n)) = n
           /\ (sofar \o SubSeq(Span(f, 0, m), 1, n)) \o (waits \o Span(f, n, m))
                = (sofar \o waits) \o Span(f, 0, m)
<1> DEFINE part == SubSeq(Span(f, 0, m), 1, n)
<1>0. n \in Nat /\ n <= m /\ 0 <= n /\ 0 <= m /\ 0 \in Nat
  OBVIOUS
<1>1. /\ Span(f, 0, m) \in Seq(Unit) /\ Len(Span(f, 0, m)) = m
      /\ \A i \in 1 .. m : Span(f, 0, m)[i] = <<f, 0 + i>>
  <2>1. /\ Span(f, 0, m) \in Seq(Unit) /\ Len(Span(f, 0, m)) = m - 0
        /\ \A i \in 1 .. m - 0 : Span(f, 0, m)[i] = <<f, 0 + i>>
    BY <1>0, SpanType, Zenon
  <2>2. m - 0 = m
    OBVIOUS
  <2> QED
    BY <2>1, <2>2
<1>2. /\ Span(f, 0, n) \in Seq(Unit) /\ Len(Span(f, 0, n)) = n
      /\ \A i \in 1 .. n : Span(f, 0, n)[i] = <<f, 0 + i>>
  <2>1. /\ Span(f, 0, n) \in Seq(Unit) /\ Len(Span(f, 0, n)) = n - 0
        /\ \A i \in 1 .. n - 0 : Span(f, 0, n)[i] = <<f, 0 + i>>
    BY <1>0, SpanType, Zenon
  <2>2. n - 0 = n
    OBVIOUS
  <2> QED
    BY <2>1, <2>2
<1>3. Span(f, n, m) \in Seq(Unit)
  BY <1>0, SpanType
<1>4. part = Span(f, 0, n)
  <2>1. \A i \in 1 .. n : Span(f, 0, m)[i] \in Unit
    BY <1>1, ElementOfSeq
  <2>2. /\ part \in Seq(Unit) /\ Len(part) = IF 1 <= n THEN n - 1 + 1 ELSE 0
        /\ \A i \in 1 .. n - 1 + 1 : part[i] = Span(f, 0, m)[1 + i - 1]
    BY <2>1, SubSeqProperties
  <2> HIDE DEF part
  <2>3. Len(part) = n
    BY <2>2
  <2>4. ASSUME NEW i \in 1 .. n
        PROVE  part[i] = Span(f, 0, n)[i]
    <3>1. i \in 1 .. n - 1 + 1 /\ 1 + i - 1 = i /\ i \in 1 .. m
      OBVIOUS
    <3> QED
      BY <1>1, <1>2, <2>2, <3>1
  <2> QED
    BY <1>2, <2>2, <2>3, <2>4, SeqEqual
<1> HIDE DEF part
<1>5. part \o Span(f, n, m) = Span(f, 0, m)
  BY <1>0, <1>4, SpanJoin
<1>6. (sofar \o part) \o (waits \o Span(f, n, m)) = (sofar \o waits) \o Span(f, 0, m)
  <2>1. PICK x \in Seq(Unit) : x = part
    BY <1>2, <1>4
  <2>2. PICK y \in Seq(Unit) : y = Span(f, n, m)
    BY <1>3
  <2>3. x \o y \in Seq(Unit) /\ <<>> \in Seq(Unit)
    BY ConcatProperties, EmptySeq
  <2>4. (sofar \o x) \o (waits \o y) = (sofar \o waits) \o (x \o y)
    <3>1. CASE n = 0
      <4>1. x = <<>>
        BY <1>2, <1>4, <2>1, <3>1, EmptySeq
      <4>2. sofar \o <<>> = sofar /\ <<>> \o y = y
        BY ConcatEmptySeq
      <4>3. sofar \o (waits \o y) = (sofar \o waits) \o y
        BY UnitsAssociate, Zenon
      <4> QED
        BY <4>1, <4>2, <4>3
    <3>2. CASE waits = <<>>
      <4>1. <<>> \o y = y /\ sofar \o <<>> = sofar
        BY ConcatEmptySeq
      <4>2. (sofar \o x) \o y = sofar \o (x \o y)
        BY UnitsAssociate, Zenon
      <4> QED
        BY <3>2, <4>1, <4>2
    <3> QED
      BY <3>1, <3>2
  <2> QED
    BY <1>5, <2>1, <2>2, <2>4
<1> QED
  BY <1>2, <1>4, <1>6 DEF part

(***************************************************************************)
(* Both parts of a sequence are sequences of what the whole is.            *)
(***************************************************************************)
LEMMA PartsOf ==
    ASSUME NEW S, NEW T, NEW q \in Seq(S), NEW r \in Seq(S), q \o r \in Seq(T)
    PROVE  q \in Seq(T) /\ r \in Seq(T)
<1>1. PICK x : x = q \o r
  OBVIOUS
<1>2. /\ Len(q) \in Nat /\ Len(r) \in Nat /\ Len(x) = Len(q) + Len(r) /\ x \in Seq(T)
      /\ \A i \in 1 .. Len(q) + Len(r) : x[i] = IF i <= Len(q) THEN q[i] ELSE r[i - Len(q)]
  BY <1>1, ConcatProperties, LenProperties
<1>3. \A i \in 1 .. Len(q) + Len(r) : x[i] \in T
  BY <1>2, ElementOfSeq
<1>4. \A i \in 1 .. Len(q) : q[i] \in T
  BY <1>2, <1>3
<1>5. ASSUME NEW i \in 1 .. Len(r)
      PROVE  r[i] \in T
  <2>1. PICK j \in 1 .. Len(q) + Len(r) : j = Len(q) + i /\ ~(j <= Len(q)) /\ j - Len(q) = i
    <3>1. Len(q) \in Nat /\ Len(r) \in Nat
      BY LenProperties
    <3> QED
      BY <3>1
  <2> QED
    BY <1>2, <1>3, <2>1
<1>6. q \in [1 .. Len(q) -> T] /\ r \in [1 .. Len(r) -> T]
  BY <1>4, <1>5, LenProperties
<1> QED
  BY <1>2, <1>6, SeqDef

(***************************************************************************)
(* The units of the next frame, if it ends where the brigade does or       *)
(* before.                                                                 *)
(***************************************************************************)
LEMMA NextUnits ==
    ASSUME frames \in Nat, NEW f, f = frames + 1, frames' = f,
           Last(Brigade) \in Nat, NEW m \in Nat, m <= Last(Brigade), NEW q \in Seq(Units)
    PROVE  q \in Seq(Units') /\ Span(f, 0, m) \in Seq(Units')
<1>1. Units \subseteq Units'
  BY DEF Units
<1>2. q \in Seq(Units')
  <2>1. PICK U : U = Units'
    OBVIOUS
  <2>2. Units \subseteq U
    BY <1>1, <2>1
  <2>3. q \in Seq(U)
    BY <2>2, SeqMonotonic
  <2> QED
    BY <2>1, <2>3
<1>3. Span(f, 0, m) \in Seq(Units')
  <2>1. \A i \in 1 .. m : <<f, i>> \in Units'
    BY DEF Units
  <2>2. Span(f, 0, m) = [i \in 1 .. m |-> <<f, i>>]
    BY DEF Span
  <2>3. Span(f, 0, m) \in [1 .. m -> Units']
    BY <2>1, <2>2
  <2> QED
    BY <2>3, SeqDef
<1> QED
  BY <1>2, <1>3

(***************************************************************************)
(* A frame is written whole, to the socket or behind what waits, or the    *)
(* writing is broken.                                                      *)
(***************************************************************************)
LEMMA WriteFrameStep ==
    ASSUME WriteInv, NEW e \in Shapes, Last(e) <= Last(Brigade), WriteFrame(e)
    PROVE  WriteInv'
<1> DEFINE f == frames + 1
           m == Last(e)
           units == [i \in 1 .. m |-> <<f, i>>]
           try == IF sendFailed THEN e[1] ELSE m
           n == IF writer # <<>> \/ peer = "reset" THEN 0 ELSE Min({try, Room})
           part == SubSeq(Span(f, 0, m), 1, n)
           fails == /\ writer = <<>>
                    /\ sendFailed \/ peer = "reset" \/ Room \in {0} \cup Range(Front(e))
<1>1. /\ inflight \in 0 .. Window /\ frames \in Nat /\ f \in Nat /\ Window \in Nat
      /\ wire \in Seq(Unit) /\ expected \in Seq(Unit) /\ writer \in Seq(Slots)
      /\ broken \in BOOLEAN /\ Room \in Nat
  BY ConnectionAssumption DEF WriteInv, Room
<1>2. m \in Nat \ {0} /\ e[1] \in Nat /\ e[1] <= m
  <2>1. e \in Seq(Nat \ {0}) /\ e # <<>> /\ \A i, j \in DOMAIN e : i < j => e[i] < e[j]
    BY DEF Shapes
  <2>2. Len(e) \in Nat \ {0} /\ DOMAIN e = 1 .. Len(e)
    BY <2>1, EmptySeq, LenProperties
  <2>3. 1 \in 1 .. Len(e) /\ Len(e) \in 1 .. Len(e)
    BY <2>2
  <2>4. e[1] \in Nat \ {0} /\ e[Len(e)] \in Nat \ {0}
    BY <2>1, <2>3, ElementOfSeq
  <2>5. 1 = Len(e) \/ e[1] < e[Len(e)]
    BY <2>1, <2>2, <2>3
  <2> QED
    BY <2>4, <2>5 DEF Last
<1>3. n \in 0 .. m /\ n <= Room
  <2>1. try \in Nat /\ try <= m
    BY <1>2
  <2>2. Min({try, Room}) \in Nat /\ Min({try, Room}) <= try /\ Min({try, Room}) <= Room
    BY <1>1, <2>1, MinOfTwo
  <2>3. n = 0 \/ n = Min({try, Room})
    OBVIOUS
  <2> HIDE DEF n, try
  <2> QED
    BY <1>1, <1>2, <2>1, <2>2, <2>3
<1>4. n = 0 \/ Unsent(writer) = <<>>
  BY UnsentEmpty
<1>5. units = Span(f, 0, m)
  BY <1>1, <1>2 DEF Span
<1>6. /\ frames' = f /\ expected' = expected \o Span(f, 0, m)
      /\ wire' = wire \o part /\ inflight' = inflight + Len(part)
  <2>1. /\ frames' = f /\ expected' = expected \o units
        /\ wire' = wire \o SubSeq(units, 1, n) /\ inflight' = inflight + Len(SubSeq(units, 1, n))
    BY Zenon DEF WriteFrame, SocketTakes
  <2> QED
    BY <1>5, <2>1
<1>7. IF fails THEN broken' = TRUE /\ writer' = writer
      ELSE IF n < m THEN Cache(Rest(f, e, n)) ELSE writer' = writer /\ broken' = broken
  BY Zenon DEF WriteFrame
<1> HIDE DEF n, fails, try, units
<1>8. Unsent(writer) \in Seq(Unit)
  BY <1>1, LeftsType
<1>9. /\ part \in Seq(Unit) /\ Len(part) = n
      /\ (wire \o part) \o (Unsent(writer) \o Span(f, n, m))
            = (wire \o Unsent(writer)) \o Span(f, 0, m)
  <2>1. m \in Nat
    BY <1>2
  <2> HIDE DEF f, m
  <2> QED
    <3>1. PICK g \in Nat, h \in Nat : g = f /\ h = m
      BY <1>1, <2>1
    <3>2. PICK k \in 0 .. h : k = n
      BY <1>3, <3>1
    <3>3. PICK before \in Seq(Unit), waits \in Seq(Unit) : before = wire /\ waits = Unsent(writer)
      BY <1>1, <1>8
    <3>4. k = 0 \/ waits = <<>>
      BY <1>4, <3>2, <3>3
    <3>5. /\ SubSeq(Span(g, 0, h), 1, k) \in Seq(Unit)
          /\ Len(SubSeq(Span(g, 0, h), 1, k)) = k
          /\ (before \o SubSeq(Span(g, 0, h), 1, k)) \o (waits \o Span(g, k, h))
                = (before \o waits) \o Span(g, 0, h)
      BY <3>4, UnitsJoin, Zenon
    <3> QED
      BY <3>1, <3>2, <3>3, <3>5, Zenon
<1> HIDE DEF part
<1>10. Span(f, 0, m) \in Seq(Unit)
  <2>1. m \in Nat /\ 0 \in Nat /\ 0 <= m
    BY <1>2
  <2> QED
    BY <1>1, <2>1, SpanType
<1>11. /\ inflight' \in 0 .. Window /\ frames' \in Nat
       /\ wire' \in Seq(Unit) /\ expected' \in Seq(Unit)
  <2>1. inflight + n \in 0 .. Window
    BY <1>1, <1>3 DEF Room
  <2>2. wire \o part \in Seq(Unit) /\ expected \o Span(f, 0, m) \in Seq(Unit)
    BY <1>1, <1>9, <1>10, ConcatProperties
  <2> QED
    BY <1>1, <1>6, <1>9, <2>1, <2>2
<1>u. /\ wire' \in Seq(Units') /\ Unsent(writer) \in Seq(Units')
      /\ Unsent(writer) \o Span(f, n, m) \in Seq(Units')
  <2>1. wire \in Seq(Units) /\ Unsent(writer) \in Seq(Units)
    BY DEF WriteInv, UnitsInv
  <2>2. /\ wire \in Seq(Units') /\ Unsent(writer) \in Seq(Units')
        /\ Span(f, 0, m) \in Seq(Units')
    <3>1. m \in Nat /\ Last(Brigade) \in Nat
      <4>1. Brigade \in Seq(Nat \ {0}) /\ Brigade # <<>>
        BY ConnectionAssumption
      <4>2. Len(Brigade) \in 1 .. Len(Brigade)
        BY <4>1, EmptySeq, LenProperties
      <4> QED
        BY <1>2, <4>1, <4>2, ElementOfSeq DEF Last
    <3>2. m <= Last(Brigade)
      OBVIOUS
    <3>3. PICK g, h, x : g = f /\ h = m /\ x = Unsent(writer)
      OBVIOUS
    <3>4. /\ frames \in Nat /\ g = frames + 1 /\ frames' = g /\ h \in Nat /\ h <= Last(Brigade)
          /\ wire \in Seq(Units) /\ x \in Seq(Units)
      BY <1>1, <1>6, <2>1, <3>1, <3>2, <3>3
    <3>5. wire \in Seq(Units') /\ Span(g, 0, h) \in Seq(Units')
      BY <3>1, <3>4, NextUnits, Zenon
    <3>6. x \in Seq(Units')
      BY <3>1, <3>4, NextUnits, Zenon
    <3> QED
      BY <3>3, <3>5, <3>6
  <2>3. PICK U, x, y : U = Units' /\ x = Unsent(writer) /\ y = Span(f, n, m)
    OBVIOUS
  <2>4. /\ wire \in Seq(U) /\ x \in Seq(U) /\ Span(f, 0, m) \in Seq(U) /\ x \in Seq(Unit)
        /\ (wire \o part) \o (x \o y) = (wire \o x) \o Span(f, 0, m)
    BY <1>8, <1>9, <2>2, <2>3
  <2>5. y \in Seq(Unit)
    <3>1. n \in Nat /\ m \in Nat /\ n <= m
      BY <1>2, <1>3
    <3> QED
      BY <1>1, <2>3, <3>1, SpanType
  <2>6. (wire \o part) \o (x \o y) \in Seq(U)
    BY <2>4, ConcatProperties
  <2>7. wire \o part \in Seq(Unit) /\ x \o y \in Seq(Unit)
    BY <1>1, <1>9, <2>4, <2>5, ConcatProperties
  <2>8. wire \o part \in Seq(U) /\ x \o y \in Seq(U)
    BY <2>6, <2>7, PartsOf
  <2> QED
    BY <1>6, <2>3, <2>4, <2>8
<1>12. CASE fails
  BY <1>1, <1>7, <1>11, <1>12, <1>u DEF WriteInv, FramesWhole, UnitsInv
<1>13. CASE ~fails /\ n < m
  <2> DEFINE rest == Rest(f, e, n)
  <2>1. rest \in Seq(Seq(Unit)) /\ rest # <<>> /\ FlattenSeq(rest) = Span(f, n, m)
    <3>1. n \in Nat
      BY <1>2, <1>3
    <3> QED
      BY <1>1, <1>13, <3>1, RestFlat
  <2>2. Cache(rest)
    BY <1>7, <1>13
  <2> HIDE DEF rest
  <2>3. Cached(rest) \in Seq(Slots) /\ Unsent(Cached(rest)) = Unsent(writer) \o Span(f, n, m)
    <3>1. PICK size : size = Len(FlattenSeq(rest))
      OBVIOUS
    <3>2. Cached(rest) = Emplace(NextEmplaceSlot(writer, size), rest)
      BY <3>1 DEF Cached
    <3>3. /\ Emplace(NextEmplaceSlot(writer, size), rest) \in Seq(Slots)
          /\ Unsent(Emplace(NextEmplaceSlot(writer, size), rest)) = Unsent(writer) \o FlattenSeq(rest)
      BY <1>1, <2>1, CachedUnsent, Zenon
    <3> QED
      BY <2>1, <3>2, <3>3
  <2>4. writer' \in Seq(Slots) /\ broken' \in BOOLEAN
    BY <1>1, <2>2, <2>3 DEF Cache
  <2>5. ~broken' => ~broken /\ writer' = Cached(rest)
    BY <1>1, <2>2 DEF Cache
  <2>6. FramesWhole'
    <3> SUFFICES ASSUME ~broken'
                 PROVE  wire' \o Unsent(writer') = expected'
      BY DEF FramesWhole
    <3>1. wire \o Unsent(writer) = expected
      BY <2>5 DEF WriteInv, FramesWhole
    <3>2. Unsent(writer') = Unsent(writer) \o Span(f, n, m)
      BY <2>3, <2>5
    <3> QED
      BY <1>6, <1>9, <3>1, <3>2
  <2>7. UnitsInv'
    BY <1>u, <2>2, <2>3 DEF Cache, UnitsInv
  <2> QED
    BY <1>11, <2>4, <2>6, <2>7 DEF WriteInv
<1>14. CASE ~fails /\ ~(n < m)
  <2>1. writer' = writer /\ broken' = broken
    BY <1>7, <1>14
  <2>2. n = m /\ Unsent(writer) = <<>>
    BY <1>2, <1>3, <1>4, <1>14
  <2>3. Span(f, n, m) = <<>>
    <3>1. Span(f, m, m) \in Seq(Unit) /\ Len(Span(f, m, m)) = m - m
      <4>1. m \in Nat /\ m <= m
        BY <1>2
      <4> QED
        BY <1>1, <4>1, SpanType
    <3>2. Len(Span(f, m, m)) = 0
      BY <1>2, <3>1
    <3> QED
      BY <2>2, <3>1, <3>2, EmptySeq
  <2>4. Unsent(writer) \o Span(f, n, m) = <<>>
    <3>1. <<>> \o <<>> = <<>>
      BY ConcatEmptySeq, EmptySeq
    <3> QED
      BY <2>2, <2>3, <3>1
  <2>5. FramesWhole'
    <3> SUFFICES ASSUME ~broken'
                 PROVE  wire' \o Unsent(writer') = expected'
      BY DEF FramesWhole
    <3>1. wire \o Unsent(writer) = expected
      BY <2>1 DEF WriteInv, FramesWhole
    <3>2. Unsent(writer') = <<>>
      BY <2>1, <2>2
    <3> QED
      BY <1>6, <1>9, <2>4, <3>1, <3>2
  <2> QED
    BY <1>1, <1>11, <1>u, <2>1, <2>5 DEF WriteInv, UnitsInv
<1> QED
  BY <1>12, <1>13, <1>14

(***************************************************************************)
(* What the socket takes of what waits no longer waits.                    *)
(***************************************************************************)
LEMMA WriteSliceStep ==
    ASSUME WriteInv, writer # <<>>,
           NEW n, n \in 0 .. Len(NextBytes(writer)), n <= Room, NEW fails \in BOOLEAN,
           WriteSlice(n, fails), UNCHANGED <<expected, frames>>
    PROVE  WriteInv'
<1> DEFINE part == SubSeq(NextBytes(writer), 1, n)
<1>1. /\ inflight \in 0 .. Window /\ frames \in Nat /\ Window \in Nat
      /\ wire \in Seq(Unit) /\ expected \in Seq(Unit) /\ writer \in Seq(Slots)
      /\ broken \in BOOLEAN
  BY ConnectionAssumption DEF WriteInv
<1>2. /\ wire' = wire \o part /\ inflight' = inflight + Len(part)
      /\ broken' = (broken \/ fails)
      /\ writer' = IF fails THEN writer ELSE PopWritten(writer, n)
  BY DEF WriteSlice, SocketTakes
<1>3. /\ PopWritten(writer, n) \in Seq(Slots) /\ part \in Seq(Unit)
      /\ part \o Unsent(PopWritten(writer, n)) = Unsent(writer)
  BY <1>1, PoppedUnsent, Zenon
<1>4. Len(part) = n
  <2>1. NextBytes(writer) \in Seq(Unit)
    <3>1. Head(writer) \in Slots
      BY <1>1, HeadTailProperties
    <3>2. NextBytes(writer) = After(Head(Head(writer).slices), Head(writer).offset)
      BY Zenon DEF NextBytes, After
    <3> QED
      BY <3>1, <3>2, LeftType, Zenon
  <2>2. n \in Nat /\ \A i \in 1 .. n : NextBytes(writer)[i] \in Unit
    <3>1. Len(NextBytes(writer)) \in Nat
      BY <2>1, LenProperties
    <3>2. n \in Nat /\ 1 .. n \subseteq 1 .. Len(NextBytes(writer))
      BY <3>1
    <3> QED
      BY <2>1, <3>2, ElementOfSeq
  <2>3. Len(part) = IF 1 <= n THEN n - 1 + 1 ELSE 0
    BY <2>2, SubSeqProperties
  <2> QED
    BY <2>2, <2>3
<1> HIDE DEF part
<1>5. inflight' \in 0 .. Window
  <2>1. n \in Nat
    BY <1>3, <1>4, LenProperties
  <2> QED
    BY <1>1, <1>2, <1>4, <2>1 DEF Room
<1>6. wire' \in Seq(Unit) /\ writer' \in Seq(Slots) /\ broken' \in BOOLEAN
  BY <1>1, <1>2, <1>3, ConcatProperties
<1>7. FramesWhole'
  <2> SUFFICES ASSUME ~broken'
               PROVE  wire' \o Unsent(writer') = expected'
    BY DEF FramesWhole
  <2>1. ~broken /\ ~fails
    BY <1>1, <1>2
  <2>2. wire \o Unsent(writer) = expected
    BY <2>1 DEF WriteInv, FramesWhole
  <2>3. writer' = PopWritten(writer, n)
    BY <1>2, <2>1
  <2>4. Unsent(PopWritten(writer, n)) \in Seq(Unit)
    BY <1>3, LeftsType
  <2>5. (wire \o part) \o Unsent(PopWritten(writer, n))
            = wire \o (part \o Unsent(PopWritten(writer, n)))
    BY <1>1, <1>3, <2>4, UnitsAssociate, Zenon
  <2> QED
    BY <1>2, <1>3, <2>2, <2>3, <2>5
<1>8. UnitsInv'
  <2>1. Units' = Units
    BY DEF Units
  <2>2. wire \in Seq(Units) /\ Unsent(writer) \in Seq(Units)
    BY DEF WriteInv, UnitsInv
  <2>3. PICK y : y = Unsent(PopWritten(writer, n))
    OBVIOUS
  <2>4. y \in Seq(Unit)
    BY <1>3, <2>3, LeftsType
  <2>5. part \in Seq(Units) /\ y \in Seq(Units)
    <3>1. part \in Seq(Unit) /\ part \o y \in Seq(Units)
      BY <1>3, <2>2, <2>3
    <3> QED
      BY <2>4, <3>1, PartsOf, Zenon
  <2>6. wire \o part \in Seq(Units)
    BY <2>2, <2>5, ConcatProperties
  <2> QED
    BY <1>2, <2>1, <2>2, <2>3, <2>5, <2>6 DEF UnitsInv
<1> QED
  BY <1>1, <1>5, <1>6, <1>7, <1>8 DEF WriteInv

writeVars == <<inflight, writer, wire, expected, frames, broken>>

(***************************************************************************)
(* Every step writes whole frames, in their order.                         *)
(***************************************************************************)
LEMMA WriteInvStep ==
    ASSUME WriteInv, [Next]_vars
    PROVE  WriteInv'
<1>1. ASSUME UNCHANGED writeVars
      PROVE  WriteInv'
  BY <1>1 DEF writeVars, WriteInv, FramesWhole, UnitsInv, Units
<1>2. ASSUME UNCHANGED outVars
      PROVE  WriteInv'
  BY <1>1, <1>2 DEF outVars, writeVars
<1>3. /\ Brigade \in Shapes /\ Last(Brigade) <= Last(Brigade)
      /\ SubSeq(Brigade, 1, 1) \in Shapes /\ Last(SubSeq(Brigade, 1, 1)) <= Last(Brigade)
  <2>1. /\ Brigade \in Seq(Nat \ {0}) /\ Brigade # <<>>
        /\ \A i, j \in DOMAIN Brigade : i < j => Brigade[i] < Brigade[j]
    BY ConnectionAssumption
  <2>2. Len(Brigade) \in Nat \ {0} /\ 1 \in 1 .. Len(Brigade)
    BY <2>1, EmptySeq
  <2>3. Brigade[1] \in Nat \ {0}
    BY <2>1, <2>2, ElementOfSeq
  <2>4. SubSeq(Brigade, 1, 1) \in Seq(Nat \ {0}) /\ Len(SubSeq(Brigade, 1, 1)) = 1
    <3>1. \A i \in 1 .. 1 : Brigade[i] \in Nat \ {0}
      BY <2>3
    <3> QED
      BY <3>1, SubSeqProperties
  <2>5. DOMAIN SubSeq(Brigade, 1, 1) = 1 .. 1 /\ SubSeq(Brigade, 1, 1) # <<>>
    <3>1. PICK one \in Seq(Nat \ {0}) : one = SubSeq(Brigade, 1, 1)
      BY <2>4
    <3>2. Len(one) = 1
      BY <2>4, <3>1
    <3>3. DOMAIN one = 1 .. 1 /\ one # <<>>
      BY <3>2, LenProperties, EmptySeq
    <3> QED
      BY <3>1, <3>3
  <2>6. Last(SubSeq(Brigade, 1, 1)) = Brigade[1]
    <3>1. \A i \in 1 .. 1 : Brigade[i] \in Nat \ {0}
      BY <2>3
    <3>2. \A i \in 1 .. 1 - 1 + 1 : SubSeq(Brigade, 1, 1)[i] = Brigade[1 + i - 1]
      BY <3>1, SubSeqProperties
    <3>3. SubSeq(Brigade, 1, 1)[1] = Brigade[1]
      BY <3>2
    <3> QED
      BY <2>4, <3>3 DEF Last
  <2>7. Last(Brigade) = Brigade[Len(Brigade)] /\ Brigade[Len(Brigade)] \in Nat
    BY <2>1, <2>2, ElementOfSeq DEF Last
  <2>8. Brigade[1] <= Last(Brigade)
    <3>1. CASE Len(Brigade) = 1
      BY <2>7, <3>1
    <3>2. CASE Len(Brigade) # 1
      <4>1. 1 \in DOMAIN Brigade /\ Len(Brigade) \in DOMAIN Brigade /\ 1 < Len(Brigade)
        <5>1. DOMAIN Brigade = 1 .. Len(Brigade)
          BY <2>1, LenProperties
        <5> QED
          BY <2>2, <3>2, <5>1
      <4> QED
        BY <2>1, <2>3, <2>7, <4>1
    <3> QED
      BY <3>1, <3>2
  <2> QED
    BY <2>1, <2>4, <2>5, <2>6, <2>7, <2>8 DEF Shapes
<1>4. ASSUME writer # <<>>
      PROVE  /\ Min({Len(NextBytes(writer)), Room}) \in 0 .. Len(NextBytes(writer))
             /\ Min({Len(NextBytes(writer)), Room}) <= Room
             /\ 0 \in 0 .. Len(NextBytes(writer)) /\ 0 <= Room
  <2>1. NextBytes(writer) \in Seq(Unit)
    <3>1. Head(writer) \in Slots
      BY <1>4, HeadTailProperties DEF WriteInv
    <3>2. NextBytes(writer) = After(Head(Head(writer).slices), Head(writer).offset)
      BY Zenon DEF NextBytes, After
    <3> QED
      BY <3>1, <3>2, LeftType, Zenon
  <2>2. Len(NextBytes(writer)) \in Nat /\ Room \in Nat
    BY <2>1, LenProperties, ConnectionAssumption DEF WriteInv, Room
  <2> QED
    BY <2>2, MinOfTwo
<1>5. CASE WriteSocket
  <2>1. CASE writer = <<>>
    BY <1>1, <1>5, <2>1 DEF WriteSocket, outVars, writeVars
  <2>2. CASE writer # <<>>
    <3> DEFINE n == IF peer = "reset" THEN 0 ELSE Min({Len(NextBytes(writer)), Room})
               fails == n = 0 \/ sendFailed
    <3>1. WriteSlice(n, fails) /\ UNCHANGED <<expected, frames>>
      BY <1>5, <2>2 DEF WriteSocket
    <3>2. n \in 0 .. Len(NextBytes(writer)) /\ n <= Room
      BY <1>4, <2>2
    <3>3. PICK k : k = n
      OBVIOUS
    <3>4. PICK failed \in BOOLEAN : failed = fails
      OBVIOUS
    <3> HIDE DEF n, fails
    <3>5. WriteSlice(k, failed)
      BY <3>1, <3>3, <3>4 DEF WriteSlice
    <3> QED
      BY <2>2, <3>1, <3>2, <3>3, <3>5, WriteSliceStep
  <2> QED
    BY <2>1, <2>2
<1>6. CASE Flush
  <2>1. CASE writer = <<>>
    BY <1>2, <1>6, <2>1 DEF Flush
  <2>2. CASE writer # <<>>
    <3> DEFINE n == IF peer = "reset" THEN 0 ELSE Min({Len(NextBytes(writer)), Room})
               fails == peer = "reset" \/ sendFailed
    <3>1. WriteSlice(n, fails) /\ UNCHANGED <<expected, frames>>
      BY <1>6, <2>2 DEF Flush
    <3>2. n \in 0 .. Len(NextBytes(writer)) /\ n <= Room
      BY <1>4, <2>2
    <3>3. PICK k : k = n
      OBVIOUS
    <3>4. PICK failed \in BOOLEAN : failed = fails
      OBVIOUS
    <3> HIDE DEF n, fails
    <3>5. WriteSlice(k, failed)
      BY <3>1, <3>3, <3>4 DEF WriteSlice
    <3> QED
      BY <2>2, <3>1, <3>2, <3>3, <3>5, WriteSliceStep
  <2> QED
    BY <2>1, <2>2
<1>7. CASE ReadSocket
  <2>1. WriteFrame(SubSeq(Brigade, 1, 1)) \/ UNCHANGED outVars
    BY <1>7, Zenon DEF ReadSocket
  <2> QED
    BY <1>2, <1>3, <2>1, WriteFrameStep
<1>8. CASE HandleFrame
  <2>1. WriteFrame(Brigade) \/ UNCHANGED outVars
    BY <1>8 DEF HandleFrame
  <2> QED
    BY <1>2, <1>3, <2>1, WriteFrameStep
<1>9. ASSUME NEW t \in Tasks, TaskStep(t)
      PROVE  WriteInv'
  <2>1. CASE TaskWrites(t)
    <3>1. WriteFrame(Brigade) \/ UNCHANGED outVars
      BY <2>1 DEF TaskWrites
    <3> QED
      BY <1>2, <1>3, <3>1, WriteFrameStep
  <2>2. CASE StartTask(t) \/ TaskBeginsWrite(t) \/ Terminate(t) \/ OnPerformed(t) \/ NotifyGroup(t)
    BY <1>2, <2>2 DEF StartTask, TaskBeginsWrite, Terminate, OnPerformed, NotifyGroup
  <2> QED
    BY <1>9, <2>1, <2>2 DEF TaskStep
<1>10. CASE PeerDrains
  BY <1>10, ConnectionAssumption DEF PeerDrains, WriteInv, FramesWhole, UnitsInv, Units
<1>11. CASE Begin \/ PollTimeout \/ DropInterest
  BY <1>1, <1>11 DEF Begin, PollTimeout, DropInterest, writeVars
<1>12. CASE \/ PollReturns \/ Disable \/ Unlist \/ WaitForAll \/ Drain \/ Destroy
            \/ PeerSends \/ PeerLeaves
  BY <1>2, <1>12 DEF PollReturns, Disable, Unlist, WaitForAll, Drain, Destroy, PeerSends, PeerLeaves
<1>13. ASSUME NEW b \in Casters, Cast(b)
       PROVE  WriteInv'
  BY <1>2, <1>13 DEF Cast
<1>14. CASE UNCHANGED vars
  BY <1>2, <1>14 DEF vars
<1> QED
  BY <1>5, <1>6, <1>7, <1>8, <1>9, <1>10, <1>11, <1>12, <1>13, <1>14, Zenon
     DEF Next, LoopStep, PeerStep

(***************************************************************************)
(* Nothing is on its way at the start.                                     *)
(***************************************************************************)
LEMMA WriteInvInit == Init => WriteInv
<1> SUFFICES ASSUME Init
             PROVE  WriteInv
  OBVIOUS
<1>1. <<>> \in Seq(Unit) /\ <<>> \in Seq(Slots) /\ 0 \in 0 .. Window
  BY EmptySeq, ConnectionAssumption
<1>2. <<>> \o Unsent(<<>>) = <<>>
  BY <1>1, UnsentEmpty, ConcatEmptySeq
<1>3. <<>> \in Seq(Units) /\ Unsent(<<>>) = <<>>
  BY EmptySeq, UnsentEmpty
<1> QED
  BY <1>1, <1>2, <1>3 DEF Init, WriteInv, FramesWhole, UnitsInv

(***************************************************************************)
(* Until a send fails, or a task meets the loop inside writeSocket, what   *)
(* the socket took and what waits are the frames that were written, whole  *)
(* and in their order, whichever thread wrote them.                        *)
(***************************************************************************)
THEOREM FramesStayWhole == Spec => []FramesWhole
<1>1. Init => WriteInv
  BY WriteInvInit
<1>2. WriteInv /\ [Next]_vars => WriteInv'
  BY WriteInvStep
<1>3. WriteInv => FramesWhole
  BY DEF WriteInv
<1> QED
  BY <1>1, <1>2, <1>3, PTL DEF Spec

----------------------------------------------------------------------------
(* Bits, octets and sizes.                                                  *)

(***************************************************************************)
(* The powers of two, up to the bits of a byte.                            *)
(***************************************************************************)
LEMMA Powers ==
    /\ 2^0 = 1 /\ 2^1 = 2 /\ 2^2 = 4 /\ 2^3 = 8
    /\ 2^4 = 16 /\ 2^5 = 32 /\ 2^6 = 64 /\ 2^7 = 128
OBVIOUS

(***************************************************************************)
(* A set of bits is a number.                                              *)
(***************************************************************************)
LEMMA NumberType ==
    ASSUME NEW bits
    PROVE  Number(bits) \in Nat
BY Powers DEF Number, Worth

(***************************************************************************)
(* The bits of a byte, one by one.                                         *)
(***************************************************************************)
LEMMA BitsOf ==
    ASSUME NEW n \in 0 .. 255
    PROVE  /\ Bits(n) \subseteq 0 .. 7
           /\ 0 \in Bits(n) <=> n % 2 = 1
           /\ 1 \in Bits(n) <=> (n \div 2) % 2 = 1
           /\ 2 \in Bits(n) <=> (n \div 4) % 2 = 1
           /\ 3 \in Bits(n) <=> (n \div 8) % 2 = 1
           /\ 4 \in Bits(n) <=> (n \div 16) % 2 = 1
           /\ 5 \in Bits(n) <=> (n \div 32) % 2 = 1
           /\ 6 \in Bits(n) <=> (n \div 64) % 2 = 1
           /\ 7 \in Bits(n) <=> (n \div 128) % 2 = 1
<1>1. Bits(n) \subseteq 0 .. 7
  BY DEF Bits
<1>2. \A k \in 0 .. 7 : k \in Bits(n) <=> (n \div 2^k) % 2 = 1
  BY DEF Bits
<1>3. /\ 0 \in Bits(n) <=> (n \div 2^0) % 2 = 1
      /\ 1 \in Bits(n) <=> (n \div 2^1) % 2 = 1
      /\ 2 \in Bits(n) <=> (n \div 2^2) % 2 = 1
      /\ 3 \in Bits(n) <=> (n \div 2^3) % 2 = 1
      /\ 4 \in Bits(n) <=> (n \div 2^4) % 2 = 1
      /\ 5 \in Bits(n) <=> (n \div 2^5) % 2 = 1
      /\ 6 \in Bits(n) <=> (n \div 2^6) % 2 = 1
      /\ 7 \in Bits(n) <=> (n \div 2^7) % 2 = 1
  <2>1. /\ 0 \in 0 .. 7 /\ 1 \in 0 .. 7 /\ 2 \in 0 .. 7 /\ 3 \in 0 .. 7
        /\ 4 \in 0 .. 7 /\ 5 \in 0 .. 7 /\ 6 \in 0 .. 7 /\ 7 \in 0 .. 7
    OBVIOUS
  <2> QED
    BY <1>2, <2>1, Zenon
<1>4. n \div 1 = n
  OBVIOUS
<1> QED
  BY <1>1, <1>3, <1>4, Powers

\* The numbers that eight bits are.
Octet == 0 .. 255

(***************************************************************************)
(* A byte is the number of its bits.                                       *)
(***************************************************************************)
LEMMA OctetNumber ==
    ASSUME NEW n \in Octet
    PROVE  Number(Bits(n)) = n
<1>0. n \in 0 .. 255
  BY DEF Octet
<1>1. /\ Worth(Bits(n), 0) = (n % 2) /\ Worth(Bits(n), 1) = 2 * ((n \div 2) % 2)
      /\ Worth(Bits(n), 2) = 4 * ((n \div 4) % 2) /\ Worth(Bits(n), 3) = 8 * ((n \div 8) % 2)
      /\ Worth(Bits(n), 4) = 16 * ((n \div 16) % 2) /\ Worth(Bits(n), 5) = 32 * ((n \div 32) % 2)
      /\ Worth(Bits(n), 6) = 64 * ((n \div 64) % 2) /\ Worth(Bits(n), 7) = 128 * ((n \div 128) % 2)
  BY <1>0, BitsOf, Powers DEF Worth
<1>2. n = (n % 2) + 2 * ((n \div 2) % 2) + 4 * ((n \div 4) % 2) + 8 * ((n \div 8) % 2)
          + 16 * ((n \div 16) % 2) + 32 * ((n \div 32) % 2) + 64 * ((n \div 64) % 2)
          + 128 * ((n \div 128) % 2)
  BY <1>0
<1> QED
  BY <1>1, <1>2 DEF Number

\* The bits of n say what the first byte of a head does.
SaysOne(bits, fin, x, o) ==
    /\ bits \in SUBSET (0 .. 7)
    /\ 7 \in bits <=> fin
    /\ bits \cap 4 .. 6 = {} <=> x = 0
    /\ Number(bits \cap 0 .. 3) = o

\* ... and the second.
SaysTwo(bits, masked, c) ==
    /\ bits \in SUBSET (0 .. 7)
    /\ 7 \in bits <=> masked
    /\ Number(bits \cap 0 .. 6) = c

(***************************************************************************)
(* The first byte of a frame: its fin bit, its extra bits, its opcode.     *)
(***************************************************************************)
LEMMA HeadOne ==
    ASSUME NEW fin \in BOOLEAN, NEW x \in {k \in 0 .. 127 : k % 16 = 0}, NEW o \in 0 .. 15,
           NEW n, n = (IF fin THEN 128 ELSE 0) + x + o
    PROVE  SaysOne(Bits(n), fin, x, o)
<1>1. n \in 0 .. 255
  OBVIOUS
<1>2. (n \div 128) % 2 = 1 <=> fin
  OBVIOUS
<1>3. ((n \div 16) % 2 # 1 /\ (n \div 32) % 2 # 1 /\ (n \div 64) % 2 # 1) <=> x = 0
  OBVIOUS
<1>4. (n % 2) + 2 * ((n \div 2) % 2) + 4 * ((n \div 4) % 2) + 8 * ((n \div 8) % 2) = o
  OBVIOUS
<1>5. Bits(n) \cap 4 .. 6 = {} <=> 4 \notin Bits(n) /\ 5 \notin Bits(n) /\ 6 \notin Bits(n)
  <2>1. 4 .. 6 = {4, 5, 6}
    OBVIOUS
  <2> QED
    BY <2>1, Zenon
<1> DEFINE low == Bits(n) \cap 0 .. 3
<1>6. /\ Worth(low, 0) = (n % 2) /\ Worth(low, 1) = 2 * ((n \div 2) % 2)
      /\ Worth(low, 2) = 4 * ((n \div 4) % 2) /\ Worth(low, 3) = 8 * ((n \div 8) % 2)
      /\ Worth(low, 4) = 0 /\ Worth(low, 5) = 0 /\ Worth(low, 6) = 0 /\ Worth(low, 7) = 0
  BY <1>1, BitsOf, Powers DEF Worth
<1>7. Number(low) = o
  BY <1>4, <1>6 DEF Number
<1>8. Bits(n) \cap 4 .. 6 = {} <=> x = 0
  <2>1. /\ 4 \in Bits(n) <=> (n \div 16) % 2 = 1
        /\ 5 \in Bits(n) <=> (n \div 32) % 2 = 1
        /\ 6 \in Bits(n) <=> (n \div 64) % 2 = 1
    BY <1>1, BitsOf
  <2> QED
    BY <1>3, <1>5, <2>1, Zenon
<1> HIDE DEF low
<1>9. Bits(n) \in SUBSET (0 .. 7) /\ (7 \in Bits(n) <=> fin)
  BY <1>1, <1>2, BitsOf
<1> QED
  BY <1>7, <1>8, <1>9, Zenon DEF low, SaysOne

(***************************************************************************)
(* The second byte: the mask bit and the code of the size.                 *)
(***************************************************************************)
LEMMA HeadTwo ==
    ASSUME NEW masked \in BOOLEAN, NEW c \in 0 .. 127,
           NEW n, n = (IF masked THEN 128 ELSE 0) + c
    PROVE  SaysTwo(Bits(n), masked, c)
<1>1. n \in 0 .. 255
  OBVIOUS
<1>2. (n \div 128) % 2 = 1 <=> masked
  OBVIOUS
<1>3. (n % 2) + 2 * ((n \div 2) % 2) + 4 * ((n \div 4) % 2) + 8 * ((n \div 8) % 2)
      + 16 * ((n \div 16) % 2) + 32 * ((n \div 32) % 2) + 64 * ((n \div 64) % 2) = c
  OBVIOUS
<1> DEFINE low == Bits(n) \cap 0 .. 6
<1>4. /\ Worth(low, 0) = (n % 2) /\ Worth(low, 1) = 2 * ((n \div 2) % 2)
      /\ Worth(low, 2) = 4 * ((n \div 4) % 2) /\ Worth(low, 3) = 8 * ((n \div 8) % 2)
      /\ Worth(low, 4) = 16 * ((n \div 16) % 2) /\ Worth(low, 5) = 32 * ((n \div 32) % 2)
      /\ Worth(low, 6) = 64 * ((n \div 64) % 2) /\ Worth(low, 7) = 0
  BY <1>1, BitsOf, Powers DEF Worth
<1>5. Number(low) = c
  BY <1>3, <1>4 DEF Number
<1>6. Bits(n) \in SUBSET (0 .. 7) /\ (7 \in Bits(n) <=> masked)
  BY <1>1, <1>2, BitsOf
<1> HIDE DEF low
<1> QED
  BY <1>5, <1>6, Zenon DEF low, SaysTwo

\* The recursion Upper is defined by.
IsUpper(g, n, k) == g = [j \in 0 .. k |-> IF j = 0 THEN n ELSE g[j - 1] \div 256]

(***************************************************************************)
(* It has a solution.                                                      *)
(***************************************************************************)
LEMMA UpperExists ==
    ASSUME NEW n
    PROVE  \A k \in Nat : \E g : IsUpper(g, n, k)
<1> DEFINE T == {k \in Nat : \E g : IsUpper(g, n, k)}
<1>1. 0 \in T
  <2>1. [j \in 0 .. 0 |-> n] = [j \in 0 .. 0 |-> IF j = 0 THEN n
                                 ELSE [i \in 0 .. 0 |-> n][j - 1] \div 256]
    OBVIOUS
  <2> QED
    BY <2>1 DEF IsUpper
<1>2. ASSUME NEW k \in Nat, k \in T
      PROVE  k + 1 \in T
  <2>1. PICK g : IsUpper(g, n, k)
    BY <1>2
  <2> DEFINE h == [j \in 0 .. k + 1 |-> IF j = k + 1 THEN g[k] \div 256 ELSE g[j]]
  <2>2. ASSUME NEW j \in 0 .. k + 1
        PROVE  h[j] = IF j = 0 THEN n ELSE h[j - 1] \div 256
    <3>1. CASE j = k + 1
      BY <3>1
    <3>2. CASE j # k + 1
      <4>1. j \in 0 .. k /\ h[j] = g[j] /\ (j # 0 => h[j - 1] = g[j - 1])
        BY <3>2
      <4>2. g[j] = IF j = 0 THEN n ELSE g[j - 1] \div 256
        BY <2>1, <4>1, Zenon DEF IsUpper
      <4> QED
        BY <4>1, <4>2
    <3> QED
      BY <3>1, <3>2
  <2>3. h = [j \in 0 .. k + 1 |-> h[j]]
    OBVIOUS
  <2> HIDE DEF h
  <2>4. IsUpper(h, n, k + 1)
    BY <2>2, <2>3 DEF IsUpper
  <2> QED
    BY <2>4
<1> HIDE DEF T
<1>3. Nat \subseteq T
  BY <1>1, <1>2, Induction
<1> QED
  BY <1>3 DEF T

(***************************************************************************)
(* Upper shifts by a byte at a time.                                       *)
(***************************************************************************)
LEMMA UpperSteps ==
    ASSUME NEW n \in Nat
    PROVE  \E up : /\ up = Upper(n) /\ up[0] = n
                   /\ \A j \in 0 .. 7 : up[j + 1] = up[j] \div 256
                   /\ \A j \in 0 .. 8 : up[j] \in Nat
<1>1. IsUpper(Upper(n), n, 8)
  <2>1. \E g : IsUpper(g, n, 8)
    BY UpperExists
  <2>2. Upper(n) = CHOOSE g : IsUpper(g, n, 8)
    BY Zenon DEF Upper, IsUpper
  <2> QED
    BY <2>1, <2>2, Zenon
<1>2. \A j \in 0 .. 8 : Upper(n)[j] = IF j = 0 THEN n ELSE Upper(n)[j - 1] \div 256
  BY <1>1, Zenon DEF IsUpper
<1>3. Upper(n)[0] = n
  BY <1>2
<1>4. ASSUME NEW j \in 0 .. 7
      PROVE  Upper(n)[j + 1] = Upper(n)[j] \div 256
  <2>1. j + 1 \in 0 .. 8 /\ j + 1 # 0 /\ (j + 1) - 1 = j
    OBVIOUS
  <2> QED
    BY <1>2, <2>1
<1> DEFINE T == {j \in Nat : j <= 8 => Upper(n)[j] \in Nat}
<1>5. 0 \in T
  BY <1>3
<1>6. ASSUME NEW j \in Nat, j \in T
      PROVE  j + 1 \in T
  BY <1>4, <1>6
<1> HIDE DEF T
<1>7. Nat \subseteq T
  BY <1>5, <1>6, Induction
<1>8. \A j \in 0 .. 8 : Upper(n)[j] \in Nat
  BY <1>7 DEF T
<1> QED
  BY <1>3, <1>4, <1>8

\* The recursion BigEndian is defined by.
IsValue(g, bytes, k) ==
    g = [n \in 0 .. k |-> IF n = 0 THEN 0 ELSE g[n - 1] * 256 + Number(bytes[n].bits)]

(***************************************************************************)
(* It has a solution.                                                      *)
(***************************************************************************)
LEMMA ValueExists ==
    ASSUME NEW bytes
    PROVE  \A k \in Nat : \E g : IsValue(g, bytes, k)
<1> DEFINE T == {k \in Nat : \E g : IsValue(g, bytes, k)}
<1>1. 0 \in T
  <2>1. [n \in 0 .. 0 |-> 0] = [n \in 0 .. 0 |-> IF n = 0 THEN 0
                          ELSE [i \in 0 .. 0 |-> 0][n - 1] * 256 + Number(bytes[n].bits)]
    OBVIOUS
  <2> QED
    BY <2>1 DEF IsValue
<1>2. ASSUME NEW k \in Nat, k \in T
      PROVE  k + 1 \in T
  <2>1. PICK g : IsValue(g, bytes, k)
    BY <1>2
  <2> DEFINE h == [n \in 0 .. k + 1 |->
                     IF n = k + 1 THEN g[k] * 256 + Number(bytes[n].bits) ELSE g[n]]
  <2>2. ASSUME NEW n \in 0 .. k + 1
        PROVE  h[n] = IF n = 0 THEN 0 ELSE h[n - 1] * 256 + Number(bytes[n].bits)
    <3>1. CASE n = k + 1
      BY <3>1
    <3>2. CASE n # k + 1
      <4>1. n \in 0 .. k /\ h[n] = g[n] /\ (n # 0 => h[n - 1] = g[n - 1])
        BY <3>2
      <4>2. g[n] = IF n = 0 THEN 0 ELSE g[n - 1] * 256 + Number(bytes[n].bits)
        BY <2>1, <4>1, Zenon DEF IsValue
      <4> QED
        BY <4>1, <4>2
    <3> QED
      BY <3>1, <3>2
  <2>3. h = [n \in 0 .. k + 1 |-> h[n]]
    OBVIOUS
  <2> HIDE DEF h
  <2>4. IsValue(h, bytes, k + 1)
    BY <2>2, <2>3 DEF IsValue
  <2> QED
    BY <2>4
<1> HIDE DEF T
<1>3. Nat \subseteq T
  BY <1>1, <1>2, Induction
<1> QED
  BY <1>3 DEF T

(***************************************************************************)
(* The value of a sequence of bytes.                                       *)
(***************************************************************************)
LEMMA ValueSteps ==
    ASSUME NEW S, NEW bytes \in Seq(S)
    PROVE  \E g : /\ BigEndian(bytes) = g[Len(bytes)]
                  /\ g[0] = 0
                  /\ \A n \in 1 .. Len(bytes) :
                        g[n] = g[n - 1] * 256 + Number(bytes[n].bits)
                  /\ \A n \in 0 .. Len(bytes) : g[n] \in Nat
<1>0. Len(bytes) \in Nat
  BY LenProperties
<1>1. PICK g : g = CHOOSE h : IsValue(h, bytes, Len(bytes))
  OBVIOUS
<1>2. BigEndian(bytes) = g[Len(bytes)]
  BY <1>1, Zenon DEF BigEndian, IsValue
<1>3. IsValue(g, bytes, Len(bytes))
  <2>1. \E h : IsValue(h, bytes, Len(bytes))
    BY <1>0, ValueExists
  <2> QED
    BY <1>1, <2>1, Zenon
<1>4. \A n \in 0 .. Len(bytes) :
        g[n] = IF n = 0 THEN 0 ELSE g[n - 1] * 256 + Number(bytes[n].bits)
  BY <1>3, Zenon DEF IsValue
<1>5. g[0] = 0
  BY <1>0, <1>4
<1>6. \A n \in 1 .. Len(bytes) : g[n] = g[n - 1] * 256 + Number(bytes[n].bits)
  BY <1>0, <1>4
<1> DEFINE T == {n \in Nat : n <= Len(bytes) => g[n] \in Nat}
<1>7. 0 \in T
  BY <1>5
<1>8. ASSUME NEW n \in Nat, n \in T
      PROVE  n + 1 \in T
  <2>1. CASE n + 1 <= Len(bytes)
    <3>1. n + 1 \in 1 .. Len(bytes) /\ (n + 1) - 1 = n /\ n <= Len(bytes)
      BY <1>0, <2>1
    <3>2. Number(bytes[n + 1].bits) \in Nat /\ g[n] \in Nat
      BY <1>8, <3>1, NumberType
    <3>3. g[n + 1] = g[n] * 256 + Number(bytes[n + 1].bits)
      BY <1>6, <3>1
    <3> QED
      BY <3>2, <3>3
  <2>2. CASE ~(n + 1 <= Len(bytes))
    BY <2>2
  <2> QED
    BY <2>1, <2>2
<1> HIDE DEF T
<1>9. Nat \subseteq T
  BY <1>7, <1>8, Induction
<1>10. \A n \in 0 .. Len(bytes) : g[n] \in Nat
  BY <1>0, <1>9 DEF T
<1> QED
  BY <1>2, <1>5, <1>6, <1>10

(***************************************************************************)
(* The size that is read is the size that was sent.                        *)
(***************************************************************************)
LEMMA OctetsValue ==
    ASSUME NEW n \in Nat, NEW w \in 0 .. 8, Upper(n)[w] = 0,
           NEW bytes \in Seq(Bytes), Len(bytes) = w,
           \A i \in 1 .. w : bytes[i] = Octets(n, w)[i]
    PROVE  BigEndian(bytes) = n
<1>0. PICK up : /\ up = Upper(n) /\ up[0] = n
                /\ \A j \in 0 .. 7 : up[j + 1] = up[j] \div 256
                /\ \A j \in 0 .. 8 : up[j] \in Nat
  BY UpperSteps
<1>1. PICK g : /\ BigEndian(bytes) = g[Len(bytes)]
               /\ g[0] = 0
               /\ \A i \in 1 .. Len(bytes) : g[i] = g[i - 1] * 256 + Number(bytes[i].bits)
  BY ValueSteps
<1> DEFINE T == {i \in Nat : i <= w => g[i] = up[w - i]}
<1>2. 0 \in T
  <2>1. w - 0 = w /\ up[w] = 0
    BY <1>0
  <2> QED
    BY <1>1, <2>1
<1>3. ASSUME NEW i \in Nat, i \in T, i + 1 <= w
      PROVE  g[i + 1] = up[w - (i + 1)]
  <2>0. w - (i + 1) \in 0 .. 7
    <3>1. i + 1 <= w
      BY <1>3, Zenon
    <3> HIDE DEF T
    <3> QED
      BY <3>1
  <2>1. PICK j \in 0 .. 7 : j = w - (i + 1)
    BY <2>0
  <2>a. up[j] \in Nat
    <3>1. j \in 0 .. 8
      OBVIOUS
    <3> QED
      BY <3>1, <1>0, Zenon
  <2>2. PICK v \in Nat : v = up[j]
    BY <2>a
  <2>3. up[j + 1] = v \div 256 /\ j + 1 = w - i
    <3>1. \A k \in 0 .. 7 : up[k + 1] = up[k] \div 256
      BY <1>0
    <3>2. up[j + 1] = up[j] \div 256
      BY <3>1, Zenon
    <3>3. j + 1 = w - i
      BY <1>3, <2>1
    <3> QED
      BY <2>2, <3>2, <3>3
  <2>4. g[i] = v \div 256
    BY <1>3, <2>1, <2>3
  <2>5. i + 1 \in 1 .. w /\ (i + 1) - 1 = i /\ w - (i + 1) = j
    BY <1>3, <2>1
  <2>6. bytes[i + 1] = Plain(v % 256)
    <3>1. PICK k \in 1 .. w : k = i + 1
      BY <2>5
    <3>2. Octets(n, w)[k] = Plain(up[w - k] % 256)
      BY <1>0 DEF Octets
    <3> QED
      BY <2>2, <2>5, <3>1, <3>2
  <2>7. Number(bytes[i + 1].bits) = (v % 256)
    <3>1. (v % 256) \in Octet
      BY DEF Octet
    <3>2. PICK b \in Octet : b = (v % 256)
      BY <3>1
    <3>3. bytes[i + 1].bits = Bits(b)
      BY <2>6, <3>2 DEF Plain
    <3>4. Number(Bits(b)) = b
      BY OctetNumber, Zenon
    <3> QED
      BY <3>2, <3>3, <3>4
  <2>8. g[i + 1] = g[i] * 256 + Number(bytes[i + 1].bits)
    BY <1>1, <2>5
  <2>9. v = (v \div 256) * 256 + (v % 256)
    OBVIOUS
  <2> QED
    BY <2>2, <2>4, <2>5, <2>7, <2>8, <2>9
<1>4. \A i \in Nat : i \in T => i + 1 \in T
  BY <1>3
<1> HIDE DEF T
<1>5. Nat \subseteq T
  BY <1>2, <1>4, Induction
<1>6. g[w] = up[w - w]
  BY <1>5 DEF T
<1>7. up[0] = n
  BY <1>0
<1> QED
  BY <1>1, <1>6, <1>7

----------------------------------------------------------------------------
(* Frames in the stream.                                                    *)

(***************************************************************************)
(* A number on the wire is a byte.                                         *)
(***************************************************************************)
LEMMA PlainType ==
    ASSUME NEW n
    PROVE  Plain(n) \in Bytes
BY DEF Plain, Bytes, Bits

(***************************************************************************)
(* A byte that only the peer knows is one.                                 *)
(***************************************************************************)
LEMMA HiddenType ==
    ASSUME NEW a \in Nat, NEW b \in Nat
    PROVE  Hidden(<<a, b>>) \in Bytes
BY DEF Hidden, Bytes, Unknown

(***************************************************************************)
(* XOR of two bytes is a byte, and XOR with the same byte again undoes it. *)
(***************************************************************************)
LEMMA XorTwice ==
    ASSUME NEW a \in Bytes, NEW b \in Bytes
    PROVE  Xor(a, b) \in Bytes /\ Xor(Xor(a, b), b) = a
<1>1. \A S, T : Differ(Differ(S, T), T) = S
  BY Zenon DEF Differ
<1>3. /\ a.bits \in SUBSET (0 .. 7) /\ a.hidden \in SUBSET Unknown
      /\ b.bits \in SUBSET (0 .. 7) /\ b.hidden \in SUBSET Unknown
  BY DEF Bytes
<1>4. Differ(a.bits, b.bits) \in SUBSET (0 .. 7) /\ Differ(a.hidden, b.hidden) \in SUBSET Unknown
  <2>1. \A S, T, U : S \in SUBSET U /\ T \in SUBSET U => Differ(S, T) \in SUBSET U
    BY DEF Differ
  <2> QED
    BY <1>3, <2>1, Zenon
<1>5. Xor(a, b) \in Bytes
  BY <1>4 DEF Xor, Bytes
<1>6. Xor(Xor(a, b), b) = [bits |-> a.bits, hidden |-> a.hidden]
  BY <1>1 DEF Xor
<1>7. a = [bits |-> a.bits, hidden |-> a.hidden]
  BY DEF Bytes
<1> QED
  BY <1>5, <1>6, <1>7

(***************************************************************************)
(* The key of a frame and its payload.                                     *)
(***************************************************************************)
LEMMA KeyType ==
    ASSUME NEW f \in Nat, NEW F \in PeerFrames
    PROVE  /\ Key(f) \in Seq(Bytes) /\ Len(Key(f)) = 4
           /\ \A i \in 1 .. 4 : Key(f)[i] = Hidden(<<f, i>>) /\ Key(f)[i] \in Bytes
           /\ F.size \in Nat
           /\ Payload(f, F) \in Seq(Bytes) /\ Len(Payload(f, F)) = F.size
           /\ \A i \in 1 .. F.size : /\ Payload(f, F)[i] = Hidden(<<f, 4 + i>>)
                                     /\ Payload(f, F)[i] \in Bytes
<1>1. F.size \in Nat
  BY DEF PeerFrames
<1>2. \A i \in 1 .. 4 : Hidden(<<f, i>>) \in Bytes
  BY HiddenType
<1>3. \A i \in 1 .. F.size : Hidden(<<f, 4 + i>>) \in Bytes
  <2> TAKE i \in 1 .. F.size
  <2>1. 4 + i \in Nat
    BY <1>1
  <2> QED
    BY <2>1, HiddenType
<1>4. Key(f) \in Seq(Bytes) /\ Len(Key(f)) = 4
  BY <1>2 DEF Key
<1>5. Payload(f, F) \in Seq(Bytes) /\ Len(Payload(f, F)) = F.size
  <2>1. Payload(f, F) \in [1 .. F.size -> Bytes]
    BY <1>3 DEF Payload
  <2> QED
    BY <1>1, <2>1, TableIsSeq
<1> QED
  BY <1>1, <1>2, <1>3, <1>4, <1>5 DEF Key, Payload

(***************************************************************************)
(* To unmask what was masked with the key gives the payload again, byte by *)
(* byte.                                                                   *)
(***************************************************************************)
LEMMA MaskedType ==
    ASSUME NEW f \in Nat, NEW F \in PeerFrames,
           NEW m, m = Unmask(Key(f), 0, Payload(f, F))
    PROVE  /\ m \in Seq(Bytes) /\ Len(m) = F.size
           /\ \A i \in 1 .. F.size :
                Xor(m[i], Key(f)[((i - 1) % 4) + 1]) = Payload(f, F)[i]
<1>1. /\ F.size \in Nat /\ Len(Payload(f, F)) = F.size /\ Payload(f, F) \in Seq(Bytes)
      /\ \A i \in 1 .. F.size : Payload(f, F)[i] \in Bytes
      /\ \A i \in 1 .. 4 : Key(f)[i] \in Bytes
  BY KeyType
<1>2. m = [i \in 1 .. F.size |-> Xor(Payload(f, F)[i], Key(f)[((0 + i - 1) % 4) + 1])]
  BY <1>1 DEF Unmask
<1>3. ASSUME NEW i \in 1 .. F.size
      PROVE  /\ m[i] = Xor(Payload(f, F)[i], Key(f)[((i - 1) % 4) + 1])
             /\ m[i] \in Bytes
             /\ Xor(m[i], Key(f)[((i - 1) % 4) + 1]) = Payload(f, F)[i]
  <2>1. ((i - 1) % 4) + 1 \in 1 .. 4 /\ 0 + i - 1 = i - 1
    BY <1>1
  <2>2. Key(f)[((i - 1) % 4) + 1] \in Bytes /\ Payload(f, F)[i] \in Bytes
    BY <1>1, <2>1
  <2>3. m[i] = Xor(Payload(f, F)[i], Key(f)[((i - 1) % 4) + 1])
    BY <1>2, <2>1
  <2> QED
    BY <2>2, <2>3, XorTwice
<1>4. m \in Seq(Bytes) /\ Len(m) = F.size
  <2>1. m \in [1 .. F.size -> Bytes]
    BY <1>2, <1>3
  <2> QED
    BY <1>1, <2>1, TableIsSeq
<1> QED
  BY <1>3, <1>4

(***************************************************************************)
(* The size of a frame takes none, two or eight bytes, and fits them.      *)
(***************************************************************************)
LEMMA WidthFits ==
    ASSUME NEW n \in Nat, Upper(n)[8] = 0
    PROVE  /\ Width(n) \in {0, 2, 8} /\ Code(n) \in 0 .. 127
           /\ Width(n) = 0 <=> Code(n) \notin {Small + 1, Small + 2}
           /\ Width(n) = 2 <=> Code(n) = Small + 1
           /\ Width(n) = 8 <=> Code(n) = Small + 2
           /\ Width(n) = 0 => Code(n) = n
           /\ Width(n) # 0 => Upper(n)[Width(n)] = 0
           /\ Octets(n, Width(n)) \in Seq(Bytes) /\ Len(Octets(n, Width(n))) = Width(n)
<1>1. Small \in Nat /\ Small < 126 /\ Size16Max \in Nat /\ Size16Max < 65536
  <2>1. 2^16 = 65536
    OBVIOUS
  <2> QED
    BY <2>1, ReaderAssumption
<1>2. PICK up : /\ up = Upper(n) /\ up[0] = n
                /\ \A j \in 0 .. 7 : up[j + 1] = up[j] \div 256
                /\ \A j \in 0 .. 8 : up[j] \in Nat
  BY UpperSteps
<1>3. n <= Size16Max => up[2] = 0
  <2>1. up[1] = n \div 256
    <3>1. up[0 + 1] = up[0] \div 256
      BY <1>2
    <3> QED
      BY <1>2, <3>1
  <2>2. up[2] = up[1] \div 256
    <3>1. up[1 + 1] = up[1] \div 256
      BY <1>2
    <3> QED
      BY <3>1
  <2> QED
    BY <1>1, <2>1, <2>2
<1>4. /\ Width(n) \in {0, 2, 8} /\ Code(n) \in 0 .. 127
      /\ Width(n) = 0 <=> Code(n) \notin {Small + 1, Small + 2}
      /\ Width(n) = 2 <=> Code(n) = Small + 1
      /\ Width(n) = 8 <=> Code(n) = Small + 2
      /\ Width(n) = 0 => Code(n) = n
      /\ Width(n) = 2 => n <= Size16Max
  BY <1>1 DEF Width, Code
<1>5. Width(n) # 0 => Upper(n)[Width(n)] = 0
  BY <1>2, <1>3, <1>4
<1>6. Octets(n, Width(n)) \in Seq(Bytes) /\ Len(Octets(n, Width(n))) = Width(n)
  <2>1. PICK w \in {0, 2, 8} : w = Width(n)
    BY <1>4
  <2>2. \A i \in 1 .. w : Plain(Upper(n)[w - i] % 256) \in Bytes
    BY PlainType
  <2>3. Octets(n, w) \in Seq(Bytes) /\ Len(Octets(n, w)) = w
    BY <2>2 DEF Octets
  <2> QED
    BY <2>1, <2>3
<1> QED
  BY <1>4, <1>5, <1>6

\* e is the f-th frame F on the wire: its head, its size in w bytes, its key and
\* its masked payload.
IsFrame(f, F, w, e) ==
    /\ e \in Seq(Bytes) /\ w \in {0, 2, 8} /\ F.size \in Nat
    /\ Len(e) = 2 + w + (IF F.masked THEN 4 ELSE 0) + F.size
    /\ e[1].bits = Bits((IF F.fin THEN 128 ELSE 0) + F.extra + F.opcode)
    /\ e[2].bits = Bits((IF F.masked THEN 128 ELSE 0) + Code(F.size))
    /\ \A i \in 1 .. w : e[2 + i] = Octets(F.size, w)[i]
    /\ F.masked =>
         /\ \A i \in 1 .. 4 : e[2 + w + i] = Key(f)[i]
         /\ \A i \in 1 .. F.size :
               e[6 + w + i] = Unmask(Key(f), 0, Payload(f, F))[i]

(***************************************************************************)
(* What a peer puts on the wire for a frame.                               *)
(***************************************************************************)
LEMMA EncodedPlaces ==
    ASSUME NEW f \in Nat, NEW F \in PeerFrames, Upper(F.size)[8] = 0,
           NEW w, w = Width(F.size), NEW e, e = Encoded(f, F)
    PROVE  IsFrame(f, F, w, e)
<1>1. F.size \in Nat /\ F.masked \in BOOLEAN
  BY DEF PeerFrames
<1>2. PICK k : k = Key(f)
  OBVIOUS
<1>3. PICK p : p = Payload(f, F)
  OBVIOUS
<1>4. PICK m : m = Unmask(k, 0, p)
  OBVIOUS
<1>5. PICK o : o = Octets(F.size, w)
  OBVIOUS
<1>6. PICK one : one = Plain((IF F.fin THEN 128 ELSE 0) + F.extra + F.opcode)
  OBVIOUS
<1>7. PICK two : two = Plain((IF F.masked THEN 128 ELSE 0) + Code(F.size))
  OBVIOUS
<1>8. PICK h : h = <<one, two>>
  OBVIOUS
<1>9. PICK r : r = IF F.masked THEN k \o m ELSE p
  OBVIOUS
<1>10. PICK ho : ho = h \o o
  OBVIOUS
<1>11. e = ho \o r
  BY <1>2, <1>3, <1>4, <1>5, <1>6, <1>7, <1>8, <1>9, <1>10, Zenon DEF Encoded
<1>12. /\ k \in Seq(Bytes) /\ Len(k) = 4
       /\ p \in Seq(Bytes) /\ Len(p) = F.size
       /\ m \in Seq(Bytes) /\ Len(m) = F.size
  BY <1>2, <1>3, <1>4, KeyType, MaskedType
<1>13. /\ o \in Seq(Bytes) /\ Len(o) = w /\ w \in {0, 2, 8}
  BY <1>1, <1>5, WidthFits
<1>14. h \in Seq(Bytes) /\ Len(h) = 2 /\ h[1] = one /\ h[2] = two
  BY <1>6, <1>7, <1>8, PlainType
<1>15. /\ r \in Seq(Bytes)
       /\ Len(r) = (IF F.masked THEN 4 ELSE 0) + F.size
       /\ F.masked => /\ \A i \in 1 .. 4 : r[i] = k[i]
                      /\ \A i \in 1 .. F.size : r[4 + i] = m[i]
  <2>1. CASE F.masked
    <3>1. r = k \o m
      BY <1>9, <2>1
    <3>2. JoinedFrom(Bytes, k, m, r)
      BY <1>12, <3>1, ConcatPlaces, Zenon
    <3> QED
      BY <1>1, <1>12, <2>1, <3>2 DEF JoinedFrom
  <2>2. CASE ~F.masked
    BY <1>1, <1>9, <1>12, <2>2
  <2> QED
    BY <2>1, <2>2
<1>16. /\ ho \in Seq(Bytes) /\ Len(ho) = 2 + w
       /\ ho[1] = one /\ ho[2] = two
       /\ \A i \in 1 .. w : ho[2 + i] = o[i]
  <2>1. JoinedFrom(Bytes, h, o, ho)
    BY <1>10, <1>13, <1>14, ConcatPlaces, Zenon
  <2> QED
    BY <1>13, <1>14, <2>1 DEF JoinedFrom
<1>17. /\ e \in Seq(Bytes) /\ Len(e) = 2 + w + Len(r) /\ Len(r) \in Nat
       /\ \A i \in 1 .. 2 + w : e[i] = ho[i]
       /\ \A i \in 1 .. Len(r) : e[2 + w + i] = r[i]
  <2>1. JoinedFrom(Bytes, ho, r, e)
    BY <1>11, <1>15, <1>16, ConcatPlaces, Zenon
  <2> QED
    BY <1>16, <2>1 DEF JoinedFrom
<1>18. e[1] = one /\ e[2] = two
  BY <1>13, <1>16, <1>17
<1>19. ASSUME NEW i \in 1 .. w
       PROVE  e[2 + i] = o[i]
  <2>1. 2 + i \in 1 .. 2 + w
    BY <1>13
  <2> QED
    BY <1>16, <1>17, <2>1
<1>20. ASSUME F.masked
       PROVE  /\ \A i \in 1 .. 4 : e[2 + w + i] = k[i]
              /\ \A i \in 1 .. F.size : e[6 + w + i] = m[i]
  <2>1. Len(r) = 4 + F.size
    BY <1>15, <1>20
  <2>2. ASSUME NEW i \in 1 .. 4
        PROVE  e[2 + w + i] = k[i]
    <3>1. i \in 1 .. Len(r)
      BY <1>1, <2>1
    <3>2. e[2 + w + i] = r[i]
      BY <1>17, <3>1
    <3> QED
      BY <1>15, <1>20, <3>2
  <2>3. ASSUME NEW i \in 1 .. F.size
        PROVE  e[6 + w + i] = m[i]
    <3>1. 4 + i \in 1 .. Len(r)
      BY <1>1, <2>1
    <3>2. e[2 + w + (4 + i)] = r[4 + i]
      BY <1>17, <3>1
    <3>3. 2 + w + (4 + i) = 6 + w + i
      BY <1>1, <1>13
    <3> QED
      BY <1>15, <1>20, <3>2, <3>3
  <2> QED
    BY <2>2, <2>3
<1>21. Len(e) = 2 + w + (IF F.masked THEN 4 ELSE 0) + F.size
  BY <1>1, <1>13, <1>15, <1>17
<1>22. /\ e[1].bits = Bits((IF F.fin THEN 128 ELSE 0) + F.extra + F.opcode)
       /\ e[2].bits = Bits((IF F.masked THEN 128 ELSE 0) + Code(F.size))
  BY <1>6, <1>7, <1>18 DEF Plain
<1> QED
  BY <1>1, <1>2, <1>3, <1>4, <1>5, <1>13, <1>17, <1>19, <1>20, <1>21, <1>22 DEF IsFrame

\* The frames of a script on the wire.
Wired(s) == [f \in DOMAIN s |-> Encoded(f, s[f])]

(***************************************************************************)
(* They are sequences of bytes, and the first of them end where EndOf      *)
(* says.                                                                   *)
(***************************************************************************)
LEMMA WiredType ==
    ASSUME NEW s \in Scripts
    PROVE  /\ Len(s) \in Nat /\ DOMAIN s = 1 .. Len(s)
           /\ \A f \in 1 .. Len(s) : s[f] \in PeerFrames /\ Upper(s[f].size)[8] = 0
           /\ Wired(s) \in Seq(Seq(Bytes)) /\ Len(Wired(s)) = Len(s)
           /\ \A f \in 1 .. Len(s) : Wired(s)[f] = Encoded(f, s[f])
           /\ \A f \in 0 .. Len(s) : EndOf(s, f) = Len(FlattenSeq(SubSeq(Wired(s), 1, f)))
           /\ StreamOf[s] = FlattenSeq(Wired(s))
<1>1. s \in Seq(PeerFrames) /\ \A f \in DOMAIN s : Upper(s[f].size)[8] = 0
  BY ConnectionAssumption
<1>2. Len(s) \in Nat /\ DOMAIN s = 1 .. Len(s)
  BY <1>1, LenProperties
<1>3. \A f \in 1 .. Len(s) : s[f] \in PeerFrames /\ Upper(s[f].size)[8] = 0
  BY <1>1, <1>2, ElementOfSeq
<1>4. \A f \in 1 .. Len(s) : Encoded(f, s[f]) \in Seq(Bytes)
  <2> TAKE f \in 1 .. Len(s)
  <2>1. PICK F \in PeerFrames : F = s[f] /\ Upper(F.size)[8] = 0
    BY <1>3
  <2>2. IsFrame(f, F, Width(F.size), Encoded(f, F))
    BY <1>2, <2>1, EncodedPlaces
  <2> QED
    BY <2>1, <2>2 DEF IsFrame
<1>5. Wired(s) = [f \in 1 .. Len(s) |-> Encoded(f, s[f])]
  BY <1>2 DEF Wired
<1>6. Wired(s) \in [1 .. Len(s) -> Seq(Bytes)]
  BY <1>4, <1>5
<1>7. Wired(s) \in Seq(Seq(Bytes)) /\ Len(Wired(s)) = Len(s)
  BY <1>2, <1>6, TableIsSeq
<1>8. ASSUME NEW f \in 0 .. Len(s)
      PROVE  EndOf(s, f) = Len(FlattenSeq(SubSeq(Wired(s), 1, f)))
  <2>1. PICK q : q = SubSeq(Wired(s), 1, f)
    OBVIOUS
  <2>2. f \in 0 .. Len(Wired(s)) /\ f \in Int /\ f \in Nat
    BY <1>2, <1>7
  <2>3. \A i \in 1 .. f : Wired(s)[i] \in Seq(Bytes)
    BY <1>2, <1>4, <1>5
  <2>4. /\ q \in Seq(Seq(Bytes)) /\ Len(q) = f
        /\ \A i \in 1 .. f : q[i] = Wired(s)[i]
    <3>1. /\ q \in Seq(Seq(Bytes)) /\ Len(q) = (IF 1 <= f THEN f - 1 + 1 ELSE 0)
          /\ \A i \in 1 .. f - 1 + 1 : q[i] = Wired(s)[1 + i - 1]
      BY <2>1, <2>2, <2>3, SubSeqProperties
    <3> QED
      BY <2>2, <3>1
  <2>5. q = [g \in 1 .. f |-> Encoded(g, s[g])]
    <3>1. q = [g \in 1 .. f |-> q[g]]
      BY <2>2, <2>4, LenProperties
    <3>2. \A g \in 1 .. f : q[g] = Encoded(g, s[g])
      <4> TAKE g \in 1 .. f
      <4>1. g \in 1 .. Len(s)
        BY <1>2
      <4>2. Wired(s)[g] = Encoded(g, s[g])
        BY <1>5, <4>1
      <4> QED
        BY <2>4, <4>2
    <3> QED
      BY <3>1, <3>2
  <2> QED
    BY <2>1, <2>5 DEF EndOf
<1>9. StreamOf[s] = FlattenSeq(Wired(s))
  BY DEF StreamOf, Wired
<1> QED
  BY <1>2, <1>3, <1>5, <1>7, <1>8, <1>9

\* The f-th frame F of a script begins in its stream st after b bytes.
FramePlaced(f, F, st, b) ==
    LET w == Width(F.size)
    IN  /\ st[b + 1].bits = Bits((IF F.fin THEN 128 ELSE 0) + F.extra + F.opcode)
        /\ st[b + 2].bits = Bits((IF F.masked THEN 128 ELSE 0) + Code(F.size))
        /\ \A i \in 1 .. w : st[b + 2 + i] = Octets(F.size, w)[i]
        /\ F.masked =>
             /\ \A i \in 1 .. 4 : st[b + 2 + w + i] = Key(f)[i]
             /\ \A i \in 1 .. F.size :
                   st[b + 6 + w + i] = Unmask(Key(f), 0, Payload(f, F))[i]

SizeOnWire(F) == 2 + Width(F.size) + (IF F.masked THEN 4 ELSE 0) + F.size

(***************************************************************************)
(* A frame is at least its head, its size and its payload.                 *)
(***************************************************************************)
LEMMA SizeAtLeast ==
    ASSUME NEW F \in PeerFrames, NEW w \in Nat, w = Width(F.size)
    PROVE  SizeOnWire(F) \in Nat /\ SizeOnWire(F) >= 2 + w + F.size
<1>1. PICK z \in Nat : z = F.size
  BY DEF PeerFrames
<1>2. PICK m \in {0, 4} : m = (IF F.masked THEN 4 ELSE 0)
  OBVIOUS
<1>3. SizeOnWire(F) = 2 + w + m + z
  BY <1>1, <1>2, Zenon DEF SizeOnWire
<1> QED
  BY <1>1, <1>2, <1>3

(***************************************************************************)
(* Where the frames of a script are in its stream.                         *)
(***************************************************************************)
LEMMA FramePlaces ==
    ASSUME NEW s \in Scripts, NEW f \in 1 .. Len(s)
    PROVE  /\ FramePlaced(f, s[f], StreamOf[s], EndOf(s, f - 1))
           /\ EndOf(s, f) = EndOf(s, f - 1) + SizeOnWire(s[f])
           /\ EndOf(s, f - 1) \in Nat /\ EndOf(s, f) \in Nat
           /\ EndOf(s, f) <= Len(StreamOf[s])
<1>1. /\ Len(s) \in Nat
      /\ Wired(s) \in Seq(Seq(Bytes)) /\ Len(Wired(s)) = Len(s)
      /\ s[f] \in PeerFrames /\ Upper(s[f].size)[8] = 0
      /\ Wired(s)[f] = Encoded(f, s[f])
      /\ StreamOf[s] = FlattenSeq(Wired(s))
  BY WiredType
<1>2. /\ EndOf(s, f) = Len(FlattenSeq(SubSeq(Wired(s), 1, f)))
      /\ EndOf(s, f - 1) = Len(FlattenSeq(SubSeq(Wired(s), 1, f - 1)))
  <2>1. f \in 0 .. Len(s) /\ f - 1 \in 0 .. Len(s)
    BY <1>1
  <2> QED
    BY <2>1, WiredType
<1>3. PICK F \in PeerFrames : F = s[f]
  BY <1>1
<1>4. PICK q \in Seq(Seq(Bytes)) : q = Wired(s)
  BY <1>1
<1>5. PICK a : a = FlattenSeq(SubSeq(q, 1, f - 1))
  OBVIOUS
<1>6. PICK c : c = FlattenSeq(SubSeq(q, 1, f))
  OBVIOUS
<1>7. PICK st : st = FlattenSeq(q)
  OBVIOUS
<1>8. PICK e : e = Encoded(f, F)
  OBVIOUS
<1>9. f \in 1 .. Len(q) /\ e = q[f]
  BY <1>1, <1>3, <1>4, <1>8
<1>10. IsPart(Bytes, st, a, e, c)
  BY <1>5, <1>6, <1>7, <1>9, FlattenPlaces
<1>11. PICK w : w = Width(F.size)
  OBVIOUS
<1>12. f \in Nat
  BY <1>1
<1>13. IsFrame(f, F, w, e)
  BY <1>1, <1>3, <1>8, <1>11, <1>12, EncodedPlaces
<1>14. PICK b : b = Len(a)
  OBVIOUS
<1>15. b \in Nat /\ Len(e) \in Nat /\ w \in Nat
  BY <1>10, <1>13, <1>14, LenProperties DEF IsPart, IsFrame
<1>16. \A i \in 1 .. Len(e) : st[b + i] = e[i]
  BY <1>10, <1>14, Zenon DEF IsPart
<1>17. FramePlaced(f, F, st, b)
  <2> USE DEF IsFrame
  <2>a. Len(e) >= 2 + w /\ (F.masked => Len(e) = 6 + w + F.size)
    BY <1>13
  <2>1. st[b + 1] = e[1] /\ st[b + 2] = e[2]
    <3>1. 1 \in 1 .. Len(e) /\ 2 \in 1 .. Len(e)
      BY <1>15, <2>a
    <3> QED
      BY <1>16, <3>1, Zenon
  <2>2. ASSUME NEW i \in 1 .. w
        PROVE  st[b + 2 + i] = Octets(F.size, w)[i]
    <3>1. 2 + i \in 1 .. Len(e) /\ b + (2 + i) = b + 2 + i
      BY <1>15, <2>a
    <3>2. st[b + (2 + i)] = e[2 + i]
      BY <1>16, <3>1, Zenon
    <3>3. e[2 + i] = Octets(F.size, w)[i]
      BY <1>13, Zenon
    <3> QED
      BY <3>1, <3>2, <3>3
  <2>3. ASSUME F.masked, NEW i \in 1 .. 4
        PROVE  st[b + 2 + w + i] = Key(f)[i]
    <3>0. F.size \in Nat
      BY <1>13
    <3>1. 2 + w + i \in 1 .. Len(e) /\ b + (2 + w + i) = b + 2 + w + i
      BY <1>15, <2>a, <2>3, <3>0
    <3>2. st[b + (2 + w + i)] = e[2 + w + i]
      BY <1>16, <3>1, Zenon
    <3>3. e[2 + w + i] = Key(f)[i]
      BY <1>13, <2>3, Zenon
    <3> QED
      BY <3>1, <3>2, <3>3
  <2>4. ASSUME F.masked, NEW i \in 1 .. F.size
        PROVE  st[b + 6 + w + i] = Unmask(Key(f), 0, Payload(f, F))[i]
    <3>0. F.size \in Nat
      BY <1>13
    <3>1. 6 + w + i \in 1 .. Len(e) /\ b + (6 + w + i) = b + 6 + w + i
      BY <1>15, <2>a, <2>4, <3>0
    <3>2. st[b + (6 + w + i)] = e[6 + w + i]
      BY <1>16, <3>1, Zenon
    <3>3. e[6 + w + i] = Unmask(Key(f), 0, Payload(f, F))[i]
      BY <1>13, <2>4, Zenon
    <3> QED
      BY <3>1, <3>2, <3>3
  <2>5. /\ e[1].bits = Bits((IF F.fin THEN 128 ELSE 0) + F.extra + F.opcode)
        /\ e[2].bits = Bits((IF F.masked THEN 128 ELSE 0) + Code(F.size))
    BY <1>13
  <2> QED
    BY <1>11, <2>1, <2>2, <2>3, <2>4, <2>5 DEF FramePlaced
<1>18. /\ st = StreamOf[s] /\ b = EndOf(s, f - 1) /\ EndOf(s, f) = Len(c)
  BY <1>1, <1>2, <1>4, <1>5, <1>6, <1>7, <1>14
<1>19. Len(c) = b + SizeOnWire(F) /\ Len(c) \in Nat /\ Len(c) <= Len(st)
  BY <1>10, <1>11, <1>13, <1>14, <1>15, LenProperties DEF SizeOnWire, IsPart, IsFrame
<1> QED
  BY <1>3, <1>15, <1>17, <1>18, <1>19

(***************************************************************************)
(* The first frame begins the stream and the last ends it.                 *)
(***************************************************************************)
LEMMA StreamType ==
    ASSUME NEW s \in Scripts
    PROVE  /\ StreamOf[s] \in Seq(Bytes) /\ Len(StreamOf[s]) \in Nat
           /\ EndOf(s, 0) = 0
           /\ EndOf(s, Len(s)) = Len(StreamOf[s])
<1>1. /\ Wired(s) \in Seq(Seq(Bytes)) /\ Len(Wired(s)) = Len(s) /\ Len(s) \in Nat
      /\ StreamOf[s] = FlattenSeq(Wired(s))
  BY WiredType
<1>2. StreamOf[s] \in Seq(Bytes) /\ Len(StreamOf[s]) \in Nat
  BY <1>1, FlattenType, LenProperties
<1>3. /\ EndOf(s, 0) = Len(FlattenSeq(SubSeq(Wired(s), 1, 0)))
      /\ EndOf(s, Len(s)) = Len(FlattenSeq(SubSeq(Wired(s), 1, Len(s))))
  <2>1. 0 \in 0 .. Len(s) /\ Len(s) \in 0 .. Len(s)
    BY <1>1
  <2> QED
    BY <2>1, WiredType
<1>4. SubSeq(Wired(s), 1, Len(s)) = Wired(s)
  BY <1>1, SubSeqFull
<1>5. SubSeq(Wired(s), 1, 0) = <<>>
  BY SubSeqEmpty
<1>6. Len(<<>>) = 0
  BY EmptySeq
<1> QED
  BY <1>1, <1>2, <1>3, <1>4, <1>5, <1>6, FlattenEmpty

\* The bytes of st after the first a, up to the t-th.
IsCut(c, st, a, t) ==
    /\ c \in Seq(Bytes) /\ Len(c) = t - a
    /\ \A i \in 1 .. t - a : c[i] = st[a + i]

(***************************************************************************)
(* What SubSeq cuts out of a stream.                                       *)
(***************************************************************************)
LEMMA CutType ==
    ASSUME NEW st \in Seq(Bytes), NEW a \in Nat, NEW t \in Nat, a <= t, t <= Len(st)
    PROVE  IsCut(SubSeq(st, a + 1, t), st, a, t)
<1>1. Len(st) \in Nat
  BY LenProperties
<1>2. PICK m \in Int : m = a + 1
  OBVIOUS
<1>3. \A i \in m .. t : st[i] \in Bytes
  BY <1>1, <1>2, ElementOfSeq
<1>4. PICK c : c = SubSeq(st, m, t)
  OBVIOUS
<1>5. /\ c \in Seq(Bytes)
      /\ Len(c) = (IF m <= t THEN t - m + 1 ELSE 0)
      /\ \A i \in 1 .. t - m + 1 : c[i] = st[m + i - 1]
  BY <1>3, <1>4, SubSeqProperties
<1>6. ASSUME NEW i \in 1 .. t - a
      PROVE  c[i] = st[a + i]
  <2>1. i \in 1 .. t - m + 1 /\ m + i - 1 = a + i
    BY <1>2
  <2> QED
    BY <1>5, <2>1
<1>7. Len(c) = t - a
  BY <1>2, <1>5
<1> QED
  BY <1>2, <1>4, <1>5, <1>6, <1>7 DEF IsCut

(***************************************************************************)
(* To read on from where one stopped.                                      *)
(***************************************************************************)
LEMMA CutOn ==
    ASSUME NEW st \in Seq(Bytes), NEW a \in Nat, NEW t \in Nat, NEW u \in Nat,
           a <= t, t <= u, u <= Len(st)
    PROVE  SubSeq(st, a + 1, t) \o SubSeq(st, t + 1, u) = SubSeq(st, a + 1, u)
<1>1. Len(st) \in Nat
  BY LenProperties
<1>2. PICK m \in 1 .. Len(st) + 1 : m = a + 1
  BY <1>1
<1>3. t \in m - 1 .. Len(st) /\ u \in t .. Len(st)
  BY <1>1, <1>2
<1>4. SubSeq(st, m, t) \o SubSeq(st, t + 1, u) = SubSeq(st, m, u)
  BY <1>3, ConcatAdjacentSubSeq
<1> QED
  BY <1>2, <1>4

(***************************************************************************)
(* Nothing is cut out where one begins.                                    *)
(***************************************************************************)
LEMMA CutNone ==
    ASSUME NEW st, NEW a \in Nat
    PROVE  SubSeq(st, a + 1, a) = <<>>
BY SubSeqEmpty

----------------------------------------------------------------------------
(* Where the reader is in a frame, and how it goes on.                      *)

\* What the head of the frame F has told the reader.
Known(r, F) ==
    /\ F.masked /\ F.extra = 0
    /\ r.fin = F.fin /\ r.masked
    /\ r.type = TypeFromOpcode(F.opcode) /\ r.type # "None"

\* It has t bytes of the stream, and the f-th frame F begins after b.
InHead(r, st, b, t) ==
    /\ r.status = "Head" /\ r.frame = NoFrame
    /\ t \in b .. b + 1 /\ r.buffer = SubSeq(st, b + 1, t)

InSize(r, F, st, b, t) ==
    LET w == Width(F.size)
    IN  /\ w # 0 /\ r.status = (IF w = 2 THEN "Size16" ELSE "Size64")
        /\ r.frame = NoFrame
        /\ t \in b + 2 .. b + 1 + w /\ r.buffer = SubSeq(st, b + 2 + 1, t)

InMask(r, F, st, b, t) ==
    LET k == b + 2 + Width(F.size)
    IN  /\ r.status = "Mask" /\ r.frame = NoFrame
        /\ r.size = F.size /\ F.size <= Most
        /\ t \in k .. k + 3 /\ r.buffer = SubSeq(st, k + 1, t)

InBody(r, f, F, b, t) ==
    LET o == r.frame.offset
        ended == o = F.size /\ o > 0
    IN  /\ r.status = "Body" /\ ~IsControlFrameType(r.type)
        /\ r.size = F.size /\ F.size <= Most
        /\ r.mask = Key(f) /\ r.buffer = <<>>
        /\ o \in 0 .. F.size /\ t = b + 6 + Width(F.size) + o
        /\ r.frame.buffer = [i \in 1 .. F.size |->
                                IF i <= o THEN Payload(f, F)[i] ELSE Plain(0)]
        /\ r.frame.block = (IF ended THEN F.size ELSE 0)
        /\ r.frame.fin = (IF ended THEN F.fin ELSE TRUE)

InControl(r, F, st, b, t) ==
    LET p == b + 6 + Width(F.size)
    IN  /\ r.status = "Control" /\ IsControlFrameType(r.type)
        /\ r.frame = NoFrame
        /\ r.size = F.size /\ F.size <= Most
        /\ t \in p .. p + F.size /\ r.buffer = SubSeq(st, p + 1, t)

InFrame(r, f, F, st, b, t) ==
    /\ r.error = "None"
    /\ \/ InHead(r, st, b, t)
       \/ Known(r, F) /\ InSize(r, F, st, b, t)
       \/ Known(r, F) /\ InMask(r, F, st, b, t)
       \/ Known(r, F) /\ InBody(r, f, F, b, t)
       \/ Known(r, F) /\ InControl(r, F, st, b, t)

\* The f-th frame F is one of a peer's, and is in st after b bytes.
Given(f, F, st, b) ==
    /\ f \in Nat /\ F \in PeerFrames /\ Upper(F.size)[8] = 0
    /\ st \in Seq(Bytes) /\ b \in Nat
    /\ FramePlaced(f, F, st, b) /\ b + SizeOnWire(F) <= Len(st)

(***************************************************************************)
(* What the first two bytes of a frame say.                                *)
(***************************************************************************)
LEMMA HeadSays ==
    ASSUME NEW f, NEW F, NEW st, NEW b, Given(f, F, st, b)
    PROVE  /\ SaysOne(st[b + 1].bits, F.fin, F.extra, F.opcode)
           /\ SaysTwo(st[b + 2].bits, F.masked, Code(F.size))
<1>1. F \in PeerFrames /\ Upper(F.size)[8] = 0 /\ FramePlaced(f, F, st, b)
  BY DEF Given
<1>2. /\ F.fin \in BOOLEAN /\ F.extra \in {k \in 0 .. 127 : k % 16 = 0} /\ F.opcode \in 0 .. 15
      /\ F.masked \in BOOLEAN /\ F.size \in Nat
  BY <1>1 DEF PeerFrames
<1>3. Code(F.size) \in 0 .. 127
  BY <1>1, <1>2, WidthFits
<1>4. /\ st[b + 1].bits = Bits((IF F.fin THEN 128 ELSE 0) + F.extra + F.opcode)
      /\ st[b + 2].bits = Bits((IF F.masked THEN 128 ELSE 0) + Code(F.size))
  BY <1>1 DEF FramePlaced
<1>5. SaysOne(st[b + 1].bits, F.fin, F.extra, F.opcode)
  <2>1. PICK fin \in BOOLEAN, x \in {k \in 0 .. 127 : k % 16 = 0}, o \in 0 .. 15 :
            fin = F.fin /\ x = F.extra /\ o = F.opcode
    BY <1>2, Zenon
  <2>2. PICK n : n = (IF fin THEN 128 ELSE 0) + x + o
    OBVIOUS
  <2>3. SaysOne(Bits(n), fin, x, o)
    BY <2>2, HeadOne
  <2> QED
    BY <1>4, <2>1, <2>2, <2>3, Zenon
<1>6. SaysTwo(st[b + 2].bits, F.masked, Code(F.size))
  <2>1. PICK masked \in BOOLEAN, c \in 0 .. 127 : masked = F.masked /\ c = Code(F.size)
    BY <1>2, <1>3, Zenon
  <2>2. PICK n : n = (IF masked THEN 128 ELSE 0) + c
    OBVIOUS
  <2>3. SaysTwo(Bits(n), masked, c)
    BY <2>2, HeadTwo
  <2> QED
    BY <1>4, <2>1, <2>2, <2>3, Zenon
<1> QED
  BY <1>5, <1>6

(***************************************************************************)
(* Types of opcodes.                                                       *)
(***************************************************************************)
LEMMA OpcodeType ==
    ASSUME NEW n
    PROVE  TypeFromOpcode(n) \in Types
<1>1. CASE \E t \in DOMAIN OpcodeOf : OpcodeOf[t] = n
  <2>1. TypeFromOpcode(n) \in DOMAIN OpcodeOf
    BY <1>1, Zenon DEF TypeFromOpcode
  <2> QED
    BY <2>1, Zenon DEF Types
<1>2. CASE ~\E t \in DOMAIN OpcodeOf : OpcodeOf[t] = n
  BY <1>2, Zenon DEF TypeFromOpcode, Types
<1> QED
  BY <1>1, <1>2, Zenon

(***************************************************************************)
(* A reader with an error.                                                 *)
(***************************************************************************)
LEMMA InvalidType ==
    ASSUME NEW r \in Readers, NEW e \in Errors
    PROVE  Invalid(r, e) \in Readers /\ Invalid(r, e).error = e
BY DEF Invalid, Readers

\* The reader r has gone on from h to a status, and read again from nothing.
Turned(r, h, status) ==
    /\ r \in Readers /\ r.status = status /\ r.error = h.error /\ r.frame = h.frame
    /\ r.fin = h.fin /\ r.masked = h.masked /\ r.type = h.type /\ r.buffer = <<>>

(***************************************************************************)
(* A reader that is to read the size.                                      *)
(***************************************************************************)
LEMMA SizedType ==
    ASSUME NEW h \in Readers, NEW status \in Statuses,
           NEW r, r = [h EXCEPT !.size = 0, !.status = status, !.buffer = <<>>]
    PROVE  Turned(r, h, status)
<1>1. <<>> \in Seq(Bytes)
  OBVIOUS
<1> QED
  BY <1>1 DEF Readers, Turned

(***************************************************************************)
(* The head of a frame is decoded, or ends the reading.                    *)
(***************************************************************************)
LEMMA ReadHeadStep ==
    ASSUME NEW f, NEW F, NEW st, NEW b, Given(f, F, st, b),
           NEW k \in Readers, k.status = "Head", k.error = "None", k.frame = NoFrame,
           k.buffer[1] = st[b + 1], k.buffer[2] = st[b + 2],
           NEW r, r = ReadHead(k)
    PROVE  /\ r \in Readers
           /\ r.error # "None" \/ InFrame(r, f, F, st, b, b + 2)
<1>0. /\ b \in Nat /\ F.size \in Nat /\ F.masked \in BOOLEAN /\ F.fin \in BOOLEAN
      /\ Upper(F.size)[8] = 0 /\ Small \in Nat
  BY ReaderAssumption DEF Given, PeerFrames
<1>1. PICK one : one = k.buffer[1].bits
  OBVIOUS
<1>2. PICK two : two = k.buffer[2].bits
  OBVIOUS
<1>3. SaysOne(one, F.fin, F.extra, F.opcode) /\ SaysTwo(two, F.masked, Code(F.size))
  BY <1>1, <1>2, HeadSays
<1>4. PICK h : h = [k EXCEPT !.fin = 7 \in one,
                             !.type = TypeFromOpcode(Number(one \cap 0 .. 3)),
                             !.masked = 7 \in two,
                             !.size = Number(two \cap 0 .. 6),
                             !.mask = <<>>]
  OBVIOUS
<1>5. PICK type \in Types : type = TypeFromOpcode(Number(one \cap 0 .. 3))
  BY OpcodeType
<1>6. PICK size \in Nat : size = Number(two \cap 0 .. 6)
  BY NumberType
<1>a. PICK fin \in BOOLEAN, masked \in BOOLEAN : fin = (7 \in one) /\ masked = (7 \in two)
  <2>1. (7 \in one) \in BOOLEAN /\ (7 \in two) \in BOOLEAN
    OBVIOUS
  <2> QED
    BY <2>1, Zenon
<1>e. <<>> \in Seq(Bytes)
  OBVIOUS
<1>b. h = [k EXCEPT !.fin = fin, !.type = type, !.masked = masked, !.size = size, !.mask = <<>>]
  BY <1>4, <1>5, <1>6, <1>a, Zenon
<1>7. /\ h \in Readers /\ h.status = "Head" /\ h.error = "None" /\ h.frame = NoFrame
      /\ h.fin = fin /\ h.masked = masked /\ h.type = type /\ h.size = size
  BY <1>b, <1>e DEF Readers
<1>8. /\ h.fin = F.fin /\ h.masked = F.masked /\ type = TypeFromOpcode(F.opcode)
      /\ size = Code(F.size) /\ (one \cap 4 .. 6 = {} <=> F.extra = 0)
  <2>1. (7 \in one <=> F.fin) /\ (7 \in two <=> F.masked)
    BY <1>3 DEF SaysOne, SaysTwo
  <2>2. h.fin = F.fin /\ h.masked = F.masked
    BY <1>0, <1>7, <1>a, <2>1, Zenon
  <2> QED
    BY <1>3, <1>5, <1>6, <2>2 DEF SaysOne, SaysTwo
<1>9. CASE one \cap 4 .. 6 # {} \/ ~h.masked \/ h.type = "None"
  <2>1. r = Invalid(h, "ExtraIsNotEmpty") \/ r = Invalid(h, "NotMasked")
           \/ r = Invalid(h, "UnknownOpcode")
    BY <1>1, <1>2, <1>4, <1>9, Zenon DEF ReadHead
  <2> QED
    BY <1>7, <2>1, InvalidType DEF Errors
<1>10. CASE one \cap 4 .. 6 = {} /\ h.masked /\ h.type # "None"
  <2>1. h.frame.buffer = <<>>
    BY <1>7 DEF NoFrame
  <2>2. r = IF h.size > Most THEN Invalid(h, "InvalidSize")
            ELSE IF h.size = Small + 1
            THEN [h EXCEPT !.size = 0, !.status = "Size16", !.buffer = <<>>]
            ELSE IF h.size = Small + 2
            THEN [h EXCEPT !.size = 0, !.status = "Size64", !.buffer = <<>>]
            ELSE [h EXCEPT !.status = "Mask", !.buffer = <<>>]
    <3>1. k.frame.buffer = <<>>
      BY DEF NoFrame
    <3> QED
      BY <1>1, <1>2, <1>4, <1>10, <3>1, Zenon DEF ReadHead
  <2>3. Known(h, F)
    BY <1>7, <1>8, <1>10, Zenon DEF Known
  <2>4. CASE h.size > Most
    BY <1>7, <2>2, <2>4, InvalidType DEF Errors
  <2>5. CASE ~(h.size > Most) /\ h.size \in {Small + 1, Small + 2}
    <3>1. PICK status \in Statuses :
            /\ status = (IF Width(F.size) = 2 THEN "Size16" ELSE "Size64")
            /\ r = [h EXCEPT !.size = 0, !.status = status, !.buffer = <<>>]
      <4>1. CASE h.size = Small + 1
        <5>1. Width(F.size) = 2
          BY <1>0, <1>7, <1>8, <4>1, WidthFits
        <5> QED
          BY <2>2, <2>5, <4>1, <5>1 DEF Statuses
      <4>2. CASE h.size = Small + 2
        <5>1. Width(F.size) = 8 /\ h.size # Small + 1
          BY <1>0, <1>7, <1>8, <4>2, WidthFits
        <5> QED
          BY <2>2, <2>5, <4>2, <5>1 DEF Statuses
      <4> QED
        BY <2>5, <4>1, <4>2
    <3>a. r = [h EXCEPT !.size = 0, !.status = status, !.buffer = <<>>] /\ status \in Statuses
      BY <3>1
    <3>b. h \in Readers /\ h.error = "None" /\ h.frame = NoFrame
      BY <1>7
    <3>2. /\ r \in Readers /\ r.status = status /\ r.error = "None" /\ r.frame = NoFrame
          /\ r.fin = h.fin /\ r.masked = h.masked /\ r.type = h.type /\ r.buffer = <<>>
      <4>1. Turned(r, h, status)
        BY <3>a, <3>b, SizedType, Zenon
      <4> QED
        BY <3>b, <4>1, Zenon DEF Turned
    <3>3. Known(r, F)
      BY <2>3, <3>2 DEF Known
    <3>4. Width(F.size) \in {2, 8}
      BY <1>0, <1>7, <1>8, <2>5, WidthFits
    <3>5. SubSeq(st, b + 2 + 1, b + 2) = <<>>
      BY <1>0, CutNone
    <3>6. b + 2 \in b + 2 .. b + 1 + Width(F.size)
      BY <1>0, <3>4
    <3>7. InSize(r, F, st, b, b + 2)
      BY <3>1, <3>2, <3>4, <3>5, <3>6 DEF InSize
    <3> QED
      BY <3>2, <3>3, <3>7 DEF InFrame
  <2>6. CASE ~(h.size > Most) /\ h.size \notin {Small + 1, Small + 2}
    <3>1. r = [h EXCEPT !.status = "Mask", !.buffer = <<>>]
      BY <2>2, <2>6
    <3>2. /\ r \in Readers /\ r.status = "Mask" /\ r.error = "None" /\ r.frame = NoFrame
          /\ r.fin = h.fin /\ r.masked = h.masked /\ r.type = h.type /\ r.buffer = <<>>
          /\ r.size = h.size
      BY <1>7, <1>e, <3>1 DEF Readers, Statuses
    <3>3. Known(r, F)
      BY <2>3, <3>2 DEF Known
    <3>4. Width(F.size) = 0 /\ h.size = F.size
      BY <1>0, <1>7, <1>8, <2>6, WidthFits
    <3>5. SubSeq(st, b + 2 + 0 + 1, b + 2) = <<>>
      <4>1. b + 2 \in Nat /\ b + 2 + 0 = b + 2
        BY <1>0
      <4> QED
        BY <4>1, CutNone
    <3>6. F.size <= Most
      BY <1>0, <1>7, <2>6, <3>4, ReaderAssumption
    <3>7. b + 2 \in b + 2 + 0 .. b + 2 + 0 + 3
      BY <1>0
    <3>8. InMask(r, F, st, b, b + 2)
      BY <3>2, <3>4, <3>5, <3>6, <3>7 DEF InMask
    <3> QED
      BY <3>2, <3>3, <3>8 DEF InFrame
  <2> QED
    BY <2>4, <2>5, <2>6
<1> QED
  BY <1>9, <1>10

(***************************************************************************)
(* The size of a frame is read, or ends the reading.                       *)
(***************************************************************************)
LEMMA ReadSizeStep ==
    ASSUME NEW f, NEW F, NEW st, NEW b, Given(f, F, st, b),
           NEW w, w = Width(F.size), w # 0,
           NEW k \in Readers, k.error = "None", k.frame = NoFrame, Known(k, F),
           IsCut(k.buffer, st, b + 2, b + 2 + w),
           NEW r, r = ReadSize(k)
    PROVE  /\ r \in Readers
           /\ r.error # "None" \/ InFrame(r, f, F, st, b, b + 2 + w)
<1>0. /\ b \in Nat /\ F.size \in Nat /\ Upper(F.size)[8] = 0 /\ FramePlaced(f, F, st, b)
      /\ Most \in Nat
  BY ReaderAssumption DEF Given, PeerFrames
<1>1. w \in 0 .. 8 /\ w \in {0, 2, 8} /\ Upper(F.size)[w] = 0
  BY <1>0, WidthFits
<1>2. BigEndian(k.buffer) = F.size
  <2>1. PICK c : c = k.buffer
    OBVIOUS
  <2>2. PICK n \in Nat : n = F.size
    BY <1>0
  <2>3. PICK a \in Nat, t \in Nat : a = b + 2 /\ t = b + 2 + w
    BY <1>0, <1>1
  <2>4. IsCut(c, st, a, t)
    BY <2>1, <2>3, Zenon
  <2>5. t - a = w
    BY <1>0, <1>1, <2>3
  <2>6. c \in Seq(Bytes) /\ Len(c) = w /\ \A i \in 1 .. w : c[i] = st[a + i]
    BY <2>4, <2>5 DEF IsCut
  <2>7. \A i \in 1 .. w : st[a + i] = Octets(n, w)[i]
    BY <1>0, <2>2, <2>3, Zenon DEF FramePlaced
  <2>8. \A i \in 1 .. w : c[i] = Octets(n, w)[i]
    BY <2>6, <2>7
  <2>9. w \in 0 .. 8 /\ Upper(n)[w] = 0
    BY <1>1, <2>2
  <2>10. BigEndian(c) = n
    <3>1. c \in Seq(Bytes) /\ Len(c) = w
      BY <2>6
    <3> QED
      BY <2>2, <2>8, <2>9, <3>1, OctetsValue, Zenon
  <2> QED
    BY <2>1, <2>2, <2>10
<1>3. PICK h : h = [k EXCEPT !.size = F.size]
  OBVIOUS
<1>4. /\ h \in Readers /\ h.error = "None" /\ h.frame = NoFrame /\ h.size = F.size
      /\ h.fin = k.fin /\ h.masked = k.masked /\ h.type = k.type
  BY <1>0, <1>3 DEF Readers
<1>5. k.masked
  BY DEF Known
<1>6. r = IF F.size > Most THEN Invalid(h, "InvalidSize")
          ELSE [h EXCEPT !.status = "Mask", !.buffer = <<>>]
  <2>1. h.size = F.size
    BY <1>4
  <2> QED
    BY <1>2, <1>3, <1>5, <2>1, Zenon DEF ReadSize
<1>7. CASE F.size > Most
  BY <1>4, <1>6, <1>7, InvalidType DEF Errors
<1>8. CASE ~(F.size > Most)
  <2>1. PICK m : m = [h EXCEPT !.status = "Mask", !.buffer = <<>>]
    OBVIOUS
  <2>2. <<>> \in Seq(Bytes) /\ "Mask" \in Statuses
    BY DEF Statuses
  <2>3. /\ m \in Readers /\ m.status = "Mask" /\ m.error = "None" /\ m.frame = NoFrame
        /\ m.fin = h.fin /\ m.masked = h.masked /\ m.type = h.type /\ m.buffer = <<>>
        /\ m.size = h.size
    BY <1>4, <2>1, <2>2 DEF Readers
  <2>4. m = r
    BY <1>6, <1>8, <2>1
  <2>5. Known(m, F)
    BY <1>4, <2>3 DEF Known
  <2>6. SubSeq(st, b + 2 + w + 1, b + 2 + w) = <<>>
    <3>1. b + 2 + w \in Nat
      BY <1>0, <1>1
    <3> QED
      BY <3>1, CutNone
  <2>7. F.size <= Most /\ b + 2 + w \in b + 2 + w .. b + 2 + w + 3
    BY <1>0, <1>1, <1>8
  <2>8. InMask(m, F, st, b, b + 2 + w)
    BY <1>4, <2>3, <2>6, <2>7 DEF InMask
  <2>9. InFrame(m, f, F, st, b, b + 2 + w)
    BY <2>3, <2>5, <2>8 DEF InFrame
  <2> QED
    BY <2>3, <2>4, <2>9
<1> QED
  BY <1>7, <1>8

(***************************************************************************)
(* A reader with another frame.                                            *)
(***************************************************************************)
LEMMA ReframedType ==
    ASSUME NEW k \in Readers, NEW g \in DataFrames, NEW r, r = [k EXCEPT !.frame = g]
    PROVE  /\ r \in Readers /\ r.frame = g
           /\ r.status = k.status /\ r.error = k.error /\ r.fin = k.fin /\ r.masked = k.masked
           /\ r.type = k.type /\ r.size = k.size /\ r.mask = k.mask /\ r.buffer = k.buffer
BY DEF Readers

(***************************************************************************)
(* The frame of a reader that has none.                                    *)
(***************************************************************************)
LEMMA NoFrameType == NoFrame \in DataFrames
<1>1. <<>> \in Seq(Bytes) /\ "None" \in Types
  BY DEF Types
<1> QED
  BY <1>1 DEF NoFrame, DataFrames

(***************************************************************************)
(* Once the key is there, what follows is a body or a control frame.       *)
(***************************************************************************)
LEMMA PrepareBodyStep ==
    ASSUME NEW f, NEW F, NEW st, NEW b, Given(f, F, st, b),
           NEW w, w = Width(F.size),
           NEW k \in Readers, k.status = "Body", k.error = "None", k.frame = NoFrame,
           Known(k, F), k.size = F.size, F.size <= Most, k.mask = Key(f), k.buffer = <<>>,
           NEW r, r = PrepareBody(k)
    PROVE  r \in Readers /\ InFrame(r, f, F, st, b, b + 6 + w)
<1>0. b \in Nat /\ F.size \in Nat /\ w \in Nat /\ Most \in Nat
  <2>1. b \in Nat /\ F.size \in Nat /\ Upper(F.size)[8] = 0 /\ Most \in Nat
    BY ReaderAssumption DEF Given, PeerFrames
  <2>2. w \in {0, 2, 8}
    BY <2>1, WidthFits
  <2> QED
    BY <2>1, <2>2
<1>1. b + 6 + w \in Nat
  BY <1>0
<1>2. CASE IsControlFrameType(k.type)
  <2>1. PICK m : m = [k EXCEPT !.status = "Control"]
    OBVIOUS
  <2>2. m = r
    BY <1>2, <2>1 DEF PrepareBody
  <2>3. "Control" \in Statuses
    BY DEF Statuses
  <2>4. /\ m \in Readers /\ m.status = "Control" /\ m.error = "None" /\ m.frame = NoFrame
        /\ m.fin = k.fin /\ m.masked = k.masked /\ m.type = k.type /\ m.buffer = <<>>
        /\ m.size = k.size
    BY <2>1, <2>3 DEF Readers
  <2>5. Known(m, F) /\ IsControlFrameType(m.type)
    BY <1>2, <2>4 DEF Known
  <2>6. SubSeq(st, b + 6 + w + 1, b + 6 + w) = <<>>
    BY <1>1, CutNone
  <2>7. b + 6 + w \in b + 6 + w .. b + 6 + w + F.size
    BY <1>0
  <2>8. InControl(m, F, st, b, b + 6 + w)
    BY <2>4, <2>5, <2>6, <2>7 DEF InControl
  <2>9. InFrame(m, f, F, st, b, b + 6 + w)
    BY <2>4, <2>5, <2>8 DEF InFrame
  <2> QED
    BY <2>2, <2>4, <2>9
<1>3. CASE ~IsControlFrameType(k.type)
  <2>1. PICK e : e = [i \in 1 .. F.size |-> Plain(0)]
    OBVIOUS
  <2>2. e \in Seq(Bytes)
    <3>1. Plain(0) \in Bytes
      BY PlainType
    <3>2. e \in [1 .. F.size -> Bytes]
      BY <2>1, <3>1
    <3> QED
      BY <1>0, <3>2, TableIsSeq
  <2>3. PICK g : g = [fin |-> TRUE, type |-> "None", buffer |-> e, block |-> 0, offset |-> 0]
    OBVIOUS
  <2>4. g \in DataFrames
    <3>1. "None" \in Types
      BY DEF Types
    <3> QED
      BY <2>2, <2>3, <3>1 DEF DataFrames
  <2>5. r = [k EXCEPT !.frame = g]
    <3>1. k.frame.block = 0 /\ k.frame.buffer = <<>> /\ ~(k.size + k.frame.block > Most)
          /\ k.size + k.frame.block = F.size
      BY <1>0 DEF NoFrame
    <3>2. PICK x : x = [i \in 1 .. k.size + k.frame.block |->
                          IF i <= Len(k.frame.buffer) THEN k.frame.buffer[i] ELSE Plain(0)]
      OBVIOUS
    <3>3. x = e
      <4>1. \A i \in 1 .. F.size : ~(i <= Len(<<>>))
        BY <1>0
      <4> QED
        BY <2>1, <3>1, <3>2, <4>1
    <3>4. r = [k EXCEPT !.frame.buffer = x]
      BY <1>3, <3>1, <3>2, Zenon DEF PrepareBody
    <3>5. r = [k EXCEPT !.frame = [k.frame EXCEPT !.buffer = e]]
      BY <3>3, <3>4, Zenon
    <3>6. [k.frame EXCEPT !.buffer = e] = g
      <4>1. PICK q : q = [k.frame EXCEPT !.buffer = e]
        OBVIOUS
      <4>2. /\ q \in DataFrames /\ q.fin = TRUE /\ q.type = "None" /\ q.buffer = e
            /\ q.block = 0 /\ q.offset = 0
        <5>1. /\ k.frame \in DataFrames /\ k.frame.fin = TRUE /\ k.frame.type = "None"
              /\ k.frame.block = 0 /\ k.frame.offset = 0
          BY NoFrameType DEF NoFrame
        <5> QED
          BY <2>2, <4>1, <5>1 DEF DataFrames
      <4>3. q = [fin |-> q.fin, type |-> q.type, buffer |-> q.buffer, block |-> q.block,
                 offset |-> q.offset]
        BY <4>2 DEF DataFrames
      <4> QED
        BY <2>3, <4>1, <4>2, <4>3
    <3> QED
      BY <3>5, <3>6
  <2>6. PICK m : m = [k EXCEPT !.frame = g]
    OBVIOUS
  <2>7. /\ m \in Readers /\ m.frame = g
        /\ m.status = k.status /\ m.error = k.error /\ m.fin = k.fin /\ m.masked = k.masked
        /\ m.type = k.type /\ m.size = k.size /\ m.mask = k.mask /\ m.buffer = k.buffer
    BY <2>4, <2>6, ReframedType
  <2>8. /\ m.frame.offset = 0 /\ m.frame.block = 0 /\ m.frame.fin = TRUE
        /\ m.frame.buffer = [i \in 1 .. F.size |->
                               IF i <= 0 THEN Payload(f, F)[i] ELSE Plain(0)]
    <3>1. \A i \in 1 .. F.size : ~(i <= 0)
      OBVIOUS
    <3> QED
      BY <2>1, <2>3, <2>7, <3>1
  <2>9. InBody(m, f, F, b, b + 6 + w)
    <3>1. ~(0 > 0) /\ 0 \in 0 .. F.size /\ b + 6 + w = b + 6 + w + 0
      BY <1>0
    <3> QED
      BY <1>3, <2>7, <2>8, <3>1 DEF InBody
  <2>10. Known(m, F)
    BY <2>7 DEF Known
  <2>11. InFrame(m, f, F, st, b, b + 6 + w)
    BY <2>7, <2>9, <2>10 DEF InFrame
  <2> QED
    BY <2>5, <2>6, <2>7, <2>11
<1> QED
  BY <1>2, <1>3

(***************************************************************************)
(* The key of a frame is read.                                             *)
(***************************************************************************)
LEMMA ReadMaskStep ==
    ASSUME NEW f, NEW F, NEW st, NEW b, Given(f, F, st, b),
           NEW w, w = Width(F.size),
           NEW k \in Readers, k.error = "None", k.frame = NoFrame, Known(k, F),
           k.size = F.size, F.size <= Most,
           IsCut(k.buffer, st, b + 2 + w, b + 6 + w),
           NEW r, r = ReadMask(k)
    PROVE  r \in Readers /\ InFrame(r, f, F, st, b, b + 6 + w)
<1>0. b \in Nat /\ w \in Nat /\ f \in Nat /\ F \in PeerFrames /\ FramePlaced(f, F, st, b)
  <2>1. b \in Nat /\ F.size \in Nat /\ Upper(F.size)[8] = 0
    BY DEF Given, PeerFrames
  <2>2. w \in {0, 2, 8}
    BY <2>1, WidthFits
  <2> QED
    BY <2>1, <2>2 DEF Given
<1>1. k.buffer = Key(f)
  <2>1. PICK c : c = k.buffer
    OBVIOUS
  <2>2. PICK y : y = Key(f)
    OBVIOUS
  <2>3. y \in Seq(Bytes) /\ Len(y) = 4
    BY <1>0, <2>2, KeyType
  <2>a. PICK a \in Nat, t \in Nat : a = b + 2 + w /\ t = b + 6 + w /\ t - a = 4
    BY <1>0
  <2>4. IsCut(c, st, a, t)
    BY <2>1, <2>a, Zenon
  <2>5. c \in Seq(Bytes) /\ Len(c) = 4 /\ \A i \in 1 .. 4 : c[i] = st[a + i]
    BY <2>4, <2>a DEF IsCut
  <2>6. \A i \in 1 .. 4 : st[a + i] = y[i]
    <3>1. F.masked
      BY DEF Known
    <3> QED
      BY <1>0, <2>2, <2>a, <3>1, Zenon DEF FramePlaced
  <2>7. \A i \in 1 .. 4 : c[i] = y[i]
    BY <2>5, <2>6, Zenon
  <2>8. Len(c) = Len(y) /\ \A i \in 1 .. Len(c) : c[i] = y[i]
    BY <2>3, <2>5, <2>7, Zenon
  <2>9. c = y
    BY <2>3, <2>5, <2>8, SeqEqual, Zenon
  <2> QED
    BY <2>1, <2>2, <2>9
<1>2. PICK m : m = [k EXCEPT !.mask = k.buffer, !.status = "Body", !.buffer = <<>>]
  OBVIOUS
<1>3. "Body" \in Statuses /\ <<>> \in Seq(Bytes)
  BY DEF Statuses
<1>4. /\ m \in Readers /\ m.status = "Body" /\ m.error = "None" /\ m.frame = NoFrame
      /\ m.fin = k.fin /\ m.masked = k.masked /\ m.type = k.type /\ m.buffer = <<>>
      /\ m.size = k.size /\ m.mask = k.buffer
  BY <1>2, <1>3 DEF Readers
<1>5. Known(m, F)
  BY <1>4 DEF Known
<1>6. r = PrepareBody(m)
  BY <1>2 DEF ReadMask
<1> QED
  BY <1>1, <1>4, <1>5, <1>6, PrepareBodyStep

\* save has added to the buffer of r what st has from t to u, and the buffer
\* began after a.
SavedOn(r, k, st, a, t, u) ==
    /\ k \in Readers
    /\ k.status = r.status /\ k.error = r.error /\ k.fin = r.fin /\ k.masked = r.masked
    /\ k.type = r.type /\ k.size = r.size /\ k.mask = r.mask /\ k.frame = r.frame
    /\ k.buffer = SubSeq(st, a + 1, u) /\ IsCut(k.buffer, st, a, u)
    /\ Save(r, SubSeq(st, t + 1, u)) = IF RequiredBytes(k) = 0 THEN UpdateState(k) ELSE k

(***************************************************************************)
(* save of bytes that are not a body goes on where the buffer ends.        *)
(***************************************************************************)
LEMMA SaveOn ==
    ASSUME NEW r \in Readers, r.status # "Body", NEW st \in Seq(Bytes),
           NEW a \in Nat, NEW t \in Nat, NEW u \in Nat, a <= t, t <= u, u <= Len(st),
           r.buffer = SubSeq(st, a + 1, t),
           NEW k, k = [r EXCEPT !.buffer = SubSeq(st, a + 1, u)]
    PROVE  SavedOn(r, k, st, a, t, u)
<1>1. PICK bytes : bytes = SubSeq(st, t + 1, u)
  OBVIOUS
<1>2. Len(st) \in Nat /\ t <= Len(st) /\ a <= u
  BY LenProperties
<1>3. IsCut(bytes, st, t, u)
  BY <1>1, CutType
<1>4. bytes \in Seq(Bytes)
  BY <1>3 DEF IsCut
<1>5. r.buffer \o bytes = SubSeq(st, a + 1, u)
  <2>1. SubSeq(st, a + 1, t) \o SubSeq(st, t + 1, u) = SubSeq(st, a + 1, u)
    BY CutOn
  <2> QED
    BY <1>1, <2>1, Zenon
<1>6. k = [r EXCEPT !.buffer = r.buffer \o bytes]
  BY <1>5
<1>a. r.buffer \o bytes \in Seq(Bytes)
  BY <1>4, ConcatProperties DEF Readers
<1>7. /\ k \in Readers
      /\ k.status = r.status /\ k.error = r.error /\ k.fin = r.fin /\ k.masked = r.masked
      /\ k.type = r.type /\ k.size = r.size /\ k.mask = r.mask /\ k.frame = r.frame
      /\ k.buffer = r.buffer \o bytes
  BY <1>6, <1>a DEF Readers
<1>b. Save(r, bytes) = IF RequiredBytes(k) = 0 THEN UpdateState(k) ELSE k
  BY <1>6, Zenon DEF Save
<1>8. IsCut(SubSeq(st, a + 1, u), st, a, u)
  BY <1>2, CutType
<1> QED
  BY <1>1, <1>5, <1>7, <1>8, <1>b, Zenon DEF SavedOn

(***************************************************************************)
(* What RequiredBytes says of a buffer that is cut out of the stream.      *)
(***************************************************************************)
LEMMA StillRequired ==
    ASSUME NEW r, NEW st, NEW a \in Nat, NEW t \in Nat, a <= t, IsCut(r.buffer, st, a, t),
           NEW limit \in Nat,
           \/ r.status \in {"Head", "Size16"} /\ limit = 2
           \/ r.status = "Size64" /\ limit = 8
           \/ r.status = "Mask" /\ limit = 4
           \/ r.status = "Control" /\ limit = r.size
    PROVE  RequiredBytes(r) = IF t - a < limit THEN limit - (t - a) ELSE 0
<1>1. Len(r.buffer) = t - a
  BY DEF IsCut
<1>2. RequiredBytes(r) = Missing(Len(r.buffer), limit)
  BY DEF RequiredBytes
<1> QED
  BY <1>1, <1>2 DEF Missing

\* The reader r has been given the bytes from t to u, and may have an error.
Advanced(r, f, F, st, b, u) ==
    /\ r \in Readers
    /\ r.error # "None" \/ InFrame(r, f, F, st, b, u)

(***************************************************************************)
(* save in the head.                                                       *)
(***************************************************************************)
LEMMA SaveHead ==
    ASSUME NEW f, NEW F, NEW st, NEW b, Given(f, F, st, b),
           NEW r \in Readers, r.error = "None", NEW t \in Nat, InHead(r, st, b, t),
           NEW u \in Nat, t < u, u <= t + RequiredBytes(r), u <= Len(st),
           NEW q, q = Save(r, SubSeq(st, t + 1, u))
    PROVE  Advanced(q, f, F, st, b, u)
<1>0. b \in Nat /\ st \in Seq(Bytes)
  BY DEF Given
<1>1. b <= t /\ t <= b + 1 /\ r.status = "Head" /\ r.buffer = SubSeq(st, b + 1, t)
      /\ r.frame = NoFrame
  BY <1>0 DEF InHead
<1>2. PICK k : k = [r EXCEPT !.buffer = SubSeq(st, b + 1, u)]
  OBVIOUS
<1>3. SavedOn(r, k, st, b, t, u)
  <2>1. r.status # "Body" /\ t <= u
    BY <1>1
  <2> QED
    BY <1>0, <1>1, <1>2, <2>1, SaveOn, Zenon
<1>4. /\ k \in Readers /\ k.status = "Head" /\ k.error = "None" /\ k.frame = NoFrame
      /\ k.buffer = SubSeq(st, b + 1, u) /\ IsCut(k.buffer, st, b, u)
      /\ q = IF RequiredBytes(k) = 0 THEN UpdateState(k) ELSE k
  BY <1>1, <1>3 DEF SavedOn
<1>5. RequiredBytes(r) = IF t - b < 2 THEN 2 - (t - b) ELSE 0
  <2>1. IsCut(r.buffer, st, b, t)
    <3>1. t <= Len(st)
      BY <1>0, LenProperties
    <3> QED
      BY <1>0, <1>1, <3>1, CutType
  <2> QED
    BY <1>0, <1>1, <2>1, StillRequired
<1>6. RequiredBytes(k) = IF u - b < 2 THEN 2 - (u - b) ELSE 0
  <2>1. b <= u
    BY <1>0, <1>1
  <2> QED
    BY <1>0, <1>4, <2>1, StillRequired
<1>7. u <= b + 2 /\ b < u
  BY <1>0, <1>1, <1>5
<1>8. CASE u = b + 2
  <2>1. q = ReadHead(k)
    <3>1. RequiredBytes(k) = 0
      BY <1>0, <1>6, <1>8
    <3> QED
      BY <1>4, <3>1 DEF UpdateState
  <2>2. k.buffer[1] = st[b + 1] /\ k.buffer[2] = st[b + 2]
    <3>1. u - b = 2
      BY <1>0, <1>8
    <3>2. \A i \in 1 .. 2 : k.buffer[i] = st[b + i]
      BY <1>4, <3>1 DEF IsCut
    <3> QED
      BY <3>2
  <2>3. q \in Readers /\ (q.error # "None" \/ InFrame(q, f, F, st, b, b + 2))
    BY <1>4, <2>1, <2>2, ReadHeadStep
  <2> QED
    BY <1>8, <2>3 DEF Advanced
<1>9. CASE u # b + 2
  <2>1. u \in b .. b + 1 /\ RequiredBytes(k) # 0
    BY <1>0, <1>6, <1>7, <1>9
  <2>2. q = k
    BY <1>4, <2>1
  <2>3. InHead(k, st, b, u)
    BY <1>4, <2>1 DEF InHead
  <2>4. InFrame(k, f, F, st, b, u)
    BY <1>4, <2>3 DEF InFrame
  <2> QED
    BY <1>4, <2>2, <2>4 DEF Advanced
<1> QED
  BY <1>8, <1>9

(***************************************************************************)
(* save in the size.                                                       *)
(***************************************************************************)
LEMMA SaveSize ==
    ASSUME NEW f, NEW F, NEW st, NEW b, Given(f, F, st, b),
           NEW r \in Readers, r.error = "None", Known(r, F),
           NEW t \in Nat, InSize(r, F, st, b, t),
           NEW u \in Nat, t < u, u <= t + RequiredBytes(r), u <= Len(st),
           NEW q, q = Save(r, SubSeq(st, t + 1, u))
    PROVE  Advanced(q, f, F, st, b, u)
<1>0. b \in Nat /\ st \in Seq(Bytes) /\ F.size \in Nat /\ Upper(F.size)[8] = 0
  BY DEF Given, PeerFrames
<1>w. PICK w : w = Width(F.size)
  OBVIOUS
<1>a. PICK a \in Nat : a = b + 2
  BY <1>0
<1>1. /\ w \in {2, 8} /\ r.status = (IF w = 2 THEN "Size16" ELSE "Size64")
      /\ a <= t /\ t < a + w /\ r.buffer = SubSeq(st, a + 1, t)
      /\ r.frame = NoFrame
  <2>1. w \in {0, 2, 8}
    BY <1>0, <1>w, WidthFits
  <2> QED
    BY <1>0, <1>a, <1>w, <2>1 DEF InSize
<1>2. PICK k : k = [r EXCEPT !.buffer = SubSeq(st, a + 1, u)]
  OBVIOUS
<1>3. SavedOn(r, k, st, a, t, u)
  <2>1. r.status # "Body" /\ t <= u
    BY <1>1
  <2>2. a \in Nat
    BY <1>a
  <2> QED
    BY <1>0, <1>1, <1>2, <2>1, <2>2, SaveOn, Zenon
<1>4. /\ k \in Readers /\ k.status = r.status /\ k.error = "None" /\ k.frame = NoFrame
      /\ k.fin = r.fin /\ k.masked = r.masked /\ k.type = r.type
      /\ k.buffer = SubSeq(st, a + 1, u) /\ IsCut(k.buffer, st, a, u)
      /\ q = IF RequiredBytes(k) = 0 THEN UpdateState(k) ELSE k
  BY <1>1, <1>3 DEF SavedOn
<1>5. RequiredBytes(r) = IF t - a < w THEN w - (t - a) ELSE 0
  <2>1. IsCut(r.buffer, st, a, t)
    <3>1. t <= Len(st)
      BY <1>0, LenProperties
    <3> QED
      BY <1>0, <1>1, <1>a, <3>1, CutType
  <2>2. /\ w \in Nat /\ a \in Nat
        /\ \/ r.status \in {"Head", "Size16"} /\ w = 2
           \/ r.status = "Size64" /\ w = 8
           \/ r.status = "Mask" /\ w = 4
           \/ r.status = "Control" /\ w = r.size
    BY <1>1, <1>a
  <2> QED
    BY <1>1, <2>1, <2>2, StillRequired, Zenon
<1>6. RequiredBytes(k) = IF u - a < w THEN w - (u - a) ELSE 0
  <2>1. a <= u
    BY <1>0, <1>1, <1>a
  <2>2. /\ w \in Nat /\ a \in Nat /\ IsCut(k.buffer, st, a, u)
        /\ \/ k.status \in {"Head", "Size16"} /\ w = 2
           \/ k.status = "Size64" /\ w = 8
           \/ k.status = "Mask" /\ w = 4
           \/ k.status = "Control" /\ w = k.size
    BY <1>1, <1>4, <1>a
  <2> QED
    BY <2>1, <2>2, StillRequired, Zenon
<1>7. u <= a + w /\ a < u
  BY <1>0, <1>1, <1>5, <1>a
<1>b. Known(k, F)
  BY <1>4 DEF Known
<1>8. CASE u = a + w
  <2>1. q = ReadSize(k)
    <3>1. RequiredBytes(k) = 0
      BY <1>0, <1>1, <1>a, <1>6, <1>8
    <3> QED
      BY <1>1, <1>4, <3>1 DEF UpdateState
  <2>2. IsCut(k.buffer, st, b + 2, b + 2 + w) /\ w # 0
    BY <1>1, <1>4, <1>8, <1>a
  <2>3. q \in Readers /\ (q.error # "None" \/ InFrame(q, f, F, st, b, b + 2 + w))
    BY <1>4, <1>b, <1>w, <2>1, <2>2, ReadSizeStep
  <2>4. b + 2 + w = u
    BY <1>8, <1>a
  <2> QED
    BY <2>3, <2>4 DEF Advanced
<1>9. CASE u # a + w
  <2>1. u \in b + 2 .. b + 1 + w /\ RequiredBytes(k) # 0
    BY <1>0, <1>1, <1>6, <1>7, <1>9, <1>a
  <2>2. q = k
    BY <1>4, <2>1
  <2>3. InSize(k, F, st, b, u)
    BY <1>1, <1>4, <1>a, <1>w, <2>1 DEF InSize
  <2>4. InFrame(k, f, F, st, b, u)
    BY <1>4, <1>b, <2>3 DEF InFrame
  <2> QED
    BY <1>4, <2>2, <2>4 DEF Advanced
<1> QED
  BY <1>8, <1>9

(***************************************************************************)
(* save in the key.                                                        *)
(***************************************************************************)
LEMMA SaveMask ==
    ASSUME NEW f, NEW F, NEW st, NEW b, Given(f, F, st, b),
           NEW r \in Readers, r.error = "None", Known(r, F),
           NEW t \in Nat, InMask(r, F, st, b, t),
           NEW u \in Nat, t < u, u <= t + RequiredBytes(r), u <= Len(st),
           NEW q, q = Save(r, SubSeq(st, t + 1, u))
    PROVE  Advanced(q, f, F, st, b, u)
<1>0. b \in Nat /\ st \in Seq(Bytes) /\ F.size \in Nat /\ Upper(F.size)[8] = 0
  BY DEF Given, PeerFrames
<1>w. PICK w \in Nat : w = Width(F.size)
  <2>1. Width(F.size) \in {0, 2, 8}
    BY <1>0, WidthFits
  <2> QED
    BY <2>1
<1>a. PICK a \in Nat : a = b + 2 + w
  BY <1>0, <1>w
<1>1. /\ r.status = "Mask" /\ r.frame = NoFrame /\ r.size = F.size /\ F.size <= Most
      /\ a <= t /\ t < a + 4 /\ r.buffer = SubSeq(st, a + 1, t)
  <2>1. r.status = "Mask" /\ r.frame = NoFrame /\ r.size = F.size /\ F.size <= Most
    BY DEF InMask
  <2>2. t \in a .. a + 3 /\ r.buffer = SubSeq(st, a + 1, t)
    BY <1>a, <1>w, Zenon DEF InMask
  <2> QED
    BY <1>a, <2>1, <2>2
<1>2. PICK k : k = [r EXCEPT !.buffer = SubSeq(st, a + 1, u)]
  OBVIOUS
<1>3. SavedOn(r, k, st, a, t, u)
  <2>1. r.status # "Body" /\ t <= u /\ a \in Nat
    BY <1>1, <1>a
  <2> QED
    BY <1>0, <1>1, <1>2, <2>1, SaveOn, Zenon
<1>4. /\ k \in Readers /\ k.status = "Mask" /\ k.error = "None" /\ k.frame = NoFrame
      /\ k.fin = r.fin /\ k.masked = r.masked /\ k.type = r.type /\ k.size = F.size
      /\ k.buffer = SubSeq(st, a + 1, u) /\ IsCut(k.buffer, st, a, u)
      /\ q = IF RequiredBytes(k) = 0 THEN UpdateState(k) ELSE k
  BY <1>1, <1>3 DEF SavedOn
<1>l. PICK l \in Nat : l = 4
  OBVIOUS
<1>5. RequiredBytes(r) = IF t - a < 4 THEN 4 - (t - a) ELSE 0
  <2>1. IsCut(r.buffer, st, a, t)
    <3>1. t <= Len(st)
      BY <1>0, LenProperties
    <3> QED
      BY <1>0, <1>1, <1>a, <3>1, CutType
  <2>2. /\ l \in Nat /\ a \in Nat
        /\ \/ r.status \in {"Head", "Size16"} /\ l = 2
           \/ r.status = "Size64" /\ l = 8
           \/ r.status = "Mask" /\ l = 4
           \/ r.status = "Control" /\ l = r.size
    BY <1>1, <1>a, <1>l
  <2>3. RequiredBytes(r) = IF t - a < l THEN l - (t - a) ELSE 0
    BY <1>1, <2>1, <2>2, StillRequired, Zenon
  <2> QED
    BY <1>l, <2>3
<1>6. RequiredBytes(k) = IF u - a < 4 THEN 4 - (u - a) ELSE 0
  <2>1. a <= u
    BY <1>0, <1>1, <1>a
  <2>2. /\ l \in Nat /\ a \in Nat
        /\ \/ k.status \in {"Head", "Size16"} /\ l = 2
           \/ k.status = "Size64" /\ l = 8
           \/ k.status = "Mask" /\ l = 4
           \/ k.status = "Control" /\ l = k.size
    BY <1>4, <1>a, <1>l
  <2>3. RequiredBytes(k) = IF u - a < l THEN l - (u - a) ELSE 0
    BY <1>4, <2>1, <2>2, StillRequired, Zenon
  <2> QED
    BY <1>l, <2>3
<1>7. u <= a + 4 /\ a < u
  BY <1>0, <1>1, <1>5, <1>a
<1>b. Known(k, F)
  BY <1>4 DEF Known
<1>8. CASE u = a + 4
  <2>1. q = ReadMask(k)
    <3>1. RequiredBytes(k) = 0
      BY <1>0, <1>a, <1>6, <1>8
    <3> QED
      BY <1>4, <3>1 DEF UpdateState
  <2>2. u = b + 6 + w
    BY <1>0, <1>8, <1>a, <1>w
  <2>3. IsCut(k.buffer, st, b + 2 + w, b + 6 + w)
    BY <1>4, <1>a, <2>2, Zenon
  <2>4. q \in Readers /\ InFrame(q, f, F, st, b, b + 6 + w)
    BY <1>1, <1>4, <1>b, <1>w, <2>1, <2>3, ReadMaskStep, Zenon
  <2> QED
    BY <2>2, <2>4 DEF Advanced
<1>9. CASE u # a + 4
  <2>1. u \in a .. a + 3 /\ RequiredBytes(k) # 0
    BY <1>0, <1>1, <1>6, <1>7, <1>9, <1>a
  <2>2. q = k
    BY <1>4, <2>1
  <2>3. InMask(k, F, st, b, u)
    BY <1>1, <1>4, <1>a, <1>w, <2>1, Zenon DEF InMask
  <2>4. InFrame(k, f, F, st, b, u)
    BY <1>4, <1>b, <2>3 DEF InFrame
  <2> QED
    BY <1>4, <2>2, <2>4 DEF Advanced
<1> QED
  BY <1>8, <1>9

(***************************************************************************)
(* save of what a control frame carries.                                   *)
(***************************************************************************)
LEMMA SaveControl ==
    ASSUME NEW f, NEW F, NEW st, NEW b, Given(f, F, st, b),
           NEW r \in Readers, r.error = "None", Known(r, F),
           NEW t \in Nat, InControl(r, F, st, b, t),
           NEW u \in Nat, t < u, u <= t + RequiredBytes(r), u <= Len(st),
           NEW q, q = Save(r, SubSeq(st, t + 1, u))
    PROVE  Advanced(q, f, F, st, b, u)
<1>0. b \in Nat /\ st \in Seq(Bytes) /\ F.size \in Nat /\ Upper(F.size)[8] = 0
  BY DEF Given, PeerFrames
<1>w. PICK w \in Nat : w = Width(F.size)
  <2>1. Width(F.size) \in {0, 2, 8}
    BY <1>0, WidthFits
  <2> QED
    BY <2>1
<1>a. PICK a \in Nat : a = b + 6 + w
  BY <1>0, <1>w
<1>1. /\ r.status = "Control" /\ r.frame = NoFrame /\ r.size = F.size /\ F.size <= Most
      /\ IsControlFrameType(r.type)
      /\ a <= t /\ t <= a + F.size /\ r.buffer = SubSeq(st, a + 1, t)
  BY <1>0, <1>a, <1>w DEF InControl
<1>2. PICK k : k = [r EXCEPT !.buffer = SubSeq(st, a + 1, u)]
  OBVIOUS
<1>3. SavedOn(r, k, st, a, t, u)
  <2>1. r.status # "Body" /\ t <= u /\ a \in Nat
    BY <1>1, <1>a
  <2> QED
    BY <1>0, <1>1, <1>2, <2>1, SaveOn, Zenon
<1>4. /\ k \in Readers /\ k.status = "Control" /\ k.error = "None" /\ k.frame = NoFrame
      /\ k.fin = r.fin /\ k.masked = r.masked /\ k.type = r.type /\ k.size = F.size
      /\ k.buffer = SubSeq(st, a + 1, u)
      /\ q = IF RequiredBytes(k) = 0 THEN UpdateState(k) ELSE k
  BY <1>1, <1>3 DEF SavedOn
<1>5. RequiredBytes(r) = IF t - a < F.size THEN F.size - (t - a) ELSE 0
  <2>1. IsCut(r.buffer, st, a, t)
    <3>1. t <= Len(st)
      BY <1>0, LenProperties
    <3> QED
      BY <1>0, <1>1, <1>a, <3>1, CutType
  <2>2. /\ F.size \in Nat /\ a \in Nat
        /\ \/ r.status \in {"Head", "Size16"} /\ F.size = 2
           \/ r.status = "Size64" /\ F.size = 8
           \/ r.status = "Mask" /\ F.size = 4
           \/ r.status = "Control" /\ F.size = r.size
    BY <1>0, <1>1, <1>a
  <2> QED
    BY <1>1, <2>1, <2>2, StillRequired, Zenon
<1>6. q = k
  BY <1>4 DEF UpdateState
<1>7. a <= u /\ u <= a + F.size
  BY <1>0, <1>1, <1>5, <1>a
<1>8. Known(k, F) /\ IsControlFrameType(k.type)
  BY <1>1, <1>4 DEF Known
<1>9. u \in a .. a + F.size
  BY <1>0, <1>7, <1>a
<1>10. InControl(k, F, st, b, u)
  BY <1>1, <1>4, <1>8, <1>9, <1>a, <1>w, Zenon DEF InControl
<1>11. InFrame(k, f, F, st, b, u)
  BY <1>4, <1>8, <1>10 DEF InFrame
<1> QED
  BY <1>4, <1>6, <1>11 DEF Advanced

(***************************************************************************)
(* A frame with more of its payload.                                       *)
(***************************************************************************)
LEMMA FilledType ==
    ASSUME NEW r \in Readers, NEW x \in Seq(Bytes), NEW y \in Nat,
           NEW k, k = [r EXCEPT !.frame.buffer = x, !.frame.offset = y]
    PROVE  /\ k \in Readers
           /\ k.frame \in DataFrames /\ k.frame.buffer = x /\ k.frame.offset = y
           /\ k.frame.fin = r.frame.fin /\ k.frame.block = r.frame.block
           /\ k.status = r.status /\ k.error = r.error /\ k.fin = r.fin /\ k.masked = r.masked
           /\ k.type = r.type /\ k.size = r.size /\ k.mask = r.mask /\ k.buffer = r.buffer
BY DEF Readers, DataFrames

(***************************************************************************)
(* A frame that ends with a block.                                         *)
(***************************************************************************)
LEMMA EndBodyType ==
    ASSUME NEW k \in Readers, NEW q, q = EndBody(k)
    PROVE  /\ q \in Readers
           /\ q.frame.buffer = k.frame.buffer /\ q.frame.offset = k.frame.offset
           /\ q.frame.fin = k.fin /\ q.frame.block = k.frame.block + k.size
           /\ q.status = k.status /\ q.error = k.error /\ q.fin = k.fin /\ q.masked = k.masked
           /\ q.type = k.type /\ q.size = k.size /\ q.mask = k.mask /\ q.buffer = k.buffer
<1>1. PICK type : type = IF k.type # "Continue" THEN k.type ELSE k.frame.type
  OBVIOUS
<1>2. /\ type \in Types /\ k.frame.block + k.size \in Nat /\ k.fin \in BOOLEAN
  BY <1>1 DEF Readers, DataFrames
<1>3. q = [k EXCEPT !.frame.fin = k.fin, !.frame.block = k.frame.block + k.size,
                    !.frame.type = type]
  BY <1>1 DEF EndBody
<1>4. PICK block \in Nat, fin \in BOOLEAN : block = k.frame.block + k.size /\ fin = k.fin
  BY <1>2
<1>5. PICK g : g = [k.frame EXCEPT !.fin = fin, !.block = block, !.type = type]
  OBVIOUS
<1>6. /\ g \in DataFrames /\ g.fin = fin /\ g.block = block
      /\ g.buffer = k.frame.buffer /\ g.offset = k.frame.offset
  BY <1>2, <1>4, <1>5 DEF Readers, DataFrames
<1>7. q = [k EXCEPT !.frame.fin = fin, !.frame.block = block, !.frame.type = type]
  BY <1>3, <1>4
<1>8. q = [k EXCEPT !.frame = g]
  BY <1>5, <1>7 DEF Readers, DataFrames
<1> QED
  BY <1>4, <1>6, <1>8, ReframedType

\* m is the payload of F masked.
IsMasked(m, f, F) ==
    \A i \in 1 .. F.size : Xor(m[i], Key(f)[((i - 1) % 4) + 1]) = Payload(f, F)[i]

\* x is what the payload of F has after o bytes, n of them.
IsPlain(x, f, F, o, n) == \A i \in 1 .. n : x[i] = Payload(f, F)[o + i]

(***************************************************************************)
(* MaskedType, by the byte.                                                *)
(***************************************************************************)
LEMMA MaskedBytes ==
    ASSUME NEW f \in Nat, NEW F \in PeerFrames,
           NEW m, m = Unmask(Key(f), 0, Payload(f, F))
    PROVE  IsMasked(m, f, F)
BY MaskedType, Zenon DEF IsMasked

(***************************************************************************)
(* Bytes of a masked payload, unmasked from where the reader is.           *)
(***************************************************************************)
LEMMA UnmaskedPart ==
    ASSUME NEW f, NEW F, NEW st, NEW b, Given(f, F, st, b), F.masked,
           NEW w \in Nat, w = Width(F.size),
           NEW o \in Nat, NEW u \in Nat, NEW t \in Nat, t = b + 6 + w + o,
           t <= u, u <= b + 6 + w + F.size,
           NEW c, IsCut(c, st, t, u),
           NEW x, x = Unmask(Key(f), o, c)
    PROVE  IsPlain(x, f, F, o, u - t)
<1>0. b \in Nat /\ F.size \in Nat /\ FramePlaced(f, F, st, b) /\ f \in Nat /\ F \in PeerFrames
  BY DEF Given, PeerFrames
<1>1. PICK m : m = Unmask(Key(f), 0, Payload(f, F))
  OBVIOUS
<1>2. \A i \in 1 .. F.size : Xor(m[i], Key(f)[((i - 1) % 4) + 1]) = Payload(f, F)[i]
  <2>1. IsMasked(m, f, F)
    BY <1>0, <1>1, MaskedBytes, Zenon
  <2> QED
    BY <2>1, Zenon DEF IsMasked
<1>3. ASSUME NEW i \in 1 .. u - t
      PROVE  x[i] = Payload(f, F)[o + i]
  <2>1. PICK j \in 1 .. F.size : j = o + i
    BY <1>0
  <2>2. c[i] = m[j]
    <3>1. c[i] = st[t + i]
      BY DEF IsCut
    <3>2. st[b + 6 + w + j] = m[j]
      BY <1>0, <1>1, <2>1, Zenon DEF FramePlaced
    <3>3. t + i = b + 6 + w + j
      BY <1>0, <2>1
    <3> QED
      BY <3>1, <3>2, <3>3
  <2>3. x[i] = Xor(c[i], Key(f)[((o + i - 1) % 4) + 1])
    <3>1. i \in DOMAIN c
      <4>1. c \in Seq(Bytes) /\ Len(c) = u - t
        BY DEF IsCut
      <4> QED
        BY <4>1
    <3> QED
      BY <3>1, Zenon DEF Unmask
  <2>4. Xor(m[j], Key(f)[((j - 1) % 4) + 1]) = Payload(f, F)[j]
    BY <1>2, <2>1, Zenon
  <2> QED
    BY <2>1, <2>2, <2>3, <2>4
<1> QED
  BY <1>3, Zenon DEF IsPlain

\* k is the reader r with another payload, and y bytes of it read.
Filled(k, r, x, y) ==
    /\ k \in Readers
    /\ k.frame \in DataFrames /\ k.frame.buffer = x /\ k.frame.offset = y
    /\ k.frame.fin = r.frame.fin /\ k.frame.block = r.frame.block
    /\ k.status = r.status /\ k.error = r.error /\ k.fin = r.fin /\ k.masked = r.masked
    /\ k.type = r.type /\ k.size = r.size /\ k.mask = r.mask /\ k.buffer = r.buffer

(***************************************************************************)
(* FilledType, in one word.                                                *)
(***************************************************************************)
LEMMA FilledReader ==
    ASSUME NEW r \in Readers, NEW x \in Seq(Bytes), NEW y \in Nat,
           NEW k, k = [r EXCEPT !.frame.buffer = x, !.frame.offset = y]
    PROVE  Filled(k, r, x, y)
BY DEF Readers, DataFrames, Filled

(***************************************************************************)
(* save in the payload.                                                    *)
(***************************************************************************)
LEMMA SaveBody ==
    ASSUME NEW f, NEW F, NEW st, NEW b, Given(f, F, st, b),
           NEW r \in Readers, r.error = "None", Known(r, F),
           NEW t \in Nat, InBody(r, f, F, b, t),
           NEW u \in Nat, t < u, u <= t + RequiredBytes(r), u <= Len(st),
           NEW q, q = Save(r, SubSeq(st, t + 1, u))
    PROVE  Advanced(q, f, F, st, b, u)
<1>0. /\ b \in Nat /\ st \in Seq(Bytes) /\ F.size \in Nat /\ Upper(F.size)[8] = 0
      /\ f \in Nat /\ F \in PeerFrames
  BY DEF Given, PeerFrames
<1>w. PICK w \in Nat : w = Width(F.size)
  <2>1. Width(F.size) \in {0, 2, 8}
    BY <1>0, WidthFits
  <2> QED
    BY <2>1
<1>o. PICK o \in Nat : o = r.frame.offset
  BY DEF Readers, DataFrames
<1>1. /\ r.status = "Body" /\ ~IsControlFrameType(r.type) /\ r.size = F.size /\ F.size <= Most
      /\ r.mask = Key(f) /\ r.buffer = <<>> /\ o <= F.size /\ t = b + 6 + w + o
      /\ r.frame.buffer = [i \in 1 .. F.size |-> IF i <= o THEN Payload(f, F)[i] ELSE Plain(0)]
  BY <1>0, <1>o, <1>w DEF InBody
<1>2. RequiredBytes(r) = IF o < F.size THEN F.size - o ELSE 0
  BY <1>1, <1>o DEF RequiredBytes, Missing
<1>3. o < F.size /\ u <= b + 6 + w + F.size
  BY <1>0, <1>1, <1>2
<1>4. r.frame.block = 0 /\ r.frame.fin = TRUE
  BY <1>0, <1>3, <1>o DEF InBody
<1>5. PICK n \in Nat : n = u - t
  BY <1>0, <1>1
<1>6. PICK c : c = SubSeq(st, t + 1, u)
  OBVIOUS
<1>7. IsCut(c, st, t, u) /\ c \in Seq(Bytes) /\ Len(c) = n
  <2>1. IsCut(c, st, t, u)
    BY <1>0, <1>6, CutType
  <2> QED
    BY <1>5, <2>1 DEF IsCut
<1>8. PICK plain : plain = Unmask(Key(f), o, c)
  OBVIOUS
<1>9. \A i \in 1 .. n : plain[i] = Payload(f, F)[o + i]
  <2>1. F.masked /\ t <= u /\ w = Width(F.size) /\ t = b + 6 + w + o
    BY <1>1, <1>w DEF Known
  <2>2. IsPlain(plain, f, F, o, u - t)
    BY <1>3, <1>7, <1>8, <2>1, UnmaskedPart, Zenon
  <2> QED
    BY <1>5, <2>2, Zenon DEF IsPlain
<1>10. PICK old : old = r.frame.buffer
  OBVIOUS
<1>11. PICK x : x = [i \in DOMAIN old |->
                       IF i \in o + 1 .. o + n THEN plain[i - o] ELSE old[i]]
  OBVIOUS
<1>12. PICK y \in Nat : y = o + n
  OBVIOUS
<1>13. x = [i \in 1 .. F.size |-> IF i <= y THEN Payload(f, F)[i] ELSE Plain(0)]
  <2>1. DOMAIN old = 1 .. F.size
    BY <1>1, <1>10
  <2>2. ASSUME NEW i \in 1 .. F.size
        PROVE  (IF i \in o + 1 .. o + n THEN plain[i - o] ELSE old[i])
                = (IF i <= y THEN Payload(f, F)[i] ELSE Plain(0))
    <3>1. CASE i \in o + 1 .. o + n
      <4>1. PICK j \in 1 .. n : j = i - o
        BY <1>0, <3>1
      <4>2. plain[j] = Payload(f, F)[o + j] /\ o + j = i /\ i <= y
        BY <1>0, <1>9, <1>12, <3>1, <4>1
      <4> QED
        BY <3>1, <4>1, <4>2
    <3>2. CASE i \notin o + 1 .. o + n
      <4>1. old[i] = (IF i <= o THEN Payload(f, F)[i] ELSE Plain(0))
        BY <1>1, <1>10
      <4>2. i <= y <=> i <= o
        BY <1>0, <1>12, <3>2
      <4> QED
        BY <3>2, <4>1, <4>2
    <3> QED
      BY <3>1, <3>2
  <2>3. x = [i \in 1 .. F.size |->
               IF i \in o + 1 .. o + n THEN plain[i - o] ELSE old[i]]
    BY <1>11, <2>1
  <2> QED
    BY <2>2, <2>3
<1>14. x \in Seq(Bytes)
  <2>1. \A i \in 1 .. F.size : Payload(f, F)[i] \in Bytes
    BY <1>0, KeyType
  <2>2. Plain(0) \in Bytes
    BY PlainType
  <2>3. x \in [1 .. F.size -> Bytes]
    BY <1>13, <2>1, <2>2
  <2> QED
    BY <1>0, <2>3, TableIsSeq
<1>15. PICK k : k = [r EXCEPT !.frame.buffer = x, !.frame.offset = y]
  OBVIOUS
<1>16. q = IF RequiredBytes(k) = 0 THEN UpdateState(k) ELSE k
  <2>1. r.frame.block + r.frame.offset = o /\ r.frame.offset = o
    BY <1>4, <1>o
  <2>2. k = [r EXCEPT !.frame.buffer = [i \in DOMAIN old |->
                       IF i \in o + 1 .. o + Len(c) THEN plain[i - o] ELSE old[i]],
                      !.frame.offset = o + Len(c)]
    BY <1>7, <1>11, <1>12, <1>15
  <2>3. k = [r EXCEPT !.frame.buffer = [i \in DOMAIN @ |->
                       IF i \in o + 1 .. o + Len(c) THEN plain[i - o] ELSE @[i]],
                      !.frame.offset = @ + Len(c)]
    BY <1>10, <1>o, <2>2
  <2>4. r.mask = Key(f) /\ r.status = "Body"
    BY <1>1
  <2>5. k = [r EXCEPT !.frame.buffer = [i \in DOMAIN @ |->
                       IF i \in (r.frame.block + r.frame.offset) + 1
                                 .. (r.frame.block + r.frame.offset) + Len(c)
                       THEN Unmask(r.mask, r.frame.offset, c)
                                [i - (r.frame.block + r.frame.offset)] ELSE @[i]],
                      !.frame.offset = @ + Len(c)]
    <3>1. PICK from : from = r.frame.block + r.frame.offset
      OBVIOUS
    <3>2. PICK z : z = Unmask(r.mask, r.frame.offset, c)
      OBVIOUS
    <3>3. from = o /\ z = plain
      BY <1>8, <2>1, <2>4, <3>1, <3>2
    <3>4. k = [r EXCEPT !.frame.buffer = [i \in DOMAIN @ |->
                       IF i \in from + 1 .. from + Len(c) THEN z[i - from] ELSE @[i]],
                      !.frame.offset = @ + Len(c)]
      BY <2>3, <3>3, Zenon
    <3> QED
      BY <3>1, <3>2, <3>4
  <2>6. Save(r, c) = IF RequiredBytes(k) = 0 THEN UpdateState(k) ELSE k
    <3>1. k = IF r.status = "Body"
              THEN [r EXCEPT !.frame.buffer = [i \in DOMAIN @ |->
                       IF i \in (r.frame.block + r.frame.offset) + 1
                                 .. (r.frame.block + r.frame.offset) + Len(c)
                       THEN Unmask(r.mask, r.frame.offset, c)
                                [i - (r.frame.block + r.frame.offset)] ELSE @[i]],
                      !.frame.offset = @ + Len(c)]
              ELSE [r EXCEPT !.buffer = @ \o c]
      BY <2>4, <2>5, Zenon
    <3> QED
      BY <3>1 DEF Save
  <2> QED
    BY <1>6, <2>6
<1>17. /\ k \in Readers
       /\ k.frame \in DataFrames /\ k.frame.buffer = x /\ k.frame.offset = y
       /\ k.frame.fin = TRUE /\ k.frame.block = 0
       /\ k.status = "Body" /\ k.error = "None" /\ k.fin = r.fin /\ k.masked = r.masked
       /\ k.type = r.type /\ k.size = F.size /\ k.mask = Key(f) /\ k.buffer = <<>>
  <2>1. Filled(k, r, x, y)
    BY <1>14, <1>15, FilledReader, Zenon
  <2> QED
    BY <1>1, <1>4, <2>1 DEF Filled
<1>18. RequiredBytes(k) = IF y < F.size THEN F.size - y ELSE 0
  BY <1>17 DEF RequiredBytes, Missing
<1>19. y \in 0 .. F.size /\ u = b + 6 + w + y /\ y > 0
  <2>1. PICK z \in Nat : z = F.size
    BY <1>0
  <2>2. t = b + 6 + w + o /\ u <= b + 6 + w + z
    BY <1>1, <1>3, <2>1
  <2>3. b \in Nat /\ t < u
    BY <1>0
  <2>4. y \in 0 .. z /\ u = b + 6 + w + y /\ y > 0
    BY <1>5, <1>12, <2>2, <2>3
  <2> QED
    BY <2>1, <2>4
<1>20. CASE y # F.size
  <2>1. q = k
    BY <1>0, <1>16, <1>18, <1>19, <1>20
  <2>2. InBody(k, f, F, b, u)
    <3>1. ~(y = F.size /\ y > 0)
      BY <1>20
    <3>2. k.frame.block = (IF y = F.size /\ y > 0 THEN F.size ELSE 0)
      BY <1>17, <3>1, Zenon
    <3>3. k.frame.fin = (IF y = F.size /\ y > 0 THEN F.fin ELSE TRUE)
      BY <1>17, <3>1, Zenon
    <3>4. /\ k.status = "Body" /\ ~IsControlFrameType(k.type)
          /\ k.size = F.size /\ F.size <= Most /\ k.mask = Key(f) /\ k.buffer = <<>>
      BY <1>1, <1>17
    <3>5. /\ k.frame.offset = y /\ y \in 0 .. F.size /\ u = b + 6 + Width(F.size) + y
          /\ k.frame.buffer = [i \in 1 .. F.size |->
                                  IF i <= y THEN Payload(f, F)[i] ELSE Plain(0)]
      BY <1>13, <1>17, <1>19, <1>w, Zenon
    <3> QED
      BY <3>2, <3>3, <3>4, <3>5, Zenon DEF InBody
  <2>3. Known(k, F)
    BY <1>17 DEF Known
  <2>4. InFrame(k, f, F, st, b, u)
    BY <1>17, <2>2, <2>3 DEF InFrame
  <2> QED
    BY <1>17, <2>1, <2>4 DEF Advanced
<1>21. CASE y = F.size
  <2>1. q = EndBody(k)
    <3>1. RequiredBytes(k) = 0
      BY <1>0, <1>18, <1>21
    <3> QED
      BY <1>16, <1>17, <3>1 DEF UpdateState
  <2>2. /\ q \in Readers
        /\ q.frame.buffer = k.frame.buffer /\ q.frame.offset = k.frame.offset
        /\ q.frame.fin = k.fin /\ q.frame.block = k.frame.block + k.size
        /\ q.status = k.status /\ q.error = k.error /\ q.fin = k.fin /\ q.masked = k.masked
        /\ q.type = k.type /\ q.size = k.size /\ q.mask = k.mask /\ q.buffer = k.buffer
    BY <1>17, <2>1, EndBodyType
  <2>3. q.frame.block = F.size /\ q.frame.fin = F.fin /\ q.frame.offset = F.size
    BY <1>0, <1>17, <1>21, <2>2 DEF Known
  <2>4. InBody(q, f, F, b, u)
    <3>1. /\ q.status = "Body" /\ ~IsControlFrameType(q.type) /\ q.size = F.size /\ F.size <= Most
          /\ q.mask = Key(f) /\ q.buffer = <<>>
      BY <1>1, <1>17, <2>2
    <3>2. /\ q.frame.offset = F.size /\ F.size > 0 /\ F.size \in 0 .. F.size
          /\ u = b + 6 + Width(F.size) + F.size
      BY <1>0, <1>19, <1>21, <1>w, <2>3
    <3>3. q.frame.buffer = [i \in 1 .. F.size |->
                               IF i <= F.size THEN Payload(f, F)[i] ELSE Plain(0)]
      BY <1>13, <1>17, <1>21, <2>2
    <3> QED
      BY <2>3, <3>1, <3>2, <3>3, Zenon DEF InBody
  <2>5. Known(q, F)
    BY <1>17, <2>2 DEF Known
  <2>6. InFrame(q, f, F, st, b, u)
    BY <1>17, <2>2, <2>4, <2>5 DEF InFrame
  <2> QED
    BY <2>2, <2>6 DEF Advanced
<1> QED
  BY <1>20, <1>21

(***************************************************************************)
(* save in a frame, wherever the reader is in it.                          *)
(***************************************************************************)
LEMMA SaveStep ==
    ASSUME NEW f, NEW F, NEW st, NEW b, Given(f, F, st, b),
           NEW r \in Readers, NEW t \in Nat, InFrame(r, f, F, st, b, t),
           NEW u \in Nat, t < u, u <= t + RequiredBytes(r), u <= Len(st),
           NEW q, q = Save(r, SubSeq(st, t + 1, u))
    PROVE  Advanced(q, f, F, st, b, u)
<1>1. r.error = "None"
  BY DEF InFrame
<1>2. CASE InHead(r, st, b, t)
  BY <1>1, <1>2, SaveHead, Zenon
<1>3. CASE Known(r, F) /\ InSize(r, F, st, b, t)
  BY <1>1, <1>3, SaveSize, Zenon
<1>4. CASE Known(r, F) /\ InMask(r, F, st, b, t)
  BY <1>1, <1>4, SaveMask, Zenon
<1>5. CASE Known(r, F) /\ InBody(r, f, F, b, t)
  BY <1>1, <1>5, SaveBody, Zenon
<1>6. CASE Known(r, F) /\ InControl(r, F, st, b, t)
  BY <1>1, <1>6, SaveControl, Zenon
<1> QED
  BY <1>2, <1>3, <1>4, <1>5, <1>6 DEF InFrame

\* The reader r has t bytes of the stream of s, and is at its f-th frame or,
\* after the last one, at the end.
ReaderAt(s, r, f, t) ==
    /\ f \in 1 .. Len(s) + 1
    /\ r \in Readers /\ r.error = "None"
    /\ \/ InHead(r, StreamOf[s], EndOf(s, f - 1), t)
       \/ f <= Len(s) /\ InFrame(r, f, s[f], StreamOf[s], EndOf(s, f - 1), t)

(***************************************************************************)
(* A frame of a script is in its stream.                                   *)
(***************************************************************************)
LEMMA ScriptGiven ==
    ASSUME NEW s \in Scripts, NEW f \in 1 .. Len(s)
    PROVE  Given(f, s[f], StreamOf[s], EndOf(s, f - 1))
<1>1. /\ Len(s) \in Nat /\ s[f] \in PeerFrames /\ Upper(s[f].size)[8] = 0
  BY WiredType
<1>2. StreamOf[s] \in Seq(Bytes)
  BY StreamType
<1>3. /\ FramePlaced(f, s[f], StreamOf[s], EndOf(s, f - 1))
      /\ EndOf(s, f) = EndOf(s, f - 1) + SizeOnWire(s[f])
      /\ EndOf(s, f - 1) \in Nat
      /\ EndOf(s, f) <= Len(StreamOf[s])
  BY FramePlaces
<1>4. f \in Nat
  BY <1>1
<1> QED
  BY <1>1, <1>2, <1>3, <1>4 DEF Given

\* The places of a frame's ends.
Places(s) ==
    /\ Len(s) \in Nat /\ DOMAIN s = 1 .. Len(s)
    /\ StreamOf[s] \in Seq(Bytes) /\ Len(StreamOf[s]) \in Nat
    /\ EndOf(s, 0) = 0 /\ EndOf(s, Len(s)) = Len(StreamOf[s])
    /\ \A f \in 1 .. Len(s) :
            /\ s[f] \in PeerFrames
            /\ EndOf(s, f) = EndOf(s, f - 1) + SizeOnWire(s[f])
            /\ EndOf(s, f) \in Nat /\ EndOf(s, f - 1) \in Nat
            /\ EndOf(s, f) <= Len(StreamOf[s])

(***************************************************************************)
(* Where the frames of a script end.                                       *)
(***************************************************************************)
LEMMA ScriptPlaces ==
    ASSUME NEW s \in Scripts
    PROVE  Places(s)
<1>1. /\ Len(s) \in Nat /\ DOMAIN s = 1 .. Len(s)
      /\ \A f \in 1 .. Len(s) : s[f] \in PeerFrames
  BY WiredType
<1>2. /\ StreamOf[s] \in Seq(Bytes) /\ Len(StreamOf[s]) \in Nat
      /\ EndOf(s, 0) = 0 /\ EndOf(s, Len(s)) = Len(StreamOf[s])
  BY StreamType
<1>3. \A f \in 1 .. Len(s) :
            /\ EndOf(s, f) = EndOf(s, f - 1) + SizeOnWire(s[f])
            /\ EndOf(s, f) \in Nat /\ EndOf(s, f - 1) \in Nat
            /\ EndOf(s, f) <= Len(StreamOf[s])
  BY FramePlaces
<1> QED
  BY <1>1, <1>2, <1>3, Zenon DEF Places

(***************************************************************************)
(* A reader begins before the first frame.                                 *)
(***************************************************************************)
LEMMA ReaderBegins ==
    ASSUME NEW s \in Scripts
    PROVE  ReaderAt(s, NewReader, 1, 0)
<1>1. Len(s) \in Nat /\ EndOf(s, 0) = 0
  BY ScriptPlaces DEF Places
<1>2. NewReader \in Readers
  <2>1. "None" \in Types /\ NoFrame \in DataFrames
    BY NoFrameType DEF Types
  <2> QED
    BY <2>1 DEF NewReader, Readers, Statuses, Errors
<1>3. SubSeq(StreamOf[s], 0 + 1, 0) = <<>>
  BY CutNone
<1>4. InHead(NewReader, StreamOf[s], 0, 0)
  BY <1>3 DEF InHead, NewReader
<1>5. EndOf(s, 1 - 1) = 0 /\ 1 \in 1 .. Len(s) + 1 /\ NewReader.error = "None"
  BY <1>1 DEF NewReader
<1> QED
  BY <1>2, <1>4, <1>5 DEF ReaderAt

(***************************************************************************)
(* A reader that has not all the bytes is before the last frame's end, and *)
(* save takes it on.                                                       *)
(***************************************************************************)
LEMMA ReaderReads ==
    ASSUME NEW s \in Scripts, NEW r, NEW f, NEW t \in Nat, ReaderAt(s, r, f, t),
           NEW u \in Nat, t < u, u <= t + RequiredBytes(r), u <= Len(StreamOf[s]),
           NEW q, q = Save(r, SubSeq(StreamOf[s], t + 1, u))
    PROVE  q \in Readers /\ (q.error # "None" \/ ReaderAt(s, q, f, u))
<1>1. PICK st, b : st = StreamOf[s] /\ b = EndOf(s, f - 1)
  OBVIOUS
<1>2. r \in Readers /\ r.error = "None" /\ f \in 1 .. Len(s) + 1
  BY DEF ReaderAt
<1>3. f <= Len(s)
  <2>1. ASSUME f = Len(s) + 1
        PROVE  FALSE
    <3>1. Len(s) \in Nat /\ EndOf(s, Len(s)) = Len(StreamOf[s]) /\ Len(StreamOf[s]) \in Nat
      BY ScriptPlaces DEF Places
    <3>2. f - 1 = Len(s) /\ ~(f <= Len(s))
      BY <2>1, <3>1
    <3>3. t \in EndOf(s, f - 1) .. EndOf(s, f - 1) + 1
      BY <3>2 DEF ReaderAt, InHead
    <3> QED
      BY <3>1, <3>2, <3>3
  <2> QED
    BY <1>2, <2>1, ScriptPlaces DEF Places
<1>4. f \in 1 .. Len(s)
  BY <1>2, <1>3
<1>5. Given(f, s[f], st, b)
  BY <1>1, <1>4, ScriptGiven
<1>6. InFrame(r, f, s[f], st, b, t)
  BY <1>1 DEF ReaderAt, InFrame
<1>7. Advanced(q, f, s[f], st, b, u)
  <2>1. u <= Len(st) /\ q = Save(r, SubSeq(st, t + 1, u))
    BY <1>1
  <2> QED
    BY <1>2, <1>5, <1>6, <2>1, SaveStep, Zenon
<1> QED
  BY <1>1, <1>2, <1>3, <1>7 DEF Advanced, ReaderAt, InFrame

\* r has all of F, with nothing more to read.
HasAll(r, f, F, t, e) ==
    /\ t = e /\ Known(r, F) /\ F.size <= Most /\ F \in PeerFrames
    /\ \/ r.status = "Control" /\ IsControlFrameType(r.type) /\ r.frame = NoFrame
       \/ /\ r.status = "Body" /\ ~IsControlFrameType(r.type)
          /\ r.frame.buffer = Payload(f, F) /\ r.buffer = <<>>
          /\ (r.frame.fin <=> F.fin \/ F.size = 0)

(***************************************************************************)
(* A reader that requires nothing has all of a frame.                      *)
(***************************************************************************)
LEMMA ReaderHasAll ==
    ASSUME NEW s \in Scripts, NEW r, NEW f, NEW t \in Nat, ReaderAt(s, r, f, t),
           t <= Len(StreamOf[s]), RequiredBytes(r) = 0
    PROVE  f \in 1 .. Len(s) /\ HasAll(r, f, s[f], t, EndOf(s, f))
<1>1. PICK st, b : st = StreamOf[s] /\ b = EndOf(s, f - 1)
  OBVIOUS
<1>2. /\ r \in Readers /\ r.error = "None" /\ f \in 1 .. Len(s) + 1
      /\ \/ InHead(r, st, b, t)
         \/ f <= Len(s) /\ InFrame(r, f, s[f], st, b, t)
  BY <1>1 DEF ReaderAt
<1>3. b \in Nat /\ st \in Seq(Bytes) /\ Len(st) \in Nat /\ Len(s) \in Nat
  <2>1. Places(s)
    BY ScriptPlaces
  <2>2. CASE f = Len(s) + 1
    BY <1>1, <2>1, <2>2 DEF Places
  <2>3. CASE f # Len(s) + 1
    <3>1. f \in 1 .. Len(s)
      BY <1>2, <2>1, <2>3 DEF Places
    <3> QED
      BY <1>1, <2>1, <3>1, Zenon DEF Places
  <2> QED
    BY <2>2, <2>3
<1>4. ~InHead(r, st, b, t)
  <2> SUFFICES ASSUME InHead(r, st, b, t) PROVE FALSE
    OBVIOUS
  <2>1. r.status = "Head" /\ t \in b .. b + 1 /\ r.buffer = SubSeq(st, b + 1, t)
    BY DEF InHead
  <2>2. b <= t /\ t <= Len(st)
    BY <1>1, <1>3, <2>1
  <2>3. IsCut(r.buffer, st, b, t)
    BY <1>3, <2>1, <2>2, CutType
  <2>4. Len(r.buffer) = t - b /\ RequiredBytes(r) = Missing(Len(r.buffer), 2)
    BY <2>1, <2>3 DEF IsCut, RequiredBytes
  <2> QED
    BY <1>3, <2>1, <2>4 DEF Missing
<1>5. f \in 1 .. Len(s) /\ InFrame(r, f, s[f], st, b, t)
  BY <1>2, <1>3, <1>4
<1>6. PICK F : F = s[f]
  OBVIOUS
<1>7. Given(f, F, st, b)
  BY <1>1, <1>5, <1>6, ScriptGiven
<1>8. F \in PeerFrames /\ F.size \in Nat /\ Upper(F.size)[8] = 0
  BY <1>7 DEF Given, PeerFrames
<1>w. PICK w \in {0, 2, 8} : w = Width(F.size)
  BY <1>8, WidthFits
<1>9. EndOf(s, f) = b + SizeOnWire(F)
  BY <1>1, <1>5, <1>6, FramePlaces
<1>10. Known(r, F) => EndOf(s, f) = b + 6 + w + F.size
  <2> SUFFICES ASSUME Known(r, F) PROVE EndOf(s, f) = b + 6 + w + F.size
    OBVIOUS
  <2>1. F.masked
    BY DEF Known
  <2>2. SizeOnWire(F) = 2 + w + 4 + F.size
    BY <1>w, <2>1, Zenon DEF SizeOnWire
  <2> QED
    BY <1>3, <1>8, <1>9, <1>w, <2>2
<1>11. /\ Known(r, F)
       /\ \/ InSize(r, F, st, b, t)
          \/ InMask(r, F, st, b, t)
          \/ InBody(r, f, F, b, t)
          \/ InControl(r, F, st, b, t)
  BY <1>4, <1>5, <1>6 DEF InFrame
<1>12. ~InSize(r, F, st, b, t)
  <2> SUFFICES ASSUME InSize(r, F, st, b, t) PROVE FALSE
    OBVIOUS
  <2>a. PICK a \in Nat : a = b + 2
    BY <1>3
  <2>1. /\ w # 0 /\ r.status = (IF w = 2 THEN "Size16" ELSE "Size64")
        /\ t \in a .. b + 1 + w /\ r.buffer = SubSeq(st, a + 1, t)
    BY <1>w, <2>a, Zenon DEF InSize
  <2>2. a <= t /\ t <= Len(st) /\ t - a < w
    BY <1>1, <1>3, <1>w, <2>1, <2>a
  <2>3. IsCut(r.buffer, st, a, t)
    BY <1>3, <2>1, <2>2, CutType
  <2>4. Len(r.buffer) = t - a /\ RequiredBytes(r) = Missing(Len(r.buffer), w)
    BY <1>w, <2>1, <2>3 DEF IsCut, RequiredBytes
  <2> QED
    BY <1>3, <1>w, <2>a, <2>1, <2>2, <2>4 DEF Missing
<1>13. ~InMask(r, F, st, b, t)
  <2> SUFFICES ASSUME InMask(r, F, st, b, t) PROVE FALSE
    OBVIOUS
  <2>a. PICK a \in Nat : a = b + 2 + w
    BY <1>3, <1>w
  <2>1. r.status = "Mask" /\ t \in a .. a + 3 /\ r.buffer = SubSeq(st, a + 1, t)
    BY <1>w, <2>a, Zenon DEF InMask
  <2>2. a <= t /\ t <= Len(st) /\ t - a < 4
    BY <1>1, <1>3, <2>1, <2>a
  <2>3. IsCut(r.buffer, st, a, t)
    BY <1>3, <2>1, <2>2, CutType
  <2>4. Len(r.buffer) = t - a /\ RequiredBytes(r) = Missing(Len(r.buffer), 4)
    BY <2>1, <2>3 DEF IsCut, RequiredBytes
  <2> QED
    BY <1>3, <2>a, <2>1, <2>2, <2>4 DEF Missing
<1>14. CASE InBody(r, f, F, b, t)
  <2>o. PICK o \in Nat : o = r.frame.offset
    BY <1>2 DEF Readers, DataFrames
  <2>1. /\ r.status = "Body" /\ ~IsControlFrameType(r.type) /\ r.size = F.size /\ F.size <= Most
        /\ o <= F.size /\ t = b + 6 + w + o /\ r.buffer = <<>>
        /\ r.frame.buffer = [i \in 1 .. F.size |-> IF i <= o THEN Payload(f, F)[i] ELSE Plain(0)]
        /\ r.frame.fin = (IF o = F.size /\ o > 0 THEN F.fin ELSE TRUE)
    BY <1>8, <1>14, <1>w, <2>o DEF InBody
  <2>2. o = F.size
    <3>1. RequiredBytes(r) = IF o < F.size THEN F.size - o ELSE 0
      BY <2>1, <2>o DEF RequiredBytes, Missing
    <3> QED
      BY <1>8, <2>1, <3>1
  <2>3. F.fin \in BOOLEAN
    BY <1>8 DEF PeerFrames
  <2>4. (r.frame.fin <=> F.fin \/ F.size = 0)
    <3>1. CASE F.size = 0
      <4>1. ~(o = F.size /\ o > 0)
        BY <2>2, <3>1
      <4>2. r.frame.fin = TRUE
        BY <2>1, <4>1, Zenon
      <4> QED
        BY <3>1, <4>2, Zenon
    <3>2. CASE F.size # 0
      <4>1. o = F.size /\ o > 0
        BY <1>8, <2>2, <3>2
      <4>2. r.frame.fin = F.fin
        BY <2>1, <4>1, Zenon
      <4> QED
        BY <3>2, <4>2, Zenon
    <3> QED
      BY <3>1, <3>2
  <2>5. r.frame.buffer = Payload(f, F)
    BY <1>8, <2>1, <2>2 DEF Payload
  <2>6. t = EndOf(s, f)
    BY <1>10, <1>11, <2>1, <2>2
  <2> QED
    BY <1>5, <1>6, <1>8, <1>11, <2>1, <2>4, <2>5, <2>6 DEF HasAll
<1>15. CASE InControl(r, F, st, b, t)
  <2>a. PICK a \in Nat : a = b + 6 + w
    BY <1>3, <1>w
  <2>1. /\ r.status = "Control" /\ IsControlFrameType(r.type) /\ r.frame = NoFrame
        /\ r.size = F.size /\ F.size <= Most
        /\ t \in a .. a + F.size /\ r.buffer = SubSeq(st, a + 1, t)
    BY <1>15, <1>w, <2>a, Zenon DEF InControl
  <2>2. a <= t /\ t <= Len(st)
    BY <1>1, <1>3, <1>8, <2>1, <2>a
  <2>3. IsCut(r.buffer, st, a, t)
    BY <1>3, <2>1, <2>2, CutType
  <2>4. Len(r.buffer) = t - a /\ RequiredBytes(r) = Missing(Len(r.buffer), F.size)
    BY <2>1, <2>3 DEF IsCut, RequiredBytes
  <2>5. t = a + F.size
    BY <1>3, <1>8, <2>1, <2>4 DEF Missing
  <2>6. t = EndOf(s, f)
    BY <1>10, <1>11, <2>5, <2>a
  <2> QED
    BY <1>5, <1>6, <1>8, <1>11, <2>1, <2>6 DEF HasAll
<1> QED
  BY <1>11, <1>12, <1>13, <1>14, <1>15

(***************************************************************************)
(* popFrame of what is complete goes on with the next frame.               *)
(***************************************************************************)
LEMMA ReaderPops ==
    ASSUME NEW s \in Scripts, NEW r \in Readers, r.error = "None",
           NEW f \in 1 .. Len(s), NEW t \in Nat, HasAll(r, f, s[f], t, EndOf(s, f))
    PROVE  ReaderAt(s, PopFrame(r), f + 1, t)
<1>1. PICK st, b : st = StreamOf[s] /\ b = EndOf(s, f)
  OBVIOUS
<1>2. t = b /\ Len(s) \in Nat /\ b \in Nat
  BY <1>1, ScriptPlaces DEF HasAll, Places
<1>3. PICK q : q = PopFrame(r)
  OBVIOUS
<1>4. /\ q \in Readers /\ q.error = "None" /\ q.status = "Head" /\ q.frame = NoFrame
      /\ q.buffer = <<>>
  <2>1. CASE r.status = "Control"
    <3>1. q = [r EXCEPT !.buffer = <<>>, !.status = "Head"]
      BY <1>3, <2>1 DEF PopFrame
    <3>2. PICK g : g = NoFrame
      OBVIOUS
    <3>3. r.frame = g
      BY <2>1, <3>2 DEF HasAll
    <3>4. PICK e \in Seq(Bytes) : e = <<>>
      BY EmptySeq
    <3>5. PICK z \in Statuses : z = "Head"
      BY DEF Statuses
    <3>6. q = [r EXCEPT !.buffer = e, !.status = z]
      BY <3>1, <3>4, <3>5
    <3>7. /\ q \in Readers /\ q.error = r.error /\ q.status = z /\ q.frame = r.frame
          /\ q.buffer = e
      BY <3>6 DEF Readers
    <3> QED
      BY <3>2, <3>3, <3>4, <3>5, <3>7
  <2>2. CASE r.status = "Body"
    <3>1. q = [r EXCEPT !.status = "Head", !.frame = NoFrame]
      BY <1>3, <2>2 DEF PopFrame
    <3>2. NoFrame \in DataFrames
      BY NoFrameType
    <3>3. PICK g \in DataFrames : g = NoFrame
      BY <3>2
    <3>4. /\ q \in Readers /\ q.error = r.error /\ q.status = "Head" /\ q.frame = g
          /\ q.buffer = r.buffer
      BY <3>1, <3>3 DEF Readers, Statuses
    <3>5. r.buffer = <<>>
      BY <2>2 DEF HasAll
    <3> QED
      BY <3>3, <3>4, <3>5
  <2> QED
    BY <2>1, <2>2 DEF HasAll
<1>5. SubSeq(st, b + 1, b) = <<>>
  BY <1>2, CutNone
<1>6. InHead(q, st, b, t)
  BY <1>2, <1>4, <1>5 DEF InHead
<1>7. f + 1 \in 1 .. Len(s) + 1 /\ (f + 1) - 1 = f
  BY <1>2
<1> QED
  BY <1>1, <1>3, <1>4, <1>6, <1>7 DEF ReaderAt

----------------------------------------------------------------------------
(* The messages of a script.                                                *)

\* The recursion Assembled is defined by.
IsAssembled(g, s, k) ==
    g = [f \in 0 .. k |-> IF f = 0 THEN Nothing ELSE Assemble(s, g[f - 1], f)]

(***************************************************************************)
(* The recursion has a solution.                                           *)
(***************************************************************************)
LEMMA AssembledExists ==
    ASSUME NEW s
    PROVE  \A k \in Nat : \E g : IsAssembled(g, s, k)
<1> DEFINE T == {k \in Nat : \E g : IsAssembled(g, s, k)}
<1>1. 0 \in T
  <2>1. [j \in 0 .. 0 |-> Nothing]
         = [j \in 0 .. 0 |-> IF j = 0 THEN Nothing
                             ELSE Assemble(s, [i \in 0 .. 0 |-> Nothing][j - 1], j)]
    OBVIOUS
  <2> QED
    BY <2>1 DEF IsAssembled
<1>2. ASSUME NEW k \in Nat, k \in T
      PROVE  k + 1 \in T
  <2>1. PICK g : IsAssembled(g, s, k)
    BY <1>2
  <2> DEFINE h == [j \in 0 .. k + 1 |-> IF j = k + 1 THEN Assemble(s, g[k], k + 1) ELSE g[j]]
  <2>2. ASSUME NEW j \in 0 .. k + 1
        PROVE  h[j] = IF j = 0 THEN Nothing ELSE Assemble(s, h[j - 1], j)
    <3>1. CASE j = k + 1
      <4>1. h[j] = Assemble(s, g[k], k + 1) /\ j # 0 /\ h[j - 1] = g[k]
        BY <3>1
      <4> QED
        BY <3>1, <4>1
    <3>2. CASE j # k + 1
      <4>1. j \in 0 .. k /\ h[j] = g[j] /\ (j # 0 => h[j - 1] = g[j - 1])
        BY <3>2
      <4>2. g[j] = IF j = 0 THEN Nothing ELSE Assemble(s, g[j - 1], j)
        BY <2>1, <4>1, Zenon DEF IsAssembled
      <4> QED
        BY <4>1, <4>2
    <3> QED
      BY <3>1, <3>2
  <2>3. h = [j \in 0 .. k + 1 |-> h[j]]
    OBVIOUS
  <2> HIDE DEF h
  <2>4. IsAssembled(h, s, k + 1)
    BY <2>2, <2>3 DEF IsAssembled
  <2> QED
    BY <2>4
<1> HIDE DEF T
<1>3. Nat \subseteq T
  BY <1>1, <1>2, Induction
<1> QED
  BY <1>3 DEF T

\* The steps of the recursion.
AssembledBy(s) ==
    /\ Assembled(s)[0] = Nothing
    /\ \A f \in 1 .. Len(s) : Assembled(s)[f] = Assemble(s, Assembled(s)[f - 1], f)

(***************************************************************************)
(* A script is assembled frame by frame.                                   *)
(***************************************************************************)
LEMMA AssembledSteps ==
    ASSUME NEW s \in Scripts
    PROVE  AssembledBy(s)
<1>0. Len(s) \in Nat
  BY ScriptPlaces DEF Places
<1>1. IsAssembled(Assembled(s), s, Len(s))
  <2>1. \E g : IsAssembled(g, s, Len(s))
    BY <1>0, AssembledExists
  <2>2. Assembled(s) = CHOOSE g : IsAssembled(g, s, Len(s))
    BY Zenon DEF Assembled, IsAssembled
  <2> QED
    BY <2>1, <2>2, Zenon
<1>2. \A f \in 0 .. Len(s) :
        Assembled(s)[f] = IF f = 0 THEN Nothing ELSE Assemble(s, Assembled(s)[f - 1], f)
  BY <1>1, Zenon DEF IsAssembled
<1>3. 0 \in 0 .. Len(s) /\ \A f \in 1 .. Len(s) : f \in 0 .. Len(s) /\ f # 0
  BY <1>0
<1> QED
  BY <1>2, <1>3, Zenon DEF AssembledBy

Told == [type : Types, data : Seq(Bytes), end : Nat]
Accs == [done : Seq(Told), data : Seq(Bytes), type : Types, over : BOOLEAN]

\* The done messages of a have become those of c, with at most one more, which
\* ends at e.
MoreDone(a, c, e) ==
    \/ c.done = a.done
    \/ \E m \in Told : m.end = e /\ c.done = Append(a.done, m)

(***************************************************************************)
(* One frame completes at most one message.                                *)
(***************************************************************************)
LEMMA AssembleType ==
    ASSUME NEW s \in Scripts, NEW f \in 1 .. Len(s), NEW a \in Accs
    PROVE  Assemble(s, a, f) \in Accs /\ MoreDone(a, Assemble(s, a, f), EndOf(s, f))
<1>1. /\ s[f] \in PeerFrames /\ EndOf(s, f) \in Nat /\ f \in Nat
  BY ScriptPlaces DEF Places
<1>2. PICK F : F = s[f]
  OBVIOUS
<1>3. PICK type : type = TypeFromOpcode(F.opcode)
  OBVIOUS
<1>4. PICK data : data = a.data \o Payload(f, F)
  OBVIOUS
<1>5. PICK first : first = IF type = "Continue" THEN a.type ELSE type
  OBVIOUS
<1>6. PICK m : m = [type |-> first, data |-> data, end |-> EndOf(s, f)]
  OBVIOUS
<1>7. PICK c : c = Assemble(s, a, f)
  OBVIOUS
<1>8. /\ a.done \in Seq(Told) /\ a.data \in Seq(Bytes) /\ a.type \in Types /\ a.over \in BOOLEAN
  BY DEF Accs
<1>9. /\ type \in Types /\ first \in Types /\ data \in Seq(Bytes)
  <2>1. Payload(f, F) \in Seq(Bytes)
    BY <1>1, <1>2, KeyType
  <2> QED
    BY <1>3, <1>4, <1>5, <1>8, <2>1, OpcodeType, ConcatProperties
<1>10. m \in Told /\ m.end = EndOf(s, f)
  BY <1>1, <1>6, <1>9 DEF Told
<1>11. Append(a.done, m) \in Seq(Told)
  BY <1>8, <1>10, AppendProperties
<1>12. \/ c = [a EXCEPT !.over = TRUE]
       \/ c = a
       \/ c = [a EXCEPT !.data = <<>>, !.type = "None", !.done = Append(@, m)]
       \/ c = [a EXCEPT !.data = data, !.type = first]
  BY <1>2, <1>3, <1>4, <1>5, <1>6, <1>7, Zenon DEF Assemble
<1>13. CASE c = [a EXCEPT !.over = TRUE]
  <2>1. c \in Accs /\ c.done = a.done
    BY <1>13 DEF Accs
  <2> QED
    BY <1>7, <2>1, Zenon DEF MoreDone
<1>14. CASE c = a
  BY <1>7, <1>14 DEF MoreDone
<1>15. CASE c = [a EXCEPT !.data = <<>>, !.type = "None", !.done = Append(@, m)]
  <2>1. PICK e \in Seq(Bytes), n \in Types, d \in Seq(Told) :
            e = <<>> /\ n = "None" /\ d = Append(a.done, m)
    BY <1>11, EmptySeq DEF Types
  <2>2. c = [a EXCEPT !.data = e, !.type = n, !.done = d]
    BY <1>15, <2>1
  <2>3. c \in Accs /\ c.done = d
    BY <2>2 DEF Accs
  <2> QED
    BY <1>7, <1>10, <2>1, <2>3, Zenon DEF MoreDone
<1>16. CASE c = [a EXCEPT !.data = data, !.type = first]
  <2>1. c \in Accs /\ c.done = a.done
    BY <1>9, <1>16 DEF Accs
  <2> QED
    BY <1>7, <2>1, Zenon DEF MoreDone
<1> QED
  BY <1>7, <1>12, <1>13, <1>14, <1>15, <1>16

(***************************************************************************)
(* What is assembled of the first frames of a script has its type.         *)
(***************************************************************************)
LEMMA AssembledType ==
    ASSUME NEW s \in Scripts
    PROVE  \A f \in 0 .. Len(s) : Assembled(s)[f] \in Accs
<1>0. Len(s) \in Nat
  BY ScriptPlaces DEF Places
<1> DEFINE T == {f \in Nat : f <= Len(s) => Assembled(s)[f] \in Accs}
<1>1. 0 \in T
  <2>1. <<>> \in Seq(Told) /\ <<>> \in Seq(Bytes) /\ "None" \in Types
    BY EmptySeq DEF Types
  <2>2. Nothing \in Accs
    BY <2>1 DEF Nothing, Accs
  <2> QED
    BY <2>2, AssembledSteps DEF AssembledBy
<1>2. ASSUME NEW f \in Nat, f \in T
      PROVE  f + 1 \in T
  <2> SUFFICES ASSUME f + 1 <= Len(s) PROVE Assembled(s)[f + 1] \in Accs
    OBVIOUS
  <2>1. PICK g \in 1 .. Len(s) : g = f + 1 /\ g - 1 = f
    BY <1>0
  <2>2. Assembled(s)[f] \in Accs
    BY <1>0, <1>2
  <2>3. Assembled(s)[g] = Assemble(s, Assembled(s)[f], g)
    BY <2>1, AssembledSteps DEF AssembledBy
  <2> QED
    BY <2>1, <2>2, <2>3, AssembleType
<1> HIDE DEF T
<1>3. Nat \subseteq T
  BY <1>1, <1>2, Induction
<1> QED
  BY <1>0, <1>3 DEF T

(***************************************************************************)
(* A later frame ends later.                                               *)
(***************************************************************************)
LEMMA EndsUp ==
    ASSUME NEW s \in Scripts, NEW n \in Nat, n <= Len(s)
    PROVE  \A m \in n .. Len(s) : EndOf(s, n) <= EndOf(s, m)
<1>0. Places(s)
  BY ScriptPlaces
<1>1. Len(s) \in Nat /\ \A m \in 0 .. Len(s) : EndOf(s, m) \in Nat
  <2>1. Len(s) \in Nat /\ EndOf(s, 0) = 0
    BY <1>0 DEF Places
  <2>2. \A m \in 1 .. Len(s) : EndOf(s, m) \in Nat
    BY <1>0, Zenon DEF Places
  <2> QED
    BY <2>1, <2>2
<1> DEFINE T == {k \in Nat : n + k <= Len(s) => EndOf(s, n) <= EndOf(s, n + k)}
<1>2. 0 \in T
  <2>1. n + 0 = n /\ n \in 0 .. Len(s)
    BY <1>1
  <2> QED
    BY <1>1, <2>1
<1>3. ASSUME NEW k \in Nat, k \in T
      PROVE  k + 1 \in T
  <2> SUFFICES ASSUME n + (k + 1) <= Len(s) PROVE EndOf(s, n) <= EndOf(s, n + (k + 1))
    OBVIOUS
  <2>1. PICK g \in 1 .. Len(s), h \in 0 .. Len(s) :
            g = n + (k + 1) /\ h = n + k /\ g - 1 = h /\ n \in 0 .. Len(s)
    BY <1>1
  <2>2. EndOf(s, n) <= EndOf(s, h)
    BY <1>1, <1>3, <2>1
  <2>3. s[g] \in PeerFrames /\ EndOf(s, g) = EndOf(s, h) + SizeOnWire(s[g])
    BY <1>0, <2>1, Zenon DEF Places
  <2>4. SizeOnWire(s[g]) \in Nat
    <3>1. PICK w \in Nat : w = Width(s[g].size)
      BY DEF Width
    <3> QED
      BY <2>3, <3>1, SizeAtLeast, Zenon
  <2>5. EndOf(s, n) <= EndOf(s, g)
    BY <1>1, <2>1, <2>2, <2>3, <2>4
  <2> QED
    BY <2>1, <2>5
<1> HIDE DEF T
<1>4. Nat \subseteq T
  BY <1>2, <1>3, Induction
<1>5. ASSUME NEW m \in n .. Len(s)
      PROVE  EndOf(s, n) <= EndOf(s, m)
  <2>1. PICK k \in Nat : k = m - n /\ n + k = m /\ n + k <= Len(s)
    BY <1>1
  <2>2. EndOf(s, n) <= EndOf(s, n + k)
    BY <1>4, <2>1 DEF T
  <2> QED
    BY <2>1, <2>2
<1> QED
  BY <1>5

\* The messages done after n frames are the first of those done after m, and
\* the others end with a later frame.
Extends(s, n, m) ==
    LET a == Assembled(s)[n].done
        c == Assembled(s)[m].done
    IN  /\ Len(a) <= Len(c)
        /\ \A k \in 1 .. Len(a) : c[k] = a[k]
        /\ \A k \in 1 .. Len(c) : k > Len(a) => c[k].end >= EndOf(s, n + 1)

(***************************************************************************)
(* Messages that are done stay, in their order.                            *)
(***************************************************************************)
LEMMA DoneExtends ==
    ASSUME NEW s \in Scripts, NEW n \in 0 .. Len(s)
    PROVE  \A m \in n .. Len(s) : Extends(s, n, m)
<1>0. Len(s) \in Nat /\ \A m \in 1 .. Len(s) : EndOf(s, m) \in Nat
  BY ScriptPlaces DEF Places
<1>1. \A m \in 0 .. Len(s) : Assembled(s)[m].done \in Seq(Told)
  BY AssembledType DEF Accs
<1> DEFINE T == {k \in Nat : n + k <= Len(s) => Extends(s, n, n + k)}
<1>2. 0 \in T
  <2>1. n + 0 = n
    BY <1>0
  <2>2. Len(Assembled(s)[n].done) \in Nat
    BY <1>1, LenProperties
  <2>3. Extends(s, n, n)
    BY <2>2 DEF Extends
  <2> QED
    BY <2>1, <2>3
<1>3. ASSUME NEW k \in Nat, k \in T
      PROVE  k + 1 \in T
  <2> SUFFICES ASSUME n + (k + 1) <= Len(s) PROVE Extends(s, n, n + (k + 1))
    OBVIOUS
  <2>1. PICK g \in 1 .. Len(s), h \in 0 .. Len(s) :
            g = n + (k + 1) /\ h = n + k /\ g - 1 = h /\ n + 1 \in 1 .. Len(s) /\ n + 1 <= g
    BY <1>0
  <2>2. Extends(s, n, h)
    BY <1>0, <1>3, <2>1
  <2>3. PICK a, c, d : /\ a = Assembled(s)[n].done /\ c = Assembled(s)[h].done
                       /\ d = Assembled(s)[g].done
    OBVIOUS
  <2>4. a \in Seq(Told) /\ c \in Seq(Told) /\ Len(a) \in Nat /\ Len(c) \in Nat
    BY <1>1, <2>1, <2>3, LenProperties
  <2>5. /\ Len(a) <= Len(c)
        /\ \A j \in 1 .. Len(a) : c[j] = a[j]
        /\ \A j \in 1 .. Len(c) : j > Len(a) => c[j].end >= EndOf(s, n + 1)
    BY <2>2, <2>3, Zenon DEF Extends
  <2>6. MoreDone(Assembled(s)[h], Assembled(s)[g], EndOf(s, g))
    <3>1. Assembled(s)[h] \in Accs
      BY <2>1, AssembledType
    <3>2. Assembled(s)[g] = Assemble(s, Assembled(s)[h], g)
      BY <2>1, AssembledSteps DEF AssembledBy
    <3> QED
      BY <3>1, <3>2, AssembleType
  <2>7. CASE d = c
    <3>1. Extends(s, n, g)
      BY <2>3, <2>5, <2>7, Zenon DEF Extends
    <3> QED
      BY <2>1, <3>1
  <2>8. CASE d # c
    <3>1. PICK m \in Told : m.end = EndOf(s, g) /\ d = Append(c, m)
      BY <2>3, <2>6, <2>8, Zenon DEF MoreDone
    <3>2. /\ Len(d) = Len(c) + 1 /\ d[Len(c) + 1] = m
          /\ \A j \in 1 .. Len(c) : d[j] = c[j]
      BY <2>4, <3>1, AppendProperties
    <3>3. EndOf(s, n + 1) <= EndOf(s, g)
      <4>1. PICK p \in Nat : p = n + 1 /\ p <= Len(s) /\ g \in p .. Len(s)
        BY <1>0, <2>1
      <4>2. EndOf(s, p) <= EndOf(s, g)
        BY <4>1, EndsUp
      <4> QED
        BY <4>1, <4>2
    <3>4. Len(a) <= Len(d) /\ \A j \in 1 .. Len(a) : d[j] = a[j]
      BY <2>4, <2>5, <3>2
    <3>5. ASSUME NEW j \in 1 .. Len(d), j > Len(a)
          PROVE  d[j].end >= EndOf(s, n + 1)
      <4>1. CASE j \in 1 .. Len(c)
        BY <2>5, <3>2, <3>5, <4>1
      <4>2. CASE j \notin 1 .. Len(c)
        <5>1. j = Len(c) + 1
          BY <2>4, <3>2, <4>2
        <5>2. d[j].end = EndOf(s, g)
          BY <3>1, <3>2, <5>1
        <5> QED
          BY <1>0, <2>1, <3>3, <5>2
      <4> QED
        BY <4>1, <4>2
    <3>6. Extends(s, n, g)
      BY <2>3, <3>4, <3>5, Zenon DEF Extends
    <3> QED
      BY <2>1, <3>6
  <2> QED
    BY <2>7, <2>8
<1> HIDE DEF T
<1>4. Nat \subseteq T
  BY <1>2, <1>3, Induction
<1>5. ASSUME NEW m \in n .. Len(s)
      PROVE  Extends(s, n, m)
  <2>1. PICK k \in Nat : k = m - n /\ n + k = m /\ n + k <= Len(s)
    BY <1>0
  <2>2. Extends(s, n, n + k)
    BY <1>4, <2>1 DEF T
  <2> QED
    BY <2>1, <2>2
<1> QED
  BY <1>5

Handed == [type : Types, data : Seq(Bytes)]

\* What handleFrame was given is what the first n frames say.
Fits(s, d, n) ==
    LET done == Assembled(s)[n].done
    IN  /\ d \in Seq(Handed) /\ Len(d) = Len(done)
        /\ \A k \in 1 .. Len(d) : d[k].type = done[k].type /\ d[k].data = done[k].data

\* No message is open after the first n frames.
Between(s, n) ==
    LET a == Assembled(s)[n]
    IN  a.over = FALSE /\ a.data = <<>> /\ a.type = "None"

\* A fragment that another follows is not empty: the reader takes an empty one
\* for a whole message.
NoEmptyFragment ==
    \A s \in Scripts : \A f \in DOMAIN s : s[f].fin \/ s[f].size > 0

(***************************************************************************)
(* At the start nothing was sent, and nothing handed on.                   *)
(***************************************************************************)
LEMMA FitsNothing ==
    ASSUME NEW s \in Scripts
    PROVE  Fits(s, <<>>, 0) /\ Between(s, 0)
<1>1. Assembled(s)[0] = Nothing
  BY AssembledSteps DEF AssembledBy
<1>2. <<>> \in Seq(Handed) /\ Len(<<>>) = 0
  BY EmptySeq
<1> QED
  BY <1>1, <1>2 DEF Fits, Between, Nothing

(***************************************************************************)
(* A ping belongs to no message.                                           *)
(***************************************************************************)
LEMMA PingSkipped ==
    ASSUME NEW s \in Scripts, NEW f \in 1 .. Len(s), NEW r \in Readers, NEW t,
           HasAll(r, f, s[f], t, EndOf(s, f)), r.type = "Ping",
           NEW d, Fits(s, d, f - 1), Between(s, f - 1)
    PROVE  Fits(s, d, f) /\ Between(s, f)
<1>1. PICK a : a = Assembled(s)[f - 1]
  OBVIOUS
<1>2. PICK F : F = s[f]
  OBVIOUS
<1>3. /\ F \in PeerFrames /\ F.masked /\ F.extra = 0 /\ F.size \in Nat /\ F.size <= Most
      /\ TypeFromOpcode(F.opcode) = "Ping"
  BY <1>2 DEF HasAll, Known, PeerFrames
<1>4. a.over = FALSE /\ a.data = <<>>
  BY <1>1 DEF Between
<1>5. f \in Nat
  BY ScriptPlaces DEF Places
<1>6. Len(<<>> \o Payload(f, F)) = F.size
  <2>1. Payload(f, F) \in Seq(Bytes) /\ Len(Payload(f, F)) = F.size
    BY <1>3, <1>5, KeyType
  <2> QED
    BY <2>1, ConcatEmptySeq
<1>7. Assembled(s)[f] = Assemble(s, a, f)
  BY <1>1, AssembledSteps DEF AssembledBy
<1>8. ~(\/ a.over \/ ~F.masked \/ F.extra # 0 \/ TypeFromOpcode(F.opcode) \in {"None", "Close"}
        \/ Len(a.data \o Payload(f, F)) > Most)
  <2>1. ~(Len(a.data \o Payload(f, F)) > Most)
    BY <1>3, <1>4, <1>6, ReaderAssumption
  <2> QED
    BY <1>3, <1>4, <2>1
<1>9. Assemble(s, a, f) = a
  BY <1>2, <1>3, <1>8, Zenon DEF Assemble
<1> QED
  BY <1>1, <1>7, <1>9 DEF Fits, Between

(***************************************************************************)
(* What handleFrame is given is the next message.                          *)
(***************************************************************************)
LEMMA FrameHanded ==
    ASSUME NoEmptyFragment,
           NEW s \in Scripts, NEW f \in 1 .. Len(s), NEW r \in Readers, NEW t,
           HasAll(r, f, s[f], t, EndOf(s, f)), IsFrameReady(r),
           NEW d, Fits(s, d, f - 1), Between(s, f - 1)
    PROVE  /\ Fits(s, Append(d, [type |-> r.type, data |-> r.frame.buffer]), f)
           /\ Between(s, f)
<1>1. PICK a : a = Assembled(s)[f - 1]
  OBVIOUS
<1>2. PICK F : F = s[f]
  OBVIOUS
<1>3. /\ F \in PeerFrames /\ F.masked /\ F.extra = 0 /\ F.size \in Nat /\ F.size <= Most
      /\ TypeFromOpcode(F.opcode) = r.type /\ r.type # "None"
      /\ ~IsControlFrameType(r.type) /\ r.frame.buffer = Payload(f, F)
      /\ (r.frame.fin <=> F.fin \/ F.size = 0)
  BY <1>2 DEF HasAll, Known, PeerFrames, IsFrameReady
<1>4. F.fin
  <2>1. F.fin \/ F.size > 0
    BY <1>2, ScriptPlaces DEF NoEmptyFragment, Places
  <2>2. r.frame.fin
    BY DEF IsFrameReady
  <2> QED
    BY <1>3, <2>1, <2>2
<1>5. a.over = FALSE /\ a.data = <<>> /\ a.type = "None"
  BY <1>1 DEF Between
<1>6. f \in Nat /\ EndOf(s, f) \in Nat /\ f - 1 \in 0 .. Len(s)
  BY ScriptPlaces DEF Places
<1>7. PICK data : data = Payload(f, F)
  OBVIOUS
<1>8. data \in Seq(Bytes) /\ Len(data) = F.size /\ a.data \o data = data
  <2>1. Payload(f, F) \in Seq(Bytes) /\ Len(Payload(f, F)) = F.size
    BY <1>3, <1>6, KeyType
  <2> QED
    BY <1>5, <1>7, <2>1, ConcatEmptySeq
<1>9. Assembled(s)[f] = Assemble(s, a, f)
  BY <1>1, AssembledSteps DEF AssembledBy
<1>10. r.type \notin {"Close", "Continue", "Ping", "Pong", "None"}
  BY <1>3 DEF IsControlFrameType
<1>11. ~(\/ a.over \/ ~F.masked \/ F.extra # 0 \/ TypeFromOpcode(F.opcode) \in {"None", "Close"}
         \/ Len(a.data \o Payload(f, F)) > Most)
  <2>1. ~(Len(a.data \o Payload(f, F)) > Most)
    BY <1>3, <1>7, <1>8, ReaderAssumption
  <2> QED
    BY <1>3, <1>5, <1>10, <2>1
<1>12. PICK m : m = [type |-> r.type, data |-> data, end |-> EndOf(s, f)]
  OBVIOUS
<1>13. PICK c : c = Assemble(s, a, f)
  OBVIOUS
<1>14. c = [a EXCEPT !.data = <<>>, !.type = "None", !.done = Append(@, m)]
  <2>1. TypeFromOpcode(F.opcode) \notin {"Ping", "Pong"} /\ TypeFromOpcode(F.opcode) # "Continue"
    BY <1>3, <1>10
  <2>2. m = [type |-> TypeFromOpcode(F.opcode), data |-> a.data \o Payload(f, F),
             end |-> EndOf(s, f)]
    BY <1>3, <1>7, <1>8, <1>12
  <2> QED
    BY <1>2, <1>4, <1>11, <1>13, <2>1, <2>2, Zenon DEF Assemble
<1>15. a \in Accs
  BY <1>1, <1>6, AssembledType
<1>16. c.over = FALSE /\ c.data = <<>> /\ c.type = "None" /\ c.done = Append(a.done, m)
  BY <1>5, <1>14, <1>15 DEF Accs
<1>17. Between(s, f)
  BY <1>9, <1>13, <1>16 DEF Between
<1>18. PICK done : done = a.done
  OBVIOUS
<1>19. /\ d \in Seq(Handed) /\ done \in Seq(Told) /\ Len(d) = Len(done) /\ Len(d) \in Nat
       /\ \A k \in 1 .. Len(d) : d[k].type = done[k].type /\ d[k].data = done[k].data
  <2>1. /\ d \in Seq(Handed) /\ Len(d) = Len(done)
        /\ \A k \in 1 .. Len(d) : d[k].type = done[k].type /\ d[k].data = done[k].data
    BY <1>1, <1>18, Zenon DEF Fits
  <2> QED
    BY <1>15, <1>18, <2>1, LenProperties DEF Accs
<1>20. PICK h : h = [type |-> r.type, data |-> data]
  OBVIOUS
<1>21. h \in Handed /\ m \in Told
  <2>1. r.type \in Types
    BY DEF Readers
  <2> QED
    BY <1>6, <1>8, <1>12, <1>20, <2>1 DEF Handed, Told
<1>22. PICK x, y : x = Append(d, h) /\ y = Append(done, m)
  OBVIOUS
<1>23. /\ x \in Seq(Handed) /\ Len(x) = Len(d) + 1 /\ x[Len(d) + 1] = h
       /\ \A k \in 1 .. Len(d) : x[k] = d[k]
       /\ Len(y) = Len(done) + 1 /\ y[Len(done) + 1] = m
       /\ \A k \in 1 .. Len(done) : y[k] = done[k]
  BY <1>19, <1>21, <1>22, AppendProperties
<1>24. ASSUME NEW k \in 1 .. Len(x)
       PROVE  x[k].type = y[k].type /\ x[k].data = y[k].data
  <2>1. CASE k \in 1 .. Len(d)
    BY <1>19, <1>23, <2>1
  <2>2. CASE k \notin 1 .. Len(d)
    <3>1. k = Len(d) + 1 /\ k = Len(done) + 1
      BY <1>19, <1>23, <2>2
    <3> QED
      BY <1>12, <1>20, <1>23, <3>1
  <2> QED
    BY <2>1, <2>2
<1>25. Len(x) = Len(y)
  BY <1>19, <1>23
<1>26. y = Assembled(s)[f].done
  BY <1>9, <1>13, <1>16, <1>18, <1>22
<1>27. Fits(s, x, f)
  BY <1>23, <1>24, <1>25, <1>26, Zenon DEF Fits
<1>28. x = Append(d, [type |-> r.type, data |-> r.frame.buffer])
  BY <1>3, <1>7, <1>20, <1>22
<1> QED
  BY <1>17, <1>27, <1>28

(***************************************************************************)
(* What the first frames say is the beginning of what all of them say.     *)
(***************************************************************************)
LEMMA FitsWhole ==
    ASSUME NEW s \in Scripts, NEW n \in 0 .. Len(s), NEW d, Fits(s, d, n),
           NEW told, told = MessagesOf[s]
    PROVE  /\ Len(d) <= Len(told)
           /\ \A k \in DOMAIN d : d[k].type = told[k].type /\ d[k].data = told[k].data
           /\ \A k \in DOMAIN told : k > Len(d) => n + 1 \in 1 .. Len(s)
                                                    /\ told[k].end >= EndOf(s, n + 1)
<1>0. Len(s) \in Nat
  BY ScriptPlaces DEF Places
<1>1. PICK z \in n .. Len(s) : z = Len(s)
  BY <1>0
<1>2. told = Assembled(s)[z].done
  BY <1>1 DEF MessagesOf
<1>3. PICK done : done = Assembled(s)[n].done
  OBVIOUS
<1>4. Extends(s, n, z)
  BY DoneExtends
<1>5. /\ Len(done) <= Len(told)
      /\ \A k \in 1 .. Len(done) : told[k] = done[k]
      /\ \A k \in 1 .. Len(told) : k > Len(done) => told[k].end >= EndOf(s, n + 1)
  BY <1>2, <1>3, <1>4, Zenon DEF Extends
<1>6. /\ d \in Seq(Handed) /\ Len(d) = Len(done)
      /\ \A k \in 1 .. Len(d) : d[k].type = done[k].type /\ d[k].data = done[k].data
  BY <1>3, Zenon DEF Fits
<1>7. done \in Seq(Told) /\ told \in Seq(Told) /\ Len(done) \in Nat /\ Len(told) \in Nat
  <2>1. Assembled(s)[n] \in Accs /\ Assembled(s)[z] \in Accs
    BY <1>0, AssembledType
  <2> QED
    BY <1>2, <1>3, <2>1, LenProperties DEF Accs
<1>8. DOMAIN d = 1 .. Len(d) /\ DOMAIN told = 1 .. Len(told)
  BY <1>6, <1>7, LenProperties
<1>9. n = Len(s) => done = told
  BY <1>1, <1>2, <1>3
<1>10. ASSUME NEW k \in 1 .. Len(told), k > Len(d)
       PROVE  n + 1 \in 1 .. Len(s) /\ told[k].end >= EndOf(s, n + 1)
  <2>1. n # Len(s)
    BY <1>6, <1>7, <1>9, <1>10
  <2> QED
    BY <1>0, <1>5, <1>6, <1>10, <2>1
<1> QED
  BY <1>5, <1>6, <1>8, <1>10

----------------------------------------------------------------------------
(* The reading.                                                             *)

\* The loop has not ended.
Reading == pc \in {"begin", "poll", "out", "emptied", "in", "handle"}

\* The reader is at the f-th frame, and handleFrame was given what is before.
AtFrame(f) ==
    /\ ReaderAt(script, reader, f, taken)
    /\ NoEmptyFragment => Fits(script, delivered, f - 1) /\ Between(script, f - 1)

\* Nothing is complete that a round of readSocket would see to.
Settled(r) ==
    ~IsFrameReady(r) /\ ~(IsControlReady(r) /\ r.type \in {"Close", "Ping"})

\* Where the reading is, whatever pieces the stream came in.
ReadInv ==
    /\ script \in Scripts
    /\ sent \in 0 .. Len(Stream) /\ pulled \in 0 .. sent /\ taken \in 0 .. pulled
    /\ reader \in Readers
    /\ Reading => \E f \in 1 .. Len(script) + 1 : AtFrame(f)
    /\ pc = "handle" => IsFrameReady(reader)
    /\ Reading /\ pc # "handle" => Settled(reader)
    /\ pc \in {"begin", "poll", "out", "emptied"} => taken = pulled \/ PreparedBytes(reader) = 0
    /\ NoEmptyFragment => \E n \in 0 .. Len(script) : Fits(script, delivered, n)

\* A step of something else.
Unread ==
    /\ UNCHANGED <<script, inVars>>
    /\ sent' \in sent .. Len(Stream)
    /\ Reading' => Reading
    /\ pc' = "handle" <=> pc = "handle"
    /\ pc' \in {"begin", "poll", "out", "emptied"} => pc \in {"begin", "poll", "out", "emptied"}

(***************************************************************************)
(* What else happens leaves the reading where it is.                       *)
(***************************************************************************)
LEMMA UnreadKeeps ==
    ASSUME ReadInv, Unread
    PROVE  ReadInv'
<1>0. /\ script' = script /\ pulled' = pulled /\ taken' = taken /\ reader' = reader
      /\ delivered' = delivered /\ sent' \in sent .. Len(Stream)
  BY DEF Unread, inVars
<1>1. Stream' = Stream
  BY <1>0 DEF Stream
<1>2. Len(Stream) \in Nat
  BY ScriptPlaces DEF ReadInv, Places, Stream
<1>3. sent' \in 0 .. Len(Stream') /\ pulled' \in 0 .. sent' /\ taken' \in 0 .. pulled'
  BY <1>0, <1>1, <1>2 DEF ReadInv
<1>4. \A f : AtFrame(f)' <=> AtFrame(f)
  BY <1>0 DEF AtFrame
<1>5. /\ Reading' => Reading
      /\ pc' = "handle" <=> pc = "handle"
      /\ pc' \in {"begin", "poll", "out", "emptied"} => pc \in {"begin", "poll", "out", "emptied"}
  BY DEF Unread
<1> QED
  BY <1>0, <1>3, <1>4, <1>5, Zenon DEF ReadInv

(***************************************************************************)
(* The steps that do not read.                                             *)
(***************************************************************************)
LEMMA UnreadActions ==
    ASSUME sent \in 0 .. Len(Stream), Len(Stream) \in Nat,
           \/ Begin \/ PollReturns \/ PollTimeout \/ WriteSocket \/ DropInterest \/ Disable
           \/ Unlist \/ WaitForAll \/ Flush \/ Destroy \/ PeerStep
           \/ \E t \in Tasks : TaskStep(t)
           \/ \E b \in Casters : Cast(b)
           \/ UNCHANGED vars
    PROVE  Unread
<1> USE DEF Unread, Reading
<1>0. sent \in sent .. Len(Stream)
  OBVIOUS
<1>1. CASE PollReturns
  <2>1. pc = "poll" /\ UNCHANGED <<peerVars, inVars>>
    BY <1>1 DEF PollReturns
  <2>2. pc' \in {"out", "in", "poll", "unlist"}
    BY <1>1, ContinueGoes DEF PollReturns, Goto
  <2> QED
    BY <1>0, <2>1, <2>2 DEF peerVars
<1>2. CASE PollTimeout
  <2>1. pc = "poll" /\ UNCHANGED <<peerVars, inVars>> /\ pc' = "unlist"
    BY <1>2 DEF PollTimeout, Leave, Goto
  <2> QED
    BY <1>0, <2>1 DEF peerVars
<1>3. CASE WriteSocket \/ DropInterest
  <2>1. pc \in {"out", "emptied"} /\ UNCHANGED <<peerVars, inVars>>
    BY <1>3 DEF WriteSocket, DropInterest
  <2>2. pc' \in {"out", "emptied", "in", "poll", "unlist"}
    BY <1>3, <2>1, ContinueGoes DEF WriteSocket, DropInterest, EndWrite, Goto
  <2> QED
    BY <1>0, <2>1, <2>2 DEF peerVars
<1>4. CASE Begin \/ Disable \/ Unlist \/ WaitForAll \/ Flush \/ Destroy
  <2>1. UNCHANGED <<peerVars, inVars>>
    BY <1>4 DEF Begin, Disable, Unlist, WaitForAll, Flush, Destroy
  <2>2. /\ pc \in {"begin", "unlist", "wait", "flush", "close"}
        /\ pc' \in {"poll", "unlist", "wait", "drain", "flush", "close", "destroyed"}
        /\ pc' = "poll" => pc = "begin"
    BY <1>4 DEF Begin, Disable, Unlist, WaitForAll, Flush, Destroy, Goto
  <2> QED
    BY <1>0, <2>1, <2>2 DEF peerVars
<1>5. CASE PeerStep
  <2>1. UNCHANGED <<script, inVars, pc>>
    BY <1>5 DEF PeerStep, PeerSends, PeerDrains, PeerLeaves, peerVars
  <2>2. sent' \in sent .. Len(Stream)
    <3>1. CASE PeerSends
      <4>1. PICK n \in PieceEnds \cup {Len(Stream)} : sent < n /\ n <= Len(Stream) /\ sent' = n
        BY <3>1 DEF PeerSends
      <4>2. n \in Nat
        BY ConnectionAssumption
      <4> QED
        BY <4>1, <4>2
    <3>2. CASE PeerDrains \/ PeerLeaves
      BY <1>0, <3>2 DEF PeerDrains, PeerLeaves, peerVars
    <3> QED
      BY <1>5, <3>1, <3>2 DEF PeerStep
  <2> QED
    BY <2>1, <2>2
<1>6. CASE \E t \in Tasks : TaskStep(t)
  <2>1. UNCHANGED <<peerVars, inVars, pc>>
    BY <1>6 DEF TaskStep, StartTask, TaskBeginsWrite, TaskWrites, Terminate, OnPerformed,
                NotifyGroup
  <2> QED
    BY <1>0, <2>1 DEF peerVars
<1>7. CASE \E b \in Casters : Cast(b)
  <2>1. UNCHANGED <<peerVars, inVars, pc>>
    BY <1>7 DEF Cast
  <2> QED
    BY <1>0, <2>1 DEF peerVars
<1>8. CASE UNCHANGED vars
  BY <1>0, <1>8 DEF vars, peerVars
<1> QED
  BY <1>1, <1>2, <1>3, <1>4, <1>5, <1>6, <1>7, <1>8, Zenon

(***************************************************************************)
(* popFrame goes on with the head of a frame.                              *)
(***************************************************************************)
LEMMA PopHead ==
    ASSUME NEW r \in Readers, r.status \in {"Control", "Body"}
    PROVE  PopFrame(r) \in Readers /\ Settled(PopFrame(r))
<1>1. PICK z \in Statuses : z = "Head"
  BY DEF Statuses
<1>2. PICK e \in Seq(Bytes), g \in DataFrames : e = <<>> /\ g = NoFrame
  BY EmptySeq, NoFrameType
<1>3. PICK q : q = PopFrame(r)
  OBVIOUS
<1>4. \/ q = [r EXCEPT !.buffer = e, !.status = z]
      \/ q = [r EXCEPT !.status = z, !.frame = g]
  BY <1>1, <1>2, <1>3 DEF PopFrame
<1>5. q \in Readers /\ q.status = z
  BY <1>4 DEF Readers
<1> QED
  BY <1>1, <1>3, <1>5 DEF Settled, IsFrameReady, IsControlReady

(***************************************************************************)
(* What a reader requires is a number.                                     *)
(***************************************************************************)
LEMMA RequiredType ==
    ASSUME NEW r \in Readers
    PROVE  RequiredBytes(r) \in Nat
<1>1. /\ r.status \in Statuses /\ r.size \in Nat /\ r.frame.offset \in Nat
      /\ Len(r.buffer) \in Nat
  BY LenProperties DEF Readers, DataFrames
<1>2. \A m \in Nat, n \in Nat : Missing(m, n) \in Nat
  BY DEF Missing
<1> QED
  BY <1>1, <1>2 DEF RequiredBytes, Statuses

(***************************************************************************)
(* There is room for no more than the reader requires.                     *)
(***************************************************************************)
LEMMA PreparedType ==
    ASSUME NEW r \in Readers
    PROVE  PreparedBytes(r) \in Nat /\ PreparedBytes(r) <= RequiredBytes(r)
<1>1. PICK n \in Nat, m \in Nat : n = RequiredBytes(r) /\ m = Len(r.buffer)
  <2>1. Len(r.buffer) \in Nat
    BY LenProperties DEF Readers
  <2> QED
    BY <2>1, RequiredType
<1>2. BufferSize \in Nat
  BY ReaderAssumption
<1>3. CASE r.status = "Body" \/ m + n <= BufferSize
  BY <1>1, <1>3 DEF PreparedBytes
<1>4. CASE ~(r.status = "Body" \/ m + n <= BufferSize)
  <2>1. PreparedBytes(r) = IF m < BufferSize THEN BufferSize - m ELSE 0
    BY <1>1, <1>4 DEF PreparedBytes, Missing
  <2> QED
    BY <1>1, <1>2, <1>4, <2>1
<1> QED
  BY <1>3, <1>4

(***************************************************************************)
(* What is offered to the reader is there, and no more than it has room    *)
(* for.                                                                    *)
(***************************************************************************)
LEMMA OfferedType ==
    ASSUME ReadInv
    PROVE  /\ Offered \in Nat /\ Offered <= RequiredBytes(reader)
           /\ Reach \in pulled .. sent /\ taken + Offered <= Reach
           /\ Offered = 0 => PreparedBytes(reader) = 0 \/ Reach = taken
<1>1. /\ PreparedBytes(reader) \in Nat /\ PreparedBytes(reader) <= RequiredBytes(reader)
      /\ RequiredBytes(reader) \in Nat /\ Len(Stream) \in Nat
      /\ sent \in 0 .. Len(Stream) /\ pulled \in 0 .. sent /\ taken \in 0 .. pulled
  BY RequiredType, PreparedType, ScriptPlaces DEF ReadInv, Places, Stream
<1>2. Reach \in pulled .. sent
  BY <1>1 DEF Reach
<1>3. PICK a \in Nat, b \in Nat : a = PreparedBytes(reader) /\ b = Reach - taken
  BY <1>1, <1>2
<1>4. Offered = Min({a, b})
  BY <1>3 DEF Offered
<1>5. Offered \in Nat /\ Offered <= a /\ Offered <= b /\ Offered \in {a, b}
  BY <1>4, MinOfTwo, MinIsOne
<1> QED
  BY <1>1, <1>2, <1>3, <1>5

(***************************************************************************)
(* A round of readSocket takes the reader on, and what is complete is      *)
(* handled or passed by.                                                   *)
(***************************************************************************)
LEMMA ReadSocketStep ==
    ASSUME ReadInv, ReadSocket
    PROVE  ReadInv'
<1>1. /\ pc = "in" /\ script' = script /\ sent' = sent /\ delivered' = delivered
      /\ pulled' = Reach /\ taken' = taken + Offered
  BY DEF ReadSocket, peerVars
<1>2. /\ script \in Scripts /\ sent \in 0 .. Len(Stream) /\ pulled \in 0 .. sent
      /\ taken \in 0 .. pulled /\ reader \in Readers /\ Settled(reader)
      /\ NoEmptyFragment => \E n \in 0 .. Len(script) : Fits(script, delivered, n)
  BY <1>1 DEF ReadInv, Reading
<1>3. PICK f \in 1 .. Len(script) + 1 : AtFrame(f)
  BY <1>1 DEF ReadInv, Reading
<1>4. /\ ReaderAt(script, reader, f, taken)
      /\ NoEmptyFragment => Fits(script, delivered, f - 1) /\ Between(script, f - 1)
  BY <1>3 DEF AtFrame
<1>5. /\ Offered \in Nat /\ Offered <= RequiredBytes(reader)
      /\ Reach \in pulled .. sent /\ taken + Offered <= Reach
      /\ Offered = 0 => PreparedBytes(reader) = 0 \/ Reach = taken
  BY OfferedType
<1>6. Len(Stream) \in Nat /\ Len(script) \in Nat /\ Stream = StreamOf[script]
  BY <1>2, ScriptPlaces DEF Places, Stream
<1>7. Stream' = Stream
  BY <1>1 DEF Stream
<1>8. /\ sent' \in 0 .. Len(Stream') /\ pulled' \in 0 .. sent' /\ taken' \in 0 .. pulled'
      /\ taken' \in Nat /\ taken' <= Len(Stream)
  BY <1>1, <1>2, <1>5, <1>6, <1>7
<1>9. PICK r : r = Saved(Offered)
  OBVIOUS
<1>10. r \in Readers /\ (r.error # "None" \/ ReaderAt(script, r, f, taken'))
  <2>1. CASE Offered > 0
    <3>1. PICK u \in Nat : u = taken + Offered /\ taken < u /\ u <= taken + RequiredBytes(reader)
                           /\ u <= Len(StreamOf[script]) /\ taken \in Nat
      <4>1. RequiredBytes(reader) \in Nat
        BY <1>2, RequiredType
      <4> QED
        BY <1>1, <1>2, <1>5, <1>6, <1>8, <2>1, <4>1
    <3>2. r = Save(reader, SubSeq(StreamOf[script], taken + 1, u))
      BY <1>6, <1>9, <2>1, <3>1, Zenon DEF Saved
    <3>3. r \in Readers /\ (r.error # "None" \/ ReaderAt(script, r, f, u))
      BY <1>2, <1>4, <3>1, <3>2, ReaderReads
    <3> QED
      BY <1>1, <3>1, <3>3
  <2>2. CASE ~(Offered > 0)
    <3>1. r = reader /\ taken' = taken
      BY <1>1, <1>2, <1>5, <1>9, <2>2 DEF Saved
    <3> QED
      BY <1>2, <1>4, <3>1
  <2> QED
    BY <2>1, <2>2
<1> DEFINE lost == peer = "reset" /\ Pulls(PreparedBytes(reader)) /\ Reach = taken
           over == lost \/ r.error # "None"
<1>11. /\ reader' = IF ~over /\ IsControlReady(r) /\ r.type \in {"Close", "Ping"}
                    THEN PopFrame(r) ELSE r
       /\ IF over \/ (IsControlReady(r) /\ r.type = "Close") THEN Leave
          ELSE IF IsFrameReady(r)
          THEN Goto("handle")
          ELSE ReadAgain(Offered)
  BY <1>9, Zenon DEF ReadSocket
<1>12. over \/ r.error = "None"
  OBVIOUS
<1> HIDE DEF over
<1>13. reader' \in Readers
  <2>1. IsControlReady(r) => r.status \in {"Control", "Body"}
    BY DEF IsControlReady
  <2> QED
    BY <1>10, <1>11, <2>1, PopHead
<1>14. CASE over \/ (IsControlReady(r) /\ r.type = "Close")
  <2>1. pc' = "unlist"
    BY <1>11, <1>14 DEF Leave, Goto
  <2> QED
    BY <1>1, <1>2, <1>8, <1>13, <2>1 DEF ReadInv, Reading
<1>15. CASE ~over /\ ~(IsControlReady(r) /\ r.type = "Close") /\ IsFrameReady(r)
  <2>1. pc' = "handle"
    BY <1>11, <1>15 DEF Goto
  <2>2. reader' = r
    BY <1>11, <1>15 DEF IsFrameReady, IsControlReady
  <2>3. ReaderAt(script, r, f, taken')
    BY <1>10, <1>12, <1>15
  <2>4. AtFrame(f)'
    BY <1>1, <1>4, <2>2, <2>3 DEF AtFrame
  <2> QED
    BY <1>1, <1>2, <1>8, <1>13, <1>15, <2>1, <2>2, <2>4 DEF ReadInv, Reading
<1>16. CASE ~over /\ IsControlReady(r) /\ r.type = "Ping"
  <2>1. Offered > 0
    <3> SUFFICES ASSUME ~(Offered > 0) PROVE FALSE
      OBVIOUS
    <3>1. r = reader
      BY <1>9 DEF Saved
    <3> QED
      BY <1>2, <1>16, <3>1 DEF Settled
  <2>2. ~IsFrameReady(r) /\ RequiredBytes(r) = 0 /\ r.status \in {"Control", "Body"}
    BY <1>16 DEF IsFrameReady, IsControlReady
  <2>3. pc' = "in"
    BY <1>1, <1>11, <1>16, <2>1, <2>2 DEF ReadAgain
  <2>4. reader' = PopFrame(r) /\ Settled(reader')
    BY <1>10, <1>11, <1>16, <2>2, PopHead
  <2>5. r.error = "None" /\ ReaderAt(script, r, f, taken')
    BY <1>10, <1>12, <1>16
  <2>6. f \in 1 .. Len(script) /\ HasAll(r, f, script[f], taken', EndOf(script, f))
    BY <1>2, <1>6, <1>8, <2>2, <2>5, ReaderHasAll
  <2>7. ReaderAt(script, reader', f + 1, taken')
    BY <1>2, <1>8, <1>10, <2>4, <2>5, <2>6, ReaderPops
  <2>8. PICK g \in 1 .. Len(script) + 1 : g = f + 1 /\ g - 1 = f
    BY <1>6, <2>6
  <2>9. NoEmptyFragment => Fits(script, delivered, f) /\ Between(script, f)
    BY <1>2, <1>4, <1>10, <1>16, <2>6, PingSkipped
  <2>10. AtFrame(g)'
    BY <1>1, <2>7, <2>8, <2>9 DEF AtFrame
  <2> QED
    BY <1>1, <1>2, <1>8, <1>13, <2>3, <2>4, <2>8, <2>10 DEF ReadInv, Reading
<1>17. CASE ~over /\ ~(IsControlReady(r) /\ r.type \in {"Close", "Ping"}) /\ ~IsFrameReady(r)
  <2>1. reader' = r /\ Settled(r) /\ ReadAgain(Offered)
    BY <1>11, <1>17 DEF Settled
  <2>2. ReaderAt(script, r, f, taken')
    BY <1>10, <1>12, <1>17
  <2>3. AtFrame(f)'
    BY <1>1, <1>4, <2>1, <2>2 DEF AtFrame
  <2>4. pc' \in {"out", "in", "poll", "unlist"}
    BY <1>1, <2>1, ContinueGoes DEF ReadAgain
  <2>5. pc' \in {"begin", "poll", "out", "emptied"} =>
            taken' = pulled' \/ PreparedBytes(reader') = 0
    <3>1. CASE Offered > 0
      BY <1>1, <2>1, <3>1 DEF ReadAgain
    <3>2. CASE ~(Offered > 0)
      <4>1. r = reader /\ Offered = 0
        BY <1>5, <1>9, <3>2 DEF Saved
      <4>2. taken' = taken
        BY <1>1, <1>2, <4>1
      <4> QED
        BY <1>1, <1>5, <2>1, <4>1, <4>2
    <3> QED
      BY <3>1, <3>2
  <2> QED
    BY <1>1, <1>2, <1>8, <1>13, <2>1, <2>3, <2>4, <2>5 DEF ReadInv, Reading
<1> QED
  BY <1>14, <1>15, <1>16, <1>17

(***************************************************************************)
(* handleFrame is given the message at which the reader is.                *)
(***************************************************************************)
LEMMA HandleFrameStep ==
    ASSUME ReadInv, HandleFrame
    PROVE  ReadInv'
<1>1. /\ pc = "handle" /\ script' = script /\ sent' = sent
      /\ pulled' = pulled /\ taken' = taken /\ reader' = PopFrame(reader)
      /\ delivered' = Append(delivered, [type |-> reader.type, data |-> reader.frame.buffer])
  BY DEF HandleFrame, peerVars
<1>2. pc' \in {"in", "unlist"}
  BY DEF HandleFrame, Goto, Leave
<1>3. /\ script \in Scripts /\ sent \in 0 .. Len(Stream) /\ pulled \in 0 .. sent
      /\ taken \in 0 .. pulled /\ reader \in Readers /\ IsFrameReady(reader)
  BY <1>1 DEF ReadInv
<1>4. PICK f \in 1 .. Len(script) + 1 : AtFrame(f)
  BY <1>1 DEF ReadInv, Reading
<1>5. /\ ReaderAt(script, reader, f, taken)
      /\ NoEmptyFragment => Fits(script, delivered, f - 1) /\ Between(script, f - 1)
  BY <1>4 DEF AtFrame
<1>6. Len(Stream) \in Nat /\ Len(script) \in Nat /\ Stream = StreamOf[script] /\ Stream' = Stream
  BY <1>1, <1>3, ScriptPlaces DEF Places, Stream
<1>7. RequiredBytes(reader) = 0 /\ reader.status \in {"Control", "Body"}
  BY <1>3 DEF IsFrameReady
<1>8. taken \in Nat /\ taken <= Len(StreamOf[script])
  BY <1>3, <1>6
<1>9. f \in 1 .. Len(script) /\ HasAll(reader, f, script[f], taken, EndOf(script, f))
  BY <1>3, <1>5, <1>7, <1>8, ReaderHasAll
<1>10. reader.error = "None"
  BY <1>5 DEF ReaderAt
<1>11. ReaderAt(script, reader', f + 1, taken)
  BY <1>1, <1>3, <1>8, <1>9, <1>10, ReaderPops
<1>12. reader' \in Readers /\ Settled(reader')
  BY <1>1, <1>3, <1>7, PopHead
<1>13. NoEmptyFragment => Fits(script, delivered', f) /\ Between(script, f)
  BY <1>1, <1>3, <1>5, <1>9, FrameHanded
<1>14. PICK g \in 1 .. Len(script) + 1 : g = f + 1 /\ g - 1 = f
  BY <1>6, <1>9
<1>15. AtFrame(g)'
  BY <1>1, <1>11, <1>13, <1>14 DEF AtFrame
<1>16. f \in 0 .. Len(script)
  BY <1>6, <1>9
<1> QED
  BY <1>1, <1>2, <1>3, <1>6, <1>12, <1>13, <1>14, <1>15, <1>16 DEF ReadInv, Reading

(***************************************************************************)
(* Every step keeps the reading where it should be.                        *)
(***************************************************************************)
LEMMA ReadInvStep ==
    ASSUME ReadInv, [Next]_vars
    PROVE  ReadInv'
<1>1. /\ sent \in 0 .. Len(Stream) /\ Len(Stream) \in Nat
  BY ScriptPlaces DEF ReadInv, Places, Stream
<1>2. CASE ReadSocket
  BY <1>2, ReadSocketStep
<1>3. CASE HandleFrame
  BY <1>3, HandleFrameStep
<1>4. CASE Drain
  <2>1. /\ script' = script /\ sent' = sent /\ pulled' = sent /\ taken' = sent
        /\ reader' = reader /\ delivered' = delivered /\ pc' = "flush"
    BY <1>4 DEF Drain, peerVars, Goto
  <2>2. Stream' = Stream
    BY <2>1 DEF Stream
  <2>3. sent' \in 0 .. Len(Stream') /\ pulled' \in 0 .. sent' /\ taken' \in 0 .. pulled'
    BY <1>1, <2>1, <2>2
  <2> QED
    BY <2>1, <2>3 DEF ReadInv, Reading
<1>5. CASE \/ Begin \/ PollReturns \/ PollTimeout \/ WriteSocket \/ DropInterest \/ Disable
           \/ Unlist \/ WaitForAll \/ Flush \/ Destroy \/ PeerStep
           \/ \E t \in Tasks : TaskStep(t)
           \/ \E b \in Casters : Cast(b)
           \/ UNCHANGED vars
  BY <1>1, <1>5, UnreadActions, UnreadKeeps
<1> QED
  BY <1>2, <1>3, <1>4, <1>5, Zenon DEF Next, LoopStep

(***************************************************************************)
(* The reading begins at the first frame.                                  *)
(***************************************************************************)
LEMMA ReadInvInit == Init => ReadInv
<1> SUFFICES ASSUME Init PROVE ReadInv
  OBVIOUS
<1>1. /\ script \in Scripts /\ sent = 0 /\ pulled = 0 /\ taken = 0 /\ reader = NewReader
      /\ delivered = <<>> /\ pc = "begin"
  BY DEF Init
<1>2. ReaderAt(script, reader, 1, taken)
  BY <1>1, ReaderBegins
<1>3. Len(script) \in Nat /\ Len(Stream) \in Nat
  BY <1>1, ScriptPlaces DEF Places, Stream
<1>4. PICK f \in 1 .. Len(script) + 1, n \in 0 .. Len(script) : f = 1 /\ n = 0 /\ f - 1 = n
  BY <1>3
<1>5. Fits(script, delivered, n) /\ Between(script, n)
  BY <1>1, <1>4, FitsNothing
<1>6. AtFrame(f)
  BY <1>2, <1>4, <1>5 DEF AtFrame
<1>7. reader \in Readers /\ Settled(reader)
  <2>1. reader \in Readers
    BY <1>2 DEF ReaderAt
  <2>2. reader.status = "Head"
    BY <1>1 DEF NewReader
  <2> QED
    BY <2>1, <2>2 DEF Settled, IsFrameReady, IsControlReady
<1>8. sent \in 0 .. Len(Stream) /\ pulled \in 0 .. sent /\ taken \in 0 .. pulled
  BY <1>1, <1>3
<1> QED
  BY <1>1, <1>5, <1>6, <1>7, <1>8 DEF ReadInv, Reading

(***************************************************************************)
(* However the stream is cut, handleFrame is given the messages of the     *)
(* peer, each with its type and its plain payload, in their order, if no   *)
(* fragment is empty that another follows.                                 *)
(***************************************************************************)
THEOREM DeliveredInOrder ==
    ASSUME NoEmptyFragment
    PROVE  Spec => []DeliveredWhole
<1>1. Init => ReadInv
  BY ReadInvInit
<1>2. ReadInv /\ [Next]_vars => ReadInv'
  BY ReadInvStep
<1>3. ReadInv => DeliveredWhole
  <2> SUFFICES ASSUME ReadInv PROVE DeliveredWhole
    OBVIOUS
  <2>1. PICK n \in 0 .. Len(script) : script \in Scripts /\ Fits(script, delivered, n)
    BY DEF ReadInv
  <2>2. /\ Len(delivered) <= Len(Messages)
        /\ \A k \in DOMAIN delivered :
                delivered[k].type = Messages[k].type /\ delivered[k].data = Messages[k].data
    <3>1. PICK told : told = MessagesOf[script]
      OBVIOUS
    <3>2. /\ Len(delivered) <= Len(told)
          /\ \A k \in DOMAIN delivered :
                delivered[k].type = told[k].type /\ delivered[k].data = told[k].data
      BY <2>1, <3>1, FitsWhole
    <3> QED
      BY <3>1, <3>2, Zenon DEF Messages
  <2> QED
    BY <2>2 DEF DeliveredWhole
<1> QED
  BY <1>1, <1>2, <1>3, PTL DEF Spec

(***************************************************************************)
(* A reader that requires more is before the end of its frame.             *)
(***************************************************************************)
LEMMA ReaderBefore ==
    ASSUME NEW s \in Scripts, NEW r, NEW f \in 1 .. Len(s), NEW t \in Nat,
           ReaderAt(s, r, f, t), t <= Len(StreamOf[s]), RequiredBytes(r) # 0
    PROVE  t < EndOf(s, f)
<1>1. PICK st, b : st = StreamOf[s] /\ b = EndOf(s, f - 1)
  OBVIOUS
<1>2. PICK F : F = s[f]
  OBVIOUS
<1>3. /\ b \in Nat /\ st \in Seq(Bytes) /\ Len(st) \in Nat
      /\ F \in PeerFrames /\ F.size \in Nat /\ EndOf(s, f) = b + SizeOnWire(F)
      /\ EndOf(s, f) \in Nat
  <2>1. Places(s)
    BY ScriptPlaces
  <2> QED
    BY <1>1, <1>2, <2>1 DEF Places, PeerFrames
<1>w. PICK w \in Nat : w = Width(F.size)
  <2>1. Width(F.size) \in {0, 2, 8}
    BY DEF Width
  <2> QED
    BY <2>1
<1>4. EndOf(s, f) >= b + 2 + w + F.size
  <2>1. SizeOnWire(F) \in Nat /\ SizeOnWire(F) >= 2 + w + F.size
    BY <1>3, <1>w, SizeAtLeast, Zenon
  <2> QED
    BY <1>3, <2>1
<1>5. /\ r \in Readers
      /\ \/ InHead(r, st, b, t)
         \/ InFrame(r, f, F, st, b, t)
  BY <1>1, <1>2 DEF ReaderAt
<1>6. CASE InHead(r, st, b, t)
  <2>1. t \in b .. b + 1
    BY <1>6 DEF InHead
  <2> QED
    BY <1>3, <1>4, <1>w, <2>1
<1>7. Known(r, F) => EndOf(s, f) = b + 6 + w + F.size
  <2> SUFFICES ASSUME Known(r, F) PROVE EndOf(s, f) = b + 6 + w + F.size
    OBVIOUS
  <2>1. F.masked
    BY DEF Known
  <2>2. SizeOnWire(F) = 2 + w + 4 + F.size
    BY <1>w, <2>1, Zenon DEF SizeOnWire
  <2> QED
    BY <1>3, <1>w, <2>2
<1>8. CASE Known(r, F) /\ InSize(r, F, st, b, t)
  <2>1. t \in b + 2 .. b + 1 + w
    BY <1>8, <1>w, Zenon DEF InSize
  <2> QED
    <3>1. EndOf(s, f) = b + 6 + w + F.size
      BY <1>7, <1>8, Zenon
    <3> QED
      BY <1>3, <2>1, <3>1
<1>9. CASE Known(r, F) /\ InMask(r, F, st, b, t)
  <2>1. t \in b + 2 + w .. b + 2 + w + 3
    BY <1>9, <1>w, Zenon DEF InMask
  <2> QED
    <3>1. EndOf(s, f) = b + 6 + w + F.size
      BY <1>7, <1>9, Zenon
    <3> QED
      BY <1>3, <2>1, <3>1
<1>10. CASE Known(r, F) /\ InBody(r, f, F, b, t)
  <2>o. PICK o \in Nat : o = r.frame.offset
    BY <1>5 DEF Readers, DataFrames
  <2>1. /\ r.status = "Body" /\ r.size = F.size
        /\ o <= F.size /\ t = b + 6 + w + o
    BY <1>3, <1>10, <1>w, <2>o DEF InBody
  <2>2. RequiredBytes(r) = IF o < F.size THEN F.size - o ELSE 0
    BY <2>1, <2>o DEF RequiredBytes, Missing
  <2> QED
    BY <1>3, <1>7, <1>10, <1>w, <2>1, <2>2
<1>11. CASE Known(r, F) /\ InControl(r, F, st, b, t)
  <2>a. PICK a \in Nat : a = b + 6 + w
    BY <1>3, <1>w
  <2>1. /\ r.status = "Control" /\ r.size = F.size
        /\ t \in a .. a + F.size /\ r.buffer = SubSeq(st, a + 1, t)
    BY <1>11, <1>w, <2>a, Zenon DEF InControl
  <2>2. a <= t /\ t <= Len(st)
    BY <1>1, <1>3, <2>1, <2>a
  <2>3. IsCut(r.buffer, st, a, t)
    BY <1>3, <2>1, <2>2, CutType
  <2>4. Len(r.buffer) = t - a /\ RequiredBytes(r) = Missing(Len(r.buffer), F.size)
    BY <2>1, <2>3 DEF IsCut, RequiredBytes
  <2>5. t < a + F.size
    BY <1>3, <2>2, <2>4 DEF Missing
  <2> QED
    BY <1>3, <1>7, <1>11, <1>w, <2>5, <2>a
<1> QED
  BY <1>5, <1>6, <1>8, <1>9, <1>10, <1>11 DEF InFrame

\* What the peers send are messages in one frame each, pings and close frames,
\* and what ends the reading.
Unfragmented ==
    \A s \in Scripts : \A f \in DOMAIN s :
        s[f].fin /\ TypeFromOpcode(s[f].opcode) \notin {"Continue", "Pong"}

\* The reader has room for every control frame.
ShortControlFrames ==
    \A s \in Scripts : \A f \in DOMAIN s :
        IsControlFrameType(TypeFromOpcode(s[f].opcode)) => s[f].size <= BufferSize

(***************************************************************************)
(* A reader that requires more has room for it, if control frames are      *)
(* short.                                                                  *)
(***************************************************************************)
LEMMA ReaderHasRoom ==
    ASSUME ShortControlFrames,
           NEW s \in Scripts, NEW r \in Readers, NEW f, NEW t \in Nat, ReaderAt(s, r, f, t),
           RequiredBytes(r) # 0
    PROVE  PreparedBytes(r) # 0
<1>1. PICK n \in Nat, m \in Nat : n = RequiredBytes(r) /\ m = Len(r.buffer)
  <2>1. Len(r.buffer) \in Nat
    BY LenProperties DEF Readers
  <2> QED
    BY <2>1, RequiredType
<1>2. BufferSize \in Nat /\ BufferSize >= 8
  BY ReaderAssumption
<1>3. r.status # "Body" => m < BufferSize
  <2>1. CASE r.status \in {"Head", "Size16", "Size64", "Mask"}
    BY <1>1, <1>2, <2>1 DEF RequiredBytes, Missing
  <2>2. CASE r.status = "Control"
    <3>1. f \in 1 .. Len(s) + 1 /\ Places(s)
      BY ScriptPlaces DEF ReaderAt
    <3>2. f \in DOMAIN s /\ s[f].size \in Nat
      <4>1. f <= Len(s)
        BY <2>2 DEF ReaderAt, InHead
      <4>2. f \in 1 .. Len(s) /\ DOMAIN s = 1 .. Len(s)
        BY <3>1, <4>1, LenProperties DEF Places
      <4> QED
        BY <3>1, <4>2 DEF Places, PeerFrames
    <3>3. Known(r, s[f]) /\ IsControlFrameType(r.type) /\ r.size = s[f].size
      BY <2>2, Zenon DEF ReaderAt, InFrame, InHead, InSize, InMask, InBody, InControl
    <3>4. s[f].size <= BufferSize
      BY <3>2, <3>3 DEF ShortControlFrames, Known
    <3> QED
      BY <1>1, <1>2, <2>2, <3>2, <3>3, <3>4 DEF RequiredBytes, Missing
  <2> QED
    BY <2>1, <2>2 DEF Readers, Statuses
<1>4. CASE r.status = "Body" \/ m + n <= BufferSize
  BY <1>1, <1>4 DEF PreparedBytes
<1>5. CASE ~(r.status = "Body" \/ m + n <= BufferSize)
  <2>1. PreparedBytes(r) = IF m < BufferSize THEN BufferSize - m ELSE 0
    BY <1>1, <1>5 DEF PreparedBytes, Missing
  <2> QED
    BY <1>1, <1>2, <1>3, <1>5, <2>1
<1> QED
  BY <1>4, <1>5

(***************************************************************************)
(* A reader that nothing is left to see to requires more.                  *)
(***************************************************************************)
LEMMA SettledRequires ==
    ASSUME Unfragmented,
           NEW s \in Scripts, NEW r \in Readers, NEW f, NEW t \in Nat, ReaderAt(s, r, f, t),
           t <= Len(StreamOf[s]), Settled(r)
    PROVE  RequiredBytes(r) # 0
<1> SUFFICES ASSUME RequiredBytes(r) = 0 PROVE FALSE
  OBVIOUS
<1>1. f \in 1 .. Len(s) /\ HasAll(r, f, s[f], t, EndOf(s, f))
  BY ReaderHasAll
<1>2. PICK F : F = s[f]
  OBVIOUS
<1>3. F.fin /\ TypeFromOpcode(F.opcode) \notin {"Continue", "Pong"}
  BY <1>1, <1>2, ScriptPlaces DEF Unfragmented, Places
<1>4. r.type \notin {"Continue", "Pong"}
  BY <1>1, <1>2, <1>3 DEF HasAll, Known
<1>5. CASE r.status = "Control" /\ IsControlFrameType(r.type)
  BY <1>4, <1>5 DEF IsControlFrameType, Settled, IsControlReady
<1>6. CASE r.status = "Body" /\ (r.frame.fin <=> F.fin \/ F.size = 0)
  BY <1>3, <1>6 DEF Settled, IsFrameReady
<1> QED
  BY <1>1, <1>2, <1>5, <1>6, Zenon DEF HasAll

(***************************************************************************)
(* When the loop goes to poll and the kernel has nothing to report, no     *)
(* complete message is held back, if every message is one frame, no pong   *)
(* comes and no control frame is longer than the reader's buffer.          *)
(***************************************************************************)
THEOREM NoMessageHeldBack ==
    ASSUME Unfragmented, ShortControlFrames
    PROVE  Spec => []NothingHeldBack
<1>0. NoEmptyFragment
  BY DEF Unfragmented, NoEmptyFragment
<1>1. Init => ReadInv
  BY ReadInvInit
<1>2. ReadInv /\ [Next]_vars => ReadInv'
  BY ReadInvStep
<1>3. ReadInv => NothingHeldBack
  <2> SUFFICES ASSUME ReadInv, pc = "poll", sent = pulled,
                      NEW k \in DOMAIN Messages, Messages[k].end <= sent
               PROVE  k <= Len(delivered)
    BY DEF NothingHeldBack
  <2>1. /\ script \in Scripts /\ sent \in 0 .. Len(Stream) /\ taken \in 0 .. pulled
        /\ reader \in Readers /\ Settled(reader)
        /\ taken = pulled \/ PreparedBytes(reader) = 0
    BY DEF ReadInv, Reading
  <2>2. PICK f \in 1 .. Len(script) + 1 : AtFrame(f)
    BY DEF ReadInv, Reading
  <2>3. ReaderAt(script, reader, f, taken) /\ Fits(script, delivered, f - 1)
    BY <1>0, <2>2 DEF AtFrame
  <2>4. /\ Len(Stream) \in Nat /\ Len(script) \in Nat /\ Stream = StreamOf[script]
        /\ taken \in Nat /\ taken <= Len(StreamOf[script])
    BY <2>1, ScriptPlaces DEF Places, Stream
  <2>5. RequiredBytes(reader) # 0
    BY <2>1, <2>3, <2>4, SettledRequires
  <2>6. taken = sent
    <3>1. PreparedBytes(reader) # 0
      BY <2>1, <2>3, <2>4, <2>5, ReaderHasRoom
    <3> QED
      BY <2>1, <3>1
  <2>7. PICK n \in 0 .. Len(script) : n = f - 1 /\ n + 1 = f
    BY <2>4
  <2>8. \A j \in DOMAIN Messages : j > Len(delivered) => n + 1 \in 1 .. Len(script)
                                           /\ Messages[j].end >= EndOf(script, n + 1)
    BY <2>1, <2>3, <2>7, FitsWhole DEF Messages
  <2>9. ASSUME k > Len(delivered)
        PROVE  FALSE
    <3>1. f \in 1 .. Len(script) /\ Messages[k].end >= EndOf(script, f)
      BY <2>7, <2>8, <2>9
    <3>2. taken < EndOf(script, f)
      BY <2>1, <2>3, <2>4, <2>5, <3>1, ReaderBefore
    <3>3. EndOf(script, f) \in Nat /\ Messages[k].end \in Nat
      <4>1. EndOf(script, f) \in Nat
        BY <2>1, <3>1, ScriptPlaces DEF Places
      <4>2. Messages \in Seq(Told)
        BY <2>1, <2>4, AssembledType DEF Messages, MessagesOf, Accs
      <4>3. Messages[k] \in Told
        BY <4>2, ElementOfSeq, LenProperties
      <4> QED
        BY <4>1, <4>3 DEF Told
    <3> QED
      BY <2>1, <2>4, <2>6, <3>1, <3>2, <3>3
  <2>10. k \in Nat /\ Len(delivered) \in Nat
    <3>1. delivered \in Seq(Handed)
      BY <2>3 DEF Fits
    <3>2. Messages \in Seq(Told)
      BY <2>1, <2>4, AssembledType DEF Messages, MessagesOf, Accs
    <3> QED
      BY <3>1, <3>2, LenProperties
  <2> QED
    BY <2>9, <2>10
<1> QED
  BY <1>1, <1>2, <1>3, PTL DEF Spec

----------------------------------------------------------------------------
(* The types.                                                               *)

\* The connection has one place in the manager's list, and what else is the
\* manager's keeps its type.
ListInv ==
    /\ CastInv
    /\ count = IF Listed THEN 1 ELSE 0
    /\ managerMutex \in Casters \cup {Nobody}
    /\ enabled \in [Handlers -> BOOLEAN]
    /\ mailbox \in [Handlers -> Nat]
    /\ made \in [Casters -> 0 .. Broadcasts]

\* The peer and the flags of the connection.
FlagInv ==
    /\ peer \in {"open", "shut", "reset"}
    /\ reqOut \in BOOLEAN /\ fdChanged \in BOOLEAN /\ sendFailed \in BOOLEAN
    /\ registered \in BOOLEAN /\ wakened \in BOOLEAN /\ terminated \in BOOLEAN
    /\ events \subseteq {"out", "in", "hup"}

(***************************************************************************)
(* Every step keeps the types of what is the manager's.                    *)
(***************************************************************************)
LEMMA ListInvStep ==
    ASSUME ListInv, [Next]_vars
    PROVE  ListInv'
<1>0. Self \in Handlers /\ Broadcasts \in Nat
  BY ConnectionAssumption, ManagerAssumption
<1>1. CastInv /\ CastInv'
  BY CastStep DEF ListInv
<1>2. ASSUME Apart
      PROVE  ListInv'
  <2>1. UNCHANGED <<count, managerMutex, enabled, mailbox, made>> /\ Listed' = Listed
    BY <1>2, Zenon DEF Apart, managerVars
  <2>2. count' = IF Listed' THEN 1 ELSE 0
    BY <2>1, Zenon DEF ListInv
  <2>3. managerMutex' \in Casters \cup {Nobody}
    BY <2>1, Zenon DEF ListInv
  <2>4. enabled' \in [Handlers -> BOOLEAN] /\ mailbox' \in [Handlers -> Nat]
    BY <2>1, Zenon DEF ListInv
  <2>5. made' \in [Casters -> 0 .. Broadcasts]
    BY <2>1, Zenon DEF ListInv
  <2> QED
    BY <1>1, <2>2, <2>3, <2>4, <2>5, Zenon DEF ListInv
<1>3. CASE Begin
  <2>1. count = 0 /\ enabled \in [Handlers -> BOOLEAN] /\ mailbox \in [Handlers -> Nat]
    BY <1>3, Zenon DEF ListInv, Listed, Begin
  <2>2. managerMutex \in Casters \cup {Nobody} /\ made \in [Casters -> 0 .. Broadcasts]
    BY DEF ListInv
  <2>3. UNCHANGED <<managerMutex, mailbox, made>>
    BY <1>3 DEF Begin
  <2>4. CASE count' = count + 1 /\ enabled' = [enabled EXCEPT ![Self] = TRUE] /\ pc' = "poll"
    <3>1. enabled' \in [Handlers -> BOOLEAN]
      BY <2>1, <2>4
    <3>2. count' = IF Listed' THEN 1 ELSE 0
      BY <2>1, <2>4 DEF Listed
    <3>3. mailbox' \in [Handlers -> Nat] /\ made' \in [Casters -> 0 .. Broadcasts]
      BY <2>1, <2>2, <2>3, Zenon
    <3>4. managerMutex' \in Casters \cup {Nobody}
      BY <2>2, <2>3, Zenon
    <3> QED
      BY <1>1, <3>1, <3>2, <3>3, <3>4, Zenon DEF ListInv
  <2>5. CASE UNCHANGED <<count, enabled>> /\ pc' = "drain"
    BY <1>1, <2>1, <2>2, <2>3, <2>5 DEF ListInv, Listed
  <2> QED
    BY <1>3, <2>4, <2>5 DEF Begin, AddHandler, Goto
<1>4. CASE Disable
  BY <1>1, <1>4 DEF Disable, ListInv, Listed
<1>5. CASE Unlist
  BY <1>1, <1>5 DEF Unlist, RemoveHandler, ListInv, Listed, Goto
<1>6. CASE Destroy
  BY <1>1, <1>6 DEF Destroy, ListInv, Listed, Goto
<1>7. ASSUME NEW b \in Casters, Cast(b)
      PROVE  ListInv'
  <2> USE DEF Listed
  <2>1. CASE ReceiveBroadcast(b) /\ pc' = pc
    <3>1. made' \in [Casters -> 0 .. Broadcasts]
      BY <1>0, <2>1 DEF ReceiveBroadcast, ListInv
    <3> QED
      BY <1>1, <2>1, <3>1 DEF ReceiveBroadcast, ListInv
  <2>2. CASE TestEnabled(b) /\ pc' = pc
    BY <1>1, <2>2 DEF TestEnabled, ListInv
  <2>3. CASE PutMessage(b) /\ pc' = pc
    <3>1. mailbox' \in [Handlers -> Nat]
      <4>1. PICK h : mailbox' = [mailbox EXCEPT ![h] = @ + 1]
        BY <2>3, Zenon DEF PutMessage
      <4>2. mailbox \in [Handlers -> Nat]
        BY DEF ListInv
      <4>3. \A x \in Handlers : mailbox[x] \in Nat /\ mailbox[x] + 1 \in Nat
        BY <4>2
      <4>4. mailbox' = [x \in Handlers |-> IF x = h THEN mailbox[h] + 1 ELSE mailbox[x]]
        BY <4>1, <4>2, Zenon
      <4>5. \A x \in Handlers : (IF x = h THEN mailbox[h] + 1 ELSE mailbox[x]) \in Nat
        BY <4>3, Zenon
      <4> QED
        BY <4>4, <4>5, Zenon
    <3>2. UNCHANGED <<handlers, count, managerMutex, enabled, made, pc>>
      BY <2>3 DEF PutMessage
    <3> QED
      BY <1>1, <3>1, <3>2 DEF ListInv
  <2>4. CASE EndBroadcast(b) /\ pc' = pc
    BY <1>1, <2>4 DEF EndBroadcast, ListInv
  <2>5. CASE WakeConnection(b) /\ pc' = pc
    BY <1>1, <2>5 DEF WakeConnection, ListInv
  <2> QED
    BY <1>7, <2>1, <2>2, <2>3, <2>4, <2>5 DEF Cast
<1>8. CASE \/ PollReturns \/ PollTimeout \/ WriteSocket \/ DropInterest \/ ReadSocket
           \/ HandleFrame \/ WaitForAll \/ Drain \/ Flush \/ PeerStep
           \/ \E t \in Tasks : TaskStep(t)
           \/ UNCHANGED vars
  BY <1>1, <1>2, <1>8, ApartActions DEF CastInv
<1> QED
  BY <1>3, <1>4, <1>5, <1>6, <1>7, <1>8, Zenon DEF Next, LoopStep

(***************************************************************************)
(* Continue and Leave keep the types of the poll set.                      *)
(***************************************************************************)
LEMMA ContinueType ==
    ASSUME FlagInv, NEW left, left \subseteq {"out", "in", "hup"}, Continue(left) \/ Leave,
           reqOut' \in BOOLEAN
    PROVE  /\ registered' \in BOOLEAN /\ terminated' \in BOOLEAN
           /\ events' \subseteq {"out", "in", "hup"}
<1>1. registered \in BOOLEAN /\ terminated \in BOOLEAN
  BY DEF FlagInv
<1>2. CASE Leave
  BY <1>1, <1>2 DEF Leave
<1>3. CASE Continue(left)
  <2>1. events' \subseteq {"out", "in", "hup"}
    BY <1>3 DEF Continue
  <2>2. terminated' = terminated \/ terminated' = FALSE
    BY <1>3, Zenon DEF Continue
  <2>3. registered' = registered \/ registered' = reqOut'
    BY <1>3, Zenon DEF Continue
  <2> QED
    BY <1>1, <2>1, <2>2, <2>3
<1> QED
  BY <1>2, <1>3

(***************************************************************************)
(* To write a frame keeps the types of the flags.                          *)
(***************************************************************************)
LEMMA WriteFrameFlags ==
    ASSUME FlagInv, NEW e, WriteFrame(e) \/ UNCHANGED outVars
    PROVE  reqOut' \in BOOLEAN /\ fdChanged' \in BOOLEAN /\ sendFailed' \in BOOLEAN
<1>1. /\ reqOut' = TRUE \/ reqOut' = reqOut
      /\ fdChanged' = TRUE \/ fdChanged' = fdChanged
      /\ sendFailed' = TRUE \/ sendFailed' = sendFailed
  BY Zenon DEF WriteFrame, Cache, outVars
<1> QED
  BY <1>1 DEF FlagInv

(***************************************************************************)
(* Every step keeps the types of the flags.                                *)
(***************************************************************************)
LEMMA FlagInvStep ==
    ASSUME FlagInv, [Next]_vars
    PROVE  FlagInv'
<1>0. /\ peer \in {"open", "shut", "reset"}
      /\ reqOut \in BOOLEAN /\ fdChanged \in BOOLEAN /\ sendFailed \in BOOLEAN
      /\ registered \in BOOLEAN /\ wakened \in BOOLEAN /\ terminated \in BOOLEAN
      /\ events \subseteq {"out", "in", "hup"}
  BY DEF FlagInv
<1>1. CASE PollReturns
  <2>1. UNCHANGED <<peerVars, outVars>> /\ wakened' = FALSE
    BY <1>1 DEF PollReturns
  <2>2. /\ registered' \in BOOLEAN /\ terminated' \in BOOLEAN
        /\ events' \subseteq {"out", "in", "hup"}
    <3>1. CASE Continue(Ready)
      <4>1. Ready \subseteq {"out", "in", "hup"} /\ reqOut' \in BOOLEAN
        BY <1>0, <2>1 DEF Ready, outVars
      <4> QED
        BY <3>1, <4>1, ContinueType
    <3>2. CASE events' = {} /\ terminated' = FALSE /\ registered' = registered
      BY <1>0, <3>2
    <3> QED
      BY <1>1, <3>1, <3>2 DEF PollReturns
  <2> QED
    BY <1>0, <2>1, <2>2 DEF FlagInv, peerVars, outVars
<1>2. CASE PollTimeout
  BY <1>0, <1>2 DEF PollTimeout, Leave, FlagInv, peerVars
<1>3. CASE WriteSocket \/ DropInterest
  <2>1. UNCHANGED <<peerVars, wakened>>
    BY <1>3 DEF WriteSocket, DropInterest
  <2>2. /\ reqOut' = reqOut \/ \E empty : reqOut' = ~empty
        /\ fdChanged' = fdChanged \/ fdChanged' = (fdChanged \/ reqOut # reqOut')
    BY <1>3, Zenon DEF WriteSocket, DropInterest, EndWrite, outVars
  <2>3. sendFailed' \in BOOLEAN
    <3>1. sendFailed' = sendFailed
          \/ \E n, fails : WriteSlice(n, fails)
      BY <1>3, Zenon DEF WriteSocket, DropInterest, outVars
    <3> QED
      BY <1>0, <3>1 DEF WriteSlice
  <2>4. reqOut' \in BOOLEAN /\ fdChanged' \in BOOLEAN
    BY <1>0, <2>2
  <2>5. \/ Continue(events \ {"out"}) \/ Leave
        \/ UNCHANGED <<events, registered, terminated>>
    BY <1>3, Zenon DEF WriteSocket, DropInterest, EndWrite
  <2>6. /\ registered' \in BOOLEAN /\ terminated' \in BOOLEAN
        /\ events' \subseteq {"out", "in", "hup"}
    <3>1. events \ {"out"} \subseteq {"out", "in", "hup"}
      BY <1>0
    <3>2. CASE Continue(events \ {"out"}) \/ Leave
      BY <2>4, <3>1, <3>2, ContinueType
    <3>3. CASE UNCHANGED <<events, registered, terminated>>
      BY <1>0, <3>3
    <3> QED
      BY <2>5, <3>2, <3>3
  <2> QED
    BY <1>0, <2>1, <2>3, <2>4, <2>6 DEF FlagInv, peerVars
<1>4. CASE ReadSocket
  <2>1. UNCHANGED <<peerVars, wakened>>
    BY <1>4 DEF ReadSocket
  <2>2. \E e : WriteFrame(e) \/ UNCHANGED outVars
    BY <1>4, Zenon DEF ReadSocket
  <2>3. reqOut' \in BOOLEAN /\ fdChanged' \in BOOLEAN /\ sendFailed' \in BOOLEAN
    BY <2>2, WriteFrameFlags
  <2>4. \/ Continue(events \ {"in"}) \/ Leave
        \/ UNCHANGED <<events, registered, terminated>>
    BY <1>4, Zenon DEF ReadSocket, ReadAgain
  <2>5. /\ registered' \in BOOLEAN /\ terminated' \in BOOLEAN
        /\ events' \subseteq {"out", "in", "hup"}
    <3>1. events \ {"in"} \subseteq {"out", "in", "hup"}
      BY <1>0
    <3>2. CASE Continue(events \ {"in"}) \/ Leave
      BY <2>3, <3>1, <3>2, ContinueType
    <3>3. CASE UNCHANGED <<events, registered, terminated>>
      BY <1>0, <3>3
    <3> QED
      BY <2>4, <3>2, <3>3
  <2> QED
    BY <1>0, <2>1, <2>3, <2>5 DEF FlagInv, peerVars
<1>5. CASE HandleFrame
  <2>1. UNCHANGED <<peerVars, wakened>>
    BY <1>5 DEF HandleFrame
  <2>2. \E e : WriteFrame(e) \/ UNCHANGED outVars
    BY <1>5, Zenon DEF HandleFrame
  <2>3. reqOut' \in BOOLEAN /\ fdChanged' \in BOOLEAN /\ sendFailed' \in BOOLEAN
    BY <2>2, WriteFrameFlags
  <2>4. Leave \/ UNCHANGED <<events, registered, terminated>>
    BY <1>5, Zenon DEF HandleFrame
  <2>5. /\ registered' \in BOOLEAN /\ terminated' \in BOOLEAN
        /\ events' \subseteq {"out", "in", "hup"}
    BY <1>0, <2>4 DEF Leave
  <2> QED
    BY <1>0, <2>1, <2>3, <2>5 DEF FlagInv, peerVars
<1>6. CASE Flush
  <2>1. UNCHANGED <<peerVars, pollVars>> /\ UNCHANGED <<reqOut, fdChanged>>
    BY <1>6 DEF Flush, outVars
  <2>2. sendFailed' \in BOOLEAN
    <3>1. sendFailed' = sendFailed
          \/ \E n, fails : WriteSlice(n, fails)
      BY <1>6, Zenon DEF Flush, outVars
    <3> QED
      BY <1>0, <3>1 DEF WriteSlice
  <2> QED
    BY <1>0, <2>1, <2>2 DEF FlagInv, peerVars, pollVars
<1>7. CASE Begin \/ Disable \/ Unlist \/ WaitForAll \/ Drain \/ Destroy
  <2>1. UNCHANGED <<peerVars, pollVars, reqOut, fdChanged>>
    BY <1>7 DEF Begin, Disable, Unlist, WaitForAll, Drain, Destroy, outVars
  <2>2. sendFailed' = sendFailed \/ sendFailed' = TRUE
    BY <1>7 DEF Begin, Disable, Unlist, WaitForAll, Drain, Destroy, outVars
  <2> QED
    BY <1>0, <2>1, <2>2 DEF FlagInv, peerVars, pollVars
<1>8. CASE PeerStep
  <2>1. UNCHANGED <<pollVars, reqOut, fdChanged, sendFailed>>
    BY <1>8, Zenon DEF PeerStep, PeerSends, PeerDrains, PeerLeaves, outVars
  <2>2. peer' \in {peer, "shut", "reset"}
    BY <1>8, Zenon DEF PeerStep, PeerSends, PeerDrains, PeerLeaves, peerVars
  <2> QED
    BY <1>0, <2>1, <2>2 DEF FlagInv, pollVars
<1>9. ASSUME NEW t \in Tasks, TaskStep(t)
      PROVE  FlagInv'
  <2>1. CASE TaskWrites(t)
    <3>1. UNCHANGED <<peerVars, pollVars>>
      BY <2>1 DEF TaskWrites
    <3>2. \E e : WriteFrame(e) \/ UNCHANGED outVars
      BY <2>1, Zenon DEF TaskWrites
    <3> QED
      BY <1>0, <3>1, <3>2, WriteFrameFlags DEF FlagInv, peerVars, pollVars
  <2>2. CASE StartTask(t) \/ TaskBeginsWrite(t) \/ Terminate(t) \/ OnPerformed(t) \/ NotifyGroup(t)
    BY <1>0, <2>2 DEF StartTask, TaskBeginsWrite, Terminate, OnPerformed, NotifyGroup,
                      FlagInv, peerVars, outVars, pollVars
  <2> QED
    BY <1>9, <2>1, <2>2 DEF TaskStep
<1>10. ASSUME NEW b \in Casters, Cast(b)
       PROVE  FlagInv'
  BY <1>0, <1>10 DEF Cast, FlagInv, peerVars, outVars, pollVars
<1>11. CASE UNCHANGED vars
  BY <1>0, <1>11 DEF vars, FlagInv, peerVars, outVars, pollVars
<1> QED
  BY <1>1, <1>2, <1>3, <1>4, <1>5, <1>6, <1>7, <1>8, <1>9, <1>10, <1>11, Zenon
     DEF Next, LoopStep

(***************************************************************************)
(* Every variable keeps its type: what was sent, pulled and taken are in   *)
(* this order, what is on the way is within the window, the socket took    *)
(* units of frames that were written, and no slot is empty.                *)
(***************************************************************************)
THEOREM TypesHold == Spec => []TypeOK
<1> DEFINE Inv == /\ ListInv /\ FlagInv /\ WriteInv /\ ReadInv
                  /\ TaskInv /\ task \in [Tasks -> TaskSteps]
<1>1. Init => Inv
  <2> SUFFICES ASSUME Init PROVE Inv
    OBVIOUS
  <2>1. ListInv
    <3>1. Broadcasts \in Nat
      BY ManagerAssumption
    <3>2. CastInv
      BY DEF Init, ManagerInit, CastInv, Listed, Steps
    <3> QED
      BY <3>1, <3>2 DEF Init, ManagerInit, ListInv, Listed
  <2>2. FlagInv
    BY DEF Init, FlagInv
  <2>3. TaskInv /\ task \in [Tasks -> TaskSteps]
    BY DEF Init, TaskInv, AllComplete, Steps, TaskSteps
  <2> QED
    BY <2>1, <2>2, <2>3, ReadInvInit, WriteInvInit
<1>2. Inv /\ [Next]_vars => Inv'
  BY ListInvStep, FlagInvStep, WriteInvStep, ReadInvStep, TaskInvStep
<1>3. Inv => TypeOK
  <2> SUFFICES ASSUME Inv PROVE TypeOK
    OBVIOUS
  <2>1. ManagerTypeOK
    <3>1. Self \in Handlers
      BY ConnectionAssumption
    <3>2. <<>> \in Seq(Handlers) /\ <<Self>> \in Seq(Handlers)
      BY <3>1
    <3>3. todo \in [Casters -> Seq(Handlers)]
      BY <3>2 DEF ListInv, CastInv
    <3> QED
      BY <3>2, <3>3 DEF ManagerTypeOK, ListInv, CastInv
  <2>2. \A k \in DOMAIN wire : wire[k] \in Units
    BY ElementOfSeq, LenProperties DEF WriteInv, UnitsInv
  <2>3. \A k \in DOMAIN writer : writer[k].slices # <<>>
    <3>1. \A k \in DOMAIN writer : writer[k] \in Slots
      BY ElementOfSeq, LenProperties DEF WriteInv
    <3> QED
      BY <3>1 DEF Slots
  <2> QED
    BY <2>1, <2>2, <2>3 DEF TypeOK, FlagInv, WriteInv, ReadInv, ListInv, CastInv
<1> QED
  BY <1>1, <1>2, <1>3, PTL DEF Spec
=============================================================================
