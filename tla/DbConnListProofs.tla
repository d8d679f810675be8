-------------------------- MODULE DbConnListProofs --------------------------
(***************************************************************************)
(* Proofs about DbConnList, for every finite set of threads, every set of  *)
(* connections and all limits, with an expiry time or without.             *)
(***************************************************************************)
EXTENDS DbConnList, FiniteSetTheorems, SequenceTheorems, TLAPS

(***************************************************************************)
(* Taking one element out of a sequence makes it shorter by one and moves  *)
(* what stands behind it.                                                  *)
(***************************************************************************)
LEMMA RemoveAtLen ==
    ASSUME NEW S, NEW s \in Seq(S), NEW i \in 1 .. Len(s)
    PROVE  /\ RemoveAt(s, i) \in Seq(S) /\ Len(RemoveAt(s, i)) = Len(s) - 1
           /\ \A j \in 1 .. Len(s) - 1 :
                RemoveAt(s, i)[j] = IF j < i THEN s[j] ELSE s[j + 1]
<1> DEFINE a == SubSeq(s, 1, i - 1)
           b == SubSeq(s, i + 1, Len(s))
<1>1. a \in Seq(S) /\ Len(a) = i - 1 /\ \A j \in 1 .. i - 1 : a[j] = s[j]
  OBVIOUS
<1>2. b \in Seq(S) /\ Len(b) = Len(s) - i /\ \A j \in 1 .. Len(s) - i : b[j] = s[i + j]
  OBVIOUS
<1>3. RemoveAt(s, i) = a \o b
  BY DEF RemoveAt
<1>4. Len(s) \in Nat /\ i \in Nat
  OBVIOUS
<1> HIDE DEF a, b
<1>5. /\ a \o b \in Seq(S) /\ Len(a \o b) = Len(a) + Len(b)
      /\ \A j \in 1 .. Len(a) + Len(b) :
            (a \o b)[j] = IF j <= Len(a) THEN a[j] ELSE b[j - Len(a)]
  BY <1>1, <1>2, ConcatProperties
<1>6. \A j \in 1 .. Len(s) - 1 : (a \o b)[j] = IF j < i THEN s[j] ELSE s[j + 1]
  <2> SUFFICES ASSUME NEW j \in 1 .. Len(s) - 1
               PROVE  (a \o b)[j] = IF j < i THEN s[j] ELSE s[j + 1]
    OBVIOUS
  <2>1. (a \o b)[j] = IF j <= i - 1 THEN a[j] ELSE b[j - (i - 1)]
    BY <1>1, <1>2, <1>4, <1>5
  <2>2. CASE j < i
    BY <1>1, <1>4, <2>1, <2>2
  <2>3. CASE ~(j < i)
    <3>1. j - (i - 1) \in 1 .. Len(s) - i /\ i + (j - (i - 1)) = j + 1
      BY <1>4, <2>3
    <3>2. b[j - (i - 1)] = s[j + 1]
      BY <1>2, <3>1
    <3> QED BY <1>4, <2>1, <2>3, <3>2
  <2> QED BY <2>2, <2>3
<1> QED BY <1>1, <1>2, <1>3, <1>4, <1>5, <1>6

(***************************************************************************)
(* Only the holder of the mutex may be between the push and the counting.  *)
(***************************************************************************)
LEMMA CountingSize ==
    ASSUME TypeOK, Locking
    PROVE  /\ IsFiniteSet(Counting) /\ Cardinality(Counting) \in {0, 1}
           /\ \A u \in Users : lock = u =>
                Cardinality(Counting) = IF pc[u] = "count" THEN 1 ELSE 0
           /\ lock = NoUser => Cardinality(Counting) = 0
<1>1. \A u \in Counting : u \in Users /\ lock = u
  BY DEF Counting, Locking
<1>2. CASE Counting = {}
  <2>1. \A u \in Users : pc[u] # "count"
    BY <1>2 DEF Counting
  <2> QED BY <1>2, <2>1, FS_EmptySet
<1>3. CASE Counting # {}
  <2>1. PICK u \in Users : u \in Counting
    BY <1>3 DEF Counting
  <2>2. Counting = {u} /\ lock = u /\ pc[u] = "count"
    BY <1>1, <2>1 DEF Counting
  <2>3. IsFiniteSet(Counting) /\ Cardinality(Counting) = 1
    BY <2>2, FS_Singleton
  <2> QED BY <2>2, <2>3, UsersAssumption
<1> QED BY <1>2, <1>3

(***************************************************************************)
(* Every variable stays in its set; that the counter never goes below zero *)
(* is the point, and rests on the length of the list.                      *)
(***************************************************************************)
LEMMA TypeStep ==
    ASSUME CountInv, [Next]_vars
    PROVE  TypeOK'
<1> USE DEF TypeOK, At, Goto, Take, Finish, listVars, userVars, handleVars, Steps
<1> TypeOK /\ Locking /\ Carrying /\ CountIsLength
  BY DEF CountInv
<1>1. ASSUME NEW u \in Users, NEW op, LockFor(u, op)
      PROVE  TypeOK'
  BY <1>1 DEF LockFor
<1>2. ASSUME NEW u \in Users, CleanupRemove(u)
      PROVE  TypeOK'
  <2>1. count' \in Nat /\ count' = count - 1
    BY <1>2, LimitsAssumption DEF CleanupRemove
  <2>2. opened' \in Seq(Handles)
    BY <1>2, RemoveAtLen DEF CleanupRemove
  <2>3. opened # <<>> /\ Head(opened) \in Handles
    BY <1>2 DEF CleanupRemove
  <2> QED BY <1>2, <2>1, <2>2, <2>3 DEF CleanupRemove
<1>3. ASSUME NEW u \in Users, CleanupNext(u) \/ CleanupDone(u)
      PROVE  TypeOK'
  BY <1>3 DEF CleanupNext, CleanupDone
<1>4. ASSUME NEW u \in Users, PopValid(u) \/ PopInvalid(u)
      PROVE  TypeOK'
  <2>1. pc[u] = "pop" /\ opened # <<>>
    BY <1>4 DEF PopValid, PopInvalid
  <2>2. Head(opened) \in Handles /\ Tail(opened) \in Seq(Handles) /\ Len(opened) > 0
    BY <2>1
  <2>3. Cardinality(Counting) = 0
    BY <2>1, CountingSize DEF Locking
  <2>4. count > 0
    BY <2>2, <2>3 DEF CountIsLength
  <2>5. count' \in Nat
    BY <1>4, <2>4 DEF PopValid, PopInvalid
  <2>6. CASE PopValid(u)
    BY <2>2, <2>5, <2>6 DEF PopValid
  <2>7. CASE PopInvalid(u)
    BY <2>2, <2>5, <2>7 DEF PopInvalid
  <2> QED BY <1>4, <2>6, <2>7
<1>5. ASSUME NEW u \in Users, PopNothing(u)
      PROVE  TypeOK'
  BY <1>5 DEF PopNothing
<1>6. ASSUME NEW u \in Users, Connect(u)
      PROVE  TypeOK'
  BY <1>6 DEF Connect
<1>7. ASSUME NEW u \in Users, OpenConnection(u)
      PROVE  TypeOK'
  <2>1. handle[u] \in Handles
    BY <1>7 DEF OpenConnection, Carrying
  <2> QED BY <1>7, <2>1 DEF OpenConnection
<1>8. ASSUME NEW u \in Users, NEW h \in Handles, CloseFinish(u, h) \/ ClosePass(u, h)
      PROVE  TypeOK'
  BY <1>8 DEF CloseFinish, ClosePass
<1>9. ASSUME NEW u \in Users, Push(u)
      PROVE  TypeOK'
  <2>1. handle[u] \in Handles
    BY <1>9 DEF Push, Carrying
  <2>2. <<handle[u]>> \in Seq(Handles)
    BY <2>1
  <2>3. <<handle[u]>> \o opened \in Seq(Handles)
    BY <2>2, ConcatProperties
  <2> QED BY <1>9, <2>3 DEF Push
<1>10. ASSUME NEW u \in Users, Count(u)
      PROVE  TypeOK'
  BY <1>10 DEF Count
<1>11. ASSUME NEW h \in Handles, Expire(h) \/ Lose(h)
      PROVE  TypeOK'
  BY <1>11 DEF Expire, Lose
<1>12. CASE UNCHANGED vars
  BY <1>12 DEF vars
<1> QED
  BY <1>1, <1>2, <1>3, <1>4, <1>5, <1>6, <1>7, <1>8, <1>9, <1>10, <1>11, <1>12
     DEF Next, UserStep, Open, CloseLock

(***************************************************************************)
(* The steps that hold the mutex are those of the thread that took it, and *)
(* whoever is in the middle of close has a connection in hand.             *)
(***************************************************************************)
LEMMA LockStep ==
    ASSUME CountInv, [Next]_vars
    PROVE  Locking' /\ Carrying'
<1> USE DEF TypeOK, At, Goto, Take, listVars, userVars, Locking, Carrying
<1> TypeOK /\ Locking /\ Carrying
  BY DEF CountInv
<1>1. ASSUME NEW u \in Users, Open(u)
      PROVE  Locking' /\ Carrying'
  BY <1>1, UsersAssumption DEF Open, LockFor
<1>2. ASSUME NEW u \in Users, CloseLock(u)
      PROVE  Locking' /\ Carrying'
  BY <1>2, UsersAssumption DEF CloseLock, LockFor
<1>3. ASSUME NEW u \in Users, CleanupRemove(u) \/ CleanupNext(u) \/ CleanupDone(u)
      PROVE  Locking' /\ Carrying'
  BY <1>3 DEF CleanupRemove, CleanupNext, CleanupDone, InCleanup
<1>4. ASSUME NEW u \in Users, PopValid(u) \/ PopInvalid(u) \/ PopNothing(u)
      PROVE  Locking' /\ Carrying'
  <2>1. opened # <<>> => Head(opened) \in Handles
    OBVIOUS
  <2> QED BY <1>4, <2>1, UsersAssumption DEF PopValid, PopInvalid, PopNothing
<1>5. ASSUME NEW u \in Users, Connect(u) \/ OpenConnection(u)
      PROVE  Locking' /\ Carrying'
  BY <1>5 DEF Connect, OpenConnection
<1>6. ASSUME NEW u \in Users, NEW h \in Handles, CloseFinish(u, h) \/ ClosePass(u, h)
      PROVE  Locking' /\ Carrying'
  BY <1>6 DEF CloseFinish, ClosePass
<1>7. ASSUME NEW u \in Users, Push(u) \/ Count(u)
      PROVE  Locking' /\ Carrying'
  BY <1>7, UsersAssumption DEF Push, Count
<1>8. ASSUME NEW h \in Handles, Expire(h) \/ Lose(h)
      PROVE  Locking' /\ Carrying'
  BY <1>8 DEF Expire, Lose
<1>9. CASE UNCHANGED vars
  BY <1>9 DEF vars
<1> QED
  BY <1>1, <1>2, <1>3, <1>4, <1>5, <1>6, <1>7, <1>8, <1>9 DEF Next, UserStep

(***************************************************************************)
(* At most the threads can have passed the test.                           *)
(***************************************************************************)
LEMMA PassedSize ==
    /\ IsFiniteSet(Passed)
    /\ Cardinality(Passed) \in Nat
    /\ Cardinality(Passed) <= Cardinality(Users)
    /\ Cardinality(Users) \in Nat
<1>1. Passed \in SUBSET Users
  BY DEF Passed
<1> QED BY <1>1, UsersAssumption, FS_Subset, FS_CardinalityType

(***************************************************************************)
(* What a step other than the push and the counting does to the list, to   *)
(* the counter and to the threads that have passed the test.               *)
(***************************************************************************)
LEMMA ListStep ==
    ASSUME CountInv, [Next]_vars,
           ~ \E u \in Users : Push(u) \/ Count(u)
    PROVE  /\ Counting' = Counting
           /\ \/ /\ count' = count /\ opened' = opened
                 /\ Passed' = Passed \/ \E u \in Users, h \in Handles : ClosePass(u, h)
              \/ count' = count - 1 /\ Len(opened') = Len(opened) - 1 /\ Passed' = Passed
<1> USE DEF At, Goto, Take, Finish, listVars, userVars, Counting, Passed
<1> TypeOK
  BY DEF CountInv
<1> pc \in [Users -> Steps] /\ opened \in Seq(Handles)
  BY DEF TypeOK
<1> DEFINE Goal == /\ Counting' = Counting
                   /\ \/ /\ count' = count /\ opened' = opened
                         /\ \/ Passed' = Passed
                            \/ \E u \in Users, h \in Handles : ClosePass(u, h)
                      \/ count' = count - 1 /\ Len(opened') = Len(opened) - 1
                         /\ Passed' = Passed
<1>1. ASSUME NEW u \in Users, Open(u) \/ CloseLock(u)
      PROVE  Goal
  BY <1>1 DEF Open, CloseLock, LockFor
<1>2. ASSUME NEW u \in Users, CleanupRemove(u)
      PROVE  Goal
  <2>1. target \in 1 .. Len(opened)
    BY <1>2 DEF CleanupRemove, TypeOK
  <2>2. Len(opened') = Len(opened) - 1
    BY <1>2, <2>1, RemoveAtLen DEF CleanupRemove
  <2> QED BY <1>2, <2>2 DEF CleanupRemove
<1>3. ASSUME NEW u \in Users, CleanupNext(u) \/ CleanupDone(u)
      PROVE  Goal
  BY <1>3 DEF CleanupNext, CleanupDone, InCleanup
<1>4. ASSUME NEW u \in Users, PopValid(u) \/ PopInvalid(u)
      PROVE  Goal
  <2>1. opened # <<>> /\ opened' = Tail(opened) /\ count' = count - 1
    BY <1>4 DEF PopValid, PopInvalid
  <2>2. Len(opened') = Len(opened) - 1
    BY <2>1, HeadTailProperties
  <2>3. Counting' = Counting /\ Passed' = Passed
    BY <1>4 DEF PopValid, PopInvalid
  <2> QED BY <2>1, <2>2, <2>3
<1>5. ASSUME NEW u \in Users, PopNothing(u) \/ Connect(u) \/ OpenConnection(u)
      PROVE  Goal
  BY <1>5 DEF PopNothing, Connect, OpenConnection
<1>6. ASSUME NEW u \in Users, NEW h \in Handles, CloseFinish(u, h)
      PROVE  Goal
  BY <1>6 DEF CloseFinish
<1>7. ASSUME NEW u \in Users, NEW h \in Handles, ClosePass(u, h)
      PROVE  Goal
  <2>1. count' = count /\ opened' = opened /\ Counting' = Counting
    BY <1>7 DEF ClosePass
  <2> QED BY <1>7, <2>1
<1>8. ASSUME NEW h \in Handles, Expire(h) \/ Lose(h)
      PROVE  Goal
  BY <1>8 DEF Expire, Lose
<1>9. ASSUME UNCHANGED vars
      PROVE  Goal
  BY <1>9 DEF vars
<1> HIDE DEF Goal
<1>10. Goal
  BY <1>1, <1>2, <1>3, <1>4, <1>5, <1>6, <1>7, <1>8, <1>9 DEF Next, UserStep
<1> QED BY <1>10 DEF Goal

(***************************************************************************)
(* The counter follows the list.                                           *)
(***************************************************************************)
LEMMA CountStep ==
    ASSUME CountInv, [Next]_vars
    PROVE  CountIsLength'
<1> TypeOK /\ Locking /\ Carrying /\ CountIsLength
  BY DEF CountInv
<1>1. IsFiniteSet(Counting) /\ Cardinality(Counting) \in {0, 1}
  BY CountingSize
<1>2. count \in Nat /\ opened \in Seq(Handles) /\ Len(opened) \in Nat
  BY DEF TypeOK
<1>3. ASSUME NEW u \in Users, Push(u)
      PROVE  CountIsLength'
  <2>1. pc[u] = "push" /\ lock = u /\ handle[u] \in Handles
    BY <1>3 DEF Push, At, Locking, Carrying
  <2>2. Cardinality(Counting) = 0
    BY <2>1, CountingSize
  <2>3. u \notin Counting /\ Counting' = Counting \cup {u}
    BY <1>3, <2>1 DEF Push, Goto, Counting, TypeOK
  <2>4. Cardinality(Counting') = 1
    BY <1>1, <2>2, <2>3, FS_AddElement
  <2>5. <<handle[u]>> \in Seq(Handles) /\ Len(<<handle[u]>>) = 1
    BY <2>1
  <2>6. Len(opened') = 1 + Len(opened)
    BY <1>2, <1>3, <2>5, ConcatProperties DEF Push
  <2>7. count' = count
    BY <1>3 DEF Push
  <2> QED BY <1>2, <2>2, <2>4, <2>6, <2>7 DEF CountIsLength
<1>4. ASSUME NEW u \in Users, Count(u)
      PROVE  CountIsLength'
  <2>1. pc[u] = "count" /\ lock = u
    BY <1>4 DEF Count, At, Locking
  <2>2. Cardinality(Counting) = 1
    BY <2>1, CountingSize
  <2>3. u \in Counting /\ Counting' = Counting \ {u}
    BY <1>4, <2>1 DEF Count, Goto, Counting, TypeOK
  <2>4. Cardinality(Counting') = 0
    BY <1>1, <2>2, <2>3, FS_RemoveElement
  <2>5. opened' = opened /\ count' = count + 1
    BY <1>4 DEF Count
  <2> QED BY <1>2, <2>2, <2>4, <2>5 DEF CountIsLength
<1>5. CASE ~ \E u \in Users : Push(u) \/ Count(u)
  <2>1. /\ Counting' = Counting
        /\ \/ count' = count /\ opened' = opened
           \/ count' = count - 1 /\ Len(opened') = Len(opened) - 1
    BY <1>5, ListStep
  <2> QED BY <1>1, <1>2, <2>1 DEF CountIsLength
<1> QED BY <1>3, <1>4, <1>5

(***************************************************************************)
(* Whoever passes the test of nmax finds the counter below it, and the     *)
(* others who have passed are at most all the other threads.               *)
(***************************************************************************)
LEMMA PressureStep ==
    ASSUME CountInv, [Next]_vars, CountIsLength', TypeOK'
    PROVE  Pressure'
<1> TypeOK /\ Locking /\ Carrying /\ CountIsLength /\ Pressure
  BY DEF CountInv
<1>1. count \in Nat /\ NMax \in Nat /\ count' \in Nat /\ pc \in [Users -> Steps]
  BY LimitsAssumption DEF TypeOK
<1> DEFINE p == Cardinality(Passed)
           p1 == Cardinality(Passed')
           all == Cardinality(Users)
<1>2. /\ IsFiniteSet(Passed) /\ p \in Nat /\ all \in Nat /\ p <= all
      /\ IsFiniteSet(Passed') /\ p1 \in Nat /\ p1 <= all
  <2>1. Passed' \in SUBSET Users
    BY DEF Passed
  <2> QED BY <2>1, PassedSize, UsersAssumption, FS_Subset, FS_CardinalityType
<1>3. count + p <= NMax + all - 1
  BY DEF Pressure
<1>4. SUFFICES count' + p1 <= NMax + all - 1
  BY DEF Pressure
<1>5. CASE Passed' = Passed /\ (count' = count \/ count' = count - 1)
  BY <1>1, <1>2, <1>3, <1>5
<1>6. ASSUME NEW u \in Users, NEW h \in Handles, ClosePass(u, h)
      PROVE  count' + p1 <= NMax + all - 1
  <2>1. count' = count /\ ~(count >= NMax)
    BY <1>6 DEF ClosePass, Full, listVars
  <2> QED BY <1>1, <1>2, <2>1
<1>7. ASSUME NEW u \in Users, Count(u)
      PROVE  count' + p1 <= NMax + all - 1
  <2>1. u \in Passed /\ Passed' = Passed \ {u} /\ count' = count + 1
    BY <1>1, <1>7 DEF Count, At, Goto, Passed
  <2>2. p1 = p - 1
    BY <1>2, <2>1, FS_RemoveElement
  <2> QED BY <1>1, <1>2, <1>3, <2>1, <2>2
<1>8. ASSUME NEW u \in Users, Push(u)
      PROVE  Passed' = Passed /\ count' = count
  BY <1>1, <1>8 DEF Push, At, Goto, Passed
<1>9. CASE /\ ~ \E u \in Users : Push(u) \/ Count(u)
           /\ ~ \E u \in Users, h \in Handles : ClosePass(u, h)
  BY <1>5, <1>9, ListStep
<1> QED BY <1>5, <1>6, <1>7, <1>8, <1>9

----------------------------------------------------------------------------
(***************************************************************************)
(* The list is empty and nobody is inside at the beginning.                *)
(***************************************************************************)
LEMMA InitCount ==
    ASSUME Init
    PROVE  CountInv
<1>1. TypeOK
  BY DEF Init, TypeOK, Steps
<1>2. Locking /\ Carrying
  BY UsersAssumption DEF Init, Locking, Carrying
<1>3. Counting = {} /\ Passed = {}
  BY DEF Init, Counting, Passed
<1>4. Len(opened) = 0 /\ count = 0
  BY DEF Init
<1>5. Cardinality(Users) \in Nat /\ NMax \in Nat \ {0}
  BY UsersAssumption, LimitsAssumption, FS_CardinalityType
<1>6. CountIsLength /\ Pressure
  BY <1>3, <1>4, <1>5, FS_EmptySet DEF CountIsLength, Pressure
<1> QED BY <1>1, <1>2, <1>6 DEF CountInv

(***************************************************************************)
(* Every step keeps the counts.                                            *)
(***************************************************************************)
LEMMA NextCount ==
    ASSUME CountInv, [Next]_vars
    PROVE  CountInv'
<1>1. TypeOK' /\ Locking' /\ Carrying' /\ CountIsLength'
  BY TypeStep, LockStep, CountStep
<1>2. Pressure'
  BY <1>1, PressureStep
<1> QED BY <1>1, <1>2 DEF CountInv

(***************************************************************************)
(* The invariant, for every finite set of threads.                         *)
(***************************************************************************)
THEOREM CountInvariance == Spec => []CountInv
BY InitCount, NextCount, PTL DEF Spec

(***************************************************************************)
(* Types: the counter, an unsigned word in the code, never wraps.          *)
(***************************************************************************)
THEOREM ConnTypeCorrect == Spec => []TypeOK
<1>1. CountInv => TypeOK
  BY DEF CountInv
<1> QED BY <1>1, CountInvariance, PTL

(***************************************************************************)
(* count is the length of the list, but for the thread that has pushed and *)
(* not counted yet.                                                        *)
(***************************************************************************)
THEOREM CountFollowsList == Spec => []CountIsLength
<1>1. CountInv => CountIsLength
  BY DEF CountInv
<1> QED BY <1>1, CountInvariance, PTL

(***************************************************************************)
(* The test of nmax outside the mutex lets the list pass it by at most one *)
(* connection for every other thread.                                      *)
(***************************************************************************)
THEOREM ListBounded == Spec => []Bounded
<1>1. CountInv => Bounded
  <2> SUFFICES ASSUME CountInv PROVE Bounded
    OBVIOUS
  <2>1. TypeOK /\ Locking /\ CountIsLength /\ Pressure
    BY DEF CountInv
  <2>2. Counting \in SUBSET Passed
    BY DEF Counting, Passed
  <2>3. Cardinality(Counting) <= Cardinality(Passed)
    BY <2>2, PassedSize, FS_Subset
  <2>4. /\ count \in Nat /\ Len(opened) \in Nat /\ NMax \in Nat
        /\ Cardinality(Counting) \in Nat
    BY <2>1, CountingSize, LimitsAssumption DEF TypeOK
  <2> QED BY <2>1, <2>3, <2>4, PassedSize DEF CountIsLength, Pressure, Bounded
<1> QED BY <1>1, CountInvariance, PTL

----------------------------------------------------------------------------
(***************************************************************************)
(* A step that leaves the list alone and takes no thread further inside    *)
(* open and close breaks nothing: the clock only goes forward.             *)
(***************************************************************************)
LEMMA AloneSwept ==
    ASSUME Swept, CleanupInList,
           UNCHANGED <<opened, count, target>>, expired \subseteq expired',
           \A u \in Users : pc'[u] = pc[u]
             \/ pc'[u] \notin {"openCleanup", "pop", "closeCleanup", "push", "count"}
    PROVE  Swept' /\ CleanupInList'
BY DEF Swept, CleanupInList, ExpiredFrom, InCleanup

(***************************************************************************)
(* Each step keeps cleanup in the list.  When it takes out a connection    *)
(* that is not the first, only one was to be removed.                      *)
(***************************************************************************)
LEMMA SweptStep ==
    ASSUME SweptInv, [Next]_vars
    PROVE  Swept' /\ CleanupInList'
<1> CountInv /\ Swept /\ CleanupInList
  BY DEF SweptInv
<1> TypeOK /\ Locking /\ Carrying /\ CountIsLength
  BY DEF CountInv
<1>1. /\ opened \in Seq(Handles) /\ Len(opened) \in Nat /\ count \in Nat
      /\ target \in Nat \ {0} /\ pc \in [Users -> Steps] /\ NKeep \in Nat \ {0}
  BY LimitsAssumption DEF TypeOK
<1>2. \A u \in Users : lock = u /\ pc[u] # "count" => Len(opened) = count
  BY <1>1, CountingSize DEF CountIsLength
<1>3. ASSUME NEW u \in Users, Open(u) \/ CloseLock(u)
      PROVE  Swept' /\ CleanupInList'
  <2>1. /\ lock = NoUser /\ target' = 1 /\ UNCHANGED <<opened, count, expired>>
        /\ \E s \in {"openCleanup", "closeCleanup"} : pc' = [pc EXCEPT ![u] = s]
    BY <1>3 DEF Open, CloseLock, LockFor, Goto, handleVars
  <2>2. Len(opened) = count
    BY <1>1, <2>1, CountingSize DEF CountIsLength
  <2>3. \A v \in Users :
          pc'[v] \in {"openCleanup", "pop", "closeCleanup", "push", "count"} =>
            v = u /\ pc'[v] \in {"openCleanup", "closeCleanup"}
    BY <1>1, <2>1, UsersAssumption DEF Locking
  <2>4. Swept'
    BY <1>1, <2>1, <2>3 DEF Swept, ExpiredFrom, InCleanup
  <2>5. CleanupInList'
    BY <1>1, <2>1, <2>2 DEF CleanupInList, InCleanup
  <2> QED BY <2>4, <2>5
<1>4. ASSUME NEW u \in Users, CleanupRemove(u)
      PROVE  Swept' /\ CleanupInList'
  <2>1. /\ Expires /\ target <= Len(opened) /\ opened[target] \notin expired
        /\ opened' = RemoveAt(opened, target) /\ count' = count - 1
        /\ UNCHANGED <<target, pc, expired>> /\ InCleanup(u) /\ count > NKeep
    BY <1>4 DEF CleanupRemove, Doomed, userVars
  <2>2. lock = u /\ Len(opened) = count
    BY <1>2, <2>1 DEF Locking, InCleanup
  <2>3. \A v \in Users :
          pc[v] \in {"openCleanup", "pop", "closeCleanup", "push", "count"} => v = u
    BY <2>2 DEF Locking
  <2>4. target \in 1 .. Len(opened)
    BY <1>1, <2>1
  <2>5. /\ Len(opened') = Len(opened) - 1
        /\ \A j \in 1 .. Len(opened) - 1 :
             opened'[j] = IF j < target THEN opened[j] ELSE opened[j + 1]
    BY <1>1, <2>1, <2>4, RemoveAtLen
  <2>6. CASE target = 1
    <3>1. count' <= NKeep + 1 \/ ExpiredFrom(2)'
      <4>1. count <= NKeep + 1 \/ ExpiredFrom(2)
        BY <2>1 DEF Swept
      <4>2. ASSUME ExpiredFrom(2), NEW i \in 1 .. Len(opened'), i >= 2
            PROVE  opened'[i] \in expired'
        <5>1. i \in 1 .. Len(opened) - 1 /\ i + 1 \in 1 .. Len(opened) /\ i + 1 >= 2
          BY <1>1, <2>5, <4>2
        <5>2. opened'[i] = opened[i + 1]
          BY <1>1, <2>5, <2>6, <5>1
        <5> QED BY <2>1, <4>2, <5>1, <5>2 DEF ExpiredFrom
      <4> QED BY <1>1, <2>1, <4>1, <4>2 DEF ExpiredFrom
    <3>2. Swept'
      BY <1>1, <2>1, <2>3, <2>6, <3>1 DEF Swept, InCleanup
    <3>3. CleanupInList'
      BY <1>1, <2>1, <2>2, <2>5, <2>6 DEF CleanupInList
    <3> QED BY <3>2, <3>3
  <2>7. CASE target # 1
    <3>1. ~ExpiredFrom(2)
      BY <1>1, <2>1, <2>4, <2>7 DEF ExpiredFrom
    <3>2. count' <= NKeep
      BY <1>1, <2>1, <3>1 DEF Swept
    <3>3. \A i \in 1 .. Len(opened') : i < target' => opened'[i] \in expired'
      <4> SUFFICES ASSUME NEW i \in 1 .. Len(opened'), i < target'
                   PROVE  opened'[i] \in expired'
        OBVIOUS
      <4>1. i \in 1 .. Len(opened) - 1 /\ i \in 1 .. Len(opened) /\ i < target
        BY <1>1, <2>1, <2>5
      <4>2. opened'[i] = opened[i]
        BY <2>5, <4>1
      <4> QED BY <2>1, <4>1, <4>2 DEF Swept
    <3>4. Swept'
      BY <1>1, <2>1, <2>3, <3>2, <3>3 DEF Swept, InCleanup
    <3>5. CleanupInList'
      BY <1>1, <2>1, <3>2 DEF CleanupInList
    <3> QED BY <3>4, <3>5
  <2> QED BY <2>6, <2>7
<1>5. ASSUME NEW u \in Users, CleanupNext(u)
      PROVE  Swept' /\ CleanupInList'
  <2>1. /\ target < Len(opened) /\ (Expires => opened[target] \in expired)
        /\ UNCHANGED <<opened, count, pc, expired>> /\ target' = target + 1
    BY <1>5 DEF CleanupNext, Doomed, userVars, handleVars
  <2>2. Swept'
    BY <1>1, <2>1 DEF Swept, ExpiredFrom, InCleanup
  <2>3. CleanupInList'
    BY <1>1, <2>1 DEF CleanupInList
  <2> QED BY <2>2, <2>3
<1>6. ASSUME NEW u \in Users, CleanupDone(u)
      PROVE  Swept' /\ CleanupInList'
  <2>1. /\ InCleanup(u) /\ UNCHANGED <<opened, count, target, expired>>
        /\ \/ count <= NKeep
           \/ target = Len(opened) /\ (Expires => opened[target] \in expired)
        /\ \E s \in {"pop", "push"} : pc' = [pc EXCEPT ![u] = s]
    BY <1>6 DEF CleanupDone, Doomed, Goto, listVars, handleVars
  <2>2. \A v \in Users :
          pc[v] \in {"openCleanup", "pop", "closeCleanup", "push", "count"} => v = u
    BY <2>1 DEF Locking, InCleanup
  <2>3. Expires => count <= NKeep \/ ExpiredFrom(1)
    BY <1>1, <2>1 DEF Swept, ExpiredFrom
  <2>4. \A v \in Users : pc'[v] \in {"openCleanup", "closeCleanup", "count"} => FALSE
    BY <1>1, <2>1, <2>2
  <2>5. Swept'
    BY <1>1, <2>1, <2>3, <2>4 DEF Swept, ExpiredFrom, InCleanup
  <2>6. CleanupInList'
    BY <2>4 DEF CleanupInList, InCleanup
  <2> QED BY <2>5, <2>6
<1>7. ASSUME NEW u \in Users, PopValid(u) \/ PopInvalid(u)
      PROVE  Swept' /\ CleanupInList'
  <2>1. /\ pc[u] = "pop" /\ opened # <<>> /\ opened' = Tail(opened) /\ count' = count - 1
        /\ UNCHANGED <<target, expired>>
        /\ pc' = pc \/ pc' = [pc EXCEPT ![u] = "check"]
    BY <1>7 DEF PopValid, PopInvalid, At, Goto, userVars, handleVars
  <2>2. \A v \in Users :
          pc'[v] \in {"openCleanup", "pop", "closeCleanup", "push", "count"} =>
            v = u /\ pc'[v] = "pop"
    BY <1>1, <2>1 DEF Locking
  <2>3. /\ Len(opened') = Len(opened) - 1
        /\ \A i \in 1 .. Len(opened') : opened'[i] = opened[i + 1]
    BY <1>1, <2>1, HeadTailProperties
  <2>4. Expires => count' <= NKeep \/ ExpiredFrom(1)'
    <3>1. Expires => count <= NKeep \/ ExpiredFrom(1)
      BY <2>1 DEF Swept
    <3>2. ExpiredFrom(1) => ExpiredFrom(1)'
      BY <1>1, <2>1, <2>3 DEF ExpiredFrom
    <3> QED BY <1>1, <2>1, <3>1, <3>2
  <2>5. ExpiredFrom(1)' => ExpiredFrom(2)'
    BY DEF ExpiredFrom
  <2>6. count' \in Int
    BY <1>1, <2>1
  <2>7. Swept'
    BY <1>1, <2>2, <2>4, <2>5, <2>6 DEF Swept, InCleanup
  <2>8. CleanupInList'
    BY <2>2 DEF CleanupInList, InCleanup
  <2> QED BY <2>7, <2>8
<1>8. ASSUME NEW u \in Users, Push(u)
      PROVE  Swept' /\ CleanupInList'
  <2>1. /\ pc[u] = "push" /\ opened' = <<handle[u]>> \o opened /\ handle[u] \in Handles
        /\ UNCHANGED <<target, expired, count>> /\ pc' = [pc EXCEPT ![u] = "count"]
    BY <1>8 DEF Push, At, Goto, handleVars, Carrying
  <2>2. \A v \in Users :
          pc'[v] \in {"openCleanup", "pop", "closeCleanup", "push", "count"} =>
            v = u /\ pc'[v] = "count"
    BY <1>1, <2>1 DEF Locking
  <2>3. <<handle[u]>> \in Seq(Handles) /\ Len(<<handle[u]>>) = 1
    BY <2>1
  <2>4. /\ Len(opened') = Len(opened) + 1
        /\ \A i \in 1 .. Len(opened') : i >= 2 => opened'[i] = opened[i - 1]
    BY <1>1, <2>1, <2>3, ConcatProperties
  <2>5. Expires => count' <= NKeep \/ ExpiredFrom(2)'
    <3>1. Expires => count <= NKeep \/ ExpiredFrom(1)
      BY <2>1 DEF Swept
    <3>2. ExpiredFrom(1) => ExpiredFrom(2)'
      BY <1>1, <2>1, <2>4 DEF ExpiredFrom
    <3> QED BY <2>1, <3>1, <3>2
  <2>6. Swept'
    BY <1>1, <2>1, <2>2, <2>5 DEF Swept, InCleanup
  <2>7. CleanupInList'
    BY <2>2 DEF CleanupInList, InCleanup
  <2> QED BY <2>6, <2>7
<1>9. ASSUME NEW u \in Users, Count(u)
      PROVE  Swept' /\ CleanupInList'
  <2>1. /\ pc[u] = "count" /\ count' = count + 1
        /\ UNCHANGED <<opened, target, expired>> /\ pc' = [pc EXCEPT ![u] = "idle"]
    BY <1>9 DEF Count, At, Goto, handleVars
  <2>2. \A v \in Users :
          pc'[v] \notin {"openCleanup", "pop", "closeCleanup", "push", "count"}
    BY <1>1, <2>1 DEF Locking
  <2>3. Expires => count <= NKeep \/ ExpiredFrom(2)
    BY <2>1 DEF Swept
  <2>4. Swept'
    BY <1>1, <2>1, <2>2, <2>3 DEF Swept, ExpiredFrom, InCleanup
  <2>5. CleanupInList'
    BY <2>2 DEF CleanupInList, InCleanup
  <2> QED BY <2>4, <2>5
<1>10. ASSUME NEW u \in Users, PopNothing(u) \/ Connect(u) \/ OpenConnection(u)
       PROVE  Swept' /\ CleanupInList'
  BY <1>1, <1>10, AloneSwept
     DEF PopNothing, Connect, OpenConnection, Goto, Take, listVars, handleVars
<1>11. ASSUME NEW u \in Users, NEW h \in Handles, CloseFinish(u, h) \/ ClosePass(u, h)
       PROVE  Swept' /\ CleanupInList'
  BY <1>1, <1>11, AloneSwept DEF CloseFinish, ClosePass, Goto, listVars, handleVars
<1>12. ASSUME NEW h \in Handles, Expire(h) \/ Lose(h)
       PROVE  Swept' /\ CleanupInList'
  BY <1>12, AloneSwept DEF Expire, Lose, listVars, userVars
<1>13. CASE UNCHANGED vars
  BY <1>13, AloneSwept DEF vars, listVars, userVars, handleVars
<1> QED
  BY <1>3, <1>4, <1>5, <1>6, <1>7, <1>8, <1>9, <1>10, <1>11, <1>12, <1>13
     DEF Next, UserStep

(***************************************************************************)
(* The empty list is swept.                                                *)
(***************************************************************************)
LEMMA InitSwept == Init => SweptInv
<1> SUFFICES ASSUME Init PROVE SweptInv
  OBVIOUS
<1>1. Swept /\ CleanupInList
  BY LimitsAssumption DEF Init, Swept, CleanupInList, InCleanup
<1> QED BY <1>1, InitCount DEF SweptInv

(***************************************************************************)
(* Every step keeps it so, and cleanup in the list.                        *)
(***************************************************************************)
LEMMA NextSwept == SweptInv /\ [Next]_vars => SweptInv'
<1> SUFFICES ASSUME SweptInv, [Next]_vars PROVE SweptInv'
  OBVIOUS
<1>1. CountInv'
  BY NextCount DEF SweptInv
<1> QED BY <1>1, SweptStep DEF SweptInv

(***************************************************************************)
(* cleanup tests the counter and not where it is, and never runs off the   *)
(* end of the list.                                                        *)
(***************************************************************************)
THEOREM CleanupStaysInList == Spec => []CleanupInList
<1>1. SweptInv => CleanupInList
  BY DEF SweptInv
<1> QED BY <1>1, InitSwept, NextSwept, PTL DEF Spec

----------------------------------------------------------------------------
(***************************************************************************)
(* A list without repetitions stays one when an element is taken out.      *)
(***************************************************************************)
LEMMA RemoveAtInjective ==
    ASSUME NEW S, NEW s \in Seq(S), NEW i \in 1 .. Len(s), IsInjective(s)
    PROVE  IsInjective(RemoveAt(s, i)) /\ ToSet(RemoveAt(s, i)) \subseteq ToSet(s)
<1> DEFINE r == RemoveAt(s, i)
           at(j) == IF j < i THEN j ELSE j + 1
<1>1. r \in Seq(S) /\ Len(r) = Len(s) - 1 /\ Len(s) \in Nat /\ i \in Nat
  BY RemoveAtLen
<1>2. DOMAIN r = 1 .. Len(s) - 1 /\ DOMAIN s = 1 .. Len(s)
  BY <1>1
<1>3. \A j \in DOMAIN r : r[j] = IF j < i THEN s[j] ELSE s[j + 1]
  BY <1>2, RemoveAtLen
<1> HIDE DEF r
<1>4. \A j \in DOMAIN r : at(j) \in DOMAIN s /\ r[j] = s[at(j)]
  BY <1>1, <1>2, <1>3
<1>5. \A j, k \in DOMAIN r : at(j) = at(k) => j = k
  BY <1>1, <1>2
<1> HIDE DEF at
<1>6. IsInjective(r)
  BY <1>4, <1>5 DEF IsInjective
<1>7. ToSet(r) \subseteq ToSet(s)
  BY <1>4 DEF ToSet
<1> QED BY <1>6, <1>7 DEF r

(***************************************************************************)
(* The head of such a list is not in its tail.                             *)
(***************************************************************************)
LEMMA TailInjective ==
    ASSUME NEW S, NEW s \in Seq(S), s # <<>>, IsInjective(s)
    PROVE  /\ IsInjective(Tail(s)) /\ ToSet(Tail(s)) \subseteq ToSet(s)
           /\ Head(s) \in ToSet(s) /\ Head(s) \notin ToSet(Tail(s))
<1> DEFINE r == Tail(s)
<1>1. /\ Len(s) \in Nat /\ Len(s) >= 1 /\ Head(s) = s[1]
      /\ DOMAIN s = 1 .. Len(s) /\ DOMAIN r = 1 .. Len(s) - 1
  OBVIOUS
<1>2. \A j \in DOMAIN r : j \in Nat /\ j + 1 \in DOMAIN s /\ j + 1 # 1 /\ r[j] = s[j + 1]
  BY <1>1, HeadTailProperties
<1>3. 1 \in DOMAIN s
  BY <1>1
<1> HIDE DEF r
<1>4. IsInjective(r)
  BY <1>2 DEF IsInjective
<1>5. ToSet(r) \subseteq ToSet(s) /\ s[1] \in ToSet(s) /\ s[1] \notin ToSet(r)
  BY <1>2, <1>3 DEF ToSet, IsInjective
<1> QED BY <1>1, <1>4, <1>5 DEF r

(***************************************************************************)
(* Nor does a new element at the front repeat anything.                    *)
(***************************************************************************)
LEMMA PushInjective ==
    ASSUME NEW S, NEW s \in Seq(S), NEW e \in S, IsInjective(s), e \notin ToSet(s)
    PROVE  IsInjective(<<e>> \o s) /\ ToSet(<<e>> \o s) = {e} \cup ToSet(s)
<1> DEFINE r == <<e>> \o s
<1>1. <<e>> \in Seq(S) /\ Len(<<e>>) = 1 /\ <<e>>[1] = e /\ Len(s) \in Nat
  OBVIOUS
<1>2. r \in Seq(S) /\ Len(r) = 1 + Len(s)
      /\ \A j \in 1 .. 1 + Len(s) : r[j] = IF j <= 1 THEN <<e>>[j] ELSE s[j - 1]
  BY <1>1, ConcatProperties
<1>3. DOMAIN r = 1 .. 1 + Len(s) /\ DOMAIN s = 1 .. Len(s)
  BY <1>1, <1>2
<1> HIDE DEF r
<1>4. /\ 1 \in DOMAIN r /\ r[1] = e
      /\ \A j \in DOMAIN r : j # 1 => j - 1 \in DOMAIN s /\ r[j] = s[j - 1] /\ j \in Nat
      /\ \A j \in DOMAIN s : j + 1 \in DOMAIN r /\ r[j + 1] = s[j]
  BY <1>1, <1>2, <1>3
<1>5. \A j \in DOMAIN s : s[j] # e
  BY DEF ToSet
<1>6. IsInjective(r)
  BY <1>4, <1>5 DEF IsInjective
<1>7. ToSet(r) = {e} \cup ToSet(s)
  BY <1>4 DEF ToSet
<1> QED BY <1>6, <1>7 DEF r

(***************************************************************************)
(* A thread gets connections only from the list, which loses them, or new. *)
(***************************************************************************)
LEMMA HandedOut ==
    ASSUME OneOwner, FreshIsFree, NEW u \in Users, NEW X,
           IsInjective(opened'), ToSet(opened') \subseteq ToSet(opened), fresh' \subseteq fresh,
           X \subseteq ToSet(opened) \cup fresh,
           X \cap ToSet(opened') = {}, X \cap fresh' = {},
           \A v \in Users : v # u => InHands(v)' = InHands(v) /\ handle'[v] \notin held'[v],
           InHands(u)' \subseteq InHands(u) \cup X, handle'[u] \notin held'[u]
    PROVE  OneOwner' /\ FreshIsFree'
<1>1. \A v \in Users : InHands(v)' \subseteq InHands(v) \cup X
  OBVIOUS
<1>2. \A v \in Users : X \cap InHands(v) = {} /\ InHands(v) \cap ToSet(opened) = {}
                       /\ fresh \cap InHands(v) = {}
  BY DEF OneOwner, FreshIsFree
<1>3. \A v \in Users : InHands(v)' \cap ToSet(opened') = {} /\ fresh' \cap InHands(v)' = {}
  BY <1>1, <1>2
<1>4. fresh' \cap ToSet(opened') = {}
  BY DEF FreshIsFree
<1>5. \A v, w \in Users : v # w => InHands(v)' \cap InHands(w)' = {}
  <2>1. \A v, w \in Users : v # w => InHands(v) \cap InHands(w) = {}
    BY DEF OneOwner
  <2>2. \A v \in Users : v # u => InHands(u)' \cap InHands(v)' = {}
    BY <1>2, <2>1
  <2>3. \A v, w \in Users : v # w /\ v # u /\ w # u => InHands(v)' \cap InHands(w)' = {}
    BY <2>1
  <2> QED BY <2>2, <2>3
<1>6. \A v \in Users : handle'[v] \notin held'[v]
  OBVIOUS
<1> QED BY <1>3, <1>4, <1>5, <1>6 DEF OneOwner, FreshIsFree

(***************************************************************************)
(* Each step leaves every connection with one owner.                       *)
(***************************************************************************)
LEMMA OwnerStep ==
    ASSUME OwnerInv, [Next]_vars
    PROVE  OneOwner' /\ FreshIsFree'
<1> CountInv /\ OneOwner /\ FreshIsFree
  BY DEF OwnerInv
<1> TypeOK /\ Carrying
  BY DEF CountInv
<1>1. /\ opened \in Seq(Handles) /\ handle \in [Users -> Handles \cup {NoHandle}]
      /\ held \in [Users -> SUBSET Handles] /\ NoHandle \notin Handles
      /\ target \in Nat \ {0}
  BY HandlesAssumption DEF TypeOK
<1>2. IsInjective(opened) /\ \A v \in Users : handle[v] \notin held[v]
  BY DEF OneOwner
<1>3. ASSUME UNCHANGED <<opened, handle, held, fresh>>
      PROVE  OneOwner' /\ FreshIsFree'
  BY <1>3 DEF OneOwner, FreshIsFree, InHands
<1>4. ASSUME NEW u \in Users, CleanupRemove(u) \/ PopInvalid(u)
      PROVE  OneOwner' /\ FreshIsFree'
  <2>1. UNCHANGED <<handle, held, fresh>>
    BY <1>4 DEF CleanupRemove, PopInvalid, userVars
  <2>2. IsInjective(opened') /\ ToSet(opened') \subseteq ToSet(opened)
    <3>1. CASE CleanupRemove(u)
      <4>1. target \in 1 .. Len(opened) /\ opened' = RemoveAt(opened, target)
        BY <1>1, <3>1 DEF CleanupRemove
      <4> QED BY <1>1, <1>2, <4>1, RemoveAtInjective
    <3>2. CASE PopInvalid(u)
      <4>1. opened # <<>> /\ opened' = Tail(opened)
        BY <3>2 DEF PopInvalid
      <4> QED BY <1>1, <1>2, <4>1, TailInjective
    <3> QED BY <1>4, <3>1, <3>2
  <2> QED BY <2>1, <2>2 DEF OneOwner, FreshIsFree, InHands
<1>5. ASSUME NEW u \in Users, PopValid(u)
      PROVE  OneOwner' /\ FreshIsFree'
  <2> DEFINE h == Head(opened)
  <2>1. /\ opened # <<>> /\ opened' = Tail(opened) /\ handle' = [handle EXCEPT ![u] = h]
        /\ UNCHANGED <<held, fresh>>
    BY <1>5 DEF PopValid, Take, handleVars
  <2>2. /\ IsInjective(opened') /\ ToSet(opened') \subseteq ToSet(opened)
        /\ h \in ToSet(opened) /\ h \notin ToSet(opened')
    BY <1>1, <1>2, <2>1, TailInjective
  <2> HIDE DEF h
  <2>3. h \notin fresh /\ h \notin held[u]
    BY <2>2 DEF OneOwner, FreshIsFree, InHands
  <2>4. /\ \A v \in Users : v # u => InHands(v)' = InHands(v) /\ handle'[v] \notin held'[v]
        /\ InHands(u)' \subseteq InHands(u) \cup {h} /\ handle'[u] \notin held'[u]
    BY <1>1, <1>2, <2>1, <2>3 DEF InHands
  <2>5. /\ {h} \subseteq ToSet(opened) \cup fresh
        /\ {h} \cap ToSet(opened') = {} /\ {h} \cap fresh' = {} /\ fresh' \subseteq fresh
    BY <2>1, <2>2, <2>3
  <2> QED BY <2>2, <2>4, <2>5, HandedOut
<1>6. ASSUME NEW u \in Users, NEW h \in fresh, Take(u, h), fresh' = fresh \ {h},
             UNCHANGED <<opened, held>>
      PROVE  OneOwner' /\ FreshIsFree'
  <2>1. handle' = [handle EXCEPT ![u] = h]
    BY <1>6 DEF Take
  <2>2. h \notin ToSet(opened) /\ h \notin held[u]
    BY DEF FreshIsFree, InHands
  <2>3. /\ \A v \in Users : v # u => InHands(v)' = InHands(v) /\ handle'[v] \notin held'[v]
        /\ InHands(u)' \subseteq InHands(u) \cup {h} /\ handle'[u] \notin held'[u]
    BY <1>1, <1>2, <1>6, <2>1, <2>2 DEF InHands
  <2>4. /\ {h} \subseteq ToSet(opened) \cup fresh /\ fresh' \subseteq fresh
        /\ {h} \cap ToSet(opened') = {} /\ {h} \cap fresh' = {}
        /\ IsInjective(opened') /\ ToSet(opened') \subseteq ToSet(opened)
    BY <1>2, <1>6, <2>2
  <2> QED BY <2>3, <2>4, HandedOut
<1>7. ASSUME NEW u \in Users, UNCHANGED <<opened, fresh>>,
             OpenConnection(u) \/ \E h \in Handles : CloseFinish(u, h) \/ ClosePass(u, h)
      PROVE  OneOwner' /\ FreshIsFree'
  <2>1. /\ \A v \in Users : v # u => InHands(v)' = InHands(v) /\ handle'[v] \notin held'[v]
        /\ InHands(u)' \subseteq InHands(u) \cup {} /\ handle'[u] \notin held'[u]
    <3>1. CASE OpenConnection(u)
      <4>1. handle[u] \in Handles
        BY <3>1 DEF OpenConnection, At, Carrying
      <4>2. /\ handle' = [handle EXCEPT ![u] = NoHandle]
            /\ held' = held \/ held' = [held EXCEPT ![u] = @ \cup {handle[u]}]
        BY <3>1 DEF OpenConnection, Take
      <4> QED BY <1>1, <1>2, <4>1, <4>2 DEF InHands
    <3>2. CASE \E h \in Handles : CloseFinish(u, h) \/ ClosePass(u, h)
      <4>1. PICK h \in Handles : CloseFinish(u, h) \/ ClosePass(u, h)
        BY <3>2
      <4>2. /\ h \in held[u] /\ held' = [held EXCEPT ![u] = @ \ {h}]
            /\ handle' = handle \/ handle' = [handle EXCEPT ![u] = h]
        BY <4>1 DEF CloseFinish, ClosePass, Take
      <4> QED BY <1>1, <1>2, <4>2 DEF InHands
    <3> QED BY <1>7, <3>1, <3>2
  <2>2. IsInjective(opened') /\ ToSet(opened') \subseteq ToSet(opened) /\ fresh' \subseteq fresh
    BY <1>2, <1>7
  <2>3. /\ {} \subseteq ToSet(opened) \cup fresh
        /\ {} \cap ToSet(opened') = {} /\ {} \cap fresh' = {}
    OBVIOUS
  <2> QED BY <2>1, <2>2, <2>3, HandedOut
<1>8. ASSUME NEW u \in Users, Push(u)
      PROVE  OneOwner' /\ FreshIsFree'
  <2> DEFINE h == handle[u]
  <2>1. /\ h \in Handles /\ opened' = <<h>> \o opened
        /\ handle' = [handle EXCEPT ![u] = NoHandle] /\ UNCHANGED <<held, fresh>>
    BY <1>8 DEF Push, At, Take, Carrying, handleVars
  <2>2. h \in InHands(u) /\ h \notin held[u]
    BY <1>1, <1>2, <2>1 DEF InHands
  <2>3. h \notin ToSet(opened) /\ h \notin fresh
    BY <2>2 DEF OneOwner, FreshIsFree
  <2>4. IsInjective(opened') /\ ToSet(opened') = {h} \cup ToSet(opened)
    BY <1>1, <1>2, <2>1, <2>3, PushInjective
  <2>5. \A v \in Users : InHands(v)' \subseteq InHands(v) /\ handle'[v] \notin held'[v]
    BY <1>1, <1>2, <2>1 DEF InHands
  <2>6. h \notin InHands(u)'
    BY <1>1, <2>1, <2>2 DEF InHands
  <2> HIDE DEF h
  <2>7. \A v \in Users : h \notin InHands(v)'
    BY <2>2, <2>5, <2>6 DEF OneOwner
  <2>8. \A v \in Users : InHands(v)' \cap ToSet(opened') = {} /\ fresh' \cap InHands(v)' = {}
    BY <2>1, <2>4, <2>5, <2>7 DEF OneOwner, FreshIsFree
  <2>9. fresh' \cap ToSet(opened') = {}
    BY <2>1, <2>3, <2>4 DEF FreshIsFree
  <2>10. \A v, w \in Users : v # w => InHands(v)' \cap InHands(w)' = {}
    BY <2>5 DEF OneOwner
  <2> QED BY <2>4, <2>5, <2>8, <2>9, <2>10 DEF OneOwner, FreshIsFree
<1>9. ASSUME NEW u \in Users,
             \/ Open(u) \/ CloseLock(u) \/ CleanupNext(u) \/ CleanupDone(u)
             \/ PopNothing(u) \/ Count(u)
      PROVE  OneOwner' /\ FreshIsFree'
  BY <1>3, <1>9 DEF Open, CloseLock, LockFor, CleanupNext, CleanupDone, PopNothing, Count,
                    listVars, userVars, handleVars
<1>10. ASSUME NEW u \in Users, Connect(u)
       PROVE  OneOwner' /\ FreshIsFree'
  <2>1. UNCHANGED <<opened, held>>
    BY <1>10 DEF Connect, listVars
  <2> QED BY <1>3, <1>6, <1>10, <2>1 DEF Connect
<1>11. ASSUME NEW u \in Users, OpenConnection(u)
       PROVE  OneOwner' /\ FreshIsFree'
  BY <1>7, <1>11 DEF OpenConnection, listVars, handleVars
<1>12. ASSUME NEW u \in Users, NEW h \in Handles, CloseFinish(u, h) \/ ClosePass(u, h)
       PROVE  OneOwner' /\ FreshIsFree'
  <2>1. UNCHANGED <<opened, fresh>>
    BY <1>12 DEF CloseFinish, ClosePass, listVars, handleVars
  <2> QED BY <1>7, <1>12, <2>1
<1>13. ASSUME NEW h \in Handles, Expire(h) \/ Lose(h)
       PROVE  OneOwner' /\ FreshIsFree'
  BY <1>3, <1>13 DEF Expire, Lose, listVars, userVars
<1>14. CASE UNCHANGED vars
  BY <1>3, <1>14 DEF vars, listVars, userVars, handleVars
<1> QED
  BY <1>4, <1>5, <1>8, <1>9, <1>10, <1>11, <1>12, <1>13, <1>14 DEF Next, UserStep

(***************************************************************************)
(* At the beginning no connection is anywhere.                             *)
(***************************************************************************)
LEMMA InitOwner == Init => OwnerInv
<1> SUFFICES ASSUME Init PROVE OwnerInv
  OBVIOUS
<1>1. OneOwner /\ FreshIsFree
  BY DEF Init, OneOwner, FreshIsFree, InHands, IsInjective, ToSet
<1> QED BY <1>1, InitCount DEF OwnerInv

(***************************************************************************)
(* Every step keeps the owners.                                            *)
(***************************************************************************)
LEMMA NextOwner == OwnerInv /\ [Next]_vars => OwnerInv'
BY OwnerStep, NextCount DEF OwnerInv

(***************************************************************************)
(* No connection is given to two threads, kept twice, or kept while a      *)
(* thread has it.                                                          *)
(***************************************************************************)
THEOREM OneOwnerEach == Spec => []OneOwner
<1>1. OwnerInv => OneOwner
  BY DEF OwnerInv
<1> QED BY <1>1, InitOwner, NextOwner, PTL DEF Spec

----------------------------------------------------------------------------
(***************************************************************************)
(* While nothing has expired cleanup takes out the connection it finishes. *)
(***************************************************************************)
LEMMA CleanupHead ==
    ASSUME SweptInv, expired = {}, NEW u \in Users, CleanupRemove(u)
    PROVE  opened # <<>> /\ opened' = Tail(opened)
<1>1. /\ Expires /\ InCleanup(u) /\ target \in 1 .. Len(opened) /\ opened \in Seq(Handles)
      /\ opened' = RemoveAt(opened, target)
  BY DEF CleanupRemove, Doomed, SweptInv, CountInv, TypeOK
<1>2. \A i \in 1 .. Len(opened) : ~(i < target)
  BY <1>1 DEF SweptInv, Swept
<1>3. target = 1 /\ Len(opened) >= 1
  BY <1>1, <1>2
<1>4. opened # <<>> /\ Tail(opened) \in Seq(Handles) /\ Len(Tail(opened)) = Len(opened) - 1
      /\ \A j \in 1 .. Len(opened) - 1 : Tail(opened)[j] = opened[j + 1]
  BY <1>1, <1>3, HeadTailProperties
<1>5. opened' \in Seq(Handles) /\ Len(opened') = Len(opened) - 1
      /\ \A j \in 1 .. Len(opened) - 1 :
            opened'[j] = IF j < target THEN opened[j] ELSE opened[j + 1]
  BY <1>1, RemoveAtLen
<1>6. \A j \in 1 .. Len(opened) - 1 : opened'[j] = Tail(opened)[j]
  BY <1>1, <1>3, <1>4, <1>5
<1>7. Len(opened') = Len(Tail(opened)) /\ \A j \in 1 .. Len(opened') : opened'[j] = Tail(opened)[j]
  BY <1>4, <1>5, <1>6
<1>8. opened' = Tail(opened)
  BY <1>4, <1>5, <1>7, SeqEqual
<1> QED BY <1>4, <1>8

(***************************************************************************)
(* While nothing has expired no step makes a finished connection usable,   *)
(* or finishes one that stays in use.                                      *)
(***************************************************************************)
LEMMA LiveStep ==
    ASSUME SweptInv, OwnerInv, UsedIsLive, [Next]_vars
    PROVE  UsedIsLive'
<1> TypeOK /\ OneOwner /\ FreshIsFree /\ Carrying
  BY DEF OwnerInv, CountInv
<1>1. /\ opened \in Seq(Handles) /\ handle \in [Users -> Handles \cup {NoHandle}]
      /\ held \in [Users -> SUBSET Handles] /\ NoHandle \notin Handles /\ fresh \subseteq Handles
      /\ IsInjective(opened)
  BY HandlesAssumption DEF TypeOK, OneOwner
<1>e. expired' = {} => expired = {}
  BY DEF Next, UserStep, Open, CloseLock, LockFor, CleanupRemove, CleanupNext, CleanupDone,
         PopValid, PopInvalid, PopNothing, Connect, OpenConnection, CloseFinish, ClosePass,
         Push, Count, Expire, Lose, vars, handleVars
<1>2. SUFFICES ASSUME expired = {}
               PROVE  \A h : InUse(h)' => InUse(h) /\ (h \in finished' => h \in finished)
  BY <1>e DEF UsedIsLive
<1>3. ASSUME UNCHANGED <<opened, handle, held, fresh, finished>>, NEW h, InUse(h)'
      PROVE  InUse(h) /\ (h \in finished' => h \in finished)
  BY <1>3 DEF InUse, InHands
<1>5. ASSUME NEW u \in Users, CleanupRemove(u) \/ PopInvalid(u) \/ PopValid(u),
             NEW h, InUse(h)'
      PROVE  InUse(h) /\ (h \in finished' => h \in finished)
  <2> DEFINE k == Head(opened)
  <2>1. /\ opened # <<>> /\ opened' = Tail(opened) /\ UNCHANGED <<held, fresh>>
        /\ \/ handle' = handle /\ finished' = finished \cup {k}
           \/ handle' = [handle EXCEPT ![u] = k] /\ finished' = finished
    BY <1>2, <1>5, CleanupHead
       DEF CleanupRemove, PopInvalid, PopValid, Take, Finish, userVars, handleVars
  <2>2. /\ ToSet(opened') \subseteq ToSet(opened)
        /\ k \in ToSet(opened) /\ k \notin ToSet(opened')
    BY <1>1, <2>1, TailInjective
  <2> HIDE DEF k
  <2>3. k \notin fresh /\ \A v \in Users : k \notin InHands(v)
    BY <2>2 DEF OneOwner, FreshIsFree
  <2>4. CASE handle' = handle /\ finished' = finished \cup {k}
    <3>1. \A v \in Users : InHands(v)' = InHands(v)
      BY <2>1, <2>4 DEF InHands
    <3> QED BY <1>5, <2>1, <2>2, <2>3, <2>4, <3>1 DEF InUse
  <2>5. CASE handle' = [handle EXCEPT ![u] = k] /\ finished' = finished
    <3>1. \A v \in Users : InHands(v)' \subseteq InHands(v) \cup {k}
      BY <1>1, <2>1, <2>5 DEF InHands
    <3> QED BY <1>5, <2>1, <2>2, <2>5, <3>1 DEF InUse
  <2> QED BY <2>1, <2>4, <2>5
<1>6. ASSUME NEW u \in Users, Connect(u), NEW h, InUse(h)'
      PROVE  InUse(h) /\ (h \in finished' => h \in finished)
  <2>1. CASE UNCHANGED <<handle, fresh>>
    BY <1>3, <1>6, <2>1 DEF Connect, listVars
  <2>2. ASSUME NEW k \in fresh, Take(u, k), fresh' = fresh \ {k}
        PROVE  InUse(h) /\ (h \in finished' => h \in finished)
    <3>1. UNCHANGED <<opened, held, finished>> /\ handle' = [handle EXCEPT ![u] = k]
      BY <1>6, <2>2 DEF Connect, Take, listVars
    <3>2. \A v \in Users : InHands(v)' \subseteq InHands(v) \cup {k}
      BY <1>1, <3>1 DEF InHands
    <3> QED BY <1>6, <2>2, <3>1, <3>2 DEF InUse
  <2> QED BY <1>6, <2>1, <2>2 DEF Connect
<1>7. ASSUME NEW u \in Users, OpenConnection(u), NEW h, InUse(h)'
      PROVE  InUse(h) /\ (h \in finished' => h \in finished)
  <2>1. /\ handle[u] \in Handles /\ handle' = [handle EXCEPT ![u] = NoHandle]
        /\ held' = held \/ held' = [held EXCEPT ![u] = @ \cup {handle[u]}]
        /\ UNCHANGED <<opened, fresh, finished>>
    BY <1>7 DEF OpenConnection, At, Carrying, Take, listVars, handleVars
  <2>2. \A v \in Users : InHands(v)' \subseteq InHands(v)
    BY <1>1, <2>1 DEF InHands
  <2> QED BY <1>7, <2>1, <2>2 DEF InUse
<1>8. ASSUME NEW u \in Users, NEW k \in Handles, CloseFinish(u, k), NEW h, InUse(h)'
      PROVE  InUse(h) /\ (h \in finished' => h \in finished)
  <2>1. /\ k \in held[u] /\ held' = [held EXCEPT ![u] = @ \ {k}]
        /\ finished' = finished \cup {k} /\ UNCHANGED <<opened, handle, fresh>>
    BY <1>8 DEF CloseFinish, Finish, listVars
  <2>2. k \in InHands(u) /\ handle[u] # k
    BY <2>1 DEF OneOwner, InHands
  <2>3. \A v \in Users : InHands(v)' \subseteq InHands(v) \ {k}
    BY <1>1, <2>1, <2>2 DEF OneOwner, InHands
  <2>4. k \notin fresh \cup ToSet(opened)
    BY <2>2 DEF OneOwner, FreshIsFree
  <2> QED BY <1>8, <2>1, <2>3, <2>4 DEF InUse
<1>9. ASSUME NEW u \in Users, NEW k \in Handles, ClosePass(u, k), NEW h, InUse(h)'
      PROVE  InUse(h) /\ (h \in finished' => h \in finished)
  <2>1. /\ k \in held[u] /\ held' = [held EXCEPT ![u] = @ \ {k}]
        /\ handle' = [handle EXCEPT ![u] = k] /\ UNCHANGED <<opened, fresh, finished>>
    BY <1>9 DEF ClosePass, Take, listVars, handleVars
  <2>2. \A v \in Users : InHands(v)' \subseteq InHands(v)
    BY <1>1, <2>1 DEF InHands
  <2> QED BY <1>9, <2>1, <2>2 DEF InUse
<1>10. ASSUME NEW u \in Users, Push(u), NEW h, InUse(h)'
       PROVE  InUse(h) /\ (h \in finished' => h \in finished)
  <2> DEFINE k == handle[u]
  <2>1. /\ k \in Handles /\ opened' = <<k>> \o opened
        /\ handle' = [handle EXCEPT ![u] = NoHandle] /\ UNCHANGED <<held, fresh, finished>>
    BY <1>10 DEF Push, At, Take, Carrying, handleVars
  <2>2. k \in InHands(u)
    BY <1>1, <2>1 DEF InHands
  <2>3. ToSet(opened') = {k} \cup ToSet(opened)
    BY <1>1, <2>1, <2>2, PushInjective DEF OneOwner
  <2>4. \A v \in Users : InHands(v)' \subseteq InHands(v)
    BY <1>1, <2>1 DEF InHands
  <2> QED BY <1>10, <2>1, <2>2, <2>3, <2>4 DEF InUse
<1>11. ASSUME NEW u \in Users,
              \/ Open(u) \/ CloseLock(u) \/ CleanupNext(u) \/ CleanupDone(u)
              \/ PopNothing(u) \/ Count(u)
       PROVE  UNCHANGED <<opened, handle, held, fresh, finished>>
  BY <1>11 DEF Open, CloseLock, LockFor, CleanupNext, CleanupDone, PopNothing, Count,
               listVars, userVars, handleVars
<1>12. ASSUME NEW h \in Handles, Expire(h) \/ Lose(h)
       PROVE  UNCHANGED <<opened, handle, held, fresh, finished>>
  BY <1>12 DEF Expire, Lose, listVars, userVars
<1>13. UNCHANGED vars => UNCHANGED <<opened, handle, held, fresh, finished>>
  BY DEF vars, listVars, userVars, handleVars
<1> QED
  BY <1>3, <1>5, <1>6, <1>7, <1>8, <1>9, <1>10, <1>11, <1>12, <1>13
     DEF Next, UserStep

(***************************************************************************)
(* Until the first connection expires no finished connection is kept or    *)
(* handed out; without an expiry time none ever does.                      *)
(***************************************************************************)
THEOREM KeptStaysLive == Spec => []KeptIsLive
<1> DEFINE Inv == SweptInv /\ OwnerInv /\ UsedIsLive
<1>1. Init => Inv
  BY InitSwept, InitOwner DEF Init, UsedIsLive
<1>2. Inv /\ [Next]_vars => Inv'
  BY NextSwept, NextOwner, LiveStep
<1>3. Inv => KeptIsLive
  <2>1. \A i \in DOMAIN opened : opened[i] \in ToSet(opened)
    BY DEF ToSet
  <2> QED BY <2>1 DEF UsedIsLive, InUse, KeptIsLive
<1> QED BY <1>1, <1>2, <1>3, PTL DEF Spec
=============================================================================
