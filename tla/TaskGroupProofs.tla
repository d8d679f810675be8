-------------------------- MODULE TaskGroupProofs --------------------------
(***************************************************************************)
(* Proofs about TaskGroup, for every finite set of tasks, every set of     *)
(* groups, whoever owns and makes them, and every number of workers.       *)
(***************************************************************************)
EXTENDS TaskGroup, FiniteSetTheorems, TLAPS

(***************************************************************************)
(* What the swap in update moves: the queue of the group into the batch of *)
(* the thread, and nothing else.                                           *)
(***************************************************************************)
LEMMA CollectedMoves ==
    ASSUME TypeOK, NEW th \in Threads, NEW g \in Groups, Collected(th, g)
    PROVE  /\ batch' \in [Threads -> SUBSET Tasks]
           /\ performed' \in [Groups -> SUBSET Tasks]
           /\ \A h \in Groups : performed'[h] = IF h = g THEN {} ELSE performed[h]
           /\ \A u \in Threads :
                batch'[u] = IF u = th THEN batch[u] \cup performed[g] ELSE batch[u]
BY DEF TypeOK, Collected

(***************************************************************************)
(* Every variable stays in its set.                                        *)
(***************************************************************************)
LEMMA TypeStep ==
    ASSUME TypeOK, Places, [Next]_vars
    PROVE  TypeOK'
<1> USE DEF TypeOK, Threads, Steps, Phases, Goto, Enter, groupVars, poolVars
<1>1. ASSUME NEW th \in Threads, NEW t \in Tasks, OnAdded(th, t)
      PROVE  TypeOK'
  <2> DEFINE g == GroupOf[t]
  <2>1. step' \in [Tasks -> Steps] /\ adder' \in [Tasks -> Threads]
    BY <1>1 DEF OnAdded
  <2>2. added' \in [Groups -> Nat]
    BY <1>1 DEF OnAdded, Count
  <2>3. batch' \in [Threads -> SUBSET Tasks] /\ performed' \in [Groups -> SUBSET Tasks]
    <3>1. CASE UNCHANGED <<batch, performed>>
      BY <3>1
    <3>2. CASE g # NoGroup /\ Collected(th, g)
      <4>1. g \in Groups
        BY <3>2, GroupsAssumption
      <4> QED BY <3>2, <4>1, CollectedMoves
    <3> QED BY <1>1, <3>1, <3>2 DEF OnAdded
  <2> QED
    BY <1>1, <2>1, <2>2, <2>3 DEF OnAdded
<1>2. ASSUME NEW t \in Tasks, PushTask(t)
      PROVE  TypeOK'
  BY <1>2 DEF PushTask, Pool!Submit
<1>3. ASSUME NEW t \in Tasks, StartTask(t)
      PROVE  TypeOK'
  BY <1>3 DEF StartTask, Pool!Start
<1>4. ASSUME NEW t \in Tasks, OnPerformed(t)
      PROVE  TypeOK'
  BY <1>4 DEF OnPerformed
<1>5. ASSUME NEW t \in Tasks, Notify(t)
      PROVE  TypeOK'
  BY <1>5 DEF Notify
<1>6. ASSUME NEW t \in Tasks, Release(t)
      PROVE  TypeOK'
  BY <1>6 DEF Release, Pool!Finish
<1>7. ASSUME NEW th \in Threads, NEW t \in Tasks, Complete(th, t)
      PROVE  TypeOK'
  <2>1. GroupOf[t] \in Groups
    BY <1>7 DEF Complete, Places
  <2> QED BY <1>7, <2>1 DEF Complete
<1>8. ASSUME NEW g \in Groups, Update(g) \/ Collect(g)
      PROVE  TypeOK'
  <2>1. OwnerOf[g] \in Threads
    BY GroupsAssumption
  <2>2. Collected(OwnerOf[g], g)
    BY <1>8 DEF Update, Collect
  <2>3. batch' \in [Threads -> SUBSET Tasks] /\ performed' \in [Groups -> SUBSET Tasks]
    BY <2>1, <2>2, CollectedMoves
  <2> QED BY <1>8, <2>3 DEF Update, Collect
<1>9. ASSUME NEW g \in Groups, WaitForAll(g) \/ LoadCounter(g) \/ TestCounters(g) \/ WaitTimeout(g)
      PROVE  TypeOK'
  BY <1>9 DEF WaitForAll, LoadCounter, TestCounters, WaitTimeout
<1>10. CASE Cancel
  BY <1>10 DEF Cancel, Pool!Close
<1>11. CASE UNCHANGED vars
  BY <1>11 DEF vars
<1> QED
  BY <1>1, <1>2, <1>3, <1>4, <1>5, <1>6, <1>7, <1>8, <1>9, <1>10, <1>11
     DEF Next, WorkerStep, OwnerStep, CompleteStep

(***************************************************************************)
(* The swap keeps every task of the group in one place: in the queue, or   *)
(* in the batch of one thread.                                             *)
(***************************************************************************)
LEMMA CollectedPlaces ==
    ASSUME TypeOK, Places, NEW th \in Threads, NEW g \in Groups, Collected(th, g)
    PROVE  /\ \A h \in Groups : \A t \in performed'[h] :
                GroupOf[t] = h /\ step[t] \in Performed
           /\ \A u \in Threads : \A t \in batch'[u] :
                /\ GroupOf[t] \in Groups
                /\ step[t] \in Performed
                /\ t \notin performed'[GroupOf[t]]
           /\ \A u, v \in Threads : u # v => batch'[u] \cap batch'[v] = {}
<1>1. /\ \A h \in Groups : performed'[h] = IF h = g THEN {} ELSE performed[h]
      /\ \A u \in Threads :
            batch'[u] = IF u = th THEN batch[u] \cup performed[g] ELSE batch[u]
  BY CollectedMoves
<1>2. \A h \in Groups : \A t \in performed'[h] : GroupOf[t] = h /\ step[t] \in Performed
  BY <1>1 DEF Places
<1>3. ASSUME NEW u \in Threads, NEW t \in batch'[u]
      PROVE  /\ GroupOf[t] \in Groups
             /\ step[t] \in Performed
             /\ t \notin performed'[GroupOf[t]]
  <2>1. CASE t \in batch[u]
    BY <1>1, <2>1 DEF Places
  <2>2. CASE t \in performed[g]
    BY <1>1, <2>2 DEF Places
  <2> QED BY <1>1, <1>3, <2>1, <2>2
<1>4. ASSUME NEW u \in Threads, NEW v \in Threads, u # v
      PROVE  batch'[u] \cap batch'[v] = {}
  <2>1. \A w \in Threads : batch[w] \cap performed[g] = {}
    BY DEF Places
  <2>2. batch[u] \cap batch[v] = {}
    BY <1>4 DEF Places
  <2> QED BY <1>1, <1>4, <2>1, <2>2
<1> QED BY <1>2, <1>3, <1>4

(***************************************************************************)
(* A task stays in one place: pushTask, the worker, onPerformed, the swap  *)
(* in update and its loop each take it from one place to the next.         *)
(***************************************************************************)
LEMMA PlacesStep ==
    ASSUME TypeOK, Places, [Next]_vars
    PROVE  Places'
<1> USE DEF TypeOK, Threads, Steps, Goto, At, groupVars, poolVars, Performed
<1>1. ASSUME NEW th \in Threads, NEW t \in Tasks, OnAdded(th, t)
      PROVE  Places'
  <2> DEFINE g == GroupOf[t]
  <2>1. step[t] = "new" /\ step' = [step EXCEPT ![t] = "counted"] /\ UNCHANGED waiting
    BY <1>1 DEF OnAdded
  <2>2. /\ \A u \in waiting' : step'[u] = "queued"
        /\ \A u \in Tasks : step[u] \in Performed => step'[u] \in Performed
    BY <2>1 DEF Places
  <2>3. CASE UNCHANGED <<batch, performed>>
    BY <2>2, <2>3 DEF Places
  <2>4. CASE g # NoGroup /\ Collected(th, g)
    <3>1. g \in Groups
      BY <2>4, GroupsAssumption
    <3>2. /\ batch' \in [Threads -> SUBSET Tasks]
          /\ performed' \in [Groups -> SUBSET Tasks]
      BY <2>4, <3>1, CollectedMoves
    <3>3. /\ \A h \in Groups : \A u \in performed'[h] :
                GroupOf[u] = h /\ step[u] \in Performed
          /\ \A w \in Threads : \A u \in batch'[w] :
                /\ GroupOf[u] \in Groups
                /\ step[u] \in Performed
                /\ u \notin performed'[GroupOf[u]]
          /\ \A u, v \in Threads : u # v => batch'[u] \cap batch'[v] = {}
      BY <2>4, <3>1, CollectedPlaces
    <3> QED BY <2>2, <3>2, <3>3 DEF Places
  <2> QED BY <1>1, <2>3, <2>4 DEF OnAdded
<1>2. ASSUME NEW t \in Tasks, PushTask(t)
      PROVE  Places'
  BY <1>2 DEF PushTask, Pool!Submit, Places
<1>3. ASSUME NEW t \in Tasks, StartTask(t)
      PROVE  Places'
  BY <1>3 DEF StartTask, Pool!Start, Places
<1>4. ASSUME NEW t \in Tasks, OnPerformed(t)
      PROVE  Places'
  <2> DEFINE g == GroupOf[t]
  <2>1. step[t] = "execute" /\ UNCHANGED <<waiting, batch>>
    BY <1>4 DEF OnPerformed
  <2>2. step' \in [Tasks -> Steps] /\ step'[t] \in Performed
        /\ \A u \in Tasks \ {t} : step'[u] = step[u]
    BY <1>4 DEF OnPerformed
  <2>3. \A h \in Groups : performed'[h] = IF h = g THEN performed[h] \cup {t} ELSE performed[h]
    BY <1>4, GroupsAssumption, ZenonT(40) DEF OnPerformed
  <2>4. \A u \in waiting' : step'[u] = "queued"
    BY <2>1, <2>2 DEF Places
  <2>5. \A h \in Groups : \A u \in performed'[h] : GroupOf[u] = h /\ step'[u] \in Performed
    <3>1. ASSUME NEW h \in Groups, NEW u \in performed'[h]
          PROVE  GroupOf[u] = h /\ step'[u] \in Performed
      <4>1. CASE u = t
        <5>1. \A k \in Groups : t \notin performed[k]
          BY <2>1 DEF Places
        <5>2. h = g
          BY <2>3, <3>1, <4>1, <5>1
        <5> QED BY <2>2, <4>1, <5>2
      <4>2. CASE u # t
        <5>0. u \in performed[h]
          <6>1. CASE h = g
            BY <2>3, <4>2, <6>1
          <6>2. CASE h # g
            BY <2>3, <6>2
          <6> QED BY <6>1, <6>2
        <5>1. u \in performed[h] /\ u \in Tasks
          BY <5>0
        <5> QED BY <2>2, <4>2, <5>1 DEF Places
      <4> QED BY <4>1, <4>2
    <3> QED BY <3>1
  <2>6. ASSUME NEW th \in Threads, NEW u \in batch'[th]
        PROVE  /\ GroupOf[u] \in Groups
               /\ step'[u] \in Performed
               /\ u \notin performed'[GroupOf[u]]
    <3>1. /\ u \in Tasks /\ GroupOf[u] \in Groups /\ step[u] \in Performed
          /\ u \notin performed[GroupOf[u]]
      BY <2>1, <2>6 DEF Places
    <3>2. u # t
      BY <2>1, <3>1
    <3> QED BY <2>2, <2>3, <3>1, <3>2, ZenonT(40)
  <2> QED BY <2>1, <2>4, <2>5, <2>6 DEF Places
<1>5. ASSUME NEW t \in Tasks, Notify(t) \/ Release(t)
      PROVE  Places'
  <2>1. /\ step[t] \in Performed /\ step' \in [Tasks -> Steps] /\ step'[t] \in Performed
        /\ \A u \in Tasks \ {t} : step'[u] = step[u]
    BY <1>5 DEF Notify, Release
  <2>2. UNCHANGED <<waiting, batch, performed>>
    BY <1>5 DEF Notify, Release, Pool!Finish
  <2> QED BY <2>1, <2>2 DEF Places
<1>6. ASSUME NEW th \in Threads, NEW t \in Tasks, Complete(th, t)
      PROVE  Places'
  <2>1. \A u \in Threads : batch'[u] \subseteq batch[u]
    BY <1>6 DEF Complete
  <2>2. UNCHANGED <<waiting, step, performed>>
    BY <1>6 DEF Complete
  <2> QED BY <2>1, <2>2 DEF Places
<1>7. ASSUME NEW g \in Groups, Update(g) \/ Collect(g)
      PROVE  Places'
  <2>1. OwnerOf[g] \in Threads /\ Collected(OwnerOf[g], g) /\ UNCHANGED <<waiting, step>>
    BY <1>7, GroupsAssumption DEF Update, Collect
  <2> QED BY <2>1, CollectedPlaces DEF Places
<1>8. ASSUME NEW g \in Groups, WaitForAll(g) \/ LoadCounter(g) \/ TestCounters(g) \/ WaitTimeout(g)
      PROVE  Places'
  BY <1>8 DEF WaitForAll, LoadCounter, TestCounters, WaitTimeout, Places
<1>9. CASE Cancel
  BY <1>9 DEF Cancel, Pool!Close, Places
<1>10. CASE UNCHANGED vars
  BY <1>10 DEF vars, Places
<1> QED
  BY <1>1, <1>2, <1>3, <1>4, <1>5, <1>6, <1>7, <1>8, <1>9, <1>10
     DEF Next, WorkerStep, OwnerStep, CompleteStep

(***************************************************************************)
(* The swap loses no task and brings none in.                              *)
(***************************************************************************)
LEMMA CollectedHeld ==
    ASSUME TypeOK, Places, NEW th \in Threads, NEW g \in Groups, Collected(th, g),
           NEW h \in Groups, NEW u \in Tasks, GroupOf[u] = h
    PROVE  (u \in performed'[h] \/ \E w \in Threads : u \in batch'[w])
           <=> (u \in performed[h] \/ \E w \in Threads : u \in batch[w])
<1>1. /\ \A k \in Groups : performed'[k] = IF k = g THEN {} ELSE performed[k]
      /\ \A w \in Threads : batch'[w] = IF w = th THEN batch[w] \cup performed[g] ELSE batch[w]
  BY CollectedMoves
<1>2. u \in performed[g] => g = h
  BY DEF Places
<1> QED BY <1>1, <1>2

(***************************************************************************)
(* onAdded adds its task to those its group waits for.                     *)
(***************************************************************************)
LEMMA OnAddedUnfinished ==
    ASSUME TypeOK, Places, NEW th \in Threads, NEW t \in Tasks, OnAdded(th, t),
           NEW h \in Groups
    PROVE  /\ t \notin Unfinished(h)
           /\ Unfinished(h)' = IF GroupOf[t] = h THEN Unfinished(h) \cup {t} ELSE Unfinished(h)
<1> DEFINE g == GroupOf[t]
           Held(u) == u \in performed[h] \/ \E w \in Threads : u \in batch[w]
<1>1. step[t] = "new" /\ step' = [step EXCEPT ![t] = "counted"]
  BY DEF OnAdded, At, Goto
<1>2. t \notin Unfinished(h)
  BY <1>1 DEF Unfinished, Places, Performed
<1>3. ASSUME NEW u \in Tasks, GroupOf[u] = h
      PROVE  (u \in performed'[h] \/ \E w \in Threads : u \in batch'[w]) <=> Held(u)
  <2>1. CASE UNCHANGED <<batch, performed>>
    BY <2>1
  <2>2. CASE g # NoGroup /\ Collected(th, g)
    <3>1. g \in Groups
      BY <2>2, GroupsAssumption
    <3> QED BY <1>3, <2>2, <3>1, CollectedHeld
  <2> QED BY <2>1, <2>2 DEF OnAdded
<1>4. \A u \in Tasks : step'[u] = IF u = t THEN "counted" ELSE step[u]
  BY <1>1 DEF TypeOK
<1> QED BY <1>1, <1>2, <1>3, <1>4 DEF Unfinished

(***************************************************************************)
(* The loop of update takes the task it completes from those its group     *)
(* waits for.                                                              *)
(***************************************************************************)
LEMMA CompleteUnfinished ==
    ASSUME TypeOK, Places, NEW th \in Threads, NEW t \in Tasks, Complete(th, t),
           NEW h \in Groups
    PROVE  Unfinished(h)' = Unfinished(h) \ {t}
<1>1. /\ t \in batch[th] /\ UNCHANGED <<step, performed>>
      /\ \A w \in Threads : batch'[w] = IF w = th THEN batch[w] \ {t} ELSE batch[w]
  BY DEF Complete, TypeOK
<1>2. /\ step[t] \in Performed
      /\ t \notin performed[GroupOf[t]]
      /\ \A w \in Threads : t \notin batch'[w]
  BY <1>1 DEF Places
<1>3. t \notin Unfinished(h)'
  BY <1>1, <1>2 DEF Unfinished, Performed
<1>4. ASSUME NEW u \in Tasks, u # t
      PROVE  (\E w \in Threads : u \in batch'[w]) <=> (\E w \in Threads : u \in batch[w])
  BY <1>1, <1>4
<1> QED BY <1>1, <1>3, <1>4 DEF Unfinished

(***************************************************************************)
(* No other step changes the tasks a group waits for.                      *)
(***************************************************************************)
OtherStep ==
    \/ \E t \in Tasks : WorkerStep(t) \/ StartTask(t)
    \/ \E g \in Groups : OwnerStep(g) \/ Update(g) \/ WaitForAll(g)
    \/ Cancel
    \/ UNCHANGED vars

LEMMA OtherUnfinished ==
    ASSUME TypeOK, Places, OtherStep, NEW h \in Groups
    PROVE  Unfinished(h)' = Unfinished(h)
<1> USE DEF At, Goto, groupVars
<1>1. ASSUME NEW t \in Tasks, PushTask(t)
      PROVE  Unfinished(h)' = Unfinished(h)
  BY <1>1 DEF PushTask, TypeOK, Unfinished, Performed
<1>2. ASSUME NEW t \in Tasks, StartTask(t)
      PROVE  Unfinished(h)' = Unfinished(h)
  BY <1>2 DEF StartTask, Pool!Start, Places, TypeOK, Unfinished, Performed
<1>3. ASSUME NEW t \in Tasks, OnPerformed(t)
      PROVE  Unfinished(h)' = Unfinished(h)
  <2> USE DEF TypeOK, Unfinished
  <2>1. /\ step[t] = "execute" /\ UNCHANGED batch
        /\ \A u \in Tasks \ {t} : step'[u] = step[u]
    BY <1>3 DEF OnPerformed
  <2>2. GroupOf[t] = h => t \in performed'[h]
    BY <1>3, GroupsAssumption DEF OnPerformed
  <2>3. \A u \in Tasks \ {t} : u \in performed'[h] <=> u \in performed[h]
    BY <1>3, GroupsAssumption DEF OnPerformed
  <2> QED BY <2>1, <2>2, <2>3
<1>4. ASSUME NEW t \in Tasks, Notify(t) \/ Release(t)
      PROVE  Unfinished(h)' = Unfinished(h)
  BY <1>4 DEF Notify, Release, TypeOK, Unfinished, Performed
<1>5. ASSUME NEW g \in Groups, Update(g) \/ Collect(g)
      PROVE  Unfinished(h)' = Unfinished(h)
  <2>1. OwnerOf[g] \in Threads /\ Collected(OwnerOf[g], g) /\ UNCHANGED step
    BY <1>5, GroupsAssumption DEF Update, Collect, Threads
  <2>2. ASSUME NEW u \in Tasks, GroupOf[u] = h
        PROVE  (u \in performed'[h] \/ \E w \in Threads : u \in batch'[w])
               <=> (u \in performed[h] \/ \E w \in Threads : u \in batch[w])
    BY <2>1, <2>2, CollectedHeld
  <2>3. ASSUME NEW u \in Tasks
        PROVE  u \in Unfinished(h)' <=> u \in Unfinished(h)
    BY <2>1, <2>2 DEF Unfinished
  <2> QED BY <2>3 DEF Unfinished
<1>6. ASSUME NEW g \in Groups, WaitForAll(g) \/ LoadCounter(g) \/ TestCounters(g) \/ WaitTimeout(g)
      PROVE  Unfinished(h)' = Unfinished(h)
  BY <1>6 DEF WaitForAll, LoadCounter, TestCounters, WaitTimeout, TypeOK, Unfinished, Performed
<1>7. CASE Cancel
  BY <1>7 DEF Cancel, TypeOK, Unfinished, Performed
<1>8. CASE UNCHANGED vars
  BY <1>8 DEF vars, TypeOK, Unfinished, Performed
<1> QED
  BY <1>1, <1>2, <1>3, <1>4, <1>5, <1>6, <1>7, <1>8
     DEF OtherStep, WorkerStep, OwnerStep

(***************************************************************************)
(* Every step of the system is one of the three kinds.                     *)
(***************************************************************************)
LEMMA StepKinds ==
    ASSUME [Next]_vars
    PROVE  \/ \E th \in Threads, t \in Tasks : OnAdded(th, t)
           \/ \E th \in Threads, t \in Tasks : Complete(th, t)
           \/ OtherStep
BY DEF Next, CompleteStep, OtherStep

LEMMA UnfinishedIsFinite == \A h : IsFiniteSet(Unfinished(h))
<1> SUFFICES ASSUME NEW h PROVE IsFiniteSet(Unfinished(h))
  OBVIOUS
<1> Unfinished(h) \subseteq Tasks
  BY DEF Unfinished
<1> QED BY FS_Subset, TasksAssumption

(***************************************************************************)
(* The counters follow the tasks the group waits for.                      *)
(***************************************************************************)
LEMMA BalanceStep ==
    ASSUME GroupInv, [Next]_vars
    PROVE  GroupBalance'
<1> SUFFICES ASSUME NEW h \in Groups
             PROVE  added'[h] = completed'[h] + Cardinality(Unfinished(h)')
  BY DEF GroupBalance
<1> TypeOK /\ Places
  BY DEF GroupInv
<1>0. /\ added[h] \in Nat /\ completed[h] \in Nat
      /\ IsFiniteSet(Unfinished(h)) /\ Cardinality(Unfinished(h)) \in Nat
      /\ added[h] = completed[h] + Cardinality(Unfinished(h))
  BY UnfinishedIsFinite, FS_CardinalityType DEF GroupInv, GroupBalance, TypeOK
<1>1. ASSUME NEW th \in Threads, NEW t \in Tasks, OnAdded(th, t)
      PROVE  added'[h] = completed'[h] + Cardinality(Unfinished(h)')
  <2>1. UNCHANGED completed
    BY <1>1 DEF OnAdded
  <2>2. added'[h] = IF GroupOf[t] = h THEN added[h] + 1 ELSE added[h]
    BY <1>1, GroupsAssumption DEF OnAdded, Count, TypeOK
  <2>3. /\ t \notin Unfinished(h)
        /\ Unfinished(h)' = IF GroupOf[t] = h THEN Unfinished(h) \cup {t} ELSE Unfinished(h)
    BY <1>1, OnAddedUnfinished
  <2>4. Cardinality(Unfinished(h) \cup {t}) = Cardinality(Unfinished(h)) + 1
    BY <1>0, <2>3, FS_AddElement
  <2> QED BY <1>0, <2>1, <2>2, <2>3, <2>4
<1>2. ASSUME NEW th \in Threads, NEW t \in Tasks, Complete(th, t)
      PROVE  added'[h] = completed'[h] + Cardinality(Unfinished(h)')
  <2>1. UNCHANGED added
    BY <1>2 DEF Complete
  <2>2. completed'[h] = IF GroupOf[t] = h THEN completed[h] + 1 ELSE completed[h]
    BY <1>2 DEF Complete, TypeOK
  <2>3. Unfinished(h)' = Unfinished(h) \ {t}
    BY <1>2, CompleteUnfinished
  <2>4. t \in Unfinished(h) <=> GroupOf[t] = h
    BY <1>2 DEF Complete, Unfinished
  <2>5. Cardinality(Unfinished(h) \ {t}) =
            IF t \in Unfinished(h) THEN Cardinality(Unfinished(h)) - 1
                                   ELSE Cardinality(Unfinished(h))
    BY <1>0, FS_RemoveElement
  <2> QED BY <1>0, <2>1, <2>2, <2>3, <2>4, <2>5
<1>3. CASE OtherStep
  <2>1. UNCHANGED <<added, completed>>
    BY <1>3 DEF OtherStep, WorkerStep, OwnerStep, PushTask, StartTask, OnPerformed, Notify,
                Release, Update, Collect, WaitForAll, LoadCounter, TestCounters, WaitTimeout, Cancel,
                groupVars, vars
  <2>2. Unfinished(h)' = Unfinished(h)
    BY <1>3, OtherUnfinished
  <2> QED BY <1>0, <2>1, <2>2
<1> QED BY <1>1, <1>2, <1>3, StepKinds

(***************************************************************************)
(* What a thread in waitForAll does not do: run the user's code, and hold  *)
(* collected tasks while it loads and compares the counters.               *)
(***************************************************************************)
LEMMA OwnerWaits ==
    ASSUME Loading, NEW g \in Groups, phase[g] \in Waits
    PROVE  ~InUserCode(OwnerOf[g])
BY DEF Loading, InUserCode, Waits

(***************************************************************************)
(* A group that its owner waits for is collected from by other threads     *)
(* only if it was made by one of them.                                     *)
(***************************************************************************)
LEMMA CollectedLoading ==
    ASSUME TypeOK, Places, Loading, NEW th \in Threads, NEW g \in Groups, Collected(th, g),
           g \notin MadeByWorker => th = OwnerOf[g],
           \A h \in Groups : OwnerOf[h] = th => phase'[h] \notin Waits
    PROVE  /\ \A u \in Threads : \A t \in batch'[u] :
                GroupOf[t] \notin MadeByWorker => u = OwnerOf[GroupOf[t]]
           /\ \A h \in Groups : phase'[h] \in Waits /\ phase[h] \in Waits => batch'[OwnerOf[h]] = {}
<1>1. \A u \in Threads : batch'[u] = IF u = th THEN batch[u] \cup performed[g] ELSE batch[u]
  BY CollectedMoves
<1>2. \A t \in performed[g] : GroupOf[t] = g
  BY DEF Places
<1>3. \A u \in Threads : \A t \in batch'[u] :
        GroupOf[t] \notin MadeByWorker => u = OwnerOf[GroupOf[t]]
  BY <1>1, <1>2 DEF Loading
<1>4. ASSUME NEW h \in Groups, phase'[h] \in Waits, phase[h] \in Waits
      PROVE  batch'[OwnerOf[h]] = {}
  <2>1. OwnerOf[h] # th /\ OwnerOf[h] \in Threads
    BY <1>4, GroupsAssumption DEF Threads
  <2> QED BY <1>1, <1>4, <2>1 DEF Loading
<1> QED BY <1>3, <1>4

(***************************************************************************)
(* A step that leaves the counters, what was loaded, and the phases where  *)
(* they are compared as they were keeps Loading, if it keeps the batches.  *)
(***************************************************************************)
LEMMA LoadingKept ==
    ASSUME TypeOK, Loading, UNCHANGED <<added, completed, loaded>>,
           \A th \in Threads : \A t \in batch'[th] :
                GroupOf[t] \notin MadeByWorker => th = OwnerOf[GroupOf[t]],
           \A g \in Groups : phase'[g] \in Waits => batch'[OwnerOf[g]] = {},
           \A g \in Groups : phase'[g] \in {"added", "completed"} => phase'[g] = phase[g]
    PROVE  Loading'
<1>1. ASSUME NEW g \in Groups, phase'[g] = "added"
      PROVE  /\ loaded'[g] <= added'[g]
             /\ g \notin MadeByWorker => loaded'[g] = added'[g] \/ completed'[g] < loaded'[g]
  <2>1. phase[g] = "added"
    BY <1>1
  <2> QED BY <2>1 DEF Loading
<1>2. ASSUME NEW g \in Groups, phase'[g] = "completed"
      PROVE  loaded'[g] <= completed'[g]
  <2>1. phase[g] = "completed"
    BY <1>2
  <2> QED BY <2>1 DEF Loading
<1> QED BY <1>1, <1>2 DEF Loading

(***************************************************************************)
(* Loading is kept: who could add to a group whose owner compares is one   *)
(* of the tasks it waits for, and who could complete for the owner is a    *)
(* thread of a group that a worker made.                                   *)
(***************************************************************************)
LEMMA LoadingStep ==
    ASSUME GroupInv, [Next]_vars
    PROVE  Loading'
<1> TypeOK /\ Places /\ Loading /\ GroupBalance
  BY DEF GroupInv
<1> USE DEF groupVars, poolVars
<1>0. \A g \in Groups : OwnerOf[g] \in Threads
  BY GroupsAssumption DEF Threads
<1>c. ASSUME NEW g \in Groups
      PROVE  /\ added[g] \in Nat /\ completed[g] \in Nat /\ loaded[g] \in Nat
             /\ completed[g] <= added[g]
             /\ Unfinished(g) # {} => completed[g] < added[g]
  <2>1. /\ added[g] = completed[g] + Cardinality(Unfinished(g))
        /\ Cardinality(Unfinished(g)) \in Nat
        /\ added[g] \in Nat /\ completed[g] \in Nat /\ loaded[g] \in Nat
    BY UnfinishedIsFinite, FS_CardinalityType DEF GroupBalance, TypeOK
  <2>2. Unfinished(g) # {} => Cardinality(Unfinished(g)) # 0
    BY UnfinishedIsFinite, FS_EmptySet
  <2> QED BY <2>1, <2>2
<1>1. ASSUME NEW th \in Threads, NEW t \in Tasks, OnAdded(th, t)
      PROVE  Loading'
  <2> DEFINE k == GroupOf[t]
  <2>1. UNCHANGED <<phase, completed, loaded>> /\ InUserCode(th)
    BY <1>1 DEF OnAdded
  <2>2. \A h \in Groups : OwnerOf[h] = th => phase'[h] \notin Waits
    BY <2>1, OwnerWaits
  <2>3. /\ \A u \in Threads : \A v \in batch'[u] :
                GroupOf[v] \notin MadeByWorker => u = OwnerOf[GroupOf[v]]
        /\ \A h \in Groups : phase'[h] \in Waits => batch'[OwnerOf[h]] = {}
    <3>1. CASE UNCHANGED batch
      BY <2>1, <3>1 DEF Loading
    <3>2. CASE k # NoGroup /\ OnItsThread(th, k) /\ Collected(th, k)
      <4>1. k \in Groups
        BY <3>2, GroupsAssumption
      <4>2. k \notin MadeByWorker => th = OwnerOf[k]
        BY <3>2 DEF OnItsThread
      <4> QED BY <2>1, <2>2, <3>2, <4>1, <4>2, CollectedLoading
    <3> QED BY <1>1, <3>1, <3>2 DEF OnAdded
  <2>4. ASSUME NEW g \in Groups, g = k
        PROVE  /\ added'[g] = added[g] + 1
               /\ phase[g] \in Waits => Unfinished(g) # {}
    <3>1. added'[g] = added[g] + 1
      BY <1>1, <2>4, GroupsAssumption DEF OnAdded, Count, TypeOK
    <3>2. phase[g] \in Waits => Inside(th, g)
      BY <1>1, <2>1, <2>4, GroupsAssumption, OwnerWaits DEF OnAdded
    <3>3. Inside(th, g) => th \in Unfinished(g)
      BY <2>1 DEF Inside, InUserCode, At, Unfinished, Threads
    <3> QED BY <3>1, <3>2, <3>3
  <2>5. ASSUME NEW g \in Groups, g # k
        PROVE  added'[g] = added[g]
    BY <1>1, <2>5 DEF OnAdded, Count, TypeOK
  <2>6. ASSUME NEW g \in Groups, phase'[g] = "added"
        PROVE  /\ loaded'[g] <= added'[g]
               /\ g \notin MadeByWorker => loaded'[g] = added'[g] \/ completed'[g] < loaded'[g]
    <3>1. /\ phase[g] = "added" /\ phase[g] \in Waits
          /\ loaded'[g] = loaded[g] /\ completed'[g] = completed[g]
          /\ loaded[g] <= added[g]
          /\ g \notin MadeByWorker => loaded[g] = added[g] \/ completed[g] < loaded[g]
      BY <2>1, <2>6 DEF Loading, Waits
    <3>2. CASE g = k
      <4>1. added'[g] = added[g] + 1 /\ completed[g] < added[g]
        BY <1>c, <2>4, <3>1, <3>2
      <4> QED BY <1>c, <3>1, <4>1
    <3>3. CASE g # k
      BY <2>5, <3>1, <3>3
    <3> QED BY <3>2, <3>3
  <2>7. \A g \in Groups : phase'[g] = "completed" => loaded'[g] <= completed'[g]
    BY <2>1 DEF Loading
  <2> QED BY <2>3, <2>6, <2>7 DEF Loading
<1>2. ASSUME NEW th \in Threads, NEW t \in Tasks, Complete(th, t)
      PROVE  Loading'
  <2>1. /\ t \in batch[th] /\ UNCHANGED <<phase, added, loaded>>
        /\ \A u \in Threads : batch'[u] \subseteq batch[u]
    BY <1>2 DEF Complete, TypeOK
  <2>2. ASSUME NEW g \in Groups
        PROVE  completed'[g] = IF GroupOf[t] = g THEN completed[g] + 1 ELSE completed[g]
    BY <1>2, <2>2 DEF Complete, TypeOK
  <2>3. ASSUME NEW g \in Groups, phase[g] = "added", g \notin MadeByWorker
        PROVE  GroupOf[t] # g
    BY <2>1, <2>3 DEF Loading, Waits
  <2>4. ASSUME NEW g \in Groups, phase'[g] = "added"
        PROVE  /\ loaded'[g] <= added'[g]
               /\ g \notin MadeByWorker => loaded'[g] = added'[g] \/ completed'[g] < loaded'[g]
    BY <2>1, <2>2, <2>3, <2>4 DEF Loading
  <2>5. ASSUME NEW g \in Groups, phase'[g] = "completed"
        PROVE  loaded'[g] <= completed'[g]
    <3>1. loaded[g] <= completed[g] /\ loaded'[g] = loaded[g]
      BY <2>1, <2>5 DEF Loading
    <3> QED BY <1>c, <2>2, <3>1
  <2>6. /\ \A u \in Threads : \A v \in batch'[u] :
                GroupOf[v] \notin MadeByWorker => u = OwnerOf[GroupOf[v]]
        /\ \A g \in Groups : phase'[g] \in Waits => batch'[OwnerOf[g]] = {}
    BY <1>0, <2>1 DEF Loading
  <2> QED BY <2>4, <2>5, <2>6 DEF Loading
<1>3. ASSUME NEW g \in Groups, LoadCounter(g)
      PROVE  Loading'
  <2>1. /\ phase[g] = "complete" /\ batch[OwnerOf[g]] = {}
        /\ UNCHANGED <<added, completed, batch>>
        /\ phase'[g] \in {"added", "completed"}
        /\ phase'[g] = "added" => loaded'[g] = added[g]
        /\ phase'[g] = "completed" => loaded'[g] = completed[g]
        /\ \A h \in Groups \ {g} : phase'[h] = phase[h] /\ loaded'[h] = loaded[h]
    BY <1>3 DEF LoadCounter, Enter, TypeOK
  <2> QED BY <1>c, <2>1 DEF Loading
<1>4. ASSUME NEW g \in Groups, Update(g)
      PROVE  Loading'
  <2>1. Collected(OwnerOf[g], g) /\ UNCHANGED <<phase, added, completed, loaded>>
        /\ InUserCode(OwnerOf[g])
    BY <1>4 DEF Update
  <2>2. \A h \in Groups : OwnerOf[h] = OwnerOf[g] => phase'[h] \notin Waits
    BY <2>1, OwnerWaits
  <2>3. /\ \A u \in Threads : \A t \in batch'[u] :
                GroupOf[t] \notin MadeByWorker => u = OwnerOf[GroupOf[t]]
        /\ \A h \in Groups : phase'[h] \in Waits => batch'[OwnerOf[h]] = {}
    BY <1>0, <2>1, <2>2, CollectedLoading
  <2> QED BY <2>1, <2>3, LoadingKept
<1>5. ASSUME NEW g \in Groups, Collect(g)
      PROVE  Loading'
  <2>1. /\ Collected(OwnerOf[g], g) /\ UNCHANGED <<added, completed, loaded>>
        /\ phase'[g] = "complete" /\ \A h \in Groups \ {g} : phase'[h] = phase[h]
    BY <1>5 DEF Collect, Enter, TypeOK
  <2>2. \A h \in Groups : OwnerOf[h] = OwnerOf[g] => phase'[h] \notin Waits
    BY <2>1, GroupsAssumption DEF Waits
  <2>3. /\ \A u \in Threads : \A t \in batch'[u] :
                GroupOf[t] \notin MadeByWorker => u = OwnerOf[GroupOf[t]]
        /\ \A h \in Groups : phase'[h] \in Waits => batch'[OwnerOf[h]] = {}
    <3>1. \A h \in Groups : phase'[h] \in Waits => phase[h] \in Waits
      BY <2>1 DEF Waits
    <3> QED BY <1>0, <2>1, <2>2, <3>1, CollectedLoading
  <2>4. \A h \in Groups : phase'[h] \in {"added", "completed"} => phase'[h] = phase[h]
    BY <2>1
  <2> QED BY <2>1, <2>3, <2>4, LoadingKept
<1>6. ASSUME NEW g \in Groups, WaitForAll(g) \/ TestCounters(g) \/ WaitTimeout(g)
      PROVE  Loading'
  <2>1. /\ UNCHANGED <<added, completed, loaded, batch>>
        /\ phase'[g] \notin {"added", "completed"}
        /\ phase[g] \in Waits \/ batch[OwnerOf[g]] = {}
        /\ \A h \in Groups \ {g} : phase'[h] = phase[h]
    BY <1>6 DEF WaitForAll, TestCounters, WaitTimeout, Enter, TypeOK, Waits
  <2>2. \A h \in Groups : phase'[h] \in Waits => batch'[OwnerOf[h]] = {}
    BY <2>1 DEF Loading
  <2>3. \A h \in Groups : phase'[h] \in {"added", "completed"} => phase'[h] = phase[h]
    BY <2>1
  <2> QED BY <2>1, <2>2, <2>3, LoadingKept DEF Loading
<1>7. ASSUME NEW t \in Tasks, Notify(t)
      PROVE  Loading'
  <2>1. /\ UNCHANGED <<added, completed, loaded, batch>>
        /\ \A h \in Groups : phase'[h] = phase[h] \/ (phase[h] = "asleep" /\ phase'[h] = "collect")
    BY <1>7 DEF Notify, Enter, TypeOK
  <2>2. \A h \in Groups : phase'[h] \in Waits => batch'[OwnerOf[h]] = {}
    BY <2>1 DEF Loading, Waits
  <2> QED BY <2>1, <2>2, LoadingKept DEF Loading
<1>8. CASE UNCHANGED <<phase, added, completed, loaded, batch>>
  BY <1>8, LoadingKept DEF Loading
<1>9. CASE OtherStep
  BY <1>3, <1>4, <1>5, <1>6, <1>7, <1>8, <1>9
     DEF OtherStep, WorkerStep, OwnerStep, PushTask, StartTask, OnPerformed, Release, Cancel, vars
<1> QED BY <1>1, <1>2, <1>9, StepKinds

(***************************************************************************)
(* Nobody adds a task to a group whose owner went on in time: who could is *)
(* a task of the group, and the owner waited for it.                       *)
(***************************************************************************)
LEMMA GoneIsClosed ==
    ASSUME GroupInv, NEW th \in Threads, NEW t \in Tasks, OnAdded(th, t),
           NEW g \in Groups, phase[g] = "gone", Unfinished(g) = {}
    PROVE  GroupOf[t] # g
<1> SUFFICES ASSUME GroupOf[t] = g PROVE FALSE
  OBVIOUS
<1>1. InUserCode(th) /\ Inside(th, g)
  BY GroupsAssumption DEF OnAdded
<1>2. th \in Tasks /\ GroupOf[th] = g /\ step[th] = "execute"
  BY <1>1 DEF InUserCode, Inside, At, Threads
<1> QED BY <1>2 DEF Unfinished

(***************************************************************************)
(* The comparison in waitForAll.  If the number loaded of _added is still  *)
(* _added, equal counters mean that all is complete.  If it is not, then   *)
(* for a group its owner made a task it counts is not complete.            *)
(***************************************************************************)
LEMMA FinishedInTime ==
    ASSUME GroupInv, NEW g \in Groups, TestCounters(g), Finished(g)
    PROVE  Unfinished(g) = {} \/ (g \in MadeByWorker /\ Missed(g))
<1>1. /\ added[g] = completed[g] + Cardinality(Unfinished(g))
      /\ added[g] \in Nat /\ completed[g] \in Nat /\ loaded[g] \in Nat
      /\ Cardinality(Unfinished(g)) \in Nat
  BY UnfinishedIsFinite, FS_CardinalityType DEF GroupInv, GroupBalance, TypeOK
<1>2. Cardinality(Unfinished(g)) = 0 => Unfinished(g) = {}
  BY UnfinishedIsFinite, FS_EmptySet
<1>3. CASE phase[g] = "added"
  <2>1. /\ loaded[g] = completed[g] /\ loaded[g] <= added[g]
        /\ g \notin MadeByWorker => loaded[g] = added[g] \/ completed[g] < loaded[g]
    BY <1>3 DEF Finished, GroupInv, Loading
  <2>2. CASE loaded[g] = added[g]
    BY <1>1, <1>2, <2>1, <2>2
  <2>3. CASE loaded[g] # added[g]
    BY <1>1, <2>1, <2>3 DEF Missed
  <2> QED BY <2>2, <2>3
<1>4. CASE phase[g] = "completed"
  <2>1. loaded[g] = added[g] /\ loaded[g] <= completed[g]
    BY <1>4 DEF Finished, GroupInv, Loading
  <2> QED BY <1>1, <1>2, <2>1
<1> QED BY <1>3, <1>4 DEF TestCounters

(***************************************************************************)
(* waitForAll returns when nothing is unfinished, and nothing becomes      *)
(* unfinished later; or it missed a task of a group that a worker made.    *)
(***************************************************************************)
LEMMA WaitStep ==
    ASSUME GroupInv, [Next]_vars
    PROVE  WaitIsComplete'
<1> SUFFICES ASSUME NEW g \in Groups, phase'[g] = "gone"
             PROVE  Unfinished(g)' = {} \/ (g \in MadeByWorker /\ Missed(g)')
  BY DEF WaitIsComplete
<1> TypeOK /\ Places
  BY DEF GroupInv
<1>0. phase[g] = "gone" => Unfinished(g) = {} \/ (g \in MadeByWorker /\ Missed(g))
  BY DEF GroupInv, WaitIsComplete
<1>c. added[g] \in Nat /\ loaded[g] \in Nat
  BY DEF TypeOK
<1>1. ASSUME NEW th \in Threads, NEW t \in Tasks, OnAdded(th, t)
      PROVE  Unfinished(g)' = {} \/ (g \in MadeByWorker /\ Missed(g)')
  <2>1. phase[g] = "gone" /\ UNCHANGED loaded
    BY <1>1 DEF OnAdded
  <2>2. CASE Unfinished(g) = {}
    <3>1. GroupOf[t] # g
      BY <1>1, <2>1, <2>2, GoneIsClosed
    <3> QED BY <1>1, <2>2, <3>1, OnAddedUnfinished
  <2>3. CASE g \in MadeByWorker /\ Missed(g)
    <3>1. added'[g] \in {added[g], added[g] + 1}
      BY <1>1 DEF OnAdded, Count, TypeOK
    <3> QED BY <1>c, <2>1, <2>3, <3>1 DEF Missed
  <2> QED BY <1>0, <2>1, <2>2, <2>3
<1>2. ASSUME NEW th \in Threads, NEW t \in Tasks, Complete(th, t)
      PROVE  Unfinished(g)' = {} \/ (g \in MadeByWorker /\ Missed(g)')
  <2>1. phase[g] = "gone" /\ UNCHANGED <<added, loaded>>
    BY <1>2 DEF Complete
  <2>2. Unfinished(g)' = Unfinished(g) \ {t}
    BY <1>2, CompleteUnfinished
  <2> QED BY <1>0, <2>1, <2>2 DEF Missed
<1>3. CASE OtherStep
  <2>1. phase[g] = "gone" \/ (TestCounters(g) /\ Finished(g))
    <3>1. CASE \E h \in Groups : TestCounters(h)
      BY <3>1 DEF TestCounters, Enter, TypeOK
    <3>2. CASE ~ \E h \in Groups : TestCounters(h)
      BY <1>3, <3>2 DEF OtherStep, WorkerStep, OwnerStep, PushTask, StartTask, OnPerformed,
            Notify, Release, Update, Collect, WaitForAll, LoadCounter, WaitTimeout, Cancel, Enter,
            groupVars, vars, TypeOK
    <3> QED BY <3>1, <3>2
  <2>2. Unfinished(g) = {} \/ (g \in MadeByWorker /\ Missed(g))
    BY <1>0, <2>1, FinishedInTime
  <2>3. UNCHANGED added /\ loaded'[g] = loaded[g]
    <3>1. CASE \E h \in Groups : LoadCounter(h)
      BY <2>1, <3>1 DEF LoadCounter, TestCounters, Enter, TypeOK
    <3>2. CASE ~ \E h \in Groups : LoadCounter(h)
      BY <1>3, <3>2 DEF OtherStep, WorkerStep, OwnerStep, PushTask, StartTask, OnPerformed,
            Notify, Release, Update, Collect, WaitForAll, TestCounters, WaitTimeout, Cancel,
            groupVars, vars
    <3> QED BY <3>1, <3>2
  <2>4. Unfinished(g)' = Unfinished(g)
    BY <1>3, OtherUnfinished
  <2> QED BY <2>2, <2>3, <2>4 DEF Missed
<1> QED BY <1>1, <1>2, <1>3, StepKinds

(***************************************************************************)
(* The inductive invariant.                                                *)
(***************************************************************************)
LEMMA GroupStart == Init => GroupInv
<1> SUFFICES ASSUME Init PROVE GroupInv
  OBVIOUS
<1>1. TypeOK
  BY DEF Init, Pool!Init, TypeOK, Steps, Phases, Threads
<1>2. Places /\ Loading
  BY DEF Init, Pool!Init, Places, Loading, Waits
<1>3. \A g \in Groups : Unfinished(g) = {}
  BY DEF Init, Unfinished
<1>4. GroupBalance
  BY <1>3, FS_EmptySet DEF Init, GroupBalance
<1>5. WaitIsComplete
  BY <1>3 DEF WaitIsComplete
<1> QED BY <1>1, <1>2, <1>4, <1>5 DEF GroupInv

THEOREM GroupInvariance == Spec => []GroupInv
<1>1. GroupInv /\ [Next]_vars => GroupInv'
  BY TypeStep, PlacesStep, LoadingStep, BalanceStep, WaitStep DEF GroupInv
<1> QED
  BY GroupStart, <1>1, PTL DEF Spec

(***************************************************************************)
(* TypeOK: every variable of the group and of the pool stays in its set.   *)
(***************************************************************************)
THEOREM GroupTypeCorrect == Spec => []TypeOK
<1>1. GroupInv => TypeOK
  BY DEF GroupInv
<1> QED BY GroupInvariance, <1>1, PTL

(***************************************************************************)
(* _added and _completed differ by the tasks on their way: none is lost or *)
(* completed twice between onPerformed and two threads inside update.      *)
(***************************************************************************)
THEOREM CountersBalance == Spec => []GroupBalance
<1>1. GroupInv => GroupBalance
  BY DEF GroupInv
<1> QED BY GroupInvariance, <1>1, PTL

(***************************************************************************)
(* When waitForAll returns, all that was added is complete, also what the  *)
(* tasks of the group added themselves.  The exception is a group that a   *)
(* worker made, when a task was added between the loads of the counters.   *)
(***************************************************************************)
THEOREM WaitWaitsForAll == Spec => []WaitIsComplete
<1>1. GroupInv => WaitIsComplete
  BY DEF GroupInv
<1> QED BY GroupInvariance, <1>1, PTL

(***************************************************************************)
(* The counters and the queue of a group that may be destroyed are left    *)
(* alone, by onAdded, onPerformed and update, with the same exception.     *)
(***************************************************************************)
LEMMA QuietStep ==
    ASSUME GroupInv, [Next]_vars, NEW g \in Groups, phase[g] = "gone",
           ~(g \in MadeByWorker /\ Missed(g))
    PROVE  UNCHANGED <<added[g], completed[g], performed[g]>>
<1> TypeOK /\ Places
  BY DEF GroupInv
<1>0. Unfinished(g) = {}
  BY DEF GroupInv, WaitIsComplete
<1>1. ASSUME NEW th \in Threads, NEW t \in Tasks, OnAdded(th, t)
      PROVE  UNCHANGED <<added[g], completed[g], performed[g]>>
  <2>1. GroupOf[t] # g
    BY <1>0, <1>1, GoneIsClosed
  <2>2. performed'[g] = performed[g]
    <3>1. CASE UNCHANGED performed
      BY <3>1
    <3>2. CASE GroupOf[t] # NoGroup /\ Collected(th, GroupOf[t])
      BY <2>1, <3>2 DEF Collected, TypeOK
    <3> QED BY <1>1, <3>1, <3>2 DEF OnAdded
  <2>3. added'[g] = added[g] /\ completed'[g] = completed[g]
    BY <1>1, <2>1 DEF OnAdded, Count, TypeOK
  <2> QED BY <2>2, <2>3
<1>2. ASSUME NEW th \in Threads, NEW t \in Tasks, Complete(th, t)
      PROVE  UNCHANGED <<added[g], completed[g], performed[g]>>
  <2>1. GroupOf[t] # g
    BY <1>0, <1>2 DEF Complete, Unfinished
  <2> QED BY <1>2, <2>1 DEF Complete, TypeOK
<1>3. ASSUME NEW t \in Tasks, OnPerformed(t)
      PROVE  UNCHANGED <<added[g], completed[g], performed[g]>>
  <2>1. GroupOf[t] # g
    BY <1>0, <1>3 DEF OnPerformed, Unfinished, At
  <2> QED BY <1>3, <2>1 DEF OnPerformed, TypeOK
<1>4. ASSUME NEW h \in Groups, Update(h) \/ Collect(h)
      PROVE  UNCHANGED <<added[g], completed[g], performed[g]>>
  BY <1>4 DEF Update, Collect, Collected, TypeOK
<1>5. CASE UNCHANGED <<added, completed, performed>>
  BY <1>5
<1>6. CASE OtherStep
  BY <1>3, <1>4, <1>5, <1>6
     DEF OtherStep, WorkerStep, OwnerStep, PushTask, StartTask, Notify, Release, WaitForAll,
         LoadCounter, TestCounters, WaitTimeout, Cancel, groupVars, vars
<1> QED BY <1>1, <1>2, <1>6, StepKinds

THEOREM GroupIsQuiet == Spec => GoneIsQuiet
<1>1. GroupInv /\ [Next]_vars =>
        [\A g \in Groups : phase[g] = "gone" /\ ~(g \in MadeByWorker /\ Missed(g)) =>
            UNCHANGED <<added[g], completed[g], performed[g]>>]_vars
  BY QuietStep
<1> QED
  BY GroupInvariance, <1>1, PTL DEF Spec, GoneIsQuiet
=============================================================================
