--------------------------- MODULE SequenceLemmas ---------------------------
(***************************************************************************)
(* Facts about the sequence operators of the models that the theorem       *)
(* modules of the library do not state.  What they say of a recursive      *)
(* definition is proved by induction over a set of natural numbers.        *)
(***************************************************************************)
EXTENDS SequencesExt, SequenceTheorems, FiniteSetTheorems,
        WellFoundedInduction, TLAPS

NatBefore == {p \in Nat \X Nat : p[1] < p[2]}

(***************************************************************************)
(* A set of natural numbers has a least element.                           *)
(***************************************************************************)
LEMMA Least ==
    ASSUME NEW T, T \subseteq Nat, T # {}
    PROVE  \E x \in T : \A y \in T : x <= y
<1>1. IsWellFoundedOn(NatBefore, Nat)
  BY NatLessThanWellFounded, Zenon DEF OpToRel, NatBefore
<1>2. PICK x \in T : \A y \in T : <<y, x>> \notin NatBefore
  BY <1>1, WFMin
<1>3. ASSUME NEW y \in T
      PROVE  x <= y
  <2>1. <<y, x>> \in Nat \X Nat /\ x \in Nat /\ y \in Nat
    OBVIOUS
  <2>2. ~(y < x)
    BY <1>2, <2>1 DEF NatBefore
  <2> QED
    BY <2>1, <2>2
<1> QED
  BY <1>3

(***************************************************************************)
(* Induction, for a property that is given as a set.                       *)
(***************************************************************************)
LEMMA Induction ==
    ASSUME NEW T, 0 \in T, \A n \in Nat : n \in T => n + 1 \in T
    PROVE  Nat \subseteq T
<1> SUFFICES ASSUME Nat \ T # {}
             PROVE  FALSE
  OBVIOUS
<1>1. PICK x \in Nat \ T : \A y \in Nat \ T : x <= y
  <2>1. Nat \ T \subseteq Nat
    OBVIOUS
  <2> QED
    BY <2>1, Least
<1>2. x # 0
  BY <1>1
<1>3. x - 1 \in Nat /\ x - 1 \in T
  BY <1>1, <1>2
<1> QED
  BY <1>1, <1>3

(***************************************************************************)
(* Min is the least element.                                               *)
(***************************************************************************)
LEMMA MinIsLeast ==
    ASSUME NEW T, T \subseteq Nat, T # {}
    PROVE  Min(T) \in T /\ \A y \in T : Min(T) <= y
BY Least DEF Min

(***************************************************************************)
(* The smaller of two numbers is one of them.                              *)
(***************************************************************************)
LEMMA MinIsOne ==
    ASSUME NEW a \in Nat, NEW b \in Nat
    PROVE  Min({a, b}) \in {a, b}
<1>1. {a, b} \subseteq Nat /\ {a, b} # {}
  OBVIOUS
<1> QED
  BY <1>1, MinIsLeast

(***************************************************************************)
(* A finite set of natural numbers has a greatest element.                 *)
(***************************************************************************)
LEMMA Greatest ==
    ASSUME NEW T, T \subseteq Nat, IsFiniteSet(T), T # {}
    PROVE  \E x \in T : \A y \in T : x >= y
<1> DEFINE Bounded(F) == F # {} => \E x \in F : \A y \in F : x >= y
           Done == {n \in Nat : \A F \in SUBSET T : Cardinality(F) = n => Bounded(F)}
<1>1. 0 \in Done
  <2>1. ASSUME NEW F \in SUBSET T, Cardinality(F) = 0
        PROVE  Bounded(F)
    BY <2>1, FS_Subset, FS_EmptySet
  <2> QED
    BY <2>1
<1>2. ASSUME NEW n \in Nat, n \in Done
      PROVE  n + 1 \in Done
  <2>1. ASSUME NEW F \in SUBSET T, Cardinality(F) = n + 1, F # {}
        PROVE  \E x \in F : \A y \in F : x >= y
    <3>1. PICK z \in F : TRUE
      BY <2>1
    <3>2. IsFiniteSet(F)
      BY FS_Subset
    <3>3. Cardinality(F \ {z}) = n
      <4>1. Cardinality(F \ {z}) = Cardinality(F) - 1
        BY <3>1, <3>2, FS_RemoveElement
      <4> QED
        BY <2>1, <4>1
    <3>4. Bounded(F \ {z})
      BY <1>2, <3>3
    <3>5. CASE F \ {z} = {}
      BY <3>1, <3>5
    <3>6. CASE F \ {z} # {}
      <4>1. PICK x \in F \ {z} : \A y \in F \ {z} : x >= y
        BY <3>4, <3>6
      <4>2. x \in Nat /\ z \in Nat
        OBVIOUS
      <4>3. CASE x >= z
        BY <4>1, <4>3
      <4>4. CASE ~(x >= z)
        <5>1. \A y \in F : z >= y
          BY <4>1, <4>2, <4>4
        <5> QED
          BY <5>1
      <4> QED
        BY <4>3, <4>4
    <3> QED
      BY <3>5, <3>6
  <2> QED
    BY <2>1
<1>3. Nat \subseteq Done
  <2> HIDE DEF Done
  <2> QED
    BY <1>1, <1>2, Induction
<1>4. Cardinality(T) \in Nat
  BY FS_CardinalityType
<1> QED
  BY <1>3, <1>4

\* The recursion FlattenSeq is defined by.
IsFlatten(g, seqs, n) ==
    g = [i \in 1 .. n |-> IF i = 1 THEN seqs[i] ELSE g[i - 1] \o seqs[i]]

(***************************************************************************)
(* It has a solution for every sequence of sequences.                      *)
(***************************************************************************)
LEMMA FlattenExists ==
    ASSUME NEW seqs, NEW n \in Nat
    PROVE  \E g : IsFlatten(g, seqs, n)
<1> DEFINE T == {m \in Nat : \E g : IsFlatten(g, seqs, m)}
<1>1. 0 \in T
  <2>1. IsFlatten(<<>>, seqs, 0)
    BY DEF IsFlatten
  <2> QED
    BY <2>1
<1>2. ASSUME NEW m \in Nat, m \in T
      PROVE  m + 1 \in T
  <2>1. PICK g : IsFlatten(g, seqs, m)
    BY <1>2
  <2> DEFINE h == [i \in 1 .. m + 1 |->
                     IF i = m + 1 THEN (IF i = 1 THEN seqs[i] ELSE g[m] \o seqs[i])
                     ELSE g[i]]
  <2>2. IsFlatten(h, seqs, m + 1)
    <3>1. ASSUME NEW i \in 1 .. m + 1
          PROVE  h[i] = IF i = 1 THEN seqs[i] ELSE h[i - 1] \o seqs[i]
      <4>1. CASE i = m + 1
        BY <4>1
      <4>2. CASE i # m + 1
        <5>1. i \in 1 .. m /\ h[i] = g[i] /\ (i # 1 => h[i - 1] = g[i - 1])
          BY <4>2
        <5>2. g[i] = IF i = 1 THEN seqs[i] ELSE g[i - 1] \o seqs[i]
          BY <2>1, <5>1, Zenon DEF IsFlatten
        <5> QED
          BY <5>1, <5>2
      <4> QED
        BY <4>1, <4>2
    <3>2. h = [i \in 1 .. m + 1 |-> h[i]]
      OBVIOUS
    <3> HIDE DEF h
    <3> QED
      BY <3>1, <3>2 DEF IsFlatten
  <2> QED
    BY <2>2
<1> HIDE DEF T
<1>3. Nat \subseteq T
  BY <1>1, <1>2, Induction
<1> QED
  BY <1>3 DEF T

\* What FlattenSeq has after each step.
Flattening(s) == CHOOSE g : IsFlatten(g, s, Len(s))

(***************************************************************************)
(* FlattenSeq goes through the sequences one by one.                       *)
(***************************************************************************)
LEMMA FlattenSteps ==
    ASSUME NEW S, NEW s \in Seq(S)
    PROVE  /\ \A i \in 1 .. Len(s) :
                Flattening(s)[i] = IF i = 1 THEN s[i] ELSE Flattening(s)[i - 1] \o s[i]
           /\ FlattenSeq(s) = IF Len(s) = 0 THEN s ELSE Flattening(s)[Len(s)]
<1>1. IsFlatten(Flattening(s), s, Len(s))
  <2>1. \E f : IsFlatten(f, s, Len(s))
    BY LenProperties, FlattenExists, Zenon
  <2> QED
    BY <2>1, Zenon DEF Flattening
<1>2. FlattenSeq(s) = IF Len(s) = 0 THEN s ELSE Flattening(s)[Len(s)]
  BY Zenon DEF FlattenSeq, Flattening, IsFlatten
<1>3. \A i \in 1 .. Len(s) :
        Flattening(s)[i] = IF i = 1 THEN s[i] ELSE Flattening(s)[i - 1] \o s[i]
  BY <1>1, Zenon DEF IsFlatten
<1> QED
  BY <1>2, <1>3

(***************************************************************************)
(* One more sequence at the end changes nothing before it.                 *)
(***************************************************************************)
LEMMA FlattenAgree ==
    ASSUME NEW S, NEW s \in Seq(S), NEW e \in S
    PROVE  \A i \in 1 .. Len(s) : Flattening(Append(s, e))[i] = Flattening(s)[i]
<1> SUFFICES ASSUME NEW t, t = Append(s, e), NEW n \in Nat, n = Len(s)
             PROVE  \A i \in 1 .. n : Flattening(t)[i] = Flattening(s)[i]
  BY LenProperties
<1>1. /\ t \in Seq(S) /\ Len(t) = n + 1
      /\ \A i \in 1 .. n : t[i] = s[i]
  BY AppendProperties
<1> DEFINE T == {j \in Nat : \A i \in 1 .. n : i <= j => Flattening(t)[i] = Flattening(s)[i]}
<1>2. 0 \in T
  OBVIOUS
<1>3. ASSUME NEW j \in Nat, j \in T
      PROVE  j + 1 \in T
  <2>1. ASSUME NEW i \in 1 .. n, i = j + 1
        PROVE  Flattening(t)[i] = Flattening(s)[i]
    <3>1. i \in 1 .. Len(s) /\ i \in 1 .. Len(t) /\ s[i] = t[i]
      BY <1>1
    <3>2. /\ Flattening(s)[i] = IF i = 1 THEN s[i] ELSE Flattening(s)[i - 1] \o s[i]
          /\ Flattening(t)[i] = IF i = 1 THEN t[i] ELSE Flattening(t)[i - 1] \o t[i]
      BY <1>1, <3>1, FlattenSteps, Zenon
    <3>3. i # 1 => Flattening(t)[i - 1] = Flattening(s)[i - 1]
      BY <1>3, <2>1
    <3> QED
      BY <3>1, <3>2, <3>3
  <2>2. \A i \in 1 .. n : i <= j + 1 => i <= j \/ i = j + 1
    OBVIOUS
  <2> QED
    BY <1>3, <2>1, <2>2
<1> HIDE DEF T
<1>4. Nat \subseteq T
  BY <1>2, <1>3, Induction
<1> QED
  BY <1>4 DEF T

(***************************************************************************)
(* No sequence at all is an empty one.                                     *)
(***************************************************************************)
LEMMA FlattenEmpty == FlattenSeq(<<>>) = <<>>
BY EmptySeq DEF FlattenSeq

(***************************************************************************)
(* One more sequence comes at the end.                                     *)
(***************************************************************************)
LEMMA FlattenAppend ==
    ASSUME NEW S, NEW s \in Seq(Seq(S)), NEW e \in Seq(S)
    PROVE  FlattenSeq(Append(s, e)) = FlattenSeq(s) \o e
<1> SUFFICES ASSUME NEW t, t = Append(s, e), NEW n \in Nat, n = Len(s)
             PROVE  FlattenSeq(t) = FlattenSeq(s) \o e
  BY LenProperties
<1>1. t \in Seq(Seq(S)) /\ Len(t) = n + 1 /\ t[n + 1] = e
  BY AppendProperties
<1>2. FlattenSeq(t) = Flattening(t)[n + 1]
  <2>1. FlattenSeq(t) = IF Len(t) = 0 THEN t ELSE Flattening(t)[Len(t)]
    BY <1>1, FlattenSteps, Zenon
  <2> QED
    BY <1>1, <2>1
<1>3. Flattening(t)[n + 1] = IF n + 1 = 1 THEN t[n + 1] ELSE Flattening(t)[(n + 1) - 1] \o t[n + 1]
  <2>1. \A i \in 1 .. Len(t) :
          Flattening(t)[i] = IF i = 1 THEN t[i] ELSE Flattening(t)[i - 1] \o t[i]
    BY <1>1, FlattenSteps, Zenon
  <2>2. n + 1 \in 1 .. Len(t)
    BY <1>1
  <2> QED
    BY <2>1, <2>2, Zenon
<1>4. CASE n = 0
  <2>1. s = <<>>
    BY <1>4, EmptySeq
  <2>2. FlattenSeq(s) \o e = e
    BY <2>1, FlattenEmpty, ConcatEmptySeq
  <2> QED
    BY <1>1, <1>2, <1>3, <1>4, <2>2
<1>5. CASE n # 0
  <2>1. FlattenSeq(s) = Flattening(s)[n]
    <3>1. FlattenSeq(s) = IF Len(s) = 0 THEN s ELSE Flattening(s)[Len(s)]
      BY FlattenSteps, Zenon
    <3> QED
      BY <1>5, <3>1
  <2>2. Flattening(t)[n] = Flattening(s)[n]
    <3>1. \A i \in 1 .. Len(s) : Flattening(Append(s, e))[i] = Flattening(s)[i]
      BY FlattenAgree, Zenon
    <3> QED
      BY <1>5, <3>1
  <2>3. (n + 1) - 1 = n /\ n + 1 # 1
    BY <1>5
  <2> QED
    BY <1>1, <1>2, <1>3, <2>1, <2>2, <2>3
<1> QED
  BY <1>4, <1>5

(***************************************************************************)
(* It is a sequence of the same elements.                                  *)
(***************************************************************************)
LEMMA FlattenType ==
    ASSUME NEW S, NEW s \in Seq(Seq(S))
    PROVE  FlattenSeq(s) \in Seq(S)
<1> DEFINE T == {n \in Nat : \A r \in Seq(Seq(S)) : Len(r) = n => FlattenSeq(r) \in Seq(S)}
<1>1. 0 \in T
  <2>1. ASSUME NEW r \in Seq(Seq(S)), Len(r) = 0
        PROVE  FlattenSeq(r) \in Seq(S)
    BY <2>1, FlattenEmpty, EmptySeq
  <2> QED
    BY <2>1
<1>2. ASSUME NEW n \in Nat, n \in T
      PROVE  n + 1 \in T
  <2>1. ASSUME NEW r \in Seq(Seq(S)), Len(r) = n + 1
        PROVE  FlattenSeq(r) \in Seq(S)
    <3>1. PICK q \in Seq(Seq(S)), e \in Seq(S) : r = Append(q, e)
      <4>1. r # <<>>
        BY <2>1, EmptySeq
      <4> QED
        BY <4>1, SequenceEmptyOrAppend, Zenon
    <3>2. Len(q) = n
      BY <2>1, <3>1, AppendProperties
    <3>3. FlattenSeq(q) \in Seq(S)
      BY <1>2, <3>2
    <3> QED
      BY <3>1, <3>3, FlattenAppend, ConcatProperties
  <2> QED
    BY <2>1
<1> HIDE DEF T
<1>3. Nat \subseteq T
  BY <1>1, <1>2, Induction
<1> QED
  BY <1>3 DEF T

(***************************************************************************)
(* Flattening goes through concatenation.                                  *)
(***************************************************************************)
LEMMA FlattenConcat ==
    ASSUME NEW S, NEW s \in Seq(Seq(S)), NEW t \in Seq(Seq(S))
    PROVE  FlattenSeq(s \o t) = FlattenSeq(s) \o FlattenSeq(t)
<1> DEFINE T == {n \in Nat : \A r \in Seq(Seq(S)) :
                     Len(r) = n => FlattenSeq(s \o r) = FlattenSeq(s) \o FlattenSeq(r)}
<1>1. 0 \in T
  <2>1. ASSUME NEW r \in Seq(Seq(S)), Len(r) = 0
        PROVE  FlattenSeq(s \o r) = FlattenSeq(s) \o FlattenSeq(r)
    <3>1. r = <<>>
      BY <2>1, EmptySeq
    <3>2. s \o r = s /\ FlattenSeq(s) \o <<>> = FlattenSeq(s)
      BY <3>1, ConcatEmptySeq, FlattenType
    <3> QED
      BY <3>1, <3>2, FlattenEmpty
  <2> QED
    BY <2>1
<1>2. ASSUME NEW n \in Nat, n \in T
      PROVE  n + 1 \in T
  <2>1. ASSUME NEW r \in Seq(Seq(S)), Len(r) = n + 1
        PROVE  FlattenSeq(s \o r) = FlattenSeq(s) \o FlattenSeq(r)
    <3>1. PICK q \in Seq(Seq(S)), e \in Seq(S) : r = Append(q, e)
      <4>1. r # <<>>
        BY <2>1, EmptySeq
      <4> QED
        BY <4>1, SequenceEmptyOrAppend, Zenon
    <3>2. Len(q) = n
      BY <2>1, <3>1, AppendProperties
    <3>3. FlattenSeq(s \o q) = FlattenSeq(s) \o FlattenSeq(q)
      BY <1>2, <3>2
    <3>4. s \o r = Append(s \o q, e) /\ s \o q \in Seq(Seq(S))
      <4>1. s \o q \in Seq(Seq(S)) /\ <<e>> \in Seq(Seq(S))
        BY ConcatProperties
      <4>2. s \o (q \o <<e>>) = (s \o q) \o <<e>>
        BY <4>1, ConcatAssociative
      <4> QED
        BY <3>1, <4>1, <4>2, AppendIsConcat
    <3>5. FlattenSeq(s \o r) = (FlattenSeq(s) \o FlattenSeq(q)) \o e
      BY <3>3, <3>4, FlattenAppend
    <3>6. FlattenSeq(r) = FlattenSeq(q) \o e
      BY <3>1, FlattenAppend
    <3>7. FlattenSeq(s) \in Seq(S) /\ FlattenSeq(q) \in Seq(S)
      BY FlattenType
    <3>8. (FlattenSeq(s) \o FlattenSeq(q)) \o e = FlattenSeq(s) \o (FlattenSeq(q) \o e)
      BY <3>7, ConcatAssociative
    <3> QED
      BY <3>5, <3>6, <3>8
  <2> QED
    BY <2>1
<1> HIDE DEF T
<1>3. Nat \subseteq T
  BY <1>1, <1>2, Induction
<1> QED
  BY <1>3 DEF T

(***************************************************************************)
(* One sequence alone is itself.                                           *)
(***************************************************************************)
LEMMA FlattenOne ==
    ASSUME NEW S, NEW e \in Seq(S)
    PROVE  FlattenSeq(<<e>>) = e
<1>1. <<>> \in Seq(Seq(S)) /\ Append(<<>>, e) = <<e>>
  BY EmptySeq
<1>2. FlattenSeq(Append(<<>>, e)) = FlattenSeq(<<>>) \o e
  BY <1>1, FlattenAppend, Zenon
<1>3. <<>> \o e = e
  BY ConcatEmptySeq
<1> QED
  BY <1>1, <1>2, <1>3, FlattenEmpty

(***************************************************************************)
(* One sequence in front of the others.                                    *)
(***************************************************************************)
LEMMA FlattenCons ==
    ASSUME NEW S, NEW e \in Seq(S), NEW s \in Seq(Seq(S))
    PROVE  FlattenSeq(<<e>> \o s) = e \o FlattenSeq(s)
<1>1. <<e>> \in Seq(Seq(S))
  OBVIOUS
<1>2. FlattenSeq(<<e>> \o s) = FlattenSeq(<<e>>) \o FlattenSeq(s)
  BY <1>1, FlattenConcat, Zenon
<1> QED
  BY <1>2, FlattenOne
(***************************************************************************)
(* A sequence is its head and its tail.                                    *)
(***************************************************************************)
LEMMA HeadTailConcat ==
    ASSUME NEW S, NEW q \in Seq(S), q # <<>>
    PROVE  q = <<Head(q)>> \o Tail(q)
<1>1. Len(q) \in Nat \ {0} /\ 1 \in 1 .. Len(q) /\ Len(q) \in 1 .. Len(q)
  BY EmptySeq
<1>2. SubSeq(q, 1, Len(q)) = <<q[1]>> \o SubSeq(q, 1 + 1, Len(q))
  BY <1>1, SubSeqRecursiveFirst, Zenon
<1>3. SubSeq(q, 1, Len(q)) = q /\ Tail(q) = SubSeq(q, 2, Len(q)) /\ 1 + 1 = 2
  BY SubSeqFull, TailIsSubSeq
<1>4. Head(q) = q[1]
  BY <1>1
<1> QED
  BY <1>2, <1>3, <1>4

(***************************************************************************)
(* One element in front of a sequence.                                     *)
(***************************************************************************)
LEMMA ConsProperties ==
    ASSUME NEW S, NEW e \in S, NEW q \in Seq(S), NEW c, c = <<e>> \o q
    PROVE  /\ c \in Seq(S) /\ Len(c) = Len(q) + 1 /\ c[1] = e
           /\ \A i \in 1 .. Len(q) : c[i + 1] = q[i]
<1> SUFFICES ASSUME NEW d, d = <<e>>, c = d \o q
             PROVE  /\ c \in Seq(S) /\ Len(c) = Len(q) + 1 /\ c[1] = e
                    /\ \A i \in 1 .. Len(q) : c[i + 1] = q[i]
  OBVIOUS
<1>1. d \in Seq(S) /\ Len(d) = 1 /\ d[1] = e /\ Len(q) \in Nat
  BY LenProperties
<1>2. /\ c \in Seq(S) /\ Len(c) = Len(d) + Len(q)
      /\ \A i \in 1 .. Len(d) + Len(q) : c[i] = IF i <= Len(d) THEN d[i] ELSE q[i - Len(d)]
  <2>1. /\ d \o q \in Seq(S) /\ Len(d \o q) = Len(d) + Len(q)
        /\ \A i \in 1 .. Len(d) + Len(q) :
                (d \o q)[i] = IF i <= Len(d) THEN d[i] ELSE q[i - Len(d)]
    BY <1>1, ConcatProperties
  <2> QED
    BY <2>1, Zenon
<1>3. \A i \in 1 .. 1 + Len(q) : c[i] = IF i <= 1 THEN d[i] ELSE q[i - 1]
  BY <1>1, <1>2
<1>4. c[1] = e
  BY <1>1, <1>3
<1>5. ASSUME NEW i \in 1 .. Len(q)
      PROVE  c[i + 1] = q[i]
  <2>1. i + 1 \in 1 .. 1 + Len(q) /\ ~(i + 1 <= 1) /\ (i + 1) - 1 = i
    BY <1>1
  <2> QED
    BY <1>3, <2>1
<1>6. Len(c) = Len(q) + 1
  BY <1>1, <1>2
<1> QED
  BY <1>2, <1>4, <1>5, <1>6

(***************************************************************************)
(* Another element in its place.                                           *)
(***************************************************************************)
LEMMA ExceptNamed ==
    ASSUME NEW S, NEW v \in Seq(S), NEW n \in 1 .. Len(v), NEW b \in S,
           NEW c, c = [v EXCEPT ![n] = b]
    PROVE  /\ c \in Seq(S) /\ Len(c) = Len(v)
           /\ \A j \in 1 .. Len(v) : c[j] = IF j = n THEN b ELSE v[j]
<1>1. v \in [1 .. Len(v) -> S] /\ Len(v) \in Nat
  BY LenProperties
<1>2. c \in [1 .. Len(v) -> S]
  BY <1>1
<1>3. \A j \in 1 .. Len(v) : c[j] = IF j = n THEN b ELSE v[j]
  BY <1>1
<1>4. c \in Seq(S)
  BY <1>1, <1>2, SeqDef
<1>5. Len(c) = Len(v)
  BY <1>1, <1>2, <1>4, LenProperties
<1> QED
  BY <1>3, <1>4, <1>5

(***************************************************************************)
(* Another last element.                                                   *)
(***************************************************************************)
LEMMA ReplaceLast ==
    ASSUME NEW S, NEW q \in Seq(S), NEW a \in S, NEW b \in S
    PROVE  /\ Append(q, a)[Len(Append(q, a))] = a
           /\ [Append(q, a) EXCEPT ![Len(Append(q, a))] = b] = Append(q, b)
<1>a. /\ Append(q, a) \in Seq(S) /\ Len(Append(q, a)) = Len(q) + 1
      /\ Len(q) \in Nat
      /\ \A i \in 1 .. Len(q) : Append(q, a)[i] = q[i]
      /\ Append(q, a)[Len(q) + 1] = a
  BY AppendProperties, LenProperties
<1> SUFFICES ASSUME NEW v \in Seq(S), Len(v) = Len(q) + 1, Len(q) \in Nat,
                    \A i \in 1 .. Len(q) : v[i] = q[i], v[Len(q) + 1] = a
             PROVE  v[Len(v)] = a /\ [v EXCEPT ![Len(v)] = b] = Append(q, b)
  BY <1>a, Zenon
<1>0. PICK c : c = [v EXCEPT ![Len(v)] = b]
  OBVIOUS
<1>1. /\ v \in Seq(S) /\ Len(v) = Len(q) + 1 /\ Len(q) \in Nat
      /\ (\A i \in 1 .. Len(q) : v[i] = q[i]) /\ v[Len(q) + 1] = a
  OBVIOUS
<1>2. ASSUME c \in Seq(S), Len(c) = Len(v),
             \A j \in 1 .. Len(v) : c[j] = IF j = Len(v) THEN b ELSE v[j]
      PROVE  c = Append(q, b)
  <2> SUFFICES ASSUME NEW d, d = Append(q, b)
               PROVE  c = d
    OBVIOUS
  <2>1. /\ d \in Seq(S) /\ Len(d) = Len(q) + 1
        /\ (\A i \in 1 .. Len(q) : d[i] = q[i]) /\ d[Len(q) + 1] = b
    BY AppendProperties
  <2>2. ASSUME NEW j \in 1 .. Len(c)
        PROVE  c[j] = d[j]
    <3>1. CASE j = Len(q) + 1
      BY <1>1, <1>2, <2>1, <3>1
    <3>2. CASE j # Len(q) + 1
      <4>1. j \in 1 .. Len(q) /\ j # Len(v) /\ j \in 1 .. Len(v)
        BY <1>1, <1>2, <3>2
      <4>2. c[j] = v[j] /\ v[j] = q[j] /\ d[j] = q[j]
        BY <1>1, <1>2, <2>1, <4>1
      <4> QED
        BY <4>2
    <3> QED
      BY <3>1, <3>2
  <2>3. Len(c) = Len(d)
    BY <1>1, <1>2, <2>1
  <2> QED
    BY <1>2, <2>1, <2>2, <2>3, SeqEqual
<1>3. Len(v) \in 1 .. Len(v)
  BY <1>1
<1>4. c = Append(q, b)
  <2>2. PICK n \in 1 .. Len(v) : n = Len(v)
    BY <1>3
  <2>3. c = [v EXCEPT ![n] = b] /\ v \in Seq(S)
    BY <1>0, <1>1, <2>2
  <2>4. /\ c \in Seq(S) /\ Len(c) = Len(v)
        /\ \A j \in 1 .. Len(v) : c[j] = IF j = n THEN b ELSE v[j]
    BY <2>3, ExceptNamed
  <2> QED
    BY <1>2, <2>2, <2>4
<1> QED
  BY <1>0, <1>1, <1>4

----------------------------------------------------------------------------
\* What comes after the first n elements.
After(q, n) == SubSeq(q, n + 1, Len(q))

(***************************************************************************)
(* After drops n elements, and keeps the others in their order.            *)
(***************************************************************************)
LEMMA AfterType ==
    ASSUME NEW S, NEW q \in Seq(S), NEW n \in 0 .. Len(q)
    PROVE  /\ After(q, n) \in Seq(S)
           /\ Len(After(q, n)) = Len(q) - n
           /\ \A i \in 1 .. Len(q) - n : After(q, n)[i] = q[n + i]
<1>1. Len(q) \in Nat /\ n + 1 \in Int
  BY LenProperties
<1>2. \A i \in n + 1 .. Len(q) : q[i] \in S
  BY <1>1, ElementOfSeq
<1>3. /\ After(q, n) \in Seq(S)
      /\ Len(After(q, n)) = IF n + 1 <= Len(q) THEN Len(q) - (n + 1) + 1 ELSE 0
      /\ \A i \in 1 .. Len(q) - (n + 1) + 1 : After(q, n)[i] = q[(n + 1) + i - 1]
  BY <1>1, <1>2, SubSeqProperties DEF After
<1>4. Len(q) - (n + 1) + 1 = Len(q) - n
  BY <1>1
<1>5. ASSUME NEW i \in 1 .. Len(q) - n
      PROVE  After(q, n)[i] = q[n + i]
  <2>1. (n + 1) + i - 1 = n + i
    BY <1>1
  <2> QED
    BY <1>3, <1>4, <2>1
<1>6. Len(After(q, n)) = Len(q) - n
  <2>1. Len(After(q, n)) = IF n + 1 <= Len(q) THEN Len(q) - (n + 1) + 1 ELSE 0
    BY <1>3
  <2> QED
    BY <1>1, <2>1
<1> QED
  BY <1>3, <1>5, <1>6, Zenon

(***************************************************************************)
(* The first n elements and those after them are the whole.                *)
(***************************************************************************)
LEMMA AfterSplit ==
    ASSUME NEW S, NEW q \in Seq(S), NEW n \in 0 .. Len(q)
    PROVE  /\ SubSeq(q, 1, n) \in Seq(S)
           /\ SubSeq(q, 1, n) \o After(q, n) = q
<1>1. Len(q) \in Nat /\ 1 \in 1 .. Len(q) + 1 /\ n \in 1 - 1 .. Len(q) /\ Len(q) \in n .. Len(q)
  BY LenProperties
<1>2. SubSeq(q, 1, n) \o SubSeq(q, n + 1, Len(q)) = SubSeq(q, 1, Len(q))
  BY <1>1, ConcatAdjacentSubSeq
<1>3. SubSeq(q, 1, Len(q)) = q
  BY SubSeqFull
<1>4. SubSeq(q, 1, n) \in Seq(S)
  <2>1. \A i \in 1 .. n : q[i] \in S
    BY <1>1, ElementOfSeq
  <2>2. 1 \in Int /\ n \in Int
    BY <1>1
  <2> QED
    BY <2>1, <2>2, SubSeqProperties
<1> QED
  BY <1>2, <1>3, <1>4 DEF After

(***************************************************************************)
(* Nothing is dropped, or all.                                             *)
(***************************************************************************)
LEMMA AfterEnds ==
    ASSUME NEW S, NEW q \in Seq(S)
    PROVE  After(q, 0) = q /\ After(q, Len(q)) = <<>>
<1>1. Len(q) \in Nat
  BY LenProperties
<1>2. SubSeq(q, 1, Len(q)) = q /\ SubSeq(q, Len(q) + 1, Len(q)) = <<>>
  BY <1>1, SubSeqFull, SubSeqEmpty
<1> QED
  BY <1>1, <1>2 DEF After

(***************************************************************************)
(* What is dropped from the first of two sequences leaves the second.      *)
(***************************************************************************)
LEMMA AfterConcat ==
    ASSUME NEW S, NEW q \in Seq(S), NEW r \in Seq(S), NEW n \in 0 .. Len(q)
    PROVE  After(q \o r, n) = After(q, n) \o r
<1>1. Len(q) \in Nat /\ Len(r) \in Nat
  BY LenProperties
<1>2. /\ q \o r \in Seq(S) /\ Len(q \o r) = Len(q) + Len(r)
      /\ \A i \in 1 .. Len(q) + Len(r) :
            (q \o r)[i] = IF i <= Len(q) THEN q[i] ELSE r[i - Len(q)]
  BY ConcatProperties
<1>3. n \in 0 .. Len(q \o r)
  BY <1>1, <1>2
<1>4. /\ After(q \o r, n) \in Seq(S)
      /\ Len(After(q \o r, n)) = Len(q \o r) - n
      /\ \A i \in 1 .. Len(q \o r) - n : After(q \o r, n)[i] = (q \o r)[n + i]
  BY <1>2, <1>3, AfterType, Zenon
<1>5. /\ After(q, n) \in Seq(S)
      /\ Len(After(q, n)) = Len(q) - n
      /\ \A i \in 1 .. Len(q) - n : After(q, n)[i] = q[n + i]
  BY AfterType
<1>6. /\ After(q, n) \o r \in Seq(S)
      /\ Len(After(q, n) \o r) = Len(After(q, n)) + Len(r)
      /\ \A i \in 1 .. Len(After(q, n)) + Len(r) :
            (After(q, n) \o r)[i] = IF i <= Len(After(q, n)) THEN After(q, n)[i]
                                    ELSE r[i - Len(After(q, n))]
  BY <1>5, ConcatProperties, Zenon
<1>7. ASSUME NEW i \in 1 .. Len(q) + Len(r) - n
      PROVE  After(q \o r, n)[i] = (After(q, n) \o r)[i]
  <2>1. After(q \o r, n)[i] = IF n + i <= Len(q) THEN q[n + i] ELSE r[n + i - Len(q)]
    BY <1>1, <1>2, <1>4
  <2>2. (After(q, n) \o r)[i] = IF i <= Len(q) - n THEN q[n + i] ELSE r[i - (Len(q) - n)]
    BY <1>1, <1>5, <1>6
  <2>3. i - (Len(q) - n) = n + i - Len(q)
    BY <1>1
  <2> QED
    BY <1>1, <2>1, <2>2, <2>3
<1>8. Len(After(q \o r, n)) = Len(After(q, n) \o r) /\ Len(After(q \o r, n)) = Len(q) + Len(r) - n
  BY <1>1, <1>2, <1>4, <1>5, <1>6
<1> QED
  BY <1>4, <1>6, <1>7, <1>8, SeqEqual, Zenon

(***************************************************************************)
(* The length of the first of two sequences is within that of both.        *)
(***************************************************************************)
LEMMA WithinConcat ==
    ASSUME NEW S, NEW q \in Seq(S), NEW r \in Seq(S), NEW n \in Nat, n <= Len(q)
    PROVE  n \in 0 .. Len(q) /\ n \in 0 .. Len(q \o r)
<1>1. Len(q) \in Nat /\ Len(r) \in Nat /\ Len(q \o r) = Len(q) + Len(r)
  BY LenProperties, ConcatProperties
<1> QED
  BY <1>1

(***************************************************************************)
(* To drop elements twice is to drop them all.                             *)
(***************************************************************************)
LEMMA AfterAfter ==
    ASSUME NEW S, NEW q \in Seq(S), NEW n \in 0 .. Len(q), NEW m \in 0 .. Len(q) - n
    PROVE  After(After(q, n), m) = After(q, n + m)
<1>1. Len(q) \in Nat /\ n + m \in 0 .. Len(q)
  BY LenProperties
<1>2. /\ After(q, n) \in Seq(S)
      /\ Len(After(q, n)) = Len(q) - n
      /\ \A i \in 1 .. Len(q) - n : After(q, n)[i] = q[n + i]
  BY AfterType
<1>3. m \in 0 .. Len(After(q, n))
  BY <1>2
<1>4. /\ After(After(q, n), m) \in Seq(S)
      /\ Len(After(After(q, n), m)) = Len(After(q, n)) - m
      /\ \A i \in 1 .. Len(After(q, n)) - m : After(After(q, n), m)[i] = After(q, n)[m + i]
  BY <1>2, <1>3, AfterType, Zenon
<1>5. /\ After(q, n + m) \in Seq(S)
      /\ Len(After(q, n + m)) = Len(q) - (n + m)
      /\ \A i \in 1 .. Len(q) - (n + m) : After(q, n + m)[i] = q[(n + m) + i]
  BY <1>1, AfterType, Zenon
<1>6. ASSUME NEW i \in 1 .. Len(q) - (n + m)
      PROVE  After(After(q, n), m)[i] = After(q, n + m)[i]
  <2>1. i \in 1 .. Len(After(q, n)) - m /\ m + i \in 1 .. Len(q) - n
    BY <1>1, <1>2
  <2>2. n + (m + i) = (n + m) + i
    BY <1>1
  <2> QED
    BY <1>2, <1>4, <1>5, <2>1, <2>2
<1>7. Len(After(After(q, n), m)) = Len(After(q, n + m))
  BY <1>1, <1>2, <1>4, <1>5
<1> QED
  BY <1>4, <1>5, <1>6, <1>7, SeqEqual, Zenon

----------------------------------------------------------------------------
(* Where the parts of a sequence are.                                       *)

(***************************************************************************)
(* A function on the first numbers is a sequence.                          *)
(***************************************************************************)
LEMMA TableIsSeq ==
    ASSUME NEW S, NEW n \in Nat, NEW q \in [1 .. n -> S]
    PROVE  q \in Seq(S) /\ Len(q) = n
<1>1. q \in Seq(S)
  BY SeqDef
<1>2. DOMAIN q = 1 .. n
  OBVIOUS
<1> QED
  BY <1>1, <1>2, LenProperties

\* c is a and then b.
JoinedFrom(S, a, b, c) ==
    /\ c \in Seq(S) /\ Len(a) \in Nat /\ Len(b) \in Nat
    /\ Len(c) = Len(a) + Len(b)
    /\ \A i \in 1 .. Len(a) : c[i] = a[i]
    /\ \A i \in 1 .. Len(b) : c[Len(a) + i] = b[i]

(***************************************************************************)
(* Where each of two sequences is in both together.                        *)
(***************************************************************************)
LEMMA ConcatPlaces ==
    ASSUME NEW S, NEW a \in Seq(S), NEW b \in Seq(S), NEW c, c = a \o b
    PROVE  JoinedFrom(S, a, b, c)
<1>1. Len(a) \in Nat /\ Len(b) \in Nat
  BY LenProperties
<1>2. /\ a \o b \in Seq(S) /\ Len(a \o b) = Len(a) + Len(b)
      /\ \A i \in 1 .. Len(a) + Len(b) : (a \o b)[i] = IF i <= Len(a) THEN a[i] ELSE b[i - Len(a)]
  BY ConcatProperties
<1>3. ASSUME NEW i \in 1 .. Len(b)
      PROVE  c[Len(a) + i] = b[i]
  <2>1. /\ Len(a) + i \in 1 .. Len(a) + Len(b) /\ ~(Len(a) + i <= Len(a))
        /\ Len(a) + i - Len(a) = i
    BY <1>1
  <2> QED
    BY <1>2, <2>1
<1>4. ASSUME NEW i \in 1 .. Len(a)
      PROVE  c[i] = a[i]
  <2>1. i \in 1 .. Len(a) + Len(b) /\ i <= Len(a)
    BY <1>1
  <2> QED
    BY <1>2, <2>1
<1> QED
  BY <1>1, <1>2, <1>3, <1>4 DEF JoinedFrom

\* d comes after a, up to b, in all.
IsPart(S, all, a, d, b) ==
    /\ a \in Seq(S) /\ b \in Seq(S) /\ all \in Seq(S) /\ d \in Seq(S)
    /\ Len(b) = Len(a) + Len(d)
    /\ Len(b) <= Len(all)
    /\ \A i \in 1 .. Len(d) : all[Len(a) + i] = d[i]

(***************************************************************************)
(* Where each of several sequences is in all of them together.             *)
(***************************************************************************)
LEMMA FlattenPlaces ==
    ASSUME NEW S, NEW q \in Seq(Seq(S)), NEW k \in 1 .. Len(q),
           NEW a, a = FlattenSeq(SubSeq(q, 1, k - 1)),
           NEW b, b = FlattenSeq(SubSeq(q, 1, k)),
           NEW all, all = FlattenSeq(q)
    PROVE  IsPart(S, all, a, q[k], b)
<1>1. Len(q) \in Nat /\ q[k] \in Seq(S) /\ k \in 0 .. Len(q) /\ k - 1 \in 0 .. Len(q)
  BY LenProperties, ElementOfSeq
<1>2. /\ SubSeq(q, 1, k) \in Seq(Seq(S)) /\ SubSeq(q, 1, k - 1) \in Seq(Seq(S))
      /\ SubSeq(q, 1, k) \o After(q, k) = q
      /\ After(q, k) \in Seq(Seq(S))
  BY <1>1, AfterSplit, AfterType
<1>3. SubSeq(q, 1, k) = Append(SubSeq(q, 1, k - 1), q[k])
  <2>1. SubSeq(q, 1, k) = SubSeq(q, 1, k - 1) \o <<q[k]>>
    BY <1>1, SubSeqRecursiveSecond
  <2> QED
    BY <1>1, <1>2, <2>1, AppendIsConcat
<1>4. b = a \o q[k]
  BY <1>1, <1>2, <1>3, FlattenAppend
<1>5. PICK c : c = FlattenSeq(After(q, k))
  OBVIOUS
<1>6. all = b \o c
  BY <1>2, <1>5, FlattenConcat, Zenon
<1>7. a \in Seq(S) /\ b \in Seq(S) /\ all \in Seq(S) /\ c \in Seq(S)
  BY <1>2, <1>5, FlattenType, Zenon
<1>8. /\ Len(a) \in Nat /\ Len(q[k]) \in Nat
      /\ Len(b) = Len(a) + Len(q[k])
      /\ \A i \in 1 .. Len(q[k]) : b[Len(a) + i] = q[k][i]
  <2>1. PICK d \in Seq(S) : d = q[k]
    BY <1>1
  <2>2. JoinedFrom(S, a, d, b)
    BY <1>4, <1>7, <2>1, ConcatPlaces, Zenon
  <2> QED
    BY <2>1, <2>2, Zenon DEF JoinedFrom
<1>9. /\ Len(b) \in Nat /\ Len(c) \in Nat
      /\ Len(all) = Len(b) + Len(c)
      /\ \A i \in 1 .. Len(b) : all[i] = b[i]
  <2>1. JoinedFrom(S, b, c, all)
    BY <1>6, <1>7, ConcatPlaces, Zenon
  <2> QED
    BY <1>8, <2>1 DEF JoinedFrom
<1>10. ASSUME NEW i \in 1 .. Len(q[k])
       PROVE  all[Len(a) + i] = q[k][i]
  <2>1. Len(a) + i \in 1 .. Len(b)
    <3>1. PICK x \in Nat, y \in Nat : x = Len(a) /\ y = Len(q[k])
      BY <1>8, Zenon
    <3>2. i \in 1 .. y /\ Len(b) = x + y
      BY <1>8, <3>1, Zenon
    <3>3. x + i \in 1 .. x + y
      BY <3>2
    <3> QED
      BY <3>1, <3>2, <3>3, Zenon
  <2> QED
    BY <1>8, <1>9, <2>1
<1>11. Len(b) <= Len(all)
  BY <1>9
<1> QED
  BY <1>1, <1>7, <1>8, <1>10, <1>11, Zenon DEF IsPart
=============================================================================
