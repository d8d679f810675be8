------------------------- MODULE WorkerClientProofs -------------------------
(***************************************************************************)
(* What holds of a client for every head, limit, buffer, body and socket:  *)
(* its types; that the body is counted; that a socket with room for the    *)
(* whole answer gets it; that the answer goes out in order; and, for a     *)
(* head that fits the first buffer and does not pause between its lines,   *)
(* that the connection is one exchange.                                    *)
(***************************************************************************)
EXTENDS WorkerClient, SequenceLemmas

Buffer == [absolute : Nat, first : Nat \ {0}, size : 1 .. Capacity]

\* The buffers follow each other, and all but the last are full.
Tiled(chain) ==
    \A i \in 1 .. Len(chain) - 1 :
        /\ chain[i].size = Capacity
        /\ chain[i + 1].first = chain[i].first + Capacity

\* The chain holds the units up to g, with all that come after p.
Covers(chain, p, g) ==
    /\ chain \in Seq(Buffer) /\ Tiled(chain)
    /\ chain # <<>> => chain[1].first <= p + 1 /\ End(chain[Len(chain)]) = g

\* The chain c is another one that ended at g, with n units more.
ReadOn(chain, p, g, n, c) ==
    /\ Covers(c, p, g + n)
    /\ c = <<>> => chain = <<>> /\ n = 0
    /\ chain # <<>> => c[1].first = chain[1].first /\ c[1].absolute = chain[1].absolute
    /\ chain = <<>> /\ n # 0 => c[1].first = g + 1 /\ c[1].absolute = 0

\* A chain that ends at g goes on, up to h, in a second one.
Joins(f, new, g, h) ==
    /\ new = <<>> => g = h
    /\ new # <<>> => new[1].first = g + 1 /\ End(new[Len(new)]) = h
    /\ f # <<>> /\ new # <<>> => f[Len(f)].size = Capacity

-----------------------------------------------------------------------------
(***************************************************************************)
(* The head ends where its last line does, and has a first line.           *)
(***************************************************************************)
LEMMA HeadEnd ==
    /\ HeadLength \in HeadEnds /\ HeadLength \in Nat \ {0}
    /\ \A e \in HeadEnds : e \in Nat \ {0} /\ e <= HeadLength
    /\ \E e \in HeadEnds : e < HeadLength
<1>1. HeadEnds \subseteq Nat /\ IsFiniteSet(HeadEnds) /\ HeadEnds # {}
  BY PeerAssumption, FS_EmptySet
<1>2. \E x \in HeadEnds : \A y \in HeadEnds : x >= y
  BY <1>1, Greatest
<1>3. HeadLength \in HeadEnds /\ \A e \in HeadEnds : HeadLength >= e
  BY <1>2 DEF HeadLength, Max
<1>4. \E e \in HeadEnds : e # HeadLength
  <2>1. HeadEnds # {HeadLength}
    BY PeerAssumption, FS_Singleton
  <2> QED
    BY <1>1, <2>1
<1> QED
  BY <1>1, <1>3, <1>4, PeerAssumption

(***************************************************************************)
(* In a tiled chain the buffers begin one after another.                   *)
(***************************************************************************)
LEMMA TiledGrows ==
    ASSUME NEW chain \in Seq(Buffer), Tiled(chain),
           NEW i \in 1 .. Len(chain), NEW j \in i .. Len(chain)
    PROVE  chain[i].first <= chain[j].first
<1> DEFINE Done == {d \in Nat : i + d <= Len(chain) => chain[i].first <= chain[i + d].first}
<1>1. /\ Len(chain) \in Nat /\ Capacity \in Nat
      /\ \A k \in 1 .. Len(chain) : chain[k] \in Buffer /\ chain[k].first \in Nat
  <2>1. Len(chain) \in Nat /\ \A k \in 1 .. Len(chain) : chain[k] \in Buffer
    BY LenProperties, ElementOfSeq
  <2>2. \A c \in Buffer : c.first \in Nat
    BY DEF Buffer
  <2> QED
    BY <2>1, <2>2, ChainAssumption
<1>2. 0 \in Done
  BY <1>1
<1>3. ASSUME NEW d \in Nat, d \in Done
      PROVE  d + 1 \in Done
  <2>1. ASSUME i + (d + 1) <= Len(chain)
        PROVE  chain[i].first <= chain[i + (d + 1)].first
    <3>1. PICK k \in 1 .. Len(chain) - 1 : k = i + d
      BY <1>1, <2>1
    <3>2. chain[i].first <= chain[k].first
      BY <1>1, <1>3, <3>1
    <3>3. chain[k + 1].first = chain[k].first + Capacity
      BY <3>1 DEF Tiled
    <3>4. k \in 1 .. Len(chain) /\ k + 1 \in 1 .. Len(chain) /\ i + (d + 1) = k + 1
      BY <1>1, <3>1
    <3>5. chain[i].first <= chain[k + 1].first
      BY <1>1, <3>2, <3>3, <3>4
    <3> QED
      BY <3>4, <3>5
  <2> QED
    BY <2>1
<1>4. Nat \subseteq Done
  <2> HIDE DEF Done
  <2> QED
    BY <1>2, <1>3, Induction
<1>5. PICK d \in Nat : j = i + d /\ i + d <= Len(chain)
  <2>1. j - i \in Nat /\ j = i + (j - i) /\ j <= Len(chain)
    BY <1>1
  <2> QED
    BY <2>1
<1> QED
  BY <1>4, <1>5

(***************************************************************************)
(* What the empty buffers are released from covers as much.                *)
(***************************************************************************)
LEMMA ReleaseCovers ==
    ASSUME NEW chain, NEW b \in Nat, NEW p \in Nat, b <= p, NEW g \in Nat,
           Covers(chain, b, g)
    PROVE  /\ Covers(ReleaseEmpty(chain, p), p, g)
           /\ ReleaseEmpty(chain, p) = <<>> => chain = <<>> \/ g <= p
           /\ ReleaseEmpty(chain, p) # <<>> => p < End(ReleaseEmpty(chain, p)[1])
           /\ chain # <<>> /\ p < End(chain[1]) => ReleaseEmpty(chain, p) = chain
<1>1. /\ chain \in Seq(Buffer) /\ Tiled(chain) /\ Len(chain) \in Nat
      /\ DOMAIN chain = 1 .. Len(chain) /\ Capacity \in Nat \ {0}
      /\ \A k \in 1 .. Len(chain) :
            /\ chain[k] \in Buffer /\ chain[k].first \in Nat \ {0}
            /\ chain[k].size \in 1 .. Capacity
            /\ End(chain[k]) = chain[k].first + chain[k].size - 1 /\ End(chain[k]) \in Nat
      /\ chain = <<>> <=> Len(chain) = 0
      /\ chain # <<>> => chain[1].first <= b + 1 /\ End(chain[Len(chain)]) = g
  <2>1. /\ chain \in Seq(Buffer) /\ Tiled(chain)
        /\ chain # <<>> => chain[1].first <= b + 1 /\ End(chain[Len(chain)]) = g
    BY DEF Covers
  <2>2. /\ Len(chain) \in Nat /\ DOMAIN chain = 1 .. Len(chain)
        /\ \A k \in 1 .. Len(chain) : chain[k] \in Buffer
    BY <2>1, LenProperties, ElementOfSeq
  <2>3. chain = <<>> <=> Len(chain) = 0
    BY <2>1, EmptySeq
  <2>4. Capacity \in Nat \ {0}
    BY ChainAssumption
  <2>5. ASSUME NEW c \in Buffer
        PROVE  /\ c.first \in Nat \ {0} /\ c.size \in 1 .. Capacity
               /\ End(c) = c.first + c.size - 1 /\ End(c) \in Nat
    BY <2>4 DEF Buffer, End
  <2> QED
    BY <2>1, <2>2, <2>3, <2>4, <2>5
<1> DEFINE kept == {i \in DOMAIN chain : p < End(chain[i])}
<1>2. CASE kept = {}
  <2>1. ReleaseEmpty(chain, p) = <<>>
    BY <1>2 DEF ReleaseEmpty
  <2>2. Covers(<<>>, p, g)
    BY EmptySeq DEF Covers, Tiled
  <2>3. chain # <<>> => g <= p
    BY <1>1, <1>2
  <2>4. chain # <<>> => ~(p < End(chain[1]))
    BY <1>1, <1>2, SMTT(60)
  <2> QED
    BY <2>1, <2>2, <2>3, <2>4
<1>3. CASE kept # {}
  <2>1. PICK m \in kept : m = Min(kept) /\ \A y \in kept : m <= y
    <3>1. kept \subseteq Nat
      BY <1>1
    <3> QED
      BY <1>3, <3>1, MinIsLeast
  <2>2. m \in 1 .. Len(chain) /\ p < End(chain[m]) /\ chain # <<>>
    BY <1>1, <2>1
  <2>3. PICK n \in 0 .. Len(chain) : n = m - 1
    BY <1>1, <2>2
  <2>4. PICK r : r = ReleaseEmpty(chain, p)
    OBVIOUS
  <2>5. r = After(chain, n)
    <3>1. r = SubSeq(chain, m, Len(chain))
      BY <1>3, <2>1, <2>4 DEF ReleaseEmpty
    <3>2. m = n + 1
      BY <1>1, <2>2, <2>3
    <3> QED
      BY <3>1, <3>2 DEF After
  <2>6. /\ r \in Seq(Buffer) /\ Len(r) = Len(chain) - n
        /\ \A i \in 1 .. Len(chain) - n : r[i] = chain[n + i]
    <3>1. n \in 0 .. Len(chain) /\ chain \in Seq(Buffer)
      BY <1>1, <2>3
    <3>2. /\ After(chain, n) \in Seq(Buffer) /\ Len(After(chain, n)) = Len(chain) - n
          /\ \A i \in 1 .. Len(chain) - n : After(chain, n)[i] = chain[n + i]
      BY <3>1, AfterType
    <3> QED
      BY <2>5, <3>2, Zenon
  <2>a. /\ Len(chain) \in Nat /\ m \in 1 .. Len(chain) /\ m \in Nat
        /\ n \in Nat /\ n = m - 1 /\ Len(r) = Len(chain) - n
    BY <1>1, <2>2, <2>3, <2>6
  <2>7. Tiled(r)
    <3> SUFFICES ASSUME NEW i \in 1 .. Len(r) - 1
                 PROVE  r[i].size = Capacity /\ r[i + 1].first = r[i].first + Capacity
      BY DEF Tiled
    <3>1. r[i] = chain[n + i] /\ r[i + 1] = chain[n + (i + 1)]
      BY <1>1, <2>6, SMTT(60)
    <3>2. n + i \in 1 .. Len(chain) - 1 /\ n + (i + 1) = (n + i) + 1
      BY <2>a
    <3>3. /\ chain[n + i].size = Capacity
          /\ chain[(n + i) + 1].first = chain[n + i].first + Capacity
      BY <1>1, <3>2 DEF Tiled
    <3> QED
      BY <3>1, <3>2, <3>3
  <2>8. r # <<>> /\ r[1] = chain[m] /\ r[Len(r)] = chain[Len(chain)]
    <3>1. 1 \in 1 .. Len(r) /\ Len(r) \in 1 .. Len(r) /\ n + 1 = m /\ n + Len(r) = Len(chain)
      BY <2>a
    <3>2. r # <<>>
      BY <2>6, <3>1, EmptySeq
    <3> QED
      BY <2>6, <3>1, <3>2
  <2>9. r[1].first <= p + 1
    <3>1. CASE m = 1
      BY <1>1, <2>2, <2>8, <3>1
    <3>2. CASE m # 1
      <4>1. PICK k \in 1 .. Len(chain) - 1 : k = m - 1
        BY <2>a, <3>2
      <4>2. k \notin kept
        <5> SUFFICES ASSUME k \in kept
                     PROVE  FALSE
          OBVIOUS
        <5>1. m <= k
          BY <2>1
        <5> QED
          BY <2>a, <4>1, <5>1
      <4>3. k \in 1 .. Len(chain) /\ k \in DOMAIN chain /\ ~(p < End(chain[k]))
        <5>1. k \in 1 .. Len(chain)
          BY <2>a, <4>1
        <5> QED
          BY <1>1, <4>2, <5>1
      <4>4. chain[k].size = Capacity /\ chain[k + 1].first = chain[k].first + Capacity
        BY <1>1, <4>1 DEF Tiled
      <4>5. /\ chain[k].first \in Nat
            /\ End(chain[k]) = chain[k].first + chain[k].size - 1 /\ Capacity \in Nat
        BY <1>1, <4>3
      <4>6. chain[k + 1].first <= p + 1
        BY <4>3, <4>4, <4>5
      <4>7. k + 1 = m
        BY <2>a, <4>1
      <4> QED
        BY <2>8, <4>6, <4>7
    <3> QED
      BY <3>1, <3>2
  <2>10. Covers(r, p, g) /\ p < End(r[1]) /\ r # <<>>
    BY <1>1, <2>2, <2>6, <2>7, <2>8, <2>9 DEF Covers
  <2>11. p < End(chain[1]) => r = chain
    <3> SUFFICES ASSUME p < End(chain[1])
                 PROVE  r = chain
      OBVIOUS
    <3>1. 1 \in kept
      BY <1>1, <2>2
    <3>2. m <= 1
      BY <2>1, <3>1
    <3>3. m = 1 /\ n = 0
      BY <2>a, <3>2
    <3> QED
      BY <1>1, <2>5, <3>3, AfterEnds
  <2> QED
    BY <2>4, <2>10, <2>11
<1> QED
  BY <1>2, <1>3

(***************************************************************************)
(* What a chain in Buffer's terms gives a proof: its elements' numbers.     *)
(***************************************************************************)
LEMMA ChainFacts ==
    ASSUME NEW chain \in Seq(Buffer)
    PROVE  /\ Len(chain) \in Nat /\ DOMAIN chain = 1 .. Len(chain)
           /\ Capacity \in Nat \ {0}
           /\ chain = <<>> <=> Len(chain) = 0
           /\ \A k \in 1 .. Len(chain) :
                 /\ chain[k] \in Buffer /\ chain[k].first \in Nat \ {0}
                 /\ chain[k].absolute \in Nat /\ chain[k].size \in 1 .. Capacity
                 /\ End(chain[k]) = chain[k].first + chain[k].size - 1
                 /\ End(chain[k]) \in Nat /\ chain[k].first <= End(chain[k])
<1>2. /\ Len(chain) \in Nat /\ DOMAIN chain = 1 .. Len(chain)
      /\ \A k \in 1 .. Len(chain) : chain[k] \in Buffer
  BY LenProperties, ElementOfSeq
<1>3. chain = <<>> <=> Len(chain) = 0
  BY EmptySeq
<1>4. Capacity \in Nat \ {0}
  BY ChainAssumption
<1>5. ASSUME NEW c \in Buffer
      PROVE  /\ c.first \in Nat \ {0} /\ c.absolute \in Nat /\ c.size \in 1 .. Capacity
             /\ End(c) = c.first + c.size - 1 /\ End(c) \in Nat /\ c.first <= End(c)
  BY <1>4 DEF Buffer, End
<1> QED
  BY <1>2, <1>3, <1>4, <1>5

\* The pieces of u are the units after a up to b, without a gap.
Joined(u, a, b) ==
    /\ u \in Seq(Interval) /\ u # <<>>
    /\ u[1][1] = a + 1 /\ u[Len(u)][2] = b
    /\ \A i \in 1 .. Len(u) : u[i][1] <= u[i][2] /\ a < u[i][2] /\ u[i][2] <= b
    /\ \A i \in 1 .. Len(u) - 1 : u[i + 1][1] = u[i][2] + 1

(***************************************************************************)
(* The pieces processInput gives away have no gap.                          *)
(***************************************************************************)
LEMMA UnreadJoined ==
    ASSUME NEW chain, NEW p \in Nat, NEW g \in Nat, Covers(chain, p, g), chain # <<>>,
           NEW last \in Nat, p < last, last <= g
    PROVE  Joined(Unread(chain, p, last), p, last)
<1>1. PICK r : r = ReleaseEmpty(chain, p)
  OBVIOUS
<1>2. Covers(r, p, g) /\ r # <<>> /\ p < End(r[1])
  <2>1. /\ Covers(r, p, g)
        /\ r = <<>> => chain = <<>> \/ g <= p
        /\ r # <<>> => p < End(r[1])
    BY <1>1, ReleaseCovers
  <2>2. ~(g <= p)
    OBVIOUS
  <2> QED
    BY <2>1, <2>2
<1>3. r \in Seq(Buffer) /\ Tiled(r) /\ r[1].first <= p + 1 /\ End(r[Len(r)]) = g
  BY <1>2 DEF Covers
<1>4. /\ Len(r) \in Nat /\ DOMAIN r = 1 .. Len(r) /\ Len(r) # 0
      /\ \A k \in 1 .. Len(r) :
            /\ r[k].first \in Nat \ {0} /\ r[k].size \in 1 .. Capacity
            /\ End(r[k]) = r[k].first + r[k].size - 1
            /\ End(r[k]) \in Nat /\ r[k].first <= End(r[k])
  BY <1>2, <1>3, ChainFacts
<1> DEFINE reach == {i \in DOMAIN r : last <= End(r[i])}
<1>5. PICK n \in reach : n = Min(reach) /\ \A i \in reach : n <= i
  <2>1. Len(r) \in reach /\ reach \subseteq Nat
    BY <1>3, <1>4
  <2> QED
    BY <2>1, MinIsLeast
<1>6. n \in 1 .. Len(r) /\ n \in Nat /\ last <= End(r[n])
  BY <1>4, <1>5
<1>7. ASSUME NEW i \in 1 .. Len(r), i < n
      PROVE  End(r[i]) < last
  <2>1. i \notin reach
    <3> SUFFICES ASSUME i \in reach
                 PROVE  FALSE
      OBVIOUS
    <3>1. n <= i
      BY <1>5
    <3> QED
      BY <1>6, <1>7, <3>1
  <2> QED
    BY <1>4, <2>1
<1>8. PICK u : u = Unread(chain, p, last)
  OBVIOUS
<1>9. u = [i \in 1 .. n |-> <<Greater(r[i].first, p + 1), Lesser(End(r[i]), last)>>]
  BY <1>1, <1>5, <1>8 DEF Unread
<1>10. ASSUME NEW i \in 1 .. n
       PROVE  /\ i \in 1 .. Len(r)
              /\ u[i][1] = (IF i = 1 THEN p + 1 ELSE r[i].first)
              /\ u[i][2] = (IF i = n THEN last ELSE End(r[i]))
              /\ u[i][1] \in Nat /\ u[i][2] \in Nat /\ u[i] \in Interval
              /\ u[i][1] <= u[i][2] /\ p < u[i][2] /\ u[i][2] <= last
  <2>1. i \in 1 .. Len(r) /\ i \in Nat
    BY <1>4, <1>6
  <2>2. /\ r[i].first \in Nat /\ End(r[i]) \in Nat /\ r[i].first <= End(r[i])
        /\ r[1].first \in Nat
    <3>1. 1 \in 1 .. Len(r)
      BY <1>4
    <3> QED
      BY <1>4, <2>1, <3>1
  <2>3. i # 1 => p + 1 < r[i].first
    <3> SUFFICES ASSUME i # 1
                 PROVE  p + 1 < r[i].first
      OBVIOUS
    <3>1. /\ 1 \in 1 .. Len(r) - 1 /\ 1 + 1 = 2 /\ 2 \in 1 .. Len(r)
          /\ i \in 2 .. Len(r) /\ 1 \in 1 .. Len(r)
      BY <1>4, <2>1
    <3>2. r[1].size = Capacity /\ r[2].first = r[1].first + Capacity
      BY <1>3, <3>1 DEF Tiled
    <3>3. End(r[1]) = r[1].first + r[1].size - 1 /\ r[1].size \in Nat /\ r[2].first \in Nat
      BY <1>4, <3>1
    <3>4. p + 1 < r[2].first
      BY <1>2, <2>2, <3>2, <3>3, <1>4, <3>1, SMTT(60)
    <3>5. r[2].first <= r[i].first
      BY <1>3, <3>1, TiledGrows
    <3> QED
      BY <2>2, <3>3, <3>4, <3>5
  <2>4. u[i] = <<Greater(r[i].first, p + 1), Lesser(End(r[i]), last)>>
    BY <1>9
  <2>5. Greater(r[i].first, p + 1) = (IF i = 1 THEN p + 1 ELSE r[i].first)
    <3>1. CASE i = 1
      BY <1>3, <2>2, <3>1 DEF Greater
    <3>2. CASE i # 1
      BY <2>2, <2>3, <3>2 DEF Greater
    <3> QED
      BY <3>1, <3>2
  <2>6. Lesser(End(r[i]), last) = (IF i = n THEN last ELSE End(r[i]))
    <3>1. CASE i = n
      BY <1>6, <2>2, <3>1 DEF Lesser
    <3>2. CASE i # n
      <4>1. End(r[i]) < last
        BY <1>6, <1>7, <2>1, <3>2
      <4> QED
        BY <2>2, <3>2, <4>1 DEF Lesser
    <3> QED
      BY <3>1, <3>2
  <2>7. /\ u[i][1] = (IF i = 1 THEN p + 1 ELSE r[i].first)
        /\ u[i][2] = (IF i = n THEN last ELSE End(r[i]))
    BY <2>4, <2>5, <2>6
  <2>8. u[i][1] \in Nat /\ u[i][2] \in Nat
    BY <2>2, <2>7
  <2>9. i # n => End(r[i]) < last
    BY <1>6, <1>7, <2>1
  <2>10. p < End(r[i])
    <3>1. CASE i = 1
      BY <1>2, <3>1
    <3>2. CASE i # 1
      BY <2>2, <2>3, <3>2
    <3> QED
      BY <3>1, <3>2
  <2>11. r[i].first <= last
    <3>1. CASE i = 1
      BY <1>3, <2>2, <3>1
    <3>2. CASE i # 1
      <4>1. PICK k \in 1 .. Len(r) - 1 : k = i - 1
        BY <1>4, <2>1, <3>2
      <4>2. k \in 1 .. Len(r) /\ k < n /\ k + 1 = i
        BY <1>4, <1>6, <2>1, <4>1
      <4>3. End(r[k]) < last
        BY <1>7, <4>2
      <4>4. r[k].size = Capacity /\ r[k + 1].first = r[k].first + Capacity
        BY <1>3, <4>1 DEF Tiled
      <4>5. End(r[k]) = r[k].first + r[k].size - 1 /\ r[k].first \in Nat /\ r[k].size \in Nat
        BY <1>4, <4>2
      <4> QED
        BY <4>2, <4>3, <4>4, <4>5
    <3> QED
      BY <3>1, <3>2
  <2>12. u[i][1] <= u[i][2] /\ p < u[i][2] /\ u[i][2] <= last
    BY <2>2, <2>7, <2>9, <2>10, <2>11
  <2>13. u[i] \in Interval
    <3>1. Greater(r[i].first, p + 1) \in Nat /\ Lesser(End(r[i]), last) \in Nat
      BY <2>2 DEF Greater, Lesser
    <3> QED
      BY <2>4, <3>1 DEF Interval
  <2> QED
    BY <2>1, <2>7, <2>8, <2>12, <2>13
<1>11. u \in Seq(Interval) /\ Len(u) = n /\ u # <<>>
  <2>1. \A i \in 1 .. n : u[i] \in Interval
    BY <1>10
  <2>2. u = [i \in 1 .. n |-> u[i]]
    BY <1>9
  <2>3. u \in Seq(Interval) /\ Len(u) = n
    BY <1>6, <2>1, <2>2, IsASeq
  <2> QED
    BY <1>6, <2>3, EmptySeq
<1>12. ASSUME NEW i \in 1 .. n - 1
       PROVE  u[i + 1][1] = u[i][2] + 1
  <2>1. /\ i \in 1 .. n /\ i + 1 \in 1 .. n /\ i # n /\ i + 1 # 1
        /\ i \in 1 .. Len(r) - 1 /\ i \in 1 .. Len(r)
    BY <1>4, <1>6
  <2>2. u[i + 1][1] = r[i + 1].first /\ u[i][2] = End(r[i])
    BY <1>10, <2>1
  <2>3. r[i].size = Capacity /\ r[i + 1].first = r[i].first + Capacity
    BY <1>3, <2>1 DEF Tiled
  <2>4. End(r[i]) = r[i].first + r[i].size - 1 /\ r[i].first \in Nat /\ r[i].size \in Nat
    BY <1>4, <2>1
  <2> QED
    BY <2>2, <2>3, <2>4
<1>13. u[1][1] = p + 1 /\ u[n][2] = last
  BY <1>6, <1>10
<1> QED
  BY <1>8, <1>10, <1>11, <1>12, <1>13 DEF Joined

(***************************************************************************)
(* How many new buffers m units take, and how much each of them holds.      *)
(***************************************************************************)
LEMMA NewBuffers ==
    ASSUME NEW m \in Nat, NEW k, k = (m + Capacity - 1) \div Capacity
    PROVE  /\ k \in Nat /\ (k = 0 <=> m = 0)
           /\ \A i \in 1 .. k :
                 /\ (i - 1) * Capacity \in Nat
                 /\ i * Capacity = (i - 1) * Capacity + Capacity
                 /\ 0 < m - (i - 1) * Capacity
                 /\ i # k => Capacity <= m - (i - 1) * Capacity
                 /\ i = k => m - (i - 1) * Capacity <= Capacity
<1>1. Capacity \in Nat \ {0}
  BY ChainAssumption
<1>2. PICK c \in Nat \ {0} : c = Capacity
  BY <1>1
<1>3. PICK t \in Nat : t = m + c - 1
  BY <1>2
<1>4. k \in Nat /\ k * c <= t /\ t < k * c + c /\ k * c \in Nat
  <2>1. k = t \div c
    BY <1>2, <1>3
  <2>2. t = c * (t \div c) + (t % c) /\ t % c \in 0 .. c - 1 /\ t \div c \in Nat
    BY <1>2, <1>3
  <2> QED
    BY <1>2, <1>3, <2>1, <2>2
<1>5. k = 0 <=> m = 0
  <2>1. CASE k = 0
    BY <1>2, <1>3, <1>4, <2>1
  <2>2. CASE k # 0
    <3>1. c <= k * c
      BY <1>2, <1>4, <2>2
    <3> QED
      BY <1>2, <1>3, <1>4, <2>2, <3>1
  <2> QED
    BY <2>1, <2>2
<1>6. ASSUME NEW i \in 1 .. k
      PROVE  /\ (i - 1) * c \in Nat /\ i * c = (i - 1) * c + c
             /\ 0 < m - (i - 1) * c
             /\ i # k => c <= m - (i - 1) * c
             /\ i = k => m - (i - 1) * c <= c
  <2>1. PICK j \in Nat : j = i - 1
    BY <1>4
  <2>2. i \in Nat /\ i = j + 1
    BY <1>4, <2>1
  <2>3. j * c \in Nat /\ i * c = j * c + c
    BY <1>2, <2>1, <2>2
  <2>4. i # k => i * c + c <= k * c
    <3> SUFFICES ASSUME i # k
                 PROVE  i * c + c <= k * c
      OBVIOUS
    <3>1. PICK d \in Nat : k = (i + 1) + d
      <4>1. PICK l \in Nat : l = k
        BY <1>4
      <4>2. i \in 1 .. l /\ i # l
        BY <4>1
      <4>3. l - (i + 1) \in Nat /\ l = (i + 1) + (l - (i + 1))
        BY <4>2
      <4> QED
        BY <4>1, <4>3
    <3>2. k * c = (i * c + c) + d * c /\ d * c \in Nat /\ i * c \in Nat
      BY <1>2, <2>2, <3>1
    <3> QED
      BY <1>2, <3>2
  <2>5. i # k => c <= m - j * c
    BY <1>2, <1>3, <1>4, <2>3, <2>4
  <2>6. i = k => 0 < m - j * c /\ m - j * c <= c
    BY <1>2, <1>3, <1>4, <2>3
  <2>7. 0 < m - j * c
    BY <1>2, <2>3, <2>5, <2>6
  <2> QED
    BY <2>1, <2>3, <2>5, <2>6, <2>7
<1> QED
  BY <1>2, <1>4, <1>5, <1>6

(***************************************************************************)
(* n more units from the socket: the last buffer is filled first.           *)
(***************************************************************************)
LEMMA FilledCovers ==
    ASSUME NEW chain, NEW p \in Nat, NEW g \in Nat, Covers(chain, p, g), chain # <<>>,
           NEW kept \in Nat, kept <= Capacity - Last(chain).size
    PROVE  \E f \in Seq(Buffer) :
              /\ f = [chain EXCEPT ![Len(chain)].size = @ + kept]
              /\ Covers(f, p, g + kept) /\ Len(f) = Len(chain)
              /\ f[1].first = chain[1].first /\ f[1].absolute = chain[1].absolute
              /\ f[Len(f)].size = Last(chain).size + kept
<1>0. PICK f : f = [chain EXCEPT ![Len(chain)].size = @ + kept]
  OBVIOUS
<1>1. /\ chain \in Seq(Buffer) /\ Tiled(chain)
      /\ chain[1].first <= p + 1 /\ End(chain[Len(chain)]) = g
  BY DEF Covers
<1>2. /\ Len(chain) \in Nat /\ Len(chain) # 0 /\ Capacity \in Nat
      /\ \A k \in 1 .. Len(chain) :
            /\ chain[k] \in Buffer /\ chain[k].first \in Nat
            /\ chain[k].size \in 1 .. Capacity
            /\ End(chain[k]) = chain[k].first + chain[k].size - 1
  BY <1>1, ChainFacts
<1>3. PICK l \in 1 .. Len(chain) : l = Len(chain)
  BY <1>2
<1>4. PICK b : b = [chain[l] EXCEPT !.size = @ + kept]
  OBVIOUS
<1>5. /\ b \in Buffer /\ b.first = chain[l].first /\ b.absolute = chain[l].absolute
      /\ b.size = chain[l].size + kept /\ End(b) = g + kept
  <2>1. PICK c \in Buffer : c = chain[l]
    BY <1>2
  <2>2. /\ c.absolute \in Nat /\ c.first \in Nat \ {0} /\ c.size \in 1 .. Capacity
        /\ c = [absolute |-> c.absolute, first |-> c.first, size |-> c.size]
        /\ kept <= Capacity - c.size /\ c.first + c.size - 1 = g
    BY <1>1, <1>2, <1>3, <2>1 DEF Buffer, Last
  <2>3. b = [absolute |-> c.absolute, first |-> c.first, size |-> c.size + kept]
    BY <1>4, <2>1, <2>2
  <2>4. c.size + kept \in 1 .. Capacity
    BY <1>2, <2>2
  <2>5. b \in Buffer
    BY <2>2, <2>3, <2>4 DEF Buffer
  <2>6. b.first = c.first /\ b.absolute = c.absolute /\ b.size = c.size + kept
    BY <2>3
  <2>7. End(b) = g + kept
    BY <1>2, <2>2, <2>6 DEF End
  <2> QED
    BY <2>1, <2>5, <2>6, <2>7
<1>6. PICK c : c = [chain EXCEPT ![l] = b]
  OBVIOUS
<1>7. /\ f \in Seq(Buffer) /\ Len(f) = Len(chain)
      /\ \A j \in 1 .. Len(chain) : f[j] = IF j = l THEN b ELSE chain[j]
  <2>1. f = c
    BY <1>0, <1>3, <1>4, <1>6, Zenon
  <2>2. b \in Buffer
    BY <1>5
  <2>3. /\ c \in Seq(Buffer) /\ Len(c) = Len(chain)
        /\ \A j \in 1 .. Len(chain) : c[j] = IF j = l THEN b ELSE chain[j]
    BY <1>1, <1>6, <2>2, ExceptNamed
  <2> QED
    BY <2>1, <2>3, Zenon
<1>8. Tiled(f)
  <2> SUFFICES ASSUME NEW i \in 1 .. Len(f) - 1
               PROVE  f[i].size = Capacity /\ f[i + 1].first = f[i].first + Capacity
    BY DEF Tiled
  <2>1. i \in 1 .. Len(chain) /\ i + 1 \in 1 .. Len(chain) /\ i # l /\ i \in 1 .. Len(chain) - 1
    BY <1>2, <1>3, <1>7
  <2>2. f[i] = chain[i] /\ f[i + 1].first = chain[i + 1].first
    BY <1>5, <1>7, <2>1
  <2>3. chain[i].size = Capacity /\ chain[i + 1].first = chain[i].first + Capacity
    BY <1>1, <2>1 DEF Tiled
  <2> QED
    BY <2>2, <2>3
<1>9. f[1].first = chain[1].first /\ f[1].absolute = chain[1].absolute
  <2>1. 1 \in 1 .. Len(chain)
    BY <1>2
  <2> QED
    BY <1>5, <1>7, <2>1
<1>10. f[Len(f)] = b
  BY <1>3, <1>7
<1>11. Covers(f, p, g + kept)
  BY <1>1, <1>5, <1>7, <1>8, <1>9, <1>10 DEF Covers
<1>12. f[Len(f)].size = Last(chain).size + kept
  BY <1>3, <1>5, <1>10 DEF Last
<1> QED
  BY <1>0, <1>7, <1>9, <1>11, <1>12, Zenon

(***************************************************************************)
(* The new buffers hold the m units from start on.                          *)
(***************************************************************************)
LEMMA NewTiled ==
    ASSUME NEW m \in Nat, NEW base \in Nat, NEW start \in Nat \ {0}
    PROVE  \E new \in Seq(Buffer) :
              /\ new = [i \in 1 .. (m + Capacity - 1) \div Capacity |->
                          [absolute |-> base + (i - 1) * Capacity,
                           first |-> start + (i - 1) * Capacity,
                           size |-> Lesser(Capacity, m - (i - 1) * Capacity)]]
              /\ Tiled(new)
              /\ m = 0 => new = <<>>
              /\ m # 0 => /\ new # <<>> /\ new[1].first = start /\ new[1].absolute = base
                          /\ End(new[Len(new)]) = start + m - 1
<1> DEFINE o(i) == (i - 1) * Capacity
<1>1. PICK k : k = (m + Capacity - 1) \div Capacity
  OBVIOUS
<1>2. /\ k \in Nat /\ (k = 0 <=> m = 0)
      /\ \A i \in 1 .. k :
            /\ o(i) \in Nat /\ 0 < m - o(i)
            /\ i # k => Capacity <= m - o(i)
            /\ i = k => m - o(i) <= Capacity
  BY <1>1, NewBuffers
<1>3. ASSUME NEW i \in 1 .. k
      PROVE  o(i + 1) = o(i) + Capacity
  <2>1. i * Capacity = (i - 1) * Capacity + Capacity
    BY <1>1, NewBuffers
  <2>2. (i + 1) - 1 = i
    BY <1>2
  <2> QED
    BY <2>1, <2>2
<1>4. o(1) = 0 /\ Capacity \in Nat \ {0}
  BY ChainAssumption
<1> HIDE DEF o
<1>5. PICK new : new = [i \in 1 .. k |-> [absolute |-> base + o(i), first |-> start + o(i),
                                          size |-> Lesser(Capacity, m - o(i))]]
  OBVIOUS
<1>6. ASSUME NEW i \in 1 .. k
      PROVE  /\ new[i] \in Buffer
             /\ new[i].absolute = base + o(i) /\ new[i].first = start + o(i)
             /\ i # k => new[i].size = Capacity
             /\ i = k => End(new[i]) = start + m - 1
  <2>1. PICK d \in Nat : d = o(i)
    BY <1>2
  <2>2. /\ 0 < m - d /\ (i # k => Capacity <= m - d)
        /\ (i = k => m - d <= Capacity)
    BY <1>2, <2>1
  <2>3. new[i] = [absolute |-> base + d, first |-> start + d, size |-> Lesser(Capacity, m - d)]
    BY <1>5, <2>1
  <2>4. Lesser(Capacity, m - d) \in 1 .. Capacity
    BY <1>4, <2>2 DEF Lesser
  <2>5. base + d \in Nat /\ start + d \in Nat \ {0}
    OBVIOUS
  <2>6. new[i] \in Buffer
    BY <2>3, <2>4, <2>5 DEF Buffer
  <2>7. i # k => Lesser(Capacity, m - d) = Capacity
    BY <1>4, <2>2 DEF Lesser
  <2>8. i = k => Lesser(Capacity, m - d) = m - d
    BY <1>4, <2>2 DEF Lesser
  <2>9. /\ new[i].absolute = base + d /\ new[i].first = start + d
        /\ new[i].size = Lesser(Capacity, m - d)
    BY <2>3
  <2>10. i = k => End(new[i]) = start + m - 1
    BY <2>8, <2>9 DEF End
  <2> QED
    BY <2>1, <2>6, <2>7, <2>9, <2>10
<1>7. new \in Seq(Buffer) /\ Len(new) = k
  <2>1. \A i \in 1 .. k : new[i] \in Buffer
    BY <1>6
  <2>2. new = [i \in 1 .. k |-> new[i]]
    BY <1>5
  <2> HIDE <1>5
  <2> QED
    BY <1>2, <2>1, <2>2, IsASeq
<1>8. Tiled(new)
  <2> SUFFICES ASSUME NEW i \in 1 .. Len(new) - 1
               PROVE  new[i].size = Capacity /\ new[i + 1].first = new[i].first + Capacity
    BY DEF Tiled
  <2>1. i \in 1 .. k /\ i + 1 \in 1 .. k /\ i # k
    BY <1>2, <1>7
  <2>2. new[i].size = Capacity /\ new[i].first = start + o(i) /\ new[i + 1].first = start + o(i + 1)
    BY <1>6, <2>1
  <2>3. PICK d \in Nat : d = o(i)
    BY <1>2, <2>1
  <2>4. new[i].first = start + d /\ new[i + 1].first = start + (d + Capacity)
    BY <1>3, <2>1, <2>2, <2>3
  <2> QED
    BY <1>4, <2>2, <2>4
<1>9. m = 0 => new = <<>>
  BY <1>2, <1>7, EmptySeq
<1>10. m # 0 => /\ new # <<>> /\ new[1].first = start /\ new[1].absolute = base
                /\ End(new[Len(new)]) = start + m - 1
  <2> SUFFICES ASSUME m # 0
               PROVE  /\ new # <<>> /\ new[1].first = start /\ new[1].absolute = base
                      /\ End(new[Len(new)]) = start + m - 1
    OBVIOUS
  <2>1. 1 \in 1 .. k /\ k \in 1 .. k /\ Len(new) # 0
    BY <1>2, <1>7
  <2>2. new[1].first = start + o(1) /\ new[1].absolute = base + o(1)
    BY <1>6, <2>1
  <2> QED
    BY <1>4, <1>6, <1>7, <2>1, <2>2, EmptySeq
<1> QED
  BY <1>1, <1>5, <1>7, <1>8, <1>9, <1>10 DEF o

(***************************************************************************)
(* A chain that goes on in another one where its full last buffer ends.     *)
(***************************************************************************)
LEMMA TiledConcat ==
    ASSUME NEW f, NEW p \in Nat, NEW g \in Nat, Covers(f, p, g),
           NEW h \in Nat, NEW new \in Seq(Buffer), Tiled(new),
           new = <<>> => g = h,
           new # <<>> => new[1].first = g + 1 /\ End(new[Len(new)]) = h,
           f # <<>> /\ new # <<>> => f[Len(f)].size = Capacity,
           f = <<>> => g <= p
    PROVE  /\ Covers(f \o new, p, h)
           /\ f # <<>> => f \o new # <<>> /\ (f \o new)[1] = f[1]
           /\ f = <<>> => f \o new = new
<1>1. /\ f \in Seq(Buffer) /\ Tiled(f)
      /\ f # <<>> => f[1].first <= p + 1 /\ End(f[Len(f)]) = g
  BY DEF Covers
<1>2. /\ Len(f) \in Nat /\ Capacity \in Nat \ {0} /\ (f = <<>> <=> Len(f) = 0)
      /\ Len(new) \in Nat /\ (new = <<>> <=> Len(new) = 0)
      /\ \A j \in 1 .. Len(f) : f[j].first \in Nat /\ End(f[j]) = f[j].first + f[j].size - 1
  BY <1>1, ChainFacts
<1>3. CASE f = <<>>
  <2>1. f \o new = new
    BY <1>3, ConcatEmptySeq
  <2>2. Covers(new, p, h)
    <3>1. new # <<>> => new[1].first <= p + 1
      BY <1>3
    <3> QED
      BY <3>1 DEF Covers
  <2> QED
    BY <1>3, <2>1, <2>2
<1>4. CASE new = <<>>
  <2>1. f \o new = f
    BY <1>1, <1>4, ConcatEmptySeq
  <2> QED
    BY <1>3, <1>4, <2>1
<1>5. CASE f # <<>> /\ new # <<>>
  <2>1. PICK r : r = f \o new
    OBVIOUS
  <2>2. /\ r \in Seq(Buffer) /\ Len(r) = Len(f) + Len(new)
        /\ \A i \in 1 .. Len(f) + Len(new) :
              r[i] = IF i <= Len(f) THEN f[i] ELSE new[i - Len(f)]
    BY <1>1, <2>1, ConcatProperties
  <2>3. Tiled(r)
    <3> SUFFICES ASSUME NEW i \in 1 .. Len(r) - 1
                 PROVE  r[i].size = Capacity /\ r[i + 1].first = r[i].first + Capacity
      BY DEF Tiled
    <3>1. i \in Nat /\ 1 <= i /\ i <= Len(f) + Len(new) - 1
      BY <1>2, <2>2
    <3>2. /\ i \in 1 .. Len(f) + Len(new) /\ i + 1 \in 1 .. Len(f) + Len(new)
      BY <1>2, <3>1
    <3>3. CASE i < Len(f)
      <4>1. i \in 1 .. Len(f) - 1 /\ i <= Len(f) /\ i + 1 <= Len(f)
        BY <1>2, <3>1, <3>3
      <4>2. f[i].size = Capacity /\ f[i + 1].first = f[i].first + Capacity
        BY <1>1, <4>1 DEF Tiled
      <4> QED
        BY <2>2, <3>2, <4>1, <4>2
    <3>4. CASE i = Len(f)
      <4>1. /\ i <= Len(f) /\ ~(i + 1 <= Len(f)) /\ (i + 1) - Len(f) = 1
            /\ i \in 1 .. Len(f)
        BY <1>2, <3>1, <3>4
      <4>2. r[i] = f[Len(f)] /\ r[i + 1] = new[1]
        BY <2>2, <3>2, <3>4, <4>1
      <4>3. /\ f[Len(f)].size = Capacity /\ g = f[Len(f)].first + f[Len(f)].size - 1
            /\ f[Len(f)].first \in Nat
        BY <1>1, <1>2, <1>5, <3>4, <4>1
      <4>4. new[1].first = f[Len(f)].first + Capacity
        BY <1>2, <1>5, <4>3
      <4> QED
        BY <4>2, <4>3, <4>4
    <3>5. CASE i > Len(f)
      <4>1. PICK j \in 1 .. Len(new) - 1 : j = i - Len(f)
        <5>1. Len(f) \in Nat /\ Len(new) \in Nat
          BY <1>2
        <5>2. i - Len(f) \in 1 .. Len(new) - 1
          BY <3>1, <3>5, <5>1
        <5> QED
          BY <5>2
      <4>2. ~(i <= Len(f)) /\ ~(i + 1 <= Len(f)) /\ (i + 1) - Len(f) = j + 1
        BY <1>2, <3>1, <3>5, <4>1
      <4>3. r[i] = new[j] /\ r[i + 1] = new[j + 1]
        BY <2>2, <3>2, <4>1, <4>2
      <4>4. new[j].size = Capacity /\ new[j + 1].first = new[j].first + Capacity
        BY <4>1 DEF Tiled
      <4> QED
        BY <4>3, <4>4
    <3> QED
      BY <1>2, <3>1, <3>3, <3>4, <3>5
  <2>4. r[1] = f[1] /\ r[Len(r)] = new[Len(new)] /\ r # <<>>
    <3>1. /\ 1 \in 1 .. Len(f) + Len(new) /\ 1 <= Len(f)
          /\ Len(r) \in 1 .. Len(f) + Len(new) /\ ~(Len(r) <= Len(f))
          /\ Len(r) - Len(f) = Len(new) /\ Len(r) # 0
      BY <1>2, <1>5, <2>2
    <3> QED
      BY <2>2, <3>1, EmptySeq
  <2>5. Covers(r, p, h)
    BY <1>1, <1>5, <2>2, <2>3, <2>4 DEF Covers
  <2> QED
    BY <1>5, <2>1, <2>4, <2>5
<1> QED
  BY <1>3, <1>4, <1>5

(***************************************************************************)
(* The same, of two chains that join.                                      *)
(***************************************************************************)
LEMMA JoinedCovers ==
    ASSUME NEW f, NEW p \in Nat, NEW g \in Nat, NEW h \in Nat, NEW new \in Seq(Buffer),
           Covers(f, p, g), Tiled(new), Joins(f, new, g, h), f = <<>> => g <= p
    PROVE  /\ Covers(f \o new, p, h)
           /\ f # <<>> => f \o new # <<>> /\ (f \o new)[1] = f[1]
           /\ f = <<>> => f \o new = new
<1>1. new = <<>> => g = h
  BY DEF Joins
<1>2. new # <<>> => new[1].first = g + 1 /\ End(new[Len(new)]) = h
  BY DEF Joins
<1>3. f # <<>> /\ new # <<>> => f[Len(f)].size = Capacity
  BY DEF Joins
<1> QED
  BY <1>1, <1>2, <1>3, TiledConcat

(***************************************************************************)
(* readFromFd appends the n units that follow.                              *)
(***************************************************************************)
LEMMA ReadCovers ==
    ASSUME NEW chain, NEW p \in Nat, NEW g \in Nat, Covers(chain, p, g),
           chain = <<>> => g <= p, NEW n \in Nat
    PROVE  ReadOn(chain, p, g, n, ReadFromFd(chain, g + 1, n))
<1> SUFFICES
      /\ Covers(ReadFromFd(chain, g + 1, n), p, g + n)
      /\ ReadFromFd(chain, g + 1, n) = <<>> => chain = <<>> /\ n = 0
      /\ chain # <<>> => /\ ReadFromFd(chain, g + 1, n)[1].first = chain[1].first
                         /\ ReadFromFd(chain, g + 1, n)[1].absolute = chain[1].absolute
      /\ chain = <<>> /\ n # 0 => /\ ReadFromFd(chain, g + 1, n)[1].first = g + 1
                                  /\ ReadFromFd(chain, g + 1, n)[1].absolute = 0
  BY Zenon DEF ReadOn
<1>1. /\ chain \in Seq(Buffer) /\ Capacity \in Nat \ {0}
      /\ chain # <<>> => Last(chain).size \in 1 .. Capacity /\ Last(chain).absolute \in Nat
  <2>1. chain \in Seq(Buffer)
    BY DEF Covers
  <2>2. /\ Capacity \in Nat \ {0} /\ (chain = <<>> <=> Len(chain) = 0) /\ Len(chain) \in Nat
        /\ \A k \in 1 .. Len(chain) : chain[k].absolute \in Nat /\ chain[k].size \in 1 .. Capacity
    BY <2>1, ChainFacts
  <2> QED
    BY <2>1, <2>2 DEF Last
<1>2. PICK room \in Nat : room = IF chain = <<>> THEN 0 ELSE Capacity - Last(chain).size
  BY <1>1
<1>b. PICK base \in Nat : base = IF chain = <<>> THEN 0 ELSE Last(chain).absolute + Capacity
  BY <1>1
<1>3. PICK kept \in Nat : kept = Lesser(room, n) /\ kept <= room /\ kept <= n
                          /\ (kept # n => kept = room)
  BY DEF Lesser
<1>4. PICK m \in Nat : m = n - kept
  BY <1>3
<1>5. PICK f : f = IF chain = <<>> THEN <<>>
                   ELSE [chain EXCEPT ![Len(chain)].size = @ + kept]
  OBVIOUS
<1>6. PICK start \in Nat \ {0} : start = g + 1 + kept
  OBVIOUS
<1>7. PICK new \in Seq(Buffer) :
         /\ new = [i \in 1 .. (m + Capacity - 1) \div Capacity |->
                     [absolute |-> base + (i - 1) * Capacity,
                      first |-> start + (i - 1) * Capacity,
                      size |-> Lesser(Capacity, m - (i - 1) * Capacity)]]
         /\ Tiled(new)
         /\ m = 0 => new = <<>>
         /\ m # 0 => /\ new # <<>> /\ new[1].first = start /\ new[1].absolute = base
                     /\ End(new[Len(new)]) = start + m - 1
  BY NewTiled
<1>8. ReadFromFd(chain, g + 1, n) = f \o new
  BY <1>2, <1>b, <1>3, <1>4, <1>5, <1>6, <1>7, Zenon DEF ReadFromFd
<1>9. PICK r : r = f \o new
  OBVIOUS
<1>a. /\ Tiled(new)
      /\ m = 0 => new = <<>>
      /\ m # 0 => /\ new # <<>> /\ new[1].first = g + 1 + kept /\ new[1].absolute = base
                  /\ End(new[Len(new)]) = g + n
  <2>1. start + m - 1 = g + n
    BY <1>3, <1>4, <1>6
  <2> QED
    BY <1>6, <1>7, <2>1
<1>10. CASE chain = <<>>
  <2>1. f = <<>> /\ kept = 0 /\ m = n /\ base = 0 /\ g + kept = g
    BY <1>2, <1>b, <1>3, <1>4, <1>5, <1>10
  <2>2. Covers(f, p, g)
    BY <1>10, <2>1
  <2>3. /\ new = <<>> => g = g + n
        /\ new # <<>> => new[1].first = g + 1 /\ End(new[Len(new)]) = g + n
    BY <1>a, <2>1
  <2>4. Covers(f \o new, p, g + n) /\ f \o new = new
    <3>1. PICK h \in Nat : h = g + n
      OBVIOUS
    <3>2. PICK e \in Nat : e = g
      OBVIOUS
    <3>3. /\ new = <<>> => e = h
          /\ new # <<>> => new[1].first = e + 1 /\ End(new[Len(new)]) = h
      BY <2>3, <3>1, <3>2
    <3>4. f = <<>> => e <= p
      BY <1>10, <3>2
    <3>5. Tiled(new) /\ Covers(f, p, e)
      BY <1>a, <2>2, <3>2
    <3>6. Joins(f, new, e, h)
      BY <2>1, <3>3 DEF Joins
    <3>7. Covers(f \o new, p, h)
      BY <3>4, <3>5, <3>6, JoinedCovers
    <3>8. f \o new = new
      BY <2>1, ConcatEmptySeq
    <3> QED
      BY <3>1, <3>7, <3>8
  <2> QED
    BY <1>8, <1>10, <1>a, <2>1, <2>3, <2>4
<1>11. CASE chain # <<>>
  <2>1. f = [chain EXCEPT ![Len(chain)].size = @ + kept] /\ kept <= Capacity - Last(chain).size
    BY <1>2, <1>3, <1>5, <1>11
  <2>2. /\ Covers(f, p, g + kept) /\ Len(f) = Len(chain)
        /\ f[1].first = chain[1].first /\ f[1].absolute = chain[1].absolute
        /\ f[Len(f)].size = Last(chain).size + kept
    <3>1. \E w \in Seq(Buffer) :
             /\ w = [chain EXCEPT ![Len(chain)].size = @ + kept]
             /\ Covers(w, p, g + kept) /\ Len(w) = Len(chain)
             /\ w[1].first = chain[1].first /\ w[1].absolute = chain[1].absolute
             /\ w[Len(w)].size = Last(chain).size + kept
      BY <1>11, <2>1, FilledCovers, SMTT(60)
    <3> QED
      BY <2>1, <3>1, Zenon
  <2>3. f # <<>>
    <3>1. Len(chain) # 0
      BY <1>1, <1>11, EmptySeq
    <3> QED
      BY <2>2, <3>1, EmptySeq
  <2>4. new # <<>> => f[Len(f)].size = Capacity
    <3>1. new # <<>> => kept = room
      BY <1>3, <1>4, <1>a
    <3> QED
      BY <1>1, <1>2, <1>11, <2>2, <3>1
  <2>5. /\ new = <<>> => g + kept = g + n
        /\ new # <<>> => new[1].first = (g + kept) + 1 /\ End(new[Len(new)]) = g + n
    <3>1. m = 0 => g + kept = g + n
      BY <1>3, <1>4
    <3>2. start = (g + kept) + 1
      BY <1>6
    <3> QED
      BY <1>6, <1>a, <3>1, <3>2
  <2>6. Covers(f \o new, p, g + n) /\ f \o new # <<>> /\ (f \o new)[1] = f[1]
    <3>1. PICK h \in Nat : h = g + n
      OBVIOUS
    <3>2. PICK e \in Nat : e = g + kept
      OBVIOUS
    <3>3. f = <<>> => e <= p
      BY <2>3
    <3>4. /\ new = <<>> => e = h
          /\ new # <<>> => new[1].first = e + 1 /\ End(new[Len(new)]) = h
      BY <2>5, <3>1, <3>2
    <3>5. Tiled(new) /\ Covers(f, p, e)
      BY <1>a, <2>2, <3>2
    <3>6. Joins(f, new, e, h)
      BY <2>4, <3>4 DEF Joins
    <3>7. /\ Covers(f \o new, p, h)
          /\ f # <<>> => f \o new # <<>> /\ (f \o new)[1] = f[1]
      BY <3>3, <3>5, <3>6, JoinedCovers
    <3>8. Covers(f \o new, p, h) /\ f \o new # <<>> /\ (f \o new)[1] = f[1]
      BY <2>3, <3>7
    <3> QED
      BY <3>1, <3>8
  <2> QED
    BY <1>8, <1>11, <2>2, <2>6
<1> QED
  BY <1>10, <1>11

-----------------------------------------------------------------------------
(* Types.                                                                  *)

KernelOK ==
    /\ sent \in 0 .. StreamLength /\ got \in 0 .. sent
    /\ peer \in {"open", "closed", "reset"}
    /\ window \in Windows /\ inflight \in 0 .. window /\ edge \in BOOLEAN

WorkerOK == pc \in Steps /\ mask \subseteq {"in", "out", "hup"} /\ released \in 0 .. 2

(***************************************************************************)
(* The kernel never holds more than there is room for, nor more than it    *)
(* was given.                                                              *)
(***************************************************************************)
LEMMA AcceptedType ==
    ASSUME window \in Windows, inflight \in 0 .. window,
           NEW n, NEW total \in Nat, Accepted(n, total)
    PROVE  /\ n \in 0 .. total /\ inflight' \in 0 .. window /\ inflight' <= inflight + n
           /\ n < total => peer = "reset" \/ inflight + n >= window
<1>1. window \in Nat
  BY PeerAssumption
<1> QED
  BY <1>1 DEF Accepted, Lesser

(***************************************************************************)
(* The variables of the peer and the kernel stay in their sets.            *)
(***************************************************************************)
LEMMA KernelStep ==
    ASSUME KernelOK, output \in Chains, response \in Chains, [Next]_vars
    PROVE  KernelOK'
<1>1. window \in Nat /\ StreamLength \in Nat
  BY PeerAssumption DEF KernelOK
<1>2. Len(output.data) \in Nat /\ Len(response.data) \in Nat
  BY LenProperties DEF Chains
<1>3. ASSUME NEW n, NEW total \in Nat, Accepted(n, total)
      PROVE  inflight' \in 0 .. window
  BY <1>3, AcceptedType DEF KernelOK
<1>4. ASSUME NEW n \in 1 .. StreamLength, Send(n)
      PROVE  KernelOK'
  BY <1>1, <1>4 DEF KernelOK, Send
<1>5. ASSUME NEW n \in 0 .. window, Drain(n)
      PROVE  KernelOK'
  BY <1>1, <1>5 DEF KernelOK, Drain
<1>6. ASSUME NEW how \in {"closed", "reset"}, Leave(how)
      PROVE  KernelOK'
  BY <1>6 DEF KernelOK, Leave
<1>7. CASE Wake \/ WakeError
  BY <1>7 DEF KernelOK, Wake, WakeError
<1>8. CASE PerformRead
  <2>1. got' = got \/ got' = sent
    BY <1>8 DEF PerformRead
  <2> QED
    BY <1>1, <1>8, <2>1 DEF KernelOK, PerformRead
<1>9. CASE UNCHANGED kernelVars
  BY <1>9 DEF KernelOK, kernelVars
<1>10. CASE WritePiece
  <2>1. inflight' = inflight \/ \E n, total \in Nat : Accepted(n, total)
    BY <1>10 DEF WritePiece
  <2>2. inflight' \in 0 .. window
    BY <1>3, <2>1 DEF KernelOK
  <2> QED
    BY <1>10, <2>2 DEF KernelOK, WritePiece
<1>11. CASE WriteResponse
  <2>1. inflight' = inflight \/ \E n \in 0 .. Len(response.data) : Accepted(n, Len(response.data))
    BY <1>11, Zenon DEF WriteResponse
  <2>2. inflight' \in 0 .. window
    BY <1>2, <1>3, <2>1 DEF KernelOK
  <2> QED
    BY <1>11, <2>2 DEF KernelOK, WriteResponse
<1>12. CASE PerformWrite
  <2>1. inflight' = inflight \/ \E n \in 0 .. Len(output.data) : Accepted(n, Len(output.data))
    BY <1>12, Zenon DEF PerformWrite
  <2>2. inflight' \in 0 .. window
    BY <1>2, <1>3, <2>1 DEF KernelOK
  <2> QED
    BY <1>12, <2>2 DEF KernelOK, PerformWrite
<1>13. CASE \/ FilterDone \/ LineTooLong \/ LineNotFound \/ ParseLine \/ InputRefused
            \/ ProcessRequest \/ ProcessInput \/ FinishInput \/ RefuseInput
            \/ SubmitResponse \/ EndEvent
  BY <1>9, <1>13 DEF FilterDone, LineTooLong, LineNotFound, ParseLine, InputRefused,
     ProcessRequest, ProcessInput, FinishInput, RefuseInput, SubmitResponse, EndEvent
<1>14. CASE UNCHANGED vars
  BY <1>9, <1>14 DEF vars, kernelVars
<1> QED
  BY <1>4, <1>5, <1>6, <1>7, <1>8, <1>10, <1>11, <1>12, <1>13, <1>14, Zenon
     DEF Next, Peer, Worker

(***************************************************************************)
(* So do those of the worker.                                              *)
(***************************************************************************)
LEMMA WorkerStep ==
    ASSUME WorkerOK, [Next]_vars
    PROVE  WorkerOK'
<1>1. CASE Peer
  BY <1>1 DEF WorkerOK, Peer, Send, Drain, Leave, workerVars
<1>2. CASE Wake \/ WakeError
  BY <1>2 DEF WorkerOK, Wake, WakeError, PollMask, Steps
<1>3. CASE PerformRead \/ FilterDone \/ LineTooLong \/ LineNotFound
  BY <1>3 DEF WorkerOK, PerformRead, FilterDone, LineTooLong, LineNotFound, Steps, workerVars
<1>4. CASE ParseLine
  BY <1>4 DEF WorkerOK, ParseLine, Steps
<1>5. CASE InputRefused \/ ProcessRequest
  BY <1>5 DEF WorkerOK, InputRefused, ProcessRequest, Steps
<1>6. CASE ProcessInput \/ FinishInput \/ RefuseInput
  BY <1>6 DEF WorkerOK, ProcessInput, FinishInput, RefuseInput, Steps, workerVars
<1>7. CASE SubmitResponse \/ WriteResponse \/ PerformWrite
  BY <1>7 DEF WorkerOK, SubmitResponse, WriteResponse, PerformWrite, Submitted, Steps
<1>8. CASE WritePiece
  BY <1>8 DEF WorkerOK, WritePiece, Submitted, Steps
<1>9. CASE EndEvent
  BY <1>9 DEF WorkerOK, EndEvent, Steps
<1>10. CASE UNCHANGED vars
  BY <1>10 DEF WorkerOK, vars, workerVars
<1> QED
  BY <1>1, <1>2, <1>3, <1>4, <1>5, <1>6, <1>7, <1>8, <1>9, <1>10, Zenon DEF Next, Worker

-----------------------------------------------------------------------------
(* The input.                                                              *)

(***************************************************************************)
(* What Contiguous says of a sequence of pieces.                            *)
(***************************************************************************)
LEMMA ContiguousMeans ==
    ASSUME NEW s \in Seq(Interval), NEW h \in Nat
    PROVE  /\ Seen!Contiguous(s, h) <=>
                 \A i \in 1 .. Len(s) :
                    /\ s[i][1] = (IF i = 1 THEN h ELSE s[i - 1][2]) + 1
                    /\ s[i][1] <= s[i][2]
           /\ Seen!UpTo(s, h) = IF Len(s) = 0 THEN h ELSE s[Len(s)][2]
           /\ Seen!UpTo(s, h) \in Nat
<1>1. /\ Len(s) \in Nat /\ DOMAIN s = 1 .. Len(s) /\ (s = <<>> <=> Len(s) = 0)
      /\ \A i \in 1 .. Len(s) : s[i] \in Interval
  BY LenProperties, ElementOfSeq, EmptySeq
<1>2. Seen!UpTo(s, h) = IF Len(s) = 0 THEN h ELSE s[Len(s)][2]
  BY <1>1 DEF Seen!UpTo, Seen!Last
<1>3. Seen!UpTo(s, h) \in Nat
  BY <1>1, <1>2 DEF Interval
<1>4. ASSUME NEW i \in 1 .. Len(s)
      PROVE  Seen!UpTo(SubSeq(s, 1, i - 1), h) = IF i = 1 THEN h ELSE s[i - 1][2]
  <2>1. PICK n \in 0 .. Len(s) : n = i - 1
    BY <1>1
  <2>2. \A j \in 1 .. n : s[j] \in Interval
    BY <1>1
  <2>3. PICK q : q = SubSeq(s, 1, n)
    OBVIOUS
  <2>4. /\ q \in Seq(Interval)
        /\ Len(q) = (IF 1 <= n THEN n - 1 + 1 ELSE 0)
        /\ \A j \in 1 .. n - 1 + 1 : q[j] = s[1 + j - 1]
    BY <1>1, <2>2, <2>3, SubSeqProperties
  <2>5. Len(q) = n /\ (q = <<>> <=> n = 0)
    <3>1. Len(q) = n
      BY <2>4
    <3> QED
      BY <2>4, <3>1, EmptySeq
  <2>6. n # 0 => q[n] = s[n]
    <3>1. n # 0 => n \in 1 .. n - 1 + 1 /\ 1 + n - 1 = n
      OBVIOUS
    <3> QED
      BY <2>4, <3>1
  <2>7. Seen!UpTo(q, h) = IF n = 0 THEN h ELSE s[n][2]
    BY <2>5, <2>6 DEF Seen!UpTo, Seen!Last
  <2>8. i = 1 <=> n = 0
    BY <1>1, <2>1
  <2> QED
    BY <2>1, <2>3, <2>7, <2>8
<1> QED
  BY <1>1, <1>2, <1>3, <1>4, Zenon DEF Seen!Contiguous

(***************************************************************************)
(* Pieces that go on where the body ends leave it without a gap.           *)
(***************************************************************************)
LEMMA BodyGoesOn ==
    ASSUME NEW s \in Seq(Interval), NEW h \in Nat, Seen!Contiguous(s, h),
           NEW u, NEW b \in Nat, Joined(u, Seen!UpTo(s, h), b)
    PROVE  /\ s \o u \in Seq(Interval) /\ Seen!Contiguous(s \o u, h)
           /\ Seen!UpTo(s \o u, h) = b
           /\ s # s \o u /\ Seen!IsPrefix(s, s \o u)
<1>1. /\ \A i \in 1 .. Len(s) : /\ s[i][1] = (IF i = 1 THEN h ELSE s[i - 1][2]) + 1
                                /\ s[i][1] <= s[i][2]
      /\ Seen!UpTo(s, h) = IF Len(s) = 0 THEN h ELSE s[Len(s)][2]
  BY ContiguousMeans
<1>2. /\ u \in Seq(Interval) /\ u # <<>>
      /\ u[1][1] = (IF Len(s) = 0 THEN h ELSE s[Len(s)][2]) + 1 /\ u[Len(u)][2] = b
      /\ \A i \in 1 .. Len(u) : u[i][1] <= u[i][2]
      /\ \A i \in 1 .. Len(u) - 1 : u[i + 1][1] = u[i][2] + 1
  BY <1>1 DEF Joined
<1>3. Len(s) \in Nat /\ Len(u) \in Nat /\ Len(u) # 0
  BY <1>2, LenProperties, EmptySeq
<1>4. PICK r : r = s \o u
  OBVIOUS
<1>5. /\ r \in Seq(Interval) /\ Len(r) = Len(s) + Len(u)
      /\ \A i \in 1 .. Len(s) + Len(u) : r[i] = IF i <= Len(s) THEN s[i] ELSE u[i - Len(s)]
  BY <1>2, <1>4, ConcatProperties
<1>6. ASSUME NEW i \in 1 .. Len(r)
      PROVE  /\ r[i][1] = (IF i = 1 THEN h ELSE r[i - 1][2]) + 1
             /\ r[i][1] <= r[i][2]
  <2>1. i \in Nat /\ i \in 1 .. Len(s) + Len(u)
    BY <1>3, <1>5
  <2>2. CASE i <= Len(s)
    <3>1. i \in 1 .. Len(s) /\ r[i] = s[i]
      BY <1>3, <1>5, <2>1, <2>2
    <3>2. i # 1 => r[i - 1] = s[i - 1]
      <4> SUFFICES ASSUME i # 1
                   PROVE  r[i - 1] = s[i - 1]
        OBVIOUS
      <4>1. i - 1 \in 1 .. Len(s) + Len(u) /\ i - 1 <= Len(s)
        BY <1>3, <2>1, <2>2
      <4> QED
        BY <1>5, <4>1
    <3> QED
      BY <1>1, <3>1, <3>2
  <2>3. CASE i = Len(s) + 1
    <3>1. ~(i <= Len(s)) /\ i - Len(s) = 1
      BY <1>3, <2>3
    <3>2. r[i] = u[1]
      BY <1>5, <2>1, <3>1
    <3>3. i # 1 => r[i - 1] = s[Len(s)] /\ Len(s) # 0
      <4> SUFFICES ASSUME i # 1
                   PROVE  r[i - 1] = s[Len(s)] /\ Len(s) # 0
        OBVIOUS
      <4>1. i - 1 \in 1 .. Len(s) + Len(u) /\ i - 1 <= Len(s) /\ i - 1 = Len(s) /\ Len(s) # 0
        BY <1>3, <2>1, <2>3
      <4> QED
        BY <1>5, <4>1
    <3>4. i = 1 => Len(s) = 0
      BY <1>3, <2>3
    <3>5. 1 \in 1 .. Len(u)
      BY <1>3
    <3> QED
      BY <1>2, <3>2, <3>3, <3>4, <3>5
  <2>4. CASE i > Len(s) + 1
    <3>1. PICK j \in 1 .. Len(u) - 1 : i = Len(s) + (j + 1)
      <4>1. PICK l \in Nat, k \in Nat : l = Len(s) /\ k = Len(u)
        BY <1>3
      <4>2. i - (l + 1) \in 1 .. k - 1 /\ i = l + ((i - (l + 1)) + 1)
        BY <2>1, <2>4, <4>1
      <4> QED
        BY <4>1, <4>2
    <3>2. /\ ~(i <= Len(s)) /\ i - Len(s) = j + 1 /\ i # 1
          /\ i - 1 \in 1 .. Len(s) + Len(u) /\ ~(i - 1 <= Len(s)) /\ (i - 1) - Len(s) = j
          /\ j \in 1 .. Len(u) /\ j + 1 \in 1 .. Len(u)
      BY <1>3, <2>1, <3>1
    <3>3. r[i] = u[j + 1] /\ r[i - 1] = u[j]
      BY <1>5, <2>1, <3>2
    <3> QED
      BY <1>2, <3>1, <3>2, <3>3
  <2> QED
    BY <1>3, <2>1, <2>2, <2>3, <2>4
<1>7. Seen!Contiguous(r, h)
  BY <1>5, <1>6, ContiguousMeans
<1>8. Seen!UpTo(r, h) = b
  <2>1. Len(r) \in 1 .. Len(s) + Len(u) /\ ~(Len(r) <= Len(s)) /\ Len(r) - Len(s) = Len(u) /\ Len(r) # 0
    BY <1>3, <1>5
  <2>2. r[Len(r)] = u[Len(u)]
    BY <1>5, <2>1
  <2>3. Seen!UpTo(r, h) = r[Len(r)][2]
    BY <1>5, <2>1, ContiguousMeans
  <2> QED
    BY <1>2, <2>2, <2>3
<1>9. s # r
  BY <1>3, <1>5
<1>10. Seen!IsPrefix(s, r)
  <2>1. Len(s) <= Len(r)
    BY <1>3, <1>5
  <2>2. SubSeq(s, 1, Len(s)) = s
    BY SubSeqFull
  <2>3. SubSeq(s \o u, 1, Len(s)) = s
    BY <1>2, ConcatSimplifications, SubSeqOfConcat1
  <2> QED
    BY <1>4, <2>1, <2>2, <2>3 DEF Seen!IsPrefix
<1> QED
  BY <1>4, <1>5, <1>7, <1>8, <1>9, <1>10

(***************************************************************************)
(* The first k of the pieces have no gap either.                           *)
(***************************************************************************)
LEMMA JoinedPrefix ==
    ASSUME NEW u, NEW a \in Nat, NEW b \in Nat, Joined(u, a, b), NEW k \in DOMAIN u
    PROVE  Joined(SubSeq(u, 1, k), a, u[k][2]) /\ u[k][2] \in Nat /\ a < u[k][2] /\ u[k][2] <= b
<1>1. /\ u \in Seq(Interval) /\ u # <<>> /\ u[1][1] = a + 1
      /\ \A i \in 1 .. Len(u) : u[i][1] <= u[i][2] /\ a < u[i][2] /\ u[i][2] <= b
      /\ \A i \in 1 .. Len(u) - 1 : u[i + 1][1] = u[i][2] + 1
  BY DEF Joined
<1>2. Len(u) \in Nat /\ k \in 1 .. Len(u) /\ \A i \in 1 .. Len(u) : u[i] \in Interval
  BY <1>1, LenProperties, ElementOfSeq
<1>3. \A i \in 1 .. k : u[i] \in Interval
  BY <1>2
<1>4. PICK q : q = SubSeq(u, 1, k)
  OBVIOUS
<1>5. /\ q \in Seq(Interval)
      /\ Len(q) = (IF 1 <= k THEN k - 1 + 1 ELSE 0)
      /\ \A j \in 1 .. k - 1 + 1 : q[j] = u[1 + j - 1]
  BY <1>2, <1>3, <1>4, SubSeqProperties
<1>6. Len(q) = k /\ q # <<>> /\ \A j \in 1 .. k : q[j] = u[j]
  <2>1. Len(q) = k
    BY <1>2, <1>5
  <2>2. ASSUME NEW j \in 1 .. k
        PROVE  q[j] = u[j]
    <3>1. j \in 1 .. k - 1 + 1 /\ 1 + j - 1 = j
      BY <1>2
    <3> QED
      BY <1>5, <3>1
  <2> QED
    BY <1>2, <1>5, <2>1, <2>2, EmptySeq
<1>7. u[k][2] \in Nat
  BY <1>2 DEF Interval
<1>8. \A i \in 1 .. k : i <= k
  BY <1>2
<1>9. ASSUME NEW i \in 1 .. k
      PROVE  u[i][2] <= u[k][2]
  <2> DEFINE Done == {d \in Nat : d < k => u[k - d][2] <= u[k][2]}
  <2>1. 0 \in Done
    BY <1>2, <1>7
  <2>2. ASSUME NEW d \in Nat, d \in Done
        PROVE  d + 1 \in Done
    <3> SUFFICES ASSUME d + 1 < k
                 PROVE  u[k - (d + 1)][2] <= u[k][2]
      OBVIOUS
    <3>1. PICK j \in 1 .. Len(u) - 1 : j = k - (d + 1)
      BY <1>2
    <3>2. j \in 1 .. Len(u) /\ j + 1 \in 1 .. Len(u) /\ j + 1 = k - d
      BY <1>2, <3>1
    <3>3. u[k - d][2] <= u[k][2]
      BY <1>2, <2>2
    <3>4. u[j + 1][1] = u[j][2] + 1 /\ u[j + 1][1] <= u[j + 1][2]
      BY <1>1, <3>1, <3>2
    <3>5. u[j][2] \in Nat /\ u[j + 1][2] \in Nat /\ u[j + 1][1] \in Nat
      BY <1>2, <3>2 DEF Interval
    <3> QED
      BY <1>7, <3>1, <3>2, <3>3, <3>4, <3>5, SMTT(60)
  <2>3. Nat \subseteq Done
    <3> HIDE DEF Done
    <3> QED
      BY <2>1, <2>2, Induction
  <2>4. k - i \in Nat /\ k - i < k /\ k - (k - i) = i
    BY <1>2
  <2> QED
    BY <2>3, <2>4
<1>10. \A i \in 1 .. k : q[i][1] <= q[i][2] /\ a < q[i][2] /\ q[i][2] <= u[k][2]
  <2>1. \A i \in 1 .. k : i \in 1 .. Len(u)
    BY <1>2
  <2> QED
    BY <1>1, <1>6, <1>9, <2>1
<1>11. \A i \in 1 .. k - 1 : q[i + 1][1] = q[i][2] + 1
  <2>1. \A i \in 1 .. k - 1 : i \in 1 .. Len(u) - 1 /\ i \in 1 .. k /\ i + 1 \in 1 .. k
    BY <1>2
  <2> QED
    BY <1>1, <1>6, <2>1
<1>12. q[1][1] = a + 1 /\ q[Len(q)][2] = u[k][2]
  <2>1. 1 \in 1 .. k /\ k \in 1 .. k
    BY <1>2
  <2> QED
    BY <1>1, <1>6, <2>1
<1> QED
  BY <1>1, <1>2, <1>4, <1>5, <1>6, <1>7, <1>10, <1>11, <1>12 DEF Joined

\* Requests are read, and no answer has begun.
Open == pc \notin {"answer", "head", "body"} /\ ~shutdownReadSend

\* The chain covers what was read and not taken, and the body has no gap.
InputInv ==
    /\ sent \in Nat /\ got \in 0 .. sent
    /\ Covers(input, pos, got) /\ pos \in 0 .. got /\ bytesRead \in Nat
    /\ requestState \in States /\ request \in BOOLEAN
    /\ contentLength \in Nat /\ declared \in Nat
    /\ lines \in Seq(Interval) /\ body \in Seq(Interval)
    /\ shutdownReadSend \in BOOLEAN
    /\ input = <<>> /\ Open => pos = got
    /\ pc \in {"filter", "process", "answer", "head", "body"} => ~shutdownReadSend
    /\ pc = "process" => requestState = "RequestProcess" /\ pos = HeadLength
    /\ requestState \notin {"RequestInput", "ReqeustInvalid"} => body = <<>>
    /\ requestState = "RequestInput" =>
           contentLength > 0 /\ Seen!UpTo(body, HeadLength) = pos
    /\ Seen!Contiguous(body, HeadLength)
    /\ BodyCounted
    /\ request <=> requestState # "RequestLine"
    /\ Open => requestState # "ReqeustInvalid"

inputVars == <<got, chainVars, requestVars, lines, body>>

(***************************************************************************)
(* Where the code takes a line from, a line ends no later than it was       *)
(* found to.                                                               *)
(***************************************************************************)
LEMMA ExtractType ==
    ASSUME NEW chain \in Seq(Buffer), chain # <<>>, NEW e \in Nat, NEW b \in Nat
    PROVE  Extract(chain, e, b) \in Interval /\ Extract(chain, e, b)[2] <= e
<1>1. PICK f \in Buffer : f = Head(chain)
  <2>1. Head(chain) \in Buffer
    BY HeadTailProperties
  <2> QED
    BY <2>1
<1>2. /\ f.first \in Nat \ {0} /\ f.absolute \in Nat /\ f.size \in Nat /\ LineLimit \in Nat
  <2>1. f.size \in 1 .. Capacity /\ Capacity \in Nat /\ LineLimit \in Nat
    BY ChainAssumption DEF Buffer
  <2> QED
    BY <2>1 DEF Buffer
<1>3. PICK o : o = Offset(f, e)
  OBVIOUS
<1>4. o \in Nat /\ (o > 0 => o <= e - f.first + 1)
  BY <1>2, <1>3 DEF Offset, Greater, Lesser
<1>5. GetBytesRead(chain, e) = f.absolute + o
  BY <1>1, <1>3 DEF GetBytesRead
<1>6. PICK length : length = GetBytesRead(chain, e) - b
  OBVIOUS
<1>a. length \in Int /\ length = f.absolute + o - b
  BY <1>2, <1>4, <1>5, <1>6
<1>7. PICK used : used = IF Len(chain) = 1 THEN length ELSE Lesser(length, LineLimit)
  OBVIOUS
<1>8. used \in Int /\ used <= length /\ (length > 0 => used >= 0)
  <2>1. Lesser(length, LineLimit) \in Int /\ Lesser(length, LineLimit) <= length
        /\ (length > 0 => Lesser(length, LineLimit) >= 0)
    BY <1>2, <1>a DEF Lesser
  <2> QED
    BY <1>7, <1>a, <2>1
<1>9. Extract(chain, e, b) =
        IF length > 0 /\ f.absolute <= b
        THEN <<f.first + b - f.absolute, f.first + b - f.absolute + used - 1>> ELSE Garbled
  BY <1>1, <1>6, <1>7, Zenon DEF Extract
<1>10. CASE length > 0 /\ f.absolute <= b
  <2>1. PICK s \in Nat \ {0} : s = f.first + b - f.absolute
    BY <1>2, <1>10
  <2>2. PICK l \in Nat : l = s + used - 1
    BY <1>8, <1>10, <2>1
  <2>3. l <= e
    BY <1>2, <1>4, <1>a, <1>8, <1>10, <2>1, <2>2, SMTT(60)
  <2>4. Extract(chain, e, b) = <<s, l>>
    BY <1>9, <1>10, <2>1, <2>2
  <2> QED
    BY <2>3, <2>4 DEF Interval
<1>11. CASE ~(length > 0 /\ f.absolute <= b)
  BY <1>9, <1>11 DEF Garbled, Interval
<1> QED
  BY <1>10, <1>11

(***************************************************************************)
(* Steps that leave the input alone, and begin no reading.                  *)
(***************************************************************************)
LEMMA InputKept ==
    ASSUME InputInv, UNCHANGED inputVars, sent' \in Nat, got <= sent',
           Open' => Open, shutdownReadSend' \in BOOLEAN,
           pc' \in {"filter", "process", "answer", "head", "body"} => ~shutdownReadSend',
           pc' = "process" => pc = "process"
    PROVE  InputInv'
<1>1. got' \in 0 .. sent'
  BY DEF InputInv, inputVars
<1>2. /\ got' = got /\ input' = input /\ pos' = pos /\ bytesRead' = bytesRead
      /\ requestState' = requestState /\ request' = request
      /\ contentLength' = contentLength /\ declared' = declared
      /\ lines' = lines /\ body' = body
  BY DEF inputVars, chainVars, requestVars
<1>3. BodyCounted'
  BY <1>2 DEF InputInv, BodyCounted
<1>4. (input = <<>> /\ Open => pos = got)'
  <2>1. Open' => Open
    OBVIOUS
  <2> QED
    BY <1>2, <2>1, Zenon DEF InputInv
<1>5. (requestState \notin {"RequestInput", "ReqeustInvalid"} => body = <<>>)'
  BY <1>2, Zenon DEF InputInv
<1>6. /\ (requestState = "RequestInput" =>
             contentLength > 0 /\ Seen!UpTo(body, HeadLength) = pos)'
      /\ Seen!Contiguous(body, HeadLength)'
  BY <1>2, Zenon DEF InputInv
<1>7. /\ (request <=> requestState # "RequestLine")'
      /\ (Open => requestState # "ReqeustInvalid")'
  <2>1. Open' => Open
    OBVIOUS
  <2> QED
    BY <1>2, <2>1, Zenon DEF InputInv
<1> QED
  BY <1>1, <1>2, <1>3, <1>4, <1>5, <1>6, <1>7, Zenon DEF InputInv

(***************************************************************************)
(* They are these.                                                         *)
(***************************************************************************)
LEMMA InputKeptActions ==
    ASSUME InputInv, KernelOK, StreamLength \in Nat,
           \/ Peer \/ Wake \/ WakeError \/ FilterDone \/ LineTooLong \/ InputRefused
           \/ SubmitResponse \/ WritePiece \/ WriteResponse \/ PerformWrite \/ EndEvent
           \/ UNCHANGED vars
    PROVE  InputInv'
<1>1. sent \in Nat /\ got <= sent /\ got \in Nat /\ shutdownReadSend \in BOOLEAN
  BY DEF InputInv
<1>2. pc \in {"filter", "process", "answer", "head", "body"} => ~shutdownReadSend
  BY DEF InputInv
<1>3. CASE Peer
  <2>1. UNCHANGED <<got, workerVars, chainVars, requestVars, shutVars, seenVars>>
    BY <1>3, Zenon DEF Peer, Send, Drain, Leave
  <2>2. sent' \in Nat /\ got <= sent'
    <3>1. ASSUME NEW n \in 1 .. StreamLength, Send(n)
          PROVE  sent' \in Nat /\ got <= sent'
      BY <1>1, <3>1 DEF Send
    <3>2. ASSUME \/ \E n \in 0 .. window : Drain(n)
                 \/ \E how \in {"closed", "reset"} : Leave(how)
          PROVE  sent' = sent
      BY <3>2, Zenon DEF Drain, Leave
    <3> QED
      BY <1>1, <1>3, <3>1, <3>2 DEF Peer
  <2> QED
    BY <1>1, <1>2, <2>1, <2>2, InputKept
       DEF Open, inputVars, workerVars, chainVars, requestVars, shutVars, seenVars
<1>4. CASE Wake \/ WakeError
  BY <1>1, <1>2, <1>4, InputKept
     DEF Wake, WakeError, Open, inputVars, chainVars, requestVars, shutVars, seenVars
<1>5. CASE FilterDone \/ LineTooLong \/ InputRefused
  <2>1. /\ UNCHANGED <<kernelVars, chainVars, requestVars, shutVars, seenVars>>
        /\ pc = "filter" /\ pc' \in {"out", "answer"}
    BY <1>5, Zenon DEF FilterDone, LineTooLong, InputRefused, Reading
  <2> QED
    BY <1>1, <1>2, <2>1, InputKept
       DEF Open, inputVars, kernelVars, chainVars, requestVars, shutVars, seenVars
<1>6. CASE SubmitResponse
  <2>1. /\ UNCHANGED <<kernelVars, chainVars, requestVars, shutVars, seenVars>>
        /\ pc = "answer" /\ pc' = "head"
    BY <1>6, Zenon DEF SubmitResponse
  <2> QED
    BY <1>1, <1>2, <2>1, InputKept
       DEF Open, inputVars, kernelVars, chainVars, requestVars, shutVars, seenVars
<1>7. CASE WritePiece
  <2>1. /\ UNCHANGED <<sent, got, chainVars, requestVars, lines, body>> /\ pc = "head"
        /\ \/ pc' \in {"head", "body"} /\ UNCHANGED shutdownReadSend
           \/ pc' = "out" /\ shutdownReadSend' = TRUE
    BY <1>7 DEF WritePiece, Submitted
  <2>2. CASE pc' \in {"head", "body"} /\ UNCHANGED shutdownReadSend
    BY <1>1, <1>2, <2>1, <2>2, InputKept DEF Open, inputVars, chainVars, requestVars
  <2>3. CASE pc' = "out" /\ shutdownReadSend' = TRUE
    BY <1>1, <1>2, <2>1, <2>3, InputKept DEF Open, inputVars, chainVars, requestVars
  <2> QED
    BY <2>1, <2>2, <2>3
<1>8. CASE WriteResponse
  <2>1. /\ UNCHANGED <<sent, got, chainVars, requestVars, lines, body>> /\ pc = "body"
        /\ pc' = "out" /\ shutdownReadSend' = TRUE
    BY <1>8, Zenon DEF WriteResponse, Submitted
  <2> QED
    BY <1>1, <1>2, <2>1, InputKept DEF Open, inputVars, chainVars, requestVars
<1>9. CASE PerformWrite
  <2>1. /\ UNCHANGED <<sent, got, chainVars, requestVars, lines, body, shutdownReadSend>>
        /\ pc = "out" /\ pc' = "end"
    BY <1>9, Zenon DEF PerformWrite
  <2> QED
    BY <1>1, <1>2, <2>1, InputKept DEF Open, inputVars, chainVars, requestVars
<1>10. CASE EndEvent
  <2>1. /\ UNCHANGED <<kernelVars, chainVars, requestVars, shutVars, seenVars>>
        /\ pc = "end" /\ pc' \in {"wait", "gone"}
    BY <1>10 DEF EndEvent
  <2> QED
    BY <1>1, <1>2, <2>1, InputKept
       DEF Open, inputVars, kernelVars, chainVars, requestVars, shutVars, seenVars
<1>11. CASE UNCHANGED vars
  BY <1>1, <1>2, <1>11, InputKept
     DEF Open, vars, inputVars, kernelVars, workerVars, chainVars, requestVars, shutVars, seenVars
<1> QED
  BY <1>3, <1>4, <1>5, <1>6, <1>7, <1>8, <1>9, <1>10, <1>11, Zenon

(***************************************************************************)
(* What is not empty has units to read, up to the last that was received.   *)
(***************************************************************************)
LEMMA UnreadLeft ==
    ASSUME NEW chain, NEW p \in Nat, NEW g \in Nat, Covers(chain, p, g),
           ~IsEmpty(chain, p)
    PROVE  chain # <<>> /\ chain \in Seq(Buffer) /\ End(Last(chain)) = g /\ p < g
           /\ chain[1].first <= p + 1
<1>1. /\ chain # <<>> /\ chain \in Seq(Buffer) /\ End(chain[Len(chain)]) = g
      /\ chain[1].first <= p + 1
  BY DEF Covers, IsEmpty
<1>2. PICK l \in Buffer : l = Last(chain)
  <2>1. Len(chain) \in 1 .. Len(chain)
    BY <1>1, ChainFacts
  <2> QED
    BY <1>1, <2>1, ElementOfSeq DEF Last
<1>3. End(l) = g
  BY <1>1, <1>2 DEF Last
<1>4. l.size - Offset(l, p) # 0
  BY <1>2 DEF IsEmpty, AvailableForRead
<1>5. l.first \in Nat /\ l.size \in Nat \ {0} /\ g = l.first + l.size - 1
  <2>1. l.size \in 1 .. Capacity /\ Capacity \in Nat
    BY ChainAssumption DEF Buffer
  <2> QED
    BY <1>3, <2>1 DEF Buffer, End
<1>6. p < g
  BY <1>4, <1>5 DEF Offset, Greater, Lesser
<1> QED
  BY <1>1, <1>2, <1>3, <1>6

(***************************************************************************)
(* performRead takes what the socket has.                                   *)
(***************************************************************************)
LEMMA InputRead ==
    ASSUME InputInv, PerformRead
    PROVE  InputInv'
<1>1. /\ sent \in Nat /\ got \in Nat /\ got <= sent /\ pos \in Nat /\ pos <= got
      /\ shutdownReadSend \in BOOLEAN
  BY DEF InputInv
<1>2. UNCHANGED <<sent, pos, bytesRead, requestVars, lines, body, shutVars>> /\ pc = "read"
  BY DEF PerformRead, seenVars
<1>3. CASE shutdownReadSend
  <2>1. pc' = "out" /\ UNCHANGED <<got, input>>
    BY <1>3 DEF PerformRead
  <2> QED
    BY <1>1, <1>2, <1>3, <2>1, InputKept DEF Open, inputVars, chainVars, requestVars, shutVars
<1>4. CASE ~shutdownReadSend
  <2>1. /\ input' = ReadFromFd(input, got + 1, sent - got) /\ got' = sent
        /\ pc' \in {"out", "filter"}
    BY <1>4 DEF PerformRead
  <2>2. input = <<>> => got = pos
    BY <1>2, <1>4 DEF InputInv, Open
  <2>3. PICK n \in Nat : n = sent - got
    BY <1>1
  <2>4. /\ Covers(input', pos, got + n)
        /\ input' = <<>> => input = <<>> /\ n = 0
    <3>1. Covers(input, pos, got) /\ (input = <<>> => got <= pos)
      BY <1>1, <2>2 DEF InputInv
    <3>2. input' = ReadFromFd(input, got + 1, n)
      BY <2>1, <2>3, Zenon
    <3>3. ReadOn(input, pos, got, n, ReadFromFd(input, got + 1, n))
      <4>1. pos \in Nat /\ got \in Nat
        BY <1>1
      <4> QED
        BY <3>1, <4>1, ReadCovers
    <3> QED
      BY <3>2, <3>3, Zenon DEF ReadOn
  <2>5. got + n = sent
    BY <1>1, <2>3
  <2>6. Covers(input', pos', got')
    BY <1>2, <2>1, <2>4, <2>5
  <2>7. /\ sent' = sent /\ pos' = pos /\ bytesRead' = bytesRead
        /\ requestState' = requestState /\ request' = request
        /\ contentLength' = contentLength /\ declared' = declared
        /\ lines' = lines /\ body' = body /\ shutdownReadSend' = shutdownReadSend
    BY <1>2 DEF requestVars, shutVars
  <2>8. (input = <<>> /\ Open => pos = got)'
    BY <2>1, <2>2, <2>3, <2>4, <2>5, <2>7, <1>1
  <2>9. BodyCounted'
    BY <2>7 DEF InputInv, BodyCounted
  <2>10. sent' \in Nat /\ got' \in 0 .. sent' /\ pos' \in 0 .. got'
    BY <1>1, <2>1, <2>7
  <2>11. /\ (requestState = "RequestInput" =>
               contentLength > 0 /\ Seen!UpTo(body, HeadLength) = pos)'
         /\ Seen!Contiguous(body, HeadLength)'
         /\ (requestState \notin {"RequestInput", "ReqeustInvalid"} => body = <<>>)'
         /\ (request <=> requestState # "RequestLine")'
         /\ (Open => requestState # "ReqeustInvalid")'
    BY <1>2, <1>4, <2>7, Zenon DEF InputInv, Open
  <2> QED
    BY <1>4, <2>1, <2>6, <2>7, <2>8, <2>9, <2>10, <2>11 DEF InputInv
<1> QED
  BY <1>3, <1>4

(***************************************************************************)
(* What a step of the input filter finds: there is input, and no answer.   *)
(***************************************************************************)
LEMMA FilterFinds ==
    ASSUME InputInv, pc = "filter", ~IsEmpty(input, pos)
    PROVE  /\ input # <<>> /\ input \in Seq(Buffer) /\ End(Last(input)) = got
           /\ pos < got /\ input[1].first <= pos + 1
           /\ pos \in Nat /\ got \in Nat /\ sent \in Nat /\ got <= sent /\ bytesRead \in Nat
           /\ Open /\ shutdownReadSend = FALSE
<1>1. /\ pos \in Nat /\ got \in Nat /\ sent \in Nat /\ got <= sent /\ bytesRead \in Nat
      /\ Covers(input, pos, got)
  BY DEF InputInv
<1>2. Open /\ shutdownReadSend = FALSE
  BY DEF InputInv, Open
<1> QED
  BY <1>1, <1>2, UnreadLeft, Zenon

(***************************************************************************)
(* What is covered before is covered later.                                *)
(***************************************************************************)
LEMMA CoversLater ==
    ASSUME NEW chain, NEW b \in Nat, NEW p \in Nat, b <= p, NEW g, Covers(chain, b, g)
    PROVE  Covers(chain, p, g)
<1>1. chain # <<>> => chain[1].first \in Nat
  <2>1. chain \in Seq(Buffer)
    BY DEF Covers
  <2> QED
    BY <2>1, ChainFacts
<1> QED
  BY <1>1 DEF Covers

(***************************************************************************)
(* A part of the head without a line's end is read as a whole.              *)
(***************************************************************************)
LEMMA InputNotFound ==
    ASSUME InputInv, LineNotFound
    PROVE  InputInv'
<1>1. /\ pc = "filter" /\ ~IsEmpty(input, pos)
      /\ requestState \in {"RequestLine", "RequestHeaders"}
      /\ pos' = End(Last(input))
      /\ UNCHANGED <<kernelVars, workerVars, input, bytesRead, requestVars,
                     answerVars, shutVars, seenVars>>
  BY Zenon DEF LineNotFound, Reading
<1>2. /\ input # <<>> /\ End(Last(input)) = got /\ pos < got /\ pos \in Nat /\ got \in Nat
      /\ sent \in Nat /\ got <= sent /\ bytesRead \in Nat /\ Open /\ shutdownReadSend = FALSE
  BY <1>1, FilterFinds
<1>3. /\ sent' = sent /\ got' = got /\ pos' = got /\ bytesRead' = bytesRead /\ input' = input
      /\ requestState' = requestState /\ request' = request /\ pc' = pc
      /\ contentLength' = contentLength /\ declared' = declared
      /\ lines' = lines /\ body' = body /\ shutdownReadSend' = shutdownReadSend
  BY <1>1, <1>2 DEF kernelVars, workerVars, requestVars, shutVars, seenVars
<1>4. Covers(input', pos', got')
  <2>1. Covers(input, pos, got) /\ pos <= got
    BY <1>2 DEF InputInv
  <2>2. Covers(input, got, got)
    BY <1>2, <2>1, CoversLater
  <2> QED
    BY <1>3, <2>2, Zenon
<1>5. BodyCounted'
  BY <1>3 DEF InputInv, BodyCounted
<1>6. sent' \in Nat /\ got' \in 0 .. sent' /\ pos' \in 0 .. got'
  BY <1>2, <1>3
<1>7. /\ (requestState = "RequestInput" =>
             contentLength > 0 /\ Seen!UpTo(body, HeadLength) = pos)'
      /\ Seen!Contiguous(body, HeadLength)'
      /\ (requestState \notin {"RequestInput", "ReqeustInvalid"} => body = <<>>)'
      /\ (request <=> requestState # "RequestLine")'
      /\ (Open => requestState # "ReqeustInvalid")'
  BY <1>1, <1>2, <1>3 DEF InputInv
<1> QED
  BY <1>1, <1>2, <1>3, <1>4, <1>5, <1>6, <1>7 DEF InputInv

(***************************************************************************)
(* The end of a line that is found is among those still to come, and the    *)
(* empty line is found at the end of the head.                             *)
(***************************************************************************)
LEMMA FirstFound ==
    ASSUME InputInv, pc = "filter", ~IsEmpty(input, pos),
           NEW found, found = FoundEnds(input, pos, HeadEnds), found # {}
    PROVE  /\ Min(found) \in HeadEnds /\ Min(found) \in Nat
           /\ pos < Min(found) /\ Min(found) <= got
           /\ \A e \in HeadEnds : pos < e => Min(found) <= e
           /\ LineBase \in Nat => Extract(input, Min(found), LineBase) \in Interval
           /\ LineBase \in Nat /\ Extract(input, Min(found), LineBase) = EndOfHead =>
                Min(found) = HeadLength
<1>1. /\ input # <<>> /\ input \in Seq(Buffer) /\ End(Last(input)) = got
      /\ pos \in Nat /\ got \in Nat
  BY FilterFinds
<1>2. found = {e \in HeadEnds : pos < e /\ e <= got}
  BY <1>1 DEF FoundEnds
<1>3. /\ HeadLength \in Nat
      /\ \A e \in HeadEnds : e \in Nat /\ e <= HeadLength
  BY HeadEnd
<1>4. PICK m : m = Min(found)
  OBVIOUS
<1>5. m \in found /\ \A y \in found : m <= y
  BY <1>2, <1>3, <1>4, MinIsLeast
<1>6. m \in HeadEnds /\ m \in Nat /\ pos < m /\ m <= got
  BY <1>2, <1>3, <1>5
<1>7. ASSUME NEW e \in HeadEnds, pos < e
      PROVE  m <= e
  <2>1. CASE e <= got
    BY <1>2, <1>5, <1>7, <2>1
  <2>2. CASE ~(e <= got)
    BY <1>1, <1>3, <1>6, <2>2
  <2> QED
    BY <2>1, <2>2
<1>8. ASSUME LineBase \in Nat
      PROVE  /\ Extract(input, m, LineBase) \in Interval
             /\ Extract(input, m, LineBase) = EndOfHead => m = HeadLength
  <2>1. Extract(input, m, LineBase) \in Interval /\ Extract(input, m, LineBase)[2] <= m
    BY <1>1, <1>6, <1>8, ExtractType
  <2>2. EndOfHead[2] = HeadLength
    BY DEF EndOfHead
  <2>3. m <= HeadLength
    BY <1>3, <1>6
  <2> QED
    BY <1>3, <1>6, <2>1, <2>2, <2>3
<1> QED
  BY <1>4, <1>6, <1>7, <1>8

(***************************************************************************)
(* A line is taken, or it ends the head, or it is refused.                  *)
(***************************************************************************)
LEMMA InputParsed ==
    ASSUME InputInv, ParseLine
    PROVE  InputInv'
<1> DEFINE found == FoundEnds(input, pos, HeadEnds)
           line == Extract(input, Min(found), LineBase)
<1>1. /\ pc = "filter" /\ ~IsEmpty(input, pos)
      /\ requestState \in {"RequestLine", "RequestHeaders"}
      /\ pos' = Min(found) /\ lines' = Append(lines, line)
      /\ UNCHANGED <<kernelVars, mask, released, contentLength, declared,
                     answerVars, shutVars, body, wire>>
  BY Zenon DEF ParseLine, Reading
<1>2. found # {}
  <2>1. ~(found \subseteq IF requestState = "RequestLine" THEN {End(Last(input))} ELSE {})
    BY Zenon DEF ParseLine
  <2> QED
    BY <2>1
<1>3. \/ /\ bytesRead' = GetBytesRead(input, pos')
         /\ input' = ReleaseEmpty(input, Min(found))
         /\ requestState' = "RequestHeaders" /\ request' = TRUE /\ UNCHANGED pc
      \/ /\ line = EndOfHead /\ requestState = "RequestHeaders"
         /\ bytesRead' = GetBytesRead(input, pos')
         /\ input' = ReleaseEmpty(input, Min(found))
         /\ requestState' = "RequestProcess" /\ UNCHANGED request /\ pc' = "process"
      \/ /\ pc' = "answer"
         /\ UNCHANGED <<input, bytesRead, requestState, request>>
  BY Zenon DEF ParseLine
<1>4. /\ input # <<>> /\ input \in Seq(Buffer) /\ End(Last(input)) = got
      /\ pos \in Nat /\ got \in Nat /\ sent \in Nat /\ got <= sent /\ bytesRead \in Nat
      /\ Open /\ shutdownReadSend = FALSE
  BY <1>1, FilterFinds
<1>5. LineBase \in Nat
  BY <1>4 DEF LineBase
<1>6. PICK m \in Nat : m = Min(found) /\ pos < m /\ m <= got
                       /\ line \in Interval /\ (line = EndOfHead => m = HeadLength)
  <2> HIDE DEF found
  <2>1. PICK f : f = found
    OBVIOUS
  <2>2. f = FoundEnds(input, pos, HeadEnds)
    BY <2>1 DEF found
  <2> QED
    BY <1>1, <1>2, <1>5, <2>1, <2>2, FirstFound
<1> HIDE DEF found, line
<1>7. /\ sent' = sent /\ got' = got /\ pos' = m
      /\ contentLength' = contentLength /\ declared' = declared /\ body' = body
      /\ shutdownReadSend' = shutdownReadSend
  BY <1>1, <1>6 DEF kernelVars, shutVars
<1>8. lines' \in Seq(Interval)
  <2>1. lines \in Seq(Interval)
    BY DEF InputInv
  <2> QED
    BY <1>1, <1>6, <2>1, AppendProperties
<1>9. Covers(input, pos, got)
  BY DEF InputInv
<1>10. /\ Covers(input', m, got)
       /\ input' = <<>> => m = got
       /\ bytesRead' \in Nat
  <2>1. Covers(input, m, got)
    BY <1>4, <1>6, <1>9, CoversLater
  <2>2. PICK r : r = ReleaseEmpty(input, m)
    OBVIOUS
  <2>3. Covers(r, m, got) /\ (r = <<>> => m = got)
    <3>1. Covers(r, m, got) /\ (r = <<>> => got <= m)
      BY <1>4, <1>6, <1>9, <2>2, ReleaseCovers
    <3> QED
      BY <1>4, <1>6, <3>1
  <2>4. GetBytesRead(input, m) \in Nat
    <3>1. PICK f \in Buffer : f = Head(input)
      BY <1>4, HeadTailProperties
    <3>2. f.first \in Nat /\ f.absolute \in Nat /\ f.size \in Nat
      <4>1. f.size \in 1 .. Capacity /\ Capacity \in Nat
        BY ChainAssumption DEF Buffer
      <4> QED
        BY <4>1 DEF Buffer
    <3>3. Offset(f, m) \in Nat
      BY <1>6, <3>2 DEF Offset, Greater, Lesser
    <3>4. GetBytesRead(input, m) = f.absolute + Offset(f, m)
      BY <1>4, <3>1 DEF GetBytesRead
    <3> QED
      BY <3>2, <3>3, <3>4
  <2>5. CASE input' = ReleaseEmpty(input, Min(found)) /\ bytesRead' = GetBytesRead(input, pos')
    BY <1>6, <1>7, <2>2, <2>3, <2>4, <2>5, Zenon
  <2>6. CASE UNCHANGED <<input, bytesRead>>
    BY <1>4, <2>1, <2>6
  <2> QED
    BY <1>3, <2>5, <2>6, Zenon
<1>11. /\ requestState' \in {"RequestLine", "RequestHeaders", "RequestProcess"}
       /\ request' \in BOOLEAN /\ (request <=> requestState # "RequestLine")'
       /\ pc' \in {"filter", "process", "answer"}
       /\ pc' = "process" => requestState' = "RequestProcess" /\ m = HeadLength
  <2>1. request \in BOOLEAN /\ (request <=> requestState # "RequestLine")
    BY DEF InputInv
  <2>2. CASE requestState' = "RequestHeaders" /\ request' = TRUE /\ UNCHANGED pc
    BY <1>1, <2>2
  <2>3. CASE /\ line = EndOfHead /\ requestState = "RequestHeaders"
             /\ requestState' = "RequestProcess" /\ UNCHANGED request /\ pc' = "process"
    BY <1>6, <2>1, <2>3
  <2>4. CASE pc' = "answer" /\ UNCHANGED <<requestState, request>>
    BY <1>1, <2>1, <2>4
  <2> QED
    BY <1>3, <2>2, <2>3, <2>4, Zenon
<1>12. BodyCounted'
  BY <1>11 DEF BodyCounted
<1>13. body = <<>> /\ Seen!Contiguous(body, HeadLength) /\ contentLength \in Nat /\ declared \in Nat
  BY <1>1 DEF InputInv
<1>14. /\ sent' \in Nat /\ got' \in 0 .. sent' /\ pos' \in 0 .. got'
       /\ (input = <<>> /\ Open => pos = got)'
       /\ Covers(input', pos', got')
  BY <1>4, <1>6, <1>7, <1>10
<1>15. /\ (requestState = "RequestInput" =>
              contentLength > 0 /\ Seen!UpTo(body, HeadLength) = pos)'
       /\ Seen!Contiguous(body, HeadLength)'
       /\ (requestState \notin {"RequestInput", "ReqeustInvalid"} => body = <<>>)'
       /\ (Open => requestState # "ReqeustInvalid")'
       /\ (pc \in {"filter", "process", "answer", "head", "body"} => ~shutdownReadSend)'
       /\ (pc = "process" => requestState = "RequestProcess" /\ pos = HeadLength)'
       /\ shutdownReadSend' \in BOOLEAN /\ requestState' \in States
  BY <1>4, <1>7, <1>11, <1>13 DEF States
<1> QED
  BY <1>7, <1>8, <1>10, <1>11, <1>12, <1>13, <1>14, <1>15 DEF InputInv

(***************************************************************************)
(* The request goes to its handler, which may ask for the body.             *)
(***************************************************************************)
LEMMA InputProcessed ==
    ASSUME InputInv, ProcessRequest
    PROVE  InputInv'
<1>1. PICK v \in Verdicts, length \in Lengths :
         /\ v.filter => length > 0
         /\ declared' = length /\ contentLength' = length
         /\ requestState' = IF v.status \in {"OK", "SUSPENDED"} /\ v.filter
                            THEN "RequestInput" ELSE "RequestProcess"
         /\ pc' = CASE v.status \in {"OK", "SUSPENDED"} -> "filter"
                    [] v.status = "DECLINED" -> "out"
                    [] OTHER -> "answer"
         /\ shutdownReadSend' = (shutdownReadSend \/ v.status = "DECLINED")
  BY Zenon DEF ProcessRequest
<1>2. /\ pc = "process"
      /\ UNCHANGED <<kernelVars, chainVars, request, shutdownWriteSend, seenVars>>
  BY Zenon DEF ProcessRequest
<1>3. /\ sent \in Nat /\ got \in 0 .. sent /\ Covers(input, pos, got) /\ pos \in 0 .. got
      /\ bytesRead \in Nat /\ request \in BOOLEAN
      /\ lines \in Seq(Interval) /\ body \in Seq(Interval)
      /\ shutdownReadSend = FALSE /\ requestState = "RequestProcess" /\ pos = HeadLength
      /\ body = <<>> /\ Seen!Contiguous(body, HeadLength)
      /\ (request <=> requestState # "RequestLine")
      /\ input = <<>> => pos = got
  BY <1>2 DEF InputInv, Open
<1>4. /\ sent' = sent /\ got' = got /\ pos' = pos /\ bytesRead' = bytesRead /\ input' = input
      /\ request' = request /\ lines' = lines /\ body' = body
  BY <1>2 DEF kernelVars, chainVars, seenVars
<1>5. length \in Nat /\ HeadLength \in Nat
  BY PeerAssumption, HeadEnd
<1>6. /\ requestState' \in {"RequestInput", "RequestProcess"}
      /\ requestState' = "RequestInput" => length > 0
      /\ pc' \in {"filter", "out", "answer"}
      /\ shutdownReadSend' \in BOOLEAN
      /\ pc' \in {"filter", "answer"} => ~shutdownReadSend'
  <2>1. CASE v.status \in {"OK", "SUSPENDED"}
    BY <1>1, <1>3, <2>1
  <2>2. CASE v.status = "DECLINED"
    BY <1>1, <1>3, <2>2
  <2>3. CASE v.status \notin {"OK", "SUSPENDED", "DECLINED"}
    BY <1>1, <1>3, <2>3
  <2> QED
    BY <2>1, <2>2, <2>3
<1>7. Seen!UpTo(<<>>, HeadLength) = HeadLength
  BY DEF Seen!UpTo
<1>8. BodyCounted'
  <2>1. Seen!UpTo(body', HeadLength) - HeadLength + contentLength' = declared'
    BY <1>1, <1>3, <1>4, <1>5, <1>7
  <2> QED
    BY <2>1 DEF BodyCounted
<1>9. /\ (requestState = "RequestInput" =>
             contentLength > 0 /\ Seen!UpTo(body, HeadLength) = pos)'
      /\ Seen!Contiguous(body, HeadLength)'
      /\ (requestState \notin {"RequestInput", "ReqeustInvalid"} => body = <<>>)'
      /\ (request <=> requestState # "RequestLine")'
      /\ (Open => requestState # "ReqeustInvalid")'
      /\ (pc \in {"filter", "process", "answer", "head", "body"} => ~shutdownReadSend)'
      /\ (pc = "process" => requestState = "RequestProcess" /\ pos = HeadLength)'
      /\ (input = <<>> /\ Open => pos = got)'
      /\ requestState' \in States
  BY <1>1, <1>3, <1>4, <1>6, <1>7 DEF States
<1>10. /\ Covers(input', pos', got') /\ sent' \in Nat /\ got' \in 0 .. sent' /\ pos' \in 0 .. got'
       /\ bytesRead' \in Nat /\ request' \in BOOLEAN
       /\ lines' \in Seq(Interval) /\ body' \in Seq(Interval)
       /\ contentLength' \in Nat /\ declared' \in Nat
  BY <1>1, <1>3, <1>4, <1>5
<1> QED
  BY <1>6, <1>8, <1>9, <1>10 DEF InputInv

(***************************************************************************)
(* What the filter is given of the body has no gap, and ends with it.       *)
(***************************************************************************)
LEMMA PiecesJoined ==
    ASSUME InputInv, ReadingBody
    PROVE  \E last \in Nat :
              /\ pos < last /\ last <= got /\ last <= pos + contentLength
              /\ got - pos < contentLength => last = got
              /\ ~(got - pos < contentLength) => last = pos + contentLength
              /\ Joined(Pieces, pos, last)
<1>1. /\ pc = "filter" /\ ~IsEmpty(input, pos) /\ requestState = "RequestInput"
  BY DEF ReadingBody
<1>2. /\ input # <<>> /\ End(Last(input)) = got /\ pos < got /\ pos \in Nat /\ got \in Nat
  BY <1>1, FilterFinds
<1>3. contentLength \in Nat \ {0} /\ Covers(input, pos, got)
  BY <1>1 DEF InputInv
<1>4. PICK last \in Nat :
         /\ last = Lesser(got, pos + contentLength)
         /\ pos < last /\ last <= got /\ last <= pos + contentLength
         /\ got - pos < contentLength => last = got
         /\ ~(got - pos < contentLength) => last = pos + contentLength
  BY <1>2, <1>3 DEF Lesser
<1>5. Joined(Unread(input, pos, last), pos, last)
  BY <1>2, <1>3, <1>4, UnreadJoined
<1>6. Pieces = Unread(input, pos, last)
  BY <1>2, <1>4, Zenon DEF Pieces
<1> QED
  BY <1>4, <1>5, <1>6

(***************************************************************************)
(* What a step of the body finds.                                           *)
(***************************************************************************)
LEMMA BodyFinds ==
    ASSUME InputInv, ReadingBody
    PROVE  /\ input # <<>> /\ End(Last(input)) = got /\ pos < got /\ Covers(input, pos, got)
           /\ pos \in Nat /\ got \in Nat /\ sent \in Nat /\ got <= sent /\ bytesRead \in Nat
           /\ Open /\ shutdownReadSend = FALSE /\ HeadLength \in Nat
           /\ contentLength \in Nat /\ declared \in Nat /\ requestState = "RequestInput"
           /\ request = TRUE
           /\ lines \in Seq(Interval) /\ body \in Seq(Interval)
           /\ Seen!Contiguous(body, HeadLength) /\ Seen!UpTo(body, HeadLength) = pos
           /\ pos - HeadLength + contentLength = declared
<1>1. /\ pc = "filter" /\ ~IsEmpty(input, pos) /\ requestState = "RequestInput"
  BY DEF ReadingBody
<1>2. /\ input # <<>> /\ End(Last(input)) = got /\ pos < got /\ pos \in Nat /\ got \in Nat
      /\ sent \in Nat /\ got <= sent /\ bytesRead \in Nat /\ Open /\ shutdownReadSend = FALSE
  BY <1>1, FilterFinds
<1>3. HeadLength \in Nat
  BY HeadEnd
<1>4. /\ contentLength \in Nat /\ declared \in Nat /\ request = TRUE
      /\ lines \in Seq(Interval) /\ body \in Seq(Interval) /\ Covers(input, pos, got)
      /\ Seen!Contiguous(body, HeadLength) /\ Seen!UpTo(body, HeadLength) = pos
      /\ BodyCounted
  BY <1>1 DEF InputInv
<1>5. pos - HeadLength + contentLength = declared
  BY <1>1, <1>4 DEF BodyCounted
<1> QED
  BY <1>1, <1>2, <1>3, <1>4, <1>5

(***************************************************************************)
(* The filter takes all there is.                                           *)
(***************************************************************************)
LEMMA InputTaken ==
    ASSUME InputInv, ProcessInput
    PROVE  InputInv'
<1>1. /\ ReadingBody /\ End(Last(input)) - pos < contentLength
      /\ body' = body \o Pieces
      /\ contentLength' = contentLength - (End(Last(input)) - pos)
      /\ pos' = End(Last(input)) /\ input' = <<>>
      /\ UNCHANGED <<kernelVars, workerVars, bytesRead, requestState, request,
                     declared, answerVars, shutVars, lines, wire>>
  BY Zenon DEF ProcessInput
<1>2. /\ End(Last(input)) = got /\ pos < got
      /\ pos \in Nat /\ got \in Nat /\ sent \in Nat /\ got <= sent /\ bytesRead \in Nat
      /\ Open /\ shutdownReadSend = FALSE /\ HeadLength \in Nat
      /\ contentLength \in Nat /\ declared \in Nat /\ requestState = "RequestInput"
      /\ request = TRUE
      /\ lines \in Seq(Interval) /\ body \in Seq(Interval)
      /\ Seen!Contiguous(body, HeadLength) /\ Seen!UpTo(body, HeadLength) = pos
      /\ pos - HeadLength + contentLength = declared
  BY <1>1, BodyFinds
<1>3. Joined(Pieces, Seen!UpTo(body, HeadLength), got)
  BY <1>1, <1>2, PiecesJoined
<1>4. /\ body' \in Seq(Interval) /\ Seen!Contiguous(body', HeadLength)
      /\ Seen!UpTo(body', HeadLength) = got
  BY <1>1, <1>2, <1>3, BodyGoesOn
<1>5. /\ sent' = sent /\ got' = got /\ pos' = got /\ bytesRead' = bytesRead /\ pc' = pc
      /\ requestState' = requestState /\ request' = request /\ declared' = declared
      /\ lines' = lines /\ shutdownReadSend' = shutdownReadSend /\ pc = "filter"
      /\ contentLength' = contentLength - (got - pos)
  BY <1>1, <1>2 DEF kernelVars, workerVars, shutVars, ReadingBody
<1>6. /\ contentLength' \in Nat /\ contentLength' > 0
      /\ got - HeadLength + contentLength' = declared
  BY <1>1, <1>2, <1>5
<1>7. Covers(input', pos', got')
  <2>1. \A i \in 1 .. Len(<<>>) - 1 : FALSE
    BY EmptySeq
  <2> QED
    BY <1>1, <2>1, EmptySeq DEF Covers, Tiled
<1>8. BodyCounted'
  BY <1>4, <1>5, <1>6 DEF BodyCounted
<1>a. /\ sent \in Nat /\ got \in Nat /\ got <= sent /\ bytesRead \in Nat
      /\ shutdownReadSend = FALSE /\ declared \in Nat /\ lines \in Seq(Interval)
      /\ requestState = "RequestInput" /\ request = TRUE
  BY <1>2
<1>b. sent' \in Nat /\ got' \in 0 .. sent' /\ pos' \in 0 .. got' /\ bytesRead' \in Nat
  BY <1>a, <1>5
<1>c. /\ request' \in BOOLEAN /\ declared' \in Nat /\ lines' \in Seq(Interval)
      /\ requestState' \in States /\ shutdownReadSend' \in BOOLEAN
  BY <1>a, <1>5 DEF States
<1>9. /\ (input = <<>> /\ Open => pos = got)'
      /\ (pc \in {"filter", "process", "answer", "head", "body"} => ~shutdownReadSend)'
      /\ (pc = "process" => requestState = "RequestProcess" /\ pos = HeadLength)'
      /\ (requestState \notin {"RequestInput", "ReqeustInvalid"} => body = <<>>)'
      /\ (request <=> requestState # "RequestLine")'
      /\ (Open => requestState # "ReqeustInvalid")'
  BY <1>a, <1>5
<1>10. (requestState = "RequestInput" =>
             contentLength > 0 /\ Seen!UpTo(body, HeadLength) = pos)'
  BY <1>4, <1>5, <1>6
<1>11. Seen!Contiguous(body, HeadLength)'
  BY <1>4
<1> QED
  BY <1>4, <1>6, <1>7, <1>8, <1>9, <1>10, <1>11, <1>b, <1>c DEF InputInv

(***************************************************************************)
(* The body is complete: all but its last piece is taken off the chain.     *)
(***************************************************************************)
LEMMA InputFinished ==
    ASSUME InputInv, FinishInput
    PROVE  InputInv'
<1>1. /\ ReadingBody /\ End(Last(input)) - pos >= contentLength
      /\ body' = body \o Pieces
      /\ pos' = Last(Pieces)[1] - 1 /\ input' = ReleaseEmpty(input, pos')
      /\ contentLength' = 0 /\ requestState' = "ReqeustInvalid" /\ pc' = "answer"
      /\ UNCHANGED <<kernelVars, bytesRead, request, declared, shutVars, lines>>
  BY Zenon DEF FinishInput
<1>2. /\ End(Last(input)) = got /\ pos < got /\ Covers(input, pos, got)
      /\ pos \in Nat /\ got \in Nat /\ sent \in Nat /\ got <= sent /\ bytesRead \in Nat
      /\ shutdownReadSend = FALSE /\ HeadLength \in Nat
      /\ contentLength \in Nat /\ declared \in Nat /\ request = TRUE
      /\ lines \in Seq(Interval) /\ body \in Seq(Interval)
      /\ Seen!Contiguous(body, HeadLength) /\ Seen!UpTo(body, HeadLength) = pos
      /\ pos - HeadLength + contentLength = declared
  BY <1>1, BodyFinds
<1>3. PICK last \in Nat : /\ last <= got /\ last = pos + contentLength
                          /\ Joined(Pieces, pos, last)
  <2>1. ~(got - pos < contentLength)
    BY <1>1, <1>2
  <2> QED
    BY <1>1, <2>1, PiecesJoined
<1>4. /\ body' \in Seq(Interval) /\ Seen!Contiguous(body', HeadLength)
      /\ Seen!UpTo(body', HeadLength) = last
  BY <1>1, <1>2, <1>3, BodyGoesOn
<1>5. PICK p \in Nat : pos' = p /\ pos <= p /\ p <= got
  <2>1. PICK u : u = Pieces
    OBVIOUS
  <2>2. /\ u \in Seq(Interval) /\ u # <<>> /\ u[1][1] = pos + 1
        /\ \A i \in 1 .. Len(u) : u[i][1] <= u[i][2] /\ pos < u[i][2] /\ u[i][2] <= last
        /\ \A i \in 1 .. Len(u) - 1 : u[i + 1][1] = u[i][2] + 1
    BY <1>3, <2>1 DEF Joined
  <2>3. PICK l \in Nat : l = Len(u) /\ l # 0
    BY <2>2, EmptySeq, LenProperties
  <2>4. u[l] \in Interval
    BY <2>2, <2>3, ElementOfSeq
  <2>5. PICK a \in Nat : a = u[l][1] /\ a <= u[l][2] /\ u[l][2] <= last /\ u[l][2] \in Nat
    BY <2>2, <2>3, <2>4 DEF Interval
  <2>6. a >= pos + 1
    <3>1. CASE l = 1
      BY <1>2, <2>2, <2>5, <3>1
    <3>2. CASE l # 1
      <4>1. PICK k \in Nat : k = l - 1 /\ k \in 1 .. Len(u) /\ k \in 1 .. Len(u) - 1
        BY <2>3, <3>2
      <4>2. pos < u[k][2] /\ u[k + 1][1] = u[k][2] + 1 /\ k + 1 = l
        BY <2>2, <2>3, <4>1
      <4>3. PICK c \in Nat : c = u[k][2]
        <5>1. u[k] \in Interval
          BY <2>2, <4>1, ElementOfSeq
        <5> QED
          BY <5>1 DEF Interval
      <4>4. pos < c /\ a = c + 1
        BY <2>5, <4>2, <4>3
      <4>5. pos \in Nat /\ a \in Nat
        BY <1>2
      <4> QED
        BY <4>4, <4>5
    <3> QED
      BY <3>1, <3>2
  <2>7. pos' = a - 1
    BY <1>1, <2>1, <2>3, <2>5 DEF Last
  <2>8. a <= last
    <3>1. PICK c \in Nat : c = u[l][2] /\ a <= c /\ c <= last
      BY <2>5
    <3> QED
      BY <3>1
  <2>9. pos \in Nat /\ got \in Nat /\ last <= got
    BY <1>2, <1>3
  <2> QED
    BY <2>6, <2>7, <2>8, <2>9
<1>6. /\ sent' = sent /\ got' = got /\ bytesRead' = bytesRead
      /\ request' = request /\ declared' = declared
      /\ lines' = lines /\ shutdownReadSend' = shutdownReadSend
  BY <1>1 DEF kernelVars, shutVars
<1>7. Covers(input', pos', got')
  <2>1. Covers(ReleaseEmpty(input, p), p, got)
    BY <1>2, <1>5, ReleaseCovers
  <2> QED
    BY <1>1, <1>5, <1>6, <2>1, Zenon
<1>8. BodyCounted'
  <2>1. last - HeadLength + 0 = declared
    BY <1>2, <1>3
  <2> QED
    BY <1>1, <1>4, <1>6, <2>1 DEF BodyCounted
<1>a. /\ sent \in Nat /\ got \in Nat /\ got <= sent /\ bytesRead \in Nat
      /\ shutdownReadSend = FALSE /\ declared \in Nat /\ lines \in Seq(Interval)
      /\ request = TRUE
  BY <1>2
<1>b. sent' \in Nat /\ got' \in 0 .. sent' /\ pos' \in 0 .. got' /\ bytesRead' \in Nat
  BY <1>a, <1>5, <1>6
<1>c. /\ request' \in BOOLEAN /\ declared' \in Nat /\ contentLength' \in Nat
      /\ lines' \in Seq(Interval) /\ requestState' \in States /\ shutdownReadSend' \in BOOLEAN
  BY <1>a, <1>1, <1>6 DEF States
<1>9. /\ (input = <<>> /\ Open => pos = got)'
      /\ (pc \in {"filter", "process", "answer", "head", "body"} => ~shutdownReadSend)'
      /\ (pc = "process" => requestState = "RequestProcess" /\ pos = HeadLength)'
      /\ (requestState \notin {"RequestInput", "ReqeustInvalid"} => body = <<>>)'
      /\ (request <=> requestState # "RequestLine")'
      /\ (Open => requestState # "ReqeustInvalid")'
      /\ (requestState = "RequestInput" =>
             contentLength > 0 /\ Seen!UpTo(body, HeadLength) = pos)'
  BY <1>a, <1>1, <1>6 DEF Open
<1>10. Seen!Contiguous(body, HeadLength)'
  BY <1>4
<1> QED
  BY <1>4, <1>7, <1>8, <1>9, <1>10, <1>b, <1>c DEF InputInv

(***************************************************************************)
(* The filter refuses a piece, and what came before it was counted.         *)
(***************************************************************************)
LEMMA InputRefusedInBody ==
    ASSUME InputInv, RefuseInput
    PROVE  InputInv'
<1>1. PICK k \in DOMAIN Pieces : /\ body' = body \o SubSeq(Pieces, 1, k)
                                 /\ contentLength' = contentLength - (Pieces[k][2] - pos)
  BY Zenon DEF RefuseInput
<1>2. /\ ReadingBody /\ input' = <<>> /\ requestState' = "ReqeustInvalid" /\ pc' = "answer"
      /\ UNCHANGED <<kernelVars, pos, bytesRead, request, declared, shutVars, lines>>
  BY Zenon DEF RefuseInput
<1>3. /\ pos \in Nat /\ got \in Nat /\ pos < got /\ sent \in Nat /\ got <= sent
      /\ bytesRead \in Nat /\ shutdownReadSend = FALSE /\ HeadLength \in Nat
      /\ contentLength \in Nat /\ declared \in Nat /\ request = TRUE
      /\ lines \in Seq(Interval) /\ body \in Seq(Interval)
      /\ Seen!Contiguous(body, HeadLength) /\ Seen!UpTo(body, HeadLength) = pos
      /\ pos - HeadLength + contentLength = declared
  BY <1>2, BodyFinds
<1>4. PICK last \in Nat : last <= pos + contentLength /\ Joined(Pieces, pos, last)
  BY <1>2, PiecesJoined
<1>5. PICK e \in Nat : /\ e = Pieces[k][2] /\ pos < e /\ e <= last
                       /\ Joined(SubSeq(Pieces, 1, k), pos, e)
  <2>1. PICK u : u = Pieces
    OBVIOUS
  <2>2. Joined(SubSeq(u, 1, k), pos, u[k][2]) /\ u[k][2] \in Nat /\ pos < u[k][2] /\ u[k][2] <= last
    BY <1>3, <1>4, <2>1, JoinedPrefix
  <2> QED
    BY <2>1, <2>2
<1>6. /\ body' \in Seq(Interval) /\ Seen!Contiguous(body', HeadLength)
      /\ Seen!UpTo(body', HeadLength) = e
  <2>1. PICK q : q = SubSeq(Pieces, 1, k)
    OBVIOUS
  <2>2. /\ body \in Seq(Interval) /\ HeadLength \in Nat /\ Seen!Contiguous(body, HeadLength)
        /\ Joined(q, Seen!UpTo(body, HeadLength), e)
    BY <1>3, <1>5, <2>1
  <2>3. /\ body \o q \in Seq(Interval) /\ Seen!Contiguous(body \o q, HeadLength)
        /\ Seen!UpTo(body \o q, HeadLength) = e
    BY <2>2, BodyGoesOn
  <2> QED
    BY <1>1, <2>1, <2>3
<1>7. contentLength' \in Nat /\ e - HeadLength + contentLength' = declared
  <2>1. contentLength' = contentLength - (e - pos)
    BY <1>1, <1>5
  <2>2. /\ pos \in Nat /\ HeadLength \in Nat /\ contentLength \in Nat /\ declared \in Nat
        /\ pos - HeadLength + contentLength = declared
        /\ last <= pos + contentLength /\ pos < e /\ e <= last
    BY <1>3, <1>4, <1>5
  <2> QED
    BY <2>1, <2>2
<1>8. /\ sent' = sent /\ got' = got /\ pos' = pos /\ bytesRead' = bytesRead
      /\ request' = request /\ declared' = declared
      /\ lines' = lines /\ shutdownReadSend' = shutdownReadSend
  BY <1>2 DEF kernelVars, shutVars
<1>9. Covers(input', pos', got')
  <2>1. \A i \in 1 .. Len(<<>>) - 1 : FALSE
    BY EmptySeq
  <2> QED
    BY <1>2, <2>1, EmptySeq DEF Covers, Tiled
<1>10. BodyCounted'
  BY <1>2, <1>6, <1>7, <1>8 DEF BodyCounted
<1>a. /\ sent \in Nat /\ got \in Nat /\ got <= sent /\ bytesRead \in Nat
      /\ shutdownReadSend = FALSE /\ declared \in Nat /\ lines \in Seq(Interval)
      /\ request = TRUE /\ pos \in Nat /\ pos <= got
  BY <1>3
<1>b. sent' \in Nat /\ got' \in 0 .. sent' /\ pos' \in 0 .. got' /\ bytesRead' \in Nat
  BY <1>a, <1>8
<1>c. /\ request' \in BOOLEAN /\ declared' \in Nat
      /\ lines' \in Seq(Interval) /\ requestState' \in States /\ shutdownReadSend' \in BOOLEAN
  BY <1>a, <1>2, <1>8 DEF States
<1>11. /\ (input = <<>> /\ Open => pos = got)'
       /\ (pc \in {"filter", "process", "answer", "head", "body"} => ~shutdownReadSend)'
       /\ (pc = "process" => requestState = "RequestProcess" /\ pos = HeadLength)'
       /\ (requestState \notin {"RequestInput", "ReqeustInvalid"} => body = <<>>)'
       /\ (request <=> requestState # "RequestLine")'
       /\ (Open => requestState # "ReqeustInvalid")'
       /\ (requestState = "RequestInput" =>
              contentLength > 0 /\ Seen!UpTo(body, HeadLength) = pos)'
  BY <1>a, <1>2, <1>8 DEF Open
<1>12. Seen!Contiguous(body, HeadLength)'
  BY <1>6
<1> QED
  BY <1>6, <1>7, <1>9, <1>10, <1>11, <1>12, <1>b, <1>c DEF InputInv

(***************************************************************************)
(* Every step keeps the chain of input and the body in order.              *)
(***************************************************************************)
LEMMA InputStep ==
    ASSUME InputInv, KernelOK, [Next]_vars
    PROVE  InputInv'
<1>1. StreamLength \in Nat
  BY PeerAssumption
<1> QED
  BY <1>1, InputKeptActions, InputRead, InputNotFound, InputParsed, InputProcessed,
     InputTaken, InputFinished, InputRefusedInBody, Zenon DEF Next, Worker

(***************************************************************************)
(* A connection that was just accepted has no input.                        *)
(***************************************************************************)
LEMMA InputInit == Init => InputInv
<1> SUFFICES ASSUME Init
             PROVE  InputInv
  OBVIOUS
<1>1. <<>> \in Seq(Buffer) /\ <<>> \in Seq(Interval) /\ Len(<<>>) = 0
  BY EmptySeq
<1>2. Covers(input, pos, got)
  BY <1>1 DEF Init, Covers, Tiled
<1>3. Seen!Contiguous(body, HeadLength)
  BY <1>1 DEF Init, Seen!Contiguous
<1> QED
  <2>1. /\ sent \in Nat /\ got \in 0 .. sent /\ pos \in 0 .. got /\ bytesRead \in Nat
        /\ requestState \in States /\ request \in BOOLEAN
        /\ contentLength \in Nat /\ declared \in Nat
        /\ lines \in Seq(Interval) /\ body \in Seq(Interval) /\ shutdownReadSend \in BOOLEAN
    <3>1. /\ sent = 0 /\ got = 0 /\ pos = 0 /\ bytesRead = 0
          /\ requestState = "RequestLine" /\ request = FALSE
          /\ contentLength = 0 /\ declared = 0
          /\ lines = <<>> /\ body = <<>> /\ shutdownReadSend = FALSE
      BY Zenon DEF Init
    <3>2. lines \in Seq(Interval) /\ body \in Seq(Interval)
      BY <1>1, <3>1, Zenon
    <3>3. sent \in Nat /\ got \in 0 .. sent /\ pos \in 0 .. got /\ bytesRead \in Nat
      BY <3>1
    <3>4. /\ requestState \in States /\ request \in BOOLEAN /\ shutdownReadSend \in BOOLEAN
          /\ contentLength \in Nat /\ declared \in Nat
      BY <3>1 DEF States
    <3> QED
      BY <3>2, <3>3, <3>4, Zenon
  <2>2. BodyCounted
    BY DEF Init, BodyCounted
  <2> QED
    BY <1>2, <1>3, <2>1, <2>2 DEF Init, InputInv

-----------------------------------------------------------------------------
(* The answer.                                                             *)

\* The units of s are those that follow the n-th.
Numbered(s, n) == \A i \in 1 .. Len(s) : s[i] = n + i

(***************************************************************************)
(* What goes on where the other ends is numbered as a whole.                *)
(***************************************************************************)
LEMMA NumberedConcat ==
    ASSUME NEW q \in Seq(Nat), NEW r \in Seq(Nat), NEW a \in Nat, NEW b,
           Numbered(q, a), b = a + Len(q), Numbered(r, b)
    PROVE  q \o r \in Seq(Nat) /\ Numbered(q \o r, a) /\ Len(q \o r) = Len(q) + Len(r)
<1>1. /\ q \o r \in Seq(Nat) /\ Len(q \o r) = Len(q) + Len(r)
      /\ \A i \in 1 .. Len(q) + Len(r) :
            (q \o r)[i] = IF i <= Len(q) THEN q[i] ELSE r[i - Len(q)]
  BY ConcatProperties
<1>2. Len(q) \in Nat /\ Len(r) \in Nat
  OBVIOUS
<1>3. ASSUME NEW i \in 1 .. Len(q) + Len(r)
      PROVE  (q \o r)[i] = a + i
  <2>1. CASE i <= Len(q)
    BY <1>1, <1>2, <2>1 DEF Numbered
  <2>2. CASE ~(i <= Len(q))
    <3>a. PICK l \in Nat, m \in Nat : l = Len(q) /\ m = Len(r) /\ i \in 1 .. l + m /\ ~(i <= l)
      BY <1>2, <2>2
    <3>1. PICK j \in 1 .. Len(r) : j = i - Len(q)
      <4>1. i - l \in 1 .. m
        BY <3>a
      <4> QED
        BY <3>a, <4>1, Zenon
    <3>2. r[j] = b + j
      BY DEF Numbered
    <3>3. b + j = a + i
      BY <1>2, <3>1
    <3> QED
      BY <1>1, <2>2, <3>1, <3>2, <3>3
  <2> QED
    BY <2>1, <2>2
<1> QED
  BY <1>1, <1>3 DEF Numbered

(***************************************************************************)
(* The parts of what is numbered are.                                       *)
(***************************************************************************)
LEMMA NumberedParts ==
    ASSUME NEW q \in Seq(Nat), NEW a \in Nat, Numbered(q, a), NEW n \in 0 .. Len(q)
    PROVE  /\ SubSeq(q, 1, n) \in Seq(Nat) /\ Len(SubSeq(q, 1, n)) = n
           /\ Numbered(SubSeq(q, 1, n), a)
           /\ SubSeq(q, n + 1, Len(q)) \in Seq(Nat)
           /\ Len(SubSeq(q, n + 1, Len(q))) = Len(q) - n
           /\ Numbered(SubSeq(q, n + 1, Len(q)), a + n)
<1>1. Len(q) \in Nat /\ n \in Nat /\ n <= Len(q)
  OBVIOUS
<1>2. /\ SubSeq(q, 1, n) \in Seq(Nat)
      /\ Len(SubSeq(q, 1, n)) = n
      /\ \A i \in 1 .. n : SubSeq(q, 1, n)[i] = q[i]
  <2>1. \A i \in 1 .. n : q[i] \in Nat
    BY <1>1, ElementOfSeq
  <2>2. PICK h : h = SubSeq(q, 1, n)
    OBVIOUS
  <2>3. /\ h \in Seq(Nat)
        /\ Len(h) = (IF 1 <= n THEN n - 1 + 1 ELSE 0)
        /\ \A j \in 1 .. n - 1 + 1 : h[j] = q[1 + j - 1]
    BY <1>1, <2>1, <2>2, SubSeqProperties
  <2>4. Len(h) = n
    BY <1>1, <2>3
  <2>5. \A j \in 1 .. n : j \in 1 .. n - 1 + 1 /\ 1 + j - 1 = j
    BY <1>1
  <2>6. \A j \in 1 .. n : h[j] = q[j]
    BY <2>3, <2>5
  <2> QED
    BY <2>2, <2>3, <2>4, <2>6
<1>3. Numbered(SubSeq(q, 1, n), a)
  BY <1>1, <1>2 DEF Numbered
<1>4. /\ After(q, n) \in Seq(Nat)
      /\ Len(After(q, n)) = Len(q) - n
      /\ \A i \in 1 .. Len(q) - n : After(q, n)[i] = q[n + i]
  BY AfterType
<1>5. ASSUME NEW i \in 1 .. Len(q) - n
      PROVE  After(q, n)[i] = a + n + i
  <2>1. PICK j \in 1 .. Len(q) : j = n + i
    BY <1>1
  <2>2. q[j] = a + j
    BY DEF Numbered
  <2>3. a + j = a + n + i
    BY <1>1, <2>1
  <2> QED
    BY <1>4, <2>1, <2>2, <2>3
<1>6. Numbered(After(q, n), a + n)
  BY <1>4, <1>5 DEF Numbered
<1> QED
  BY <1>2, <1>3, <1>4, <1>6 DEF After

(***************************************************************************)
(* What a chain of the answer is made of.                                   *)
(***************************************************************************)
LEMMA ChainParts ==
    ASSUME NEW c \in Chains
    PROVE  /\ c.data \in Seq(Nat) /\ c.last \in BOOLEAN /\ c.eos \in BOOLEAN
           /\ Len(c.data) \in Nat /\ (c.data = <<>> <=> Len(c.data) = 0)
<1>1. c.data \in Seq(Nat) /\ c.last \in BOOLEAN /\ c.eos \in BOOLEAN
  BY DEF Chains
<1> QED
  BY <1>1, LenProperties, EmptySeq

(***************************************************************************)
(* A chain is its parts.                                                    *)
(***************************************************************************)
LEMMA ChainOf ==
    ASSUME NEW d \in Seq(Nat), NEW l \in BOOLEAN, NEW e \in BOOLEAN
    PROVE  /\ [data |-> d, last |-> l, eos |-> e] \in Chains
           /\ \A c \in Chains :
                 /\ [c EXCEPT !.data = d] = [data |-> d, last |-> c.last, eos |-> c.eos]
                 /\ [c EXCEPT !.eos = e] = [data |-> c.data, last |-> c.last, eos |-> e]
                 /\ [c EXCEPT !.last = l] = [data |-> c.data, last |-> l, eos |-> c.eos]
                 /\ [c EXCEPT !.data = d, !.last = l] = [data |-> d, last |-> l, eos |-> c.eos]
<1>1. [data |-> d, last |-> l, eos |-> e] \in Chains
  BY DEF Chains
<1>2. ASSUME NEW c \in Chains
      PROVE  /\ [c EXCEPT !.data = d] = [data |-> d, last |-> c.last, eos |-> c.eos]
             /\ [c EXCEPT !.eos = e] = [data |-> c.data, last |-> c.last, eos |-> e]
             /\ [c EXCEPT !.last = l] = [data |-> c.data, last |-> l, eos |-> c.eos]
             /\ [c EXCEPT !.data = d, !.last = l] = [data |-> d, last |-> l, eos |-> c.eos]
  <2>1. PICK x, y, z : c = [data |-> x, last |-> y, eos |-> z]
    BY DEF Chains
  <2>2. c.data = x /\ c.last = y /\ c.eos = z
    BY <2>1
  <2>3. [c EXCEPT !.data = d] = [data |-> d, last |-> y, eos |-> z]
    BY <2>1
  <2>4. [c EXCEPT !.eos = e] = [data |-> x, last |-> y, eos |-> e]
    BY <2>1
  <2>5. [c EXCEPT !.last = l] = [data |-> x, last |-> l, eos |-> z]
    BY <2>1
  <2>6. [c EXCEPT !.data = d, !.last = l] = [data |-> d, last |-> l, eos |-> z]
    <3>1. PICK f : f = [c EXCEPT !.data = d, !.last = l]
      OBVIOUS
    <3>2. f = [data |-> d, last |-> l, eos |-> z]
      BY <2>1, <3>1
    <3> QED
      BY <3>1, <3>2
  <2> QED
    BY <2>2, <2>3, <2>4, <2>5, <2>6, Zenon
<1> QED
  BY <1>1, <1>2

(***************************************************************************)
(* A handler's units go on where the last ones ended.                      *)
(***************************************************************************)
LEMMA HandlerGoesOn ==
    ASSUME response \in Chains, NEW n \in Nat, HandlerWrites(n)
    PROVE  /\ response' \in Chains
           /\ Len(response'.data) = Len(response.data) + n
           /\ response'.last = response.last /\ response'.eos = response.eos
           /\ Numbered(response.data, HeadPieces) => Numbered(response'.data, HeadPieces)
<1>1. HeadPieces \in Nat /\ Len(response.data) \in Nat /\ response.data \in Seq(Nat)
      /\ response.last \in BOOLEAN /\ response.eos \in BOOLEAN
  BY PeerAssumption, ChainParts
<1>2. PICK h \in Nat : h = HeadPieces + Len(response.data)
  BY <1>1
<1>3. PICK new : new = [i \in 1 .. n |-> HeadPieces + Len(response.data) + i]
  OBVIOUS
<1>4. new \in Seq(Nat) /\ Len(new) = n /\ Numbered(new, h)
  <2>1. new = [i \in 1 .. n |-> h + i]
    BY <1>2, <1>3
  <2>2. new \in [1 .. n -> Nat]
    BY <2>1
  <2> QED
    BY <2>1, <2>2, SeqDef, LenProperties DEF Numbered
<1>5. PICK d : d = response.data \o new
  OBVIOUS
<1>6. d \in Seq(Nat) /\ Len(d) = Len(response.data) + n
  BY <1>1, <1>4, <1>5, ConcatProperties
<1>7. response' = [response EXCEPT !.data = d]
  BY <1>3, <1>5 DEF HandlerWrites
<1>8. response' = [data |-> d, last |-> response.last, eos |-> response.eos]
  BY <1>1, <1>6, <1>7, ChainOf
<1>9. response' \in Chains
  BY <1>1, <1>6, <1>8, ChainOf
<1>10. Numbered(response.data, HeadPieces) => Numbered(d, HeadPieces)
  BY <1>1, <1>2, <1>4, <1>5, NumberedConcat
<1> QED
  BY <1>6, <1>8, <1>9, <1>10

(***************************************************************************)
(* writeToFd takes units from the front of a chain.                         *)
(***************************************************************************)
LEMMA WrittenChain ==
    ASSUME NEW c \in Chains, NEW n \in 0 .. Len(c.data)
    PROVE  /\ WriteToFd(c, n) \in Chains
           /\ WriteToFd(c, n).data = SubSeq(c.data, n + 1, Len(c.data))
           /\ WriteToFd(c, n).last = c.last
           /\ WriteToFd(c, n).eos = (c.eos \/ (n = Len(c.data) /\ c.last))
           /\ Len(WriteToFd(c, n).data) = Len(c.data) - n
<1>1. c.data \in Seq(Nat) /\ c.last \in BOOLEAN /\ c.eos \in BOOLEAN
  BY ChainParts
<1>2. PICK d \in Seq(Nat) : d = SubSeq(c.data, n + 1, Len(c.data)) /\ Len(d) = Len(c.data) - n
  <2>1. After(c.data, n) \in Seq(Nat) /\ Len(After(c.data, n)) = Len(c.data) - n
    BY <1>1, AfterType
  <2> QED
    BY <2>1 DEF After
<1>3. PICK e \in BOOLEAN : e = (c.eos \/ (n = Len(c.data) /\ c.last))
  BY <1>1
<1>4. PICK w : w = WriteToFd(c, n)
  OBVIOUS
<1>5. w = [data |-> d, last |-> c.last, eos |-> e]
  BY <1>2, <1>3, <1>4 DEF WriteToFd
<1>6. w \in Chains
  BY <1>1, <1>5, ChainOf
<1>7. w.data = d /\ w.last = c.last /\ w.eos = e
  BY <1>5
<1> QED
  BY <1>2, <1>3, <1>4, <1>6, <1>7, Zenon

-----------------------------------------------------------------------------
\* What becomes of the piece, and whether it ends the stream: taken by nobody,
\* queued, given to the kernel, or left in front of a full or broken socket.
PieceSent(shut) ==
    LET ends == left = HeadPieces /\ response.data = <<>>
        queued == [output EXCEPT !.data = Append(@, left), !.last = ends]
    IN  \/ Deaf /\ shut = FALSE /\ UNCHANGED <<inflight, output, wire>>
        \/ /\ ~Deaf /\ output.data # <<>> /\ shut = FALSE
           /\ output' = queued /\ UNCHANGED <<inflight, wire>>
        \/ /\ ~Deaf /\ output.data = <<>> /\ shut = ends /\ Accepted(1, 1)
           /\ wire' = Append(wire, left) /\ UNCHANGED output
        \/ /\ ~Deaf /\ output.data = <<>> /\ shut = (peer = "reset") /\ Accepted(0, 1)
           /\ output' = (IF peer = "reset" THEN output ELSE queued) /\ UNCHANGED wire

\* The next piece, the body, or the end of the answer.
HeadGoesOn(shut) ==
    \/ /\ left < HeadPieces /\ left' = left + 1 /\ pc' = "head"
       /\ shutdownWriteSend' = (shutdownWriteSend \/ shut) /\ UNCHANGED shutdownReadSend
    \/ /\ ~(left < HeadPieces) /\ response.data # <<>> /\ pc' = "body" /\ left' = left
       /\ shutdownWriteSend' = (shutdownWriteSend \/ shut) /\ UNCHANGED shutdownReadSend
    \/ /\ ~(left < HeadPieces) /\ response.data = <<>> /\ pc' = "out" /\ left' = left
       /\ shutdownWriteSend' = (shutdownWriteSend \/ shut \/ ~request)
       /\ shutdownReadSend' = TRUE

(***************************************************************************)
(* Client::write of one piece is one of these.                              *)
(***************************************************************************)
LEMMA PieceCases ==
    ASSUME WritePiece
    PROVE  /\ pc = "head" /\ UNCHANGED <<response, request, peer, window>>
           /\ \E shut \in BOOLEAN : PieceSent(shut) /\ HeadGoesOn(shut)
<1> DEFINE ends == left = HeadPieces /\ response.data = <<>>
           queued == [output EXCEPT !.data = Append(@, left), !.last = ends]
           Then(shut) ==
              IF left < HeadPieces
              THEN /\ left' = left + 1
                   /\ shutdownWriteSend' = (shutdownWriteSend \/ shut)
                   /\ UNCHANGED <<pc, shutdownReadSend>>
              ELSE /\ IF response.data # <<>>
                      THEN /\ pc' = "body"
                           /\ shutdownWriteSend' = (shutdownWriteSend \/ shut)
                           /\ UNCHANGED shutdownReadSend
                      ELSE Submitted(shutdownWriteSend \/ shut)
                   /\ UNCHANGED left
<1>1. pc = "head" /\ UNCHANGED <<response, request, peer, window>>
  BY DEF WritePiece, requestVars
<1>2. ASSUME NEW shut \in BOOLEAN, Then(shut)
      PROVE  HeadGoesOn(shut)
  <2>1. CASE left < HeadPieces
    BY <1>1, <1>2, <2>1 DEF HeadGoesOn
  <2>2. CASE ~(left < HeadPieces) /\ response.data # <<>>
    BY <1>2, <2>2 DEF HeadGoesOn
  <2>3. CASE ~(left < HeadPieces) /\ response.data = <<>>
    BY <1>2, <2>3 DEF HeadGoesOn, Submitted
  <2> QED
    BY <2>1, <2>2, <2>3
<1> HIDE DEF Then
<1>3. CASE Deaf /\ Then(FALSE) /\ UNCHANGED <<inflight, output, wire>>
  <2>1. PieceSent(FALSE)
    BY <1>3, Zenon DEF PieceSent
  <2> QED
    BY <1>1, <1>2, <1>3, <2>1
<1>4. CASE /\ ~Deaf /\ output.data # <<>> /\ output' = queued
           /\ Then(FALSE) /\ UNCHANGED <<inflight, wire>>
  <2>1. PieceSent(FALSE)
    BY <1>4, Zenon DEF PieceSent
  <2> QED
    BY <1>1, <1>2, <1>4, <2>1
<1>5. CASE /\ ~Deaf /\ output.data = <<>> /\ Accepted(1, 1)
           /\ wire' = Append(wire, left) /\ Then(ends) /\ UNCHANGED output
  <2>1. PieceSent(ends)
    BY <1>5, Zenon DEF PieceSent
  <2>2. ends \in BOOLEAN
    OBVIOUS
  <2> QED
    BY <1>1, <1>2, <1>5, <2>1, <2>2
<1>6. CASE /\ ~Deaf /\ output.data = <<>> /\ Accepted(0, 1)
           /\ output' = (IF peer = "reset" THEN output ELSE queued)
           /\ Then(peer = "reset") /\ UNCHANGED wire
  <2>1. PieceSent(peer = "reset")
    BY <1>6, Zenon DEF PieceSent
  <2>2. (peer = "reset") \in BOOLEAN
    OBVIOUS
  <2> QED
    BY <1>1, <1>2, <1>6, <2>1, <2>2
<1> QED
  BY <1>3, <1>4, <1>5, <1>6, Zenon DEF WritePiece, Then

-----------------------------------------------------------------------------
\* No answer has begun.
Unanswered ==
    /\ wire = <<>> /\ output = EmptyChain /\ left = 1 /\ shutdownWriteSend = FALSE
    /\ response.last = FALSE /\ response.eos = FALSE

\* What went out and what waits are the answer's units in their order.
AnswerInv ==
    /\ response \in Chains /\ output \in Chains /\ left \in 1 .. HeadPieces
    /\ shutdownWriteSend \in BOOLEAN /\ wire \in Seq(Nat)
    /\ Open \/ pc = "answer" => Unanswered
    /\ Open \/ pc \in {"answer", "head", "body"} => Numbered(response.data, HeadPieces)
    /\ Numbered(wire, 0) /\ Numbered(output.data, Len(wire))
    /\ pc = "head" /\ ~Deaf => Len(wire) + Len(output.data) = left - 1
    /\ pc = "body" /\ ~Deaf => Len(wire) + Len(output.data) = HeadPieces
    /\ pc = "body" => response.data # <<>>

answerStepVars == <<answerVars, shutdownWriteSend, wire>>

(***************************************************************************)
(* Steps that leave the answer alone, and do not go on with one.            *)
(***************************************************************************)
LEMMA AnswerKept ==
    ASSUME AnswerInv, UNCHANGED answerStepVars,
           Open' => Open,
           pc' = "answer" => Open \/ pc = "answer",
           pc' = "head" => pc = "head", pc' = "body" => pc = "body"
    PROVE  AnswerInv'
<1>1. /\ response' = response /\ output' = output /\ left' = left
      /\ shutdownWriteSend' = shutdownWriteSend /\ wire' = wire
  BY DEF answerStepVars, answerVars
<1>2. (Open \/ pc = "answer" => Unanswered)'
  BY <1>1, Zenon DEF AnswerInv, Unanswered
<1>3. (Open \/ pc \in {"answer", "head", "body"} => Numbered(response.data, HeadPieces))'
  <2>1. Open' \/ pc' \in {"answer", "head", "body"} => Open \/ pc \in {"answer", "head", "body"}
    OBVIOUS
  <2> QED
    BY <1>1, <2>1, Zenon DEF AnswerInv
<1>4. Deaf' = Deaf
  BY <1>1, Zenon DEF Deaf
<1>5. /\ (pc = "head" /\ ~Deaf => Len(wire) + Len(output.data) = left - 1)'
      /\ (pc = "body" /\ ~Deaf => Len(wire) + Len(output.data) = HeadPieces)'
      /\ (pc = "body" => response.data # <<>>)'
  BY <1>1, <1>4, Zenon DEF AnswerInv
<1> QED
  BY <1>1, <1>2, <1>3, <1>5, Zenon DEF AnswerInv

(***************************************************************************)
(* They are these.                                                         *)
(***************************************************************************)
LEMMA AnswerKeptActions ==
    ASSUME AnswerInv, InputInv,
           \/ Peer \/ Wake \/ WakeError \/ PerformRead
           \/ FilterDone \/ LineTooLong \/ LineNotFound \/ ParseLine \/ InputRefused
           \/ ProcessInput \/ RefuseInput \/ EndEvent \/ UNCHANGED vars
    PROVE  AnswerInv'
<1>1. pc = "filter" => Open
  BY DEF InputInv, Open
<1>2. CASE Peer
  <2>1. UNCHANGED <<workerVars, answerVars, shutVars, seenVars>>
    BY <1>2, Zenon DEF Peer, Send, Drain, Leave
  <2> QED
    BY <2>1, AnswerKept DEF answerStepVars, Open, workerVars, shutVars, seenVars
<1>3. CASE Wake \/ WakeError
  <2>1. /\ UNCHANGED <<answerVars, shutVars, seenVars>>
        /\ pc = "wait" /\ pc' \in {"read", "out", "lost"}
    BY <1>3 DEF Wake, WakeError
  <2> QED
    BY <2>1, AnswerKept DEF answerStepVars, Open, shutVars, seenVars
<1>4. CASE PerformRead
  <2>1. /\ UNCHANGED <<answerVars, shutVars, seenVars>>
        /\ pc = "read" /\ pc' \in {"out", "filter"}
    BY <1>4 DEF PerformRead
  <2> QED
    BY <2>1, AnswerKept DEF answerStepVars, Open, shutVars, seenVars
<1>5. CASE FilterDone \/ LineTooLong \/ InputRefused \/ ProcessInput
  <2>1. /\ UNCHANGED <<answerVars, shutVars, wire>>
        /\ pc = "filter" /\ pc' \in {"out", "filter", "answer"}
    BY <1>5, Zenon DEF FilterDone, LineTooLong, InputRefused, ProcessInput, Reading,
       ReadingBody, workerVars, seenVars
  <2> QED
    BY <1>1, <2>1, AnswerKept DEF answerStepVars, Open, shutVars
<1>6. CASE LineNotFound
  <2>1. UNCHANGED <<answerVars, shutVars, seenVars, workerVars>>
    BY <1>6, Zenon DEF LineNotFound
  <2> QED
    BY <2>1, AnswerKept DEF answerStepVars, Open, shutVars, seenVars, workerVars
<1>7. CASE ParseLine
  <2>1. /\ UNCHANGED <<answerVars, shutVars, wire>>
        /\ pc = "filter" /\ pc' \in {"process", "filter", "answer"}
    <3>1. pc = "filter"
      BY <1>7, Zenon DEF ParseLine, Reading
    <3>2. UNCHANGED <<answerVars, shutVars, wire>>
      BY <1>7, Zenon DEF ParseLine
    <3>3. UNCHANGED pc \/ pc' = "process" \/ pc' = "answer"
      BY <1>7, Zenon DEF ParseLine
    <3> QED
      BY <3>1, <3>2, <3>3
  <2> QED
    BY <1>1, <2>1, AnswerKept DEF answerStepVars, Open, shutVars
<1>8. CASE RefuseInput
  <2>1. /\ UNCHANGED <<answerVars, shutVars, wire>>
        /\ pc = "filter" /\ pc' = "answer"
    BY <1>8, Zenon DEF RefuseInput, ReadingBody
  <2> QED
    BY <1>1, <2>1, AnswerKept DEF answerStepVars, Open, shutVars
<1>9. CASE EndEvent
  <2>1. /\ UNCHANGED <<answerVars, shutVars, seenVars>>
        /\ pc = "end" /\ pc' \in {"wait", "gone"}
    BY <1>9 DEF EndEvent
  <2> QED
    BY <2>1, AnswerKept DEF answerStepVars, Open, shutVars, seenVars
<1>10. CASE UNCHANGED vars
  <2>1. UNCHANGED <<answerVars, shutVars, seenVars, workerVars>>
    BY <1>10, Zenon DEF vars
  <2> QED
    BY <2>1, AnswerKept DEF answerStepVars, Open, shutVars, seenVars, workerVars
<1> QED
  BY <1>2, <1>3, <1>4, <1>5, <1>6, <1>7, <1>8, <1>9, <1>10, Zenon

(***************************************************************************)
(* Handlers write the answer's body before it is due.                       *)
(***************************************************************************)
LEMMA AnswerWritten ==
    ASSUME AnswerInv, InputInv, ProcessRequest \/ FinishInput
    PROVE  AnswerInv'
<1>1. /\ \E n \in Bodies : HandlerWrites(n)
      /\ UNCHANGED <<output, left, shutdownWriteSend, wire>>
      /\ pc \in {"process", "filter"} /\ pc' \in {"filter", "out", "answer"}
  <2>1. CASE ProcessRequest
    <3>1. pc' \in {"filter", "out", "answer"}
      <4>1. PICK v \in Verdicts :
               pc' = CASE v.status \in {"OK", "SUSPENDED"} -> "filter"
                       [] v.status = "DECLINED" -> "out"
                       [] OTHER -> "answer"
        BY <2>1, Zenon DEF ProcessRequest
      <4> QED
        BY <4>1
    <3>2. /\ \E n \in Bodies : HandlerWrites(n)
          /\ UNCHANGED <<output, left, shutdownWriteSend, seenVars>> /\ pc = "process"
      BY <2>1, Zenon DEF ProcessRequest
    <3> QED
      BY <3>1, <3>2 DEF seenVars
  <2>2. CASE FinishInput
    <3>1. /\ \E n \in Bodies : HandlerWrites(n)
          /\ UNCHANGED <<output, left, shutVars, wire>> /\ pc = "filter" /\ pc' = "answer"
      BY <2>2, Zenon DEF FinishInput, ReadingBody
    <3> QED
      BY <3>1 DEF shutVars
  <2> QED
    BY <2>1, <2>2
<1>2. Open
  BY <1>1 DEF InputInv, Open
<1>3. PICK n \in Nat : HandlerWrites(n)
  BY <1>1, PeerAssumption
<1>4. /\ response \in Chains /\ output \in Chains /\ left \in 1 .. HeadPieces
      /\ shutdownWriteSend \in BOOLEAN /\ wire \in Seq(Nat)
      /\ Unanswered /\ Numbered(response.data, HeadPieces)
      /\ Numbered(wire, 0) /\ Numbered(output.data, Len(wire))
  BY <1>2 DEF AnswerInv
<1>5. /\ response' \in Chains
      /\ response'.last = response.last /\ response'.eos = response.eos
      /\ Numbered(response'.data, HeadPieces)
  BY <1>3, <1>4, HandlerGoesOn
<1>6. Unanswered'
  BY <1>1, <1>4, <1>5 DEF Unanswered
<1>7. /\ output' = output /\ left' = left /\ shutdownWriteSend' = shutdownWriteSend
      /\ wire' = wire /\ pc' # "head" /\ pc' # "body"
  BY <1>1
<1> QED
  BY <1>4, <1>5, <1>6, <1>7, Zenon DEF AnswerInv

(***************************************************************************)
(* The answer begins.                                                       *)
(***************************************************************************)
LEMMA AnswerSubmitted ==
    ASSUME AnswerInv, SubmitResponse
    PROVE  AnswerInv'
<1>1. PICK headRequest \in BOOLEAN :
        response' =
            CASE ~request -> response
              [] request /\ response.data = <<>> /\ ~headRequest ->
                    [response EXCEPT !.data = <<HeadPieces + 1>>, !.last = TRUE]
              [] request /\ response.data = <<>> /\ headRequest ->
                    [response EXCEPT !.eos = TRUE]
              [] OTHER -> [response EXCEPT !.last = TRUE]
  BY Zenon DEF SubmitResponse
<1>2. /\ pc = "answer" /\ pc' = "head"
      /\ UNCHANGED <<output, left, shutVars, seenVars>>
  BY Zenon DEF SubmitResponse
<1>3. /\ response \in Chains /\ output \in Chains /\ left \in 1 .. HeadPieces
      /\ shutdownWriteSend \in BOOLEAN /\ wire \in Seq(Nat)
      /\ Unanswered /\ Numbered(response.data, HeadPieces)
      /\ Numbered(wire, 0) /\ Numbered(output.data, Len(wire))
  BY <1>2 DEF AnswerInv
<1>4. PICK one : one = <<HeadPieces + 1>>
  OBVIOUS
<1>5. one \in Seq(Nat) /\ Numbered(one, HeadPieces)
  BY <1>4, PeerAssumption DEF Numbered
<1>6. response' \in Chains /\ Numbered(response'.data, HeadPieces)
  <2>1. response.data \in Seq(Nat) /\ response.last \in BOOLEAN /\ response.eos \in BOOLEAN
    BY <1>3, ChainParts
  <2>2. CASE response' = response
    BY <1>3, <2>2
  <2>3. CASE response' = [response EXCEPT !.data = one, !.last = TRUE]
    <3>1. response' = [data |-> one, last |-> TRUE, eos |-> response.eos]
      BY <1>3, <1>5, <2>1, <2>3, ChainOf
    <3>2. response' \in Chains
      BY <1>5, <2>1, <3>1, ChainOf
    <3> QED
      BY <1>5, <3>1, <3>2
  <2>4. CASE response' = [response EXCEPT !.eos = TRUE]
    <3>1. response' = [data |-> response.data, last |-> response.last, eos |-> TRUE]
      BY <1>3, <2>1, <2>4, ChainOf
    <3>2. response' \in Chains
      BY <2>1, <3>1, ChainOf
    <3> QED
      BY <1>3, <3>1, <3>2
  <2>5. CASE response' = [response EXCEPT !.last = TRUE]
    <3>1. response' = [data |-> response.data, last |-> TRUE, eos |-> response.eos]
      BY <1>3, <2>1, <2>5, ChainOf
    <3>2. response' \in Chains
      BY <2>1, <3>1, ChainOf
    <3> QED
      BY <1>3, <3>1, <3>2
  <2> QED
    BY <1>1, <1>4, <2>2, <2>3, <2>4, <2>5
<1>7. /\ output' = output /\ left' = left /\ shutdownWriteSend' = shutdownWriteSend
      /\ wire' = wire
  BY <1>2 DEF shutVars, seenVars
<1>8. Len(wire') + Len(output'.data) = left' - 1
  BY <1>3, <1>7, EmptySeq DEF Unanswered, EmptyChain
<1>9. ~Open' /\ pc' # "answer" /\ pc' # "body"
  BY <1>2 DEF Open
<1> QED
  BY <1>3, <1>6, <1>7, <1>8, <1>9, Zenon DEF AnswerInv

(***************************************************************************)
(* A piece is given away behind what the kernel has and what waits.         *)
(***************************************************************************)
LEMMA PieceNumbered ==
    ASSUME AnswerInv, pc = "head", NEW shut \in BOOLEAN, PieceSent(shut)
    PROVE  /\ output' \in Chains /\ wire' \in Seq(Nat)
           /\ Numbered(wire', 0) /\ Numbered(output'.data, Len(wire'))
           /\ \/ Deaf /\ UNCHANGED <<output, wire>>
              \/ shut /\ peer = "reset" /\ UNCHANGED <<output, wire>>
              \/ ~Deaf /\ Len(wire') + Len(output'.data) = left
<1>1. /\ response \in Chains /\ output \in Chains /\ left \in 1 .. HeadPieces
      /\ wire \in Seq(Nat) /\ Numbered(wire, 0) /\ Numbered(output.data, Len(wire))
      /\ ~Deaf => Len(wire) + Len(output.data) = left - 1
  BY DEF AnswerInv
<1>2. /\ output.data \in Seq(Nat) /\ output.eos \in BOOLEAN /\ left \in Nat
      /\ Len(wire) \in Nat /\ Len(output.data) \in Nat
      /\ (output.data = <<>> <=> Len(output.data) = 0)
  BY <1>1, PeerAssumption, ChainParts, LenProperties
<1>3. PICK w \in Nat, o \in Nat : w = Len(wire) /\ o = Len(output.data)
  BY <1>2
<1>4. PICK ends \in BOOLEAN : ends = (left = HeadPieces /\ response.data = <<>>)
  OBVIOUS
<1>5. PICK one : one = <<left>>
  OBVIOUS
<1>6. one \in Seq(Nat) /\ Len(one) = 1 /\ one[1] = left
  BY <1>2, <1>5
<1>7. CASE Deaf /\ UNCHANGED <<output, wire>>
  BY <1>1, <1>7
<1>8. CASE ~Deaf /\ output' = [output EXCEPT !.data = Append(@, left), !.last = ends]
           /\ UNCHANGED wire
  <2>1. PICK d : d = output.data \o one
    OBVIOUS
  <2>2. d = Append(output.data, left)
    BY <1>2, <1>5, <2>1, AppendIsConcat
  <2>3. w + o = left - 1
    BY <1>1, <1>3, <1>8
  <2>4. Numbered(one, w + o)
    <3>1. w + o + 1 = left
      BY <1>2, <1>3, <2>3
    <3> QED
      BY <1>6, <3>1 DEF Numbered
  <2>5. d \in Seq(Nat) /\ Len(d) = o + 1 /\ Numbered(d, w)
    <3>1. PICK b \in Nat : b = w + o
      BY <1>3
    <3>2. Numbered(one, b) /\ b = w + Len(output.data)
      BY <1>3, <2>4, <3>1
    <3>3. Numbered(output.data, w)
      BY <1>1, <1>3
    <3>4. d \in Seq(Nat) /\ Numbered(d, w) /\ Len(d) = Len(output.data) + Len(one)
      BY <1>2, <1>3, <1>6, <2>1, <3>2, <3>3, NumberedConcat
    <3> QED
      BY <1>3, <1>6, <3>4
  <2>6. output' = [output EXCEPT !.data = d, !.last = ends]
    BY <1>8, <2>2
  <2>7. output' \in Chains /\ output'.data = d
    <3>1. PICK c \in Chains : c = output
      BY <1>1
    <3>a. PICK q : q = output'
      OBVIOUS
    <3>2. q = [c EXCEPT !.data = d, !.last = ends]
      BY <2>6, <3>1, <3>a
    <3>b. PICK x \in Seq(Nat), y \in BOOLEAN, z \in BOOLEAN : c = [data |-> x, last |-> y, eos |-> z]
      BY DEF Chains
    <3>c. q = [data |-> d, last |-> ends, eos |-> z]
      BY <3>2, <3>b
    <3>3. q \in Chains /\ q.data = d
      BY <2>5, <3>c DEF Chains
    <3> QED
      BY <3>a, <3>3
  <2>9. output'.data = d /\ Len(wire') = w
    <3>1. output'.data = d
      BY <2>7
    <3>2. wire' = wire
      BY <1>8
    <3> QED
      BY <1>3, <3>1, <3>2
  <2>10. w + (o + 1) = left
    BY <1>2, <1>3, <2>3
  <2> QED
    BY <1>1, <1>8, <2>5, <2>7, <2>9, <2>10
<1>9. CASE ~Deaf /\ output.data = <<>> /\ wire' = Append(wire, left) /\ UNCHANGED output
  <2>1. PICK d : d = wire \o one
    OBVIOUS
  <2>2. wire' = d
    BY <1>1, <1>2, <1>5, <1>9, <2>1, AppendIsConcat
  <2>3. w = left - 1 /\ o = 0
    BY <1>1, <1>2, <1>3, <1>9
  <2>4. Numbered(one, w)
    <3>1. w + 1 = left
      BY <1>2, <1>3, <2>3
    <3> QED
      BY <1>6, <3>1 DEF Numbered
  <2>5. d \in Seq(Nat) /\ Len(d) = w + 1 /\ Numbered(d, 0)
    <3>1. w = 0 + Len(wire)
      BY <1>3
    <3>2. d \in Seq(Nat) /\ Numbered(d, 0) /\ Len(d) = Len(wire) + Len(one)
      BY <1>1, <1>6, <2>1, <2>4, <3>1, NumberedConcat
    <3> QED
      BY <1>3, <1>6, <3>2
  <2>6. output' = output /\ Len(output'.data) = 0
    BY <1>3, <1>9, <2>3
  <2>7. Numbered(output'.data, Len(wire'))
    BY <2>6 DEF Numbered
  <2>8. Len(wire') + Len(output'.data) = left
    BY <1>2, <1>3, <2>2, <2>3, <2>5, <2>6
  <2> QED
    BY <1>1, <1>9, <2>2, <2>5, <2>6, <2>7, <2>8
<1>10. CASE shut /\ peer = "reset" /\ UNCHANGED <<output, wire>>
  BY <1>1, <1>10
<1> QED
  <2>1. /\ \/ Deaf /\ UNCHANGED <<output, wire>>
           \/ /\ ~Deaf /\ output' = [output EXCEPT !.data = Append(@, left), !.last = ends]
              /\ UNCHANGED wire
           \/ ~Deaf /\ output.data = <<>> /\ wire' = Append(wire, left) /\ UNCHANGED output
           \/ shut /\ peer = "reset" /\ UNCHANGED <<output, wire>>
    BY <1>4 DEF PieceSent
  <2> QED
    BY <1>7, <1>8, <1>9, <1>10, <2>1, Zenon

(***************************************************************************)
(* The head is written piece by piece.                                      *)
(***************************************************************************)
LEMMA AnswerHead ==
    ASSUME AnswerInv, WritePiece
    PROVE  AnswerInv'
<1>1. pc = "head" /\ UNCHANGED <<response, request, peer, window>>
  BY PieceCases
<1>2. PICK shut \in BOOLEAN : PieceSent(shut) /\ HeadGoesOn(shut)
  BY PieceCases
<1>3. /\ output' \in Chains /\ wire' \in Seq(Nat)
      /\ Numbered(wire', 0) /\ Numbered(output'.data, Len(wire'))
      /\ \/ Deaf /\ UNCHANGED <<output, wire>>
         \/ shut /\ peer = "reset" /\ UNCHANGED <<output, wire>>
         \/ ~Deaf /\ Len(wire') + Len(output'.data) = left
  BY <1>1, <1>2, PieceNumbered
<1>4. /\ response \in Chains /\ left \in 1 .. HeadPieces /\ shutdownWriteSend \in BOOLEAN
      /\ Numbered(response.data, HeadPieces)
  BY <1>1 DEF AnswerInv
<1>5. HeadPieces \in Nat
  BY PeerAssumption
<1>6. /\ shutdownWriteSend' \in BOOLEAN /\ left' \in 1 .. HeadPieces
      /\ shutdownWriteSend \/ shut => shutdownWriteSend'
      /\ pc' \in {"head", "body", "out"} /\ ~Open' /\ pc' # "answer"
      /\ pc' = "head" => left = left' - 1
      /\ pc' = "body" => left = HeadPieces /\ response.data # <<>>
  <2>1. CASE left < HeadPieces
    <3>1. /\ left' = left + 1 /\ pc' = "head"
          /\ shutdownWriteSend' = (shutdownWriteSend \/ shut)
      BY <1>2, <2>1 DEF HeadGoesOn
    <3>2. left' \in 1 .. HeadPieces /\ left = left' - 1
      BY <1>4, <1>5, <2>1, <3>1
    <3> QED
      BY <1>4, <3>1, <3>2 DEF Open
  <2>2. CASE ~(left < HeadPieces) /\ response.data # <<>>
    <3>1. /\ left' = left /\ pc' = "body"
          /\ shutdownWriteSend' = (shutdownWriteSend \/ shut)
      BY <1>2, <2>2 DEF HeadGoesOn
    <3>2. left = HeadPieces
      BY <1>4, <1>5, <2>2
    <3> QED
      BY <1>4, <2>2, <3>1, <3>2 DEF Open
  <2>3. CASE ~(left < HeadPieces) /\ response.data = <<>>
    <3>1. /\ left' = left /\ pc' = "out" /\ shutdownReadSend' = TRUE
          /\ shutdownWriteSend' = (shutdownWriteSend \/ shut \/ ~request)
      BY <1>2, <2>3 DEF HeadGoesOn
    <3> QED
      BY <1>4, <3>1 DEF Open
  <2> QED
    BY <2>1, <2>2, <2>3
<1>7. ~Deaf' => Len(wire') + Len(output'.data) = left
  <2>1. CASE Deaf /\ UNCHANGED <<output, wire>>
    BY <1>6, <2>1 DEF Deaf
  <2>2. CASE shut
    BY <1>6, <2>2 DEF Deaf
  <2> QED
    BY <1>3, <2>1, <2>2
<1>8. /\ (pc = "head" /\ ~Deaf => Len(wire) + Len(output.data) = left - 1)'
      /\ (pc = "body" /\ ~Deaf => Len(wire) + Len(output.data) = HeadPieces)'
      /\ (pc = "body" => response.data # <<>>)'
  BY <1>1, <1>6, <1>7
<1>9. response' = response
  BY <1>1
<1> QED
  BY <1>3, <1>4, <1>6, <1>8, <1>9, Zenon DEF AnswerInv

(***************************************************************************)
(* The units that are written from the front of what waits follow those     *)
(* that were, and the rest follows them.                                    *)
(***************************************************************************)
LEMMA WrittenGoesOn ==
    ASSUME NEW w \in Seq(Nat), Numbered(w, 0), NEW q \in Seq(Nat), Numbered(q, Len(w)),
           NEW n \in 0 .. Len(q)
    PROVE  /\ w \o SubSeq(q, 1, n) \in Seq(Nat) /\ Numbered(w \o SubSeq(q, 1, n), 0)
           /\ Len(w \o SubSeq(q, 1, n)) = Len(w) + n
           /\ Numbered(SubSeq(q, n + 1, Len(q)), Len(w \o SubSeq(q, 1, n)))
<1>1. PICK a \in Nat : a = Len(w)
  BY LenProperties
<1>2. PICK s : s = SubSeq(q, 1, n)
  OBVIOUS
<1>3. /\ s \in Seq(Nat) /\ Len(s) = n /\ Numbered(s, a)
      /\ Numbered(SubSeq(q, n + 1, Len(q)), a + n)
  BY <1>1, <1>2, NumberedParts
<1>4. a = 0 + Len(w)
  BY <1>1
<1>5. w \o s \in Seq(Nat) /\ Numbered(w \o s, 0) /\ Len(w \o s) = Len(w) + Len(s)
  BY <1>3, <1>4, NumberedConcat
<1>6. Len(w \o s) = a + n
  BY <1>1, <1>3, <1>5
<1> QED
  BY <1>1, <1>2, <1>3, <1>5, <1>6

(***************************************************************************)
(* The body is written behind the head.                                     *)
(***************************************************************************)
LEMMA AnswerBody ==
    ASSUME AnswerInv, WriteResponse
    PROVE  AnswerInv'
<1>1. /\ pc = "body" /\ pc' = "out" /\ shutdownReadSend' = TRUE /\ UNCHANGED <<left, request>>
  BY Zenon DEF WriteResponse, Submitted, requestVars
<1>2. /\ response \in Chains /\ output \in Chains /\ left \in 1 .. HeadPieces
      /\ shutdownWriteSend \in BOOLEAN /\ wire \in Seq(Nat)
      /\ Numbered(response.data, HeadPieces)
      /\ Numbered(wire, 0) /\ Numbered(output.data, Len(wire))
      /\ ~Deaf => Len(wire) + Len(output.data) = HeadPieces
  BY <1>1 DEF AnswerInv
<1>3. /\ output.data \in Seq(Nat) /\ response.data \in Seq(Nat) /\ response.last \in BOOLEAN
      /\ Len(output.data) \in Nat /\ (output.data = <<>> <=> Len(output.data) = 0)
  BY <1>2, ChainParts
<1>4. Len(wire) \in Nat /\ HeadPieces \in Nat
  BY <1>2, PeerAssumption, LenProperties
<1>5. /\ response' \in Chains /\ output' \in Chains /\ wire' \in Seq(Nat)
      /\ Numbered(wire', 0) /\ Numbered(output'.data, Len(wire'))
      /\ shutdownWriteSend' \in BOOLEAN
  <2>1. CASE UNCHANGED <<response, output, wire>> /\ Submitted(shutdownWriteSend)
    <3>1. shutdownWriteSend' = (shutdownWriteSend \/ ~request)
      BY <2>1 DEF Submitted
    <3> QED
      BY <1>2, <2>1, <3>1
  <2>2. CASE /\ ~Deaf /\ output.data # <<>>
             /\ output' = [output EXCEPT !.data = @ \o response.data, !.last = response.last]
             /\ response' = [response EXCEPT !.data = <<>>]
             /\ Submitted(FALSE) /\ UNCHANGED wire
    <3>1. PICK d : d = output.data \o response.data
      OBVIOUS
    <3>2. PICK a \in Nat : a = Len(wire)
      BY <1>4
    <3>3. d \in Seq(Nat) /\ Numbered(d, a)
      <4>1. HeadPieces = a + Len(output.data) /\ Numbered(output.data, a)
        BY <1>2, <2>2, <3>2
      <4> QED
        BY <1>2, <1>3, <3>1, <4>1, NumberedConcat
    <3>4. output' \in Chains /\ output'.data = d
      <4>1. PICK x \in Seq(Nat), y \in BOOLEAN, z \in BOOLEAN :
               output = [data |-> x, last |-> y, eos |-> z]
        BY <1>2 DEF Chains
      <4>2. PICK l \in BOOLEAN : l = response.last
        BY <1>3
      <4>3. output' = [output EXCEPT !.data = d, !.last = l]
        BY <2>2, <3>1, <4>2
      <4>4. output' = [data |-> d, last |-> l, eos |-> z]
        BY <4>1, <4>3
      <4> QED
        BY <3>3, <4>4 DEF Chains
    <3>5. response' \in Chains
      <4>1. PICK x \in Seq(Nat), y \in BOOLEAN, z \in BOOLEAN :
               response = [data |-> x, last |-> y, eos |-> z]
        BY <1>2 DEF Chains
      <4>2. response' = [data |-> <<>>, last |-> y, eos |-> z]
        BY <2>2, <4>1
      <4> QED
        BY <4>2, EmptySeq DEF Chains
    <3>6. shutdownWriteSend' \in BOOLEAN
      BY <2>2 DEF Submitted
    <3> QED
      BY <1>2, <2>2, <3>2, <3>3, <3>4, <3>5, <3>6
  <2>3. CASE /\ ~Deaf /\ output.data = <<>> /\ UNCHANGED output
             /\ \E n \in 0 .. Len(response.data) :
                  /\ wire' = wire \o SubSeq(response.data, 1, n)
                  /\ response' = WriteToFd(response, n)
                  /\ Submitted(WriteStatus(response, n) \in {"DONE", "DECLINED"})
    <3>1. PICK n \in 0 .. Len(response.data) :
             /\ wire' = wire \o SubSeq(response.data, 1, n)
             /\ response' = WriteToFd(response, n)
             /\ Submitted(WriteStatus(response, n) \in {"DONE", "DECLINED"})
      BY <2>3
    <3>2. Len(wire) = HeadPieces
      BY <1>2, <1>3, <1>4, <2>3
    <3>3. Numbered(response.data, Len(wire))
      BY <1>2, <3>2
    <3>4. wire' \in Seq(Nat) /\ Numbered(wire', 0)
      BY <1>2, <1>3, <3>1, <3>3, WrittenGoesOn
    <3>5. response' \in Chains
      BY <1>2, <3>1, WrittenChain
    <3>6. Numbered(output'.data, Len(wire'))
      BY <1>3, <2>3 DEF Numbered
    <3>7. shutdownWriteSend' \in BOOLEAN
      BY <3>1 DEF Submitted
    <3> QED
      BY <1>2, <2>3, <3>4, <3>5, <3>6, <3>7
  <2>4. \/ UNCHANGED <<response, output, wire>> /\ Submitted(shutdownWriteSend)
        \/ /\ ~Deaf /\ output.data # <<>>
           /\ output' = [output EXCEPT !.data = @ \o response.data, !.last = response.last]
           /\ response' = [response EXCEPT !.data = <<>>]
           /\ Submitted(FALSE) /\ UNCHANGED wire
        \/ /\ ~Deaf /\ output.data = <<>> /\ UNCHANGED output
           /\ \E n \in 0 .. Len(response.data) :
                /\ wire' = wire \o SubSeq(response.data, 1, n)
                /\ response' = WriteToFd(response, n)
                /\ Submitted(WriteStatus(response, n) \in {"DONE", "DECLINED"})
    BY Zenon DEF WriteResponse
  <2> QED
    BY <2>1, <2>2, <2>3, <2>4, Zenon
<1>6. ~Open' /\ pc' \notin {"answer", "head", "body"} /\ left' \in 1 .. HeadPieces
  BY <1>1, <1>2 DEF Open
<1> QED
  BY <1>5, <1>6, Zenon DEF AnswerInv

(***************************************************************************)
(* What waits is written when there is room.                                *)
(***************************************************************************)
LEMMA AnswerFlushed ==
    ASSUME AnswerInv, PerformWrite
    PROVE  AnswerInv'
<1>1. pc = "out" /\ pc' = "end" /\ UNCHANGED <<response, left, shutdownReadSend>>
  BY Zenon DEF PerformWrite
<1>2. CASE UNCHANGED <<output, shutdownWriteSend, wire>>
  BY <1>1, <1>2, AnswerKept DEF answerStepVars, answerVars, Open
<1>3. CASE /\ output.data # <<>>
           /\ \E n \in 0 .. Len(output.data) :
                /\ wire' = wire \o SubSeq(output.data, 1, n)
                /\ output' = WriteToFd(output, n)
                /\ shutdownWriteSend' = (shutdownWriteSend \/
                       WriteStatus(output, n) \in {"DONE", "DECLINED"})
  <2>1. PICK n \in 0 .. Len(output.data) :
           /\ wire' = wire \o SubSeq(output.data, 1, n)
           /\ output' = WriteToFd(output, n)
           /\ shutdownWriteSend' = (shutdownWriteSend \/
                  WriteStatus(output, n) \in {"DONE", "DECLINED"})
    BY <1>3
  <2>2. /\ response \in Chains /\ output \in Chains /\ left \in 1 .. HeadPieces
        /\ shutdownWriteSend \in BOOLEAN /\ wire \in Seq(Nat)
        /\ Numbered(wire, 0) /\ Numbered(output.data, Len(wire)) /\ output.data \in Seq(Nat)
    BY ChainParts DEF AnswerInv
  <2>3. ~Open
    BY <1>3 DEF AnswerInv, Unanswered, EmptyChain
  <2>4. ~Open' /\ pc' \notin {"answer", "head", "body"}
    BY <1>1, <2>3 DEF Open
  <2>5. /\ wire' \in Seq(Nat) /\ Numbered(wire', 0)
        /\ Numbered(SubSeq(output.data, n + 1, Len(output.data)), Len(wire'))
    BY <2>1, <2>2, WrittenGoesOn
  <2>6. /\ output' \in Chains
        /\ output'.data = SubSeq(output.data, n + 1, Len(output.data))
    BY <2>1, <2>2, WrittenChain
  <2>7. shutdownWriteSend' \in BOOLEAN
    BY <2>1, <2>2
  <2>8. Numbered(output'.data, Len(wire'))
    BY <2>5, <2>6
  <2>9. response' \in Chains /\ left' \in 1 .. HeadPieces
    BY <1>1, <2>2
  <2> QED
    BY <2>4, <2>5, <2>6, <2>7, <2>8, <2>9, Zenon DEF AnswerInv
<1>4. \/ UNCHANGED <<output, shutdownWriteSend, wire>>
      \/ /\ output.data # <<>>
         /\ \E n \in 0 .. Len(output.data) :
              /\ wire' = wire \o SubSeq(output.data, 1, n)
              /\ output' = WriteToFd(output, n)
              /\ shutdownWriteSend' = (shutdownWriteSend \/
                     WriteStatus(output, n) \in {"DONE", "DECLINED"})
  BY Zenon DEF PerformWrite
<1> QED
  BY <1>2, <1>3, <1>4, Zenon

(***************************************************************************)
(* Every step keeps the answer in order.                                    *)
(***************************************************************************)
LEMMA AnswerStep ==
    ASSUME AnswerInv, InputInv, [Next]_vars
    PROVE  AnswerInv'
BY AnswerKeptActions, AnswerWritten, AnswerSubmitted, AnswerHead, AnswerBody, AnswerFlushed,
   Zenon DEF Next, Worker

(***************************************************************************)
(* A connection that was just accepted has no answer.                       *)
(***************************************************************************)
LEMMA AnswerInit == Init => AnswerInv
<1> SUFFICES ASSUME Init
             PROVE  AnswerInv
  OBVIOUS
<1>1. /\ response = EmptyChain /\ output = EmptyChain /\ left = 1
      /\ shutdownWriteSend = FALSE /\ wire = <<>> /\ pc = "wait"
  BY Zenon DEF Init
<1>2. EmptyChain \in Chains /\ EmptyChain.data = <<>>
  BY EmptySeq DEF Chains, EmptyChain
<1>3. EmptyChain.last = FALSE /\ EmptyChain.eos = FALSE
  BY DEF EmptyChain
<1>4. <<>> \in Seq(Nat) /\ \A n : Numbered(<<>>, n)
  BY EmptySeq DEF Numbered
<1>5. left \in 1 .. HeadPieces
  BY <1>1, PeerAssumption
<1>6. Unanswered
  BY <1>1, <1>3 DEF Unanswered
<1>7. Numbered(response.data, HeadPieces) /\ Numbered(wire, 0) /\ Numbered(output.data, Len(wire))
  BY <1>1, <1>2, <1>4, Zenon
<1>8. response \in Chains /\ output \in Chains /\ wire \in Seq(Nat) /\ shutdownWriteSend \in BOOLEAN
  BY <1>1, <1>2, <1>4
<1>9. pc # "head" /\ pc # "body"
  BY <1>1
<1> QED
  BY <1>5, <1>6, <1>7, <1>8, <1>9, Zenon DEF AnswerInv

-----------------------------------------------------------------------------
(* What holds of every connection.                                         *)

ClientInv == KernelOK /\ WorkerOK /\ InputInv /\ AnswerInv

(***************************************************************************)
(* ClientInv is inductive.                                                  *)
(***************************************************************************)
LEMMA ClientInductive == Spec => []ClientInv
<1>1. Init => ClientInv
  <2> SUFFICES ASSUME Init
               PROVE  KernelOK /\ WorkerOK
    BY InputInit, AnswerInit DEF ClientInv
  <2>1. window \in Nat /\ StreamLength \in Nat
    BY PeerAssumption DEF Init
  <2> QED
    BY <2>1 DEF Init, KernelOK, WorkerOK, Steps
<1>2. ClientInv /\ [Next]_vars => ClientInv'
  <2> SUFFICES ASSUME ClientInv, [Next]_vars
               PROVE  ClientInv'
    OBVIOUS
  <2>1. KernelOK /\ WorkerOK /\ InputInv /\ AnswerInv
    BY DEF ClientInv
  <2>2. output \in Chains /\ response \in Chains
    BY <2>1, Zenon DEF AnswerInv
  <2> QED
    BY <2>1, <2>2, KernelStep, WorkerStep, InputStep, AnswerStep, Zenon DEF ClientInv
<1> QED
  BY <1>1, <1>2, PTL DEF Spec

(***************************************************************************)
(* The variables of a connection stay in their sets: reading never gets     *)
(* ahead of what arrived, nor a buffer over its size, a length below zero,  *)
(* or the head's next piece past its last (ConnectionWorker::Client).       *)
(***************************************************************************)
THEOREM ClientTypeCorrect == Spec => []TypeOK
<1>1. ClientInv => TypeOK
  <2> SUFFICES ASSUME ClientInv
               PROVE  TypeOK
    OBVIOUS
  <2>1. KernelOK /\ WorkerOK /\ InputInv /\ AnswerInv
    BY DEF ClientInv
  <2>2. input \in Seq([absolute : Nat, first : Nat, size : 1 .. Capacity])
    <3>1. input \in Seq(Buffer)
      BY <2>1 DEF InputInv, Covers
    <3>2. Buffer \subseteq [absolute : Nat, first : Nat, size : 1 .. Capacity]
      BY DEF Buffer
    <3>3. input \in [1 .. Len(input) -> [absolute : Nat, first : Nat, size : 1 .. Capacity]]
          /\ Len(input) \in Nat
      BY <3>1, <3>2, LenProperties
    <3> QED
      BY <3>3, SeqDef
  <2>3. /\ pos \in 0 .. got /\ bytesRead \in Nat
        /\ requestState \in States /\ request \in BOOLEAN
        /\ contentLength \in Nat /\ declared \in Nat /\ shutdownReadSend \in BOOLEAN
        /\ lines \in Seq(Interval) /\ body \in Seq(Interval)
    BY <2>1, Zenon DEF InputInv
  <2>4. /\ response \in Chains /\ output \in Chains /\ left \in 1 .. HeadPieces
        /\ shutdownWriteSend \in BOOLEAN /\ wire \in Seq(Nat)
    BY <2>1, Zenon DEF AnswerInv
  <2> QED
    BY <2>1, <2>2, <2>3, <2>4, Zenon DEF TypeOK, KernelOK, WorkerOK
<1> QED
  BY <1>1, ClientInductive, PTL

(***************************************************************************)
(* The body is counted whatever buffers it comes in and however it pauses:  *)
(* what the filter was given and what it waits for are content-length       *)
(* (processInput, readFromFd, releaseEmpty).                                *)
(***************************************************************************)
THEOREM BodyIsCounted == Spec => []BodyCounted
<1>1. ClientInv => BodyCounted
  BY Zenon DEF ClientInv, InputInv
<1> QED
  BY <1>1, ClientInductive, PTL

\* The kernel has the answer's units from the first on.
AnswerInOrder == wire = [i \in 1 .. Len(wire) |-> i]

(***************************************************************************)
(* The answer goes out in order and each unit once: no piece of the head,   *)
(* and no unit of the body, overtakes what waits in output, whichever of    *)
(* them the kernel takes at once and whenever performWrite gets to the rest *)
(* (Client::write, writeToFd, performWrite).                                *)
(***************************************************************************)
THEOREM AnswerGoesOutInOrder == Spec => []AnswerInOrder
<1>1. ClientInv => AnswerInOrder
  <2> SUFFICES ASSUME ClientInv
               PROVE  AnswerInOrder
    OBVIOUS
  <2>1. wire \in Seq(Nat) /\ Numbered(wire, 0)
    BY Zenon DEF ClientInv, AnswerInv
  <2>2. wire \in [1 .. Len(wire) -> Nat] /\ \A i \in 1 .. Len(wire) : wire[i] = 0 + i
    BY <2>1, LenProperties DEF Numbered
  <2>3. \A i \in 1 .. Len(wire) : wire[i] = i
    BY <2>2
  <2> QED
    BY <2>2, <2>3 DEF AnswerInOrder
<1> QED
  BY <1>1, ClientInductive, PTL

(***************************************************************************)
(* The pieces of the body the filter was given follow the head without a    *)
(* gap or a repetition (processInput, BufferChain::read, releaseEmpty).     *)
(***************************************************************************)
THEOREM BodyIsContiguous == Spec => []Seen!Contiguous(body, HeadLength)
<1>1. ClientInv => Seen!Contiguous(body, HeadLength)
  BY Zenon DEF ClientInv, InputInv
<1> QED
  BY <1>1, ClientInductive, PTL

-----------------------------------------------------------------------------
(* A socket with room for the whole answer.                                 *)

\* The answer fits what is left of the room, and nothing of it waits.
Fits ==
    /\ output.data = <<>>
    /\ pc \in {"answer", "head", "body"} => HeadPieces + Len(response.data) <= window
    /\ pc \in {"head", "body"} => ~Deaf
    /\ shutdownWriteSend => response.data = <<>>

\* A handler writes at the request and at the end of its body, and no sooner.
Written(n) ==
    /\ n \in Bodies \cup {0} /\ Len(response.data) <= n
    /\ requestState \in {"RequestLine", "RequestHeaders"} \/ pc = "process" => n = 0

RoomInv ==
    /\ ~request => response = EmptyChain
    /\ inflight <= Len(wire)
    /\ pc \in {"head", "body"} /\ response.data # <<>> => response.last
    /\ Open => \E n : Written(n)
    /\ Roomy /\ peer # "reset" => Fits

(***************************************************************************)
(* There is room for what handlers write and for a default body.            *)
(***************************************************************************)
LEMMA RoomFor ==
    ASSUME Roomy, window \in Nat, NEW n \in Bodies \cup {0}, NEW m \in Bodies \cup {0}
    PROVE  HeadPieces + n + m <= window /\ HeadPieces + 1 <= window
<1>1. n \in Nat /\ m \in Nat /\ HeadPieces \in Nat
  BY PeerAssumption
<1>2. HeadPieces + Greater(1, n + m) <= window
  BY DEF Roomy
<1> QED
  BY <1>1, <1>2 DEF Greater

(***************************************************************************)
(* Steps that leave the answer alone, and do not go on with one.            *)
(***************************************************************************)
LEMMA RoomKept ==
    ASSUME RoomInv, AnswerInv, KernelOK, UNCHANGED answerStepVars, UNCHANGED window,
           inflight' \in Nat, inflight' <= inflight, request => request',
           peer' # "reset" => peer # "reset", Open' => Open,
           pc' = "answer" => Open \/ pc = "answer",
           pc' = "head" => pc = "head", pc' = "body" => pc = "body",
           Open' /\ (requestState' \in {"RequestLine", "RequestHeaders"} \/ pc' = "process") =>
               requestState \in {"RequestLine", "RequestHeaders"} \/ pc = "process"
    PROVE  RoomInv'
<1>1. /\ response' = response /\ output' = output /\ left' = left
      /\ shutdownWriteSend' = shutdownWriteSend /\ wire' = wire /\ window' = window
  BY DEF answerStepVars, answerVars
<1>2. Deaf' = Deaf
  BY <1>1, Zenon DEF Deaf
<1>3. /\ response.data \in Seq(Nat) /\ Len(response.data) \in Nat
      /\ HeadPieces \in Nat /\ window \in Nat /\ Len(wire) \in Nat /\ inflight \in Nat
  <2>1. response \in Chains /\ wire \in Seq(Nat)
    BY DEF AnswerInv
  <2>2. window \in Nat /\ inflight \in Nat
    BY PeerAssumption DEF KernelOK
  <2> QED
    BY <2>1, <2>2, PeerAssumption, ChainParts, LenProperties
<1>4. (Open => \E n : Written(n))'
  <2>1. ASSUME Open'
        PROVE  \E n : Written(n)'
    <3>1. PICK n : Written(n)
      BY <2>1 DEF RoomInv
    <3>2. Written(n)'
      BY <1>1, <2>1, <3>1, Zenon DEF Written
    <3> QED
      BY <3>2
  <2> QED
    BY <2>1
<1>5. (Roomy /\ peer # "reset" => Fits)'
  <2>1. Roomy' = Roomy
    BY <1>1, Zenon DEF Roomy
  <2>2. ASSUME Roomy, peer' # "reset"
        PROVE  Fits'
    <3>1. Fits
      BY <2>2, Zenon DEF RoomInv
    <3>2. Open => HeadPieces + Len(response.data) <= window
      <4>1. ASSUME Open
            PROVE  HeadPieces + Len(response.data) <= window
        <5>1. PICK n \in Bodies \cup {0} : Len(response.data) <= n
          BY <4>1 DEF RoomInv, Written
        <5>2. HeadPieces + n + 0 <= window /\ n \in Nat
          BY <1>3, <2>2, RoomFor, PeerAssumption
        <5> QED
          BY <1>3, <5>1, <5>2
      <4> QED
        BY <4>1
    <3>3. pc' \in {"answer", "head", "body"} => HeadPieces + Len(response.data) <= window
      BY <3>1, <3>2, Zenon DEF Fits
    <3>4. pc' \in {"head", "body"} => ~Deaf
      BY <3>1, Zenon DEF Fits
    <3> QED
      BY <1>1, <1>2, <3>1, <3>3, <3>4, Zenon DEF Fits
  <2> QED
    BY <2>1, <2>2
<1>6. inflight' <= Len(wire')
  <2>1. inflight <= Len(wire)
    BY DEF RoomInv
  <2> QED
    BY <1>1, <1>3, <2>1
<1>7. (pc \in {"head", "body"} /\ response.data # <<>> => response.last)'
  BY <1>1, Zenon DEF RoomInv
<1>8. (~request => response = EmptyChain)'
  BY <1>1, Zenon DEF RoomInv
<1> QED
  BY <1>4, <1>5, <1>6, <1>7, <1>8, Zenon DEF RoomInv

(***************************************************************************)
(* They are these.                                                         *)
(***************************************************************************)
LEMMA RoomKeptActions ==
    ASSUME RoomInv, ClientInv,
           \/ Peer \/ Wake \/ WakeError \/ PerformRead
           \/ FilterDone \/ LineTooLong \/ LineNotFound \/ ParseLine \/ InputRefused
           \/ ProcessInput \/ RefuseInput \/ EndEvent \/ UNCHANGED vars
    PROVE  RoomInv'
<1>1. pc = "filter" => Open
  BY DEF ClientInv, InputInv, Open
<1>2. KernelOK /\ AnswerInv /\ inflight \in Nat /\ inflight <= inflight
  BY PeerAssumption DEF ClientInv, KernelOK
<1>3. CASE Peer
  <2>1. UNCHANGED <<workerVars, answerVars, requestVars, shutVars, seenVars, window>>
    BY <1>3, Zenon DEF Peer, Send, Drain, Leave
  <2>2. inflight' \in Nat /\ inflight' <= inflight
    <3>1. ASSUME NEW n \in 1 .. StreamLength, Send(n)
          PROVE  inflight' = inflight
      BY <3>1, Zenon DEF Send
    <3>2. ASSUME NEW n \in 0 .. window, Drain(n)
          PROVE  inflight' \in Nat /\ inflight' <= inflight
      BY <1>2, <3>2 DEF Drain
    <3>3. ASSUME NEW how \in {"closed", "reset"}, Leave(how)
          PROVE  inflight' = inflight
      BY <3>3, Zenon DEF Leave
    <3> QED
      BY <1>2, <1>3, <3>1, <3>2, <3>3 DEF Peer
  <2>3. peer' # "reset" => peer # "reset"
    BY <1>3 DEF Peer, Send, Drain, Leave
  <2> QED
    BY <1>2, <2>1, <2>2, <2>3, RoomKept
       DEF answerStepVars, Open, workerVars, requestVars, shutVars, seenVars
<1>4. CASE Wake \/ WakeError
  <2>1. /\ UNCHANGED <<answerVars, requestVars, shutVars, seenVars, peer, window, inflight>>
        /\ pc = "wait" /\ pc' \in {"read", "out", "lost"}
    BY <1>4 DEF Wake, WakeError
  <2> QED
    BY <1>2, <2>1, RoomKept DEF answerStepVars, Open, requestVars, shutVars, seenVars
<1>5. CASE PerformRead
  <2>1. /\ UNCHANGED <<answerVars, requestVars, shutVars, seenVars, peer, window, inflight>>
        /\ pc = "read" /\ pc' \in {"out", "filter"}
    BY <1>5 DEF PerformRead
  <2> QED
    BY <1>2, <2>1, RoomKept DEF answerStepVars, Open, requestVars, shutVars, seenVars
<1>6. CASE FilterDone \/ LineTooLong \/ InputRefused
  <2>1. /\ UNCHANGED <<answerVars, requestVars, shutVars, seenVars, kernelVars>>
        /\ pc = "filter" /\ pc' \in {"out", "answer"}
    BY <1>6, Zenon DEF FilterDone, LineTooLong, InputRefused, Reading
  <2> QED
    BY <1>1, <1>2, <2>1, RoomKept
       DEF answerStepVars, Open, requestVars, shutVars, seenVars, kernelVars
<1>7. CASE LineNotFound
  <2>1. UNCHANGED <<answerVars, requestVars, shutVars, seenVars, kernelVars, workerVars>>
    BY <1>7, Zenon DEF LineNotFound
  <2> QED
    BY <1>2, <2>1, RoomKept
       DEF answerStepVars, Open, requestVars, shutVars, seenVars, kernelVars, workerVars
<1>8. CASE ParseLine
  <2>1. /\ UNCHANGED <<answerVars, shutVars, wire, kernelVars>>
        /\ pc = "filter" /\ requestState \in {"RequestLine", "RequestHeaders"}
    BY <1>8, Zenon DEF ParseLine, Reading
  <2>2. \/ request' = TRUE /\ UNCHANGED pc
        \/ UNCHANGED request /\ pc' = "process"
        \/ UNCHANGED request /\ pc' = "answer"
    BY <1>8, Zenon DEF ParseLine
  <2> QED
    BY <1>1, <1>2, <2>1, <2>2, RoomKept DEF answerStepVars, Open, shutVars, kernelVars
<1>9. CASE ProcessInput
  <2>1. UNCHANGED <<answerVars, requestState, request, shutVars, wire, kernelVars, workerVars>>
    BY <1>9, Zenon DEF ProcessInput
  <2> QED
    BY <1>2, <2>1, RoomKept DEF answerStepVars, Open, shutVars, kernelVars, workerVars
<1>10. CASE RefuseInput
  <2>1. /\ UNCHANGED <<answerVars, request, shutVars, wire, kernelVars>>
        /\ pc = "filter" /\ pc' = "answer"
    BY <1>10, Zenon DEF RefuseInput, ReadingBody
  <2> QED
    BY <1>1, <1>2, <2>1, RoomKept DEF answerStepVars, Open, shutVars, kernelVars
<1>11. CASE EndEvent
  <2>1. /\ UNCHANGED <<answerVars, requestVars, shutVars, seenVars, kernelVars>>
        /\ pc = "end" /\ pc' \in {"wait", "gone"}
    BY <1>11 DEF EndEvent
  <2> QED
    BY <1>2, <2>1, RoomKept DEF answerStepVars, Open, requestVars, shutVars, seenVars, kernelVars
<1>12. CASE UNCHANGED vars
  <2>1. UNCHANGED <<answerVars, requestVars, shutVars, seenVars, kernelVars, workerVars>>
    BY <1>12, Zenon DEF vars
  <2> QED
    BY <1>2, <2>1, RoomKept
       DEF answerStepVars, Open, requestVars, shutVars, seenVars, kernelVars, workerVars
<1> QED
  BY <1>3, <1>4, <1>5, <1>6, <1>7, <1>8, <1>9, <1>10, <1>11, <1>12, Zenon

(***************************************************************************)
(* What handlers write fits, as often as they may.                          *)
(***************************************************************************)
LEMMA RoomWritten ==
    ASSUME RoomInv, ClientInv, ProcessRequest \/ FinishInput
    PROVE  RoomInv'
<1>1. /\ \E m \in Bodies : HandlerWrites(m)
      /\ UNCHANGED <<output, request, wire, kernelVars, shutdownWriteSend>>
      /\ \/ pc = "process" /\ pc' \in {"filter", "out", "answer"}
            /\ requestState' \notin {"RequestLine", "RequestHeaders"}
         \/ pc = "filter" /\ pc' = "answer" /\ requestState = "RequestInput"
  <2>1. CASE ProcessRequest
    <3>1. pc' \in {"filter", "out", "answer"} /\ requestState' \in {"RequestInput", "RequestProcess"}
      <4>1. PICK v \in Verdicts :
               /\ requestState' = IF v.status \in {"OK", "SUSPENDED"} /\ v.filter
                                  THEN "RequestInput" ELSE "RequestProcess"
               /\ pc' = CASE v.status \in {"OK", "SUSPENDED"} -> "filter"
                          [] v.status = "DECLINED" -> "out"
                          [] OTHER -> "answer"
        BY <2>1, Zenon DEF ProcessRequest
      <4> QED
        BY <4>1
    <3>2. /\ \E n \in Bodies : HandlerWrites(n)
          /\ UNCHANGED <<output, request, kernelVars, shutdownWriteSend, seenVars>> /\ pc = "process"
      BY <2>1, Zenon DEF ProcessRequest
    <3> QED
      BY <3>1, <3>2 DEF seenVars
  <2>2. CASE FinishInput
    <3>1. /\ \E n \in Bodies : HandlerWrites(n)
          /\ UNCHANGED <<output, request, kernelVars, shutVars, wire>>
          /\ pc = "filter" /\ pc' = "answer" /\ requestState = "RequestInput"
      BY <2>2, Zenon DEF FinishInput, ReadingBody
    <3> QED
      BY <3>1 DEF shutVars
  <2> QED
    BY <2>1, <2>2
<1>2. Open /\ request = TRUE
  BY <1>1 DEF ClientInv, InputInv, Open
<1>3. PICK m \in Bodies : HandlerWrites(m)
  BY <1>1
<1>4. PICK n : Written(n)
  BY <1>2 DEF RoomInv
<1>5. /\ n \in Bodies \cup {0} /\ n \in Nat /\ m \in Nat /\ Len(response.data) <= n
      /\ pc = "process" => n = 0
  BY <1>4, PeerAssumption DEF Written
<1>6. response \in Chains /\ Unanswered /\ wire \in Seq(Nat)
  BY <1>2 DEF ClientInv, AnswerInv
<1>7. /\ response'.last = FALSE
      /\ Len(response'.data) = Len(response.data) + m /\ Len(response.data) \in Nat
  <2>1. Len(response'.data) = Len(response.data) + m /\ response'.last = response.last
    BY <1>3, <1>5, <1>6, HandlerGoesOn
  <2> QED
    BY <1>6, <2>1, ChainParts DEF Unanswered
<1>8. /\ output' = output /\ request' = request /\ wire' = wire
      /\ peer' = peer /\ window' = window /\ inflight' = inflight
      /\ shutdownWriteSend' = FALSE /\ output.data = <<>>
  BY <1>1, <1>6 DEF kernelVars, Unanswered, EmptyChain
<1>9. (Open => \E k : Written(k))'
  <2>1. CASE pc = "process" /\ requestState' \notin {"RequestLine", "RequestHeaders"}
             /\ pc' \in {"filter", "out", "answer"}
    <3>1. Len(response'.data) <= m
      BY <1>5, <1>7, <2>1
    <3>2. Written(m)'
      BY <1>3, <2>1, <3>1 DEF Written
    <3> QED
      BY <3>2
  <2>2. CASE pc' = "answer"
    BY <2>2 DEF Open
  <2> QED
    BY <1>1, <2>1, <2>2
<1>10. (Roomy /\ peer # "reset" => Fits)'
  <2>1. ASSUME Roomy
        PROVE  HeadPieces + Len(response'.data) <= window
    <3>1. window \in Nat /\ HeadPieces \in Nat
      BY PeerAssumption DEF ClientInv, KernelOK
    <3>2. HeadPieces + n + m <= window
      BY <1>3, <1>5, <2>1, <3>1, RoomFor
    <3> QED
      BY <1>5, <1>7, <3>1, <3>2
  <2>2. Roomy' = Roomy
    BY <1>8, Zenon DEF Roomy
  <2>3. pc' \notin {"head", "body"}
    BY <1>1
  <2> QED
    BY <1>8, <2>1, <2>2, <2>3, Zenon DEF Fits
<1>11. inflight' <= Len(wire')
  BY <1>8, Zenon DEF RoomInv
<1> QED
  BY <1>1, <1>2, <1>8, <1>9, <1>10, <1>11 DEF RoomInv

(***************************************************************************)
(* A default body fits, too.                                                *)
(***************************************************************************)
LEMMA RoomSubmitted ==
    ASSUME RoomInv, ClientInv, SubmitResponse
    PROVE  RoomInv'
<1>1. PICK headRequest \in BOOLEAN :
        response' =
            CASE ~request -> response
              [] request /\ response.data = <<>> /\ ~headRequest ->
                    [response EXCEPT !.data = <<HeadPieces + 1>>, !.last = TRUE]
              [] request /\ response.data = <<>> /\ headRequest ->
                    [response EXCEPT !.eos = TRUE]
              [] OTHER -> [response EXCEPT !.last = TRUE]
  BY Zenon DEF SubmitResponse
<1>2. /\ pc = "answer" /\ pc' = "head"
      /\ UNCHANGED <<output, kernelVars, requestVars, shutVars, seenVars>>
  BY Zenon DEF SubmitResponse
<1>3. response \in Chains /\ Unanswered /\ wire \in Seq(Nat)
  BY <1>2 DEF ClientInv, AnswerInv
<1>4. request \in BOOLEAN /\ (~request => response = EmptyChain)
  BY DEF ClientInv, InputInv, RoomInv
<1>5. PICK one : one = <<HeadPieces + 1>> /\ Len(one) = 1
  <2>1. Len(<<HeadPieces + 1>>) = 1
    OBVIOUS
  <2> QED
    BY <2>1
<1>6. /\ ~request => response' = EmptyChain
      /\ response'.data # <<>> => response'.last
      /\ response'.data = response.data \/ Len(response'.data) = 1
  <2>1. PICK x \in Seq(Nat), y \in BOOLEAN, z \in BOOLEAN :
           response = [data |-> x, last |-> y, eos |-> z]
    BY <1>3 DEF Chains
  <2>2. response.data = x
    BY <2>1
  <2>3. CASE ~request
    <3>1. response' = EmptyChain /\ response = EmptyChain
      BY <1>1, <1>4, <2>3
    <3> QED
      BY <3>1 DEF EmptyChain
  <2>4. CASE request /\ response' = [response EXCEPT !.data = one, !.last = TRUE]
    <3>1. response' = [data |-> one, last |-> TRUE, eos |-> z]
      BY <2>1, <2>4
    <3> QED
      BY <1>5, <2>4, <3>1
  <2>5. CASE request /\ response.data = <<>> /\ response' = [response EXCEPT !.eos = TRUE]
    <3>1. response' = [data |-> x, last |-> y, eos |-> TRUE]
      BY <2>1, <2>5
    <3> QED
      BY <2>2, <2>5, <3>1
  <2>6. CASE request /\ response' = [response EXCEPT !.last = TRUE]
    <3>1. response' = [data |-> x, last |-> TRUE, eos |-> z]
      BY <2>1, <2>6
    <3> QED
      BY <2>2, <2>6, <3>1
  <2> QED
    BY <1>1, <1>4, <1>5, <2>3, <2>4, <2>5, <2>6
<1>7. /\ output' = output /\ request' = request /\ wire' = wire
      /\ peer' = peer /\ window' = window /\ inflight' = inflight
      /\ shutdownWriteSend' = shutdownWriteSend /\ ~Open'
  BY <1>2 DEF kernelVars, requestVars, shutVars, seenVars, Open
<1>8. (Roomy /\ peer # "reset" => Fits)'
  <2>1. ASSUME Roomy, peer # "reset"
        PROVE  HeadPieces + Len(response'.data) <= window
    <3>1. window \in Nat /\ HeadPieces \in Nat
      BY PeerAssumption DEF ClientInv, KernelOK
    <3>2. HeadPieces + 1 <= window
      <4>1. 0 \in Bodies \cup {0}
        OBVIOUS
      <4> QED
        BY <2>1, <3>1, <4>1, RoomFor
    <3>3. HeadPieces + Len(response.data) <= window
      BY <1>2, <2>1 DEF RoomInv, Fits
    <3>4. CASE response'.data = response.data
      BY <3>3, <3>4
    <3>5. CASE Len(response'.data) = 1
      BY <3>2, <3>5
    <3> QED
      BY <1>6, <3>4, <3>5
  <2>2. Roomy' = Roomy
    BY <1>7, Zenon DEF Roomy
  <2>3. ~Deaf' /\ output'.data = <<>> /\ shutdownWriteSend' = FALSE
    BY <1>3, <1>7 DEF Unanswered, EmptyChain, Deaf, IsEos
  <2> QED
    BY <1>7, <2>1, <2>2, <2>3, Zenon DEF Fits
<1>9. inflight' <= Len(wire')
  BY <1>7, Zenon DEF RoomInv
<1> QED
  BY <1>6, <1>7, <1>8, <1>9, Zenon DEF RoomInv

(***************************************************************************)
(* The kernel takes the pieces of the head one by one.                      *)
(***************************************************************************)
LEMMA RoomHead ==
    ASSUME RoomInv, ClientInv, WritePiece
    PROVE  RoomInv'
<1>1. pc = "head" /\ response' = response /\ request' = request /\ peer' = peer /\ window' = window
  BY PieceCases
<1>2. PICK shut \in BOOLEAN : PieceSent(shut) /\ HeadGoesOn(shut)
  BY PieceCases
<1>3. /\ response \in Chains /\ output \in Chains /\ left \in 1 .. HeadPieces
      /\ wire \in Seq(Nat) /\ Len(wire) \in Nat /\ Len(output.data) \in Nat
      /\ ~Deaf => Len(wire) + Len(output.data) = left - 1
      /\ (output.data = <<>> <=> Len(output.data) = 0)
  <2>1. /\ response \in Chains /\ output \in Chains /\ left \in 1 .. HeadPieces
        /\ wire \in Seq(Nat)
        /\ ~Deaf => Len(wire) + Len(output.data) = left - 1
    BY <1>1 DEF ClientInv, AnswerInv
  <2> QED
    BY <2>1, ChainParts, LenProperties
<1>4. HeadPieces \in Nat /\ window \in Nat /\ inflight \in Nat /\ inflight <= Len(wire)
      /\ window \in Windows /\ inflight \in 0 .. window
  BY PeerAssumption DEF ClientInv, KernelOK, RoomInv
<1>5. inflight' <= Len(wire')
  <2>1. CASE UNCHANGED <<inflight, wire>>
    BY <1>4, <2>1
  <2>2. CASE Accepted(1, 1) /\ wire' = Append(wire, left)
    <3>1. inflight' \in 0 .. window /\ inflight' <= inflight + 1
      BY <1>4, <2>2, AcceptedType
    <3>2. Len(wire') = Len(wire) + 1
      <4>1. left \in Nat
        BY <1>3, <1>4
      <4> QED
        BY <1>3, <2>2, <4>1, AppendProperties
    <3> QED
      BY <1>3, <1>4, <3>1, <3>2
  <2>3. CASE Accepted(0, 1) /\ UNCHANGED wire
    <3>1. inflight' \in 0 .. window /\ inflight' <= inflight + 0
      BY <1>4, <2>3, AcceptedType
    <3> QED
      BY <1>3, <1>4, <2>3, <3>1
  <2>4. \/ UNCHANGED <<inflight, wire>>
        \/ Accepted(1, 1) /\ wire' = Append(wire, left)
        \/ Accepted(0, 1) /\ UNCHANGED wire
    BY <1>2, Zenon DEF PieceSent
  <2> QED
    BY <2>1, <2>2, <2>3, <2>4, Zenon
<1>6. pc' \in {"head", "body", "out"} /\ ~Open'
  BY <1>1, <1>2 DEF HeadGoesOn, Open
<1>7. (pc \in {"head", "body"} /\ response.data # <<>> => response.last)'
  BY <1>1, Zenon DEF RoomInv
<1>8. (Roomy /\ peer # "reset" => Fits)'
  <2>1. Roomy' = Roomy
    BY <1>1, Zenon DEF Roomy
  <2>2. ASSUME Roomy, peer # "reset"
        PROVE  Fits'
    <3>1. /\ output.data = <<>> /\ HeadPieces + Len(response.data) <= window
          /\ ~Deaf /\ (shutdownWriteSend => response.data = <<>>)
      BY <1>1, <2>2 DEF RoomInv, Fits
    <3>2. ~Accepted(0, 1)
      <4>1. Len(wire) = left - 1
        BY <1>3, <3>1
      <4>2. left <= HeadPieces /\ left \in Nat
        BY <1>3, <1>4
      <4>3. HeadPieces + 1 <= window
        <5>1. 0 \in Bodies \cup {0}
          OBVIOUS
        <5> QED
          BY <1>4, <2>2, <5>1, RoomFor
      <4>4. inflight + 0 < window
        BY <1>3, <1>4, <4>1, <4>2, <4>3
      <4>5. ASSUME Accepted(0, 1)
            PROVE  inflight + 0 >= window
        <5>1. (0 < 1) => peer = "reset" \/ inflight + 0 >= window
          BY <1>4, <4>5, AcceptedType
        <5> QED
          BY <2>2, <5>1
      <4> QED
        BY <1>4, <4>4, <4>5
    <3>3. output' = output /\ shut = (left = HeadPieces /\ response.data = <<>>)
      BY <1>2, <2>2, <3>1, <3>2, Zenon DEF PieceSent
    <3>4. shutdownWriteSend = FALSE
      <4>1. ~shutdownWriteSend
        BY <3>1 DEF Deaf
      <4>2. shutdownWriteSend \in BOOLEAN
        BY DEF ClientInv, AnswerInv
      <4> QED
        BY <4>1, <4>2
    <3>5. shutdownWriteSend' => response.data = <<>>
      BY <1>2, <3>3, <3>4 DEF HeadGoesOn
    <3>6. pc' \in {"head", "body"} => ~shutdownWriteSend'
      <4>1. CASE left < HeadPieces
        <5>1. left # HeadPieces
          BY <1>3, <1>4, <4>1
        <5> QED
          BY <1>2, <3>3, <3>4, <4>1, <5>1 DEF HeadGoesOn
      <4>2. CASE ~(left < HeadPieces)
        BY <1>2, <3>3, <3>4, <4>2 DEF HeadGoesOn
      <4> QED
        BY <4>1, <4>2
    <3>7. pc' \in {"head", "body"} => ~Deaf'
      BY <3>1, <3>3, <3>6, Zenon DEF Deaf
    <3> QED
      BY <1>1, <3>1, <3>3, <3>5, <3>7, Zenon DEF Fits
  <2> QED
    BY <1>1, <2>1, <2>2, Zenon
<1> QED
  BY <1>1, <1>5, <1>6, <1>7, <1>8, Zenon DEF RoomInv

(***************************************************************************)
(* The kernel takes the body as a whole.                                    *)
(***************************************************************************)
LEMMA RoomBody ==
    ASSUME RoomInv, ClientInv, WriteResponse
    PROVE  RoomInv'
<1>1. /\ pc = "body" /\ pc' = "out" /\ shutdownReadSend' = TRUE
      /\ request' = request /\ peer' = peer /\ window' = window
  BY Zenon DEF WriteResponse, Submitted, requestVars
<1>2. /\ response \in Chains /\ output \in Chains /\ wire \in Seq(Nat)
      /\ response.data # <<>> /\ Numbered(response.data, HeadPieces)
      /\ ~Deaf => Len(wire) + Len(output.data) = HeadPieces
  BY <1>1 DEF ClientInv, AnswerInv
<1>3. /\ response.data \in Seq(Nat) /\ Len(response.data) \in Nat /\ Len(wire) \in Nat
      /\ Len(output.data) \in Nat /\ (output.data = <<>> <=> Len(output.data) = 0)
  BY <1>2, ChainParts, LenProperties
<1>4. HeadPieces \in Nat /\ window \in Nat /\ inflight \in Nat /\ inflight <= Len(wire)
      /\ window \in Windows /\ inflight \in 0 .. window
  BY PeerAssumption DEF ClientInv, KernelOK, RoomInv
<1>5. request = TRUE
  <2>1. EmptyChain.data = <<>> /\ request \in BOOLEAN
    BY DEF EmptyChain, ClientInv, InputInv
  <2> QED
    BY <1>2, <2>1 DEF RoomInv
<1>6. ~Open' /\ pc' \notin {"answer", "head", "body"}
  BY <1>1 DEF Open
<1>7. CASE UNCHANGED <<inflight, wire>> /\ (Deaf \/ output.data # <<>>)
  <2>1. ~(Roomy /\ peer # "reset")
    BY <1>1, <1>7 DEF RoomInv, Fits
  <2>2. Roomy' = Roomy
    BY <1>1, Zenon DEF Roomy
  <2>3. inflight' <= Len(wire')
    BY <1>4, <1>7
  <2> QED
    BY <1>1, <1>5, <1>6, <2>1, <2>2, <2>3, Zenon DEF RoomInv
<1>8. ASSUME ~Deaf, output.data = <<>>, UNCHANGED output,
             NEW n \in 0 .. Len(response.data), Accepted(n, Len(response.data)),
             wire' = wire \o SubSeq(response.data, 1, n),
             response' = WriteToFd(response, n)
      PROVE  RoomInv'
  <2>1. Len(wire) = HeadPieces
    BY <1>2, <1>3, <1>4, <1>8
  <2>2. PICK total \in Nat : total = Len(response.data)
    BY <1>3
  <2>3. /\ inflight' \in 0 .. window /\ inflight' <= inflight + n
        /\ n < total => peer = "reset" \/ inflight + n >= window
    BY <1>4, <1>8, <2>2, AcceptedType
  <2>4. Len(wire') = Len(wire) + n
    <3>1. SubSeq(response.data, 1, n) \in Seq(Nat) /\ Len(SubSeq(response.data, 1, n)) = n
      BY <1>2, <1>3, <1>4, NumberedParts
    <3> QED
      BY <1>2, <1>8, <3>1, ConcatProperties
  <2>5. n \in Nat /\ n <= total
    BY <1>3, <2>2
  <2>6. inflight' <= Len(wire')
    BY <1>3, <1>4, <2>3, <2>4, <2>5
  <2>7. ASSUME Roomy, peer # "reset"
        PROVE  response'.data = <<>>
    <3>1. HeadPieces + total <= window
      BY <1>1, <2>2, <2>7 DEF RoomInv, Fits
    <3>2. n = total
      BY <1>4, <2>1, <2>3, <2>5, <2>7, <3>1
    <3>3. response' \in Chains /\ Len(response'.data) = Len(response.data) - n
      BY <1>2, <1>8, WrittenChain
    <3>4. Len(response'.data) = 0
      BY <2>2, <3>2, <3>3
    <3> QED
      BY <3>3, <3>4, ChainParts
  <2>8. Roomy' = Roomy
    BY <1>1, Zenon DEF Roomy
  <2>9. (Roomy /\ peer # "reset" => Fits)'
    BY <1>1, <1>6, <1>8, <2>7, <2>8 DEF Fits
  <2> QED
    BY <1>1, <1>5, <1>6, <2>6, <2>9, Zenon DEF RoomInv
<1>9. \/ UNCHANGED <<inflight, wire>> /\ (Deaf \/ output.data # <<>>)
      \/ /\ ~Deaf /\ output.data = <<>> /\ UNCHANGED output
         /\ \E n \in 0 .. Len(response.data) :
              /\ Accepted(n, Len(response.data))
              /\ wire' = wire \o SubSeq(response.data, 1, n)
              /\ response' = WriteToFd(response, n)
  BY Zenon DEF WriteResponse
<1> QED
  BY <1>7, <1>8, <1>9, Zenon

(***************************************************************************)
(* Nothing waits to be flushed.                                             *)
(***************************************************************************)
LEMMA RoomFlushed ==
    ASSUME RoomInv, ClientInv, PerformWrite
    PROVE  RoomInv'
<1>1. /\ pc = "out" /\ pc' = "end"
      /\ UNCHANGED <<peer, window, requestVars, response, left, shutdownReadSend>>
  BY Zenon DEF PerformWrite
<1>2. KernelOK /\ AnswerInv /\ window \in Nat /\ inflight \in Nat /\ inflight <= inflight
  BY PeerAssumption DEF ClientInv, KernelOK
<1>3. CASE UNCHANGED <<inflight, output, shutdownWriteSend, wire>>
  BY <1>1, <1>2, <1>3, RoomKept DEF answerStepVars, answerVars, requestVars, Open
<1>4. ASSUME output.data # <<>>, NEW n \in 0 .. Len(output.data),
             Accepted(n, Len(output.data)), wire' = wire \o SubSeq(output.data, 1, n)
      PROVE  RoomInv'
  <2>1. /\ output \in Chains /\ wire \in Seq(Nat) /\ Numbered(wire, 0)
        /\ Numbered(output.data, Len(wire)) /\ output.data \in Seq(Nat)
        /\ Len(wire) \in Nat /\ Len(output.data) \in Nat
    BY <1>2, ChainParts, LenProperties DEF AnswerInv
  <2>2. Len(wire') = Len(wire) + n
    BY <1>4, <2>1, WrittenGoesOn
  <2>3. inflight' \in 0 .. window /\ inflight' <= inflight + n
    BY <1>2, <1>4, <2>1, AcceptedType DEF KernelOK
  <2>4. inflight' <= Len(wire')
    <3>1. inflight <= Len(wire)
      BY DEF RoomInv
    <3>2. n \in Nat
      BY <2>1
    <3> QED
      BY <1>2, <2>1, <2>2, <2>3, <3>1, <3>2
  <2>5. ~Open' /\ pc' \notin {"answer", "head", "body"}
    BY <1>1, <1>2, <1>4 DEF Open, AnswerInv, Unanswered, EmptyChain
  <2>6. ~(Roomy /\ peer # "reset")'
    <3>1. Roomy' = Roomy /\ peer' = peer
      BY <1>1, Zenon DEF Roomy
    <3> QED
      BY <1>4, <3>1, Zenon DEF RoomInv, Fits
  <2>7. response' = response /\ request' = request
    BY <1>1 DEF requestVars
  <2> QED
    BY <2>4, <2>5, <2>6, <2>7, Zenon DEF RoomInv
<1>5. \/ UNCHANGED <<inflight, output, shutdownWriteSend, wire>>
      \/ /\ output.data # <<>>
         /\ \E n \in 0 .. Len(output.data) :
              Accepted(n, Len(output.data)) /\ wire' = wire \o SubSeq(output.data, 1, n)
  BY Zenon DEF PerformWrite
<1> QED
  BY <1>3, <1>4, <1>5, Zenon

(***************************************************************************)
(* The connection's writing side is shut only when its answer was given to  *)
(* a socket that has room for all of it, or the connection is broken: no    *)
(* order of pieces, events and handlers shuts it early (Client::write,      *)
(* performWrite, submitResponse, cancelWithResult).                         *)
(***************************************************************************)
THEOREM AnswerIsWholeIfRoomy == Spec => []WholeIfRoomy
<1>1. Init => RoomInv
  <2> SUFFICES ASSUME Init
               PROVE  RoomInv
    OBVIOUS
  <2>1. /\ response = EmptyChain /\ output = EmptyChain /\ inflight = 0 /\ wire = <<>>
        /\ pc = "wait" /\ requestState = "RequestLine" /\ shutdownWriteSend = FALSE
    BY Zenon DEF Init
  <2>2. EmptyChain.data = <<>> /\ Len(<<>>) = 0
    BY EmptySeq DEF EmptyChain
  <2>3. Written(0)
    BY <2>1, <2>2 DEF Written
  <2>4. Fits
    BY <2>1, <2>2 DEF Fits
  <2> QED
    BY <2>1, <2>2, <2>3, <2>4 DEF RoomInv
<1>2. RoomInv /\ ClientInv /\ [Next]_vars => RoomInv'
  BY RoomKeptActions, RoomWritten, RoomSubmitted, RoomHead, RoomBody, RoomFlushed, Zenon
     DEF Next, Worker
<1>3. RoomInv => WholeIfRoomy
  BY Zenon DEF RoomInv, Fits, WholeIfRoomy, NothingUnsent
<1> QED
  BY <1>1, <1>2, <1>3, ClientInductive, PTL DEF Spec

-----------------------------------------------------------------------------
(* One exchange.                                                           *)

SeenLines(s) == [i \in DOMAIN s |-> Whole(s[i])]

\* Where the lines end that the parser was given.
Taken == Seen!UpTo(SeenLines(lines), 0)

\* While the head is read the chain begins with the stream, and no line ends
\* among the units that were read and not given to the parser.
ReadingHead ==
    /\ requestState = "RequestLine" => Taken = 0
    /\ requestState = "RequestHeaders" => bytesRead = Taken
    /\ Taken \in Nat /\ Taken <= pos
    /\ \A e \in HeadEnds : e <= Taken \/ pos < e
    /\ Taken < HeadLength /\ input = <<>> => got = 0
    /\ Taken < HeadLength /\ input # <<>> => input[1].first = 1 /\ input[1].absolute = 0

LineInv ==
    /\ sent \notin HeadEnds \ {HeadLength} /\ got \notin HeadEnds \ {HeadLength}
    /\ requestState \notin {"RequestLine", "RequestHeaders"} => Taken = HeadLength
    /\ Open /\ requestState \in {"RequestLine", "RequestHeaders"} => ReadingHead

\* What is cut out of a chain for the line after u that ends at m.
Cut(chain, u, m, g) ==
    /\ Whole(Extract(chain, m, u)) = <<u + 1, m>>
    /\ GetBytesRead(chain, m) = m
    /\ m < g /\ m < HeadLength => m < End(chain[1])

(***************************************************************************)
(* In a chain that begins with the stream, and with the head in its first   *)
(* buffer, the code finds the line where it is.                            *)
(***************************************************************************)
LEMMA LineIsNext ==
    ASSUME HeadLength <= Capacity,
           NEW chain, NEW p \in Nat, NEW g \in Nat, Covers(chain, p, g), chain # <<>>,
           chain[1].first = 1, chain[1].absolute = 0,
           NEW u \in Nat, NEW m \in HeadEnds, u < m, m <= g,
           \A e \in HeadEnds : u < e => m <= e
    PROVE  Cut(chain, u, m, g)
<1>1. /\ chain \in Seq(Buffer) /\ Tiled(chain) /\ End(chain[Len(chain)]) = g
  BY DEF Covers
<1>2. /\ Len(chain) \in Nat /\ Len(chain) # 0 /\ Capacity \in Nat \ {0}
      /\ \A k \in 1 .. Len(chain) :
            /\ chain[k].size \in 1 .. Capacity
            /\ End(chain[k]) = chain[k].first + chain[k].size - 1
  BY <1>1, ChainFacts
<1>3. PICK s \in Nat : s = chain[1].size /\ End(chain[1]) = s
  <2>1. chain[1].size \in 1 .. Capacity /\ End(chain[1]) = 1 + chain[1].size - 1
    BY <1>2
  <2> QED
    BY <1>2, <2>1
<1>4. /\ m \in Nat /\ m <= HeadLength /\ HeadLength \in Nat /\ LineLimit \in Nat \ {0}
      /\ HeadEnds \subseteq Nat
  BY HeadEnd, PeerAssumption, ChainAssumption
<1>5. (Len(chain) = 1 => s = g) /\ (Len(chain) # 1 => s = Capacity)
  <2>1. CASE Len(chain) = 1
    BY <1>1, <1>3, <2>1
  <2>2. CASE Len(chain) # 1
    <3>1. 1 \in 1 .. Len(chain) - 1
      <4>1. PICK n \in Nat : n = Len(chain)
        BY <1>2
      <4> QED
        BY <1>2, <2>2, <4>1
    <3> QED
      BY <1>1, <1>3, <2>2, <3>1 DEF Tiled
  <2> QED
    BY <2>1, <2>2
<1>6. m <= s
  BY <1>2, <1>3, <1>4, <1>5
<1>7. Head(chain) = chain[1]
  BY <1>1
<1>8. Offset(chain[1], m) = m
  BY <1>3, <1>4, <1>6 DEF Offset, Greater, Lesser
<1>9. GetBytesRead(chain, m) = m
  BY <1>4, <1>7, <1>8 DEF GetBytesRead
<1>10. PICK used \in Nat : /\ used = IF Len(chain) = 1 THEN m - u ELSE Lesser(m - u, LineLimit)
                           /\ 0 < used /\ u + used <= m
                           /\ used # LineLimit => u + used = m
  <2>1. PICK n \in Nat \ {0} : n = m - u
    BY <1>4
  <2>2. PICK r \in Nat \ {0} : r = Lesser(n, LineLimit) /\ r <= n /\ (r # LineLimit => r = n)
    BY <1>4 DEF Lesser
  <2>3. PICK used \in {n, r} : used = IF Len(chain) = 1 THEN n ELSE r
    OBVIOUS
  <2>4. used \in Nat /\ 0 < used /\ used <= n /\ (used # LineLimit => used = n)
    BY <2>2, <2>3
  <2>5. u + used <= m /\ (used = n => u + used = m)
    BY <1>4, <2>1, <2>4
  <2> QED
    BY <2>1, <2>2, <2>3, <2>4, <2>5
<1>11. PICK l \in Nat : l = u + used
  OBVIOUS
<1>12. Extract(chain, m, u) = <<u + 1, l>>
  <2>1. m - u > 0 /\ 0 <= u
    BY <1>4
  <2>2. 1 + u - 0 = u + 1 /\ (u + 1) + used - 1 = l
    BY <1>11
  <2>3. PICK front : front = Head(chain)
    OBVIOUS
  <2>4. PICK length : length = GetBytesRead(chain, m) - u
    OBVIOUS
  <2>5. length = m - u /\ front.first = 1 /\ front.absolute = 0
    BY <1>7, <1>9, <2>3, <2>4
  <2>6. PICK start : start = front.first + u - front.absolute
    OBVIOUS
  <2>7. start = u + 1
    BY <2>5, <2>6
  <2>8. Extract(chain, m, u) =
            IF length > 0 /\ front.absolute <= u
            THEN <<start, start + (IF Len(chain) = 1 THEN length ELSE Lesser(length, LineLimit)) - 1>>
            ELSE Garbled
    BY <2>3, <2>4, <2>6, Zenon DEF Extract
  <2> QED
    BY <1>10, <2>1, <2>2, <2>5, <2>7, <2>8
<1>13. PICK line : line = <<u + 1, l>>
  OBVIOUS
<1>14. line[1] = u + 1 /\ line[2] = l /\ line[2] - line[1] + 1 = used
  BY <1>11, <1>13
<1>15. Whole(line) = <<u + 1, m>>
  <2>1. CASE used = LineLimit
    <3> DEFINE T == {e \in HeadEnds : e >= line[2]}
    <3>1. Whole(line) = <<u + 1, Min(T)>>
      BY <1>14, <2>1 DEF Whole
    <3>2. m \in T /\ T \subseteq Nat
      BY <1>4, <1>10, <1>11, <1>14
    <3>3. Min(T) \in T /\ Min(T) <= m
      <4> HIDE DEF T
      <4> QED
        BY <3>2, MinIsLeast
    <3>4. m <= Min(T)
      <4>1. PICK e \in T : e = Min(T)
        BY <3>3
      <4>2. e \in HeadEnds /\ e \in Nat /\ e >= l
        BY <1>4, <1>14, <4>1
      <4>3. u < e
        BY <1>10, <1>11, <4>2
      <4> QED
        BY <4>1, <4>2, <4>3
    <3>5. Min(T) = m
      <4>1. PICK e \in Nat : e = Min(T)
        BY <3>2, <3>3
      <4> QED
        BY <1>4, <3>3, <3>4, <4>1
    <3> QED
      BY <3>1, <3>5
  <2>2. CASE used # LineLimit
    <3>1. Whole(line) = line
      BY <1>14, <2>2 DEF Whole
    <3> QED
      BY <1>10, <1>11, <1>13, <2>2, <3>1
  <2> QED
    BY <2>1, <2>2
<1>16. m < g /\ m < HeadLength => m < s
  BY <1>2, <1>3, <1>4, <1>5
<1> QED
  BY <1>3, <1>9, <1>12, <1>13, <1>15, <1>16, Zenon DEF Cut

(***************************************************************************)
(* One more line.                                                          *)
(***************************************************************************)
LEMMA OneMoreLine ==
    ASSUME NEW s \in Seq(Interval), NEW l \in Interval
    PROVE  /\ SeenLines(Append(s, l)) = Append(SeenLines(s), Whole(l))
           /\ Seen!UpTo(SeenLines(Append(s, l)), 0) = Whole(l)[2]
<1>1. PICK q : q = SeenLines(s)
  OBVIOUS
<1>2. PICK w : w = Whole(l)
  OBVIOUS
<1> DEFINE S == {q[i] : i \in 1 .. Len(s)} \cup {w}
<1>3. Len(s) \in Nat /\ DOMAIN s = 1 .. Len(s)
  BY LenProperties
<1>4. q \in Seq(S) /\ Len(q) = Len(s)
  <2>1. q \in [1 .. Len(s) -> S]
    BY <1>1, <1>3 DEF SeenLines
  <2>2. q \in Seq(S)
    <3> HIDE DEF S
    <3> QED
      BY <1>3, <2>1, SeqDef
  <2>3. DOMAIN q = 1 .. Len(q) /\ Len(q) \in Nat
    BY <2>2, LenProperties
  <2>4. 1 .. Len(q) = 1 .. Len(s)
    BY <2>1, <2>3
  <2>5. Len(q) = Len(s)
    <3>1. PICK a \in Nat, b \in Nat : a = Len(q) /\ b = Len(s) /\ 1 .. a = 1 .. b
      BY <1>3, <2>3, <2>4
    <3>2. a = b
      BY <3>1
    <3> QED
      BY <3>1, <3>2
  <2> QED
    BY <2>2, <2>5
<1>5. /\ Append(q, w) \in Seq(S) /\ Append(q, w) # <<>> /\ Len(Append(q, w)) = Len(s) + 1
      /\ \A i \in 1 .. Len(s) : Append(q, w)[i] = q[i]
      /\ Append(q, w)[Len(s) + 1] = w
  <2>1. w \in S
    OBVIOUS
  <2> HIDE DEF S
  <2> QED
    BY <1>4, <2>1, AppendProperties
<1>6. /\ Append(s, l) \in Seq(Interval) /\ Len(Append(s, l)) = Len(s) + 1
      /\ \A i \in 1 .. Len(s) : Append(s, l)[i] = s[i]
      /\ Append(s, l)[Len(s) + 1] = l
  BY AppendProperties
<1>7. DOMAIN Append(s, l) = 1 .. Len(s) + 1 /\ DOMAIN Append(q, w) = 1 .. Len(s) + 1
  BY <1>3, <1>5, <1>6, LenProperties
<1>8. PICK a : a = Append(s, l)
  OBVIOUS
<1>9. PICK b : b = Append(q, w)
  OBVIOUS
<1>10. \A i \in 1 .. Len(s) + 1 : Whole(a[i]) = b[i]
  <2>1. ASSUME NEW i \in 1 .. Len(s)
        PROVE  Whole(a[i]) = b[i]
    BY <1>1, <1>3, <1>5, <1>6, <1>8, <1>9 DEF SeenLines
  <2>2. Whole(a[Len(s) + 1]) = b[Len(s) + 1]
    BY <1>2, <1>5, <1>6, <1>8, <1>9
  <2>3. ASSUME NEW i \in 1 .. Len(s) + 1
        PROVE  i \in 1 .. Len(s) \/ i = Len(s) + 1
    BY <1>3
  <2> QED
    BY <2>1, <2>2, <2>3
<1>11. SeenLines(a) = b
  <2>1. SeenLines(a) = [i \in 1 .. Len(s) + 1 |-> Whole(a[i])]
    BY <1>7, <1>8 DEF SeenLines
  <2>2. b = [i \in 1 .. Len(s) + 1 |-> b[i]]
    <3>1. b \in [1 .. Len(b) -> S]
      <4> HIDE DEF S
      <4> QED
        BY <1>5, <1>9, LenProperties
    <3> QED
      BY <1>5, <1>9, <3>1
  <2>3. [i \in 1 .. Len(s) + 1 |-> Whole(a[i])] = [i \in 1 .. Len(s) + 1 |-> b[i]]
    BY <1>10
  <2> QED
    BY <2>1, <2>2, <2>3
<1>12. Seen!UpTo(b, 0) = w[2]
  BY <1>5, <1>9 DEF Seen!UpTo, Seen!Last
<1> QED
  BY <1>1, <1>2, <1>8, <1>9, <1>11, <1>12

(***************************************************************************)
(* Of the head's end Exchange says what WorkerClient does.                  *)
(***************************************************************************)
LEMMA SameHead ==
    /\ Seen!Max(HeadEnds) = HeadLength
    /\ \A T : Seen!Min(T) = Min(T)
BY Zenon DEF Seen!Max, Max, Seen!Min, Min, HeadLength

(***************************************************************************)
(* Steps that leave the chain and the head alone.                          *)
(***************************************************************************)
LEMMA LineKept ==
    ASSUME LineInv, UNCHANGED <<chainVars, requestState, lines, got>>,
           sent' \notin HeadEnds \ {HeadLength}, Open' => Open
    PROVE  LineInv'
<1>1. /\ input' = input /\ pos' = pos /\ bytesRead' = bytesRead
      /\ requestState' = requestState /\ lines' = lines /\ got' = got
  BY DEF chainVars
<1>2. Taken' = Taken
  BY <1>1 DEF Taken
<1>3. ReadingHead => ReadingHead'
  BY <1>1, <1>2, Zenon DEF ReadingHead
<1>4. Open' => Open
  OBVIOUS
<1> QED
  BY <1>1, <1>2, <1>3, <1>4, Zenon DEF LineInv

(***************************************************************************)
(* They are these.                                                         *)
(***************************************************************************)
LEMMA LineKeptActions ==
    ASSUME LineInv, ~CutAtLineEnd,
           \/ Peer \/ Wake \/ WakeError \/ FilterDone \/ LineTooLong \/ InputRefused
           \/ SubmitResponse \/ WritePiece \/ WriteResponse \/ PerformWrite \/ EndEvent
           \/ UNCHANGED vars
    PROVE  LineInv'
<1>1. sent \notin HeadEnds \ {HeadLength}
  BY DEF LineInv
<1>2. CASE Peer
  <2>1. UNCHANGED <<got, workerVars, chainVars, requestVars, shutVars, seenVars>>
    BY <1>2, Zenon DEF Peer, Send, Drain, Leave
  <2>2. sent' = sent \/ sent' \notin HeadEnds \ {HeadLength}
    BY <1>2, Zenon DEF Peer, Send, Drain, Leave
  <2> QED
    BY <1>1, <2>1, <2>2, LineKept, Zenon
       DEF Open, workerVars, chainVars, requestVars, shutVars, seenVars
<1>3. CASE Wake \/ WakeError
  BY <1>1, <1>3, LineKept
     DEF Wake, WakeError, Open, requestVars, shutVars, seenVars
<1>4. CASE FilterDone \/ LineTooLong \/ InputRefused
  <2>1. /\ UNCHANGED <<kernelVars, chainVars, requestVars, shutVars, seenVars>>
        /\ pc = "filter"
    BY <1>4, Zenon DEF FilterDone, LineTooLong, InputRefused, Reading
  <2> QED
    BY <1>1, <2>1, LineKept DEF Open, kernelVars, requestVars, shutVars, seenVars
<1>5. CASE SubmitResponse
  <2>1. /\ UNCHANGED <<kernelVars, chainVars, requestVars, shutVars, seenVars>>
        /\ pc' = "head"
    BY <1>5, Zenon DEF SubmitResponse
  <2> QED
    BY <1>1, <2>1, LineKept DEF Open, kernelVars, requestVars, shutVars, seenVars
<1>6. CASE WritePiece
  <2>1. /\ UNCHANGED <<sent, got, chainVars, requestVars, lines, body>>
        /\ pc' \in {"head", "body"} \/ shutdownReadSend' = TRUE
    <3>1. UNCHANGED <<sent, got, chainVars, requestVars, lines, body>> /\ pc = "head"
      BY <1>6, Zenon DEF WritePiece
    <3>2. \/ UNCHANGED pc \/ pc' = "body" \/ shutdownReadSend' = TRUE
      BY <1>6, Zenon DEF WritePiece, Submitted
    <3> QED
      BY <3>1, <3>2
  <2> QED
    BY <1>1, <2>1, LineKept DEF Open, requestVars
<1>7. CASE WriteResponse
  <2>1. /\ UNCHANGED <<sent, got, chainVars, requestVars, lines, body>>
        /\ shutdownReadSend' = TRUE
    BY <1>7, Zenon DEF WriteResponse, Submitted
  <2> QED
    BY <1>1, <2>1, LineKept DEF Open, requestVars
<1>8. CASE PerformWrite
  <2>1. /\ UNCHANGED <<sent, got, chainVars, requestVars, lines, body, shutdownReadSend>>
        /\ pc = "out"
    BY <1>8, Zenon DEF PerformWrite
  <2> QED
    BY <1>1, <2>1, LineKept DEF Open, requestVars
<1>9. CASE EndEvent
  <2>1. /\ UNCHANGED <<kernelVars, chainVars, requestVars, shutVars, seenVars>>
        /\ pc = "end"
    BY <1>9, Zenon DEF EndEvent
  <2> QED
    BY <1>1, <2>1, LineKept DEF Open, kernelVars, requestVars, shutVars, seenVars
<1>10. CASE UNCHANGED vars
  BY <1>1, <1>10, LineKept
     DEF Open, vars, kernelVars, workerVars, requestVars, shutVars, seenVars
<1> QED
  BY <1>2, <1>3, <1>4, <1>5, <1>6, <1>7, <1>8, <1>9, <1>10, Zenon

(***************************************************************************)
(* What performRead puts into an empty chain is the beginning of the stream. *)
(***************************************************************************)
LEMMA LineRead ==
    ASSUME LineInv, InputInv, PerformRead
    PROVE  LineInv'
<1>1. /\ sent \in Nat /\ got \in Nat /\ got <= sent /\ pos \in Nat
      /\ Covers(input, pos, got) /\ sent \notin HeadEnds \ {HeadLength}
      /\ input = <<>> /\ Open => pos = got
  BY DEF InputInv, LineInv
<1>2. /\ UNCHANGED <<sent, pos, bytesRead, requestVars, lines, shutVars>> /\ pc = "read"
  BY Zenon DEF PerformRead, seenVars
<1>3. CASE shutdownReadSend
  <2>1. UNCHANGED <<got, input>>
    BY <1>3 DEF PerformRead
  <2> QED
    BY <1>1, <1>2, <1>3, <2>1, LineKept DEF Open, chainVars, requestVars, shutVars
<1>4. CASE ~shutdownReadSend
  <2>1. input' = ReadFromFd(input, got + 1, sent - got) /\ got' = sent
    BY <1>4 DEF PerformRead
  <2>2. /\ sent' = sent /\ pos' = pos /\ bytesRead' = bytesRead
        /\ requestState' = requestState /\ lines' = lines
    BY <1>2 DEF requestVars
  <2>3. Open
    BY <1>2, <1>4 DEF Open
  <2>4. Taken' = Taken
    BY <2>2 DEF Taken
  <2>5. PICK n \in Nat : n = sent - got /\ got + n = sent
    BY <1>1
  <2>6. PICK c : c = ReadFromFd(input, got + 1, n)
    OBVIOUS
  <2>7. /\ Covers(c, pos, got + n)
        /\ c = <<>> => input = <<>> /\ n = 0
        /\ input # <<>> => c[1].first = input[1].first /\ c[1].absolute = input[1].absolute
        /\ input = <<>> /\ n # 0 => c[1].first = got + 1 /\ c[1].absolute = 0
    <3>1. Covers(input, pos, got) /\ (input = <<>> => got <= pos)
      BY <1>1, <2>3
    <3>2. pos \in Nat /\ got \in Nat
      BY <1>1
    <3>3. ReadOn(input, pos, got, n, c)
      BY <2>6, <3>1, <3>2, ReadCovers
    <3> QED
      BY <3>3, Zenon DEF ReadOn
  <2>8. input' = c
    BY <2>1, <2>5, <2>6, Zenon
  <2>9. c # <<>> => sent # 0
    <3> SUFFICES ASSUME c # <<>>, sent = 0
                 PROVE  FALSE
      OBVIOUS
    <3>1. c \in Seq(Buffer) /\ End(c[Len(c)]) = 0
      BY <2>5, <2>7 DEF Covers
    <3>2. Len(c) \in 1 .. Len(c)
      BY <3>1, ChainFacts
    <3>3. c[Len(c)].first \in Nat \ {0} /\ c[Len(c)].first <= End(c[Len(c)])
      BY <3>1, <3>2, ChainFacts
    <3> QED
      BY <3>1, <3>3
  <2>10. CASE requestState \in {"RequestLine", "RequestHeaders"}
    <3>1. ReadingHead
      BY <2>3, <2>10, Zenon DEF LineInv
    <3>2. (Taken < HeadLength /\ input = <<>> => got = 0)'
      <4> SUFFICES ASSUME Taken < HeadLength, c = <<>>
                   PROVE  sent = 0
        BY <2>1, <2>4, <2>8
      <4>1. input = <<>> /\ n = 0
        BY <2>7
      <4>2. got = 0
        BY <3>1, <4>1 DEF ReadingHead
      <4> QED
        BY <2>5, <4>1, <4>2
    <3>3. (Taken < HeadLength /\ input # <<>> => input[1].first = 1 /\ input[1].absolute = 0)'
      <4> SUFFICES ASSUME Taken < HeadLength, c # <<>>
                   PROVE  c[1].first = 1 /\ c[1].absolute = 0
        BY <2>4, <2>8
      <4>1. CASE input # <<>>
        BY <2>7, <3>1, <4>1 DEF ReadingHead
      <4>2. CASE input = <<>>
        <5>1. got = 0
          BY <3>1, <4>2 DEF ReadingHead
        <5>2. n # 0 /\ got + 1 = 1
          BY <2>5, <2>9, <5>1
        <5> QED
          BY <2>7, <4>2, <5>2
      <4> QED
        BY <4>1, <4>2
    <3>4. ReadingHead'
      BY <2>2, <2>4, <3>1, <3>2, <3>3, Zenon DEF ReadingHead
    <3> QED
      BY <1>1, <2>1, <2>2, <2>10, <3>4, Zenon DEF LineInv
  <2>11. CASE requestState \notin {"RequestLine", "RequestHeaders"}
    BY <1>1, <2>1, <2>2, <2>4, <2>11, Zenon DEF LineInv
  <2> QED
    BY <2>10, <2>11
<1> QED
  BY <1>3, <1>4

(***************************************************************************)
(* What is read without the end of a line has no line's end in it.          *)
(***************************************************************************)
LEMMA LineNotTaken ==
    ASSUME LineInv, InputInv, LineNotFound
    PROVE  LineInv'
<1> DEFINE found == FoundEnds(input, pos, HeadEnds)
<1>1. /\ pc = "filter" /\ ~IsEmpty(input, pos)
      /\ requestState \in {"RequestLine", "RequestHeaders"}
      /\ found \subseteq IF requestState = "RequestLine" THEN {End(Last(input))} ELSE {}
      /\ pos' = End(Last(input))
      /\ UNCHANGED <<kernelVars, workerVars, input, bytesRead, requestVars,
                     answerVars, shutVars, seenVars>>
  BY Zenon DEF LineNotFound, Reading
<1>2. /\ input # <<>> /\ End(Last(input)) = got /\ pos < got /\ pos \in Nat /\ got \in Nat
      /\ Open
  BY <1>1, FilterFinds
<1>3. ReadingHead
  BY <1>1, <1>2, Zenon DEF LineInv
<1>4. /\ sent' = sent /\ got' = got /\ pos' = got /\ bytesRead' = bytesRead /\ input' = input
      /\ requestState' = requestState /\ lines' = lines
  BY <1>1, <1>2 DEF kernelVars, requestVars, seenVars
<1>5. Taken' = Taken
  BY <1>4 DEF Taken
<1>6. ASSUME NEW e \in HeadEnds
      PROVE  e <= Taken \/ got < e
  <2>1. found = {x \in HeadEnds : pos < x /\ x <= got}
    BY <1>2 DEF FoundEnds
  <2>2. /\ \A x \in HeadEnds : x \in Nat /\ x <= HeadLength /\ (x <= Taken \/ pos < x)
        /\ HeadLength \in Nat
    BY <1>3, HeadEnd DEF ReadingHead
  <2> SUFFICES ASSUME ~(e <= Taken), e <= got
               PROVE  FALSE
    BY <1>2, <2>2
  <2>3. e \in found
    BY <2>1, <2>2
  <2>4. requestState = "RequestLine" /\ e = got
    BY <1>1, <1>2, <2>3
  <2>5. e = HeadLength
    BY <2>4 DEF LineInv
  <2>6. PICK x \in HeadEnds : x < HeadLength
    BY HeadEnd
  <2>7. Taken = 0 /\ x \in Nat \ {0}
    BY <1>3, <2>4, HeadEnd DEF ReadingHead
  <2>8. pos < x /\ x <= got /\ x # got
    BY <2>2, <2>4, <2>5, <2>6, <2>7
  <2>9. x \in found
    BY <2>1, <2>8
  <2> QED
    BY <1>1, <1>2, <2>8, <2>9
<1>7. Taken \in Nat /\ Taken <= got
  BY <1>2, <1>3 DEF ReadingHead
<1>8. ReadingHead'
  <2>1. /\ (requestState = "RequestLine" => Taken = 0)'
        /\ (requestState = "RequestHeaders" => bytesRead = Taken)'
        /\ (Taken < HeadLength /\ input = <<>> => got = 0)'
        /\ (Taken < HeadLength /\ input # <<>> => input[1].first = 1 /\ input[1].absolute = 0)'
    BY <1>3, <1>4, <1>5, Zenon DEF ReadingHead
  <2>2. Taken' \in Nat /\ Taken' <= pos'
    BY <1>4, <1>5, <1>7
  <2>3. (\A e \in HeadEnds : e <= Taken \/ pos < e)'
    BY <1>4, <1>5, <1>6
  <2> QED
    BY <2>1, <2>2, <2>3, Zenon DEF ReadingHead
<1> QED
  BY <1>1, <1>4, <1>5, <1>8, Zenon DEF LineInv

(***************************************************************************)
(* The line that is taken is the next one of the head.                      *)
(***************************************************************************)
LEMMA LineParsed ==
    ASSUME ~CutAtLineEnd, HeadLength <= Capacity, LineInv, InputInv, Unanswered, ParseLine
    PROVE  LineInv' /\ Seen!TakeLine
<1> DEFINE found == FoundEnds(input, pos, HeadEnds)
           line == Extract(input, Min(found), LineBase)
<1>1. /\ pc = "filter" /\ ~IsEmpty(input, pos)
      /\ requestState \in {"RequestLine", "RequestHeaders"}
      /\ pos' = Min(found) /\ lines' = Append(lines, line)
      /\ UNCHANGED <<kernelVars, mask, released, contentLength, declared,
                     answerVars, shutVars, body, wire>>
  BY Zenon DEF ParseLine, Reading
<1>2. found # {}
  <2>1. ~(found \subseteq IF requestState = "RequestLine" THEN {End(Last(input))} ELSE {})
    BY Zenon DEF ParseLine
  <2> QED
    BY <2>1
<1>3. \/ /\ bytesRead' = GetBytesRead(input, pos')
         /\ input' = ReleaseEmpty(input, Min(found))
         /\ requestState' = "RequestHeaders"
      \/ /\ line = EndOfHead
         /\ requestState' = "RequestProcess"
      \/ /\ pc' = "answer" /\ UNCHANGED requestState
  BY Zenon DEF ParseLine
<1>4. /\ input # <<>> /\ pos \in Nat /\ got \in Nat /\ bytesRead \in Nat /\ Open
  BY <1>1, FilterFinds
<1>5. ReadingHead
  BY <1>1, <1>4, Zenon DEF LineInv
<1>6. PICK u \in Nat : /\ u = Taken /\ u = LineBase /\ u <= pos
                       /\ \A e \in HeadEnds : e <= u \/ pos < e
  BY <1>1, <1>5, Zenon DEF ReadingHead, LineBase
<1>7. PICK m \in Nat : /\ m = Min(found) /\ m \in HeadEnds /\ pos < m /\ m <= got
                       /\ \A e \in HeadEnds : pos < e => m <= e
                       /\ line \in Interval /\ (line = EndOfHead => m = HeadLength)
  <2> HIDE DEF found
  <2>1. PICK f : f = found
    OBVIOUS
  <2>2. f = FoundEnds(input, pos, HeadEnds) /\ f # {}
    BY <1>2, <2>1 DEF found
  <2>3. LineBase \in Nat
    BY <1>6
  <2> QED
    BY <1>1, <2>1, <2>2, <2>3, FirstFound
<1> HIDE DEF found
<1>8. line = Extract(input, m, u)
  BY <1>6, <1>7, Zenon
<1> HIDE DEF line
<1>9. /\ HeadLength \in Nat /\ m <= HeadLength /\ u < m
      /\ \A e \in HeadEnds : e \in Nat /\ (u < e => m <= e)
  BY <1>4, <1>6, <1>7, HeadEnd
<1>10. Taken < HeadLength /\ input[1].first = 1 /\ input[1].absolute = 0
  <2>1. Taken < HeadLength
    BY <1>6, <1>9
  <2> QED
    BY <1>4, <1>5, <2>1 DEF ReadingHead
<1>11. /\ Whole(line) = <<u + 1, m>> /\ GetBytesRead(input, m) = m
       /\ m < got /\ m < HeadLength => m < End(input[1])
  <2>1. Covers(input, pos, got)
    BY DEF InputInv
  <2>2. /\ Whole(Extract(input, m, u)) = <<u + 1, m>> /\ GetBytesRead(input, m) = m
        /\ m < got /\ m < HeadLength => m < End(input[1])
    <3>1. PICK p, g \in Nat : p = pos /\ g = got
      BY <1>4
    <3>2. /\ Covers(input, p, g) /\ input # <<>> /\ input[1].first = 1 /\ input[1].absolute = 0
          /\ m \in HeadEnds /\ u < m /\ m <= g
      BY <1>4, <1>7, <1>9, <1>10, <2>1, <3>1
    <3>3. \A e \in HeadEnds : u < e => m <= e
      BY <1>9
    <3>4. Cut(input, u, m, g)
      BY <3>2, <3>3, LineIsNext
    <3> QED
      BY <3>1, <3>4, Zenon DEF Cut
  <2> QED
    BY <1>8, <2>2
<1>12. /\ SeenLines(lines') = Append(SeenLines(lines), <<u + 1, m>>)
       /\ Taken' = m
  <2>1. lines \in Seq(Interval)
    BY DEF InputInv
  <2>2. /\ SeenLines(Append(lines, line)) = Append(SeenLines(lines), Whole(line))
        /\ Seen!UpTo(SeenLines(Append(lines, line)), 0) = Whole(line)[2]
    BY <1>7, <2>1, OneMoreLine
  <2>3. /\ SeenLines(lines') = Append(SeenLines(lines), Whole(line))
        /\ Taken' = Whole(line)[2]
    BY <1>1, <2>2, Zenon DEF Taken
  <2> QED
    BY <1>11, <2>3
<1>13. Seen!TakeLine
  <2>1. wire = <<>> /\ UNCHANGED <<body, wire>>
    BY <1>1 DEF Unanswered
  <2>2. ~(Seen!UpTo(SeenLines(lines), 0) = Seen!Max(HeadEnds))
    <3>1. Taken # HeadLength
      BY <1>6, <1>9
    <3> QED
      BY <3>1, SameHead, Zenon DEF Taken
  <2>3. Seen!Min({e \in HeadEnds : e > u}) = m
    <3> DEFINE T == {e \in HeadEnds : e > u}
    <3>1. T \subseteq Nat /\ m \in T /\ \A e \in T : m <= e
      BY <1>6, <1>7, <1>9
    <3>2. Min(T) = m
      <4> HIDE DEF T
      <4>1. Min(T) \in T /\ Min(T) <= m
        BY <3>1, MinIsLeast
      <4>2. Min(T) \in Nat /\ m <= Min(T)
        BY <3>1, <4>1
      <4> QED
        BY <4>1, <4>2
    <3> QED
      BY <3>2, SameHead, Zenon
  <2>4. Seen!UpTo(SeenLines(lines), 0) = u
    BY <1>6 DEF Taken
  <2>5. Seen!NextLine = <<u + 1, m>>
    BY <2>3, <2>4, Zenon DEF Seen!NextLine, SeenLines
  <2>6. SeenLines(lines') = Append(SeenLines(lines), Seen!NextLine)
    BY <1>12, <2>5
  <2>7. ~Seen!HeadTaken
    BY <2>2, Zenon DEF Seen!HeadTaken, SeenLines
  <2> QED
    BY <2>1, <2>6, <2>7, Zenon DEF Seen!TakeLine, SeenLines
<1>14. /\ sent' = sent /\ got' = got /\ pos' = m
       /\ sent \notin HeadEnds \ {HeadLength} /\ got \notin HeadEnds \ {HeadLength}
  BY <1>1, <1>7 DEF kernelVars, LineInv
<1>15. LineInv'
  <2>1. CASE /\ bytesRead' = GetBytesRead(input, pos')
             /\ input' = ReleaseEmpty(input, Min(found))
             /\ requestState' = "RequestHeaders"
    <3>1. bytesRead' = m
      BY <1>11, <1>14, <2>1
    <3>2. m < HeadLength => input' = input
      <4> SUFFICES ASSUME m < HeadLength
                   PROVE  input' = input
        OBVIOUS
      <4>1. m # got
        BY <1>7, <1>9, <1>14
      <4>2. m < End(input[1])
        BY <1>4, <1>7, <1>11, <4>1
      <4>3. Covers(input, pos, got) /\ pos <= m
        BY <1>4, <1>7 DEF InputInv
      <4>4. ReleaseEmpty(input, m) = input
        BY <1>4, <4>2, <4>3, ReleaseCovers
      <4> QED
        BY <1>7, <2>1, <4>4
    <3>3. ReadingHead'
      <4>1. /\ (requestState = "RequestLine" => Taken = 0)'
            /\ (requestState = "RequestHeaders" => bytesRead = Taken)'
        BY <1>12, <2>1, <3>1
      <4>2. Taken' \in Nat /\ Taken' <= pos'
        BY <1>12, <1>14
      <4>3. (\A e \in HeadEnds : e <= Taken \/ pos < e)'
        BY <1>9, <1>12, <1>14
      <4>4. /\ (Taken < HeadLength /\ input = <<>> => got = 0)'
            /\ (Taken < HeadLength /\ input # <<>> =>
                    input[1].first = 1 /\ input[1].absolute = 0)'
        BY <1>4, <1>10, <1>12, <3>2
      <4> QED
        BY <4>1, <4>2, <4>3, <4>4, Zenon DEF ReadingHead
    <3> QED
      BY <1>14, <2>1, <3>3 DEF LineInv
  <2>2. CASE line = EndOfHead /\ requestState' = "RequestProcess"
    BY <1>7, <1>12, <1>14, <2>2 DEF LineInv
  <2>3. CASE pc' = "answer" /\ UNCHANGED requestState
    BY <1>1, <1>14, <2>3 DEF LineInv, Open
  <2> QED
    BY <1>3, <2>1, <2>2, <2>3, Zenon
<1> QED
  BY <1>13, <1>15

(***************************************************************************)
(* Once the head is taken the lines stay as they are.                       *)
(***************************************************************************)
LEMMA LinesTaken ==
    ASSUME LineInv, requestState \notin {"RequestLine", "RequestHeaders"},
           requestState' \notin {"RequestLine", "RequestHeaders"},
           UNCHANGED <<sent, got, lines>>
    PROVE  LineInv'
<1>1. Taken' = Taken
  BY DEF Taken
<1> QED
  BY <1>1 DEF LineInv

(***************************************************************************)
(* A piece of the body goes on where the last one ended.                    *)
(***************************************************************************)
LEMMA PieceTaken ==
    ASSUME LineInv, InputInv, Unanswered, ReadingBody,
           NEW u, NEW b \in Nat, Joined(u, Seen!UpTo(body, HeadLength), b),
           body' = body \o u, UNCHANGED <<lines, wire>>
    PROVE  Seen!TakeBody
<1>1. /\ body \in Seq(Interval) /\ Seen!Contiguous(body, HeadLength) /\ HeadLength \in Nat
      /\ requestState = "RequestInput"
  BY BodyFinds
<1>2. /\ Seen!Contiguous(body \o u, HeadLength)
      /\ body # body \o u /\ Seen!IsPrefix(body, body \o u)
  BY <1>1, BodyGoesOn
<1>3. Seen!HeadTaken
  <2>1. Taken = HeadLength
    BY <1>1 DEF LineInv
  <2> QED
    BY <2>1, SameHead, Zenon DEF Taken, SeenLines, Seen!HeadTaken
<1>4. wire = <<>>
  BY DEF Unanswered
<1>5. Seen!Contiguous(body \o u, Seen!Max(HeadEnds))
  BY <1>2, SameHead, Zenon
<1> QED
  BY <1>2, <1>3, <1>4, <1>5, Zenon DEF Seen!TakeBody

(***************************************************************************)
(* What the filter is given is the body's next part.                        *)
(***************************************************************************)
LEMMA BodyTaken ==
    ASSUME LineInv, InputInv, AnswerInv, ProcessInput \/ FinishInput \/ RefuseInput
    PROVE  LineInv' /\ Seen!TakeBody
<1>1. /\ ReadingBody /\ UNCHANGED <<sent, got, lines, wire>>
      /\ UNCHANGED requestState \/ requestState' = "ReqeustInvalid"
  BY Zenon DEF ProcessInput, FinishInput, RefuseInput, kernelVars
<1>2. /\ requestState = "RequestInput" /\ Open /\ pos \in Nat
      /\ Seen!UpTo(body, HeadLength) = pos
  BY <1>1, BodyFinds
<1>3. Unanswered
  BY <1>2, Zenon DEF AnswerInv
<1>4. LineInv'
  BY <1>1, <1>2, LinesTaken
<1>5. PICK last \in Nat : last <= pos + contentLength /\ Joined(Pieces, pos, last)
  BY <1>1, PiecesJoined
<1>6. \E u : \E b \in Nat : Joined(u, pos, b) /\ body' = body \o u
  <2>1. CASE ProcessInput \/ FinishInput
    <3>1. body' = body \o Pieces
      BY <2>1, Zenon DEF ProcessInput, FinishInput
    <3> QED
      BY <1>5, <3>1, Zenon
  <2>2. CASE RefuseInput
    <3>1. PICK k \in DOMAIN Pieces : body' = body \o SubSeq(Pieces, 1, k)
      BY <2>2, Zenon DEF RefuseInput
    <3>2. PICK u : u = Pieces
      OBVIOUS
    <3>3. k \in DOMAIN u /\ Joined(u, pos, last)
      BY <1>5, <3>2
    <3>4. Joined(SubSeq(u, 1, k), pos, u[k][2]) /\ u[k][2] \in Nat
      BY <1>2, <3>3, JoinedPrefix
    <3> QED
      BY <3>1, <3>2, <3>4, Zenon
  <2> QED
    BY <2>1, <2>2
<1>7. Seen!TakeBody
  BY <1>1, <1>2, <1>3, <1>6, PieceTaken, Zenon
<1> QED
  BY <1>4, <1>7

(***************************************************************************)
(* What goes to the kernel is the next part of the answer.                  *)
(***************************************************************************)
LEMMA AnswerGoesOn ==
    ASSUME AnswerInv, AnswerInv', WritePiece \/ WriteResponse \/ PerformWrite
    PROVE  Seen!Answer \/ UNCHANGED Seen!vars
<1>1. UNCHANGED <<lines, body>>
  BY Zenon DEF WritePiece, WriteResponse, PerformWrite
<1>2. wire \in Seq(Nat) /\ output.data \in Seq(Nat) /\ response.data \in Seq(Nat)
  BY ChainParts, Zenon DEF AnswerInv
<1>3. wire' = wire \/ \E q \in Seq(Nat) : q # <<>> /\ wire' = wire \o q
  <2>1. CASE WritePiece
    <3>1. wire' = wire \/ wire' = Append(wire, left)
      BY <2>1, Zenon DEF WritePiece
    <3>2. left \in Nat
      BY DEF AnswerInv
    <3>3. Append(wire, left) = wire \o <<left>> /\ <<left>> \in Seq(Nat) /\ <<left>> # <<>>
      BY <1>2, <3>2
    <3> QED
      BY <3>1, <3>3, Zenon
  <2>2. ASSUME NEW s \in Seq(Nat), NEW n \in 0 .. Len(s), wire' = wire \o SubSeq(s, 1, n)
        PROVE  wire' = wire \/ \E q \in Seq(Nat) : q # <<>> /\ wire' = wire \o q
    <3>1. SubSeq(s, 1, n) \in Seq(Nat)
      BY SubSeqProperties
    <3>2. CASE SubSeq(s, 1, n) = <<>>
      BY <1>2, <2>2, <3>2, ConcatEmptySeq
    <3>3. CASE SubSeq(s, 1, n) # <<>>
      BY <2>2, <3>1, <3>3, Zenon
    <3> QED
      BY <3>2, <3>3
  <2>3. CASE WriteResponse
    <3>1. wire' = wire \/ \E n \in 0 .. Len(response.data) :
                             wire' = wire \o SubSeq(response.data, 1, n)
      BY <2>3, Zenon DEF WriteResponse
    <3> QED
      BY <1>2, <2>2, <3>1, Zenon
  <2>4. CASE PerformWrite
    <3>1. wire' = wire \/ \E n \in 0 .. Len(output.data) :
                             wire' = wire \o SubSeq(output.data, 1, n)
      BY <2>4, Zenon DEF PerformWrite
    <3> QED
      BY <1>2, <2>2, <3>1, Zenon
  <2> QED
    BY <2>1, <2>3, <2>4
<1>4. CASE wire' = wire
  BY <1>1, <1>4, Zenon DEF Seen!vars
<1>5. CASE \E q \in Seq(Nat) : q # <<>> /\ wire' = wire \o q
  <2>1. PICK q \in Seq(Nat) : q # <<>> /\ wire' = wire \o q
    BY <1>5
  <2>2. Len(wire') > Len(wire)
    <3>1. Len(wire \o q) = Len(wire) + Len(q) /\ Len(q) \in Nat /\ Len(q) # 0 /\ Len(wire) \in Nat
      BY <1>2, <2>1, ConcatProperties, LenProperties, EmptySeq
    <3> QED
      BY <2>1, <3>1
  <2>3. wire' = [i \in 1 .. Len(wire') |-> i]
    <3>1. wire' \in Seq(Nat) /\ Numbered(wire', 0)
      BY Zenon DEF AnswerInv
    <3>2. wire' \in [1 .. Len(wire') -> Nat] /\ \A i \in 1 .. Len(wire') : wire'[i] = 0 + i
      BY <3>1, LenProperties DEF Numbered
    <3>3. \A i \in 1 .. Len(wire') : wire'[i] = i
      BY <3>2
    <3> QED
      BY <3>2, <3>3
  <2> QED
    BY <1>1, <2>2, <2>3, Zenon DEF Seen!Answer
<1> QED
  BY <1>3, <1>4, <1>5

(***************************************************************************)
(* Every step keeps LineInv, and is a step of the exchange or none.         *)
(***************************************************************************)
LEMMA ExchangeStep ==
    ASSUME ~CutAtLineEnd, HeadLength <= Capacity,
           LineInv, ClientInv, ClientInv', [Next]_vars
    PROVE  LineInv' /\ [Seen!Next]_(Seen!vars)
<1>1. InputInv /\ AnswerInv /\ AnswerInv'
  BY Zenon DEF ClientInv
<1>2. CASE \/ Peer \/ Wake \/ WakeError \/ FilterDone \/ LineTooLong \/ InputRefused
           \/ SubmitResponse \/ EndEvent \/ UNCHANGED vars
  <2>1. LineInv'
    BY <1>2, LineKeptActions, Zenon
  <2>2. UNCHANGED seenVars
    BY <1>2, Zenon DEF Peer, Send, Drain, Leave, Wake, WakeError, FilterDone, LineTooLong,
                       InputRefused, SubmitResponse, EndEvent, vars
  <2>3. UNCHANGED Seen!vars
    BY <2>2 DEF seenVars, Seen!vars
  <2> QED
    BY <2>1, <2>3
<1>3. CASE WritePiece \/ WriteResponse \/ PerformWrite
  <2>1. LineInv'
    BY <1>3, LineKeptActions, Zenon
  <2>2. Seen!Answer \/ UNCHANGED Seen!vars
    BY <1>1, <1>3, AnswerGoesOn
  <2> QED
    BY <2>1, <2>2, Zenon DEF Seen!Next
<1>4. CASE PerformRead
  <2>1. UNCHANGED seenVars
    BY <1>4, Zenon DEF PerformRead
  <2>2. UNCHANGED Seen!vars
    BY <2>1 DEF seenVars, Seen!vars
  <2> QED
    BY <1>1, <1>4, <2>2, LineRead
<1>5. CASE LineNotFound
  <2>1. UNCHANGED seenVars
    BY <1>5, Zenon DEF LineNotFound
  <2>2. UNCHANGED Seen!vars
    BY <2>1 DEF seenVars, Seen!vars
  <2> QED
    BY <1>1, <1>5, <2>2, LineNotTaken
<1>6. CASE ParseLine
  <2>1. pc = "filter" /\ ~IsEmpty(input, pos)
    BY <1>6, Zenon DEF ParseLine, Reading
  <2>2. Unanswered
    BY <1>1, <2>1, FilterFinds, Zenon DEF AnswerInv
  <2>3. LineInv' /\ Seen!TakeLine
    BY <1>1, <1>6, <2>2, LineParsed
  <2> QED
    BY <2>3, Zenon DEF Seen!Next
<1>7. CASE ProcessRequest
  <2>1. /\ pc = "process" /\ requestState' \in {"RequestInput", "RequestProcess"}
        /\ UNCHANGED kernelVars /\ UNCHANGED seenVars
    BY <1>7 DEF ProcessRequest
  <2>2. requestState = "RequestProcess"
    BY <1>1, <2>1 DEF InputInv
  <2>3. UNCHANGED <<sent, got, lines>> /\ UNCHANGED Seen!vars
    BY <2>1 DEF kernelVars, seenVars, Seen!vars
  <2>4. LineInv'
    BY <2>1, <2>2, <2>3, LinesTaken
  <2> QED
    BY <2>3, <2>4
<1>8. CASE ProcessInput \/ FinishInput \/ RefuseInput
  <2>1. LineInv' /\ Seen!TakeBody
    BY <1>1, <1>8, BodyTaken
  <2> QED
    BY <2>1, Zenon DEF Seen!Next
<1> QED
  BY <1>2, <1>3, <1>4, <1>5, <1>6, <1>7, <1>8, Zenon DEF Next, Worker

(***************************************************************************)
(* A connection that was just accepted has had nothing of an exchange.      *)
(***************************************************************************)
LEMMA ExchangeInit == Init => LineInv /\ Seen!Init
<1> SUFFICES ASSUME Init
             PROVE  LineInv /\ Seen!Init
  OBVIOUS
<1>1. /\ sent = 0 /\ got = 0 /\ input = <<>> /\ pos = 0 /\ requestState = "RequestLine"
      /\ lines = <<>> /\ body = <<>> /\ wire = <<>>
  BY Zenon DEF Init
<1>2. SeenLines(lines) = <<>>
  BY <1>1 DEF SeenLines
<1>3. Taken = 0
  BY <1>2 DEF Taken, Seen!UpTo
<1>4. \A e \in HeadEnds : e \in Nat \ {0}
  BY HeadEnd
<1>5. ReadingHead
  BY <1>1, <1>3, <1>4 DEF ReadingHead
<1>6. LineInv
  BY <1>1, <1>4, <1>5 DEF LineInv
<1>7. Seen!Init
  BY <1>1, <1>2 DEF Seen!Init, SeenLines
<1> QED
  BY <1>6, <1>7

(***************************************************************************)
(* With a head that fits the first buffer and does not pause between two    *)
(* of its lines the connection is one exchange: the handler gets the lines  *)
(* of the head one by one, whole or cut at the limit, then the body without *)
(* a gap from buffer to buffer, and nothing of the request after the answer *)
(* began (runInputFilter, processInput, performRead, Client::write).        *)
(***************************************************************************)
THEOREM ExchangeIsImplemented ==
    ASSUME ~CutAtLineEnd, HeadLength <= Capacity
    PROVE  Spec => ImplementsExchange
<1>1. Init => LineInv /\ Seen!Init
  BY ExchangeInit
<1>2. LineInv /\ ClientInv /\ ClientInv' /\ [Next]_vars => LineInv' /\ [Seen!Next]_(Seen!vars)
  BY ExchangeStep
<1> QED
  BY <1>1, <1>2, ClientInductive, PTL DEF Spec, ImplementsExchange, Seen!Spec
=============================================================================
