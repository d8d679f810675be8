-------------------------- MODULE InputFilterProofs --------------------------
(***************************************************************************)
(* What holds of the input filter for every form, body, limit and piece:   *)
(* its types, with the places the parser reads at; that the content of a   *)
(* part is a run of the body; and that a body that no parser of forms      *)
(* reads reaches the handler as it was sent.                               *)
(***************************************************************************)
EXTENDS InputFilter, SequenceLemmas

(***************************************************************************)
(* A part of a sequence.                                                   *)
(***************************************************************************)
LEMMA SubSeqType ==
    ASSUME NEW S, NEW q \in Seq(S), NEW m \in Nat \ {0}, NEW n \in 0 .. Len(q)
    PROVE  /\ SubSeq(q, m, n) \in Seq(S)
           /\ Len(SubSeq(q, m, n)) = IF m <= n THEN n - m + 1 ELSE 0
           /\ \A i \in 1 .. n - m + 1 : SubSeq(q, m, n)[i] = q[m + i - 1]
<1>1. Len(q) \in Nat /\ m \in Int /\ n \in Int
  BY LenProperties
<1>2. \A i \in m .. n : q[i] \in S
  BY <1>1, ElementOfSeq
<1> QED
  BY <1>1, <1>2, SubSeqProperties

(***************************************************************************)
(* The elements after a up to b.                                           *)
(***************************************************************************)
LEMMA RunType ==
    ASSUME NEW S, NEW q \in Seq(S), NEW a \in Nat, NEW b \in Nat,
           a <= b, b <= Len(q), NEW p, p = SubSeq(q, a + 1, b)
    PROVE  /\ p \in Seq(S) /\ Len(p) = b - a
           /\ \A i \in 1 .. b - a : p[i] = q[a + i]
<1>1. a + 1 \in Nat \ {0} /\ b \in 0 .. Len(q)
  BY LenProperties
<1>2. /\ p \in Seq(S)
      /\ Len(p) = IF a + 1 <= b THEN b - (a + 1) + 1 ELSE 0
      /\ \A i \in 1 .. b - (a + 1) + 1 : p[i] = q[a + 1 + i - 1]
  BY <1>1, SubSeqType
<1>3. ASSUME NEW i \in 1 .. b - a
      PROVE  p[i] = q[a + i]
  <2>1. i \in 1 .. b - (a + 1) + 1 /\ a + 1 + i - 1 = a + i
    OBVIOUS
  <2>2. p[i] = q[a + 1 + i - 1]
    BY <1>2, <2>1
  <2> QED
    BY <2>1, <2>2
<1>4. Len(p) = b - a
  BY <1>2
<1> QED
  BY <1>2, <1>3, <1>4

(***************************************************************************)
(* Max is the greatest element of a bounded set.                           *)
(***************************************************************************)
LEMMA MaxIsGreatest ==
    ASSUME NEW n \in Nat, NEW T, T \subseteq 0 .. n, T # {}
    PROVE  Max(T) \in T /\ \A y \in T : y <= Max(T)
<1>1. IsFiniteSet(T) /\ T \subseteq Nat
  <2>1. IsFiniteSet(0 .. n)
    BY FS_Interval
  <2>2. IsFiniteSet(T)
    BY <2>1, FS_Subset
  <2> QED
    BY <2>2
<1>2. \E x \in T : \A y \in T : x >= y
  BY <1>1, Greatest
<1>3. Max(T) \in T /\ \A y \in T : Max(T) >= y
  BY <1>2 DEF Max
<1> QED
  BY <1>1, <1>3

-----------------------------------------------------------------------------
(***************************************************************************)
(* The functions of the parser.                                            *)
(***************************************************************************)

\* The places of the parser in the body.
InBody == stream \in Texts /\ upto \in 0 .. Len(stream) /\ at \in 0 .. upto

(***************************************************************************)
(* What is left of the piece.                                              *)
(***************************************************************************)
LEMMA RestType ==
    ASSUME InBody
    PROVE  /\ Rest \in Texts /\ Len(Rest) = upto - at
           /\ \A i \in 1 .. upto - at : Rest[i] = stream[at + i]
<1>1. Len(stream) \in Nat /\ at \in Nat /\ upto \in Nat /\ stream \in Seq(Units)
  BY LenProperties DEF InBody, Texts
<1>2. at <= upto /\ upto <= Len(stream)
  BY <1>1 DEF InBody
<1> QED
  BY <1>1, <1>2, RunType DEF Rest, Texts

(***************************************************************************)
(* readUntil stays in the piece and stops before the first of the units.   *)
(***************************************************************************)
LEMMA UntilType ==
    ASSUME InBody, NEW units, NEW n, n = Len(Until(units))
    PROVE  /\ Until(units) \in Texts /\ n \in Nat /\ at + n <= upto
           /\ Until(units) = SubSeq(stream, at + 1, at + n)
           /\ at + n < upto => stream[at + n + 1] \in units
<1> DEFINE hits == {i \in at + 1 .. upto : stream[i] \in units}
           last == IF hits = {} THEN upto ELSE Min(hits) - 1
<1>1. Len(stream) \in Nat /\ at \in Nat /\ upto \in Nat /\ stream \in Seq(Units)
      /\ at <= upto /\ upto <= Len(stream)
  BY LenProperties DEF InBody, Texts
<1>2. hits # {} => Min(hits) \in hits
  <2>1. hits \subseteq Nat
    BY <1>1
  <2> QED
    BY <2>1, MinIsLeast
<1>3. last \in at .. upto /\ (last < upto => stream[last + 1] \in units)
  BY <1>1, <1>2
<1>4. Until(units) = SubSeq(stream, at + 1, last)
  BY DEF Until
<1> HIDE DEF last
<1>5. at + 1 \in Nat \ {0} /\ last \in 0 .. Len(stream)
  BY <1>1, <1>3
<1>6. /\ Until(units) \in Seq(Units)
      /\ n = IF at + 1 <= last THEN last - (at + 1) + 1 ELSE 0
  BY <1>1, <1>4, <1>5, SubSeqType
<1>7. at + n = last
  BY <1>1, <1>3, <1>6
<1> QED
  BY <1>1, <1>3, <1>4, <1>6, <1>7 DEF Texts

(***************************************************************************)
(* The longest common prefix is one.                                       *)
(***************************************************************************)
LEMMA LongestType ==
    ASSUME NEW S, NEW s \in Seq(S), NEW t \in Seq(S),
           NEW c, c = LongestCommonPrefix({s, t})
    PROVE  /\ Len(c) \in Nat /\ Len(c) <= Len(s) /\ Len(c) <= Len(t)
           /\ SubSeq(s, 1, Len(c)) = SubSeq(t, 1, Len(c))
<1> DEFINE C == CommonPrefixes({s, t})
           lengths == {Len(p) : p \in C}
<1>1. Len(s) \in Nat /\ Len(t) \in Nat
  BY LenProperties
<1>2. ASSUME NEW p \in C
      PROVE  /\ Len(p) \in Nat /\ Len(p) <= Len(s) /\ Len(p) <= Len(t)
             /\ SubSeq(s, 1, Len(p)) = SubSeq(t, 1, Len(p))
  <2>1. p \in Prefixes(s) \cup Prefixes(t) /\ IsPrefix(p, s) /\ IsPrefix(p, t)
    BY DEF CommonPrefixes
  <2>2. PICK q \in Seq(S) : \E l \in 0 .. Len(q) : p = SubSeq(q, 1, l)
    BY <2>1 DEF Prefixes
  <2>3. p \in Seq(S)
    BY <2>2, SubSeqType
  <2>4. Len(p) \in Nat
    BY <2>3, LenProperties
  <2> QED
    BY <2>1, <2>4 DEF IsPrefix
<1>3. <<>> \in C
  <2>1. SubSeq(s, 1, 0) = <<>> /\ SubSeq(t, 1, 0) = <<>> /\ SubSeq(<<>>, 1, 0) = <<>>
    BY SubSeqEmpty
  <2>2. <<>> \in Prefixes(s) /\ Len(<<>>) = 0
    BY <1>1, <2>1, EmptySeq DEF Prefixes
  <2>3. IsPrefix(<<>>, s) /\ IsPrefix(<<>>, t)
    BY <1>1, <2>1, <2>2 DEF IsPrefix
  <2> QED
    BY <2>2, <2>3 DEF CommonPrefixes
<1>4. \E p \in C : \A q \in C : Len(q) <= Len(p)
  <2> HIDE DEF C
  <2>1. lengths \subseteq 0 .. Len(s) /\ lengths # {}
    <3>1. \A p \in C : Len(p) \in 0 .. Len(s)
      BY <1>1, <1>2
    <3> QED
      BY <1>3, <3>1
  <2> HIDE DEF lengths
  <2>2. Max(lengths) \in lengths /\ \A y \in lengths : y <= Max(lengths)
    BY <1>1, <2>1, MaxIsGreatest
  <2>3. PICK p \in C : Len(p) = Max(lengths)
    BY <2>2 DEF lengths
  <2>4. \A q \in C : Len(q) \in lengths
    BY DEF lengths
  <2> QED
    BY <2>2, <2>3, <2>4
<1>5. c \in C
  BY <1>4, Zenon DEF LongestCommonPrefix
<1> QED
  BY <1>2, <1>5

(***************************************************************************)
(* The delimiter.                                                          *)
(***************************************************************************)
LEMMA BoundaryType == Boundary \in Seq(Units) /\ Len(Boundary) = 5 /\ Boundary[1] = "cr"
<1>1. "cr" \in Units /\ "lf" \in Units /\ "-" \in Units /\ "B" \in Units
  BY UnitsAssumption
<1>2. PICK b : b = <<"cr", "lf", "-", "-", "B">>
  OBVIOUS
<1>3. b \in Seq(Units) /\ Len(b) = 5 /\ b[1] = "cr"
  BY <1>1, <1>2
<1> QED
  BY <1>2, <1>3 DEF Boundary

(***************************************************************************)
(* A part of it.                                                           *)
(***************************************************************************)
LEMMA BoundaryRun ==
    ASSUME NEW a \in Nat, NEW b \in Nat, a <= b, b <= 5,
           NEW p, p = SubSeq(Boundary, a + 1, b)
    PROVE  /\ p \in Seq(Units) /\ Len(p) = b - a
           /\ \A i \in 1 .. b - a : p[i] = Boundary[a + i]
<1>1. Boundary \in Seq(Units) /\ b <= Len(Boundary)
  BY BoundaryType
<1> QED
  BY <1>1, RunType

(***************************************************************************)
(* The first n units of t are those of the delimiter after m.              *)
(***************************************************************************)
LEMMA SameRun ==
    ASSUME NEW m \in Nat, NEW t \in Seq(Units), NEW n \in Nat, n <= Len(t), m + n <= 5,
           \A i \in 1 .. n : t[i] = Boundary[m + i]
    PROVE  SubSeq(t, 1, n) = SubSeq(Boundary, m + 1, m + n)
<1> SUFFICES ASSUME NEW p, p = SubSeq(t, 1, n), NEW q, q = SubSeq(Boundary, m + 1, m + n)
             PROVE  p = q
  OBVIOUS
<1>1. p \in Seq(Units) /\ Len(p) = n /\ \A i \in 1 .. n : p[i] = t[i]
  <2>1. p = SubSeq(t, 0 + 1, n) /\ 0 \in Nat /\ 0 <= n /\ n - 0 = n
    OBVIOUS
  <2>2. /\ p \in Seq(Units) /\ Len(p) = n - 0
        /\ \A i \in 1 .. n - 0 : p[i] = t[0 + i]
    BY <2>1, RunType
  <2>3. \A i \in 1 .. n : 0 + i = i
    OBVIOUS
  <2> QED
    BY <2>1, <2>2, <2>3
<1>2. q \in Seq(Units) /\ Len(q) = n /\ \A i \in 1 .. n : q[i] = Boundary[m + i]
  <2>1. m + n \in Nat /\ m <= m + n /\ (m + n) - m = n
    OBVIOUS
  <2>2. /\ q \in Seq(Units) /\ Len(q) = (m + n) - m
        /\ \A i \in 1 .. (m + n) - m : q[i] = Boundary[m + i]
    BY <2>1, BoundaryRun
  <2> QED
    BY <2>1, <2>2
<1> QED
  BY <1>1, <1>2, SeqEqual

(***************************************************************************)
(* What goes on with the delimiter is as much of it.                       *)
(***************************************************************************)
LEMMA AgreeingType ==
    ASSUME NEW s \in Texts, NEW m \in Nat, m <= 5, NEW n, n = Agreeing(s, m)
    PROVE  /\ n \in Nat /\ n <= Len(s) /\ m + n <= 5
           /\ SubSeq(s, 1, n) = SubSeq(Boundary, m + 1, m + n)
<1>1. PICK f : f = Len(Boundary)
  OBVIOUS
<1>2. f \in Nat /\ m <= f /\ f <= 5 /\ f = 5
  BY <1>1, BoundaryType
<1>3. PICK t : t = SubSeq(Boundary, m + 1, f)
  OBVIOUS
<1>4. PICK c : c = LongestCommonPrefix({s, t})
  OBVIOUS
<1>5. n = Len(c) /\ s \in Seq(Units)
  BY <1>1, <1>3, <1>4 DEF Agreeing, Texts
<1>6. /\ t \in Seq(Units) /\ Len(t) = f - m
      /\ \A i \in 1 .. f - m : t[i] = Boundary[m + i]
  BY <1>2, <1>3, BoundaryRun
<1>7. /\ n \in Nat /\ n <= Len(s) /\ n <= Len(t)
      /\ SubSeq(s, 1, n) = SubSeq(t, 1, n)
  BY <1>4, <1>5, <1>6, LongestType
<1>8. m + n <= 5 /\ \A i \in 1 .. n : t[i] = Boundary[m + i]
  BY <1>2, <1>6, <1>7
<1>9. SubSeq(t, 1, n) = SubSeq(Boundary, m + 1, m + n)
  BY <1>6, <1>7, <1>8, SameRun
<1> QED
  BY <1>7, <1>8, <1>9

(***************************************************************************)
(* A text goes on with another one.                                        *)
(***************************************************************************)
LEMMA TextConcat ==
    ASSUME NEW s \in Texts, NEW t \in Texts
    PROVE  s \o t \in Texts
BY ConcatProperties DEF Texts

(***************************************************************************)
(* The empty text.                                                         *)
(***************************************************************************)
LEMMA TextEmpty == <<>> \in Texts
BY EmptySeq DEF Texts

(***************************************************************************)
(* A trimmed text is a part of it.                                         *)
(***************************************************************************)
LEMMA TrimType ==
    ASSUME NEW s \in Texts
    PROVE  Trim(s) \in Texts
<1> DEFINE words == {i \in DOMAIN s : s[i] \notin Space}
<1>1. s \in Seq(Units) /\ Len(s) \in Nat /\ words \subseteq 1 .. Len(s)
  BY LenProperties DEF Texts
<1>2. CASE words = {}
  BY <1>2, TextEmpty DEF Trim
<1>3. CASE words # {}
  <2>1. Trim(s) = SubSeq(s, Min(words), Max(words))
    BY <1>3 DEF Trim
  <2> HIDE DEF words
  <2>2. Min(words) \in 1 .. Len(s) /\ Max(words) \in 1 .. Len(s)
    <3>1. words \subseteq Nat /\ words \subseteq 0 .. Len(s)
      BY <1>1
    <3>2. Min(words) \in words /\ Max(words) \in words
      BY <1>1, <1>3, <3>1, MinIsLeast, MaxIsGreatest
    <3> QED
      BY <1>1, <3>2
  <2>3. SubSeq(s, Min(words), Max(words)) \in Seq(Units)
    <3>1. Min(words) \in Nat \ {0} /\ Max(words) \in 0 .. Len(s)
      BY <1>1, <2>2
    <3> QED
      BY <1>1, <3>1, SubSeqType
  <2> QED
    BY <2>1, <2>3 DEF Texts
<1> QED
  BY <1>2, <1>3

(***************************************************************************)
(* A digit is a number.                                                    *)
(***************************************************************************)
LEMMA NumberType ==
    ASSUME NEW d \in DOMAIN Number
    PROVE  Number[d] \in 0 .. 9
<1>1. PICK n \in 0 .. 9 : ToString(n) = d
  BY DEF Number
<1>2. Number[d] = CHOOSE m \in 0 .. 9 : ToString(m) = d
  BY DEF Number
<1> QED
  BY <1>1, <1>2

(***************************************************************************)
(* The places where readUntil stops before the end of the piece.           *)
(***************************************************************************)
LEMMA StopType ==
    ASSUME InBody, NEW units, NEW n, n = Len(Until(units)), Stop(units) # "end"
    PROVE  /\ n \in Nat /\ at + n + 1 \in at .. upto
           /\ stream[at + n + 1] = Stop(units)
<1>1. n \in Nat /\ at + n <= upto
  BY UntilType
<1>2. at + n # upto /\ stream[at + n + 1] = Stop(units)
  BY DEF Stop
<1>3. at \in Nat /\ upto \in Nat
  BY LenProperties DEF InBody, Texts
<1> QED
  BY <1>1, <1>2, <1>3

-----------------------------------------------------------------------------
(***************************************************************************)
(* The steps of the parser inside a header.                                *)
(***************************************************************************)

\* None of them leaves the header, changes a result or goes past the piece.
HeaderStep ==
    /\ state = "HeaderLine"
    /\ UNCHANGED <<inputVars, state, data, match, resultVars>>
    /\ at' \in at .. upto
    /\ header' \in Headers /\ literal' \in {"None", "Plain", "Quoted"}
    /\ buf' \in Texts /\ name' \in Texts /\ file' \in Texts /\ type' \in Texts
    /\ size' \in 0 .. 9

(***************************************************************************)
(* What the type invariant says of the parser.                             *)
(***************************************************************************)
LEMMA Typed ==
    ASSUME TypeOK
    PROVE  /\ InBody /\ at \in Nat /\ upto \in Nat /\ Len(stream) \in Nat
           /\ stream \in Seq(Units) /\ at <= upto /\ upto <= Len(stream)
           /\ header \in Headers /\ literal \in {"None", "Plain", "Quoted"}
           /\ buf \in Texts /\ name \in Texts /\ file \in Texts /\ type \in Texts
           /\ streamBuf \in Texts /\ body \in Texts
           /\ size \in 0 .. 9 /\ match \in Nat /\ match <= 5
           /\ Rest \in Texts
<1>1. InBody /\ stream \in Seq(Units) /\ match \in 0 .. 5
  BY BoundaryType DEF TypeOK, InBody, Texts
<1>2. Len(stream) \in Nat
  BY <1>1, LenProperties
<1>3. at \in Nat /\ upto \in Nat /\ at <= upto /\ upto <= Len(stream)
  BY <1>1, <1>2 DEF InBody
<1>4. Rest \in Texts
  BY <1>1, RestType
<1> QED
  BY <1>1, <1>2, <1>3, <1>4 DEF TypeOK

(***************************************************************************)
(* A literal, kept or dropped.                                             *)
(***************************************************************************)
LEMMA FlushType ==
    ASSUME TypeOK, NEW quoted, NEW words \in Texts, Flush(quoted, words)
    PROVE  /\ name' \in Texts /\ file' \in Texts /\ type' \in Texts
           /\ size' \in 0 .. 9
<1>1. buf \o words \in Texts /\ Trim(buf \o words) \in Texts
  BY Typed, TextConcat, TrimType
<1>2. CASE UNCHANGED headVars
  BY <1>2, Typed DEF headVars
<1>3. CASE FlushLiteral(buf \o words, quoted)
  <2>1. /\ name' \in {name, buf \o words, Trim(buf \o words)}
        /\ file' \in {file, buf \o words, Trim(buf \o words)}
        /\ type' \in {type, buf \o words, Trim(buf \o words)}
    BY <1>3 DEF FlushLiteral
  <2>2. size' = size \/ size' = 0 \/ \E d \in DOMAIN Number : size' = Number[d]
    BY <1>3 DEF FlushLiteral
  <2>3. size' \in 0 .. 9
    BY <2>2, Typed, NumberType
  <2> QED
    BY <1>1, <2>1, <2>3, Typed
<1> QED
  BY <1>2, <1>3 DEF Flush

(***************************************************************************)
(* A literal that goes on in the next piece.                               *)
(***************************************************************************)
LEMMA KeepLiteralType ==
    ASSUME TypeOK, NEW h \in Headers, KeepLiteral(h)
    PROVE  at' \in at .. upto /\ header' \in Headers /\ buf' \in Texts
<1>1. buf \o Rest \in Texts /\ upto \in at .. upto
  BY Typed, TextConcat
<1> QED
  BY <1>1, Typed DEF KeepLiteral, Keep

(***************************************************************************)
(* The end of a name, a parameter or a line.                               *)
(***************************************************************************)
LEMMA HeaderIsType ==
    ASSUME TypeOK, NEW units, Stop(units) # "end",
           NEW h \in Headers, HeaderIs(h, Len(Until(units)))
    PROVE  at' \in at .. upto /\ header' \in Headers /\ buf' \in Texts
<1>1. at + Len(Until(units)) + 1 \in at .. upto
  BY Typed, StopType
<1> QED
  BY <1>1, TextEmpty DEF HeaderIs

(***************************************************************************)
(* Every read function of the header is a HeaderStep.                      *)
(***************************************************************************)
LEMMA HeaderSteps ==
    ASSUME TypeOK,
           \/ ReadHeaderName \/ ReadDisposition \/ ReadParam \/ ReadOn \/ ReadHeaderValue
           \/ ReadLiteralBegin \/ ReadPlainLiteral \/ ReadQuotedLiteral \/ ReadDummy
    PROVE  HeaderStep
<1> USE DEF HeaderStep, InHeader, InParam, Running
<1>0. /\ header \in Headers /\ literal \in {"None", "Plain", "Quoted"}
      /\ buf \in Texts /\ name \in Texts /\ file \in Texts /\ type \in Texts
      /\ size \in 0 .. 9 /\ at \in Nat /\ upto \in Nat /\ at <= upto /\ Rest \in Texts
      /\ at \in at .. upto /\ upto \in at .. upto /\ InBody
      /\ buf \o Rest \in Texts /\ <<>> \in Texts
  BY Typed, TextConcat, TextEmpty
<1>1. CASE ReadHeaderName
  <2>1. \A text : HeaderOf(text) \in Headers
    BY DEF HeaderOf, Headers
  <2>2. PICK h \in Headers : HeaderIs(h, Len(Until({"lf", ":"})))
    BY <1>1, <2>1 DEF ReadHeaderName
  <2>3. at' \in at .. upto /\ header' \in Headers /\ buf' \in Texts
    BY <1>1, <2>2, HeaderIsType DEF ReadHeaderName
  <2> QED
    BY <1>0, <1>1, <2>3 DEF ReadHeaderName, headVars
<1>2. CASE ReadDisposition
  <2>2. PICK h \in Headers : HeaderIs(h, Len(Until({"lf", ";"})))
    BY <1>2 DEF ReadDisposition, Headers
  <2>3. at' \in at .. upto /\ header' \in Headers /\ buf' \in Texts
    BY <1>2, <2>2, HeaderIsType DEF ReadDisposition
  <2> QED
    BY <1>0, <1>2, <2>3 DEF ReadDisposition, headVars
<1>3. CASE ReadParam
  <2>1. \A text : ParamOf(text) \in Headers
    BY DEF ParamOf, Headers
  <2>2. PICK h \in Headers : HeaderIs(h, Len(Until({"lf", "="})))
    BY <1>3, <2>1 DEF ReadParam, Headers
  <2>3. at' \in at .. upto /\ header' \in Headers /\ buf' \in Texts
    BY <1>3, <2>2, HeaderIsType DEF ReadParam
  <2> QED
    BY <1>0, <1>3, <2>3 DEF ReadParam, headVars
<1>4. CASE ReadOn
  <2>1. buf \o SubSeq(Rest, Skipped + 1, Len(Rest)) \in Texts
    <3>1. Skipped \in Nat
      <4> DEFINE skips == {k \in 0 .. upto - at : \A i \in at + 1 .. at + k :
                                                     stream[i] \in {";", " "}}
      <4>1. skips \subseteq 0 .. upto - at /\ upto - at \in Nat /\ 0 \in skips
        <5>1. upto - at \in Nat /\ 0 \in 0 .. upto - at /\ at + 1 .. at + 0 = {}
          BY <1>0
        <5> QED
          BY <5>1
      <4>2. Skipped = IF buf # <<>> THEN 0 ELSE Max(skips)
        BY DEF Skipped
      <4> HIDE DEF skips
      <4>3. Max(skips) \in skips
        BY <4>1, MaxIsGreatest
      <4> QED
        BY <4>1, <4>2, <4>3
    <3>2. Rest \in Seq(Units) /\ Len(Rest) \in 0 .. Len(Rest) /\ Skipped + 1 \in Nat \ {0}
      BY <1>0, <3>1, LenProperties DEF Texts
    <3>3. SubSeq(Rest, Skipped + 1, Len(Rest)) \in Texts
      BY <3>2, SubSeqType DEF Texts
    <3> QED
      BY <1>0, <3>3, TextConcat
  <2> QED
    BY <1>0, <1>4, <2>1 DEF ReadOn, Keep, headVars
<1>5. CASE ReadHeaderValue
  <2>1. CASE Stop({"lf"}) = "end"
    <3>1. KeepLiteral("Unknown") /\ "Unknown" \in Headers
      BY <1>5, <2>1 DEF ReadHeaderValue, Headers
    <3>2. at' \in at .. upto /\ header' \in Headers /\ buf' \in Texts
      BY <3>1, KeepLiteralType
    <3> QED
      BY <1>0, <1>5, <2>1, <3>2 DEF ReadHeaderValue, headVars
  <2>2. CASE Stop({"lf"}) # "end"
    <3>1. /\ Flush(FALSE, Until({"lf"})) /\ HeaderIs("Begin", Len(Until({"lf"})))
          /\ "Begin" \in Headers /\ literal' = "None"
      BY <1>5, <2>2 DEF ReadHeaderValue, Headers
    <3>2. at' \in at .. upto /\ header' \in Headers /\ buf' \in Texts
      BY <2>2, <3>1, HeaderIsType
    <3>3. /\ name' \in Texts /\ file' \in Texts /\ type' \in Texts
          /\ size' \in 0 .. 9
      BY <1>0, <3>1, UntilType, FlushType
    <3> QED
      BY <1>5, <3>1, <3>2, <3>3 DEF ReadHeaderValue
  <2> QED
    BY <2>1, <2>2
<1>6. CASE ReadLiteralBegin
  <2>1. at + 1 \in at .. upto /\ "Begin" \in Headers /\ "ContentDispositionParams" \in Headers
    BY <1>0, <1>6 DEF ReadLiteralBegin, Headers
  <2>2. /\ at' \in {at, at + 1, at + 0 + 1}
        /\ header' \in {header, "Begin", "ContentDispositionParams"}
        /\ literal' \in {literal, "Quoted", "Plain"} /\ buf' \in {buf, <<>>}
    BY <1>6 DEF ReadLiteralBegin, HeaderIs
  <2> QED
    BY <1>0, <1>6, <2>1, <2>2 DEF ReadLiteralBegin, headVars
<1>7. CASE ReadPlainLiteral
  <2>1. CASE Stop({"lf", ";"}) = "end"
    <3>1. KeepLiteral("ContentDispositionUnknown") /\ "ContentDispositionUnknown" \in Headers
      BY <1>7, <2>1 DEF ReadPlainLiteral, Headers
    <3>2. at' \in at .. upto /\ header' \in Headers /\ buf' \in Texts
      BY <3>1, KeepLiteralType
    <3> QED
      BY <1>0, <1>7, <2>1, <3>2 DEF ReadPlainLiteral, headVars
  <2>2. CASE Stop({"lf", ";"}) # "end"
    <3>1. PICK h \in Headers :
            /\ Flush(FALSE, Until({"lf", ";"})) /\ HeaderIs(h, Len(Until({"lf", ";"})))
            /\ literal' = "None"
      BY <1>7, <2>2 DEF ReadPlainLiteral, Headers
    <3>2. at' \in at .. upto /\ header' \in Headers /\ buf' \in Texts
      BY <2>2, <3>1, HeaderIsType
    <3>3. /\ name' \in Texts /\ file' \in Texts /\ type' \in Texts
          /\ size' \in 0 .. 9
      BY <1>0, <3>1, UntilType, FlushType
    <3> QED
      BY <1>7, <3>1, <3>2, <3>3 DEF ReadPlainLiteral
  <2> QED
    BY <2>1, <2>2
<1>8. CASE ReadQuotedLiteral
  <2>1. CASE Stop({"lf", "quote"}) = "end"
    <3>1. KeepLiteral("ContentDispositionUnknown") /\ "ContentDispositionUnknown" \in Headers
      BY <1>8, <2>1 DEF ReadQuotedLiteral, Headers
    <3>2. at' \in at .. upto /\ header' \in Headers /\ buf' \in Texts
      BY <3>1, KeepLiteralType
    <3> QED
      BY <1>0, <1>8, <2>1, <3>2 DEF ReadQuotedLiteral, headVars
  <2>2. CASE Stop({"lf", "quote"}) # "end"
    <3>1. PICK h \in Headers :
            /\ UNCHANGED headVars \/ Flush(TRUE, Until({"lf", "quote"}))
            /\ HeaderIs(h, Len(Until({"lf", "quote"}))) /\ literal' = "None"
      BY <1>8, <2>2 DEF ReadQuotedLiteral, Headers
    <3>2. at' \in at .. upto /\ header' \in Headers /\ buf' \in Texts
      BY <2>2, <3>1, HeaderIsType
    <3>3. /\ name' \in Texts /\ file' \in Texts /\ type' \in Texts
          /\ size' \in 0 .. 9
      <4>1. CASE UNCHANGED headVars
        BY <1>0, <4>1 DEF headVars
      <4>2. CASE Flush(TRUE, Until({"lf", "quote"}))
        BY <1>0, <4>2, UntilType, FlushType
      <4> QED
        BY <3>1, <4>1, <4>2
    <3> QED
      BY <1>8, <3>1, <3>2, <3>3 DEF ReadQuotedLiteral
  <2> QED
    BY <2>1, <2>2
<1>9. CASE ReadDummy
  <2>1. PICK units : units = IF header = "Unknown" THEN {"lf"} ELSE {"lf", ";"}
    OBVIOUS
  <2>2. CASE Stop(units) = "end"
    BY <1>0, <1>9, <2>1, <2>2 DEF ReadDummy, headVars
  <2>3. CASE Stop(units) # "end"
    <3>1. PICK h \in Headers : HeaderIs(h, Len(Until(units))) /\ literal' = "None"
      BY <1>9, <2>1, <2>3 DEF ReadDummy, Headers
    <3>2. at' \in at .. upto /\ header' \in Headers /\ buf' \in Texts
      BY <2>3, <3>1, HeaderIsType
    <3> QED
      BY <1>0, <1>9, <3>1, <3>2 DEF ReadDummy, headVars
  <2> QED
    BY <2>2, <2>3
<1> QED
  BY <1>1, <1>2, <1>3, <1>4, <1>5, <1>6, <1>7, <1>8, <1>9, Zenon

-----------------------------------------------------------------------------
(***************************************************************************)
(* The parts of the inductive invariant.                                   *)
(***************************************************************************)

\* Nothing of a delimiter is pending outside the preamble and the content.
Delimiting == state \notin {"Begin", "Data"} => match = 0

\* The part that is read into a file has one.
FileIsOpen == state = "Data" /\ data = "File" /\ pc # "done" => files # <<>>

\* A parser that does not run stays as it was.
OnlyFormsAreParsed == ~(accept = "Multipart" /\ Parses) => state = "Begin"

ReadInv == TypeOK /\ Delimiting /\ FileIsOpen /\ ContentIsContiguous

(***************************************************************************)
(* Two parts that meet.                                                    *)
(***************************************************************************)
LEMMA RunJoin ==
    ASSUME NEW S, NEW q \in Seq(S), NEW a \in Nat, NEW b \in Nat, NEW c \in Nat,
           a <= b, b <= c, c <= Len(q)
    PROVE  /\ SubSeq(q, a + 1, b) \in Seq(S) /\ SubSeq(q, b + 1, c) \in Seq(S)
           /\ SubSeq(q, a + 1, b) \o SubSeq(q, b + 1, c) = SubSeq(q, a + 1, c)
<1>1. Len(q) \in Nat
  BY LenProperties
<1>2. /\ a + 1 \in 1 .. Len(q) + 1 /\ b \in (a + 1) - 1 .. Len(q) /\ c \in b .. Len(q)
      /\ a + 1 \in Nat \ {0} /\ b + 1 \in Nat \ {0} /\ b \in 0 .. Len(q) /\ c \in 0 .. Len(q)
  BY <1>1
<1>3. SubSeq(q, a + 1, b) \o SubSeq(q, b + 1, c) = SubSeq(q, a + 1, c)
  BY <1>2, ConcatAdjacentSubSeq
<1> QED
  BY <1>2, <1>3, SubSeqType

(***************************************************************************)
(* A step inside a header.                                                 *)
(***************************************************************************)
LEMMA HeaderKeeps ==
    ASSUME ReadInv, HeaderStep, UNCHANGED <<pc, body>>
    PROVE  ReadInv'
<1>1. /\ state' = "HeaderLine" /\ match' = match /\ stream' = stream /\ upto' = upto
      /\ data' = data /\ files' = files /\ streamBuf' = streamBuf
  BY DEF HeaderStep, inputVars, resultVars
<1>2. TypeOK'
  <2>1. at' \in 0 .. upto'
    BY <1>1, Typed DEF HeaderStep, ReadInv
  <2> QED
    BY <1>1, <2>1 DEF TypeOK, HeaderStep, ReadInv, States
<1>3. Delimiting' /\ FileIsOpen' /\ ContentIsContiguous'
  BY <1>1 DEF Delimiting, FileIsOpen, ContentIsContiguous, ReadInv, HeaderStep
<1> QED
  BY <1>2, <1>3 DEF ReadInv

(***************************************************************************)
(* readBegin and readBlock, and what follows the last delimiter.           *)
(***************************************************************************)
LEMMA BlockKeeps ==
    ASSUME ReadInv, ReadBegin \/ ReadBlock \/ RunEnds, UNCHANGED <<pc, body>>
    PROVE  ReadInv'
<1>0. /\ TypeOK /\ at \in Nat /\ upto \in Nat /\ at <= upto /\ upto <= Len(stream)
      /\ match \in Nat /\ match <= 5 /\ Len(Boundary) = 5 /\ Len(stream) \in Nat
      /\ InBody /\ <<>> \in Texts /\ <<"-">> \in Texts
  <2>1. "-" \in Units
    BY UnitsAssumption
  <2>2. <<"-">> \in Texts
    BY <2>1 DEF Texts
  <2> QED
    BY <2>2, Typed, BoundaryType, TextEmpty DEF ReadInv
<1>1. CASE ReadBegin
  <2>1. /\ Preamble \in Nat /\ at + Preamble <= upto
    <3>1. Preamble = 0 \/ Preamble = Len(Until({"-"}))
      BY DEF Preamble
    <3>2. Len(Until({"-"})) \in Nat /\ at + Len(Until({"-"})) <= upto
      BY <1>0, UntilType
    <3> QED
      BY <1>0, <3>1, <3>2
  <2>2. PICK n : n = Begins(Preamble)
    OBVIOUS
  <2>3. n \in Nat /\ at + Preamble + n <= upto /\ match + n <= 5
    <3>1. PICK s : s = SubSeq(Rest, Preamble + 1, Len(Rest))
      OBVIOUS
    <3>2. Rest \in Seq(Units) /\ Len(Rest) = upto - at
      BY <1>0, RestType DEF Texts
    <3>3. Preamble <= Len(Rest) /\ Len(Rest) \in Nat
      BY <1>0, <2>1, <3>2
    <3>4. s \in Texts /\ Len(s) = Len(Rest) - Preamble
      BY <2>1, <3>1, <3>2, <3>3, RunType DEF Texts
    <3>5. n \in Nat /\ n <= Len(s) /\ match + n <= 5
      BY <1>0, <2>2, <3>1, <3>4, AgreeingType DEF Begins
    <3> QED
      BY <1>0, <2>1, <3>2, <3>4, <3>5
  <2>4. /\ at' = at + (Preamble + n)
        /\ \/ match' = match + n /\ UNCHANGED <<state, buf>>
           \/ match' = 0 /\ state' = "BeginBlock" /\ buf' = <<>>
        /\ UNCHANGED <<inputVars, header, literal, data, headVars, resultVars>>
        /\ state = "Begin"
    BY <1>1, <2>2 DEF ReadBegin
  <2>5. at' \in 0 .. upto /\ match' \in 0 .. 5 /\ state' \in {"Begin", "BeginBlock"}
    BY <1>0, <2>1, <2>3, <2>4
  <2>6. TypeOK'
    BY <1>0, <2>4, <2>5 DEF TypeOK, States, inputVars, headVars, resultVars
  <2> QED
    BY <2>4, <2>5, <2>6 DEF ReadInv, Delimiting, FileIsOpen, ContentIsContiguous
<1>2. CASE ReadBlock
  <2>1. PICK line : line = Len(Until({"lf"}))
    OBVIOUS
  <2>2. line \in Nat /\ at + line <= upto
    BY <1>0, <2>1, UntilType
  <2>3. PICK dashes : dashes = {i \in at + 1 .. at + line : stream[i] = "-"}
    OBVIOUS
  <2>4. dashes # {} => Min(dashes) - 1 \in at .. upto
    <3>1. dashes \subseteq Nat /\ \A i \in dashes : i \in at + 1 .. at + line
      BY <1>0, <2>2, <2>3
    <3> SUFFICES ASSUME dashes # {}, NEW i, i = Min(dashes)
                 PROVE  i - 1 \in at .. upto
      OBVIOUS
    <3>2. i \in dashes
      BY <3>1, MinIsLeast
    <3>3. i \in at + 1 .. at + line
      BY <3>1, <3>2
    <3> QED
      BY <1>0, <2>2, <3>3
  <2>5. /\ \/ at' = Min(dashes) - 1 /\ dashes # {}
           \/ at' = upto
           \/ at' = at + line + 1 /\ at + line # upto
        /\ state' \in {"End", "HeaderLine", "BeginBlock"}
        /\ buf' \in {buf, <<>>, <<"-">>} /\ header' \in {header, "Begin"}
        /\ name' \in {name, <<>>} /\ file' \in {file, <<>>} /\ type' \in {type, <<>>}
        /\ size' \in {size, 0}
        /\ UNCHANGED <<inputVars, literal, data, match, resultVars>>
        /\ state = "BeginBlock"
    BY <1>2, <2>1, <2>3 DEF ReadBlock, headVars
  <2>6. at' \in 0 .. upto
    BY <1>0, <2>2, <2>4, <2>5
  <2>7. TypeOK'
    BY <1>0, <2>5, <2>6 DEF TypeOK, States, Headers, inputVars, resultVars
  <2> QED
    BY <2>5, <2>7 DEF ReadInv, Delimiting, FileIsOpen, ContentIsContiguous
<1>3. CASE RunEnds
  <2>1. at' \in 0 .. upto
    BY <1>0, <1>3 DEF RunEnds
  <2>2. TypeOK'
    BY <1>0, <1>3, <2>1 DEF TypeOK, RunEnds, inputVars, headVars, resultVars
  <2> QED
    BY <1>3, <2>2 DEF ReadInv, Delimiting, FileIsOpen, ContentIsContiguous, RunEnds
<1> QED
  BY <1>1, <1>2, <1>3

-----------------------------------------------------------------------------
(***************************************************************************)
(* The end of a header: a part begins, with nothing in it.                 *)
(***************************************************************************)
LEMMA HeaderEndKeeps ==
    ASSUME ReadInv, ReadHeaderEnd, UNCHANGED <<pc, body>>
    PROVE  ReadInv'
<1>0. /\ TypeOK /\ at \in Nat /\ upto \in Nat /\ at <= upto /\ upto <= Len(stream)
      /\ Len(stream) \in Nat /\ InBody /\ <<>> \in Texts /\ stream \in Seq(Units)
  BY Typed, TextEmpty DEF ReadInv
<1>1. PICK n : n = Len(Until({"lf", ":"}))
  OBVIOUS
<1>2. /\ n \in Nat /\ at + n + 1 \in at .. upto /\ stream[at + n + 1] = "lf"
  <2>1. Stop({"lf", ":"}) = "lf"
    BY DEF ReadHeaderEnd
  <2> QED
    BY <1>0, <1>1, <2>1, StopType
<1>3. /\ state = "HeaderLine" /\ match = 0 /\ match' = 0
      /\ at' = at + n + 1 /\ header' = "Begin" /\ buf' = <<>>
      /\ UNCHANGED <<inputVars, literal, match, root>>
  BY <1>1 DEF ReadHeaderEnd, InHeader, HeaderIs, ReadInv, Delimiting
<1>4. CASE UNCHANGED <<state, data, headVars, files, streamBuf>>
  <2>1. TypeOK'
    BY <1>0, <1>2, <1>3, <1>4 DEF TypeOK, inputVars, headVars, States, Headers
  <2> QED
    BY <1>3, <1>4, <2>1 DEF ReadInv, Delimiting, FileIsOpen, ContentIsContiguous
<1>5. ASSUME state' = "Data", data' = DataOf, size' = 0,
             streamBuf' = IF data' = "FileAsData" THEN <<>> ELSE streamBuf,
             IF data' = "File"
             THEN /\ files' = Append(files, [name |-> name, type |-> type,
                                             file |-> file, size |-> size,
                                             content |-> <<>>])
                  /\ name' = <<>> /\ type' = <<>> /\ file' = <<>>
             ELSE UNCHANGED <<files, name, type, file>>
      PROVE  ReadInv'
  <2>1. data' \in {"Var", "File", "FileAsData", "Skip"}
    BY <1>5 DEF DataOf
  <2>2. PICK f : f = [name |-> name, type |-> type, file |-> file, size |-> size,
                      content |-> <<>>]
    OBVIOUS
  <2>3. f \in Files /\ f.content = <<>>
    BY <1>0, <2>2, Typed DEF Files
  <2>4. files \in Seq(Files)
    BY <1>0 DEF TypeOK
  <2>5. /\ files' \in Seq(Files)
        /\ data' = "File" => files' # <<>> /\ Last(files') = f
    <3>1. CASE data' = "File"
      <4>1. files' = Append(files, f)
        BY <1>5, <2>2, <3>1
      <4> QED
        BY <2>3, <2>4, <4>1, AppendProperties DEF Last
    <3>2. CASE data' # "File"
      BY <1>5, <2>4, <3>2
    <3> QED
      BY <3>1, <3>2
  <2>6. /\ name' \in Texts /\ type' \in Texts /\ file' \in Texts /\ streamBuf' \in Texts
    BY <1>0, <1>5, Typed
  <2>7. TypeOK'
    BY <1>0, <1>2, <1>3, <1>5, <2>1, <2>5, <2>6, BoundaryType
       DEF TypeOK, inputVars, States, Headers
  <2>8. Content' = <<>>
    BY <1>3, <1>5, <2>1, <2>3, <2>5 DEF Content
  <2>9. ContentIsContiguous'
    <3>1. at' \in Nat /\ at' \in 1 .. at' /\ stream'[at'] = "lf" /\ stream' = stream
      BY <1>0, <1>2, <1>3 DEF inputVars
    <3>2. SubSeq(stream', at' + 1, at') = <<>> /\ SubSeq(Boundary, 1, 0) = <<>>
      <4>1. PICK a : a = at'
        OBVIOUS
      <4>0. a \in Nat
        BY <1>0, <1>2, <1>3, <4>1
      <4>2. a \in Int /\ a + 1 \in Int /\ a < a + 1
        BY <4>0
      <4>3. SubSeq(stream', a + 1, a) = <<>>
        BY <4>2, SubSeqEmpty
      <4>4. SubSeq(Boundary, 1, 0) = <<>>
        BY SubSeqEmpty
      <4> QED
        BY <4>1, <4>3, <4>4
    <3>3. <<>> \o <<>> = <<>>
      BY EmptySeq, ConcatEmptySeq
    <3> QED
      BY <1>3, <2>8, <3>1, <3>2, <3>3 DEF ContentIsContiguous
  <2> QED
    BY <1>3, <1>5, <2>5, <2>7, <2>9 DEF ReadInv, Delimiting, FileIsOpen
<1> QED
  BY <1>4, <1>5 DEF ReadHeaderEnd

(***************************************************************************)
(* flushData adds to the content, or drops the part.                       *)
(***************************************************************************)
LEMMA FlushDataType ==
    ASSUME TypeOK, data = "File" => files # <<>>, NEW s \in Texts, FlushData(s)
    PROVE  /\ files' \in Seq(Files) /\ buf' \in Texts /\ streamBuf' \in Texts
           /\ data' \in {data, "Skip"}
           /\ data' = "File" => files' # <<>>
           /\ data' # "Skip" => Content \in Texts /\ Content' = Content \o s
<1>0. /\ files \in Seq(Files) /\ buf \in Texts /\ streamBuf \in Texts /\ <<>> \in Texts
      /\ data \in {"Var", "File", "FileAsData", "Skip"} /\ Len(files) \in Nat
  BY Typed, TextEmpty, LenProperties DEF TypeOK
<1>1. Front(files) \in Seq(Files)
  <2>1. CASE files = <<>>
    <3>1. Len(files) - 1 \in Int /\ Len(files) - 1 < 1
      BY <2>1, EmptySeq
    <3>2. Front(files) = <<>>
      BY <3>1, SubSeqEmpty DEF Front
    <3> QED
      BY <3>2, EmptySeq
  <2>2. CASE files # <<>>
    <3>1. Len(files) - 1 \in 0 .. Len(files) /\ 1 \in Nat \ {0}
      BY <1>0, <2>2, EmptySeq
    <3> QED
      BY <1>0, <3>1, SubSeqType DEF Front
  <2> QED
    BY <2>1, <2>2
<1>2. CASE data = "File"
  <2>1. PICK n : n = Len(files)
    OBVIOUS
  <2>2. n \in 1 .. Len(files) /\ files[n] \in Files /\ Len(files) \in Nat \ {0}
    <3>1. Len(files) \in Nat \ {0}
      BY <1>0, <1>2, EmptySeq
    <3>2. n \in 1 .. Len(files)
      BY <2>1, <3>1
    <3> QED
      BY <1>0, <3>1, <3>2, ElementOfSeq
  <2>3. UNCHANGED <<buf, streamBuf>>
    BY <1>2 DEF FlushData
  <2>4. CASE files' = Front(files) /\ data' = "Skip"
    BY <1>0, <1>1, <2>3, <2>4
  <2>5. CASE files' = [files EXCEPT ![n].content = @ \o s] /\ data' = data
    <3>1. PICK f : f = [files[n] EXCEPT !.content = @ \o s]
      OBVIOUS
    <3>2. files[n].content \in Texts
      BY <2>2 DEF Files
    <3>3. files[n].content \o s \in Texts
      BY <3>2, TextConcat
    <3>4. f \in Files /\ f.content = files[n].content \o s
      BY <2>2, <3>1, <3>3 DEF Files
    <3>5. files' = [files EXCEPT ![n] = f]
      BY <2>5, <3>1
    <3>6. files' \in Seq(Files) /\ Len(files') = n /\ files'[n] = f
      BY <1>0, <2>1, <2>2, <3>4, <3>5, ExceptNamed
    <3>7. files' # <<>>
      BY <2>1, <2>2, <3>6, EmptySeq
    <3>8. Content = files[n].content /\ Content' = f.content
      BY <1>2, <2>1, <2>5, <3>6 DEF Content, Last
    <3> QED
      BY <1>0, <2>3, <2>5, <3>2, <3>4, <3>6, <3>7, <3>8
  <2> QED
    BY <1>2, <2>1, <2>4, <2>5 DEF FlushData
<1>3. CASE data = "FileAsData"
  <2>1. streamBuf \o s \in Texts
    BY <1>0, TextConcat
  <2> QED
    BY <1>0, <1>1, <1>3, <2>1 DEF FlushData, Content
<1>4. CASE data = "Var"
  <2>1. buf \o s \in Texts
    BY <1>0, TextConcat
  <2> QED
    BY <1>0, <1>4, <2>1 DEF FlushData, Content
<1>5. CASE data = "Skip"
  BY <1>0, <1>5 DEF FlushData
<1> QED
  BY <1>0, <1>2, <1>3, <1>4, <1>5

(***************************************************************************)
(* Content that is read adds to a run of the stream.                       *)
(***************************************************************************)
LEMMA RunGrows ==
    ASSUME NEW q \in Texts, NEW i \in Nat, NEW a \in Nat, NEW b \in Nat,
           i <= a, a <= b, b <= Len(q), NEW t, t = SubSeq(q, i + 1, a)
    PROVE  t \o SubSeq(q, a + 1, b) = SubSeq(q, i + 1, b)
BY RunJoin DEF Texts

(***************************************************************************)
(* readData up to what may be a delimiter.                                 *)
(***************************************************************************)
LEMMA DataKeeps ==
    ASSUME ReadInv, ReadData, UNCHANGED <<pc, body>>, pc # "done"
    PROVE  ReadInv'
<1>0. /\ TypeOK /\ at \in Nat /\ upto \in Nat /\ at <= upto /\ upto <= Len(stream)
      /\ Len(stream) \in Nat /\ InBody /\ stream \in Texts
      /\ state = "Data" /\ match = 0 /\ data \in {"Var", "File", "FileAsData", "Skip"}
  BY Typed DEF ReadInv, ReadData, InBody, TypeOK
<1>1. PICK t : t = Until({"cr"})
  OBVIOUS
<1>2. PICK n : n = Len(t)
  OBVIOUS
<1>3. /\ t \in Texts /\ n \in Nat /\ at + n <= upto
      /\ t = SubSeq(stream, at + 1, at + n)
      /\ at + n < upto => stream[at + n + 1] = "cr"
  <2>1. n = Len(Until({"cr"}))
    BY <1>1, <1>2
  <2>2. /\ Until({"cr"}) \in Texts /\ n \in Nat /\ at + n <= upto
        /\ Until({"cr"}) = SubSeq(stream, at + 1, at + n)
        /\ at + n < upto => stream[at + n + 1] \in {"cr"}
    BY <1>0, <2>1, UntilType
  <2> QED
    BY <1>1, <2>2
<1>4. /\ FlushData(t)
      /\ \/ at + n = upto /\ at' = at + n /\ match' = 0
         \/ at + n < upto /\ at' = at + n + 1 /\ match' = 1
      /\ UNCHANGED <<inputVars, state, header, literal, headVars, root>>
  BY <1>0, <1>1, <1>2, <1>3 DEF ReadData
<1>5. data = "File" => files # <<>>
  BY <1>0 DEF ReadInv, FileIsOpen
<1>6. /\ files' \in Seq(Files) /\ buf' \in Texts /\ streamBuf' \in Texts
      /\ data' \in {data, "Skip"}
      /\ data' = "File" => files' # <<>>
      /\ data' # "Skip" => Content \in Texts /\ Content' = Content \o t
  BY <1>0, <1>3, <1>4, <1>5, FlushDataType
<1>7. at' \in 0 .. upto /\ match' \in {0, 1}
  BY <1>0, <1>3, <1>4
<1>8. TypeOK'
  BY <1>0, <1>4, <1>6, <1>7, BoundaryType DEF TypeOK, inputVars, headVars
<1>9. ASSUME data' # "Skip"
      PROVE  ContentIsContiguous'
  <2>1. PICK i \in 1 .. at :
          /\ stream[i] = "lf"
          /\ Content \o SubSeq(Boundary, 1, match) = SubSeq(stream, i + 1, at)
    BY <1>0, <1>6, <1>9 DEF ReadInv, ContentIsContiguous
  <2>2. SubSeq(Boundary, 1, 0) = <<>>
    BY SubSeqEmpty
  <2>3. Content = SubSeq(stream, i + 1, at)
    BY <1>0, <1>6, <1>9, <2>1, <2>2, ConcatEmptySeq DEF Texts
  <2>4. i \in Nat /\ i <= at /\ at + n \in Nat /\ at <= at + n /\ at + n <= Len(stream)
    BY <1>0, <1>3
  <2>5. Content' = SubSeq(stream, i + 1, at + n) /\ Content' \in Texts
    <3>1. Content' = Content \o t /\ Content \in Texts
      BY <1>6, <1>9
    <3>2. Content \o SubSeq(stream, at + 1, at + n) = SubSeq(stream, i + 1, at + n)
      <4>1. PICK m \in Nat : m = at + n
        BY <2>4
      <4>2. at <= m /\ m <= Len(stream)
        BY <2>4, <4>1
      <4>3. Content \o SubSeq(stream, at + 1, m) = SubSeq(stream, i + 1, m)
        BY <1>0, <2>3, <2>4, <4>2, RunGrows
      <4> QED
        BY <4>1, <4>3
    <3>3. Content \o t \in Texts
      BY <1>3, <3>1, TextConcat
    <3> QED
      BY <1>3, <3>1, <3>2, <3>3
  <2>6. CASE at + n = upto
    <3>1. Content' \o SubSeq(Boundary, 1, 0) = Content'
      BY <2>2, <2>5, ConcatEmptySeq DEF Texts
    <3>2. i \in 1 .. at' /\ at' = at + n /\ match' = 0 /\ stream' = stream
      BY <1>0, <1>3, <1>4, <2>6 DEF inputVars
    <3> QED
      BY <2>1, <2>5, <3>1, <3>2 DEF ContentIsContiguous
  <2>7. CASE at + n < upto
    <3>1. i \in 1 .. at' /\ at' = at + n + 1 /\ match' = 1 /\ stream' = stream
      BY <1>0, <1>3, <1>4, <2>7 DEF inputVars
    <3>2. SubSeq(stream, (at + n) + 1, at + n + 1) = <<"cr">>
      <4>1. at + n + 1 \in 1 .. Len(stream) /\ stream \in Seq(Units)
        BY <1>0, <1>3, <2>7 DEF Texts
      <4>2. SubSeq(stream, at + n + 1, at + n + 1)
              = <<stream[at + n + 1]>> \o SubSeq(stream, at + n + 1 + 1, at + n + 1)
        <5>1. PICK k \in 1 .. Len(stream) : k = at + n + 1
          BY <4>1
        <5>2. k \in k .. Len(stream)
          BY <4>1
        <5>3. SubSeq(stream, k, k) = <<stream[k]>> \o SubSeq(stream, k + 1, k)
          BY <4>1, <5>2, SubSeqRecursiveFirst
        <5> QED
          BY <5>1, <5>3
      <4>3. SubSeq(stream, at + n + 1 + 1, at + n + 1) = <<>>
        <5>1. PICK k \in Int : k = at + n + 1
          BY <4>1
        <5>2. SubSeq(stream, k + 1, k) = <<>>
          BY SubSeqEmpty
        <5> QED
          BY <5>1, <5>2
      <4>4. <<"cr">> \o <<>> = <<"cr">>
        <5>1. <<"cr">> \in Seq({"cr"})
          OBVIOUS
        <5> QED
          BY <5>1, ConcatEmptySeq
      <4> QED
        BY <1>3, <2>7, <4>2, <4>3, <4>4
    <3>3. SubSeq(Boundary, 1, 1) = <<"cr">>
      <4>1. 1 \in 1 .. Len(Boundary) /\ 1 \in 1 .. Len(Boundary) /\ Boundary \in Seq(Units)
        BY BoundaryType
      <4>2. SubSeq(Boundary, 1, 1) = <<Boundary[1]>> \o SubSeq(Boundary, 1 + 1, 1)
        BY <4>1, SubSeqRecursiveFirst, Zenon
      <4>3. SubSeq(Boundary, 1 + 1, 1) = <<>>
        BY SubSeqEmpty
      <4>4. <<"cr">> \o <<>> = <<"cr">>
        <5>1. <<"cr">> \in Seq({"cr"})
          OBVIOUS
        <5> QED
          BY <5>1, ConcatEmptySeq
      <4> QED
        BY <4>2, <4>3, <4>4, BoundaryType
    <3>4. Content' \o <<"cr">> = SubSeq(stream, i + 1, at + n + 1)
      <4>1. PICK k \in Nat : k = at + n
        BY <1>0, <1>3
      <4>2. k + 1 \in Nat /\ k <= k + 1 /\ k + 1 <= Len(stream) /\ i <= k
        BY <1>0, <2>4, <2>7, <4>1
      <4>3. Content' \o SubSeq(stream, k + 1, k + 1) = SubSeq(stream, i + 1, k + 1)
        <5>1. PICK m \in Nat : m = k + 1
          BY <4>2
        <5>2. k <= m /\ m <= Len(stream) /\ Content' = SubSeq(stream, i + 1, k)
          BY <2>5, <4>1, <4>2, <5>1
        <5>3. Content' \o SubSeq(stream, k + 1, m) = SubSeq(stream, i + 1, m)
          BY <1>0, <2>4, <4>2, <5>2, RunGrows
        <5> QED
          BY <5>1, <5>3
      <4> QED
        BY <3>2, <4>1, <4>3
    <3> QED
      BY <2>1, <3>1, <3>3, <3>4 DEF ContentIsContiguous
  <2> QED
    BY <1>0, <1>3, <2>6, <2>7
<1>10. ContentIsContiguous'
  BY <1>9 DEF ContentIsContiguous
<1> QED
  BY <1>0, <1>4, <1>6, <1>8, <1>10 DEF ReadInv, Delimiting, FileIsOpen

(***************************************************************************)
(* What goes on with the delimiter after n more units.                     *)
(***************************************************************************)
LEMMA DelimiterGoesOn ==
    ASSUME TypeOK, NEW n, n = Agreeing(Rest, match)
    PROVE  /\ n \in Nat /\ at + n <= upto /\ match + n <= 5
           /\ SubSeq(Boundary, 1, match) \in Texts
           /\ SubSeq(Boundary, 1, match + n) \in Texts
           /\ SubSeq(stream, at + 1, at + n) \in Texts
           /\ SubSeq(Boundary, 1, match) \o SubSeq(stream, at + 1, at + n)
                = SubSeq(Boundary, 1, match + n)
<1>0. /\ InBody /\ at \in Nat /\ upto \in Nat /\ at <= upto /\ upto <= Len(stream)
      /\ stream \in Seq(Units) /\ match \in Nat /\ match <= 5 /\ Rest \in Texts
      /\ Len(stream) \in Nat
  BY Typed
<1>1. /\ n \in Nat /\ n <= Len(Rest) /\ match + n <= 5
      /\ SubSeq(Rest, 1, n) = SubSeq(Boundary, match + 1, match + n)
  BY <1>0, AgreeingType
<1>2. Len(Rest) = upto - at /\ \A i \in 1 .. upto - at : Rest[i] = stream[at + i]
  BY <1>0, RestType
<1>3. at + n <= upto
  BY <1>0, <1>1, <1>2
<1>a. n \in Nat /\ at \in Nat /\ at + n <= Len(stream) /\ Len(stream) \in Nat
  BY <1>0, <1>1, <1>3
<1>4. SubSeq(Rest, 1, n) = SubSeq(stream, at + 1, at + n)
  <2>1. PICK p : p = SubSeq(Rest, 0 + 1, n)
    OBVIOUS
  <2>2. /\ p \in Seq(Units) /\ Len(p) = n - 0
        /\ \A i \in 1 .. n - 0 : p[i] = Rest[0 + i]
    <3>1. Rest \in Seq(Units) /\ 0 \in Nat /\ 0 <= n /\ n <= Len(Rest)
      BY <1>0, <1>1 DEF Texts
    <3> QED
      BY <1>1, <2>1, <3>1, RunType
  <2>3. PICK c \in Nat : c = at + n
    BY <1>a
  <2>4. PICK r : r = SubSeq(stream, at + 1, c)
    OBVIOUS
  <2>5. /\ r \in Seq(Units) /\ Len(r) = c - at
        /\ \A i \in 1 .. c - at : r[i] = stream[at + i]
    <3>1. at <= c /\ c <= Len(stream)
      BY <1>a, <2>3
    <3> QED
      BY <1>0, <2>4, <3>1, RunType
  <2>6. n - 0 = n /\ c - at = n
    BY <1>a, <2>3
  <2>7. ASSUME NEW i \in 1 .. n
        PROVE  p[i] = r[i]
    <3>1. i \in 1 .. upto - at /\ 0 + i = i
      BY <1>0, <1>1, <1>3
    <3> QED
      BY <1>2, <2>2, <2>5, <2>6, <3>1
  <2>8. p = r
    BY <2>2, <2>5, <2>6, <2>7, SeqEqual
  <2>9. p = SubSeq(Rest, 1, n) /\ r = SubSeq(stream, at + 1, at + n)
    BY <2>1, <2>3, <2>4
  <2> QED
    BY <2>8, <2>9
<1>5. /\ SubSeq(Boundary, 1, match) \in Seq(Units)
      /\ SubSeq(Boundary, match + 1, match + n) \in Seq(Units)
      /\ SubSeq(Boundary, 1, match) \o SubSeq(Boundary, match + 1, match + n)
           = SubSeq(Boundary, 1, match + n)
  <2>1. PICK c \in Nat : c = match + n
    BY <1>0, <1>1
  <2>2. match <= c /\ c <= Len(Boundary) /\ 0 \in Nat /\ 0 <= match /\ Boundary \in Seq(Units)
    BY <1>0, <1>1, <2>1, BoundaryType
  <2>3. /\ SubSeq(Boundary, 0 + 1, match) \in Seq(Units)
        /\ SubSeq(Boundary, match + 1, c) \in Seq(Units)
        /\ SubSeq(Boundary, 0 + 1, match) \o SubSeq(Boundary, match + 1, c)
             = SubSeq(Boundary, 0 + 1, c)
    BY <1>0, <2>2, RunJoin
  <2> QED
    BY <2>1, <2>3
<1>6. SubSeq(Boundary, 1, match + n) \in Seq(Units)
  <2>1. \A u, v \in Seq(Units) : u \o v \in Seq(Units)
    BY ConcatProperties
  <2> QED
    BY <1>5, <2>1
<1> QED
  BY <1>1, <1>3, <1>4, <1>5, <1>6 DEF Texts

(***************************************************************************)
(* readData where what may be a delimiter goes on, or was none.            *)
(***************************************************************************)
LEMMA MismatchKeeps ==
    ASSUME ReadInv, ReadMismatch, UNCHANGED <<pc, body>>, pc # "done"
    PROVE  ReadInv'
<1>0. /\ TypeOK /\ at \in Nat /\ upto \in Nat /\ at <= upto /\ upto <= Len(stream)
      /\ Len(stream) \in Nat /\ stream \in Texts /\ state = "Data"
      /\ match \in Nat /\ data \in {"Var", "File", "FileAsData", "Skip"}
      /\ buf \in Texts /\ streamBuf \in Texts /\ files \in Seq(Files)
  BY Typed DEF ReadInv, ReadMismatch, InDelimiter, InBody, TypeOK
<1>1. PICK n : n = Agreeing(Rest, match)
  OBVIOUS
<1>2. PICK u : u = SubSeq(Boundary, 1, match)
  OBVIOUS
<1>3. PICK v : v = SubSeq(stream, at + 1, at + n)
  OBVIOUS
<1>4. PICK w : w = SubSeq(Boundary, 1, match + n)
  OBVIOUS
<1>5. /\ n \in Nat /\ at + n <= upto
      /\ u \in Texts /\ v \in Texts /\ w \in Texts /\ u \o v = w
  BY <1>0, <1>1, <1>2, <1>3, <1>4, DelimiterGoesOn
<1>6. /\ at' = at + n /\ match + n < 5
      /\ \/ match' = match + n /\ UNCHANGED <<files, streamBuf, buf, data>>
         \/ match' = 0 /\ FlushData(w)
      /\ UNCHANGED <<inputVars, state, header, literal, headVars, root>>
  BY <1>1, <1>4, BoundaryType DEF ReadMismatch
<1>7. data = "File" => files # <<>>
  BY <1>0 DEF ReadInv, FileIsOpen
<1>8. ASSUME data # "Skip", NEW c \in Texts, c = Content
      PROVE  \E i \in 1 .. at' : stream[i] = "lf" /\ c \o w = SubSeq(stream, i + 1, at')
  <2>1. PICK i \in 1 .. at : stream[i] = "lf" /\ c \o u = SubSeq(stream, i + 1, at)
    BY <1>0, <1>2, <1>8 DEF ReadInv, ContentIsContiguous
  <2>2. PICK e \in Nat : e = at + n
    BY <1>0, <1>5
  <2>3. i \in Nat /\ i <= at /\ at <= e /\ e <= Len(stream) /\ i \in 1 .. e
    BY <1>0, <1>5, <2>2
  <2>4. (c \o u) \o SubSeq(stream, at + 1, e) = SubSeq(stream, i + 1, e)
    BY <1>0, <2>1, <2>3, RunGrows
  <2>5. (c \o u) \o v = c \o (u \o v)
    <3>1. c \in Seq(Units) /\ u \in Seq(Units) /\ v \in Seq(Units)
      BY <1>5, <1>8 DEF Texts
    <3> QED
      BY <3>1, ConcatAssociative
  <2>6. c \o w = SubSeq(stream, i + 1, e)
    BY <1>3, <1>5, <2>2, <2>4, <2>5
  <2> QED
    BY <1>6, <2>1, <2>2, <2>3, <2>6
<1>9. CASE match' = match + n /\ UNCHANGED <<files, streamBuf, buf, data>>
  <2>1. at' \in 0 .. upto /\ match' \in 0 .. 5 /\ match' < 5
    BY <1>0, <1>5, <1>6, <1>9
  <2>2. TypeOK'
    BY <1>0, <1>6, <1>9, <2>1, BoundaryType DEF TypeOK, inputVars, headVars
  <2>3. ASSUME data' # "Skip"
        PROVE  ContentIsContiguous'
    <3>1. Content' = Content /\ data # "Skip" /\ stream' = stream
      BY <1>6, <1>9, <2>3 DEF Content, inputVars
    <3>2. Content \in Texts
      <4>1. CASE data = "File"
        <5>1. Len(files) \in 1 .. Len(files)
          BY <1>0, <1>7, <4>1, EmptySeq
        <5>2. files[Len(files)] \in Files
          BY <1>0, <5>1, ElementOfSeq
        <5> QED
          BY <4>1, <5>2 DEF Content, Last, Files
      <4>2. CASE data # "File"
        BY <1>0, <3>1, <4>2 DEF Content
      <4> QED
        BY <4>1, <4>2
    <3>3. \E i \in 1 .. at' : stream[i] = "lf" /\ Content \o w = SubSeq(stream, i + 1, at')
      BY <1>8, <3>1, <3>2
    <3> QED
      BY <1>4, <1>9, <3>1, <3>3 DEF ContentIsContiguous
  <2>4. ContentIsContiguous'
    BY <2>3 DEF ContentIsContiguous
  <2> QED
    BY <1>0, <1>6, <1>7, <1>9, <2>2, <2>4 DEF ReadInv, Delimiting, FileIsOpen
<1>10. CASE match' = 0 /\ FlushData(w)
  <2>1. /\ files' \in Seq(Files) /\ buf' \in Texts /\ streamBuf' \in Texts
        /\ data' \in {data, "Skip"}
        /\ data' = "File" => files' # <<>>
        /\ data' # "Skip" => Content \in Texts /\ Content' = Content \o w
    BY <1>0, <1>5, <1>7, <1>10, FlushDataType
  <2>2. at' \in 0 .. upto /\ match' \in 0 .. 5 /\ match' < 5
    BY <1>0, <1>5, <1>6, <1>10
  <2>3. TypeOK'
    BY <1>0, <1>6, <2>1, <2>2, BoundaryType DEF TypeOK, inputVars, headVars
  <2>4. ASSUME data' # "Skip"
        PROVE  ContentIsContiguous'
    <3>1. data # "Skip" /\ Content \in Texts /\ Content' = Content \o w /\ stream' = stream
      BY <1>6, <2>1, <2>4 DEF inputVars
    <3>2. PICK i \in 1 .. at' : stream[i] = "lf" /\ Content' = SubSeq(stream, i + 1, at')
      BY <1>8, <3>1
    <3>3. SubSeq(Boundary, 1, 0) = <<>>
      BY SubSeqEmpty
    <3>4. Content' \in Texts
      BY <1>5, <3>1, TextConcat
    <3>5. Content' \o SubSeq(Boundary, 1, 0) = Content'
      BY <3>3, <3>4, ConcatEmptySeq DEF Texts
    <3> QED
      BY <1>10, <3>1, <3>2, <3>5 DEF ContentIsContiguous
  <2>5. ContentIsContiguous'
    BY <2>4 DEF ContentIsContiguous
  <2> QED
    BY <1>0, <1>6, <2>1, <2>3, <2>5 DEF ReadInv, Delimiting, FileIsOpen
<1> QED
  BY <1>6, <1>9, <1>10

(***************************************************************************)
(* The end of a part.                                                      *)
(***************************************************************************)
LEMMA DelimiterKeeps ==
    ASSUME ReadInv, ReadDelimiter, UNCHANGED <<pc, body>>
    PROVE  ReadInv'
<1>0. TypeOK /\ at \in Nat /\ upto \in Nat /\ buf \in Texts /\ streamBuf \in Texts /\ name \in Texts
  BY Typed DEF ReadInv
<1>1. PICK n : n = Agreeing(Rest, match)
  OBVIOUS
<1>2. n \in Nat /\ at + n <= upto
  BY <1>0, <1>1, DelimiterGoesOn
<1>3. /\ at' = at + n /\ match' = 0 /\ state' = "BeginBlock"
      /\ buf' \in {buf, <<>>} /\ streamBuf' \in {streamBuf, <<>>} /\ name' \in {name, <<>>}
      /\ UNCHANGED <<inputVars, header, literal, data, file, type, size, files>>
  BY <1>1 DEF ReadDelimiter
<1>4. /\ at' \in 0 .. upto /\ buf' \in Texts /\ streamBuf' \in Texts /\ name' \in Texts
  BY <1>0, <1>2, <1>3, TextEmpty
<1>5. TypeOK'
  BY <1>0, <1>3, <1>4, BoundaryType DEF TypeOK, inputVars, States
<1> QED
  BY <1>3, <1>5 DEF ReadInv, Delimiting, FileIsOpen, ContentIsContiguous

(***************************************************************************)
(* One round of the loop of run().                                         *)
(***************************************************************************)
LEMMA ReadKeeps ==
    ASSUME ReadInv, Read, UNCHANGED <<pc, body>>, pc # "done"
    PROVE  ReadInv'
<1>1. CASE ReadBegin \/ ReadBlock \/ RunEnds
  BY <1>1, BlockKeeps
<1>2. CASE \/ ReadHeaderName \/ ReadDisposition \/ ReadParam \/ ReadOn \/ ReadHeaderValue
           \/ ReadLiteralBegin \/ ReadPlainLiteral \/ ReadQuotedLiteral \/ ReadDummy
  <2>1. HeaderStep
    BY <1>2, HeaderSteps DEF ReadInv
  <2> QED
    BY <2>1, HeaderKeeps
<1>3. CASE ReadHeaderEnd
  BY <1>3, HeaderEndKeeps
<1>4. CASE ReadData
  BY <1>4, DataKeeps
<1>5. CASE ReadMismatch
  BY <1>5, MismatchKeeps
<1>6. CASE ReadDelimiter
  BY <1>6, DelimiterKeeps
<1> QED
  BY <1>1, <1>2, <1>3, <1>4, <1>5, <1>6, Zenon DEF Read

-----------------------------------------------------------------------------
FilterInv == ReadInv /\ OnlyFormsAreParsed

(***************************************************************************)
(* What the filter does leaves the parser of forms alone, except for a new *)
(* piece.                                                                  *)
(***************************************************************************)
LEMMA FilterKeeps ==
    ASSUME FilterInv, [Next]_vars
    PROVE  FilterInv'
<1>0. /\ TypeOK /\ ReadInv /\ at \in Nat /\ upto \in Nat /\ Len(stream) \in Nat
      /\ at <= upto /\ upto <= Len(stream) /\ stream \in Seq(Units) /\ stream \in Texts
      /\ Rest \in Texts /\ streamBuf \in Texts /\ body \in Texts
  BY Typed DEF FilterInv, ReadInv, TypeOK
<1>1. ASSUME NEW n \in 1 .. Len(stream), Step(n)
      PROVE  FilterInv'
  <2>1. SubSeq(stream, 1, n) \in Texts
    <3>1. 1 \in Nat \ {0} /\ n \in 0 .. Len(stream)
      BY <1>0
    <3> QED
      BY <1>0, <3>1, SubSeqType DEF Texts
  <2>2. /\ at \in 0 .. n /\ n \in 0 .. Len(stream) /\ body' \in Texts
        /\ upto' = n /\ pc' = "run" /\ pc = "wait"
        /\ UNCHANGED <<required, stream, filterVars, parserVars>>
    BY <1>0, <1>1, <2>1 DEF Step
  <2>3. TypeOK'
    BY <1>0, <2>2 DEF TypeOK, parserVars, headVars, resultVars
  <2>4. Content' = Content
    BY <2>2 DEF Content, parserVars, resultVars
  <2> QED
    BY <1>0, <2>2, <2>3, <2>4
       DEF FilterInv, ReadInv, Delimiting, FileIsOpen, ContentIsContiguous,
           OnlyFormsAreParsed, Parses, IsFileUploadAllowed, IsDataParsingAllowed,
           parserVars, filterVars, resultVars
<1>2. CASE RunMultipart
  <2>1. Read /\ UNCHANGED <<pc, body>> /\ pc # "done"
    BY <1>2 DEF RunMultipart
  <2>2. ReadInv'
    BY <1>0, <2>1, ReadKeeps
  <2>3. /\ accept' = accept /\ accept = "Multipart" /\ Parses /\ required' = required
    <3>1. Read => required' = required
      BY DEF Read, ReadBegin, ReadBlock, ReadHeaderName, ReadHeaderEnd, ReadDisposition,
             ReadParam, ReadOn, ReadHeaderValue, ReadLiteralBegin, ReadPlainLiteral,
             ReadQuotedLiteral, ReadDummy, ReadData, ReadMismatch, ReadDelimiter, RunEnds,
             inputVars
    <3> QED
      BY <1>2, <2>1, <3>1 DEF RunMultipart, filterVars
  <2>4. Parses'
    BY <2>3 DEF Parses, IsFileUploadAllowed, IsDataParsingAllowed
  <2> QED
    BY <2>2, <2>3, <2>4 DEF FilterInv, OnlyFormsAreParsed
<1>3. ASSUME \/ Ignore \/ RunFails \/ RunData \/ RunFile
      PROVE  FilterInv'
  <2>1. /\ state = "Begin" /\ state' = state /\ match' \in {match, 0}
        /\ at' \in {at, upto} /\ pc' \in {pc, "refused"}
        /\ UNCHANGED <<inputVars, header, literal, data, buf, headVars, filterVars, body>>
    BY <1>3 DEF Ignore, RunFails, ReadBeginFails, RunData, RunFile, FilterInv,
                OnlyFormsAreParsed
  <2>2. streamBuf' \in Texts
    <3>1. streamBuf \o Rest \in Texts
      BY <1>0, TextConcat
    <3> QED
      BY <1>0, <1>3, <3>1 DEF Ignore, RunFails, ReadBeginFails, RunData, RunFile, resultVars
  <2>3. files' \in Seq(Files)
    <3>1. CASE UNCHANGED files
      BY <1>0, <3>1 DEF TypeOK
    <3>2. CASE RunFile
      <4>1. files \in Seq(Files) /\ Len(files) \in Nat /\ DOMAIN files = 1 .. Len(files)
        BY <1>0, LenProperties DEF TypeOK
      <4>2. ASSUME NEW i \in DOMAIN files
            PROVE  (IF Len(files[i].content) + Len(Rest) < MaxFile
                    THEN [files[i] EXCEPT !.content = @ \o Rest] ELSE files[i]) \in Files
        <5>1. files[i] \in Files
          BY <4>1, ElementOfSeq
        <5>2. files[i].content \o Rest \in Texts
          BY <1>0, <5>1, TextConcat DEF Files
        <5>3. [files[i] EXCEPT !.content = @ \o Rest] \in Files
          BY <5>1, <5>2 DEF Files
        <5> QED
          BY <5>1, <5>3
      <4>3. files' \in [1 .. Len(files) -> Files]
        BY <3>2, <4>1, <4>2 DEF RunFile
      <4> QED
        BY <4>1, <4>3, SeqDef
    <3> QED
      BY <1>3, <3>1, <3>2 DEF Ignore, RunFails, ReadBeginFails, RunData, resultVars
  <2>4. at' \in 0 .. upto /\ match' \in 0 .. Len(Boundary)
    BY <1>0, <2>1, BoundaryType DEF TypeOK
  <2>5. TypeOK'
    BY <1>0, <2>1, <2>2, <2>3, <2>4 DEF TypeOK, inputVars, headVars
  <2> QED
    BY <2>1, <2>5 DEF FilterInv, ReadInv, Delimiting, FileIsOpen, ContentIsContiguous,
                      OnlyFormsAreParsed
<1>4. CASE StepDone
  <2>1. /\ pc = "run" /\ pc' = "wait"
        /\ UNCHANGED <<inputVars, parserVars, filterVars, body>>
    BY <1>4 DEF StepDone
  <2>2. TypeOK' /\ Content' = Content
    BY <1>0, <2>1 DEF TypeOK, Content, inputVars, parserVars, headVars, resultVars
  <2> QED
    BY <1>0, <2>1, <2>2
       DEF FilterInv, ReadInv, Delimiting, FileIsOpen, ContentIsContiguous,
           OnlyFormsAreParsed, Parses, IsFileUploadAllowed, IsDataParsingAllowed,
           inputVars, parserVars, filterVars, resultVars
<1>5. CASE Finalize
  <2>1. /\ pc' = "done" /\ files' = <<>>
        /\ UNCHANGED <<inputVars, at, state, header, literal, data, match, buf,
                       headVars, streamBuf, filterVars, body>>
    BY <1>5 DEF Finalize
  <2>2. <<>> \in Seq(Files)
    BY EmptySeq
  <2>3. TypeOK'
    BY <1>0, <2>1, <2>2 DEF TypeOK, inputVars, headVars
  <2> QED
    BY <1>0, <2>1, <2>3
       DEF FilterInv, ReadInv, Delimiting, FileIsOpen, ContentIsContiguous,
           OnlyFormsAreParsed, Parses, IsFileUploadAllowed, IsDataParsingAllowed,
           inputVars, filterVars
<1>6. CASE UNCHANGED vars
  <2>1. UNCHANGED <<inputVars, parserVars, filterVars, pc, body>>
    BY <1>6 DEF vars
  <2>2. TypeOK' /\ Content' = Content
    BY <1>0, <2>1 DEF TypeOK, Content, inputVars, parserVars, headVars, resultVars
  <2> QED
    BY <1>0, <2>1, <2>2
       DEF FilterInv, ReadInv, Delimiting, FileIsOpen, ContentIsContiguous,
           OnlyFormsAreParsed, Parses, IsFileUploadAllowed, IsDataParsingAllowed,
           inputVars, parserVars, filterVars, resultVars
<1> QED
  BY <1>1, <1>2, <1>3, <1>4, <1>5, <1>6, Zenon DEF Next, Run

(***************************************************************************)
(* A body that arrives is a text, whether a unit of it is lost or not.     *)
(***************************************************************************)
LEMMA SentIsText ==
    ASSUME Init
    PROVE  stream \in Texts
<1>1. ASSUME NEW q \in Requests,
             intact = (q.lost = 0),
             stream = IF intact THEN EncodedForm(q.form)
                      ELSE RemoveAt(EncodedForm(q.form), q.lost)
      PROVE  stream \in Texts
  <2>1. PICK e : e = EncodedForm(q.form)
    OBVIOUS
  <2>2. PICK i : i = q.lost
    OBVIOUS
  <2>3. e \in Texts /\ e \in Seq(Units) /\ i \in 0 .. Len(e) /\ Len(e) \in Nat
    <3>1. e \in Texts /\ i \in 0 .. Len(e)
      BY <2>1, <2>2, RequestsAssumption
    <3> QED
      BY <3>1, LenProperties DEF Texts
  <2>4. CASE i = 0
    BY <1>1, <2>1, <2>2, <2>3, <2>4
  <2>5. CASE i # 0
    <3>1. stream = SubSeq(e, 1, i - 1) \o SubSeq(e, i + 1, Len(e))
      BY <1>1, <2>1, <2>2, <2>5 DEF RemoveAt
    <3>2. /\ i - 1 \in 0 .. Len(e) /\ i + 1 \in Nat \ {0} /\ Len(e) \in 0 .. Len(e)
          /\ 1 \in Nat \ {0}
      BY <2>3, <2>5
    <3>3. SubSeq(e, 1, i - 1) \in Texts /\ SubSeq(e, i + 1, Len(e)) \in Texts
      BY <2>3, <3>2, SubSeqType DEF Texts
    <3> QED
      BY <3>1, <3>3, TextConcat
  <2> QED
    BY <2>4, <2>5
<1>2. ASSUME NEW q \in Others, stream = q.body
      PROVE  stream \in Texts
  BY <1>2, OthersAssumption
<1> QED
  BY <1>1, <1>2 DEF Init, Send

(***************************************************************************)
(* The invariant holds of a new filter.                                    *)
(***************************************************************************)
LEMMA FilterInit ==
    ASSUME Init
    PROVE  FilterInv
<1>1. /\ ParserInit /\ upto = 0 /\ body = <<>> /\ stream \in Texts
      /\ files = IF accept = "Files" THEN Uploads(<<>>) ELSE <<>>
      /\ pc \in {"refused", "wait"}
  BY SentIsText DEF Init, Send
<1>2. files \in Seq(Files)
  <2>1. <<"x">> \in Texts
    <3>1. "x" \in Units
      BY UnitsAssumption
    <3> QED
      BY <3>1 DEF Texts
  <2>2. PICK f : f = [name |-> <<"x">>, type |-> <<"x">>, file |-> <<>>,
                      size |-> Len(stream), content |-> <<>>]
    OBVIOUS
  <2>3. Len(stream) \in Nat
    BY <1>1, LenProperties DEF Texts
  <2>4. f \in Files
    BY <2>1, <2>2, <2>3, TextEmpty DEF Files
  <2>5. <<f>> \in Seq(Files) /\ <<>> \in Seq(Files)
    BY <2>4
  <2>6. files \in {<<f>>, <<>>}
    BY <1>1, <2>2 DEF Uploads
  <2> QED
    BY <2>5, <2>6
<1>3. Len(stream) \in Nat
  BY <1>1, LenProperties DEF Texts
<1>4. TypeOK
  BY <1>1, <1>2, <1>3, BoundaryType, TextEmpty DEF TypeOK, ParserInit, States, Headers
<1> QED
  BY <1>1, <1>4 DEF ParserInit, FilterInv, ReadInv, Delimiting, FileIsOpen,
                    ContentIsContiguous, OnlyFormsAreParsed

(***************************************************************************)
(* Every step keeps it.                                                    *)
(***************************************************************************)
LEMMA FilterInvariance == Spec => []FilterInv
<1>1. Init => FilterInv
  BY FilterInit
<1>2. FilterInv /\ [Next]_vars => FilterInv'
  BY FilterKeeps
<1> QED
  BY <1>1, <1>2, PTL DEF Spec

(***************************************************************************)
(* For every form, body, limit and piece, damaged bodies too: the parser   *)
(* never reads past its piece, whichever unit it stops at, and its buffers *)
(* and files are texts.                                                    *)
(***************************************************************************)
THEOREM FilterTypeCorrect == Spec => []TypeOK
<1>1. FilterInv => TypeOK
  BY DEF FilterInv, ReadInv
<1> QED
  BY <1>1, FilterInvariance, PTL

(***************************************************************************)
(* What is kept of a part is a run of the body that begins after its       *)
(* header, wherever the pieces end and however often content looks like a  *)
(* delimiter.                                                              *)
(***************************************************************************)
THEOREM ContentIsARun == Spec => []ContentIsContiguous
<1>1. FilterInv => ContentIsContiguous
  BY DEF FilterInv, ReadInv
<1> QED
  BY <1>1, FilterInvariance, PTL

-----------------------------------------------------------------------------
(***************************************************************************)
(* Bodies that no parser of forms reads.                                   *)
(***************************************************************************)

NoForm == ~(accept = "Multipart" /\ Parses)

\* What there is of the value or of the file.
ReadSoFar ==
    /\ root = NoFields
    /\ streamBuf = IF Parses /\ accept \in {"Json", "Urlencoded"}
                   THEN SubSeq(stream, 1, at) ELSE <<>>
    /\ files = IF accept = "Files"
               THEN Uploads(IF Parses THEN SubSeq(stream, 1, at) ELSE <<>>) ELSE <<>>

SeenInv ==
    /\ body = IF "Body" \in required THEN SubSeq(stream, 1, upto) ELSE <<>>
    /\ accept \in {"None", "Multipart", "Json", "Urlencoded", "Files"}
    /\ accept = "None" => pc = "refused"
    /\ NoForm /\ pc # "done" => ReadSoFar
    /\ NoForm => HandlerSees

(***************************************************************************)
(* A body is taken as what it is sent as.                                  *)
(***************************************************************************)
LEMMA SeenInit ==
    ASSUME Init
    PROVE  SeenInv
<1>1. /\ ParserInit /\ upto = 0 /\ at = 0 /\ body = <<>>
      /\ files = IF accept = "Files" THEN Uploads(<<>>) ELSE <<>>
      /\ pc = IF accept = "None" THEN "refused" ELSE "wait"
  BY DEF Init, Send, ParserInit
<1>2. SubSeq(stream, 1, 0) = <<>>
  BY SubSeqEmpty
<1>3. accept \in {"None", "Multipart", "Json", "Urlencoded", "Files"}
  BY OthersAssumption DEF Init, Send, AcceptedData
<1>4. ReadSoFar
  BY <1>1, <1>2 DEF ReadSoFar, ParserInit
<1>5. HandlerSees
  BY <1>1 DEF HandlerSees
<1> QED
  BY <1>1, <1>2, <1>3, <1>4, <1>5 DEF SeenInv

(***************************************************************************)
(* A piece that is read goes on from what there is.                        *)
(***************************************************************************)
LEMMA ReadTogether ==
    ASSUME TypeOK
    PROVE  /\ SubSeq(stream, 1, at) \o Rest = SubSeq(stream, 1, upto)
           /\ Len(SubSeq(stream, 1, at)) = at
           /\ Len(Rest) = upto - at
<1>0. /\ at \in Nat /\ upto \in Nat /\ at <= upto /\ upto <= Len(stream)
      /\ stream \in Seq(Units) /\ InBody /\ Len(stream) \in Nat
  BY Typed
<1>1. /\ SubSeq(stream, 0 + 1, at) \in Seq(Units)
      /\ SubSeq(stream, 0 + 1, at) \o SubSeq(stream, at + 1, upto) = SubSeq(stream, 0 + 1, upto)
  <2>1. 0 \in Nat /\ 0 <= at
    BY <1>0
  <2> QED
    BY <1>0, <2>1, RunJoin
<1>2. Len(SubSeq(stream, 0 + 1, at)) = at - 0
  <2>1. 0 \in Nat /\ 0 <= at /\ at <= Len(stream)
    BY <1>0
  <2>2. PICK p : p = SubSeq(stream, 0 + 1, at)
    OBVIOUS
  <2>3. Len(p) = at - 0
    BY <1>0, <2>1, <2>2, RunType
  <2> QED
    BY <2>2, <2>3
<1>3. Len(Rest) = upto - at
  BY <1>0, RestType
<1> QED
  BY <1>0, <1>1, <1>2, <1>3 DEF Rest

(***************************************************************************)
(* What a record of a file is once its content is another: EXCEPT, spelled *)
(* out for records whose fields are left as they are.                      *)
(***************************************************************************)
LEMMA ContentReplaced ==
    ASSUME NEW a, NEW b, NEW c, NEW d, NEW x, NEW y, NEW r,
           r = [name |-> a, type |-> b, file |-> c, size |-> d, content |-> x]
    PROVE  /\ r.content = x
           /\ [r EXCEPT !.content = y]
                = [name |-> a, type |-> b, file |-> c, size |-> d, content |-> y]
  OBVIOUS

(***************************************************************************)
(* FileParser adds each piece to the file: one that is below the limit as  *)
(* a whole is below it with every piece.                                   *)
(***************************************************************************)
LEMMA FileGrows ==
    ASSUME TypeOK, RunFile, files = Uploads(SubSeq(stream, 1, at))
    PROVE  files' = Uploads(SubSeq(stream, 1, upto))'
<1>1. /\ at' = upto /\ stream' = stream /\ upto' = upto
      /\ files' = [i \in DOMAIN files |->
                     IF Len(files[i].content) + Len(Rest) < MaxFile
                     THEN [files[i] EXCEPT !.content = @ \o Rest] ELSE files[i]]
  BY DEF RunFile, inputVars
<1>2. PICK s : s = SubSeq(stream, 1, at)
  OBVIOUS
<1>3. PICK t : t = SubSeq(stream, 1, upto)
  OBVIOUS
<1>4. s \o Rest = t /\ Len(s) = at /\ Len(Rest) = upto - at
  BY <1>2, <1>3, ReadTogether
<1>5. PICK f : f = [name |-> <<"x">>, type |-> <<"x">>, file |-> <<>>,
                    size |-> Len(stream), content |-> s]
  OBVIOUS
<1>6. PICK g : g = [name |-> <<"x">>, type |-> <<"x">>, file |-> <<>>,
                    size |-> Len(stream), content |-> t]
  OBVIOUS
<1>7. CASE Len(stream) < MaxFile
  <2>1. files = <<f>>
    BY <1>2, <1>5, <1>7 DEF Uploads
  <2>2. DOMAIN files = {1} /\ files[1] = f /\ files[1].content = s
    <3>1. <<f>> \in Seq({f}) /\ Len(<<f>>) = 1 /\ <<f>>[1] = f
      OBVIOUS
    <3>2. DOMAIN <<f>> = 1 .. 1
      BY <3>1, LenProperties
    <3>3. f.content = s
      BY <1>5
    <3> QED
      BY <2>1, <3>1, <3>2, <3>3
  <2>3. Len(files[1].content) + Len(Rest) < MaxFile
    <3>1. /\ at \in Nat /\ upto \in Nat /\ at <= upto /\ upto <= Len(stream)
          /\ Len(stream) \in Nat /\ MaxFile \in Nat
      BY Typed, LimitAssumption
    <3> QED
      BY <1>4, <1>7, <2>2, <3>1
  <2>4. [f EXCEPT !.content = @ \o Rest] = g
    <3>1. f.content = s
      BY <1>5, ContentReplaced
    <3>2. [f EXCEPT !.content = @ \o Rest] = [f EXCEPT !.content = t]
      BY <1>4, <3>1
    <3>3. [f EXCEPT !.content = t] = g
      BY <1>5, <1>6, ContentReplaced
    <3> QED
      BY <3>2, <3>3
  <2>5. files' = [i \in {1} |-> g]
    BY <1>1, <2>2, <2>3, <2>4
  <2>6. [i \in {1} |-> g] = <<g>>
    OBVIOUS
  <2> QED
    BY <1>1, <1>3, <1>6, <1>7, <2>5, <2>6 DEF Uploads
<1>8. CASE ~(Len(stream) < MaxFile)
  <2>1. files = <<>>
    BY <1>8 DEF Uploads
  <2>2. DOMAIN files = {}
    BY <2>1
  <2>3. files' = <<>>
    BY <1>1, <2>2
  <2> QED
    BY <1>1, <1>8, <2>3 DEF Uploads
<1> QED
  BY <1>7, <1>8

(***************************************************************************)
(* Until the body is complete the handler has not seen anything, and what  *)
(* there is follows what was read.                                         *)
(***************************************************************************)
LEMMA SeenKeeps ==
    ASSUME TypeOK, SeenInv, [Next]_vars
    PROVE  SeenInv'
<1>0. /\ at \in Nat /\ upto \in Nat /\ Len(stream) \in Nat
      /\ at <= upto /\ upto <= Len(stream) /\ stream \in Seq(Units)
  BY Typed
<1> USE DEF NoForm, Parses, IsFileUploadAllowed, IsDataParsingAllowed
<1>1. ASSUME NEW n \in 1 .. Len(stream), Step(n)
      PROVE  SeenInv'
  <2>1. /\ pc = "wait" /\ pc' = "run" /\ upto' = n
        /\ body' = IF "Body" \in required THEN SubSeq(stream, 1, n) ELSE body
        /\ UNCHANGED <<required, stream, accept, intact, form, at, root, streamBuf, files, seen>>
    BY <1>1 DEF Step, filterVars, parserVars, resultVars
  <2>2. NoForm => ReadSoFar'
    BY <2>1 DEF SeenInv, ReadSoFar, Uploads
  <2>3. HandlerSees'
    BY <2>1 DEF HandlerSees
  <2> QED
    BY <2>1, <2>2, <2>3 DEF SeenInv
<1>2. CASE RunMultipart
  <2>1. /\ accept = "Multipart" /\ Parses /\ UNCHANGED <<filterVars, pc, body, seen>>
    BY <1>2 DEF RunMultipart
  <2>2. UNCHANGED inputVars
    BY <1>2 DEF RunMultipart, Read, ReadBegin, ReadBlock, ReadHeaderName, ReadHeaderEnd,
                ReadDisposition, ReadParam, ReadOn, ReadHeaderValue, ReadLiteralBegin,
                ReadPlainLiteral, ReadQuotedLiteral, ReadDummy, ReadData, ReadMismatch,
                ReadDelimiter, RunEnds
  <2> QED
    BY <2>1, <2>2 DEF SeenInv, filterVars, inputVars
<1>3. CASE RunFails
  BY <1>3 DEF RunFails, ReadBeginFails, SeenInv, filterVars, inputVars
<1>4. CASE Ignore
  <2>1. /\ pc = "run" /\ ~Parses
        /\ UNCHANGED <<inputVars, filterVars, root, files, streamBuf, pc, body, seen>>
    BY <1>4 DEF Ignore, resultVars
  <2>2. ReadSoFar'
    BY <2>1 DEF SeenInv, ReadSoFar, Uploads, inputVars, filterVars
  <2>3. HandlerSees'
    BY <2>1 DEF HandlerSees
  <2> QED
    BY <2>1, <2>2, <2>3 DEF SeenInv, inputVars, filterVars
<1>5. CASE RunData
  <2>1. /\ pc = "run" /\ Parses /\ accept \in {"Json", "Urlencoded"}
        /\ streamBuf' = streamBuf \o Rest /\ at' = upto
        /\ UNCHANGED <<inputVars, filterVars, root, files, pc, body, seen>>
    BY <1>5 DEF RunData
  <2>2. streamBuf' = SubSeq(stream, 1, upto)
    BY <2>1, ReadTogether DEF SeenInv, ReadSoFar
  <2>3. ReadSoFar'
    BY <2>1, <2>2 DEF SeenInv, ReadSoFar, inputVars, filterVars
  <2>4. HandlerSees'
    BY <2>1 DEF HandlerSees
  <2> QED
    BY <2>1, <2>3, <2>4 DEF SeenInv, inputVars, filterVars
<1>6. CASE RunFile
  <2>1. /\ pc = "run" /\ Parses /\ accept = "Files" /\ at' = upto
        /\ UNCHANGED <<inputVars, filterVars, root, streamBuf, pc, body, seen>>
    BY <1>6 DEF RunFile
  <2>2. files = Uploads(SubSeq(stream, 1, at))
    BY <2>1 DEF SeenInv, ReadSoFar
  <2>3. files' = Uploads(SubSeq(stream, 1, upto))'
    BY <1>6, <2>2, FileGrows
  <2>4. ReadSoFar'
    BY <2>1, <2>2, <2>3 DEF SeenInv, ReadSoFar, inputVars, filterVars, Uploads
  <2>5. HandlerSees'
    BY <2>1 DEF HandlerSees
  <2> QED
    BY <2>1, <2>4, <2>5 DEF SeenInv, inputVars, filterVars
<1>7. CASE StepDone
  <2>1. /\ pc = "run" /\ pc' = "wait"
        /\ UNCHANGED <<inputVars, filterVars, at, root, streamBuf, files, body, seen>>
    BY <1>7 DEF StepDone, parserVars, resultVars
  <2>2. NoForm => ReadSoFar'
    BY <2>1 DEF SeenInv, ReadSoFar, Uploads, inputVars, filterVars
  <2>3. HandlerSees'
    BY <2>1 DEF HandlerSees
  <2> QED
    BY <2>1, <2>2, <2>3 DEF SeenInv, inputVars, filterVars
<1>8. CASE Finalize
  <2>1. PICK value : value = IF Parses /\ accept \in {"Json", "Urlencoded"}
                             THEN Value(streamBuf) ELSE root
    OBVIOUS
  <2>2. /\ pc = "run" /\ at = upto /\ upto = Len(stream) /\ pc' = "done"
        /\ seen' = [root |-> value, files |-> files, body |-> body]
        /\ UNCHANGED <<inputVars, filterVars, body>>
    BY <1>8, <2>1 DEF Finalize
  <2>3. SubSeq(stream, 1, at) = stream /\ SubSeq(stream, 1, upto) = stream
    BY <1>0, <2>2, SubSeqFull
  <2>4. NoForm => HandlerSees'
    <3> SUFFICES ASSUME NoForm
                 PROVE  HandlerSees'
      OBVIOUS
    <3>1. /\ root = NoFields /\ accept \in {"Multipart", "Json", "Urlencoded", "Files"}
          /\ streamBuf = IF Parses /\ accept \in {"Json", "Urlencoded"} THEN stream ELSE <<>>
          /\ files = IF accept = "Files"
                     THEN Uploads(IF Parses THEN stream ELSE <<>>) ELSE <<>>
          /\ body = IF "Body" \in required THEN stream ELSE <<>>
      BY <2>2, <2>3 DEF SeenInv, ReadSoFar
    <3>2. seen'.body = (IF "Body" \in required THEN stream ELSE <<>>)'
      BY <2>2, <3>1 DEF inputVars
    <3>3. seen'.root = (CASE ~Parses \/ accept = "Files" -> NoFields
                          [] accept = "Multipart" /\ Parses -> Fields(form)
                          [] OTHER -> Value(stream))'
      BY <2>1, <2>2, <3>1 DEF inputVars, filterVars, Value
    <3>4. seen'.files = (CASE accept = "Files" -> Uploads(IF Parses THEN stream ELSE <<>>)
                           [] accept = "Multipart" /\ Parses -> FilesIn(form)
                           [] OTHER -> <<>>)'
      BY <2>2, <3>1 DEF inputVars, filterVars, Uploads
    <3> QED
      BY <3>2, <3>3, <3>4 DEF HandlerSees
  <2> QED
    BY <2>2, <2>4 DEF SeenInv, inputVars, filterVars
<1>9. CASE UNCHANGED vars
  <2>1. UNCHANGED <<inputVars, filterVars, at, root, streamBuf, files, pc, body, seen>>
    BY <1>9 DEF vars, parserVars, resultVars
  <2>2. NoForm /\ pc # "done" => ReadSoFar'
    BY <2>1 DEF SeenInv, ReadSoFar, Uploads, inputVars, filterVars
  <2>3. NoForm => HandlerSees'
    BY <2>1 DEF SeenInv, HandlerSees, Uploads, Value, Fields, FilesIn, inputVars, filterVars
  <2> QED
    BY <2>1, <2>2, <2>3 DEF SeenInv, inputVars, filterVars
<1> QED
  BY <1>1, <1>2, <1>3, <1>4, <1>5, <1>6, <1>7, <1>8, <1>9, Zenon DEF Next, Run

(***************************************************************************)
(* A body that no parser of forms reads reaches the handler as it was      *)
(* sent, however it is cut: the value has the whole text, the file is      *)
(* whole or, too large, was never made, and what the handler did not ask   *)
(* for is empty.                                                           *)
(***************************************************************************)
THEOREM OtherBodiesAreSeen == Spec => [](NoForm => HandlerSees)
<1>1. Init => SeenInv
  BY SeenInit
<1>2. TypeOK /\ SeenInv /\ [Next]_vars => SeenInv'
  BY SeenKeeps
<1>3. SeenInv => (NoForm => HandlerSees)
  BY Zenon DEF SeenInv
<1> QED
  BY <1>1, <1>2, <1>3, FilterTypeCorrect, PTL DEF Spec
=============================================================================
