------------------------------ MODULE Exchange ------------------------------
(***************************************************************************)
(* What the unix server promises of one HTTP exchange, seen from outside:  *)
(* the handler is told the lines of the head in their order and each one   *)
(* once, then the body without a gap or a repetition, and once the first   *)
(* unit of the answer is on the wire nothing more of the request is taken; *)
(* the answer's units go out in order and there is one answer only.        *)
(*                                                                         *)
(* The request is the stream of units 1, 2, ...; its lines end at HeadEnds, *)
(* and the last of these ends the head.                                    *)
(***************************************************************************)
EXTENDS Integers, SequencesExt, FiniteSetsExt

CONSTANT HeadEnds       \* where the lines of the head end in the stream

VARIABLES
    lines,      \* the lines given to the request parser, as intervals
    body,       \* the pieces given to the input filter, as intervals
    wire        \* the units of the answer given to the kernel

vars == <<lines, body, wire>>

\* The end of the last interval of s, or start before the first.
UpTo(s, start) == IF s = <<>> THEN start ELSE Last(s)[2]

NextLine ==
    LET done == UpTo(lines, 0)
    IN  <<done + 1, Min({e \in HeadEnds : e > done})>>

HeadTaken == UpTo(lines, 0) = Max(HeadEnds)

\* The pieces follow each other from the unit after start on.
Contiguous(s, start) ==
    \A i \in DOMAIN s :
        /\ s[i][1] = UpTo(SubSeq(s, 1, i - 1), start) + 1
        /\ s[i][1] <= s[i][2]

Init == lines = <<>> /\ body = <<>> /\ wire = <<>>

TakeLine ==
    /\ wire = <<>> /\ ~HeadTaken
    /\ lines' = Append(lines, NextLine)
    /\ UNCHANGED <<body, wire>>

TakeBody ==
    /\ wire = <<>> /\ HeadTaken
    /\ body # body' /\ IsPrefix(body, body')
    /\ Contiguous(body', Max(HeadEnds))
    /\ UNCHANGED <<lines, wire>>

Answer ==
    /\ Len(wire') > Len(wire)
    /\ wire' = [i \in 1 .. Len(wire') |-> i]
    /\ UNCHANGED <<lines, body>>

Next == TakeLine \/ TakeBody \/ Answer

Spec == Init /\ [][Next]_vars
=============================================================================
