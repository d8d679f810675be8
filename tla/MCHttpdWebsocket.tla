-------------------------- MODULE MCHttpdWebsocket --------------------------
(* Instances of HttpdWebsocket for TLC.                                     *)
EXTENDS HttpdWebsocket

Frame(opcode, size) ==
    [fin |-> TRUE, extra |-> 0, opcode |-> opcode, masked |-> TRUE, size |-> size]
First(opcode, size) == [Frame(opcode, size) EXCEPT !.fin = FALSE]
Naked(opcode, size) == [Frame(opcode, size) EXCEPT !.masked = FALSE]

TwoBuckets == <<1, 3>>

\* In the head, the key or the size, and the payload or the size of the first
\* frame.
InFields == {1, 6, 9}

\* Sizes in the head, in two bytes and in eight, an empty message, a ping, one
\* that does not fit the reader's buffer, and the ends: a close frame, a frame
\* too large, one that is not masked, one of an unknown type, one with an extra
\* bit.
WholeFrames ==
    {<<Frame(1, 3), Frame(2, 0), Frame(9, 1), Frame(8, 2)>>,
     <<Frame(2, 4)>>,
     <<Frame(9, 9)>>,
     <<Frame(1, 10)>>,
     <<Naked(1, 1)>>,
     <<Frame(3, 0)>>,
     <<[Frame(1, 1) EXCEPT !.extra = 16]>>}

\* A message in two fragments.
Segments == {<<First(1, 1), Frame(0, 1)>>}
=============================================================================
