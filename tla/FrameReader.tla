----------------------------- MODULE FrameReader ----------------------------
(***************************************************************************)
(* stappler::web::WebsocketFrameReader: the state machine that puts the    *)
(* frames of a websocket together from the bytes the connection reads.     *)
(* The reader is a value; each operation of the class is an operator.      *)
(*                                                                         *)
(*   Head --> Size16 | Size64 --> Mask --> Body    --> Head                *)
(*     +---------------------------^  +--> Control --> Head                *)
(*                                                                         *)
(* A byte is the set of its bits together with the set of the unknown      *)
(* bytes of the peer (keys, payload) that are XORed into it: XOR is the    *)
(* symmetric difference of both.  The constants scale the widths of the    *)
(* protocol down.                                                          *)
(***************************************************************************)
EXTENDS Naturals, Sequences, FiniteSets, FiniteSetsExt, SequencesExt

CONSTANTS
    Small,          \* the largest size the head itself says: 125
    Size16Max,      \* maxOf<uint16_t>()
    Most,           \* max, the largest message
    BufferSize      \* of the StackBuffer heads and control frames are read to: 128

ASSUME ReaderAssumption ==
    /\ Small \in Nat /\ Small < 126
    /\ Size16Max \in Nat /\ Small < Size16Max /\ Size16Max < 2^16
    /\ Most \in Nat
    /\ BufferSize \in Nat /\ BufferSize >= 8

----------------------------------------------------------------------------
\* Bytes.
Bits(n) == {k \in 0 .. 7 : (n \div 2^k) % 2 = 1}
Plain(n) == [bits |-> Bits(n), hidden |-> {}]
Hidden(name) == [bits |-> {}, hidden |-> {name}]

Unknown == Nat \X Nat
Bytes == [bits : SUBSET (0 .. 7), hidden : SUBSET Unknown]

Differ(S, T) == (S \ T) \cup (T \ S)
Xor(a, b) == [bits |-> Differ(a.bits, b.bits), hidden |-> Differ(a.hidden, b.hidden)]

Worth(bits, k) == IF k \in bits THEN 2^k ELSE 0
Number(bits) == Worth(bits, 0) + Worth(bits, 1) + Worth(bits, 2) + Worth(bits, 3)
                + Worth(bits, 4) + Worth(bits, 5) + Worth(bits, 6) + Worth(bits, 7)
BigEndian(bytes) ==
    LET value[n \in 0 .. Len(bytes)] ==
            IF n = 0 THEN 0 ELSE value[n - 1] * 256 + Number(bytes[n].bits)
    IN  value[Len(bytes)]

OpcodeOf == [Continue |-> 0, Text |-> 1, Binary |-> 2, Close |-> 8, Ping |-> 9, Pong |-> 10]
Types == DOMAIN OpcodeOf \cup {"None"}

TypeFromOpcode(n) ==
    IF \E t \in DOMAIN OpcodeOf : OpcodeOf[t] = n
    THEN CHOOSE t \in DOMAIN OpcodeOf : OpcodeOf[t] = n
    ELSE "None"

IsControlFrameType(t) == t \in {"Close", "Continue", "Ping", "Pong"}

----------------------------------------------------------------------------
Statuses == {"Head", "Size16", "Size64", "Mask", "Body", "Control"}
Errors == {"None", "ExtraIsNotEmpty", "NotMasked", "UnknownOpcode",
           "InvalidSegment", "InvalidSize", "InvalidAction"}

NoFrame == [fin |-> TRUE, type |-> "None", buffer |-> <<>>, block |-> 0, offset |-> 0]

DataFrames == [fin : BOOLEAN, type : Types, buffer : Seq(Bytes), block : Nat, offset : Nat]
Readers == [status : Statuses, error : Errors, fin : BOOLEAN, masked : BOOLEAN, type : Types,
            size : Nat, mask : Seq(Bytes), buffer : Seq(Bytes), frame : DataFrames]

\* The reader once run has called clear.
NewReader ==
    [status |-> "Head", error |-> "None", fin |-> FALSE, masked |-> FALSE,
     type |-> "None", size |-> 0, mask |-> <<>>, buffer |-> <<>>, frame |-> NoFrame]

Missing(n, limit) == IF n < limit THEN limit - n ELSE 0

RequiredBytes(r) ==
    CASE r.status \in {"Head", "Size16"} -> Missing(Len(r.buffer), 2)
      [] r.status = "Size64" -> Missing(Len(r.buffer), 8)
      [] r.status = "Mask" -> Missing(Len(r.buffer), 4)
      [] r.status = "Body" -> Missing(r.frame.offset, r.size)
      [] r.status = "Control" -> Missing(Len(r.buffer), r.size)

\* How much of it prepare has room for: a payload has its own, and everything
\* else what is left of the buffer.
PreparedBytes(r) ==
    IF r.status = "Body" \/ Len(r.buffer) + RequiredBytes(r) <= BufferSize
    THEN RequiredBytes(r)
    ELSE Missing(Len(r.buffer), BufferSize)

\* Mutant of Unmask: every piece begins with the first byte of the key.
UnmaskFromStart(mask, offset, data) ==
    [i \in DOMAIN data |-> Xor(data[i], mask[((i - 1) % 4) + 1])]

Unmask(mask, offset, data) ==
    [i \in DOMAIN data |-> Xor(data[i], mask[((offset + i - 1) % 4) + 1])]

Invalid(r, error) == [r EXCEPT !.error = error]

\* The two bytes of the head, decoded by updateState.
ReadHead(r) ==
    LET one == r.buffer[1].bits
        two == r.buffer[2].bits
        head == [r EXCEPT !.fin = 7 \in one,
                          !.type = TypeFromOpcode(Number(one \cap 0 .. 3)),
                          !.masked = 7 \in two,
                          !.size = Number(two \cap 0 .. 6),
                          !.mask = <<>>]
    IN  CASE one \cap 4 .. 6 # {} -> Invalid(head, "ExtraIsNotEmpty")
          [] one \cap 4 .. 6 = {} /\ ~head.masked -> Invalid(head, "NotMasked")
          [] one \cap 4 .. 6 = {} /\ head.masked /\ head.type = "None" ->
                Invalid(head, "UnknownOpcode")
          [] OTHER ->
                IF r.frame.buffer # <<>> /\ ~IsControlFrameType(head.type)
                THEN Invalid(head, "InvalidSegment")
                ELSE IF head.size > Most THEN Invalid(head, "InvalidSize")
                ELSE IF head.size = Small + 1
                THEN [head EXCEPT !.size = 0, !.status = "Size16", !.buffer = <<>>]
                ELSE IF head.size = Small + 2
                THEN [head EXCEPT !.size = 0, !.status = "Size64", !.buffer = <<>>]
                ELSE [head EXCEPT !.status = "Mask", !.buffer = <<>>]

\* shouldPrepareBody: room for the payload, after what earlier blocks left.
PrepareBody(r) ==
    IF IsControlFrameType(r.type) THEN [r EXCEPT !.status = "Control"]
    ELSE IF r.size + r.frame.block > Most THEN Invalid(r, "InvalidSize")
    ELSE [r EXCEPT !.frame.buffer =
            [i \in 1 .. r.size + r.frame.block |->
                IF i <= Len(r.frame.buffer) THEN r.frame.buffer[i] ELSE Plain(0)]]

ReadSize(r) ==
    LET sized == [r EXCEPT !.size = BigEndian(r.buffer)]
    IN  IF sized.size > Most THEN Invalid(sized, "InvalidSize")
        ELSE IF r.masked THEN [sized EXCEPT !.status = "Mask", !.buffer = <<>>]
        ELSE PrepareBody([sized EXCEPT !.status = "Body", !.buffer = <<>>])

ReadMask(r) ==
    PrepareBody([r EXCEPT !.mask = r.buffer, !.status = "Body", !.buffer = <<>>])

\* A body is complete: fin and the opcode of the first block are kept.
EndBody(r) ==
    [r EXCEPT !.frame.fin = r.fin,
              !.frame.block = @ + r.size,
              !.frame.type = IF r.type # "Continue" THEN r.type ELSE @]

UpdateState(r) ==
    CASE r.status = "Head" -> ReadHead(r)
      [] r.status \in {"Size16", "Size64"} -> ReadSize(r)
      [] r.status = "Mask" -> ReadMask(r)
      [] r.status = "Body" -> EndBody(r)
      [] r.status = "Control" -> r

\* save: where prepare had the bytes put, and the next state when they are all
\* there.  A reader with an error is one for which save returned false.
Save(r, bytes) ==
    LET from == r.frame.block + r.frame.offset
        plain == Unmask(r.mask, r.frame.offset, bytes)
        kept ==
          IF r.status = "Body"
          THEN [r EXCEPT
                 !.frame.buffer = [i \in DOMAIN @ |->
                    IF i \in from + 1 .. from + Len(bytes) THEN plain[i - from] ELSE @[i]],
                 !.frame.offset = @ + Len(bytes)]
          ELSE [r EXCEPT !.buffer = @ \o bytes]
    IN  IF RequiredBytes(kept) = 0 THEN UpdateState(kept) ELSE kept

IsControlReady(r) == r.status = "Control" /\ RequiredBytes(r) = 0

IsFrameReady(r) == r.status = "Body" /\ RequiredBytes(r) = 0 /\ r.frame.fin

\* popFrame, with clear for a frame of data.
PopFrame(r) ==
    CASE r.status = "Control" -> [r EXCEPT !.buffer = <<>>, !.status = "Head"]
      [] r.status = "Body" -> [r EXCEPT !.status = "Head", !.frame = NoFrame]
      [] OTHER -> Invalid(r, "InvalidAction")

----------------------------------------------------------------------------
\* What a peer puts on the wire for its f-th frame, with any opcode and extra
\* bits; its size fits eight bytes.
Upper(n) == LET up[j \in 0 .. 8] == IF j = 0 THEN n ELSE up[j - 1] \div 256 IN up
Octets(n, width) == [i \in 1 .. width |-> Plain(Upper(n)[width - i] % 256)]

PeerFrames == [fin : BOOLEAN, extra : {k \in 0 .. 127 : k % 16 = 0}, opcode : 0 .. 15,
               masked : BOOLEAN, size : Nat]
Key(f) == [i \in 1 .. 4 |-> Hidden(<<f, i>>)]
Payload(f, frame) == [i \in 1 .. frame.size |-> Hidden(<<f, 4 + i>>)]

Code(n) == IF n <= Small THEN n ELSE IF n <= Size16Max THEN Small + 1 ELSE Small + 2
Width(n) == IF n <= Small THEN 0 ELSE IF n <= Size16Max THEN 2 ELSE 8

Encoded(f, frame) ==
    LET one == Plain((IF frame.fin THEN 128 ELSE 0) + frame.extra + frame.opcode)
        two == Plain((IF frame.masked THEN 128 ELSE 0) + Code(frame.size))
    IN  <<one, two>> \o Octets(frame.size, Width(frame.size))
        \o (IF frame.masked THEN Key(f) \o Unmask(Key(f), 0, Payload(f, frame))
            ELSE Payload(f, frame))
=============================================================================
