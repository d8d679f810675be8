----------------------------- MODULE BufferChain -----------------------------
(***************************************************************************)
(* ConnectionWorker::BufferChain as the client's input uses it: a list of   *)
(* buffers that is filled from the socket at its back and read at its      *)
(* front.  The units that arrive are numbered 1, 2, ... in the order of     *)
(* the stream, so a buffer is the run [first, first + size) of them.       *)
(* Reading goes from front to back, so that one number, the last unit read *)
(* (pos), is every buffer's offset.  absolute is what the code counts: it  *)
(* starts at zero again whenever the chain was empty.                      *)
(***************************************************************************)
EXTENDS Integers, SequencesExt, FiniteSetsExt

CONSTANTS
    Capacity,   \* units in a buffer
    LineLimit   \* UNIX_MAX_REQUEST_LINE, UNIX_MAX_HEADER_LINE

\* With 8 KiB buffers less their header no buffer begins at 64 KiB.
ASSUME ChainAssumption ==
    /\ Capacity \in Nat \ {0}
    /\ LineLimit \in Nat \ {0}
    /\ LineLimit % Capacity # 0

Lesser(a, b) == IF a < b THEN a ELSE b
Greater(a, b) == IF a > b THEN a ELSE b

End(b) == b.first + b.size - 1

Offset(b, pos) == Greater(0, Lesser(b.size, pos - b.first + 1))

AvailableForRead(b, pos) == b.size - Offset(b, pos)

\* Only the last buffer is asked.
IsEmpty(chain, pos) ==
    chain # <<>> => AvailableForRead(Last(chain), pos) = 0

\* The n units from the unit first on, into the room of the last buffer and
\* then into new ones.
ReadFromFd(chain, first, n) ==
    LET room == IF chain = <<>> THEN 0 ELSE Capacity - Last(chain).size
        kept == Lesser(room, n)
        base == IF chain = <<>> THEN 0 ELSE Last(chain).absolute + Capacity
        filled == IF chain = <<>> THEN <<>>
                  ELSE [chain EXCEPT ![Len(chain)].size = @ + kept]
        New(i) == [absolute |-> base + (i - 1) * Capacity,
                   first |-> first + kept + (i - 1) * Capacity,
                   size |-> Lesser(Capacity, n - kept - (i - 1) * Capacity)]
    IN  filled \o [i \in 1 .. (n - kept + Capacity - 1) \div Capacity |-> New(i)]

\* The buffers from the first on that is not read to its end.
ReleaseEmpty(chain, pos) ==
    LET kept == {i \in DOMAIN chain : pos < End(chain[i])}
    IN  IF kept = {} THEN <<>> ELSE SubSeq(chain, Min(kept), Len(chain))

\* The units up to last that are not read, buffer by buffer.
Unread(chain, pos, last) ==
    LET rest == ReleaseEmpty(chain, pos)
        n == Min({i \in DOMAIN rest : last <= End(rest[i])})
    IN  [i \in 1 .. n |-> <<Greater(rest[i].first, pos + 1), Lesser(End(rest[i]), last)>>]

\* Only the first buffer is asked, wherever reading has got to.
GetBytesRead(chain, pos) ==
    IF chain = <<>> THEN 0
    ELSE Head(chain).absolute + Offset(Head(chain), pos)

Garbled == <<0, 0>>

\* The units from the code's count bytesRead up to getBytesRead, as readRequest
\* and parseRequestHeader cut them out of the first buffer or extract them from
\* several; Garbled is memory that holds no such units.
Extract(chain, pos, bytesRead) ==
    LET front == Head(chain)
        length == GetBytesRead(chain, pos) - bytesRead
        used == IF Len(chain) = 1 THEN length ELSE Lesser(length, LineLimit)
        start == front.first + bytesRead - front.absolute
    IN  IF length > 0 /\ front.absolute <= bytesRead
        THEN <<start, start + used - 1>> ELSE Garbled

\* The ends of lines among the units that were not read yet.
FoundEnds(chain, pos, ends) ==
    {e \in ends : pos < e /\ chain # <<>> /\ e <= End(Last(chain))}

\* checkForReqeust and checkForHeader look for the end of a line buffer by
\* buffer, and give up at one that begins beyond the limit, or of which what is
\* unread, added to its place, reaches the limit and has no end they see: only so
\* many units of a buffer are looked at that its place is below the limit,
\* except in a buffer that begins above it.
Refused(chain, pos, ends, base) ==
    LET found == FoundEnds(chain, pos, ends)
        Reached(b) == found # {} => b.first <= Min(found)
        Beyond(b) == b.absolute > LineLimit + base
        Long(b) == b.absolute + AvailableForRead(b, pos) >= LineLimit + base
        Hidden(b, e) == /\ b.absolute < LineLimit
                        /\ e - b.first - Offset(b, pos) >= LineLimit - b.absolute
        Seen(b) == /\ found # {} /\ Min(found) <= End(b)
                   /\ ~Hidden(b, Min(found))
    IN  \E i \in DOMAIN chain :
            LET b == chain[i] IN Reached(b) /\ (Beyond(b) \/ (Long(b) /\ ~Seen(b)))
=============================================================================
