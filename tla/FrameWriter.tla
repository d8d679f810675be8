----------------------------- MODULE FrameWriter ----------------------------
(***************************************************************************)
(* stappler::web::WebsocketFrameWriter: the slots of a websocket           *)
(* connection where it keeps what its socket would not take.  A slot is a  *)
(* list of slices in a memory pool of its own.  The writer is the sequence *)
(* of its slots, and each operation of the class an operator.              *)
(***************************************************************************)
EXTENDS Naturals, Sequences, SequencesExt

CONSTANTS
    SlotSize,       \* 16_KiB
    SliceOverhead   \* sizeof(Slice)

ASSUME WriterAssumption == SlotSize \in Nat \ {0} /\ SliceOverhead \in Nat

NewSlot == [alloc |-> 0, offset |-> 0, slices |-> <<>>]

\* Mutant of NextEmplaceSlot: the new slot takes the place of the last one.
NextEmplaceSlotOver(writer, size) ==
    IF writer = <<>> THEN <<NewSlot>>
    ELSE IF Last(writer).alloc + size > SlotSize THEN Append(Front(writer), NewSlot)
    ELSE writer

NextEmplaceSlot(writer, size) ==
    IF writer = <<>> THEN <<NewSlot>>
    ELSE IF Last(writer).alloc + size > SlotSize THEN Append(writer, NewSlot)
    ELSE writer

\* The slices, one by one, into the slot that nextEmplaceSlot returned.
Grown(slot, slices) ==
    [slot EXCEPT !.slices = @ \o slices,
                 !.alloc = @ + Len(FlattenSeq(slices)) + Len(slices) * SliceOverhead]

Emplace(writer, slices) == [writer EXCEPT ![Len(writer)] = Grown(@, slices)]

\* The part of the first slice of the first slot that is not sent.
NextBytes(writer) ==
    SubSeq(Head(Head(writer).slices), Head(writer).offset + 1, Len(Head(Head(writer).slices)))

Pop(slot, n) ==
    IF n >= Len(Head(slot.slices)) - slot.offset
    THEN [slot EXCEPT !.slices = Tail(@), !.offset = 0]
    ELSE [slot EXCEPT !.offset = @ + n]

\* Mutant of PopWritten: the slot stays when it is empty.
PopWrittenStay(writer, n) == <<Pop(Head(writer), n)>> \o Tail(writer)

\* pop, and popReadSlot when the slot is empty.
PopWritten(writer, n) ==
    LET slot == Pop(Head(writer), n)
    IN  IF slot.slices = <<>> THEN Tail(writer) ELSE <<slot>> \o Tail(writer)

\* Everything that waits, in order.
Unsent(writer) ==
    FlattenSeq([k \in DOMAIN writer |->
        LET all == FlattenSeq(writer[k].slices)
        IN  SubSeq(all, writer[k].offset + 1, Len(all))])
=============================================================================
