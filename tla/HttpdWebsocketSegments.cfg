SPECIFICATION Spec
CONSTANTS
    Small = 2
    Size16Max = 3
    Most = 4
    BufferSize = 8
    SlotSize = 4
    SliceOverhead = 1
    Handlers = {c1}
    Self = c1
    Casters = {b1}
    Broadcasts = 1
    Nobody = nobody
    Tasks = {t1}
    Scripts <- Segments
    PieceEnds <- InFields
    Brigade <- TwoBuckets
    MaxFrames = 2
    Window = 2
INVARIANT NothingHeldBack
CHECK_DEADLOCK FALSE
