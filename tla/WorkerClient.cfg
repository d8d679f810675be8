CONSTANTS
    HeadEnds <- ShortHead
    StreamLength = 11
    CutAtLineEnd = FALSE
    Lengths = {0, 3, 4}
    HeadPieces = 3
    Bodies = {0, 2}
    Windows = {1, 7}
    Capacity = 8
    LineLimit = 2
SPECIFICATION Spec
CHECK_DEADLOCK FALSE
INVARIANTS
    TypeOK
    BodyCounted
    WholeIfRoomy
PROPERTIES
    ImplementsExchange
    Served
    Closed
