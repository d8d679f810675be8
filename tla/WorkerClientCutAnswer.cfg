CONSTANTS
    HeadEnds <- ShortHead
    StreamLength = 9
    CutAtLineEnd = FALSE
    Lengths = {0, 2}
    HeadPieces = 3
    Bodies = {0, 2}
    Windows = {2}
    Capacity = 8
    LineLimit = 2
SPECIFICATION Spec
CHECK_DEADLOCK FALSE
PROPERTIES
    ShutAtEndOrError
