SPECIFICATION Spec
CONSTANTS
    Files = {f1, f2}
    Requests = {r1, r2}
    Beat = beat
    Reader = reader
    Nobody = nobody
    MaxChanges = 3
    Depth = 2
INVARIANTS TimeIsHonest FoundIsLive
PROPERTIES Refreshed
CHECK_DEADLOCK FALSE
