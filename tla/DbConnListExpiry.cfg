CONSTANTS
    Users = {u1, u2}
    Handles = {h1, h2, h3, h4}
    NKeep = 1
    NMax = 2
    Expires = TRUE
    NoUser = NoUser
    NoHandle = NoHandle
SPECIFICATION Spec
SYMMETRY Alike
INVARIANTS
    CountIsLength
    OneOwner
    CleanupInList
    Bounded
    KeptIsLive
