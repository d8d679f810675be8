CONSTANTS
    t1 = t1
    t2 = t2
    t3 = t3
    t4 = t4
    t5 = t5
    g1 = g1
    g2 = g2
    Tasks = {t1, t2, t3, t4, t5}
    Groups = {g1, g2}
    Capacity = 2
    Main = Main
    NoGroup = NoGroup
    GroupOf <- NestedGroupOf
    OwnerOf <- NestedOwnerOf
    MadeByWorker = {g1}
SPECIFICATION Spec
CHECK_DEADLOCK FALSE
INVARIANTS
    GroupBalance
    WaitIsComplete
PROPERTIES
    GoneIsQuiet
    WaitReturns
