CONSTANTS
    Workers = {w1, w2}
    Tasks = {t1, t2}
    Clients = {}
    NoTask = NoTask
    Main = Main
    StaleErrno = TRUE
SPECIFICATION Spec
SYMMETRY Symmetry
CHECK_DEADLOCK FALSE
INVARIANTS
    WorkConserving
