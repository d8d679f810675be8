CONSTANTS
    Workers = {w1, w2, w3}
    Tasks = {t1, t2}
    Clients = {}
    NoTask = NoTask
    Main = Main
    StaleErrno = FALSE
SPECIFICATION Spec
CHECK_DEADLOCK FALSE
PROPERTIES
    ImplementsTaskPool
    CancelReturns
INVARIANTS
    WorkConserving
