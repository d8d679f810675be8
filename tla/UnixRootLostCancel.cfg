CONSTANTS
    Workers = {w1, w2}
    Tasks = {}
    Clients = {c1, c2}
    NoTask = NoTask
    Main = Main
    StaleErrno = FALSE
SPECIFICATION Spec
CHECK_DEADLOCK FALSE
PROPERTIES
    CancelReturns
