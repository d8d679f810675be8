CONSTANTS
    Workers = {w1, w2}
    Tasks = {t1, t2, t3}
    Clients = {c1}
    NoTask = NoTask
    Main = Main
    StaleErrno = TRUE
SPECIFICATION Spec
SYMMETRY Symmetry
CHECK_DEADLOCK FALSE
INVARIANTS
    TypeOK
    TokenBalance
    WokenFindsTask
    CounterNeverWraps
    QueueOutlivesUsers
