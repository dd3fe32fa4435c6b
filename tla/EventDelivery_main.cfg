SPECIFICATION FairSpec
CONSTANTS
    s1 = s1
    s2 = s2
    Producers = {p1}
    Workers = {w1}
    Pool = {t1}
    Subscribers <- TwoSubscribers
    Replying = {s1}
    Closer = Closer
    NoOne = NoOne
    QueueCap = 1
    Policies = {"drop_oldest", "drop_newest", "block"}
    MaxEvents = 3
    MaxStalls = 1
INVARIANTS
    TypeOK
    NoSilentLoss
    DeliveredOnce
    SingleWorkerFifo
PROPERTIES
    CallsReturn
    CloseEnds
CHECK_DEADLOCK FALSE
