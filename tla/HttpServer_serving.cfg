\* Two HTTPS clients, two workers and main in run(), start() that falls short,
\* stop() by another thread, start() again and the destructor.
SPECIFICATION FairSpec
CONSTANTS
    Conns = {c1, c2}
    NThreads = 2
    Tls = TRUE
    FixedPort = FALSE
    Stoppers = {"other"}
    MayRun = TRUE
    ThreadsFail = TRUE
    MaxRequests = 2
    MaxStarts = 2
INVARIANTS
    TypeOK
    OneHolder
    WorkersStopped
    DestroysCleanly
PROPERTIES
    IsExchange
    Answered
    StopEnds
CHECK_DEADLOCK FALSE
