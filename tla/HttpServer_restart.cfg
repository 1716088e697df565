\* Whether a server that is running serves.
SPECIFICATION Spec
CONSTANTS
    Conns = {c1}
    NThreads = 1
    Tls = FALSE
    FixedPort = FALSE
    Stoppers = {"main"}
    MayRun = FALSE
    ThreadsFail = FALSE
    MaxRequests = 1
    MaxStarts = 2
INVARIANT
    RunningServes
CHECK_DEADLOCK FALSE
