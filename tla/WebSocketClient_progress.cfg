\* One connect and reconnections, callbacks that return and send.
SPECIFICATION FairSpec
CONSTANTS
    AutoReconnect = TRUE
    Throws = FALSE
    MaxConnects = 1
    MaxSends = 2
    MaxTasks = 1
    Garbage = {}
INVARIANTS
    NoStranded
    ReadsWhileConnected
PROPERTIES
    AttemptEnds
    Retries
    QueueDrains
    StopEnds
CHECK_DEADLOCK FALSE
