\* connect() after the io thread has run out of work.
SPECIFICATION FairSpec
CONSTANTS
    AutoReconnect = FALSE
    Throws = FALSE
    MaxConnects = 1
    MaxSends = 0
    MaxTasks = 1
    Garbage = {}
PROPERTY
    ConnectEnds
CHECK_DEADLOCK FALSE
