\* Two connects, failures and reconnections, callbacks that throw.
SPECIFICATION Spec
CONSTANTS
    AutoReconnect = TRUE
    Throws = TRUE
    MaxConnects = 2
    MaxSends = 2
    MaxTasks = 2
    Garbage = {garbage}
INVARIANTS
    TypeOK
    OneWriteAtATime
    SentInOrder
CHECK_DEADLOCK FALSE
