\* Two clients, two workers and a thread of the application's own: sends, broadcasts
\* and disconnects by that thread and by connect and disconnect handlers.
SPECIFICATION FairSpec
CONSTANTS
    Sessions = {s1, s2}
    Threads = {t1}
    MaxSends = 1
    Garbage = {}
    NThreads = 2
    Paths = {p1}
    MaxIn = 0
    MaxStarts = 1
INVARIANTS
    TypeOK
    PinnedWhileUsed
    BroadcastExact
    GoneIsUnlisted
    ConnectFirst
PROPERTIES
    LossReported
    StopEnds
CHECK_DEADLOCK FALSE
