\* Two clients on one worker, whose handlers answer each other's messages.
SPECIFICATION FairSpec
CONSTANTS
    Sessions = {s1, s2}
    Threads = {}
    MaxSends = 2
    Garbage = {}
    NThreads = 1
    Paths = {p1}
    MaxIn = 1
    MaxStarts = 1
INVARIANTS
    NoticesBounded
    OneWriteAtATime
    NoStranded
PROPERTIES
    Served
CHECK_DEADLOCK FALSE
