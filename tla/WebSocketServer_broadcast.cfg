\* Two clients, one of which may be gone already when the application broadcasts.
SPECIFICATION FairSpec
CONSTANTS
    Sessions = {s1, s2}
    Threads = {t1}
    MaxSends = 1
    Garbage = {}
    NThreads = 2
    Paths = {p1}
    MaxIn = 0
    MaxStarts = 1
PROPERTY
    CountsReceivers
CHECK_DEADLOCK FALSE
