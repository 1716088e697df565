\* Two clients whose handlers answer each other, on two workers.
SPECIFICATION Spec
CONSTANTS
    Sessions = {s1, s2}
    Threads = {}
    MaxSends = 2
    Garbage = {}
    NThreads = 2
    Paths = {p1}
    MaxIn = 1
    MaxStarts = 1
INVARIANT
    OneWriteAtATime
CHECK_DEADLOCK FALSE
