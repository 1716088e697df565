\* Two sessions, each sent to by its strand and by a thread of the application.
SPECIFICATION SessionSpec
CONSTANTS
    Sessions = {s1, s2}
    Threads = {t}
    MaxSends = 2
    Garbage = {garbage}
PROPERTIES
    IsChannel
    SafeWhileExclusive
CHECK_DEADLOCK FALSE
