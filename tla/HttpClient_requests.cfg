\* Three requests of any method, in a row or one in the callback of another, with
\* header lists set and cleared between and within them.
SPECIFICATION FairSpec
CONSTANTS
    Fields = {f}
    MaxRequests = 3
    MaxDepth = 2
    MaxChunks = 2
    MaxLists = 2
INVARIANTS
    TypeOK
    SentAsAsked
    FreedOnce
    ResponseOfLast
PROPERTIES
    RequestEnds
CHECK_DEADLOCK FALSE
