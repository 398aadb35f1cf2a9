CONSTANTS
    Ids = {a, b}
    Pushers = {p1, p2}
    Depth = 1
    MaxIndex = 1
    Concurrent = FALSE
SPECIFICATION FairSpec
INVARIANT SenderMatchesState
INVARIANT EndIsLast
PROPERTY CompleteIsFinal
PROPERTY ImplementsStreams
PROPERTY StreamEnds
CHECK_DEADLOCK FALSE
