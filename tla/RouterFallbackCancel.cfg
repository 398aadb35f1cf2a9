CONSTANTS
    StreamIds = {a}
    Depth = 2
    MaxIndex = 1
    Preempts = TRUE
SPECIFICATION FairSpec
PROPERTY CancelEndsStream
CHECK_DEADLOCK FALSE
