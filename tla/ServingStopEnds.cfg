CONSTANTS
    Ids = {a}
    Priorities = {"normal"}
    Capacity = 1
    Depth = 1
    Pushers = {p1}
    NumFrames = 1
    Totals = {1}
    MaxIndex = 1
    MayStop = TRUE
SPECIFICATION FairSpec
PROPERTY StopEndsStreams
CHECK_DEADLOCK FALSE
