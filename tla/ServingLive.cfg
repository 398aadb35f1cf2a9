CONSTANTS
    Ids = {a, b}
    Priorities = {"normal"}
    Capacity = 1
    Depth = 1
    Pushers = {p1}
    NumFrames = 2
    Totals = {2}
    MaxIndex = 2
    MayStop = FALSE
SPECIFICATION FairSpec
PROPERTY StreamsEnd
PROPERTY HangUpSettles
