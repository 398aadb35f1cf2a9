CONSTANTS
    Ids = {a, b}
    Priorities = {"normal"}
    Capacity = 1
    Depth = 2
    Pushers = {p1, p2}
    NumFrames = 2
    Totals = {1, 3}
    MaxIndex = 3
    MayStop = TRUE
SPECIFICATION Spec
INVARIANT NobodyForgotten
INVARIANT WholeClip
PROPERTY UsesRouter
CHECK_DEADLOCK FALSE
SYMMETRY Symmetry
