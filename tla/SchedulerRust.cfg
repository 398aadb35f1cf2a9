CONSTANTS
    Ids = {a, b, c}
    Callers = {t1, t2}
    Consumers = {c1}
    Capacity = 2
    UsesGil = FALSE
    MayReuse = FALSE
    MaxSubmits = 3
SPECIFICATION Spec
INVARIANT NothingLost
INVARIANT SetsMatchQueue
INVARIANT NoLostWakeup
PROPERTY CancelIsFinal
PROPERTY ImplementsOpenQueue
SYMMETRY Symmetry
