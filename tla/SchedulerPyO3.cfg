CONSTANTS
    Ids = {a, b}
    Callers = {t1, t2}
    Consumers = {c1, c2}
    Capacity = 2
    UsesGil = TRUE
    MayReuse = FALSE
    MaxSubmits = 2
SPECIFICATION FairSpec
PROPERTY ImplementsQueue
PROPERTY EventuallyServed
PROPERTY ShutdownWakesAll
