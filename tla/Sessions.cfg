CONSTANTS
    c1 = c1
    c2 = c2
    Clients = {c1, c2}
    Setups <- MCSetups
    Chunk = 2
    MaxSteps = 2
    Order <- MCOrder
    SwapSteps = 1
    Warmup = 1
    Iters = 2
    Plans = 2
    Rounds = 2
SPECIFICATION MCSpec
INVARIANT NothingLeaks
INVARIANT OwnHistory
PROPERTY SilentIsReleased
PROPERTY TimedPlanIsReal
CHECK_DEADLOCK FALSE
