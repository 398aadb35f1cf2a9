CONSTANTS
    c1 = c1
    c2 = c2
    Clients = {c1, c2}
    Setups <- CrossTalkSetups
    Chunk = 2
    MaxSteps = 1
    Order <- MCOrder
    SwapSteps = 1
    Warmup = 0
    Iters = 0
    Plans = 0
    Rounds = 0
SPECIFICATION MCSpec
INVARIANT NoCrossTalk
CHECK_DEADLOCK FALSE
