CONSTANTS
    Ids = {a, b, c}
    Consumers = {c1, c2}
    Capacity = 2
    MaxSubmits = 3
    Requests = {r1, r2}
    Frames = {0, 1, 2}
    DiffSteps = {0, 1}
    NumPages = 2
    MaxPages = 4
    StreamIds = {x, y}
    Depth = 2
    MaxIndex = 1
    Preempts = TRUE
    Sessions = {s1}
    Configs <- MCConfigs
    Clips <- MCClips
    Noises <- MCNoises
    MaxStates = 2
    MaxSteps = 3
    Threads = {driver, pool}
    BatchConfigs <- MCBatchConfigs
    FrameCounts = {1, 2}
    Steps = 4
    Deltas = {0, 1, 3}
    MaxRequests = 3
    Unit = 8
    Tasks <- MCTasks
    Blocks <- MCBlocks
    Bins <- MCBins
    Cameras <- MCCameras
    Graphs <- MCGraphs
    Linears <- MCLinears
    Filters <- MCFilters
    Rows <- MCRows
SPECIFICATION MCSpec
INVARIANT PinnedPagesStay
INVARIANT RolloutIsExact
INVARIANT ArrivesAsMeant
INVARIANT QuantisedAlike
INVARIANT MadeAsConfigured
PROPERTY ImplementsQueue
PROPERTY ImplementsStreams
PROPERTY StreamEnds
CHECK_DEADLOCK FALSE
