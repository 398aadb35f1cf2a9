CONSTANTS
    t1 = t1
    t2 = t2
    t3 = t3
    Threads = {t1, t2, t3}
    Host <- MCHost
    Shapes <- MCShapes
    Compiles <- MCCompiles
    Tuner = t1
    TunedShape <- MCShape
    Found <- MCFound
    Settings <- MCSettings
    Scores <- MCScores
    Top = 4
    MaxCalls = 2
    MaxCrashes = 1
    Dims <- MCDims
    Lengths <- MCLengths
    Gpus <- MCGpus
    Flags = {"avx512f", "amx_bf16", "amx_int8", "amx_fp16"}
    Builds = {"flash_attn", "flash_attn_interface", "triton", "transformer_engine",
              "ipex", "amx_attn", "amx_int8_attn", "amx_fp16_attn"}
    Sizes <- MCSizes
    MaxOpCalls = 2
SPECIFICATION MCSpec
PROPERTY LaunchIsAttention
INVARIANT LaunchedWasTuned
INVARIANT DispatchFits
INVARIANT InfoTellsTruth
INVARIANT SameAnswer
CHECK_DEADLOCK FALSE
