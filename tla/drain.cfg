SPECIFICATION Spec
SYMMETRY Sym
CONSTANTS
    Producers = {p1, p2}
    InitSize = 2
    MaxSize = 2
    ShardCount = 2
    BatchLimit = 1
    MaxRetries = 0
    ResizeThreshold = 75
    BackpressureMode = "Drop"
    DynamicResize = TRUE
    WriterMayFail = TRUE
    MaxWrites = 4
    MaxCloses = 1
INVARIANTS CloseDrains
