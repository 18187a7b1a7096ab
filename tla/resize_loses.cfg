SPECIFICATION Spec
SYMMETRY Sym
CONSTANTS
    Producers = {p1, p2}
    InitSize = 1
    MaxSize = 4
    ShardCount = 1
    BatchLimit = 1
    MaxRetries = 0
    ResizeThreshold = 75
    BackpressureMode = "Drop"
    DynamicResize = TRUE
    WriterMayFail = FALSE
    MaxWrites = 3
    MaxCloses = 0
INVARIANTS ResizeKeepsEntries
