\* More shards than slots: newAsyncBuffer takes at least four shards, whatever
\* the size of the ring.
SPECIFICATION Spec
SYMMETRY Sym
CONSTANTS
    Producers = {p1, p2}
    InitSize = 2
    MaxSize = 2
    ShardCount = 4
    BatchLimit = 2
    MaxRetries = 0
    ResizeThreshold = 75
    BackpressureMode = "Drop"
    DynamicResize = TRUE
    WriterMayFail = FALSE
    MaxWrites = 3
    MaxCloses = 1
INVARIANTS SlotExclusive
