\* The ring at its largest, so that no resize gets past its second look: drop
\* mode, an output that may fail.
SPECIFICATION Spec
SYMMETRY Sym
CONSTANTS
    Producers = {p1, p2, p3}
    InitSize = 2
    MaxSize = 2
    ShardCount = 2
    BatchLimit = 2
    MaxRetries = 0
    ResizeThreshold = 75
    BackpressureMode = "Drop"
    DynamicResize = TRUE
    WriterMayFail = TRUE
    MaxWrites = 3
    MaxCloses = 2
INVARIANTS Capacity AtMostOnce Accounted NeverEarly SlotExclusive CloseDrains UtilizationInRange
