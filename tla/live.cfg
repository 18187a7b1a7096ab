\* Block mode with resizes under load: writers that hold resizeLock and wait
\* for room, a waiting resize, and the worker it keeps out; one resize may
\* follow another.
SPECIFICATION FairSpec
CONSTANTS
    Producers = {p1, p2}
    InitSize = 1
    MaxSize = 4
    ShardCount = 1
    BatchLimit = 1
    MaxRetries = 2
    ResizeThreshold = 75
    BackpressureMode = "Block"
    DynamicResize = TRUE
    WriterMayFail = TRUE
    MaxWrites = 2
    MaxCloses = 1
INVARIANTS TypeOK CallsAccounted ReadersSeeWholeRing
PROPERTIES ImplementsLog WritesReturn CloseReturns Flushed
