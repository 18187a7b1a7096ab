\* Loggers derived from one of two configurations, two goroutines, and up to four
\* calls of which at most two log and three make, change or close a logger.
SPECIFICATION Spec
CONSTANTS
    p1 = p1
    p2 = p2
    w1 = w1
    w2 = w2
    h1 = h1
    h2 = h2
    Procs = {p1, p2}
    Writers = {w1, w2}
    Hooks = {h1, h2}
    Configs <- MCConfigs
    Capacity = 1
    BatchLimit = 1
    HookCapacity = 2
    MaxOps = 3
    MaxCalls = 2
    MaxBoth = 4
INVARIANTS HooksAsAsked OwnWriter NoOrphanBuffer
PROPERTY EveryLineSettles
\* The process may exit or panic, and the calls are bounded.
CHECK_DEADLOCK FALSE
