\* Three goroutines on one sampler, of each kind, across several windows.
SPECIFICATION Spec
CONSTANTS
    Procs = {p1, p2, p3}
    BaseRate = 2
    MaxRate = 6
    WindowSize = 1
    Threshold = 1
    Decay = 9
    SecondRate = 3
    Values = {0, 1, 2}
    MaxTime = 4
    MaxCalls = 6
SYMMETRY Sym
INVARIANTS RateBounded VolumeConserved RateReplays OneInN KeyConsistent
CHECK_DEADLOCK FALSE
