\* Two goroutines log with fields, fatally by WithContext and through an io.Writer,
\* while the level changes; no entry and no io.Writer is used twice.
SPECIFICATION Spec
CONSTANTS
    Procs = {p1, p2}
    Objects = {o1, o2}
    Levels = {1, 2}
    Shapes <- CallShapes
    FatalLevel = 2
    Disabled = 3
    Sampling = TRUE
    EntryUses = 1
    MaxCalls = 3
SYMMETRY Sym
INVARIANTS Exclusive LinesIntact LevelRespected OneOutcome
CHECK_DEADLOCK FALSE
