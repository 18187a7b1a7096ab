\* An Entry of With that is logged with twice, or an io.Writer that is written
\* to twice.
SPECIFICATION Spec
CONSTANTS
    Procs = {p1, p2}
    Objects = {o1, o2}
    Levels = {1, 2}
    Shapes <- ReuseShapes
    FatalLevel = 2
    Disabled = 3
    Sampling = FALSE
    EntryUses = 2
    MaxCalls = 3
SYMMETRY Sym
INVARIANT LinesIntact
CHECK_DEADLOCK FALSE
