\* Two MultiWriters, of one list or of two, and three calls by two goroutines.
SPECIFICATION Spec
CONSTANTS
    w1 = w1
    w2 = w2
    Procs = {p1, p2}
    NumMultis = 2
    Writers = {w1, w2, w3}
    Lists <- MCLists
    MaxRoom = 1
    MaxCalls = 3
SYMMETRY Sym
INVARIANTS ListsKept EveryMemberCalled SameOrder
