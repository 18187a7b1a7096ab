------------------------------ MODULE MultiWriter ------------------------------
(***************************************************************************)
(* MultiWriter of src/writer.go: a slice of writers and a lock.  Slices    *)
(* are modelled as Go has them, an array and a length: a MultiWriter made  *)
(* from a caller's list (NewMultiWriter(list...)) keeps the caller's       *)
(* array, and two that are made from one list share it, each with a lock   *)
(* of its own.  The writers themselves, a FileWriter or a ConsoleWriter,   *)
(* take a line or fail, one whole call at a time.                          *)
(***************************************************************************)
EXTENDS Integers, Sequences, SequencesExt

CONSTANTS
    Procs,      \* goroutines
    NumMultis,  \* how many MultiWriters there are
    Writers,    \* what they write to
    Lists,      \* the lists they are made from
    MaxRoom,    \* bound: room for more in the array of a list
    MaxCalls    \* bound: calls of their methods

None == "none"

ASSUME MultiWriterAssumption ==
    /\ NumMultis \in Nat \ {0} /\ {MaxRoom, MaxCalls} \subseteq Nat
    /\ Lists \subseteq Seq(Writers)
    /\ None \notin Procs \cup Writers

Multis == 1..NumMultis

VARIABLES
    arrays,     \* the arrays that slices point to
    slice,      \* w.writers: [arr, len], an index of arrays and a length
    mu,         \* w.mu: the goroutine that holds it, or None
    pc,         \* where each goroutine is
    call,       \* its call of Write or Close: [multi, line], line 0 for Close
    view, pos,  \* the slice its loop goes through, and the index it is at
    failed,     \* the index of the first writer that failed in it, or 0
    calls,
    got,        \* what each writer has written: calls, in order
    closes,     \* how often each writer's Close was called
    members,    \* history: the writers that were asked for, in order
    disturbed,  \* history: MultiWriters of an array that another has removed from,
                \* or has appended to where they had one
    ended       \* history: calls that have returned: [call, list, failed]

sliceVars == <<arrays, slice, members, disturbed>>
procVars == <<pc, call, view, pos, failed>>
vars == <<sliceVars, mu, procVars, calls, got, closes, ended>>

NoCall == [multi |-> 0, line |-> 0]
NoSlice == [arr |-> 0, len |-> 0]

Content(m) == SubSeq(arrays[slice[m].arr], 1, slice[m].len)

\* NewMultiWriter: all of one list, or each of a copy of its own.
Init ==
    /\ \E list \in Lists, shared \in BOOLEAN, room \in 0..MaxRoom :
        /\ arrays = LET array == list \o [i \in 1..room |-> None]
                    IN IF shared THEN <<array>> ELSE [m \in Multis |-> array]
        /\ slice = [m \in Multis |->
                      [arr |-> IF shared THEN 1 ELSE m, len |-> Len(list)]]
        /\ members = [m \in Multis |-> list]
    /\ disturbed = {}
    /\ mu = [m \in Multis |-> None]
    /\ pc = [p \in Procs |-> "idle"]
    /\ call = [p \in Procs |-> NoCall]
    /\ view = [p \in Procs |-> NoSlice]
    /\ pos = [p \in Procs |-> 0] /\ failed = [p \in Procs |-> 0]
    /\ calls = 0
    /\ got = [w \in Writers |-> <<>>] /\ closes = [w \in Writers |-> 0]
    /\ ended = {}

\* Mutant: nothing is locked.
LockIgnored(m) == TRUE

\* w.mu can be taken.
LockFree(m) == mu[m] = None

--------------------------------------------------------------------------------
(* Write and Close: a loop over the slice as it was when the loop began, over *)
(* the array as it is.                                                      *)

Begin(p, m, c) ==
    /\ pc[p] = "idle" /\ calls < MaxCalls
    /\ LockFree(m)
    /\ mu' = [mu EXCEPT ![m] = p]
    /\ pc' = [pc EXCEPT ![p] = "loop"]
    /\ call' = [call EXCEPT ![p] = c]
    /\ view' = [view EXCEPT ![p] = slice[m]]
    /\ pos' = [pos EXCEPT ![p] = 1]
    /\ calls' = calls + 1
    /\ UNCHANGED <<sliceVars, failed, got, closes, ended>>

Write(p, m) == Begin(p, m, [multi |-> m, line |-> calls + 1])
Close(p, m) == Begin(p, m, [multi |-> m, line |-> 0])

InLoop(p) == pc[p] = "loop" /\ pos[p] <= view[p].len
Current(p) == arrays[view[p].arr][pos[p]]
Writing(p) == call[p].line # 0

\* The writer takes the line, or closes.
NextWriter(p) ==
    /\ InLoop(p)
    /\ IF Writing(p)
       THEN /\ got' = [got EXCEPT ![Current(p)] = Append(@, call[p])]
            /\ UNCHANGED closes
       ELSE /\ closes' = [closes EXCEPT ![Current(p)] = @ + 1]
            /\ UNCHANGED got
    /\ pos' = [pos EXCEPT ![p] = @ + 1]
    /\ UNCHANGED <<sliceVars, mu, pc, call, view, failed, calls, ended>>

\* Mutant: the loop of Write goes on after an error.
NeverLeave(p) == FALSE

\* An error ends the loop of Write and not that of Close.
LeavesAtError(p) == Writing(p)

\* firstErr
FirstFailure(p) == IF failed[p] = 0 THEN pos[p] ELSE failed[p]

WriterFails(p) ==
    /\ InLoop(p)
    /\ failed' = [failed EXCEPT ![p] = FirstFailure(p)]
    /\ pos' = [pos EXCEPT ![p] = IF LeavesAtError(p) THEN view[p].len + 1 ELSE @ + 1]
    /\ closes' = IF Writing(p) THEN closes
                 ELSE [closes EXCEPT ![Current(p)] = @ + 1]
    /\ UNCHANGED <<sliceVars, mu, pc, call, view, calls, got, ended>>

Return(p) ==
    /\ pc[p] = "loop" /\ pos[p] > view[p].len
    /\ mu' = [mu EXCEPT ![call[p].multi] = None]
    /\ ended' = ended \cup {[call |-> call[p], list |-> members[call[p].multi],
                             failed |-> failed[p]]}
    /\ pc' = [pc EXCEPT ![p] = "idle"] /\ call' = [call EXCEPT ![p] = NoCall]
    /\ view' = [view EXCEPT ![p] = NoSlice]
    /\ pos' = [pos EXCEPT ![p] = 0] /\ failed' = [failed EXCEPT ![p] = 0]
    /\ UNCHANGED <<sliceVars, calls, got, closes>>

--------------------------------------------------------------------------------
(* AddWriter and RemoveWriter hold the lock throughout.                     *)

\* A method that reads and sets w.writers only.
SetsSlice(p, m) ==
    /\ pc[p] = "idle" /\ calls < MaxCalls /\ LockFree(m)
    /\ calls' = calls + 1
    /\ UNCHANGED <<mu, procVars, got, closes, ended>>

\* The slice's capacity is that of its array.
HasRoom(s) == s.len < Len(arrays[s.arr])

Sharing(m) == {o \in Multis \ {m} : slice[o].arr = slice[m].arr}

\* append: into the array, or a copy of twice the capacity.
AddWriter(p, m, w) ==
    /\ SetsSlice(p, m)
    /\ LET s == slice[m] IN
       IF HasRoom(s)
       THEN /\ arrays' = [arrays EXCEPT ![s.arr][s.len + 1] = w]
            /\ slice' = [slice EXCEPT ![m].len = s.len + 1]
            /\ disturbed' = disturbed \cup
                              {o \in Sharing(m) : slice[o].len > s.len}
       ELSE /\ arrays' = Append(arrays, Append(Content(m), w)
                                          \o [i \in 1..(s.len - 1) |-> None])
            /\ slice' = [slice EXCEPT ![m] = [arr |-> Len(arrays) + 1,
                                             len |-> s.len + 1]]
            /\ UNCHANGED disturbed
    /\ members' = [members EXCEPT ![m] = Append(@, w)]

\* Mutant: the last one does not move.
MovedButLast(i, len) == i..(len - 2)

\* Where there is another writer when the i-th has been removed.
Moved(i, len) == i..(len - 1)

\* The first of the slice that is w leaves it: those after it move up, in the
\* array, whose last element stays where it was.
RemoveWriter(p, m, w) ==
    /\ SetsSlice(p, m)
    /\ LET s == slice[m]
           i == SelectInSeq(Content(m), LAMBDA x : x = w) IN
       IF i = 0
       THEN UNCHANGED sliceVars
       ELSE /\ arrays' = [arrays EXCEPT ![s.arr] =
                            [j \in DOMAIN @ |-> IF j \in Moved(i, s.len) THEN @[j + 1]
                                                ELSE @[j]]]
            /\ slice' = [slice EXCEPT ![m].len = s.len - 1]
            /\ members' = [members EXCEPT ![m] = RemoveFirst(@, w)]
            /\ disturbed' = disturbed \cup Sharing(m)

--------------------------------------------------------------------------------

Loop(p) == NextWriter(p) \/ WriterFails(p) \/ Return(p)

Terminated ==
    /\ calls = MaxCalls /\ \A p \in Procs : pc[p] = "idle"
    /\ UNCHANGED vars

Next ==
    \/ \E p \in Procs, m \in Multis :
        \/ Write(p, m) \/ Close(p, m)
        \/ \E w \in Writers : AddWriter(p, m, w) \/ RemoveWriter(p, m, w)
    \/ \E p \in Procs : Loop(p)
    \/ Terminated

Spec == Init /\ [][Next]_vars

--------------------------------------------------------------------------------
(* Properties.                                                              *)

\* A MultiWriter has the writers it was made from and given, in order, whatever
\* is added to and removed from another of the same list: only a removal
\* (RemoveWriter shifts the array in place) and an addition in place, to an array
\* with room to which it has added itself, disturb it.
ListsKept == \A m \in Multis \ disturbed : Content(m) = members[m]

Times(s, x) == Cardinality({i \in DOMAIN s : s[i] = x})

\* A Write that returned reached each writer of the list, or those before the
\* first that failed and no other; a Close reached all, also after a failure.
EveryMemberCalled ==
    \A e \in {e \in ended : e.call.multi \notin disturbed} :
        IF e.call.line = 0
        THEN \A i \in DOMAIN e.list : closes[e.list[i]] > 0
        ELSE LET reached == IF e.failed = 0 THEN e.list
                            ELSE SubSeq(e.list, 1, e.failed - 1)
             IN \A w \in Writers : Times(got[w], e.call) = Times(reached, w)

Before(w, c, d) ==
    \E i, j \in DOMAIN got[w] : i < j /\ got[w][i] = c /\ got[w][j] = d

\* The lines of concurrent Writes to one MultiWriter reach its writers in one
\* order.
SameOrder ==
    \A w \in Writers : \A i, j \in DOMAIN got[w] :
        LET c == got[w][i]
            d == got[w][j]
        IN i < j /\ c # d /\ c.multi = d.multi =>
             \A o \in Writers : ~Before(o, d, c)

================================================================================
