--------------------------------- MODULE Logger ---------------------------------
(***************************************************************************)
(* Loggers, their clones and the default logger (src/logger.go,            *)
(* src/default.go) over the buffers and workers that asynchronous logging  *)
(* gives them.  A With... method copies the Logger struct: the copy shares *)
(* what the original's fields point to, its asyncBuffer and the array of   *)
(* its hooks.                                                              *)
(*                                                                         *)
(* A buffer is an AsyncBuffer of which a write and a flush take one step   *)
(* each, with the outcomes that they have there: a line may be dropped, be *)
(* passed before it is stored, be left after an error of the writer, or be *)
(* beyond the last batch.  What a later lap of the ring finds of such      *)
(* lines is AsyncBuffer's part.  Levels, samplers and formats are the part *)
(* of Entries; a line is the number of its call.                           *)
(***************************************************************************)
EXTENDS Integers, Sequences, FiniteSets

CONSTANTS
    Procs,         \* goroutines
    Writers, Hooks,
    Configs,       \* [async, writer, hooks, room]: hooks is a sequence with room
                   \* for that many more in its array
    Capacity,      \* entries that fit in a buffer
    BatchLimit,    \* entries that one flush takes at most
    HookCapacity,  \* capacity of the array made for a first hook
    MaxOps,        \* bound: calls that make, change or close a logger
    MaxCalls,      \* bound: calls that log
    MaxBoth        \* bound: calls of either kind together

None == "none"

ASSUME LoggerAssumption ==
    /\ {Capacity, BatchLimit, HookCapacity} \subseteq Nat \ {0}
    /\ {MaxOps, MaxCalls, MaxBoth} \subseteq Nat
    /\ None \notin Writers \cup Hooks
    /\ Configs \subseteq [async : BOOLEAN, writer : Writers, hooks : Seq(Hooks),
                          room : Nat]

VARIABLES
    config,        \* the Config that loggers are made from
    loggers,       \* [async, buf, writer, hooks], buf 0 for no asyncBuffer, hooks
                   \* [arr, len] with arr 0 for nil
    default,       \* defaultLogger
    buffers,       \* [writer, pending, stop, done]: closed stopCh, finished worker
    arrays,        \* the arrays of hooks
    pc, on, cur,   \* where each goroutine is, in a method of which logger, its call
                   \* or the buffer that it makes
    fatal,         \* whether that is Fatal
    ops,
    exited,        \* the process has called exit(1) ...
    panicked,      \* ... or panicked
    lines,         \* history, by call: [want, at, by]; the writer of the logger when it
                   \* hands the line over, or None if it was rewired; where the
                   \* line is; the writer that got it
    asked,         \* history, by logger: the hooks asked for
    family,        \* history, by logger: the first logger that was made from the same
                   \* Config, or that it was cloned from
    overwritten,   \* history: loggers over whose hook a clone of their family was
                   \* given its own, and the clones of such loggers
    rewired,       \* history: loggers given a writer and no buffer for it, or the
                   \* buffer for another logger, and their clones
    crossed,       \* history: goroutines that have made a buffer for a logger, which
                   \* was then given another writer
    raced          \* history: SetAsync(true) met another one, or SetDefaultLogger

hookVars == <<arrays, asked, family, overwritten>>
loggerVars == <<config, hookVars, loggers, default, rewired>>
procVars == <<pc, on, cur, fatal>>
endVars == <<exited, panicked>>
vars == <<loggerVars, buffers, procVars, ops, endVars, lines, crossed, raced>>

Running == ~exited /\ ~panicked

NewBuffer(w) == [writer |-> w, pending |-> <<>>, stop |-> FALSE, done |-> FALSE]

Slice(hooks, arr) == [arr |-> IF hooks = <<>> THEN 0 ELSE arr, len |-> Len(hooks)]

\* What New makes of config, with this slice of hooks: its buffer will be the next.
FromConfig(slice, made) ==
    [async |-> config.async, buf |-> IF config.async THEN made + 1 ELSE 0,
     writer |-> config.writer, hooks |-> slice]

BufferOfConfig == IF config.async THEN <<NewBuffer(config.writer)>> ELSE <<>>

\* New, for a program that makes it the default logger; logger 1 shares array 1 with
\* config.
Init ==
    /\ config \in Configs
    /\ loggers = <<FromConfig(Slice(config.hooks, 1), 0)>>
    /\ buffers = BufferOfConfig
    /\ arrays = <<config.hooks \o [i \in 1..config.room |-> None]>>
    /\ asked = <<config.hooks>> /\ family = <<1>>
    /\ default = 1
    /\ overwritten = {} /\ rewired = {} /\ crossed = {} /\ raced = FALSE
    /\ pc = [p \in Procs |-> "idle"]
    /\ on = [p \in Procs |-> 0] /\ cur = [p \in Procs |-> 0]
    /\ fatal = [p \in Procs |-> FALSE]
    /\ ops = 0 /\ exited = FALSE /\ panicked = FALSE
    /\ lines = <<>>

--------------------------------------------------------------------------------
(* Clones                                                                   *)

Operation ==
    /\ Running /\ ops < MaxOps /\ ops + Len(lines) < MaxBoth
    /\ ops' = ops + 1

\* The set, with the next logger if that is so.
Joined(set, isSo) == IF isSo THEN set \cup {Len(loggers) + 1} ELSE set

\* A clone of l as this record, with these hooks asked for.
Clone(l, clone, hooks, isRewired) ==
    /\ Operation
    /\ loggers' = Append(loggers, clone)
    /\ asked' = Append(asked, hooks)
    /\ family' = Append(family, family[l])
    /\ rewired' = Joined(rewired, isRewired)
    /\ UNCHANGED <<config, default, procVars, endVars, lines, crossed, raced>>

\* The clone shares the hooks of l.
SameHooksAs(l) ==
    /\ overwritten' = Joined(overwritten, l \in overwritten)
    /\ UNCHANGED arrays

\* WithLevel, WithFormatter, WithErrorHandler, WithSampler and WithCaller.
WithOption(l) ==
    /\ Clone(l, loggers[l], asked[l], l \in rewired)
    /\ SameHooksAs(l)
    /\ UNCHANGED buffers

\* Mutant: the clone keeps the buffer.
NeverNewBuffer(l) == FALSE

\* Whether WithWriter makes a buffer for the writer.
NeedsBuffer(l) == loggers[l].async /\ loggers[l].buf # 0

WithWriter(l, w) ==
    /\ IF NeedsBuffer(l)
       THEN /\ Clone(l, [loggers[l] EXCEPT !.writer = w, !.buf = Len(buffers) + 1],
                     asked[l], FALSE)
            /\ buffers' = Append(buffers, NewBuffer(w))
       ELSE /\ Clone(l, [loggers[l] EXCEPT !.writer = w], asked[l],
                     loggers[l].buf # 0 /\ ~loggers[l].async)
            /\ UNCHANGED buffers
    /\ SameHooksAs(l)

WithAsync(l, enabled) ==
    LET create == enabled /\ loggers[l].buf = 0 IN
    /\ Clone(l, [loggers[l] EXCEPT !.async = enabled,
                                   !.buf = IF create THEN Len(buffers) + 1 ELSE @],
             asked[l], ~create /\ l \in rewired)
    /\ buffers' = IF create THEN Append(buffers, NewBuffer(loggers[l].writer)) ELSE buffers
    /\ SameHooksAs(l)

Room(slice) == IF slice.arr = 0 THEN 0 ELSE Len(arrays[slice.arr]) - slice.len

\* Mutant: nothing is copied to the new array.
KeptNone(slice) == [i \in 1..slice.len |-> None]

\* What append copies when the array is full.
Kept(slice) == SubSeq(arrays[slice.arr], 1, slice.len)

\* The loggers of l's family that have a hook where l has room for one.
Overwrites(l) ==
    {m \in DOMAIN loggers :
        /\ family[m] = family[l] /\ Room(loggers[l].hooks) > 0
        /\ loggers[m].hooks.arr = loggers[l].hooks.arr
        /\ loggers[m].hooks.len > loggers[l].hooks.len}

\* append, to an array of HookCapacity if there is none, and to one of twice the
\* capacity if it is full.
WithHook(l, h) ==
    LET slice == loggers[l].hooks
        arr   == IF Room(slice) > 0 THEN slice.arr ELSE Len(arrays) + 1
    IN /\ arrays' =
            IF slice.arr = 0
            THEN Append(arrays, <<h>> \o [i \in 1..(HookCapacity - 1) |-> None])
            ELSE IF Room(slice) > 0
            THEN [arrays EXCEPT ![slice.arr][slice.len + 1] = h]
            ELSE Append(arrays, Append(Kept(slice), h)
                                  \o [i \in 1..(slice.len - 1) |-> None])
       /\ Clone(l, [loggers[l] EXCEPT !.hooks = [arr |-> arr, len |-> slice.len + 1]],
                Append(asked[l], h), l \in rewired)
       /\ overwritten' = Joined(overwritten, l \in overwritten) \cup Overwrites(l)
       /\ UNCHANGED buffers

--------------------------------------------------------------------------------
(* Further loggers from a Config                                            *)

Made(logger, fam) ==
    /\ Operation
    /\ loggers' = Append(loggers, logger)
    /\ buffers' = buffers \o BufferOfConfig
    /\ asked' = Append(asked, config.hooks)
    /\ family' = Append(family, fam)
    /\ UNCHANGED <<config, default, overwritten, rewired, procVars, endVars, lines,
                   crossed, raced>>

\* New(config): its hooks are in the array of config.
New ==
    /\ Made(FromConfig(Slice(config.hooks, 1), Len(buffers)), 1)
    /\ UNCHANGED arrays

\* Mutant: Config.Clone copies the struct only.
SharedHooks(arr) == 1

\* The array of a cloned Config's hooks.
ClonedHooks(arr) == arr

\* New(config.Clone()): an array of its own, without room.
NewFromClone ==
    /\ Made(FromConfig(Slice(config.hooks, ClonedHooks(Len(arrays) + 1)), Len(buffers)),
            Len(loggers) + 1)
    /\ arrays' = Append(arrays, config.hooks)

--------------------------------------------------------------------------------
(* The default logger                                                       *)

\* The goroutine is in SetAsync(true).
Setting(p) == pc[p] \in {"check", "create", "store"}

SetDefaultLogger(l) ==
    /\ Operation
    /\ default' = l
    /\ raced' = (raced \/ \E p \in Procs : Setting(p))
    /\ UNCHANGED <<config, hookVars, loggers, rewired, buffers, procVars, endVars, lines,
                   crossed>>

\* The buffer, if there is one, or one is made, keeps the writer that it was made for.
SetWriter(w) ==
    /\ Operation
    /\ loggers' = [loggers EXCEPT ![default].writer = w]
    /\ rewired' = IF loggers[default].buf = 0 THEN rewired ELSE rewired \cup {default}
    /\ crossed' = crossed \cup {p \in Procs : pc[p] = "store" /\ on[p] = default}
    /\ UNCHANGED <<config, hookVars, default, buffers, procVars, endVars, lines, raced>>

Go(p, label) == pc' = [pc EXCEPT ![p] = label]

\* EnableAsync is stored first: a call may find it set and no buffer.
SetAsync(p, enabled) ==
    /\ Operation /\ pc[p] = "idle"
    /\ loggers' = [loggers EXCEPT ![default].async = enabled]
    /\ Go(p, IF enabled THEN "check" ELSE "idle")
    /\ raced' = (raced \/ (enabled /\ \E q \in Procs : Setting(q)))
    /\ UNCHANGED <<config, hookVars, default, rewired, buffers, on, cur, fatal, endVars,
                   lines, crossed>>

\* Mutant: a buffer is made whether there is one or not.
LacksAnyway(l) == TRUE

LacksBuffer(l) == loggers[l].buf = 0

SetAsyncCheck(p) ==
    /\ Running /\ pc[p] = "check"
    /\ Go(p, IF LacksBuffer(default) THEN "create" ELSE "idle")
    /\ UNCHANGED <<loggerVars, buffers, on, cur, fatal, ops, endVars, lines, crossed, raced>>

\* A buffer and its worker, for the writer that the default logger has now ...
SetAsyncCreate(p) ==
    /\ Running /\ pc[p] = "create"
    /\ buffers' = Append(buffers, NewBuffer(loggers[default].writer))
    /\ on' = [on EXCEPT ![p] = default]
    /\ cur' = [cur EXCEPT ![p] = Len(buffers) + 1]
    /\ Go(p, "store")
    /\ UNCHANGED <<loggerVars, fatal, ops, endVars, lines, crossed, raced>>

\* ... which the default logger gets.  Go does not order the reads of defaultLogger in
\* one statement: it may be the one of before.
SetAsyncStore(p) ==
    /\ Running /\ pc[p] = "store"
    /\ \E l \in {on[p], default} :
        /\ loggers' = [loggers EXCEPT ![l].buf = cur[p]]
        /\ rewired' = IF p \in crossed \/ l # on[p] THEN rewired \cup {l} ELSE rewired \ {l}
    /\ crossed' = crossed \ {p}
    /\ Go(p, "idle")
    /\ UNCHANGED <<config, hookVars, default, buffers, on, cur, fatal, ops, endVars, lines,
                   raced>>

--------------------------------------------------------------------------------
(* A call that logs: the end of Entry.write, writeAsync, and Fatal          *)

Returned(isFatal) == IF isFatal THEN "exit" ELSE "idle"

Wanted(l) == IF l \in rewired THEN None ELSE loggers[l].writer

WrittenBy(w, want) == [want |-> want, at |-> "written", by |-> w]

\* EnableAsync is read once; without it the writer is called.
Log(p, l, isFatal) ==
    /\ Running /\ pc[p] = "idle"
    /\ Len(lines) < MaxCalls /\ ops + Len(lines) < MaxBoth
    /\ IF loggers[l].async
       THEN /\ Go(p, "async")
            /\ on' = [on EXCEPT ![p] = l]
            /\ cur' = [cur EXCEPT ![p] = Len(lines) + 1]
            /\ fatal' = [fatal EXCEPT ![p] = isFatal]
            /\ lines' = Append(lines, [want |-> None, at |-> "called", by |-> None])
       ELSE /\ Go(p, Returned(isFatal))
            /\ UNCHANGED <<on, cur, fatal>>
            /\ lines' = Append(lines, WrittenBy(loggers[l].writer, loggers[l].writer))
    /\ UNCHANGED <<loggerVars, buffers, ops, endVars, crossed, raced>>

\* Where a line may be that buffer b was given: "late" if its worker has returned, and
\* "passed" if a flush goes past the index that it has claimed and not stored at yet.
Accepted(b) == IF Len(buffers[b].pending) >= Capacity THEN {"dropped"}
               ELSE IF buffers[b].done THEN {"late"} ELSE {"buffered", "passed"}

WriteAsync(p) ==
    LET l == on[p]
        b == loggers[l].buf
    IN /\ Running /\ pc[p] = "async"
       /\ IF b = 0
          THEN /\ lines' = [lines EXCEPT ![cur[p]] =
                              WrittenBy(loggers[l].writer, loggers[l].writer)]
               /\ UNCHANGED buffers
          ELSE \E place \in Accepted(b) :
               /\ lines' = [lines EXCEPT ![cur[p]].want = Wanted(l), ![cur[p]].at = place]
               /\ buffers' = IF place \in {"dropped", "passed"} THEN buffers
                             ELSE [buffers EXCEPT ![b].pending = Append(@, cur[p])]
       /\ Go(p, Returned(fatal[p]))
       /\ on' = [on EXCEPT ![p] = 0] /\ cur' = [cur EXCEPT ![p] = 0]
       /\ fatal' = [fatal EXCEPT ![p] = FALSE]
       /\ UNCHANGED <<loggerVars, ops, endVars, crossed, raced>>

\* Fatal ends the process without a Close.
Exit(p) ==
    /\ Running /\ pc[p] = "exit"
    /\ exited' = TRUE
    /\ UNCHANGED <<loggerVars, buffers, procVars, ops, panicked, lines, crossed, raced>>

--------------------------------------------------------------------------------
(* The workers, and Close                                                   *)

\* How many lines a flush takes, and the lines that it does not.
Batch(b) ==
    IF Len(buffers[b].pending) > BatchLimit THEN BatchLimit ELSE Len(buffers[b].pending)

Rest(b) == SubSeq(buffers[b].pending, Batch(b) + 1, Len(buffers[b].pending))

In(i, b, from, to) == \E k \in from..to : buffers[b].pending[k] = i

\* The lines, with the batch of b handed to its writer, which takes the first n of them
\* and fails: the flush leaves the others behind.
Flushed(b, n) ==
    [i \in DOMAIN lines |->
        IF In(i, b, 1, n) THEN WrittenBy(buffers[b].writer, lines[i].want)
        ELSE IF In(i, b, n + 1, Batch(b)) THEN [lines[i] EXCEPT !.at = "left"]
        ELSE lines[i]]

\* Mutant: the worker returns as soon as it is told to.
UnflushedAtEnd(b, n) == lines

FlushedAtEnd(b, n) == Flushed(b, n)

\* A tick of the worker.
Flush(b) ==
    /\ Running /\ ~buffers[b].done /\ buffers[b].pending # <<>>
    /\ \E n \in 0..Batch(b) : lines' = Flushed(b, n)
    /\ buffers' = [buffers EXCEPT ![b].pending = Rest(b)]
    /\ UNCHANGED <<loggerVars, procVars, ops, endVars, crossed, raced>>

FinalFlush(b) ==
    /\ Running /\ buffers[b].stop /\ ~buffers[b].done
    /\ \E n \in 0..Batch(b) : lines' = FlushedAtEnd(b, n)
    /\ buffers' = [buffers EXCEPT ![b].pending = Rest(b), ![b].done = TRUE]
    /\ UNCHANGED <<loggerVars, procVars, ops, endVars, crossed, raced>>

\* Close of a logger that is not asynchronous, or has no buffer, does nothing; a
\* second one of a buffer closes a closed channel.
Close(p, l) ==
    LET b == loggers[l].buf IN
    /\ pc[p] = "idle" /\ loggers[l].async /\ b # 0
    /\ Operation
    /\ IF buffers[b].stop
       THEN /\ panicked' = TRUE
            /\ UNCHANGED <<buffers, on, pc>>
       ELSE /\ buffers' = [buffers EXCEPT ![b].stop = TRUE]
            /\ on' = [on EXCEPT ![p] = b]
            /\ Go(p, "closing")
            /\ UNCHANGED panicked
    /\ UNCHANGED <<loggerVars, cur, fatal, exited, lines, crossed, raced>>

CloseReturn(p) ==
    /\ Running /\ pc[p] = "closing" /\ buffers[on[p]].done
    /\ Go(p, "idle")
    /\ UNCHANGED <<loggerVars, buffers, on, cur, fatal, ops, endVars, lines, crossed, raced>>

Worker(b) == b \in DOMAIN buffers /\ (Flush(b) \/ FinalFlush(b))

Next ==
    \/ New \/ NewFromClone
    \/ \E l \in DOMAIN loggers :
        \/ WithOption(l)
        \/ \E w \in Writers : WithWriter(l, w)
        \/ \E enabled \in BOOLEAN : WithAsync(l, enabled)
        \/ \E h \in Hooks : WithHook(l, h)
        \/ SetDefaultLogger(l)
        \/ \E p \in Procs : Close(p, l) \/ \E f \in BOOLEAN : Log(p, l, f)
    \/ \E w \in Writers : SetWriter(w)
    \/ \E p \in Procs :
        \/ \E enabled \in BOOLEAN : SetAsync(p, enabled)
        \/ SetAsyncCheck(p) \/ SetAsyncCreate(p) \/ SetAsyncStore(p)
        \/ WriteAsync(p) \/ Exit(p) \/ CloseReturn(p)
    \/ \E b \in DOMAIN buffers : Worker(b)

\* A worker whose buffer holds lines, or that was told to stop, goes on: its ticker
\* ticks and the scheduler runs it.
Spec == Init /\ [][Next]_vars
        /\ \A b \in 1..(1 + MaxOps) : WF_vars(Worker(b))

--------------------------------------------------------------------------------

\* A logger runs the hooks that it was given, in order, whatever its clones are given
\* and although they share arrays; except where a clone of the same Config's loggers
\* appended its hook in place, over that of another clone.  A Config's Clone has an
\* array of its own.
HooksAsAsked ==
    \A l \in DOMAIN loggers \ overwritten :
        /\ loggers[l].hooks.len = Len(asked[l])
        /\ \A i \in DOMAIN asked[l] : arrays[loggers[l].hooks.arr][i] = asked[l][i]

\* A line goes to the writer of the logger it was written with, also when loggers
\* share buffers and are given new ones, unless the logger's writer was changed under
\* its buffer, by SetWriter or by WithWriter while it was not asynchronous, or while
\* SetAsync made its buffer, or it got the buffer that SetAsync made for another one.
OwnWriter ==
    \A i \in DOMAIN lines :
        lines[i].at = "written" => lines[i].want \in {None, lines[i].by}

\* Every worker can be stopped: its buffer belongs to a logger, or will in a moment,
\* unless SetAsync(true) met another one, or SetDefaultLogger.
NoOrphanBuffer ==
    raced \/ \A b \in DOMAIN buffers :
                \/ \E l \in DOMAIN loggers : loggers[l].buf = b
                \/ \E p \in Procs : pc[p] = "store" /\ cur[p] = b

Is(i, place) == \E k \in DOMAIN lines : k = i /\ lines[k].at = place

\* A line that a buffer of at most a batch holds, while its worker is there, is written
\* or left behind by an error of the writer, whatever is closed, replaced or made
\* synchronous, unless Fatal or a second Close ends the process.
EveryLineSettles ==
    \A i \in 1..MaxCalls :
        Is(i, "buffered") ~> (~Running \/ Is(i, "written") \/ Is(i, "left"))

================================================================================
