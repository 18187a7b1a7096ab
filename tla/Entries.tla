-------------------------------- MODULE Entries --------------------------------
(***************************************************************************)
(* A log call from Logger.Info, Logger.With(...).Info or Logger.Writer     *)
(* down to the output (src/logger.go, src/entry.go): goroutines take       *)
(* entries and buffers from two sync.Pools, fill them, format them, write  *)
(* them and put them back, while others change the level.                  *)
(*                                                                         *)
(* A call is a number; the message and the fields it passes are modelled   *)
(* by that number.  sync.Pool does not check what is put into it, so a     *)
(* pool is the number of times each object is in it.                       *)
(***************************************************************************)
EXTENDS Integers, FiniteSets

CONSTANTS
    Procs,        \* goroutines
    Objects,      \* entries, and buffers, there is memory for
    Levels,       \* the levels of calls
    Shapes,       \* the calls that are made: [level, kind, fields], kind "log",
                  \* "with" or "writer" and fields whether fields are passed
    FatalLevel,   \* the highest of them
    Disabled,     \* the level that disables them all
    Sampling,     \* whether the logger has a sampler
    EntryUses,    \* how often at most a goroutine logs with an Entry of Logger.With,
                  \* or writes to an io.Writer of Logger.Writer
    MaxCalls      \* bound: calls

None == "none"        \* no entry, no buffer

ASSUME EntriesAssumption ==
    /\ None \notin Objects
    /\ Levels \subseteq Nat /\ FatalLevel \in Levels /\ Disabled \in Nat
    /\ \A l \in Levels : l <= FatalLevel /\ l < Disabled
    /\ Shapes \subseteq [level : Levels, kind : {"log", "with", "writer"},
                         fields : BOOLEAN]
    /\ \A s \in Shapes : s.kind = "writer" => ~s.fields
    /\ Sampling \in BOOLEAN
    /\ EntryUses \in Nat \ {0} /\ MaxCalls \in Nat

VARIABLES
    level,        \* the logger's AtomicLevel
    entries,      \* the Entry objects: [level, msg, fields]
    buffers,      \* the bytes.Buffer objects: what has been formatted into it
    entryPool, bufferPool,
    made,         \* the entries and buffers that exist: [entry, buffer]
    pc,           \* where each goroutine is
    call,         \* its call: [id, first, level, kind, fields, uses]; first is the
                  \* id of the call that took the entry, uses how often it is used
    e, buf,       \* the entry and the buffer it works on
    exited,       \* exit(1) has been called
    calls,        \* calls so far
    output,       \* history: the lines given to the writer or the async buffer
    outcome,      \* history: what became of each call
    allowed       \* history: whether the level of the current call has been
                  \* enabled since it began

poolVars == <<entryPool, bufferPool, made>>
callVars == <<call, calls, allowed>>
vars == <<level, entries, buffers, poolVars, pc, callVars, e, buf, exited,
          output, outcome>>

NoEntry == [level |-> 0, msg |-> -1, fields |-> {}]
NoLine == [level |-> 0, msg |-> -1, fields |-> {}]
NoCall == [id |-> -1, first |-> -1, level |-> 0, kind |-> "log", fields |-> FALSE, uses |-> 0]

Init ==
    /\ level \in Levels
    /\ entries = [o \in Objects |-> NoEntry]
    /\ buffers = [o \in Objects |-> NoLine]
    /\ entryPool = [o \in Objects |-> 0]
    /\ bufferPool = [o \in Objects |-> 0]
    /\ made = [entry |-> {}, buffer |-> {}]
    /\ pc = [p \in Procs |-> "idle"]
    /\ call = [p \in Procs |-> NoCall]
    /\ e = [p \in Procs |-> None]
    /\ buf = [p \in Procs |-> None]
    /\ exited = FALSE
    /\ calls = 0 /\ output = {} /\ outcome = {}
    /\ allowed = [p \in Procs |-> FALSE]

At(p, label) == ~exited /\ pc[p] = label
Goto(p, label) == pc' = [pc EXCEPT ![p] = label]

\* p is done with its call and its entry.
Idle(p) ==
    /\ Goto(p, "idle")
    /\ e' = [e EXCEPT ![p] = None]
    /\ call' = [call EXCEPT ![p] = NoCall]
    /\ allowed' = [allowed EXCEPT ![p] = FALSE]

\* What became of p's call.
Ends(p, result) == outcome' = outcome \cup {<<call[p].id, result>>}

\* Mutant: the next lower level passes too.
EnabledLower(l) == l + 1 >= level

Enabled(l) == l >= level

--------------------------------------------------------------------------------
(* The start of a call.                                                     *)

Call(p) == At(p, "idle") /\ calls < MaxCalls /\ calls' = calls + 1

Start(p, s, uses) ==
    /\ call' = [call EXCEPT ![p] = [id |-> calls, first |-> calls,
                                    level |-> s.level, kind |-> s.kind,
                                    fields |-> s.fields, uses |-> uses]]
    /\ allowed' = [allowed EXCEPT ![p] = s.level >= level]
    /\ Goto(p, "newEntry")

\* Logger.Trace to Logger.Fatalf: nothing is done below the level.
LogStart(p, s) ==
    /\ Call(p) /\ s.kind = "log" /\ Enabled(s.level)
    /\ Start(p, s, 1)
    /\ UNCHANGED <<level, entries, buffers, poolVars, e, buf, exited, output,
                   outcome>>

LogDisabled(p, s) ==
    /\ Call(p) /\ s.kind = "log" /\ ~Enabled(s.level)
    /\ outcome' = outcome \cup {<<calls, "disabled">>}
    /\ UNCHANGED <<level, entries, buffers, poolVars, pc, call, allowed, e, buf,
                   exited, output>>

\* Logger.With and Logger.WithContext take an entry whatever the level, and whoever
\* has it may log with it more than once.
WithStart(p, s) ==
    /\ Call(p) /\ s.kind = "with"
    /\ \E uses \in 1..EntryUses : Start(p, s, uses)
    /\ UNCHANGED <<level, entries, buffers, poolVars, e, buf, exited, output,
                   outcome>>

\* Logger.Writer.
WriterStart(p, s) ==
    /\ Call(p) /\ s.kind = "writer"
    /\ \E uses \in 1..EntryUses : Start(p, s, uses)
    /\ UNCHANGED <<level, entries, buffers, poolVars, e, buf, exited, output,
                   outcome>>

--------------------------------------------------------------------------------
(* The pools.                                                               *)

\* Get returns an object of the pool, or a new one: sync.Pool keeps what is put
\* into it per processor and may not find it.
CanGet(pool, o, existing) == pool[o] > 0 \/ o \notin existing

Get(pool, o, existing) ==
    /\ CanGet(pool, o, existing)
    /\ pool' = IF o \in existing THEN [pool EXCEPT ![o] = @ - 1] ELSE pool

Put(pool, o) == pool' = [pool EXCEPT ![o] = @ + 1]

NewEntry(p, o) ==
    /\ At(p, "newEntry")
    /\ Get(entryPool, o, made.entry)
    /\ made' = [made EXCEPT !.entry = @ \cup {o}]
    /\ entries' = [entries EXCEPT ![o].fields = {}]
    /\ e' = [e EXCEPT ![p] = o]
    /\ Goto(p, IF call[p].fields THEN "fields"
               ELSE IF call[p].kind = "writer" THEN "writer" ELSE "check")
    /\ UNCHANGED <<level, buffers, bufferPool, callVars, buf, exited, output,
                   outcome>>

\* WithFields, Str, Int and the others append to e.fields, once an entry is taken.
WithFields(p) ==
    /\ At(p, "fields")
    /\ entries' = [entries EXCEPT ![e[p]].fields = @ \cup {call[p].first}]
    /\ Goto(p, "check")
    /\ UNCHANGED <<level, buffers, poolVars, callVars, e, buf, exited, output,
                   outcome>>

\* Mutant: the entry keeps the level of its last use.
FillMessage(p) == [entries[e[p]] EXCEPT !.msg = call[p].id]

\* p's entry with the level and the message of p's call.
Fill(p) == [entries[e[p]] EXCEPT !.level = call[p].level, !.msg = call[p].id]

Release(o) ==
    /\ entries' = [entries EXCEPT ![o].fields = {}, ![o].msg = -1]
    /\ Put(entryPool, o)

\* Entry.Trace to Entry.Fatalf: check the level again, then fill in the entry
\* and write it.
EntryCheck(p) ==
    /\ At(p, "check") /\ Enabled(call[p].level)
    /\ entries' = [entries EXCEPT ![e[p]] = Fill(p)]
    /\ Goto(p, "sample")
    /\ UNCHANGED <<level, buffers, poolVars, callVars, e, buf, exited, output,
                   outcome>>

EntryDisabled(p) ==
    /\ At(p, "check") /\ ~Enabled(call[p].level)
    /\ Release(e[p])
    /\ Ends(p, "disabled")
    /\ Goto(p, "over")
    /\ UNCHANGED <<level, buffers, bufferPool, made, callVars, e, buf, exited, output>>

\* The user of With drops the entry without logging it.
Abandon(p) ==
    /\ At(p, "check") /\ call[p].kind = "with" /\ call[p].id = call[p].first
    /\ made' = [made EXCEPT !.entry = @ \ {e[p]}]
    /\ Ends(p, "abandoned")
    /\ Idle(p)
    /\ UNCHANGED <<level, entries, buffers, entryPool, bufferPool, calls, buf,
                   exited, output>>

\* entryWriter.Write does not look at the level.
EntryWriterWrite(p) ==
    /\ At(p, "writer")
    /\ entries' = [entries EXCEPT ![e[p]] = Fill(p)]
    /\ Goto(p, "sample")
    /\ UNCHANGED <<level, buffers, poolVars, callVars, e, buf, exited, output,
                   outcome>>

--------------------------------------------------------------------------------
(* Entry.write.  Caller information is left out, and hooks, whose errors go *)
(* to the error handler and change nothing here.                            *)

\* Mutant: write goes on after it has released an entry that is not sampled.
WriteUnsampled == "getBuffer"

\* Where write goes once it has released an entry that is not sampled.
AfterUnsampled == "return"

\* The sampler passes the entry, ...
Sample(p) ==
    /\ At(p, "sample")
    /\ Goto(p, "getBuffer")
    /\ UNCHANGED <<level, entries, buffers, poolVars, callVars, e, buf, exited,
                   output, outcome>>

\* ... or it is released unwritten.
SampleOut(p) ==
    /\ At(p, "sample") /\ Sampling
    /\ Release(e[p])
    /\ Ends(p, "sampled")
    /\ Goto(p, AfterUnsampled)
    /\ UNCHANGED <<level, buffers, bufferPool, made, callVars, e, buf, exited,
                   output>>

GetBuffer(p, o) ==
    /\ At(p, "getBuffer")
    /\ Get(bufferPool, o, made.buffer)
    /\ made' = [made EXCEPT !.buffer = @ \cup {o}]
    /\ buffers' = [buffers EXCEPT ![o] = NoLine]
    /\ buf' = [buf EXCEPT ![p] = o]
    /\ Goto(p, "format")
    /\ UNCHANGED <<level, entries, entryPool, callVars, e, exited, output,
                   outcome>>

PutBuffer(p) ==
    /\ buffers' = [buffers EXCEPT ![buf[p]] = NoLine]
    /\ Put(bufferPool, buf[p])
    /\ buf' = [buf EXCEPT ![p] = None]

Format(p) ==
    /\ At(p, "format")
    /\ buffers' = [buffers EXCEPT ![buf[p]] = entries[e[p]]]
    /\ Goto(p, "output")
    /\ UNCHANGED <<level, entries, poolVars, callVars, e, buf, exited, output,
                   outcome>>

\* Mutant: an entry that could not be formatted is written all the same.
OutputUnformatted == "output"

\* Where write goes when the formatter has failed.
AfterFormatError == "putBuffer"

FormatFails(p) ==
    /\ At(p, "format")
    /\ Ends(p, "formatError")
    /\ Goto(p, AfterFormatError)
    /\ UNCHANGED <<level, entries, buffers, poolVars, callVars, e, buf, exited,
                   output>>

Line(p) == [id |-> call[p].id, first |-> call[p].first, want |-> call[p].level, kind |-> call[p].kind,
            fields |-> call[p].fields, allowed |-> allowed[p],
            got |-> buffers[buf[p]]]

\* The writer gets the bytes, or the async buffer, which copies them.
Output(p) ==
    /\ At(p, "output")
    /\ output' = output \cup {Line(p)}
    /\ Ends(p, "written")
    /\ Goto(p, "putBuffer")
    /\ UNCHANGED <<level, entries, buffers, poolVars, callVars, e, buf, exited>>

\* The writer fails, or the async buffer is full.
OutputFails(p) ==
    /\ At(p, "output")
    /\ Ends(p, "writeError")
    /\ Goto(p, "putBuffer")
    /\ UNCHANGED <<level, entries, buffers, poolVars, callVars, e, buf, exited,
                   output>>

PutBufferBack(p) ==
    /\ At(p, "putBuffer")
    /\ PutBuffer(p)
    /\ Goto(p, "release")
    /\ UNCHANGED <<level, entries, entryPool, made, callVars, e, exited, output,
                   outcome>>

ReleaseEntry(p) ==
    /\ At(p, "release")
    /\ Release(e[p])
    /\ Goto(p, "return")
    /\ UNCHANGED <<level, buffers, bufferPool, made, callVars, e, buf, exited,
                   output, outcome>>

--------------------------------------------------------------------------------
(* The end of a call.                                                       *)

Exits(p) == call[p].level = FatalLevel /\ call[p].kind # "writer"

\* The Entry of Logger.With, and the io.Writer of Logger.Writer, still point to the
\* entry that has been put back, and what is logged with them next is a call of its
\* own.
Reuse(p) ==
    /\ calls' = calls + 1
    /\ call' = [call EXCEPT ![p].id = calls, ![p].uses = @ - 1]
    /\ allowed' = [allowed EXCEPT ![p] = call[p].level >= level]
    /\ Goto(p, IF call[p].kind = "writer" THEN "writer" ELSE "check")
    /\ UNCHANGED e

\* The second check of the level ends Entry.Fatal too.
Return(p) ==
    /\ At(p, "over") \/ (At(p, "return") /\ ~Exits(p))
    /\ IF call[p].uses > 1 /\ calls < MaxCalls
       THEN Reuse(p)
       ELSE Idle(p) /\ UNCHANGED calls
    /\ UNCHANGED <<level, entries, buffers, poolVars, buf, exited, output, outcome>>

\* Entry.Fatal and Entry.Fatalf.
Exit(p) ==
    /\ At(p, "return") /\ Exits(p)
    /\ exited' = TRUE
    /\ UNCHANGED <<level, entries, buffers, poolVars, pc, callVars, e, buf,
                   output, outcome>>

--------------------------------------------------------------------------------

\* Logger.SetLevel, by any goroutine.
SetLevel(l) ==
    /\ ~exited /\ l # level
    /\ level' = l
    /\ allowed' = [p \in Procs |->
                       allowed[p] \/ (pc[p] # "idle" /\ call[p].level >= l)]
    /\ UNCHANGED <<entries, buffers, poolVars, pc, call, calls, e, buf, exited,
                   output, outcome>>

Next ==
    \/ \E l \in Levels \cup {Disabled} : SetLevel(l)
    \/ \E p \in Procs :
          \/ \E s \in Shapes : \/ LogStart(p, s) \/ LogDisabled(p, s)
                               \/ WithStart(p, s) \/ WriterStart(p, s)
          \/ \E o \in Objects : NewEntry(p, o) \/ GetBuffer(p, o)
          \/ WithFields(p) \/ EntryCheck(p) \/ EntryDisabled(p) \/ Abandon(p)
          \/ EntryWriterWrite(p)
          \/ Sample(p) \/ SampleOut(p) \/ Format(p) \/ FormatFails(p)
          \/ Output(p) \/ OutputFails(p) \/ PutBufferBack(p) \/ ReleaseEntry(p)
          \/ Return(p) \/ Exit(p)

Spec == Init /\ [][Next]_vars

--------------------------------------------------------------------------------
(* Properties.                                                              *)

Lines == [level : Levels \cup {0}, msg : -1..(MaxCalls - 1),
          fields : SUBSET (0..(MaxCalls - 1))]

TypeOK ==
    /\ level \in Levels \cup {Disabled}
    /\ entries \in [Objects -> Lines] /\ buffers \in [Objects -> Lines]
    /\ entryPool \in [Objects -> Nat] /\ bufferPool \in [Objects -> Nat]
    /\ made \in [entry : SUBSET Objects, buffer : SUBSET Objects]
    /\ pc \in [Procs -> {"idle", "newEntry", "fields", "check", "writer", "sample",
                         "getBuffer", "format", "output", "putBuffer", "release",
                         "return", "over"}]
    /\ e \in [Procs -> Objects \cup {None}]
    /\ buf \in [Procs -> Objects \cup {None}]
    /\ exited \in BOOLEAN /\ calls \in 0..MaxCalls
    /\ \A ln \in output : ln.id \in 0..(calls - 1) /\ ln.got \in Lines

\* The goroutines that will still use entry o.
Users(o) == {p \in Procs : e[p] = o /\ pc[p] \notin {"return", "over"}}

\* An entry, and a buffer, is in the hands of one goroutine or once in its pool,
\* whichever way a call ends and however levels change in between; as long as nobody
\* uses an Entry of With, or an io.Writer of Writer, a second time.
Exclusive ==
    \A o \in Objects :
        /\ entryPool[o] + Cardinality(Users(o)) <= 1
        /\ bufferPool[o] + Cardinality({p \in Procs : buf[p] = o}) <= 1

\* What is written for a call has its level, its message and the fields that its entry
\* was made with, and nothing of the calls that used the entry or the buffer before or
\* meanwhile; again as long as no entry is used a second time (see EntryUses).
LinesIntact ==
    \A ln \in output :
        ln.got = [level |-> ln.want, msg |-> ln.id,
                  fields |-> IF ln.fields THEN {ln.first} ELSE {}]

\* A line other than one from an io.Writer is written only if its level was
\* enabled at some time during its call: after the level has been raised no
\* call that starts below it gets through.
LevelRespected ==
    \A ln \in output : ln.kind # "writer" => ln.allowed

\* Of each call exactly one thing becomes, once it is over: it is written, it
\* is disabled, sampled out or abandoned, or an error is reported.  (outcome is a set:
\* the same thing twice is not told from once.)
OneOutcome ==
    \A id \in 0..(calls - 1) :
        \/ Cardinality({o \in outcome : o[1] = id}) = 1
        \/ /\ \A o \in outcome : o[1] # id
           /\ \E p \in Procs : call[p].id = id /\ pc[p] \notin {"idle", "return", "over"}

================================================================================
