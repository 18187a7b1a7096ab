------------------------------ MODULE EntriesProofs ------------------------------
(***************************************************************************)
(* Theorems about log calls, for every number of goroutines, objects,      *)
(* levels and kinds of call: entries and buffers are never shared, a line  *)
(* holds what its call passed, a level that is off lets nothing through,   *)
(* and every call ends in one way.  The inductive invariant is built in    *)
(* layers, each proved with the ones before it.                            *)
(***************************************************************************)
EXTENDS Entries, FiniteSetTheorems, TLAPS

USE DEF poolVars, callVars, vars, At, Goto

--------------------------------------------------------------------------------
(* Types, and what a goroutine holds where.                                 *)

Calls == [id : -1..(MaxCalls - 1), first : -1..(MaxCalls - 1), level : Levels \cup {0},
          kind : {"log", "with", "writer"}, fields : BOOLEAN, uses : Nat]

\* A goroutine that is not idle has a call with an id of its own or of a call
\* that is over, and holds an entry and a buffer where the code has them.
Control ==
    /\ call \in [Procs -> Calls]
    /\ allowed \in [Procs -> BOOLEAN]
    /\ \A p \in Procs :
        /\ pc[p] # "idle" => /\ call[p].id \in 0..(calls - 1) /\ call[p].level \in Levels
                            /\ call[p].first \in 0..(calls - 1)
        /\ e[p] = None <=> pc[p] \in {"idle", "newEntry"}
        /\ buf[p] = None <=> pc[p] \notin {"format", "output", "putBuffer"}
        /\ call[p].uses <= EntryUses
        /\ pc[p] = "writer" => call[p].kind = "writer"
    /\ \A o \in outcome : o[1] \in 0..(calls - 1)

\* TypeOK by what its conjuncts are about: the objects and the pools, ...
ObjectTypes ==
    /\ level \in Levels \cup {Disabled}
    /\ entries \in [Objects -> Lines] /\ buffers \in [Objects -> Lines]
    /\ entryPool \in [Objects -> Nat] /\ bufferPool \in [Objects -> Nat]
    /\ made \in [entry : SUBSET Objects, buffer : SUBSET Objects]

\* ... and the goroutines.
ProcTypes ==
    /\ pc \in [Procs -> {"idle", "newEntry", "fields", "check", "writer", "sample",
                         "getBuffer", "format", "output", "putBuffer", "release",
                         "return", "over"}]
    /\ e \in [Procs -> Objects \cup {None}]
    /\ buf \in [Procs -> Objects \cup {None}]
    /\ exited \in BOOLEAN /\ calls \in 0..MaxCalls

\* A line that an entry is filled with.
LEMMA LineTypes ==
    ASSUME NEW old \in Lines, NEW c \in Calls, c.id \in 0..(MaxCalls - 1),
           c.first \in 0..(MaxCalls - 1)
    PROVE  /\ [old EXCEPT !.level = c.level, !.msg = c.id] \in Lines
           /\ [old EXCEPT !.fields = {}] \in Lines
           /\ [old EXCEPT !.fields = {}, !.msg = -1] \in Lines
           /\ [old EXCEPT !.fields = @ \cup {c.first}] \in Lines
           /\ NoLine \in Lines /\ NoEntry \in Lines
<1> USE EntriesAssumption DEF Lines, Calls
<1>1. c.id \in 0..(MaxCalls - 1) /\ c.first \in 0..(MaxCalls - 1) /\ c.level \in Levels \cup {0} /\ -1 \in -1..(MaxCalls - 1)
  OBVIOUS
<1>2. old = [level |-> old.level, msg |-> old.msg, fields |-> old.fields]
  OBVIOUS
<1>3. [old EXCEPT !.level = c.level, !.msg = c.id] \in Lines
  BY <1>1
<1>4. [old EXCEPT !.fields = {}] \in Lines /\ [old EXCEPT !.fields = {}, !.msg = -1] \in Lines
  BY <1>1
<1>5. [old EXCEPT !.fields = @ \cup {c.first}] \in Lines
  BY <1>1
<1>6. NoLine \in Lines /\ NoEntry \in Lines
  BY <1>1 DEF NoLine, NoEntry
<1> QED
  BY <1>3, <1>4, <1>5, <1>6

\* The goroutines' variables keep their types and agree with where they are.
LEMMA ProcTypesInductive ==
    ProcTypes /\ Control /\ [Next]_vars => ProcTypes' /\ Control'
<1> SUFFICES ASSUME ProcTypes, Control, [Next]_vars PROVE ProcTypes' /\ Control'
  OBVIOUS
<1> USE EntriesAssumption DEF ProcTypes, Control
<1>1. CASE \E l \in Levels \cup {Disabled} : SetLevel(l)
  BY <1>1 DEF SetLevel
<1>2. ASSUME NEW p \in Procs, NEW s \in Shapes, LogStart(p, s) PROVE ProcTypes' /\ Control'
  BY <1>2 DEF LogStart, Call, Start, Calls
<1>3. ASSUME NEW p \in Procs, NEW s \in Shapes, LogDisabled(p, s) PROVE ProcTypes' /\ Control'
  BY <1>3 DEF LogDisabled, Call
<1>4. ASSUME NEW p \in Procs, NEW s \in Shapes, WithStart(p, s) \/ WriterStart(p, s)
      PROVE  ProcTypes' /\ Control'
  <2>1. CASE WithStart(p, s)
    BY <2>1 DEF WithStart, Call, Start, Calls
  <2>2. CASE WriterStart(p, s)
    BY <2>2 DEF WriterStart, Call, Start, Calls
  <2> QED
    BY <1>4, <2>1, <2>2
<1>5. ASSUME NEW p \in Procs, NEW o \in Objects, NewEntry(p, o) PROVE ProcTypes' /\ Control'
  BY <1>5 DEF NewEntry
<1>6. ASSUME NEW p \in Procs, NEW o \in Objects, GetBuffer(p, o) PROVE ProcTypes' /\ Control'
  BY <1>6 DEF GetBuffer
<1>7. ASSUME NEW p \in Procs, WithFields(p) \/ EntryCheck(p) \/ EntryWriterWrite(p)
                              \/ Sample(p) \/ Format(p) \/ Exit(p) \/ ReleaseEntry(p)
      PROVE  ProcTypes' /\ Control'
  <2>1. CASE Exit(p)
    BY <2>1 DEF Exit
  <2>2. CASE ~Exit(p)
    <3>1. \/ pc[p] = "fields" /\ pc' = [pc EXCEPT ![p] = "check"]
          \/ pc[p] \in {"check", "writer"} /\ pc' = [pc EXCEPT ![p] = "sample"]
          \/ pc[p] = "sample" /\ pc' = [pc EXCEPT ![p] = "getBuffer"]
          \/ pc[p] = "format" /\ pc' = [pc EXCEPT ![p] = "output"]
          \/ pc[p] = "release" /\ pc' = [pc EXCEPT ![p] = "return"]
      BY <1>7, <2>2 DEF WithFields, EntryCheck, EntryWriterWrite, Sample, Format,
         ReleaseEntry
    <3>2. UNCHANGED <<call, calls, allowed, e, buf, exited, outcome>>
      BY <1>7, <2>2 DEF WithFields, EntryCheck, EntryWriterWrite, Sample, Format,
         ReleaseEntry
    <3> QED
      BY <3>1, <3>2
  <2> QED
    BY <2>1, <2>2
<1>8. ASSUME NEW p \in Procs, Abandon(p) PROVE ProcTypes' /\ Control'
  <2>1. NoCall \in Calls
    BY DEF NoCall, Calls
  <2> QED
    BY <1>8, <2>1 DEF Abandon, Ends, Idle, NoCall
<1>9. ASSUME NEW p \in Procs, EntryDisabled(p) \/ SampleOut(p) \/ FormatFails(p) \/ Output(p) \/ OutputFails(p)
      PROVE ProcTypes' /\ Control'
  BY <1>9 DEF EntryDisabled, SampleOut, FormatFails, Output, OutputFails, Ends, AfterUnsampled,
     AfterFormatError
<1>10. ASSUME NEW p \in Procs, PutBufferBack(p) PROVE ProcTypes' /\ Control'
  BY <1>10 DEF PutBufferBack, PutBuffer
<1>11. ASSUME NEW p \in Procs, Return(p) PROVE ProcTypes' /\ Control'
  <2>1. CASE Reuse(p)
    BY <1>11, <2>1 DEF Return, Reuse, Calls
  <2>2. CASE Idle(p) /\ UNCHANGED calls
    BY <1>11, <2>2 DEF Return, Idle, NoCall, Calls
  <2> QED
    BY <1>11, <2>1, <2>2 DEF Return
<1>12. CASE UNCHANGED vars
  BY <1>12
<1> QED
  BY <1>1, <1>2, <1>3, <1>4, <1>5, <1>6, <1>7, <1>8, <1>9, <1>10, <1>11, <1>12 DEF Next

\* The objects hold lines, and a pool no object a negative number of times.
LEMMA ObjectTypesInductive ==
    ProcTypes /\ Control /\ ObjectTypes /\ [Next]_vars => ObjectTypes'
<1> SUFFICES ASSUME ProcTypes, Control, ObjectTypes, [Next]_vars PROVE ObjectTypes'
  OBVIOUS
<1> USE DEF ObjectTypes
<1>1. ASSUME NEW p \in Procs, pc[p] \notin {"idle", "newEntry"}
      PROVE  /\ call[p] \in Calls /\ call[p].id \in 0..(MaxCalls - 1)
             /\ call[p].first \in 0..(MaxCalls - 1)
             /\ e[p] \in Objects /\ entries[e[p]] \in Lines
  BY <1>1, EntriesAssumption DEF ProcTypes, Control
<1>2. \A p \in Procs : pc[p] \in {"format", "output", "putBuffer"} => buf[p] \in Objects
  BY DEF ProcTypes, Control
<1>3. ASSUME NEW o \in Objects
      PROVE  [entries EXCEPT ![o].fields = {}] \in [Objects -> Lines]
  BY DEF Lines
<1>4. NoLine \in Lines
  BY EntriesAssumption DEF NoLine, Lines, ProcTypes
<1>5. ASSUME NEW pool \in [Objects -> Nat], NEW o \in Objects
      PROVE  /\ [pool EXCEPT ![o] = @ + 1] \in [Objects -> Nat]
             /\ pool[o] > 0 => [pool EXCEPT ![o] = @ - 1] \in [Objects -> Nat]
  OBVIOUS
<1>6. CASE \E l \in Levels \cup {Disabled} : SetLevel(l)
  BY <1>6 DEF SetLevel
<1>7. ASSUME NEW p \in Procs, NEW o \in Objects, NewEntry(p, o) PROVE ObjectTypes'
  <2>1. entryPool' \in [Objects -> Nat]
    BY <1>5, <1>7 DEF NewEntry, Get, CanGet
  <2> QED
    BY <1>3, <1>7, <2>1 DEF NewEntry
<1>8. ASSUME NEW p \in Procs, NEW o \in Objects, GetBuffer(p, o) PROVE ObjectTypes'
  <2>1. bufferPool' \in [Objects -> Nat]
    BY <1>5, <1>8 DEF GetBuffer, Get, CanGet
  <2> QED
    BY <1>4, <1>8, <2>1 DEF GetBuffer
<1>9. ASSUME NEW p \in Procs, WithFields(p) \/ EntryCheck(p) \/ EntryWriterWrite(p)
      PROVE  ObjectTypes'
  <2>1. [entries[e[p]] EXCEPT !.level = call[p].level, !.msg = call[p].id] \in Lines
        /\ [entries[e[p]] EXCEPT !.fields = @ \cup {call[p].first}] \in Lines
    BY <1>1, <1>9, LineTypes DEF WithFields, EntryCheck, EntryWriterWrite
  <2>2. entries' \in [Objects -> Lines]
    BY <1>9, <2>1 DEF WithFields, EntryCheck, EntryWriterWrite, Fill
  <2> QED
    BY <1>9, <2>2 DEF WithFields, EntryCheck, EntryWriterWrite
<1>10. ASSUME NEW p \in Procs, EntryDisabled(p) \/ SampleOut(p) \/ ReleaseEntry(p)
       PROVE  ObjectTypes'
  <2>1. Release(e[p]) /\ e[p] \in Objects /\ UNCHANGED <<level, buffers, bufferPool, made>>
    BY <1>1, <1>10 DEF EntryDisabled, SampleOut, ReleaseEntry
  <2>2. [entries[e[p]] EXCEPT !.fields = {}, !.msg = -1] \in Lines
    BY <1>1, <1>10, LineTypes DEF EntryDisabled, SampleOut, ReleaseEntry
  <2>3. entries' = [entries EXCEPT ![e[p]] = [@ EXCEPT !.fields = {}, !.msg = -1]]
    BY <2>1 DEF Release
  <2> QED
    BY <1>5, <2>1, <2>2, <2>3 DEF Release, Put
<1>11. ASSUME NEW p \in Procs, Abandon(p) PROVE ObjectTypes'
  BY <1>11 DEF Abandon
<1>12. ASSUME NEW p \in Procs, Format(p) PROVE ObjectTypes'
  BY <1>1, <1>2, <1>12 DEF Format
<1>13. ASSUME NEW p \in Procs, PutBufferBack(p) PROVE ObjectTypes'
  BY <1>2, <1>4, <1>5, <1>13 DEF PutBufferBack, PutBuffer, Put
<1>14. ASSUME NEW p \in Procs,
              \/ \E s \in Shapes : \/ LogStart(p, s) \/ LogDisabled(p, s)
                                   \/ WithStart(p, s) \/ WriterStart(p, s)
              \/ Sample(p) \/ FormatFails(p) \/ Output(p) \/ OutputFails(p)
              \/ Return(p) \/ Exit(p)
       PROVE  ObjectTypes'
  BY <1>14 DEF LogStart, LogDisabled, WithStart, WriterStart, Sample, FormatFails, Output,
     OutputFails, Return, Exit
<1>15. CASE UNCHANGED vars
  BY <1>15
<1> QED
  BY <1>6, <1>7, <1>8, <1>9, <1>10, <1>11, <1>12, <1>13, <1>14, <1>15 DEF Next

\* Every variable keeps its type, and goroutines hold an entry and a buffer where the
\* code has them.
THEOREM TypeCorrectness == Spec => [](TypeOK /\ Control)
<1> DEFINE Written == \A ln \in output : ln.id \in 0..(calls - 1) /\ ln.got \in Lines
<1>1. Init => ProcTypes /\ Control /\ ObjectTypes /\ Written
  <2> SUFFICES ASSUME Init PROVE ProcTypes /\ Control /\ ObjectTypes /\ Written
    OBVIOUS
  <2>1. NoLine \in Lines /\ NoEntry \in Lines /\ NoCall \in Calls
    <3>1. -1 \in -1..(MaxCalls - 1)
      BY EntriesAssumption
    <3> QED
      BY <3>1 DEF NoLine, NoEntry, NoCall, Lines, Calls
  <2>2. ProcTypes
    <3>1. /\ e \in [Procs -> Objects \cup {None}] /\ buf \in [Procs -> Objects \cup {None}]
          /\ pc \in [Procs -> {"idle", "newEntry", "fields", "check", "writer", "sample",
                               "getBuffer", "format", "output", "putBuffer", "release",
                               "return", "over"}]
      BY DEF Init
    <3>2. calls \in 0..MaxCalls
      BY EntriesAssumption DEF Init
    <3>3. exited \in BOOLEAN
      BY DEF Init
    <3> QED
      BY <3>1, <3>2, <3>3 DEF ProcTypes
  <2>6. Written
    BY DEF Init
  <2>3. ObjectTypes
    BY <2>1 DEF Init, ObjectTypes
  <2>4. \A p \in Procs : call[p].uses = 0 /\ pc[p] = "idle" /\ e[p] = None /\ buf[p] = None
    BY DEF Init, NoCall
  <2>5. Control
    <3>1. call \in [Procs -> Calls] /\ allowed \in [Procs -> BOOLEAN] /\ outcome = {}
      BY <2>1 DEF Init
    <3> QED
      BY <2>4, <3>1, EntriesAssumption DEF Control
  <2> QED
    BY <2>2, <2>3, <2>5, <2>6
<1>2. ProcTypes /\ Control /\ ObjectTypes /\ Written /\ [Next]_vars => Written'
  <2> SUFFICES ASSUME ProcTypes, Control, ObjectTypes, Written, [Next]_vars PROVE Written'
    OBVIOUS
  <2>1. ASSUME NEW p \in Procs, Output(p) PROVE Written'
    <3>1. call[p].id \in 0..(calls - 1) /\ buffers[buf[p]] \in Lines
      BY <2>1 DEF Output, ProcTypes, Control, ObjectTypes
    <3> QED
      BY <2>1, <3>1 DEF Output, Line
  <2>2. UNCHANGED output \/ \E p \in Procs : Output(p)
    BY ZenonT(40) DEF Next, SetLevel, LogStart, LogDisabled, WithStart, WriterStart, NewEntry,
       GetBuffer, WithFields, EntryCheck, EntryDisabled, Abandon, EntryWriterWrite,
       Sample, SampleOut, Format, FormatFails, OutputFails, PutBufferBack,
       ReleaseEntry, Return, Exit
  <2>3. calls \in Nat /\ calls' \in {calls, calls + 1}
    <3>1. ASSUME NEW p \in Procs, NEW s \in Shapes,
                 \/ LogStart(p, s) \/ LogDisabled(p, s)
                 \/ WithStart(p, s) \/ WriterStart(p, s)
          PROVE  calls' = calls + 1
      BY <3>1 DEF LogStart, LogDisabled, WithStart, WriterStart, Call
    <3>2. ASSUME NEW p \in Procs, Return(p) PROVE calls' \in {calls, calls + 1}
      BY <3>2 DEF Return, Reuse
    <3>3. \/ UNCHANGED calls
          \/ \E p \in Procs : \/ Return(p)
                              \/ \E s \in Shapes : \/ LogStart(p, s) \/ LogDisabled(p, s)
                                                 \/ WithStart(p, s) \/ WriterStart(p, s)
      BY ZenonT(40) DEF Next, SetLevel, NewEntry, GetBuffer, WithFields, EntryCheck, EntryDisabled,
         Abandon, EntryWriterWrite, Sample, SampleOut, Format, FormatFails, Output,
         OutputFails, PutBufferBack, ReleaseEntry, Exit
    <3> QED
      BY <3>1, <3>2, <3>3, EntriesAssumption DEF ProcTypes
  <2> QED
    BY <2>1, <2>2, <2>3
<1>3. ProcTypes /\ ObjectTypes /\ Written => TypeOK
  BY DEF ProcTypes, ObjectTypes, TypeOK
<1> QED
  BY <1>1, <1>2, <1>3, ProcTypesInductive, ObjectTypesInductive, PTL DEF Spec

LEMMA Typed == TypeOK /\ Control => ProcTypes /\ ObjectTypes
BY DEF TypeOK, ProcTypes, ObjectTypes

--------------------------------------------------------------------------------
(* Levels.                                                                  *)

\* A call whose level is enabled now was allowed; one that has passed the check of
\* the level was allowed then.
LevelInv ==
    /\ \A p \in Procs : pc[p] # "idle" /\ call[p].level >= level => allowed[p]
    /\ \A p \in Procs :
          pc[p] \in {"sample", "getBuffer", "format", "output"} /\ call[p].kind # "writer"
             => allowed[p]
    /\ LevelRespected

\* After the level has been raised no call that starts below it is written, for any
\* number of goroutines and any changes of the level: Entry checks it again.
THEOREM LevelTheorem == Spec => []LevelRespected
<1> USE DEF LevelInv, LevelRespected
<1>1. Init => LevelInv
  BY DEF Init
<1>2. ProcTypes /\ Control /\ ObjectTypes /\ LevelInv /\ [Next]_vars => LevelInv'
  <2> SUFFICES ASSUME ProcTypes, Control, ObjectTypes, LevelInv, [Next]_vars PROVE LevelInv'
    OBVIOUS
  <2> USE DEF ProcTypes, Control
  <2>1. ASSUME NEW l \in Levels \cup {Disabled}, SetLevel(l) PROVE LevelInv'
    BY <2>1 DEF SetLevel
  <2>2. ASSUME NEW p \in Procs, NEW s \in Shapes,
               LogStart(p, s) \/ WithStart(p, s) \/ WriterStart(p, s)
        PROVE  LevelInv'
    <3>1. PICK uses : Start(p, s, uses)
      BY <2>2 DEF LogStart, WithStart, WriterStart
    <3>2. UNCHANGED <<level, output>>
      BY <2>2 DEF LogStart, WithStart, WriterStart
    <3> QED
      BY ZenonT(40), <3>1, <3>2 DEF Start
  <2>3. ASSUME NEW p \in Procs, EntryCheck(p) \/ EntryWriterWrite(p) PROVE LevelInv'
    BY <2>3 DEF EntryCheck, EntryWriterWrite, Enabled
  <2>4. ASSUME NEW p \in Procs, Output(p) PROVE LevelInv'
    BY <2>4 DEF Output, Line
  <2>5. ASSUME NEW p \in Procs, Abandon(p) PROVE LevelInv'
    BY <2>5 DEF Abandon, Idle
  <2>6. ASSUME NEW p \in Procs, Return(p) PROVE LevelInv'
    <3>1. CASE Reuse(p)
      BY <2>6, <3>1 DEF Return, Reuse
    <3>2. CASE Idle(p)
      BY <2>6, <3>2 DEF Return, Idle
    <3> QED
      BY <2>6, <3>1, <3>2 DEF Return
  <2>7. ASSUME NEW p \in Procs, NEW o \in Objects, NewEntry(p, o) \/ GetBuffer(p, o)
        PROVE  LevelInv'
    BY <2>7 DEF NewEntry, GetBuffer
  <2>8. ASSUME NEW p \in Procs,
               \/ EntryDisabled(p) \/ WithFields(p) \/ Sample(p) \/ SampleOut(p)
               \/ Format(p) \/ FormatFails(p) \/ OutputFails(p) \/ PutBufferBack(p) \/ ReleaseEntry(p) \/ Exit(p)
        PROVE  LevelInv'
    BY <2>8 DEF EntryDisabled, WithFields, Sample, SampleOut, Format, FormatFails, OutputFails,
       PutBufferBack, ReleaseEntry, Exit, AfterUnsampled, AfterFormatError
  <2>9. ASSUME NEW p \in Procs, NEW s \in Shapes, LogDisabled(p, s) PROVE LevelInv'
    BY <2>9 DEF LogDisabled
  <2>10. CASE UNCHANGED vars
    BY <2>10
  <2> QED
    BY <2>1, <2>2, <2>3, <2>4, <2>5, <2>6, <2>7, <2>8, <2>9, <2>10 DEF Next
<1>3. LevelInv => LevelRespected
  OBVIOUS
<1> QED
  BY <1>1, <1>2, <1>3, TypeCorrectness, Typed, PTL DEF Spec

--------------------------------------------------------------------------------
(* How calls end.                                                           *)

\* The call of p has not been given an outcome yet.
Open(p) == pc[p] \in {"newEntry", "fields", "check", "writer", "sample", "getBuffer",
                      "format", "output"}

Known(id) == \E o \in outcome : o[1] = id /\ \A x \in outcome : x[1] = id => x = o

\* A call is open in one goroutine, or it has one outcome.
OutcomeInv ==
    /\ \A p \in Procs : Open(p) => \A o \in outcome : o[1] # call[p].id
    /\ \A p, q \in Procs : Open(p) /\ Open(q) /\ p # q => call[p].id # call[q].id
    /\ \A id \in 0..(calls - 1) : Known(id) \/ \E p \in Procs : Open(p) /\ call[p].id = id

\* No call is lost and none is reported twice, whichever way it ends.
THEOREM OutcomeTheorem == Spec => []OneOutcome
<1> USE DEF OutcomeInv, Open, Known
<1>1. Init => OutcomeInv
  BY DEF Init
<1>2. ProcTypes /\ Control /\ OutcomeInv /\ [Next]_vars => OutcomeInv'
  <2> SUFFICES ASSUME ProcTypes, Control, OutcomeInv, [Next]_vars PROVE OutcomeInv'
    OBVIOUS
  <2>0. /\ calls \in Nat /\ DOMAIN pc = Procs /\ DOMAIN call = Procs
        /\ \A o \in outcome : o[1] \in 0..(calls - 1)
        /\ \A p \in Procs : Open(p) => call[p].id \in 0..(calls - 1)
    BY EntriesAssumption DEF ProcTypes, Control
  \* A step after which the same calls are open.
  <2>a. ASSUME UNCHANGED <<outcome, calls>>,
               \A p \in Procs : (Open(p)' <=> Open(p)) /\ (Open(p) => call'[p].id = call[p].id)
        PROVE  OutcomeInv'
    BY <2>a
  \* p begins a call.
  <2>b. ASSUME NEW p \in Procs, ~Open(p), Open(p)', call'[p].id = calls,
               calls' = calls + 1, UNCHANGED outcome,
               \A q \in Procs \ {p} : (Open(q)' <=> Open(q)) /\ call'[q] = call[q]
        PROVE  OutcomeInv'
    <3>1. \A id \in 0..(calls' - 1) : id = calls \/ id \in 0..(calls - 1)
      BY <2>0, <2>b
    <3> QED
      BY <2>0, <2>b, <3>1
  \* The call of p ends.
  <2>c. ASSUME NEW p \in Procs, NEW result, Open(p), ~Open(p)', UNCHANGED calls,
               outcome' = outcome \cup {<<call[p].id, result>>},
               \A q \in Procs \ {p} : (Open(q)' <=> Open(q)) /\ call'[q] = call[q]
        PROVE  OutcomeInv'
    <3>1. \A q \in Procs : Open(q)' => q # p /\ Open(q) /\ call'[q] = call[q]
      BY <2>c
    <3>2. ASSUME NEW id \in 0..(calls' - 1)
          PROVE  Known(id)' \/ \E q \in Procs : Open(q)' /\ call'[q].id = id
      <4>1. CASE id = call[p].id
        <5>1. /\ <<id, result>> \in outcome'
              /\ \A o \in outcome' : o[1] = id => o = <<id, result>>
          BY <2>c, <4>1
        <5> QED
          BY <5>1
      <4>2. CASE id # call[p].id
        <5>1. \A o \in outcome' : o[1] = id => o \in outcome
          BY <2>c, <4>2
        <5> QED
          BY <2>c, <4>2, <5>1
      <4> QED
        BY <4>1, <4>2
    <3> QED
      BY <2>c, <3>1, <3>2
  <2>1. ASSUME NEW p \in Procs, NEW s \in Shapes, LogDisabled(p, s) PROVE OutcomeInv'
    <3>1. /\ outcome' = outcome \cup {<<calls, "disabled">>} /\ calls' = calls + 1
          /\ UNCHANGED <<pc, call>>
      BY <2>1 DEF LogDisabled, Call
    <3>2. ASSUME NEW id \in 0..(calls' - 1)
          PROVE  Known(id)' \/ \E q \in Procs : Open(q)' /\ call'[q].id = id
      <4>1. CASE id = calls
        <5>1. \A o \in outcome' : o[1] = id => o = <<calls, "disabled">>
          BY <2>0, <3>1, <4>1
        <5> QED
          BY <3>1, <4>1, <5>1
      <4>2. CASE id \in 0..(calls - 1)
        <5>1. \A o \in outcome' : o[1] = id => o \in outcome
          BY <2>0, <3>1, <4>2
        <5> QED
          BY <3>1, <4>2, <5>1
      <4> QED
        BY <2>0, <3>1, <4>1, <4>2
    <3> QED
      BY <2>0, <3>1, <3>2
  <2>2. ASSUME NEW p \in Procs, NEW s \in Shapes,
               LogStart(p, s) \/ WithStart(p, s) \/ WriterStart(p, s)
        PROVE  OutcomeInv'
    <3>1. PICK uses : Start(p, s, uses)
      BY <2>2 DEF LogStart, WithStart, WriterStart
    <3>2. pc[p] = "idle" /\ calls' = calls + 1 /\ UNCHANGED outcome
      BY <2>2 DEF LogStart, WithStart, WriterStart, Call
    <3>3. ~Open(p) /\ Open(p)' /\ call'[p].id = calls
      BY <2>0, <3>1, <3>2 DEF Start
    <3>4. \A q \in Procs \ {p} : (Open(q)' <=> Open(q)) /\ call'[q] = call[q]
      BY <2>0, <3>1 DEF Start
    <3> QED
      BY <2>b, <3>2, <3>3, <3>4
  <2>3. ASSUME NEW p \in Procs, Abandon(p) PROVE OutcomeInv'
    <3>1. pc[p] = "check" /\ Idle(p) /\ UNCHANGED calls /\ Ends(p, "abandoned")
      BY <2>3 DEF Abandon
    <3>2. \A q \in Procs \ {p} : (Open(q)' <=> Open(q)) /\ call'[q] = call[q]
      BY <2>0, <3>1 DEF Idle
    <3>3. Open(p) /\ ~Open(p)'
      BY <2>0, <3>1 DEF Idle
    <3>4. PICK result : outcome' = outcome \cup {<<call[p].id, result>>}
      BY <3>1 DEF Ends
    <3> HIDE DEF OutcomeInv, Open, Known
    <3> QED
      BY <2>c, <3>1, <3>2, <3>3, <3>4
  <2>4. ASSUME NEW p \in Procs,
               EntryDisabled(p) \/ SampleOut(p) \/ FormatFails(p) \/ Output(p) \/ OutputFails(p)
        PROVE  OutcomeInv'
    <3>1. /\ pc[p] \in {"check", "sample", "format", "output"} /\ UNCHANGED <<calls, call>>
          /\ \/ Ends(p, "disabled") \/ Ends(p, "sampled") \/ Ends(p, "formatError") \/ Ends(p, "written")
             \/ Ends(p, "writeError")
          /\ pc' \in {[pc EXCEPT ![p] = "return"], [pc EXCEPT ![p] = "putBuffer"],
                       [pc EXCEPT ![p] = "over"]}
      BY <2>4 DEF EntryDisabled, SampleOut, FormatFails, Output, OutputFails, AfterUnsampled,
         AfterFormatError
    <3>2. \A q \in Procs \ {p} : (Open(q)' <=> Open(q)) /\ call'[q] = call[q]
      BY <2>0, <3>1
    <3>3. Open(p) /\ ~Open(p)'
      BY <2>0, <3>1
    <3>4. PICK result : outcome' = outcome \cup {<<call[p].id, result>>}
      BY <3>1 DEF Ends
    <3> HIDE DEF OutcomeInv, Open, Known
    <3> QED
      BY <2>c, <3>1, <3>2, <3>3, <3>4
  <2>5. ASSUME NEW p \in Procs, Return(p) PROVE OutcomeInv'
    <3>1. CASE Reuse(p)
      BY <2>0, <2>5, <3>1, <2>b DEF Return, Reuse
    <3>2. CASE Idle(p) /\ UNCHANGED calls
      BY <2>0, <2>5, <3>2, <2>a DEF Return, Idle
    <3> QED
      BY <2>5, <3>1, <3>2 DEF Return
  <2>6. ASSUME NEW p \in Procs, NEW o \in Objects, NewEntry(p, o) \/ GetBuffer(p, o)
        PROVE  OutcomeInv'
    BY <2>0, <2>6, <2>a DEF NewEntry, GetBuffer
  <2>7. ASSUME NEW p \in Procs,
               \/ WithFields(p) \/ EntryCheck(p) \/ EntryWriterWrite(p) \/ Sample(p)
               \/ Format(p) \/ PutBufferBack(p) \/ ReleaseEntry(p) \/ Exit(p)
        PROVE  OutcomeInv'
    BY <2>0, <2>7, <2>a DEF WithFields, EntryCheck, EntryWriterWrite, Sample, Format,
       PutBufferBack, ReleaseEntry, Exit
  <2>8. CASE (\E l \in Levels \cup {Disabled} : SetLevel(l)) \/ UNCHANGED vars
    BY <2>8, <2>a DEF SetLevel
  <2> QED
    BY <2>1, <2>2, <2>3, <2>4, <2>5, <2>6, <2>7, <2>8 DEF Next
<1>3. ProcTypes /\ Control /\ OutcomeInv => OneOutcome
  <2> SUFFICES ASSUME ProcTypes, Control, OutcomeInv, NEW id \in 0..(calls - 1)
               PROVE  \/ Cardinality({o \in outcome : o[1] = id}) = 1
                      \/ /\ \A o \in outcome : o[1] # id
                         /\ \E p \in Procs : call[p].id = id
                                             /\ pc[p] \notin {"idle", "return", "over"}
    BY DEF OneOutcome
  <2>1. CASE Known(id)
    <3>1. PICK o \in outcome : o[1] = id /\ \A x \in outcome : x[1] = id => x = o
      BY <2>1
    <3>2. {x \in outcome : x[1] = id} = {o}
      BY <3>1
    <3> QED
      BY <3>2, FS_Singleton
  <2>2. CASE \E p \in Procs : Open(p) /\ call[p].id = id
    BY <2>2
  <2> QED
    BY <2>1, <2>2
<1> QED
  BY <1>1, <1>2, <1>3, TypeCorrectness, Typed, PTL DEF Spec

--------------------------------------------------------------------------------
(* The pools.                                                               *)

\* p works on its entry: it has not put it back yet.
Holds(p) == pc[p] \in {"fields", "check", "writer", "sample", "getBuffer", "format",
                       "output", "putBuffer", "release"}

\* p works on its buffer.
Formats(p) == pc[p] \in {"format", "output", "putBuffer"}

\* An entry that somebody works on is out of the pool, and nobody else works on it.
EntryInv ==
    /\ \A p \in Procs : Holds(p) => e[p] \in made.entry /\ entryPool[e[p]] = 0
    /\ \A p, q \in Procs : Holds(p) /\ Holds(q) /\ p # q => e[p] # e[q]
    /\ \A o \in Objects : entryPool[o] <= 1 /\ (o \notin made.entry => entryPool[o] = 0)

\* So is a buffer.
BufferInv ==
    /\ \A p \in Procs : Formats(p) => buf[p] \in made.buffer /\ bufferPool[buf[p]] = 0
    /\ \A p, q \in Procs : Formats(p) /\ Formats(q) /\ p # q => buf[p] # buf[q]
    /\ \A o \in Objects : bufferPool[o] <= 1 /\ (o \notin made.buffer => bufferPool[o] = 0)

\* What a goroutine that holds an entry or a buffer holds is one.
LEMMA HeldObjects ==
    ProcTypes /\ Control => /\ \A p \in Procs : Holds(p) => e[p] \in Objects
                            /\ \A p \in Procs : Formats(p) => buf[p] \in Objects
BY DEF ProcTypes, Control, Holds, Formats

\* A call with an entry that is used once is over when it returns.
LEMMA ReturnsOnce ==
    ASSUME EntryUses = 1, ProcTypes, Control, NEW p \in Procs, Return(p)
    PROVE  Idle(p) /\ UNCHANGED calls
<1>1. call[p].uses \in Nat /\ call[p].uses <= 1
  BY DEF Control, Calls
<1> QED
  BY <1>1 DEF Return

\* No two goroutines get hold of one entry.
LEMMA EntryInductive ==
    EntryUses = 1 /\ ProcTypes /\ Control /\ ObjectTypes /\ EntryInv /\ [Next]_vars
        => EntryInv'
<1> SUFFICES ASSUME EntryUses = 1, ProcTypes, Control, ObjectTypes, EntryInv, [Next]_vars
             PROVE  EntryInv'
  OBVIOUS
<1> USE DEF EntryInv
<1>0. /\ entryPool \in [Objects -> Nat] /\ made \in [entry : SUBSET Objects, buffer : SUBSET Objects]
      /\ DOMAIN pc = Procs /\ DOMAIN e = Procs
      /\ \A p \in Procs : Holds(p) => e[p] \in Objects
  BY HeldObjects DEF ObjectTypes, ProcTypes
\* A step that takes no entry, and puts none back.
<1>a. ASSUME UNCHANGED entryPool, made'.entry = made.entry,
             \A p \in Procs : Holds(p)' => Holds(p) /\ e'[p] = e[p]
      PROVE  EntryInv'
  BY <1>a
\* p puts its entry back.
<1>b. ASSUME NEW p \in Procs, Holds(p), ~Holds(p)', Put(entryPool, e[p]), UNCHANGED made,
             \A q \in Procs \ {p} : (Holds(q)' <=> Holds(q)) /\ e'[q] = e[q]
      PROVE  EntryInv'
  <2>1. \A q \in Procs : Holds(q)' => q # p /\ Holds(q) /\ e'[q] = e[q] /\ e[q] # e[p]
    BY <1>b
  <2>2. \A o \in Objects : entryPool'[o] = IF o = e[p] THEN 1 ELSE entryPool[o]
    BY <1>0, <1>b DEF Put
  <2> QED
    BY <1>0, <1>b, <2>1, <2>2
<1>1. ASSUME NEW p \in Procs, NEW o \in Objects, NewEntry(p, o) PROVE EntryInv'
  <2>1. /\ made'.entry = made.entry \cup {o} /\ pc[p] = "newEntry"
        /\ e' = [e EXCEPT ![p] = o]
        /\ \A q \in Procs \ {p} : pc'[q] = pc[q] /\ e'[q] = e[q]
    BY <1>0, <1>1 DEF NewEntry
  <2>2. /\ entryPool[o] = 1 \/ o \notin made.entry
        /\ \A x \in Objects : entryPool'[x] = IF x = o THEN 0 ELSE entryPool[x]
    BY <1>0, <1>1 DEF NewEntry, Get, CanGet
  <2>3. \A q \in Procs \ {p} : (Holds(q)' <=> Holds(q)) /\ (Holds(q) => e[q] # o)
    BY <2>1, <2>2 DEF Holds
  <2>4. e'[p] = o /\ o \in made'.entry /\ entryPool'[o] = 0
    BY <1>0, <2>1, <2>2
  <2>5. \A q \in Procs : Holds(q)' => e'[q] \in made'.entry /\ entryPool'[e'[q]] = 0
    BY <1>0, <2>1, <2>2, <2>3, <2>4
  <2>6. \A q, r \in Procs : Holds(q)' /\ Holds(r)' /\ q # r => e'[q] # e'[r]
    BY <2>1, <2>3, <2>4
  <2>7. \A x \in Objects : entryPool'[x] <= 1 /\ (x \notin made'.entry => entryPool'[x] = 0)
    BY <1>0, <2>1, <2>2
  <2> QED
    BY <2>5, <2>6, <2>7
<1>2. ASSUME NEW p \in Procs, EntryDisabled(p) \/ SampleOut(p) \/ ReleaseEntry(p)
      PROVE  EntryInv'
  <2>1. /\ pc[p] \in {"check", "sample", "release"} /\ Put(entryPool, e[p]) /\ UNCHANGED made
        /\ Goto(p, "over") \/ Goto(p, "return")
        /\ UNCHANGED e
    BY <1>2 DEF EntryDisabled, SampleOut, ReleaseEntry, Release, AfterUnsampled
  <2>2. Holds(p) /\ ~Holds(p)'
    BY <1>0, <2>1 DEF Holds
  <2>3. \A q \in Procs \ {p} : (Holds(q)' <=> Holds(q)) /\ e'[q] = e[q]
    BY <1>0, <2>1 DEF Holds
  <2> HIDE DEF EntryInv
  <2> QED
    BY <1>b, <2>1, <2>2, <2>3
<1>3. ASSUME NEW p \in Procs, Abandon(p) PROVE EntryInv'
  <2>1. Holds(p) /\ made'.entry = made.entry \ {e[p]} /\ UNCHANGED entryPool /\ Idle(p)
    BY <1>0, <1>3 DEF Abandon, Holds
  <2>2. \A q \in Procs : Holds(q)' => q # p /\ Holds(q) /\ e'[q] = e[q]
    BY <1>0, <2>1 DEF Idle, Holds
  <2> QED
    BY <1>0, <2>1, <2>2
<1>4. ASSUME NEW p \in Procs, NEW s \in Shapes,
             LogStart(p, s) \/ LogDisabled(p, s) \/ WithStart(p, s) \/ WriterStart(p, s)
      PROVE  EntryInv'
  <2>1. /\ UNCHANGED <<entryPool, made, e>>
        /\ UNCHANGED pc \/ Goto(p, "newEntry")
    BY <1>4 DEF LogStart, LogDisabled, WithStart, WriterStart, Start
  <2>2. \A q \in Procs : Holds(q)' => Holds(q) /\ e'[q] = e[q]
    BY <1>0, <2>1 DEF Holds
  <2> QED
    BY <1>a, <2>1, <2>2
<1>5. ASSUME NEW p \in Procs,
             \/ WithFields(p) \/ EntryCheck(p) \/ EntryWriterWrite(p) \/ Sample(p)
             \/ Format(p) \/ FormatFails(p) \/ Output(p) \/ OutputFails(p)
             \/ PutBufferBack(p) \/ Exit(p)
             \/ \E o \in Objects : GetBuffer(p, o)
      PROVE  EntryInv'
  <2>1. UNCHANGED entryPool /\ UNCHANGED e /\ made'.entry = made.entry
    BY <1>0, <1>5 DEF WithFields, EntryCheck, EntryWriterWrite, Sample, Format, FormatFails,
       Output, OutputFails, PutBufferBack, Exit, GetBuffer
  <2>2. /\ Holds(p) \/ UNCHANGED pc
        /\ \A q \in Procs \ {p} : pc'[q] = pc[q]
    BY <1>0, <1>5 DEF WithFields, EntryCheck, EntryWriterWrite, Sample, Format, FormatFails,
       Output, OutputFails, PutBufferBack, Exit, GetBuffer, Holds
  <2>3. \A q \in Procs : Holds(q)' => Holds(q)
    BY <2>2 DEF Holds
  <2> QED
    BY <1>a, <2>1, <2>3
<1>6. ASSUME NEW p \in Procs, Return(p) PROVE EntryInv'
  <2>1. Idle(p) /\ UNCHANGED <<entryPool, made>>
    BY <1>6, ReturnsOnce DEF Return
  <2>2. \A q \in Procs : Holds(q)' => Holds(q) /\ e'[q] = e[q]
    BY <1>0, <2>1 DEF Idle, Holds
  <2> QED
    BY <1>a, <2>1, <2>2
<1>7. CASE (\E l \in Levels \cup {Disabled} : SetLevel(l)) \/ UNCHANGED vars
  BY <1>7, <1>a DEF SetLevel, Holds
<1> QED
  BY <1>1, <1>2, <1>3, <1>4, <1>5, <1>6, <1>7 DEF Next

\* No two goroutines get hold of one buffer.
LEMMA BufferInductive ==
    ProcTypes /\ Control /\ ObjectTypes /\ BufferInv /\ [Next]_vars => BufferInv'
<1> SUFFICES ASSUME ProcTypes, Control, ObjectTypes, BufferInv, [Next]_vars
             PROVE  BufferInv'
  OBVIOUS
<1> USE DEF BufferInv
<1>0. /\ bufferPool \in [Objects -> Nat]
      /\ made \in [entry : SUBSET Objects, buffer : SUBSET Objects]
      /\ DOMAIN pc = Procs /\ DOMAIN buf = Procs
      /\ \A p \in Procs : Formats(p) => buf[p] \in Objects
  BY HeldObjects DEF ObjectTypes, ProcTypes
\* A step that takes no buffer, and puts none back.
<1>a. ASSUME UNCHANGED <<bufferPool, buf>>, made'.buffer = made.buffer,
             \A p \in Procs : Formats(p)' => Formats(p)
      PROVE  BufferInv'
  BY <1>a
<1>1. ASSUME NEW p \in Procs, NEW o \in Objects, GetBuffer(p, o) PROVE BufferInv'
  <2>1. /\ made'.buffer = made.buffer \cup {o} /\ pc[p] = "getBuffer"
        /\ buf' = [buf EXCEPT ![p] = o]
        /\ \A q \in Procs \ {p} : pc'[q] = pc[q] /\ buf'[q] = buf[q]
    BY <1>0, <1>1 DEF GetBuffer
  <2>2. /\ bufferPool[o] = 1 \/ o \notin made.buffer
        /\ \A x \in Objects : bufferPool'[x] = IF x = o THEN 0 ELSE bufferPool[x]
    BY <1>0, <1>1 DEF GetBuffer, Get, CanGet
  <2>3. \A q \in Procs \ {p} : (Formats(q)' <=> Formats(q)) /\ (Formats(q) => buf[q] # o)
    BY <2>1, <2>2 DEF Formats
  <2>4. buf'[p] = o /\ o \in made'.buffer /\ bufferPool'[o] = 0
    BY <1>0, <2>1, <2>2
  <2>5. \A q \in Procs : Formats(q)' => buf'[q] \in made'.buffer /\ bufferPool'[buf'[q]] = 0
    BY <1>0, <2>1, <2>2, <2>3, <2>4
  <2>6. \A q, r \in Procs : Formats(q)' /\ Formats(r)' /\ q # r => buf'[q] # buf'[r]
    BY <2>1, <2>3, <2>4
  <2>7. \A x \in Objects : bufferPool'[x] <= 1 /\ (x \notin made'.buffer => bufferPool'[x] = 0)
    BY <1>0, <2>1, <2>2
  <2> QED
    BY <2>5, <2>6, <2>7
<1>2. ASSUME NEW p \in Procs, PutBufferBack(p) PROVE BufferInv'
  <2>1. /\ Formats(p) /\ ~Formats(p)' /\ UNCHANGED made
        /\ \A q \in Procs \ {p} : (Formats(q)' <=> Formats(q)) /\ buf'[q] = buf[q]
    BY <1>0, <1>2 DEF PutBufferBack, PutBuffer, Formats
  <2>2. \A q \in Procs : Formats(q)' => q # p /\ Formats(q) /\ buf'[q] = buf[q] /\ buf[q] # buf[p]
    BY <2>1
  <2>3. \A o \in Objects : bufferPool'[o] = IF o = buf[p] THEN 1 ELSE bufferPool[o]
    BY <1>0, <1>2, <2>1 DEF PutBufferBack, PutBuffer, Put
  <2> QED
    BY <1>0, <2>1, <2>2, <2>3
<1>3. ASSUME NEW p \in Procs,
             \/ EntryDisabled(p) \/ Abandon(p) \/ Return(p) \/ SampleOut(p)
             \/ ReleaseEntry(p) \/ WithFields(p) \/ EntryCheck(p) \/ EntryWriterWrite(p)
             \/ Sample(p) \/ Format(p) \/ FormatFails(p) \/ Output(p) \/ OutputFails(p)
             \/ Exit(p)
      PROVE  BufferInv'
  <2>1. UNCHANGED <<bufferPool, buf>> /\ made'.buffer = made.buffer
    BY <1>0, <1>3 DEF EntryDisabled, Abandon, Return, SampleOut, ReleaseEntry, WithFields,
       EntryCheck, EntryWriterWrite, Sample, Format, FormatFails, Output, OutputFails, Exit
  <2>2. CASE Abandon(p) \/ Return(p)
    <3>1. Idle(p) \/ Goto(p, "writer") \/ Goto(p, "check")
      BY <2>2 DEF Abandon, Return, Reuse
    <3>2. \A q \in Procs : Formats(q)' => Formats(q)
      BY <1>0, <3>1 DEF Idle, Formats
    <3> QED
      BY <1>a, <2>1, <3>2
  <2>3. CASE ~(Abandon(p) \/ Return(p))
    <3>1. \/ UNCHANGED pc \/ Goto(p, "return") \/ Goto(p, "over") \/ Goto(p, "check") \/ Goto(p, "sample")
          \/ Goto(p, "getBuffer")
          \/ pc[p] \in {"format", "output"} /\ \E l \in {"output", "putBuffer"} : Goto(p, l)
      BY <1>3, <2>3 DEF EntryDisabled, SampleOut, ReleaseEntry, WithFields, EntryCheck, EntryWriterWrite,
         Sample, Format, FormatFails, Output, OutputFails, Exit, AfterUnsampled,
         AfterFormatError
    <3>2. \A q \in Procs : Formats(q)' => Formats(q)
      BY <1>0, <3>1 DEF Formats
    <3> QED
      BY <1>a, <2>1, <3>2
  <2> QED
    BY <2>2, <2>3
<1>4. ASSUME NEW p \in Procs,
             \/ \E s \in Shapes : \/ LogStart(p, s) \/ LogDisabled(p, s)
                                  \/ WithStart(p, s) \/ WriterStart(p, s)
             \/ \E o \in Objects : NewEntry(p, o)
      PROVE  BufferInv'
  <2>1. /\ UNCHANGED <<bufferPool, buf>> /\ made'.buffer = made.buffer
        /\ UNCHANGED pc \/ \E l \in {"newEntry", "fields", "writer", "check"} : Goto(p, l)
    BY <1>0, <1>4 DEF LogStart, LogDisabled, WithStart, WriterStart, Start, NewEntry
  <2>2. \A q \in Procs : Formats(q)' => Formats(q)
    BY <1>0, <2>1 DEF Formats
  <2> QED
    BY <1>a, <2>1, <2>2
<1>5. CASE (\E l \in Levels \cup {Disabled} : SetLevel(l)) \/ UNCHANGED vars
  BY <1>5, <1>a DEF SetLevel, Formats
<1> QED
  BY <1>1, <1>2, <1>3, <1>4, <1>5 DEF Next

\* An entry, and a buffer, is in the hands of one goroutine or once in its pool,
\* provided that nobody logs twice with one Entry of Logger.With or writes twice to one
\* io.Writer of Logger.Writer.
THEOREM ExclusiveTheorem ==
    ASSUME EntryUses = 1
    PROVE  Spec => []Exclusive
<1>1. Init => EntryInv /\ BufferInv
  BY DEF Init, EntryInv, BufferInv, Holds, Formats
<1>2. ProcTypes /\ Control /\ EntryInv /\ BufferInv /\ ObjectTypes => Exclusive
  <2> SUFFICES ASSUME ProcTypes, Control, EntryInv, BufferInv, ObjectTypes,
                      NEW o \in Objects
               PROVE  /\ entryPool[o] + Cardinality(Users(o)) <= 1
                      /\ bufferPool[o] + Cardinality({p \in Procs : buf[p] = o}) <= 1
    BY DEF Exclusive
  <2>0. /\ entryPool[o] \in {0, 1} /\ bufferPool[o] \in {0, 1}
        /\ None # o
    BY EntriesAssumption DEF ObjectTypes, EntryInv, BufferInv
  <2>1. entryPool[o] + Cardinality(Users(o)) <= 1
    <3>1. \A p \in Users(o) : Holds(p) /\ e[p] = o /\ p \in Procs
      BY <2>0 DEF Users, Holds, ProcTypes, Control
    <3>2. CASE Users(o) = {}
      BY <2>0, <3>2, FS_EmptySet
    <3>3. CASE Users(o) # {}
      <4>1. PICK p \in Users(o) : TRUE
        BY <3>3
      <4>2. Users(o) = {p} /\ entryPool[o] = 0
        BY <3>1, <4>1 DEF EntryInv
      <4>3. Cardinality(Users(o)) = 1
        BY <4>2, FS_Singleton
      <4> QED
        BY <4>2, <4>3
    <3> QED
      BY <3>2, <3>3
  <2>2. bufferPool[o] + Cardinality({p \in Procs : buf[p] = o}) <= 1
    <3> DEFINE Bufs == {p \in Procs : buf[p] = o}
    <3>1. \A p \in Bufs : Formats(p) /\ buf[p] = o /\ p \in Procs
      BY <2>0 DEF Formats, ProcTypes, Control
    <3>2. CASE Bufs = {}
      BY <2>0, <3>2, FS_EmptySet
    <3>3. CASE Bufs # {}
      <4>1. PICK p \in Bufs : TRUE
        BY <3>3
      <4>2. Bufs = {p} /\ bufferPool[o] = 0
        BY <3>1, <4>1 DEF BufferInv
      <4>3. Cardinality(Bufs) = 1
        BY <4>2, FS_Singleton
      <4> QED
        BY <4>2, <4>3
    <3> QED
      BY <3>2, <3>3
  <2> QED
    BY <2>1, <2>2
<1>3. ProcTypes /\ Control /\ ObjectTypes /\ EntryInv /\ [Next]_vars => EntryInv'
  BY EntryInductive
<1> QED
  BY <1>1, <1>2, <1>3, BufferInductive, TypeCorrectness, Typed, PTL DEF Spec

--------------------------------------------------------------------------------
(* What is written.                                                         *)

\* The fields that p's entry was made with.
Passed(p) == IF call[p].fields THEN {call[p].first} ELSE {}

Wanted(p) == [level |-> call[p].level, msg |-> call[p].id, fields |-> Passed(p)]

\* Of what its entry and its buffer hold, a goroutine has already written this.
LineInv ==
    /\ \A p \in Procs :
        /\ pc[p] = "fields" => entries[e[p]].fields = {} /\ call[p].fields
        /\ pc[p] = "check" => entries[e[p]].fields = Passed(p)
        /\ pc[p] = "writer" => entries[e[p]].fields = {} /\ ~call[p].fields
        /\ pc[p] \in {"sample", "getBuffer", "format"} => entries[e[p]] = Wanted(p)
        /\ pc[p] = "output" => buffers[buf[p]] = Wanted(p)
    /\ LinesIntact

\* Nobody touches the entry or the buffer of another, so what is written holds what its
\* call passed and nothing of another; again if no entry is used twice.
THEOREM LinesTheorem ==
    ASSUME EntryUses = 1
    PROVE  Spec => []LinesIntact
<1> DEFINE At1(p) ==
      /\ pc[p] = "fields" => entries[e[p]].fields = {} /\ call[p].fields
      /\ pc[p] = "check" => entries[e[p]].fields = Passed(p)
      /\ pc[p] = "writer" => entries[e[p]].fields = {} /\ ~call[p].fields
      /\ pc[p] \in {"sample", "getBuffer", "format"} => entries[e[p]] = Wanted(p)
      /\ pc[p] = "output" => buffers[buf[p]] = Wanted(p)
<1>1. Init => EntryInv /\ BufferInv /\ LineInv
  BY DEF Init, EntryInv, BufferInv, Holds, Formats, LineInv, LinesIntact
<1>2. ProcTypes /\ Control /\ ObjectTypes /\ EntryInv /\ [Next]_vars => EntryInv'
  BY EntryInductive
<1>3. ProcTypes /\ Control /\ ObjectTypes /\ EntryInv /\ BufferInv /\ LineInv /\ [Next]_vars
         => LineInv'
  <2> SUFFICES ASSUME ProcTypes, Control, ObjectTypes, EntryInv, BufferInv, LineInv,
                      [Next]_vars
               PROVE  LineInv'
    OBVIOUS
  <2>0. /\ DOMAIN pc = Procs /\ DOMAIN e = Procs /\ DOMAIN call = Procs /\ DOMAIN buf = Procs
        /\ \A p \in Procs : Holds(p) => e[p] \in Objects /\ entries[e[p]] \in Lines
        /\ \A p \in Procs : Formats(p) => buf[p] \in Objects
        /\ entries \in [Objects -> Lines] /\ buffers \in [Objects -> Lines]
    <3>1. /\ \A p \in Procs : Holds(p) => e[p] \in Objects
          /\ \A p \in Procs : Formats(p) => buf[p] \in Objects
      BY HeldObjects
    <3>2. entries \in [Objects -> Lines] /\ buffers \in [Objects -> Lines]
      BY DEF ObjectTypes
    <3>3. /\ DOMAIN pc = Procs /\ DOMAIN e = Procs /\ DOMAIN call = Procs
          /\ DOMAIN buf = Procs
      BY DEF ProcTypes, Control
    <3> QED
      BY <3>1, <3>2, <3>3
  \* A step of p that writes no other goroutine's entry or buffer.
  <2>a. ASSUME NEW p \in Procs, At1(p)', UNCHANGED output,
               \A q \in Procs \ {p} :
                  /\ pc'[q] = pc[q] /\ call'[q] = call[q] /\ e'[q] = e[q] /\ buf'[q] = buf[q]
                  /\ Holds(q) => entries'[e[q]] = entries[e[q]]
                  /\ Formats(q) => buffers'[buf[q]] = buffers[buf[q]]
        PROVE  LineInv'
    <3>1. ASSUME NEW q \in Procs \ {p} PROVE At1(q)'
      <4>1. At1(q)
        BY DEF LineInv
      <4>2. /\ pc'[q] = pc[q] /\ Passed(q)' = Passed(q) /\ Wanted(q)' = Wanted(q)
            /\ call'[q].fields = call[q].fields
        BY <2>a, <3>1 DEF Passed, Wanted
      <4>3. Holds(q) => entries'[e'[q]] = entries[e[q]]
        BY <2>a, <3>1
      <4>4. Formats(q) => buffers'[buf'[q]] = buffers[buf[q]]
        BY <2>a, <3>1
      <4> QED
        BY <4>1, <4>2, <4>3, <4>4 DEF Holds, Formats
    <3>2. LinesIntact'
      BY <2>a DEF LineInv, LinesIntact
    <3>3. \A q \in Procs : At1(q)'
      <4> HIDE DEF At1
      <4> QED
        BY <2>a, <3>1
    <3> QED
      BY <3>2, <3>3 DEF LineInv
  <2>1. ASSUME NEW p \in Procs, NEW o \in Objects, NewEntry(p, o) PROVE LineInv'
    <3>1. \A q \in Procs \ {p} : Holds(q) => e[q] # o
      BY <2>0, <2>1 DEF NewEntry, Get, CanGet, EntryInv
    <3>2. /\ entries' = [entries EXCEPT ![o].fields = {}] /\ e' = [e EXCEPT ![p] = o]
          /\ pc' = [pc EXCEPT ![p] = IF call[p].fields THEN "fields"
                                    ELSE IF call[p].kind = "writer" THEN "writer" ELSE "check"]
          /\ UNCHANGED <<buffers, call, buf, output>>
      BY <2>1 DEF NewEntry
    <3>3. entries'[e'[p]].fields = {}
      BY <2>0, <3>2 DEF Lines
    <3>4. At1(p)'
      BY <2>0, <3>2, <3>3 DEF Passed
    <3> QED
      BY <2>0, <2>a, <3>1, <3>2, <3>4

  <2>2. ASSUME NEW p \in Procs, WithFields(p) PROVE LineInv'
    <3>1. pc[p] = "fields" /\ Holds(p) /\ \A q \in Procs \ {p} : Holds(q) => e[q] # e[p]
      BY <2>2 DEF WithFields, EntryInv, Holds
    <3>2. entries'[e[p]].fields = {call[p].first} /\ call[p].fields
      BY <2>0, <2>2, <3>1 DEF WithFields, LineInv, Lines
    <3>3. At1(p)'
      BY <2>0, <2>2, <3>2 DEF WithFields, Passed
    <3>4. \A q \in Procs \ {p} :
             /\ pc'[q] = pc[q] /\ call'[q] = call[q] /\ e'[q] = e[q] /\ buf'[q] = buf[q]
             /\ Holds(q) => entries'[e[q]] = entries[e[q]]
      BY <2>0, <2>2, <3>1 DEF WithFields
    <3>5. UNCHANGED <<buffers, output>>
      BY <2>2 DEF WithFields
    <3> QED
      BY <2>a, <3>3, <3>4, <3>5
  <2>3. ASSUME NEW p \in Procs, EntryCheck(p) \/ EntryWriterWrite(p) PROVE LineInv'
    <3>1. /\ pc[p] \in {"check", "writer"} /\ entries' = [entries EXCEPT ![e[p]] = Fill(p)]
          /\ pc' = [pc EXCEPT ![p] = "sample"]
          /\ UNCHANGED <<call, e, buf, buffers, output>>
      BY <2>3 DEF EntryCheck, EntryWriterWrite
    <3>2. Holds(p) /\ \A q \in Procs \ {p} : Holds(q) => e[q] # e[p]
      BY <3>1 DEF EntryInv, Holds
    <3>3. entries[e[p]] \in Lines /\ entries[e[p]].fields = Passed(p)
      BY <2>0, <3>1, <3>2 DEF LineInv, Passed
    <3>4. entries'[e[p]] = Wanted(p)
      <4>1. entries'[e[p]] = [entries[e[p]] EXCEPT !.level = call[p].level, !.msg = call[p].id]
        BY <2>0, <3>1, <3>2 DEF Fill
      <4> QED
        BY <3>3, <4>1 DEF Lines, Wanted
    <3>5. At1(p)'
      BY <2>0, <3>1, <3>4 DEF Wanted, Passed
    <3>6. \A q \in Procs \ {p} :
             /\ pc'[q] = pc[q] /\ call'[q] = call[q] /\ e'[q] = e[q] /\ buf'[q] = buf[q]
             /\ Holds(q) => entries'[e[q]] = entries[e[q]]
      BY <2>0, <3>1, <3>2
    <3> QED
      BY <2>a, <3>1, <3>5, <3>6
  <2>4. ASSUME NEW p \in Procs, EntryDisabled(p) \/ SampleOut(p) \/ ReleaseEntry(p)
        PROVE  LineInv'
    <3>1. /\ pc[p] \in {"check", "sample", "release"} /\ Release(e[p])
          /\ Goto(p, "over") \/ Goto(p, "return")
          /\ UNCHANGED <<call, e, buf, buffers, output>>
      BY <2>4 DEF EntryDisabled, SampleOut, ReleaseEntry, AfterUnsampled
    <3>2. Holds(p) /\ \A q \in Procs \ {p} : Holds(q) => e[q] # e[p]
      BY <3>1 DEF EntryInv, Holds
    <3>3. pc'[p] \in {"over", "return"}
      BY <2>0, <3>1
    <3>4. \A q \in Procs \ {p} :
             pc'[q] = pc[q] /\ call'[q] = call[q] /\ e'[q] = e[q] /\ buf'[q] = buf[q]
      BY <2>0, <3>1
    <3>5. \A q \in Procs \ {p} : Holds(q) => entries'[e[q]] = entries[e[q]]
      BY <2>0, <3>1, <3>2 DEF Release
    <3> QED
      BY <2>a, <3>1, <3>3, <3>4, <3>5
  <2>5. ASSUME NEW p \in Procs, NEW o \in Objects, GetBuffer(p, o) PROVE LineInv'
    <3>1. \A q \in Procs \ {p} : Formats(q) => buf[q] # o
      BY <2>0, <2>5 DEF GetBuffer, Get, CanGet, BufferInv
    <3>2. /\ pc[p] = "getBuffer" /\ pc' = [pc EXCEPT ![p] = "format"]
          /\ buffers' = [buffers EXCEPT ![o] = NoLine] /\ buf' = [buf EXCEPT ![p] = o]
          /\ UNCHANGED <<entries, call, e, output>>
      BY <2>5 DEF GetBuffer, callVars
    <3>3. At1(p)'
      BY <2>0, <3>2 DEF LineInv, Wanted, Passed
    <3> QED
      BY <2>0, <2>a, <3>1, <3>2, <3>3
  <2>6. ASSUME NEW p \in Procs, Format(p) PROVE LineInv'
    <3>1. Formats(p) /\ \A q \in Procs \ {p} : Formats(q) => buf[q] # buf[p]
      BY <2>6 DEF Format, BufferInv, Formats
    <3>2. /\ pc[p] = "format" /\ pc' = [pc EXCEPT ![p] = "output"]
          /\ buffers' = [buffers EXCEPT ![buf[p]] = entries[e[p]]]
          /\ UNCHANGED <<entries, call, e, buf, output>>
      BY <2>6 DEF Format
    <3>3. At1(p)'
      BY <2>0, <3>1, <3>2 DEF LineInv, Wanted, Passed
    <3> QED
      BY <2>0, <2>a, <3>1, <3>2, <3>3
  <2>7. ASSUME NEW p \in Procs, PutBufferBack(p) PROVE LineInv'
    <3>1. Formats(p) /\ \A q \in Procs \ {p} : Formats(q) => buf[q] # buf[p]
      BY <2>7 DEF PutBufferBack, BufferInv, Formats
    <3>2. /\ pc' = [pc EXCEPT ![p] = "release"]
          /\ buffers' = [buffers EXCEPT ![buf[p]] = NoLine] /\ buf' = [buf EXCEPT ![p] = None]
          /\ UNCHANGED <<entries, call, e, output>>
      BY <2>7 DEF PutBufferBack, PutBuffer
    <3>3. At1(p)'
      BY <2>0, <3>2
    <3> QED
      BY <2>0, <2>a, <3>1, <3>2, <3>3
  <2>8. ASSUME NEW p \in Procs, Output(p) PROVE LineInv'
    <3>1. /\ pc[p] = "output" /\ pc' = [pc EXCEPT ![p] = "putBuffer"]
          /\ output' = output \cup {Line(p)}
          /\ UNCHANGED <<entries, buffers, call, e, buf>>
      BY <2>8 DEF Output
    <3>2. Line(p).got = [level |-> Line(p).want, msg |-> Line(p).id,
                         fields |-> IF Line(p).fields THEN {Line(p).first} ELSE {}]
      BY <3>1 DEF Line, LineInv, Wanted, Passed
    <3>3. LinesIntact'
      BY <3>1, <3>2 DEF LineInv, LinesIntact
    <3>4. \A q \in Procs : At1(q)'
      BY <2>0, <3>1 DEF LineInv, Wanted, Passed
    <3> QED
      BY <3>3, <3>4 DEF LineInv
  <2>9. ASSUME NEW p \in Procs, Abandon(p) \/ Return(p) PROVE LineInv'
    <3>1. Idle(p) /\ UNCHANGED <<entries, buffers, buf, output>>
      BY <2>9, ReturnsOnce DEF Abandon, Return
    <3>2. pc'[p] = "idle"
      BY <2>0, <3>1 DEF Idle
    <3>3. \A q \in Procs \ {p} : pc'[q] = pc[q] /\ call'[q] = call[q] /\ e'[q] = e[q]
      BY <2>0, <3>1 DEF Idle
    <3> QED
      BY <2>a, <3>1, <3>2, <3>3
  <2>10. ASSUME NEW p \in Procs,
                \/ Sample(p) \/ FormatFails(p) \/ OutputFails(p) \/ Exit(p)
         PROVE  LineInv'
    <3>1. /\ \/ UNCHANGED pc
             \/ pc' = [pc EXCEPT ![p] = "putBuffer"]
             \/ pc[p] = "sample" /\ pc' = [pc EXCEPT ![p] = "getBuffer"]
          /\ UNCHANGED <<entries, buffers, call, e, buf, output>>
      BY <2>10 DEF Sample, FormatFails, OutputFails, Exit, AfterFormatError
    <3> QED
      BY SMTT(40), <2>0, <3>1 DEF LineInv, LinesIntact, Wanted, Passed
  <2>11. ASSUME NEW p \in Procs, NEW s \in Shapes,
                LogStart(p, s) \/ LogDisabled(p, s) \/ WithStart(p, s) \/ WriterStart(p, s)
         PROVE  LineInv'
    <3>1. /\ UNCHANGED <<entries, buffers, e, buf, output>>
          /\ UNCHANGED <<pc, call>> \/ \E uses : Start(p, s, uses)
      BY <2>11 DEF LogStart, LogDisabled, WithStart, WriterStart
    <3>2. CASE UNCHANGED <<pc, call>>
      BY <3>1, <3>2 DEF LineInv, LinesIntact, Wanted, Passed
    <3>3. CASE \E uses : Start(p, s, uses)
      <4>1. pc' = [pc EXCEPT ![p] = "newEntry"] /\ \A q \in Procs \ {p} : call'[q] = call[q]
        BY <2>0, <3>3 DEF Start
      <4>2. At1(p)'
        BY <2>0, <4>1
      <4> QED
        BY <2>0, <2>a, <3>1, <4>1, <4>2
    <3> QED
      BY <3>1, <3>2, <3>3
  <2>12. CASE (\E l \in Levels \cup {Disabled} : SetLevel(l)) \/ UNCHANGED vars
    <3>1. UNCHANGED <<entries, buffers, pc, call, e, buf, output>>
      BY <2>12 DEF SetLevel
    <3> QED
      BY <3>1 DEF LineInv, LinesIntact, Wanted, Passed
  <2> QED
    BY <2>1, <2>2, <2>3, <2>4, <2>5, <2>6, <2>7, <2>8, <2>9, <2>10, <2>11, <2>12 DEF Next
<1>4. LineInv => LinesIntact
  BY DEF LineInv
<1> QED
  BY <1>1, <1>2, <1>3, <1>4, BufferInductive, TypeCorrectness, Typed, PTL DEF Spec

================================================================================
