------------------------------- MODULE LoggerProofs -------------------------------
(***************************************************************************)
(* Proofs about Logger, for all goroutines, writers, hooks, configurations *)
(* and bounds: lines go to the writer of their logger (OwnWriter), every   *)
(* buffer belongs to a logger (NoOrphanBuffer), and loggers run the hooks  *)
(* that were asked for (HooksAsAsked).                                     *)
(***************************************************************************)
EXTENDS Logger, SequenceTheorems, TLAPS

--------------------------------------------------------------------------------
(* Types.                                                                   *)

\* What a place of an array of hooks holds.
Place == Hooks \cup {None}

LoggerType == [async : BOOLEAN, buf : Nat, writer : Writers,
               hooks : [arr : Nat, len : Nat]]
BufferType == [writer : Writers, pending : Seq(Nat), stop : BOOLEAN, done : BOOLEAN]
LineType   == [want : Writers \cup {None},
               at : {"called", "buffered", "late", "passed", "dropped", "left", "written"},
               by : Writers \cup {None}]

\* The goroutine is in a call that logs and has not handed its line over.
Calling(p) == pc[p] = "async"

\* The goroutine has made a buffer and not stored it yet.
Storing(p) == pc[p] = "store"

LoggerTypes ==
    /\ config \in Configs
    /\ loggers \in Seq(LoggerType)
    /\ default \in DOMAIN loggers
    /\ rewired \subseteq DOMAIN loggers
    /\ \A l \in DOMAIN loggers : loggers[l].buf \in 0..Len(buffers)

LineTypes ==
    /\ buffers \in Seq(BufferType)
    /\ lines \in Seq(LineType)
    /\ \A b \in DOMAIN buffers : \A k \in DOMAIN buffers[b].pending :
          buffers[b].pending[k] \in DOMAIN lines

ProcTypes ==
    /\ pc \in [Procs -> {"idle", "check", "create", "store", "async", "exit", "closing"}]
    /\ on \in [Procs -> Nat] /\ cur \in [Procs -> Nat] /\ fatal \in [Procs -> BOOLEAN]
    /\ raced \in BOOLEAN /\ crossed \subseteq Procs
    /\ \A p \in Procs : Calling(p) => on[p] \in DOMAIN loggers /\ cur[p] \in DOMAIN lines
    /\ \A p \in Procs : Storing(p) => on[p] \in DOMAIN loggers /\ cur[p] \in DOMAIN buffers

Types == LoggerTypes /\ LineTypes /\ ProcTypes

\* Facts about appending.
LEMMA AppendFacts ==
    ASSUME NEW S, NEW s \in Seq(S), NEW e \in S
    PROVE  /\ Append(s, e) \in Seq(S)
           /\ Len(Append(s, e)) = Len(s) + 1
           /\ DOMAIN Append(s, e) = DOMAIN s \cup {Len(s) + 1}
           /\ \A i \in DOMAIN s : Append(s, e)[i] = s[i]
           /\ Append(s, e)[Len(s) + 1] = e
           /\ DOMAIN s = 1..Len(s) /\ Len(s) \in Nat
OBVIOUS

\* What New appends to the buffers is one that belongs to the new logger, or nothing.
LEMMA MadeBuffers ==
    ASSUME LoggerAssumption, Types
    PROVE  buffers \o BufferOfConfig
             = IF config.async THEN Append(buffers, NewBuffer(config.writer)) ELSE buffers
BY DEF BufferOfConfig, Types, LineTypes

\* A new buffer is empty, and for its writer.
LEMMA NewBufferType ==
    ASSUME NEW w \in Writers
    PROVE  /\ NewBuffer(w) \in BufferType
           /\ NewBuffer(w).writer = w /\ NewBuffer(w).pending = <<>>
BY DEF NewBuffer, BufferType

--------------------------------------------------------------------------------
(* The inductive invariants.                                                *)

\* A buffer is for the writer of each logger that has it and was not rewired, and so
\* are its lines; a line that was not handed over belongs to one call and is in no
\* buffer; and a buffer that is not stored yet is for the writer of its logger, unless
\* SetWriter met its making.
WriterInv ==
    /\ \A l \in DOMAIN loggers : l \notin rewired /\ loggers[l].buf # 0
          => buffers[loggers[l].buf].writer = loggers[l].writer
    /\ \A b \in DOMAIN buffers : \A k \in DOMAIN buffers[b].pending :
          /\ lines[buffers[b].pending[k]].want \in {None, buffers[b].writer}
          /\ lines[buffers[b].pending[k]].at # "called"
    /\ \A p \in Procs : Calling(p) => lines[cur[p]].at = "called"
    /\ \A p, q \in Procs : Calling(p) /\ Calling(q) /\ p # q => cur[p] # cur[q]
    /\ \A p \in Procs : Storing(p) /\ p \notin crossed
          => buffers[cur[p]].writer = loggers[on[p]].writer
    /\ OwnWriter

\* The buffer is a logger's, or is about to be.
Owned(b) == \/ \E l \in DOMAIN loggers : loggers[l].buf = b
            \/ \E p \in Procs : Storing(p) /\ cur[p] = b

\* Until SetAsync has met another one, one goroutine at most is in it, and the
\* default logger has no buffer while one is made for it.
OwnerInv ==
    raced \/ /\ \A b \in DOMAIN buffers : Owned(b)
             /\ \A p \in Procs : pc[p] \in {"create", "store"} => loggers[default].buf = 0
             /\ \A p \in Procs : Storing(p) => on[p] = default
             /\ \A p, q \in Procs : Setting(p) /\ Setting(q) => p = q

\* No goroutine gets further in SetAsync.
SetAsyncKept ==
    \A p \in Procs : /\ Setting(p)' => Setting(p)
                     /\ pc'[p] = "create" => pc[p] = "create"
                     /\ Storing(p)' <=> Storing(p)
                     /\ Storing(p) => on'[p] = on[p] /\ cur'[p] = cur[p]

\* Then a step that changes no buffer of a logger keeps the owners.
LEMMA KeptOwners ==
    ASSUME Types, OwnerInv, SetAsyncKept, UNCHANGED <<default, raced>>,
           DOMAIN loggers' = DOMAIN loggers, DOMAIN buffers' = DOMAIN buffers,
           \A l \in DOMAIN loggers : loggers'[l].buf = loggers[l].buf
    PROVE  OwnerInv'
<1>1. default \in DOMAIN loggers
  BY DEF Types, LoggerTypes
<1>2. ASSUME NEW b, Owned(b) PROVE Owned(b)'
  BY <1>2 DEF Owned, SetAsyncKept
<1>3. \A p \in Procs : pc'[p] \in {"create", "store"} => pc[p] \in {"create", "store"}
  BY DEF SetAsyncKept, Storing
<1> QED
  BY <1>1, <1>2, <1>3 DEF OwnerInv, SetAsyncKept

--------------------------------------------------------------------------------
(* Actions that make a logger.                                              *)

\* What they have in common: the logger that is appended has a buffer that is there
\* or a new one, for its writer unless it counts as rewired.
Appended(new) ==
    /\ new \in LoggerType /\ loggers' = Append(loggers, new)
    /\ \/ buffers' = buffers /\ new.buf \in 0..Len(buffers)
       \/ \E w \in Writers : /\ buffers' = Append(buffers, NewBuffer(w))
                             /\ new.buf = Len(buffers) + 1
    /\ \/ Len(loggers) + 1 \in rewired' \/ new.buf = 0
       \/ buffers'[new.buf].writer = new.writer
    /\ rewired \subseteq rewired' /\ rewired' \subseteq rewired \cup {Len(loggers) + 1}
    /\ UNCHANGED <<config, default, procVars, lines, crossed, raced>>

AppendedFacts(new) ==
    /\ loggers' \in Seq(LoggerType)
    /\ DOMAIN loggers' = DOMAIN loggers \cup {Len(loggers) + 1}
    /\ Len(loggers) + 1 \notin DOMAIN loggers
    /\ \A l \in DOMAIN loggers : loggers'[l] = loggers[l]
    /\ loggers'[Len(loggers) + 1] = new
    /\ buffers' \in Seq(BufferType) /\ Len(buffers) <= Len(buffers')
    /\ \A b \in DOMAIN buffers : b \in DOMAIN buffers' /\ buffers'[b] = buffers[b]
    /\ \A b \in DOMAIN buffers' \ DOMAIN buffers :
          b = new.buf /\ DOMAIN buffers'[b].pending = {}
    /\ new.buf \in 0..Len(buffers')
    /\ DOMAIN buffers = 1..Len(buffers) /\ DOMAIN buffers' = 1..Len(buffers')
    /\ UNCHANGED <<config, default, pc, on, cur, fatal, lines, crossed, raced>>

\* What such a step does to each logger and buffer.
LEMMA AppendedEffect ==
    ASSUME LoggerAssumption, Types, NEW new, Appended(new)
    PROVE  AppendedFacts(new)
<1> USE DEF Types, LineTypes, LoggerTypes
<1>1. /\ loggers' \in Seq(LoggerType)
      /\ DOMAIN loggers' = DOMAIN loggers \cup {Len(loggers) + 1}
      /\ Len(loggers) + 1 \notin DOMAIN loggers
      /\ \A l \in DOMAIN loggers : loggers'[l] = loggers[l]
      /\ loggers'[Len(loggers) + 1] = new
  <2>1. loggers \in Seq(LoggerType) /\ new \in LoggerType
        /\ loggers' = Append(loggers, new)
    BY DEF Appended
  <2> QED
    BY <2>1, AppendFacts
<1>2. /\ buffers' \in Seq(BufferType) /\ Len(buffers) <= Len(buffers')
      /\ \A b \in DOMAIN buffers : b \in DOMAIN buffers' /\ buffers'[b] = buffers[b]
      /\ \A b \in DOMAIN buffers' \ DOMAIN buffers :
            b = new.buf /\ DOMAIN buffers'[b].pending = {}
      /\ new.buf \in 0..Len(buffers')
  <2>1. CASE buffers' = buffers /\ new.buf \in 0..Len(buffers)
    BY <2>1
  <2>2. CASE \E w \in Writers : /\ buffers' = Append(buffers, NewBuffer(w))
                                /\ new.buf = Len(buffers) + 1
    <3>1. PICK w \in Writers : /\ buffers' = Append(buffers, NewBuffer(w))
                               /\ new.buf = Len(buffers) + 1
      BY <2>2
    <3>2. /\ buffers' \in Seq(BufferType) /\ Len(buffers') = Len(buffers) + 1
          /\ DOMAIN buffers' = DOMAIN buffers \cup {Len(buffers) + 1}
          /\ \A b \in DOMAIN buffers : buffers'[b] = buffers[b]
          /\ buffers'[Len(buffers) + 1] = NewBuffer(w)
      BY <3>1, AppendFacts, NewBufferType
    <3>3. DOMAIN buffers'[Len(buffers) + 1].pending = {}
      BY <3>2, NewBufferType
    <3> QED
      BY <3>1, <3>2, <3>3
  <2> QED
    BY <2>1, <2>2 DEF Appended
<1>3. DOMAIN buffers = 1..Len(buffers) /\ DOMAIN buffers' = 1..Len(buffers')
  BY <1>2
<1>4. UNCHANGED <<config, default, pc, on, cur, fatal, lines, crossed, raced>>
  BY DEF Appended, procVars
<1> QED
  BY <1>1, <1>2, <1>3, <1>4 DEF AppendedFacts

\* It keeps the types ...
LEMMA AppendedTypes ==
    ASSUME LoggerAssumption, Types, NEW new, Appended(new)
    PROVE  Types'
<1>1. AppendedFacts(new)
  BY AppendedEffect
<1> USE <1>1 DEF AppendedFacts
<1>2. LoggerTypes'
  <2>1. /\ default' \in DOMAIN loggers' /\ rewired' \subseteq DOMAIN loggers'
        /\ config' \in Configs /\ loggers' \in Seq(LoggerType)
    BY DEF Types, LoggerTypes, Appended
  <2>2. ASSUME NEW l \in DOMAIN loggers' PROVE loggers'[l].buf \in 0..Len(buffers')
    <3>1. Len(buffers) \in Nat /\ Len(buffers') \in Nat
      BY DEF Types, LineTypes
    <3>2. CASE l \in DOMAIN loggers
      <4>1. loggers'[l].buf \in 0..Len(buffers)
        BY <3>2 DEF Types, LoggerTypes
      <4> QED
        BY <3>1, <4>1
    <3> QED
      BY <2>2, <3>2
  <2> QED
    BY <2>1, <2>2 DEF LoggerTypes
<1>3. LineTypes'
  BY DEF Types, LineTypes
<1>4. ProcTypes'
  BY DEF Types, ProcTypes, Calling, Storing
<1> QED
  BY <1>2, <1>3, <1>4 DEF Types

\* ... the writers that buffers are for ...
LEMMA AppendedWriters ==
    ASSUME LoggerAssumption, Types, WriterInv, NEW new, Appended(new)
    PROVE  WriterInv'
<1>0. AppendedFacts(new)
  BY AppendedEffect
<1> USE <1>0 DEF AppendedFacts
<1>1. ASSUME NEW l \in DOMAIN loggers', l \notin rewired', loggers'[l].buf # 0
      PROVE  buffers'[loggers'[l].buf].writer = loggers'[l].writer
  <2>1. CASE l \in DOMAIN loggers
    <3>1. loggers'[l] = loggers[l] /\ l \notin rewired
      BY <1>1, <2>1 DEF Appended
    <3>2. loggers[l].buf \in DOMAIN buffers
      BY <1>1, <2>1, <3>1 DEF Types, LoggerTypes
    <3>3. buffers[loggers[l].buf].writer = loggers[l].writer
      BY <1>1, <2>1, <3>1 DEF WriterInv
    <3> QED
      BY <3>1, <3>2, <3>3
  <2>2. CASE l = Len(loggers) + 1
    BY <1>1, <2>2 DEF Appended
  <2> QED
    BY <1>1, <2>1, <2>2
<1>2. \A b \in DOMAIN buffers' : \A k \in DOMAIN buffers'[b].pending :
          /\ lines'[buffers'[b].pending[k]].want \in {None, buffers'[b].writer}
          /\ lines'[buffers'[b].pending[k]].at # "called"
  BY DEF WriterInv
<1>3. ASSUME NEW p \in Procs, Storing(p)', p \notin crossed'
      PROVE  buffers'[cur'[p]].writer = loggers'[on'[p]].writer
  <2>1. Storing(p) /\ p \notin crossed
    BY <1>3 DEF Storing
  <2>2. on[p] \in DOMAIN loggers /\ cur[p] \in DOMAIN buffers
    BY <2>1 DEF Types, ProcTypes
  <2> QED
    BY <2>1, <2>2 DEF WriterInv
<1> QED
  BY <1>1, <1>2, <1>3 DEF WriterInv, Calling, OwnWriter

\* ... and an owner for each buffer.
LEMMA AppendedOwners ==
    ASSUME LoggerAssumption, Types, OwnerInv, NEW new, Appended(new)
    PROVE  OwnerInv'
<1>0. AppendedFacts(new)
  BY AppendedEffect
<1> USE <1>0 DEF AppendedFacts
<1>1. ASSUME ~raced, NEW b \in DOMAIN buffers' PROVE Owned(b)'
  <2>1. CASE b \in DOMAIN buffers
    <3>1. Owned(b)
      BY <1>1, <2>1 DEF OwnerInv
    <3> QED
      BY <3>1 DEF Owned, Storing
  <2>2. CASE b \notin DOMAIN buffers
    <3>1. b = new.buf /\ Len(loggers) + 1 \in DOMAIN loggers'
      BY <1>1, <2>2
    <3>2. loggers'[Len(loggers) + 1].buf = b
      BY <3>1
    <3> QED
      BY <3>1, <3>2 DEF Owned
  <2> QED
    BY <2>1, <2>2
<1>2. loggers'[default] = loggers[default]
  BY DEF Types, LoggerTypes
<1> QED
  BY <1>1, <1>2 DEF OwnerInv, Setting, Storing

\* What a clone that is given the hooks of some array is given for them.
LEMMA HookSlices ==
    ASSUME arrays \in Seq(Seq(Place)), NEW lg \in LoggerType,
           NEW n \in Nat
    PROVE  /\ Len(arrays) + 1 \in Nat
           /\ [lg EXCEPT !.hooks = [arr |-> n, len |-> lg.hooks.len + 1]] \in LoggerType
BY DEF LoggerType

\* Every action that makes a logger is such a step.
LEMMA Makes ==
    ASSUME LoggerAssumption, Types, WriterInv,
           arrays \in Seq(Seq(Place)),
           \/ New \/ NewFromClone
           \/ \E l \in DOMAIN loggers :
                \/ WithOption(l)
                \/ \E w \in Writers : WithWriter(l, w)
                \/ \E enabled \in BOOLEAN : WithAsync(l, enabled)
                \/ \E h \in Hooks : WithHook(l, h)
    PROVE  \E new : Appended(new)
<1>0. /\ loggers \in Seq(LoggerType) /\ buffers \in Seq(BufferType)
      /\ Len(buffers) \in Nat /\ Len(loggers) \in Nat /\ Len(arrays) \in Nat
      /\ config \in Configs
  BY DEF Types, LoggerTypes, LineTypes
<1>01. ASSUME NEW w \in Writers, buffers' = Append(buffers, NewBuffer(w))
       PROVE  buffers'[Len(buffers) + 1].writer = w
  BY <1>0, <1>01, AppendFacts, NewBufferType
<1>1. ASSUME NEW arr \in Nat, NEW fam,
             Made(FromConfig(Slice(config.hooks, arr), Len(buffers)), fam)
      PROVE  \E new : Appended(new)
  <2> DEFINE new == FromConfig(Slice(config.hooks, arr), Len(buffers))
  <2>1. /\ config.async \in BOOLEAN /\ config.writer \in Writers
        /\ config.hooks \in Seq(Hooks)
    BY <1>0 DEF LoggerAssumption
  <2>2. Slice(config.hooks, arr) \in [arr : Nat, len : Nat]
    BY <2>1 DEF Slice
  <2>3. /\ new \in LoggerType /\ new.writer = config.writer
        /\ new.buf = IF config.async THEN Len(buffers) + 1 ELSE 0
    BY <1>0, <2>1, <2>2 DEF FromConfig, LoggerType
  <2>4. buffers' = IF config.async THEN Append(buffers, NewBuffer(config.writer)) ELSE buffers
    BY <1>1, MadeBuffers DEF Made
  <2>5. config.async => buffers'[new.buf].writer = config.writer
    BY <1>01, <2>1, <2>3, <2>4
  <2>6. \/ buffers' = buffers /\ new.buf \in 0..Len(buffers)
        \/ \E w \in Writers : /\ buffers' = Append(buffers, NewBuffer(w))
                              /\ new.buf = Len(buffers) + 1
    BY <1>0, <2>1, <2>3, <2>4
  <2>7. /\ loggers' = Append(loggers, new) /\ rewired' = rewired
        /\ UNCHANGED <<config, default, procVars, lines, crossed, raced>>
    BY <1>1 DEF Made
  <2> HIDE DEF new
  <2>8. Appended(new)
    BY <2>3, <2>5, <2>6, <2>7 DEF Appended
  <2> QED
    BY <2>8
<1>2. ASSUME New PROVE \E new : Appended(new)
  BY <1>1, <1>2 DEF New
<1>3. ASSUME NewFromClone PROVE \E new : Appended(new)
  <2>1. Len(arrays) + 1 \in Nat
    BY <1>0
  <2> QED
    BY <1>1, <1>3, <2>1 DEF NewFromClone, ClonedHooks
<1>4. ASSUME NEW l \in DOMAIN loggers
      PROVE  /\ loggers[l] \in LoggerType /\ loggers[l].buf \in 0..Len(buffers)
             /\ l \notin rewired /\ loggers[l].buf # 0
                   => buffers[loggers[l].buf].writer = loggers[l].writer
  BY <1>0 DEF Types, LoggerTypes, WriterInv
\* A clone that keeps its buffer and, unless it counts as rewired, its writer.
<1>5. ASSUME NEW l \in DOMAIN loggers, NEW new \in LoggerType, NEW hooks,
             NEW isRewired \in BOOLEAN,
             Clone(l, new, hooks, isRewired), buffers' = buffers,
             new.buf = loggers[l].buf,
             new.buf = 0 \/ isRewired
               \/ (l \notin rewired /\ new.writer = loggers[l].writer)
      PROVE  \E n : Appended(n)
  <2>1. /\ loggers' = Append(loggers, new)
        /\ rewired' = IF isRewired THEN rewired \cup {Len(loggers) + 1} ELSE rewired
        /\ UNCHANGED <<config, default, procVars, lines, crossed, raced>>
    BY <1>5 DEF Clone, Joined
  <2>2. /\ new.buf \in 0..Len(buffers)
        /\ Len(loggers) + 1 \in rewired' \/ new.buf = 0 \/ buffers'[new.buf].writer = new.writer
    BY <1>4, <1>5, <2>1
  <2>3. Appended(new)
    BY <1>5, <2>1, <2>2 DEF Appended
  <2> QED
    BY <2>3
\* A clone with a new buffer for its writer.
<1>6. ASSUME NEW l \in DOMAIN loggers, NEW new \in LoggerType, NEW hooks,
             NEW isRewired \in BOOLEAN,
             Clone(l, new, hooks, isRewired),
             buffers' = Append(buffers, NewBuffer(new.writer)),
             new.buf = Len(buffers) + 1
      PROVE  \E n : Appended(n)
  <2>1. /\ loggers' = Append(loggers, new)
        /\ rewired' = IF isRewired THEN rewired \cup {Len(loggers) + 1} ELSE rewired
        /\ UNCHANGED <<config, default, procVars, lines, crossed, raced>>
    BY <1>6 DEF Clone, Joined
  <2>2. new.writer \in Writers
    BY DEF LoggerType
  <2>3. buffers'[new.buf].writer = new.writer
    BY <1>01, <1>6, <2>2
  <2>4. Appended(new)
    BY <1>6, <2>1, <2>2, <2>3 DEF Appended
  <2> QED
    BY <2>4
<1>7. ASSUME NEW l \in DOMAIN loggers, WithOption(l) PROVE \E new : Appended(new)
  <2> DEFINE isRewired == l \in rewired
  <2>1. Clone(l, loggers[l], asked[l], isRewired) /\ buffers' = buffers
    BY <1>7 DEF WithOption
  <2>2. isRewired \in BOOLEAN /\ (isRewired \/ l \notin rewired)
    OBVIOUS
  <2> HIDE DEF isRewired
  <2> QED
    BY <1>4, <1>5, <2>1, <2>2
<1>8. ASSUME NEW l \in DOMAIN loggers, NEW w \in Writers, WithWriter(l, w)
      PROVE  \E new : Appended(new)
  <2>1. CASE NeedsBuffer(l)
    <3> PICK lg \in LoggerType, n \in Nat : lg = loggers[l] /\ n = Len(buffers) + 1
      BY <1>0, <1>4
    <3> DEFINE new == [lg EXCEPT !.writer = w, !.buf = n]
    <3>1. new \in LoggerType /\ new.writer = w /\ new.buf = Len(buffers) + 1
      <4>1. new \in LoggerType /\ new.writer = w /\ new.buf = n
        BY DEF LoggerType
      <4> QED
        BY <4>1
    <3>2. Clone(l, new, asked[l], FALSE) /\ buffers' = Append(buffers, NewBuffer(w))
      BY <1>8, <2>1 DEF WithWriter
    <3> HIDE DEF new
    <3> QED
      BY <1>6, <3>1, <3>2
  <2>2. CASE ~NeedsBuffer(l)
    <3> DEFINE new == [loggers[l] EXCEPT !.writer = w]
               isRewired == loggers[l].buf # 0 /\ ~loggers[l].async
    <3>1. new \in LoggerType /\ new.buf = loggers[l].buf
      BY <1>4 DEF LoggerType
    <3>2. Clone(l, new, asked[l], isRewired) /\ buffers' = buffers
      BY <1>8, <2>2 DEF WithWriter
    <3>3. isRewired \in BOOLEAN /\ (new.buf = 0 \/ isRewired)
      BY <2>2, <3>1 DEF NeedsBuffer
    <3> HIDE DEF new, isRewired
    <3> QED
      BY <1>5, <3>1, <3>2, <3>3
  <2> QED
    BY <2>1, <2>2
<1>9. ASSUME NEW l \in DOMAIN loggers, NEW enabled \in BOOLEAN, WithAsync(l, enabled)
      PROVE  \E new : Appended(new)
  <2> DEFINE create == enabled /\ loggers[l].buf = 0
             isRewired == ~create /\ l \in rewired
  <2> PICK lg \in LoggerType, n \in Nat : lg = loggers[l] /\ n = Len(buffers) + 1
    BY <1>0, <1>4
  <2> PICK c \in BOOLEAN : c <=> create
    OBVIOUS
  <2> DEFINE new == [lg EXCEPT !.async = enabled, !.buf = IF c THEN n ELSE @]
  <2>1. /\ new \in LoggerType /\ new.writer = loggers[l].writer
        /\ new.buf = IF c THEN Len(buffers) + 1 ELSE loggers[l].buf
    <3>1. /\ new \in LoggerType /\ new.writer = lg.writer
          /\ new.buf = IF c THEN n ELSE lg.buf
      <4> HIDE DEF create
      <4> QED
        BY DEF LoggerType
    <3> QED
      BY <3>1
  <2>2. /\ Clone(l, new, asked[l], isRewired)
        /\ buffers' = IF c THEN Append(buffers, NewBuffer(loggers[l].writer)) ELSE buffers
    BY <1>9 DEF WithAsync
  <2>3. isRewired \in BOOLEAN /\ (c \/ isRewired \/ l \notin rewired)
    OBVIOUS
  <2> HIDE DEF new, isRewired
  <2>4. CASE c
    BY <1>6, <2>1, <2>2, <2>3, <2>4
  <2>5. CASE ~c
    BY <1>4, <1>5, <2>1, <2>2, <2>3, <2>5
  <2> QED
    BY <2>4, <2>5
<1>10. ASSUME NEW l \in DOMAIN loggers, NEW h \in Hooks, WithHook(l, h)
       PROVE  \E new : Appended(new)
  <2> DEFINE arr == IF Room(loggers[l].hooks) > 0 THEN loggers[l].hooks.arr ELSE Len(arrays) + 1
             new == [loggers[l] EXCEPT !.hooks = [arr |-> arr,
                                                  len |-> loggers[l].hooks.len + 1]]
             isRewired == l \in rewired
  <2>1. arr \in Nat
    <3>1. loggers[l].hooks.arr \in Nat
      BY <1>4 DEF LoggerType
    <3> QED
      BY <1>0, <3>1
  <2>2. /\ new \in LoggerType /\ new.writer = loggers[l].writer
        /\ new.buf = loggers[l].buf
    <3> HIDE DEF arr
    <3> QED
      BY <1>4, <2>1, HookSlices DEF LoggerType
  <2>3. Clone(l, new, Append(asked[l], h), isRewired) /\ buffers' = buffers
    BY <1>10 DEF WithHook
  <2>4. isRewired \in BOOLEAN /\ (isRewired \/ l \notin rewired)
    OBVIOUS
  <2> HIDE DEF new, isRewired
  <2> QED
    BY <1>5, <2>2, <2>3, <2>4
<1> QED
  BY <1>2, <1>3, <1>7, <1>8, <1>9, <1>10

--------------------------------------------------------------------------------
(* Actions that change a logger, or the goroutines in SetAsync.             *)

\* Facts about replacing an element.
LEMMA ReplaceFacts ==
    ASSUME NEW S, NEW s \in Seq(S), NEW i \in DOMAIN s, NEW e \in S
    PROVE  /\ [s EXCEPT ![i] = e] \in Seq(S)
           /\ Len([s EXCEPT ![i] = e]) = Len(s)
           /\ DOMAIN [s EXCEPT ![i] = e] = DOMAIN s
           /\ [s EXCEPT ![i] = e][i] = e
           /\ \A j \in DOMAIN s : j # i => [s EXCEPT ![i] = e][j] = s[j]
OBVIOUS

\* What these actions have in common: a logger is replaced by one that has this
\* buffer, and the buffer is for its writer, or it counts as rewired; and whoever makes
\* a buffer for it while its writer changes counts as crossed.
Replaced(l, new) ==
    /\ l \in DOMAIN loggers /\ new \in LoggerType
    /\ loggers' = [loggers EXCEPT ![l] = new]
    /\ \/ l \in rewired' \/ new.buf = 0
       \/ buffers[new.buf].writer = new.writer
    /\ rewired \subseteq rewired' \cup {l} /\ rewired' \subseteq rewired \cup {l}
    /\ new.buf \in 0..Len(buffers)
    /\ UNCHANGED <<config, default, buffers, on, cur, fatal, lines>>
    /\ \A p \in Procs : (Calling(p) <=> Calling(p)') /\ (Storing(p)' => Storing(p))
    /\ \A p \in Procs : Storing(p)' /\ p \notin crossed'
          => p \notin crossed /\ (on[p] # l \/ new.writer = loggers[l].writer)

ReplacedFacts(l, new) ==
    /\ loggers' \in Seq(LoggerType) /\ Len(loggers') = Len(loggers)
    /\ DOMAIN loggers' = DOMAIN loggers
    /\ loggers'[l] = new
    /\ \A m \in DOMAIN loggers : m # l => loggers'[m] = loggers[m]

\* What such a step does to each logger.
LEMMA ReplacedEffect ==
    ASSUME Types, NEW l, NEW new, Replaced(l, new)
    PROVE  ReplacedFacts(l, new)
<1>1. /\ loggers \in Seq(LoggerType) /\ l \in DOMAIN loggers
      /\ new \in LoggerType
      /\ loggers' = [loggers EXCEPT ![l] = new]
  BY DEF Types, LoggerTypes, Replaced
<1>2. /\ loggers' \in Seq(LoggerType) /\ Len(loggers') = Len(loggers)
      /\ DOMAIN loggers' = DOMAIN loggers
      /\ loggers'[l] = new
      /\ \A m \in DOMAIN loggers : m # l => loggers'[m] = loggers[m]
  BY <1>1, ReplaceFacts
<1> QED
  BY <1>2 DEF ReplacedFacts

\* It keeps the types ...
LEMMA ReplacedTypes ==
    ASSUME Types, NEW l, NEW new, Replaced(l, new),
           pc' \in [Procs -> {"idle", "check", "create", "store", "async", "exit", "closing"}],
           raced' \in BOOLEAN, crossed' \subseteq Procs
    PROVE  Types'
<1>1. ReplacedFacts(l, new)
  BY ReplacedEffect
<1> USE <1>1 DEF ReplacedFacts
<1>2. LoggerTypes'
  <2>1. /\ default' \in DOMAIN loggers' /\ rewired' \subseteq DOMAIN loggers'
        /\ config' \in Configs /\ loggers' \in Seq(LoggerType)
    BY DEF Types, LoggerTypes, Replaced
  <2>2. \A m \in DOMAIN loggers' : loggers'[m].buf \in 0..Len(buffers')
    BY DEF Types, LoggerTypes, Replaced
  <2> QED
    BY <2>1, <2>2 DEF LoggerTypes
<1>3. LineTypes'
  BY DEF Types, LineTypes, Replaced
<1>4. ProcTypes'
  BY DEF Types, ProcTypes, Replaced
<1> QED
  BY <1>2, <1>3, <1>4 DEF Types

\* ... and the writers that buffers are for.
LEMMA ReplacedWriters ==
    ASSUME Types, WriterInv, NEW l, NEW new, Replaced(l, new)
    PROVE  WriterInv'
<1>0. ReplacedFacts(l, new)
  BY ReplacedEffect
<1> USE <1>0 DEF ReplacedFacts
<1>1. ASSUME NEW m \in DOMAIN loggers', m \notin rewired', loggers'[m].buf # 0
      PROVE  buffers'[loggers'[m].buf].writer = loggers'[m].writer
  <2>1. CASE m # l
    <3>1. loggers'[m] = loggers[m] /\ m \notin rewired
      BY <1>1, <2>1 DEF Replaced
    <3>2. buffers[loggers[m].buf].writer = loggers[m].writer
      BY <1>1, <2>1, <3>1 DEF WriterInv
    <3> QED
      BY <3>1, <3>2 DEF Replaced
  <2>2. CASE m = l
    BY <1>1, <2>2 DEF Replaced
  <2> QED
    BY <2>1, <2>2
<1>2. \A b \in DOMAIN buffers' : \A k \in DOMAIN buffers'[b].pending :
          /\ lines'[buffers'[b].pending[k]].want \in {None, buffers'[b].writer}
          /\ lines'[buffers'[b].pending[k]].at # "called"
  BY DEF WriterInv, Replaced
<1>3. ASSUME NEW p \in Procs, Storing(p)', p \notin crossed'
      PROVE  buffers'[cur'[p]].writer = loggers'[on'[p]].writer
  <2>1. /\ Storing(p) /\ p \notin crossed
        /\ on[p] # l \/ new.writer = loggers[l].writer
    BY <1>3 DEF Replaced
  <2>2. on[p] \in DOMAIN loggers /\ buffers[cur[p]].writer = loggers[on[p]].writer
    BY <2>1 DEF WriterInv, Types, ProcTypes
  <2>3. loggers'[on[p]].writer = loggers[on[p]].writer
    BY <2>1, <2>2
  <2> QED
    BY <2>2, <2>3 DEF Replaced
<1>4. /\ \A p \in Procs : Calling(p)' => lines'[cur'[p]].at = "called"
      /\ \A p, q \in Procs : Calling(p)' /\ Calling(q)' /\ p # q => cur'[p] # cur'[q]
      /\ OwnWriter'
  BY DEF WriterInv, OwnWriter, Replaced
<1> QED
  BY <1>1, <1>2, <1>3, <1>4 DEF WriterInv

\* The actions: another default logger, which counts as a meeting with SetAsync ...
LEMMA SetDefaultLoggerStep ==
    ASSUME Types, WriterInv, OwnerInv, NEW l \in DOMAIN loggers, SetDefaultLogger(l)
    PROVE  Types' /\ WriterInv' /\ OwnerInv'
<1> USE DEF SetDefaultLogger, loggerVars, procVars, endVars
<1>1. Types'
  <2>1. LoggerTypes'
    BY DEF Types, LoggerTypes
  <2>2. LineTypes'
    BY DEF Types, LineTypes
  <2>3. ProcTypes'
    BY DEF Types, ProcTypes, Calling, Storing
  <2> QED
    BY <2>1, <2>2, <2>3 DEF Types
<1>2. WriterInv'
  BY DEF WriterInv, Calling, Storing, OwnWriter
<1>3. OwnerInv'
  <2> SUFFICES ASSUME ~raced' PROVE OwnerInv'
    BY DEF OwnerInv
  <2>1. ~raced /\ \A p \in Procs : ~Setting(p)
    OBVIOUS
  <2>2. \A p \in Procs : ~Setting(p)' /\ ~Storing(p) /\ ~Storing(p)' /\ pc'[p] = pc[p]
    BY <2>1 DEF Setting, Storing
  <2>3. \A b \in DOMAIN buffers : \E m \in DOMAIN loggers : loggers[m].buf = b
    BY <2>1, <2>2 DEF OwnerInv, Owned
  <2> QED
    BY <2>1, <2>2, <2>3 DEF OwnerInv, Owned, Setting
<1> QED
  BY <1>1, <1>2, <1>3

\* ... SetWriter, under a buffer that keeps its writer ...
LEMMA SetWriterStep ==
    ASSUME Types, WriterInv, OwnerInv, NEW w \in Writers, SetWriter(w)
    PROVE  Types' /\ WriterInv' /\ OwnerInv'
<1> PICK lg \in LoggerType : lg = loggers[default]
  BY DEF Types, LoggerTypes
<1> DEFINE new == [lg EXCEPT !.writer = w]
<1>1. /\ new \in LoggerType /\ new.buf = lg.buf
  BY DEF LoggerType
<1>2. loggers' = [loggers EXCEPT ![default] = new]
  BY DEF SetWriter
<1> HIDE DEF new
<1>3. /\ UNCHANGED <<config, default, buffers, pc, on, cur, fatal, lines, raced>>
      /\ crossed' = crossed \cup {p \in Procs : pc[p] = "store" /\ on[p] = default}
  BY DEF SetWriter, procVars
<1>4. Replaced(default, new)
  <2>1. default \in rewired' \/ new.buf = 0
    BY <1>1 DEF SetWriter
  <2>2. /\ rewired \subseteq rewired' \cup {default}
        /\ rewired' \subseteq rewired \cup {default}
    BY DEF SetWriter
  <2>3. default \in DOMAIN loggers /\ new.buf \in 0..Len(buffers)
    BY <1>1 DEF Types, LoggerTypes
  <2>4. \A p \in Procs : (Calling(p) <=> Calling(p)') /\ (Storing(p)' => Storing(p))
    BY <1>3 DEF Calling, Storing
  <2>5. \A p \in Procs : Storing(p)' /\ p \notin crossed' => p \notin crossed /\ on[p] # default
    BY <1>3, <2>4 DEF Storing
  <2> QED
    BY <1>1, <1>2, <1>3, <2>1, <2>2, <2>3, <2>4, <2>5 DEF Replaced
<1>5. ReplacedFacts(default, new)
  BY <1>4, ReplacedEffect
<1>6. Types'
  <2>1. crossed' \subseteq Procs /\ raced' \in BOOLEAN
    BY <1>3 DEF Types, ProcTypes
  <2>2. pc' \in [Procs -> {"idle", "check", "create", "store", "async", "exit", "closing"}]
    BY <1>3 DEF Types, ProcTypes
  <2> QED
    BY <1>4, <2>1, <2>2, ReplacedTypes
<1>7. OwnerInv'
  <2>1. SetAsyncKept
    BY <1>3 DEF SetAsyncKept, Setting, Storing
  <2>2. \A l \in DOMAIN loggers : loggers'[l].buf = loggers[l].buf
    BY <1>1, <1>5 DEF ReplacedFacts
  <2>3. DOMAIN loggers' = DOMAIN loggers
    BY <1>5 DEF ReplacedFacts
  <2> QED
    BY <1>3, <2>1, <2>2, <2>3, KeptOwners
<1> QED
  BY <1>4, <1>6, <1>7, ReplacedWriters

\* ... SetAsync, which is in it from here on ...
LEMMA SetAsyncStep ==
    ASSUME Types, WriterInv, OwnerInv, NEW p \in Procs, NEW enabled \in BOOLEAN,
           SetAsync(p, enabled)
    PROVE  Types' /\ WriterInv' /\ OwnerInv'
<1> PICK lg \in LoggerType : lg = loggers[default]
  BY DEF Types, LoggerTypes
<1> DEFINE new == [lg EXCEPT !.async = enabled]
<1>1. /\ new \in LoggerType /\ new.buf = lg.buf /\ new.writer = lg.writer
  BY DEF LoggerType
<1>2. loggers' = [loggers EXCEPT ![default] = new]
  BY DEF SetAsync
<1> HIDE DEF new
<1>3. /\ UNCHANGED <<config, default, rewired, buffers, on, cur, fatal, lines, crossed>>
      /\ pc[p] = "idle" /\ pc' = [pc EXCEPT ![p] = IF enabled THEN "check" ELSE "idle"]
      /\ pc \in [Procs -> {"idle", "check", "create", "store", "async", "exit", "closing"}]
  BY DEF SetAsync, Go, Types, ProcTypes
<1>4. /\ pc' \in [Procs -> {"idle", "check", "create", "store", "async", "exit", "closing"}]
      /\ \A q \in Procs : q # p => pc'[q] = pc[q]
      /\ pc'[p] = IF enabled THEN "check" ELSE "idle"
  BY <1>3
<1>5. \A q \in Procs : (Calling(q) <=> Calling(q)') /\ (Storing(q)' <=> Storing(q))
  BY <1>3, <1>4 DEF Calling, Storing
<1>6. Replaced(default, new)
  <2>1. default \in rewired' \/ new.buf = 0 \/ buffers[new.buf].writer = new.writer
    <3>1. \/ default \in rewired \/ loggers[default].buf = 0
          \/ buffers[loggers[default].buf].writer = loggers[default].writer
      BY DEF WriterInv, Types, LoggerTypes
    <3> QED
      BY <1>1, <1>3, <3>1
  <2>2. default \in DOMAIN loggers /\ new.buf \in 0..Len(buffers)
    BY <1>1 DEF Types, LoggerTypes
  <2> QED
    BY <1>1, <1>2, <1>3, <1>5, <2>1, <2>2 DEF Replaced
<1>7. ReplacedFacts(default, new)
  BY <1>6, ReplacedEffect
<1>8. raced' = (raced \/ (enabled /\ \E q \in Procs : Setting(q)))
  BY DEF SetAsync
<1>9. Types'
  <2>1. raced' \in BOOLEAN /\ crossed' \subseteq Procs
    BY <1>3, <1>8 DEF Types, ProcTypes
  <2> QED
    BY <1>4, <1>6, <2>1, ReplacedTypes
<1>10. OwnerInv'
  <2>1. ASSUME ~raced' PROVE ~raced /\ (enabled => \A q \in Procs : ~Setting(q))
    BY <1>8, <2>1
  <2>2. \A l \in DOMAIN loggers : loggers'[l].buf = loggers[l].buf
    BY <1>1, <1>7 DEF ReplacedFacts
  <2>3. DOMAIN loggers' = DOMAIN loggers /\ default \in DOMAIN loggers
    BY <1>7 DEF ReplacedFacts, Types, LoggerTypes
  <2>4. \A q \in Procs : pc'[q] \in {"create", "store"} => pc[q] \in {"create", "store"}
    BY <1>4
  <2>5. \A q \in Procs : Setting(q)' => Setting(q) \/ (q = p /\ enabled)
    BY <1>4 DEF Setting
  <2>6. ASSUME NEW b, Owned(b) PROVE Owned(b)'
    BY <1>3, <1>5, <2>2, <2>3, <2>6 DEF Owned
  <2> QED
    BY <1>3, <1>5, <2>1, <2>2, <2>3, <2>4, <2>5, <2>6 DEF OwnerInv
<1> QED
  BY <1>6, <1>9, <1>10, ReplacedWriters

\* ... and sees a buffer or none ...
LEMMA SetAsyncCheckStep ==
    ASSUME Types, WriterInv, OwnerInv, NEW p \in Procs, SetAsyncCheck(p)
    PROVE  Types' /\ WriterInv' /\ OwnerInv'
<1>1. /\ UNCHANGED <<config, loggers, default, rewired, buffers, on, cur, fatal, lines,
                     crossed, raced>>
      /\ pc[p] = "check"
      /\ pc' = [pc EXCEPT ![p] = IF LacksBuffer(default) THEN "create" ELSE "idle"]
      /\ pc \in [Procs -> {"idle", "check", "create", "store", "async", "exit", "closing"}]
  BY DEF SetAsyncCheck, Go, loggerVars, Types, ProcTypes
<1>2. /\ pc' \in [Procs -> {"idle", "check", "create", "store", "async", "exit", "closing"}]
      /\ \A q \in Procs : q # p => pc'[q] = pc[q]
      /\ pc'[p] = IF LacksBuffer(default) THEN "create" ELSE "idle"
  BY <1>1
<1>3. \A q \in Procs : /\ (Calling(q)' <=> Calling(q)) /\ (Setting(q)' => Setting(q))
                       /\ Storing(q)' <=> Storing(q)
  BY <1>1, <1>2 DEF Calling, Setting, Storing
<1>4. Types'
  <2>1. LoggerTypes'
    BY <1>1 DEF Types, LoggerTypes
  <2>2. LineTypes'
    BY <1>1 DEF Types, LineTypes
  <2>3. ProcTypes'
    BY <1>1, <1>2, <1>3 DEF Types, ProcTypes
  <2> QED
    BY <2>1, <2>2, <2>3 DEF Types
<1>5. WriterInv'
  BY <1>1, <1>3 DEF WriterInv, OwnWriter
<1>6. OwnerInv'
  <2>1. ASSUME NEW b, Owned(b) PROVE Owned(b)'
    BY <1>1, <1>3, <2>1 DEF Owned
  <2>2. \A q \in Procs : pc'[q] \in {"create", "store"}
            => pc[q] \in {"create", "store"} \/ loggers[default].buf = 0
    BY <1>2 DEF LacksBuffer
  <2> QED
    BY <1>1, <1>3, <2>1, <2>2 DEF OwnerInv
<1> QED
  BY <1>4, <1>5, <1>6

\* ... and makes one, which is for the writer of now ...
LEMMA SetAsyncCreateStep ==
    ASSUME Types, WriterInv, OwnerInv, NEW p \in Procs, SetAsyncCreate(p)
    PROVE  Types' /\ WriterInv' /\ OwnerInv'
<1> PICK lg \in LoggerType, n \in Nat : lg = loggers[default] /\ n = Len(buffers) + 1
  BY DEF Types, LoggerTypes, LineTypes
<1>1. /\ UNCHANGED <<config, loggers, default, rewired, fatal, lines, crossed, raced>>
      /\ pc[p] = "create" /\ pc' = [pc EXCEPT ![p] = "store"]
      /\ on' = [on EXCEPT ![p] = default] /\ cur' = [cur EXCEPT ![p] = n]
      /\ pc \in [Procs -> {"idle", "check", "create", "store", "async", "exit", "closing"}]
      /\ on \in [Procs -> Nat] /\ cur \in [Procs -> Nat]
      /\ default \in DOMAIN loggers /\ default \in Nat
  BY DEF SetAsyncCreate, Go, loggerVars, Types, ProcTypes, LoggerTypes
<1>2. /\ pc' \in [Procs -> {"idle", "check", "create", "store", "async", "exit", "closing"}]
      /\ on' \in [Procs -> Nat] /\ cur' \in [Procs -> Nat]
      /\ \A q \in Procs : q # p => pc'[q] = pc[q] /\ on'[q] = on[q] /\ cur'[q] = cur[q]
      /\ pc'[p] = "store" /\ on'[p] = default /\ cur'[p] = n
  BY <1>1
<1>3. /\ buffers' \in Seq(BufferType) /\ Len(buffers') = n
      /\ DOMAIN buffers' = DOMAIN buffers \cup {n} /\ n \notin DOMAIN buffers
      /\ \A b \in DOMAIN buffers : buffers'[b] = buffers[b]
      /\ buffers'[n].writer = lg.writer
      /\ DOMAIN buffers'[n].pending = {}
      /\ DOMAIN buffers = 1..Len(buffers) /\ Len(buffers) \in Nat
  <2>1. buffers' = Append(buffers, NewBuffer(lg.writer)) /\ buffers \in Seq(BufferType)
    BY DEF SetAsyncCreate, Types, LineTypes
  <2>2. lg.writer \in Writers
    BY DEF LoggerType
  <2>3. /\ NewBuffer(lg.writer) \in BufferType
        /\ NewBuffer(lg.writer).writer = lg.writer
        /\ NewBuffer(lg.writer).pending = <<>>
    BY <2>2, NewBufferType
  <2> QED
    BY <2>1, <2>3, AppendFacts
<1>4. \A q \in Procs : /\ Calling(q)' => q # p /\ Calling(q)
                       /\ Storing(q)' => q = p \/ Storing(q)
                       /\ Storing(q) => q # p /\ Storing(q)'
                       /\ Setting(q)' <=> Setting(q)
  BY <1>1, <1>2 DEF Calling, Storing, Setting
<1>5. Types'
  <2>1. LoggerTypes'
    BY <1>1, <1>3 DEF Types, LoggerTypes
  <2>2. LineTypes'
    BY <1>1, <1>3 DEF Types, LineTypes
  <2>3. ASSUME NEW q \in Procs
        PROVE  /\ Calling(q)' => on'[q] \in DOMAIN loggers' /\ cur'[q] \in DOMAIN lines'
               /\ Storing(q)' => on'[q] \in DOMAIN loggers' /\ cur'[q] \in DOMAIN buffers'
    <3>1. CASE q = p
      BY <1>1, <1>2, <1>3, <1>4, <3>1
    <3>2. CASE q # p
      BY <1>1, <1>2, <1>3, <1>4, <3>2 DEF Types, ProcTypes
    <3> QED
      BY <3>1, <3>2
  <2>4. ProcTypes'
    BY <1>1, <1>2, <2>3 DEF Types, ProcTypes
  <2> QED
    BY <2>1, <2>2, <2>4 DEF Types
<1>6. WriterInv'
  <2>1. ASSUME NEW l \in DOMAIN loggers', l \notin rewired', loggers'[l].buf # 0
        PROVE  buffers'[loggers'[l].buf].writer = loggers'[l].writer
    <3>1. loggers[l].buf \in DOMAIN buffers
      BY <1>1, <1>3, <2>1 DEF Types, LoggerTypes
    <3>2. buffers[loggers[l].buf].writer = loggers[l].writer
      BY <1>1, <2>1 DEF WriterInv
    <3> QED
      BY <1>1, <1>3, <3>1, <3>2
  <2>2. \A b \in DOMAIN buffers' : \A k \in DOMAIN buffers'[b].pending :
            /\ lines'[buffers'[b].pending[k]].want \in {None, buffers'[b].writer}
            /\ lines'[buffers'[b].pending[k]].at # "called"
    BY <1>1, <1>3 DEF WriterInv
  <2>3. /\ \A q \in Procs : Calling(q)' => lines'[cur'[q]].at = "called"
        /\ \A q, r \in Procs : Calling(q)' /\ Calling(r)' /\ q # r => cur'[q] # cur'[r]
        /\ OwnWriter'
    BY <1>1, <1>2, <1>4 DEF WriterInv, OwnWriter
  <2>4. ASSUME NEW q \in Procs, Storing(q)', q \notin crossed'
        PROVE  buffers'[cur'[q]].writer = loggers'[on'[q]].writer
    <3>1. CASE q = p
      BY <1>1, <1>2, <1>3, <3>1
    <3>2. CASE q # p
      <4>1. Storing(q) /\ cur[q] \in DOMAIN buffers
        BY <1>4, <2>4, <3>2 DEF Types, ProcTypes
      <4>2. buffers[cur[q]].writer = loggers[on[q]].writer
        BY <1>1, <2>4, <4>1 DEF WriterInv
      <4> QED
        BY <1>1, <1>2, <1>3, <3>2, <4>1, <4>2
    <3> QED
      BY <3>1, <3>2
  <2> QED
    BY <2>1, <2>2, <2>3, <2>4 DEF WriterInv
<1>7. OwnerInv'
  <2> SUFFICES ASSUME ~raced PROVE OwnerInv'
    BY <1>1 DEF OwnerInv
  <2>1. /\ loggers[default].buf = 0
        /\ \A q \in Procs : Setting(q) => q = p
        /\ \A b \in DOMAIN buffers : Owned(b)
    BY <1>1 DEF OwnerInv, Setting
  <2>2. ASSUME NEW b \in DOMAIN buffers' PROVE Owned(b)'
    <3>1. CASE b = n
      BY <1>2, <3>1 DEF Owned, Storing
    <3>2. CASE b \in DOMAIN buffers
      <4>1. Owned(b)
        BY <2>1, <3>2
      <4> QED
        BY <1>1, <1>2, <1>4, <4>1 DEF Owned
    <3> QED
      BY <1>3, <3>1, <3>2
  <2>3. \A q \in Procs : Storing(q)' => q = p
    BY <1>4, <2>1 DEF Storing, Setting
  <2> QED
    BY <1>1, <1>2, <1>4, <2>1, <2>2, <2>3 DEF OwnerInv
<1> QED
  BY <1>5, <1>6, <1>7

\* ... and gives it to the default logger, or the one of before.
LEMMA SetAsyncStoreStep ==
    ASSUME Types, WriterInv, OwnerInv, NEW p \in Procs, SetAsyncStore(p)
    PROVE  /\ Types' /\ WriterInv' /\ OwnerInv'
           /\ \E l, new : /\ l \in DOMAIN loggers /\ new \in LoggerType
                          /\ new.hooks = loggers[l].hooks
                          /\ loggers' = [loggers EXCEPT ![l] = new]
<1>1. /\ UNCHANGED <<config, default, buffers, on, cur, fatal, lines, raced>>
      /\ crossed' = crossed \ {p}
      /\ pc[p] = "store" /\ pc' = [pc EXCEPT ![p] = "idle"]
      /\ pc \in [Procs -> {"idle", "check", "create", "store", "async", "exit", "closing"}]
  BY DEF SetAsyncStore, Go, procVars, Types, ProcTypes
<1>2. /\ pc' \in [Procs -> {"idle", "check", "create", "store", "async", "exit", "closing"}]
      /\ \A q \in Procs : q # p => pc'[q] = pc[q]
      /\ pc'[p] = "idle"
  BY <1>1
<1>3. /\ on[p] \in DOMAIN loggers /\ default \in DOMAIN loggers /\ cur[p] \in DOMAIN buffers
      /\ DOMAIN buffers = 1..Len(buffers) /\ Len(buffers) \in Nat
  BY <1>1 DEF Types, ProcTypes, LoggerTypes, LineTypes, Storing
<1>4. PICK l \in {on[p], default} :
         /\ loggers' = [loggers EXCEPT ![l].buf = cur[p]]
         /\ rewired' = IF p \in crossed \/ l # on[p] THEN rewired \cup {l} ELSE rewired \ {l}
  BY DEF SetAsyncStore
<1>5. PICK lg \in LoggerType, n \in Nat : lg = loggers[l] /\ n = cur[p]
  BY <1>3 DEF Types, LoggerTypes
<1> DEFINE new == [lg EXCEPT !.buf = n]
<1>6. /\ new \in LoggerType /\ new.buf = n /\ new.writer = lg.writer
      /\ new.hooks = lg.hooks
  BY DEF LoggerType
<1>7. loggers' = [loggers EXCEPT ![l] = new]
  BY <1>4, <1>5
<1> HIDE DEF new
<1>8. \A q \in Procs : /\ (Calling(q)' <=> Calling(q))
                       /\ (Storing(q)' <=> q # p /\ Storing(q))
                       /\ (Setting(q)' <=> q # p /\ Setting(q))
  BY <1>1, <1>2 DEF Calling, Storing, Setting
<1>9. Replaced(l, new)
  <2>1. l \in rewired' \/ new.buf = 0 \/ buffers[new.buf].writer = new.writer
    <3>1. CASE p \notin crossed /\ l = on[p]
      BY <1>1, <1>5, <1>6, <3>1 DEF WriterInv, Storing
    <3> QED
      BY <1>4, <3>1
  <2>2. /\ rewired \subseteq rewired' \cup {l}
        /\ rewired' \subseteq rewired \cup {l}
    BY <1>4
  <2>3. l \in DOMAIN loggers /\ new.buf \in 0..Len(buffers)
    BY <1>3, <1>4, <1>5, <1>6
  <2>4. \A q \in Procs : Storing(q)' /\ q \notin crossed' => q \notin crossed
    BY <1>1, <1>8
  <2> QED
    BY <1>1, <1>5, <1>6, <1>7, <1>8, <2>1, <2>2, <2>3, <2>4 DEF Replaced
<1>10. ReplacedFacts(l, new)
  BY <1>9, ReplacedEffect
<1>11. Types'
  <2>1. raced' \in BOOLEAN /\ crossed' \subseteq Procs
    BY <1>1 DEF Types, ProcTypes
  <2> QED
    BY <1>2, <1>9, <2>1, ReplacedTypes
<1>12. OwnerInv'
  <2> SUFFICES ASSUME ~raced PROVE OwnerInv'
    BY <1>1 DEF OwnerInv
  <2>1. /\ loggers[default].buf = 0 /\ l = default
        /\ \A q \in Procs : Setting(q) => q = p
        /\ \A b \in DOMAIN buffers : Owned(b)
    BY <1>1, <1>4 DEF OwnerInv, Setting, Storing
  <2>2. \A q \in Procs : ~Setting(q)' /\ ~Storing(q)'
    BY <1>8, <2>1 DEF Setting, Storing
  <2>3. ASSUME NEW b \in DOMAIN buffers' PROVE Owned(b)'
    <3>1. b \in DOMAIN buffers /\ Owned(b) /\ b # 0
      BY <1>1, <1>3, <2>1
    <3>2. CASE b = n
      BY <1>3, <1>6, <1>10, <2>1, <3>2 DEF Owned, ReplacedFacts
    <3>3. CASE b # n
      <4>1. ~\E q \in Procs : Storing(q) /\ cur[q] = b
        BY <1>5, <2>1, <3>3 DEF Setting, Storing
      <4>2. PICK m \in DOMAIN loggers : loggers[m].buf = b
        BY <3>1, <4>1 DEF Owned
      <4>3. m # l
        BY <2>1, <3>1, <4>2
      <4> QED
        BY <1>10, <4>2, <4>3 DEF Owned, ReplacedFacts
    <3> QED
      BY <3>2, <3>3
  <2>4. \A q \in Procs : pc'[q] \notin {"create", "store"}
    BY <2>2 DEF Setting
  <2> QED
    BY <1>1, <2>2, <2>3, <2>4 DEF OwnerInv
<1>13. l \in DOMAIN loggers
  BY <1>3, <1>4
<1> QED
  BY <1>5, <1>6, <1>7, <1>9, <1>11, <1>12, <1>13, ReplacedWriters

--------------------------------------------------------------------------------
(* Calls that log.                                                          *)

\* A call takes a number of its own; it hands its line over at once, or has to.
LEMMA LogStep ==
    ASSUME Types, WriterInv, OwnerInv,
           NEW p \in Procs, NEW l \in DOMAIN loggers, NEW f \in BOOLEAN, Log(p, l, f)
    PROVE  Types' /\ WriterInv' /\ OwnerInv'
<1> DEFINE n == Len(lines) + 1
           label == IF loggers[l].async THEN "async" ELSE Returned(f)
           line == IF loggers[l].async
                   THEN [want |-> None, at |-> "called", by |-> None]
                   ELSE WrittenBy(loggers[l].writer, loggers[l].writer)
<1>1. /\ UNCHANGED <<config, loggers, default, rewired, buffers, crossed, raced>>
      /\ pc[p] = "idle" /\ pc' = [pc EXCEPT ![p] = label]
      /\ lines' = Append(lines, line)
  BY DEF Log, Go, loggerVars
<1>11. IF label = "async"
       THEN /\ on' = [on EXCEPT ![p] = l] /\ cur' = [cur EXCEPT ![p] = n]
            /\ fatal' = [fatal EXCEPT ![p] = f]
       ELSE UNCHANGED <<on, cur, fatal>>
  BY DEF Log, Returned
<1>2. /\ label \in {"async", "exit", "idle"} /\ (label = "async" => line.at = "called")
      /\ line \in LineType /\ (line.at = "written" => line.want \in {None, line.by})
      /\ line.at = "called" <=> label = "async"
  <2>1. loggers[l].writer \in Writers
    <3>1. loggers[l] \in LoggerType
      BY DEF Types, LoggerTypes
    <3> QED
      BY <3>1 DEF LoggerType
  <2> QED
    BY <2>1 DEF Returned, WrittenBy, LineType
<1> HIDE DEF label, line
<1>3. /\ lines \in Seq(LineType) /\ Len(lines) \in Nat /\ n \in Nat /\ n \notin DOMAIN lines
      /\ lines' \in Seq(LineType) /\ DOMAIN lines' = DOMAIN lines \cup {n}
      /\ \A i \in DOMAIN lines : lines'[i] = lines[i]
      /\ lines'[n] = line
  <2>1. lines \in Seq(LineType)
    BY DEF Types, LineTypes
  <2> QED
    BY <1>1, <1>2, <2>1, AppendFacts
<1> HIDE DEF n
<1>4. /\ pc' \in [Procs -> {"idle", "check", "create", "store", "async", "exit", "closing"}]
      /\ on' \in [Procs -> Nat] /\ cur' \in [Procs -> Nat] /\ fatal' \in [Procs -> BOOLEAN]
      /\ pc'[p] = label /\ (label = "async" => on'[p] = l /\ cur'[p] = n)
      /\ \A q \in Procs : q # p => /\ pc'[q] = pc[q] /\ on'[q] = on[q]
                                   /\ cur'[q] = cur[q]
  <2>1. /\ pc \in [Procs -> {"idle", "check", "create", "store", "async", "exit", "closing"}]
        /\ on \in [Procs -> Nat] /\ cur \in [Procs -> Nat] /\ fatal \in [Procs -> BOOLEAN]
        /\ l \in Nat
    BY DEF Types, ProcTypes, LoggerTypes
  <2> QED
    BY <1>1, <1>2, <1>3, <1>11, <2>1
<1>5. ASSUME NEW q \in Procs, Calling(q)'
      PROVE  \/ q = p /\ on'[q] = l /\ cur'[q] = n /\ line.at = "called"
             \/ q # p /\ Calling(q) /\ on'[q] = on[q] /\ cur'[q] = cur[q]
  BY <1>2, <1>4, <1>5 DEF Calling
<1>6. \A q \in Procs : Calling(q) => on[q] \in DOMAIN loggers /\ cur[q] \in DOMAIN lines
  BY DEF Types, ProcTypes
<1>61. SetAsyncKept
  BY <1>1, <1>2, <1>4 DEF SetAsyncKept, Setting, Storing
<1>7. Types'
  <2>1. LoggerTypes'
    BY <1>1 DEF Types, LoggerTypes
  <2>2. LineTypes'
    BY <1>1, <1>3 DEF Types, LineTypes
  <2>3. ProcTypes'
    BY <1>1, <1>3, <1>4, <1>5, <1>6, <1>61 DEF Types, ProcTypes, SetAsyncKept
  <2> QED
    BY <2>1, <2>2, <2>3 DEF Types
<1>8. WriterInv'
  <2>1. \A k \in DOMAIN loggers' : k \notin rewired' /\ loggers'[k].buf # 0
            => buffers'[loggers'[k].buf].writer = loggers'[k].writer
    BY <1>1 DEF WriterInv
  <2>2. \A b \in DOMAIN buffers' : \A k \in DOMAIN buffers'[b].pending :
          /\ lines'[buffers'[b].pending[k]].want \in {None, buffers'[b].writer}
          /\ lines'[buffers'[b].pending[k]].at # "called"
    BY <1>1, <1>3 DEF WriterInv, Types, LineTypes
  <2>3. \A q \in Procs : Calling(q)' => lines'[cur'[q]].at = "called"
    BY <1>3, <1>5, <1>6 DEF WriterInv
  <2>4. \A q, r \in Procs : Calling(q)' /\ Calling(r)' /\ q # r => cur'[q] # cur'[r]
    BY <1>3, <1>5, <1>6 DEF WriterInv
  <2>5. OwnWriter'
    BY <1>2, <1>3 DEF WriterInv, OwnWriter
  <2>6. \A q \in Procs : Storing(q)' /\ q \notin crossed'
            => buffers'[cur'[q]].writer = loggers'[on'[q]].writer
    BY <1>1, <1>61 DEF WriterInv, SetAsyncKept
  <2> QED
    BY <2>1, <2>2, <2>3, <2>4, <2>5, <2>6 DEF WriterInv
<1>9. OwnerInv'
  BY <1>1, <1>61, KeptOwners
<1> QED
  BY <1>7, <1>8, <1>9

\* Where a line may be that a buffer was given.
Places == {"dropped", "late", "buffered", "passed"}

LEMMA AcceptedPlaces ==
    ASSUME NEW b
    PROVE  Accepted(b) \subseteq Places
BY DEF Accepted, Places

\* The goroutine's line after writeAsync, and what else is left alone.
LEMMA WriteAsyncLines ==
    ASSUME Types, NEW p \in Procs, NEW c \in DOMAIN lines, c = cur[p],
           NEW l \in DOMAIN loggers, l = on[p], WriteAsync(p)
    PROVE  /\ lines' \in Seq(LineType) /\ DOMAIN lines' = DOMAIN lines
           /\ \A i \in DOMAIN lines : i # c => lines'[i] = lines[i]
           /\ IF loggers[l].buf = 0
              THEN lines'[c].at = "written" /\ lines'[c].want = lines'[c].by
              ELSE lines'[c].at \in Places /\ lines'[c].want = Wanted(l)
<1>1. /\ lines \in Seq(LineType) /\ lines[c] \in LineType
      /\ loggers[l] \in LoggerType
  BY DEF Types, LineTypes, LoggerTypes
<1>2. loggers[l].writer \in Writers
  BY <1>1 DEF LoggerType
<1>3. CASE loggers[l].buf = 0
  <2> DEFINE line == WrittenBy(loggers[l].writer, loggers[l].writer)
  <2>1. line \in LineType /\ line.at = "written" /\ line.want = line.by
    BY <1>2 DEF WrittenBy, LineType
  <2>2. lines' = [lines EXCEPT ![c] = line]
    BY <1>3 DEF WriteAsync
  <2> HIDE DEF line
  <2> QED
    BY <1>1, <1>3, <2>1, <2>2, ReplaceFacts
<1>4. CASE loggers[l].buf # 0
  <2> PICK ln \in LineType : ln = lines[c]
    BY <1>1
  <2> PICK want \in Writers \cup {None} : want = Wanted(l)
    BY <1>2 DEF Wanted
  <2> PICK place \in Places :
          lines' = [lines EXCEPT ![c].want = Wanted(l), ![c].at = place]
    BY <1>4, AcceptedPlaces DEF WriteAsync
  <2> PICK x \in LineType : x = [ln EXCEPT !.want = want] /\ x.want = want
    <3>1. [ln EXCEPT !.want = want] \in LineType /\ [ln EXCEPT !.want = want].want = want
      BY DEF LineType
    <3> QED
      BY <3>1
  <2> PICK y \in LineType : y = [x EXCEPT !.at = place] /\ y.at = place /\ y.want = want
    <3>1. /\ [x EXCEPT !.at = place] \in LineType /\ [x EXCEPT !.at = place].at = place
          /\ [x EXCEPT !.at = place].want = x.want
      BY ZenonT(40) DEF LineType, Places
    <3> QED
      BY <3>1
  <2> PICK between \in Seq(LineType) : between = [lines EXCEPT ![c] = x]
    BY <1>1, ReplaceFacts
  <2>2. /\ between[c] = x /\ DOMAIN between = DOMAIN lines
        /\ \A i \in DOMAIN lines : i # c => between[i] = lines[i]
    BY <1>1, ReplaceFacts
  <2>3. lines' = [between EXCEPT ![c] = y]
    BY <2>2
  <2>4. c \in DOMAIN between
    BY <2>2
  <2>5. /\ lines' \in Seq(LineType) /\ DOMAIN lines' = DOMAIN between /\ lines'[c] = y
        /\ \A i \in DOMAIN between : i # c => lines'[i] = between[i]
    BY <2>3, <2>4, ReplaceFacts
  <2>6. DOMAIN lines' = DOMAIN lines /\ \A i \in DOMAIN lines : i # c => lines'[i] = lines[i]
    BY <2>2, <2>5
  <2>7. lines'[c].at \in Places /\ lines'[c].want = Wanted(l)
    <3>1. lines'[c] = y
      BY <2>5
    <3> QED
      BY ZenonT(40), <3>1
  <2> QED
    BY <1>4, <2>5, <2>6, <2>7
<1> QED
  BY <1>3, <1>4

\* At most one buffer changes, and takes the line.
LEMMA WriteAsyncBuffers ==
    ASSUME Types, NEW p \in Procs, NEW c \in DOMAIN lines, c = cur[p],
           NEW l \in DOMAIN loggers, l = on[p], WriteAsync(p)
    PROVE  LET b == loggers[l].buf IN
           \/ buffers' = buffers
           \/ /\ b \in DOMAIN buffers
              /\ buffers' \in Seq(BufferType) /\ Len(buffers') = Len(buffers)
              /\ DOMAIN buffers' = DOMAIN buffers
              /\ \A a \in DOMAIN buffers : a # b => buffers'[a] = buffers[a]
              /\ buffers'[b].writer = buffers[b].writer
              /\ buffers'[b].pending = Append(buffers[b].pending, c)
<1> SUFFICES ASSUME buffers' # buffers
             PROVE  LET b == loggers[l].buf IN
                    /\ b \in DOMAIN buffers
                    /\ buffers' \in Seq(BufferType) /\ Len(buffers') = Len(buffers)
                    /\ DOMAIN buffers' = DOMAIN buffers
                    /\ \A a \in DOMAIN buffers : a # b => buffers'[a] = buffers[a]
                    /\ buffers'[b].writer = buffers[b].writer
                    /\ buffers'[b].pending = Append(buffers[b].pending, c)
  OBVIOUS
<1>1. /\ loggers[l].buf # 0
      /\ buffers' = [buffers EXCEPT ![loggers[l].buf].pending = Append(@, cur[p])]
  BY DEF WriteAsync
<1> PICK b \in DOMAIN buffers : b = loggers[l].buf
  BY <1>1 DEF Types, LoggerTypes, LineTypes
<1> PICK x \in BufferType : x = buffers[b]
  BY DEF Types, LineTypes
<1>2. x.pending \in Seq(Nat) /\ c \in Nat
  BY DEF BufferType, Types, LineTypes
<1> PICK pending \in Seq(Nat), number \in Nat : pending = x.pending /\ number = c
  BY <1>2
<1>21. Append(pending, number) \in Seq(Nat)
  OBVIOUS
<1> PICK taken \in Seq(Nat) : taken = Append(pending, number)
  BY <1>21
<1> PICK y \in BufferType : y = [x EXCEPT !.pending = taken]
  BY DEF BufferType
<1>3. y.pending = taken /\ y.writer = x.writer
  BY DEF BufferType
<1>4. buffers' = [buffers EXCEPT ![b] = y]
  BY <1>1
<1>5. buffers \in Seq(BufferType)
  BY DEF Types, LineTypes
<1>6. /\ buffers' \in Seq(BufferType) /\ Len(buffers') = Len(buffers)
      /\ DOMAIN buffers' = DOMAIN buffers /\ buffers'[b] = y
      /\ \A a \in DOMAIN buffers : a # b => buffers'[a] = buffers[a]
  BY <1>4, <1>5, ReplaceFacts
<1> QED
  BY <1>1, <1>3, <1>6

\* The buffer is for the logger's writer, or the line is not to be looked at.
LEMMA WriteAsyncStep ==
    ASSUME Types, WriterInv, OwnerInv, NEW p \in Procs, WriteAsync(p)
    PROVE  Types' /\ WriterInv' /\ OwnerInv'
<1>1. /\ UNCHANGED <<config, loggers, default, rewired, crossed, raced>>
      /\ pc[p] = "async" /\ pc' = [pc EXCEPT ![p] = Returned(fatal[p])]
      /\ on' = [on EXCEPT ![p] = 0] /\ cur' = [cur EXCEPT ![p] = 0]
      /\ fatal' = [fatal EXCEPT ![p] = FALSE]
  BY DEF WriteAsync, Go, loggerVars
<1>2. on[p] \in DOMAIN loggers /\ cur[p] \in DOMAIN lines
  BY <1>1 DEF Types, ProcTypes, Calling
<1> PICK c \in DOMAIN lines, l \in DOMAIN loggers : c = cur[p] /\ l = on[p]
  BY <1>2
<1> PICK b \in Nat : b = loggers[l].buf
  BY DEF Types, LoggerTypes, LineTypes
<1>3. /\ lines' \in Seq(LineType) /\ DOMAIN lines' = DOMAIN lines
      /\ \A i \in DOMAIN lines : i # c => lines'[i] = lines[i]
      /\ IF b = 0
         THEN lines'[c].at = "written" /\ lines'[c].want = lines'[c].by
         ELSE lines'[c].at \in Places /\ lines'[c].want = Wanted(l)
  BY WriteAsyncLines
<1>4. \/ buffers' = buffers
      \/ /\ b \in DOMAIN buffers
         /\ buffers' \in Seq(BufferType) /\ Len(buffers') = Len(buffers)
         /\ DOMAIN buffers' = DOMAIN buffers
         /\ \A a \in DOMAIN buffers : a # b => buffers'[a] = buffers[a]
         /\ buffers'[b].writer = buffers[b].writer
         /\ buffers'[b].pending = Append(buffers[b].pending, c)
  BY WriteAsyncBuffers
<1>5. /\ buffers' \in Seq(BufferType) /\ Len(buffers') = Len(buffers)
      /\ DOMAIN buffers' = DOMAIN buffers
      /\ \A a \in DOMAIN buffers : buffers'[a].writer = buffers[a].writer
  BY <1>4 DEF Types, LineTypes
<1>6. ASSUME NEW a \in DOMAIN buffers', NEW k \in DOMAIN buffers'[a].pending
      PROVE  \/ k \in DOMAIN buffers[a].pending /\ buffers'[a].pending[k] = buffers[a].pending[k]
             \/ a = b /\ b \in DOMAIN buffers /\ buffers'[a].pending[k] = c
  <2>1. CASE buffers' = buffers
    BY <2>1, <1>6
  <2>2. CASE a # b /\ buffers' # buffers
    BY <2>2, <1>4, <1>6
  <2>3. CASE a = b /\ buffers' # buffers
    <3>1. buffers[b].pending \in Seq(Nat) /\ c \in Nat
      <4>1. buffers[b] \in BufferType
        BY <1>4, <2>3 DEF Types, LineTypes
      <4> QED
        BY <4>1 DEF BufferType, Types, LineTypes
    <3>2. PICK pending \in Seq(Nat) : pending = buffers[b].pending
      BY <3>1
    <3>3. PICK longer : longer = Append(pending, c)
      OBVIOUS
    <3>4. /\ DOMAIN longer = DOMAIN pending \cup {Len(pending) + 1}
          /\ \A i \in DOMAIN pending : longer[i] = pending[i]
          /\ longer[Len(pending) + 1] = c
      BY <3>1, <3>3
    <3>5. buffers'[a].pending = longer /\ b \in DOMAIN buffers
      BY <1>4, <2>3, <3>2, <3>3
    <3>6. k \in DOMAIN longer
      BY <1>6, <3>5
    <3>7. CASE k \in DOMAIN pending
      BY <2>3, <3>2, <3>4, <3>5, <3>7
    <3>8. CASE k = Len(pending) + 1
      BY <2>3, <3>4, <3>5, <3>8
    <3> QED
      BY <3>4, <3>6, <3>7, <3>8
  <2> QED
    BY <2>1, <2>2, <2>3
<1>7. /\ pc' \in [Procs -> {"idle", "check", "create", "store", "async", "exit", "closing"}]
      /\ on' \in [Procs -> Nat] /\ cur' \in [Procs -> Nat] /\ fatal' \in [Procs -> BOOLEAN]
      /\ \A q \in Procs : q # p => /\ pc'[q] = pc[q] /\ on'[q] = on[q]
                                   /\ cur'[q] = cur[q]
      /\ pc'[p] \in {"idle", "exit"}
  <2>1. /\ pc \in [Procs -> {"idle", "check", "create", "store", "async", "exit", "closing"}]
        /\ on \in [Procs -> Nat] /\ cur \in [Procs -> Nat] /\ fatal \in [Procs -> BOOLEAN]
    BY DEF Types, ProcTypes
  <2> QED
    BY <1>1, <2>1 DEF Returned
<1>8. \A q \in Procs : Calling(q)' => q # p /\ Calling(q)
  BY <1>7 DEF Calling
<1>81. SetAsyncKept
  BY <1>1, <1>7 DEF SetAsyncKept, Setting, Storing
<1>9. lines[c].at = "called"
  BY <1>1 DEF WriterInv, Calling
<1>10. Types'
  <2>1. LoggerTypes'
    BY <1>1, <1>5 DEF Types, LoggerTypes
  <2>2. LineTypes'
    BY <1>3, <1>5, <1>6 DEF Types, LineTypes
  <2>3. ProcTypes'
    BY <1>1, <1>3, <1>5, <1>7, <1>8, <1>81 DEF Types, ProcTypes, SetAsyncKept
  <2> QED
    BY <2>1, <2>2, <2>3 DEF Types
<1>11. WriterInv'
  <2>1. ASSUME NEW k \in DOMAIN loggers', k \notin rewired', loggers'[k].buf # 0
        PROVE  buffers'[loggers'[k].buf].writer = loggers'[k].writer
    <3>1. loggers[k].buf \in DOMAIN buffers
      BY <1>1, <2>1 DEF Types, LoggerTypes, LineTypes
    <3>2. buffers[loggers[k].buf].writer = loggers[k].writer
      BY <1>1, <2>1 DEF WriterInv
    <3> QED
      BY <1>1, <1>5, <3>1, <3>2
  <2>2. ASSUME NEW a \in DOMAIN buffers', NEW k \in DOMAIN buffers'[a].pending
        PROVE  /\ lines'[buffers'[a].pending[k]].want \in {None, buffers'[a].writer}
               /\ lines'[buffers'[a].pending[k]].at # "called"
    <3>1. CASE k \in DOMAIN buffers[a].pending /\ buffers'[a].pending[k] = buffers[a].pending[k]
      <4>1. /\ buffers[a].pending[k] \in DOMAIN lines
            /\ lines[buffers[a].pending[k]].want \in {None, buffers[a].writer}
            /\ lines[buffers[a].pending[k]].at # "called"
        BY <1>5, <2>2, <3>1 DEF WriterInv, Types, LineTypes
      <4>2. buffers[a].pending[k] # c
        BY <1>9, <4>1
      <4> QED
        BY <1>3, <1>5, <2>2, <3>1, <4>1, <4>2
    <3>2. CASE a = b /\ b \in DOMAIN buffers /\ buffers'[a].pending[k] = c
      <4>1. b # 0
        BY <3>2 DEF Types, LineTypes
      <4>2. lines'[c].at \in Places /\ lines'[c].want = Wanted(l)
        BY <1>3, <4>1
      <4>3. Wanted(l) \in {None, buffers[b].writer}
        BY <4>1 DEF WriterInv, Wanted
      <4> QED
        BY <1>5, <3>2, <4>2, <4>3 DEF Places
    <3> QED
      BY <1>6, <2>2, <3>1, <3>2
  <2>3. ASSUME NEW q \in Procs, Calling(q)' PROVE lines'[cur'[q]].at = "called"
    <3>1. q # p /\ Calling(q) /\ cur[q] # c /\ cur[q] \in DOMAIN lines
      BY <1>1, <1>8, <2>3 DEF WriterInv, Types, ProcTypes, Calling
    <3> QED
      BY <1>3, <1>7, <3>1 DEF WriterInv
  <2>4. \A q, r \in Procs : Calling(q)' /\ Calling(r)' /\ q # r => cur'[q] # cur'[r]
    BY <1>7, <1>8 DEF WriterInv
  <2>5. OwnWriter'
    <3>1. lines'[c].at = "written" => lines'[c].want \in {None, lines'[c].by}
      BY <1>3 DEF Places
    <3> QED
      BY <1>3, <3>1 DEF WriterInv, OwnWriter
  <2>6. ASSUME NEW q \in Procs, Storing(q)', q \notin crossed'
        PROVE  buffers'[cur'[q]].writer = loggers'[on'[q]].writer
    <3>1. /\ Storing(q) /\ cur[q] \in DOMAIN buffers
          /\ on'[q] = on[q] /\ cur'[q] = cur[q]
      BY <1>81, <2>6 DEF SetAsyncKept, Types, ProcTypes
    <3>2. buffers[cur[q]].writer = loggers[on[q]].writer
      BY <1>1, <2>6, <3>1 DEF WriterInv
    <3> QED
      BY <1>1, <1>5, <3>1, <3>2
  <2> QED
    BY <2>1, <2>2, <2>3, <2>4, <2>5, <2>6 DEF WriterInv
<1>12. OwnerInv'
  BY <1>1, <1>5, <1>81, KeptOwners
<1> QED
  BY <1>10, <1>11, <1>12

--------------------------------------------------------------------------------
(* Workers, and Close.                                                      *)

\* The buffers differ in no writer, and hold no line that they did not hold.
Emptied(b) ==
    /\ buffers' \in Seq(BufferType) /\ Len(buffers') = Len(buffers)
    /\ DOMAIN buffers' = DOMAIN buffers
    /\ \A a \in DOMAIN buffers : buffers'[a].writer = buffers[a].writer
    /\ \A a \in DOMAIN buffers : a # b => buffers'[a].pending = buffers[a].pending
    /\ \A k \in DOMAIN buffers'[b].pending :
          \E j \in DOMAIN buffers[b].pending : buffers'[b].pending[k] = buffers[b].pending[j]

\* What follows the first n elements of a sequence.
LEMMA RestFacts ==
    ASSUME NEW s \in Seq(Nat), NEW n \in Nat, n <= Len(s)
    PROVE  LET rest == SubSeq(s, n + 1, Len(s))
           IN /\ rest \in Seq(Nat)
              /\ \A k \in DOMAIN rest : n + k \in DOMAIN s /\ rest[k] = s[n + k]
<1> DEFINE rest == SubSeq(s, n + 1, Len(s))
<1>1. PICK m \in Nat : m = Len(s) /\ n <= m /\ DOMAIN s = 1..m
  OBVIOUS
<1>2. PICK f \in Nat : f = n + 1
  OBVIOUS
<1>3. /\ f \in Int /\ m \in Int /\ \A i \in f..m : s[i] \in Nat /\ rest = SubSeq(s, f, m)
  BY <1>1, <1>2
<1>4. /\ rest \in Seq(Nat)
      /\ Len(rest) = IF f <= m THEN m - f + 1 ELSE 0
      /\ \A k \in 1..(m - f + 1) : rest[k] = s[f + k - 1]
  <2>1. rest = SubSeq(s, f, m)
    BY <1>1, <1>2
  <2> HIDE DEF rest
  <2>2. /\ SubSeq(s, f, m) \in Seq(Nat)
        /\ Len(SubSeq(s, f, m)) = IF f <= m THEN m - f + 1 ELSE 0
        /\ \A k \in 1..(m - f + 1) : SubSeq(s, f, m)[k] = s[f + k - 1]
    BY <1>3, SubSeqProperties
  <2> QED
    BY <2>1, <2>2
<1> HIDE DEF rest
<1>5. DOMAIN rest = 1..(m - n)
  <2>1. Len(rest) = m - n
    BY <1>1, <1>2, <1>4
  <2> QED
    BY <1>4, <2>1
<1>6. ASSUME NEW k \in 1..(m - n)
      PROVE  n + k \in 1..m /\ rest[k] = s[n + k]
  <2>1. k \in 1..(m - f + 1) /\ f + k - 1 = n + k /\ n + k \in 1..m
    BY <1>1, <1>2
  <2> QED
    BY <1>4, <2>1
<1> QED
  BY <1>1, <1>4, <1>5, <1>6 DEF rest

\* What a flush takes and does not take of a buffer.
LEMMA BatchFacts ==
    ASSUME LoggerAssumption, Types, NEW b \in DOMAIN buffers
    PROVE  /\ Batch(b) \in Nat /\ Batch(b) <= Len(buffers[b].pending)
           /\ Rest(b) \in Seq(Nat)
           /\ \A k \in DOMAIN Rest(b) :
                \E j \in DOMAIN buffers[b].pending : Rest(b)[k] = buffers[b].pending[j]
           /\ DOMAIN buffers[b].pending = 1..Len(buffers[b].pending)
           /\ Len(buffers[b].pending) \in Nat
<1>1. buffers[b] \in BufferType
  BY DEF Types, LineTypes
<1>2. PICK pending \in Seq(Nat) : pending = buffers[b].pending
  BY <1>1 DEF BufferType
<1>3. PICK n \in Nat : n = Batch(b) /\ n <= Len(pending)
  BY <1>2 DEF Batch, LoggerAssumption
<1>4. PICK rest : rest = SubSeq(pending, n + 1, Len(pending))
  OBVIOUS
<1>5. /\ rest \in Seq(Nat)
      /\ \A k \in DOMAIN rest : n + k \in DOMAIN pending /\ rest[k] = pending[n + k]
  BY <1>3, <1>4, RestFacts
<1>6. Rest(b) = rest
  BY <1>2, <1>3, <1>4 DEF Rest
<1>7. ASSUME NEW k \in DOMAIN rest
      PROVE  \E j \in DOMAIN pending : rest[k] = pending[j]
  BY <1>5
<1> QED
  BY <1>2, <1>3, <1>5, <1>6, <1>7

\* One buffer has a writer as before, and lines that it had.
LEMMA EmptiedAs ==
    ASSUME Types, NEW b \in DOMAIN buffers, NEW y \in BufferType,
           buffers' \in Seq(BufferType), Len(buffers') = Len(buffers),
           DOMAIN buffers' = DOMAIN buffers, buffers'[b] = y,
           \A a \in DOMAIN buffers : a # b => buffers'[a] = buffers[a],
           y.writer = buffers[b].writer,
           \A k \in DOMAIN y.pending :
              \E j \in DOMAIN buffers[b].pending : y.pending[k] = buffers[b].pending[j]
    PROVE  Emptied(b)
<1>1. \A a \in DOMAIN buffers : buffers'[a].writer = buffers[a].writer
  OBVIOUS
<1>2. \A a \in DOMAIN buffers : a # b => buffers'[a].pending = buffers[a].pending
  OBVIOUS
<1> QED
  BY <1>1, <1>2 DEF Emptied

\* Close stops a buffer.
LEMMA EmptiedSame ==
    ASSUME Types, NEW b \in DOMAIN buffers, NEW stop \in BOOLEAN,
           buffers' = [buffers EXCEPT ![b].stop = stop]
    PROVE  Emptied(b)
<1> PICK x \in BufferType : x = buffers[b]
  BY DEF Types, LineTypes
<1> PICK y \in BufferType : y = [x EXCEPT !.stop = stop]
  BY DEF BufferType
<1>1. y.pending = x.pending /\ y.writer = x.writer
  BY DEF BufferType
<1>2. buffers' = [buffers EXCEPT ![b] = y] /\ buffers \in Seq(BufferType)
  BY DEF Types, LineTypes
<1>3. /\ buffers' \in Seq(BufferType) /\ Len(buffers') = Len(buffers)
      /\ DOMAIN buffers' = DOMAIN buffers /\ buffers'[b] = y
      /\ \A a \in DOMAIN buffers : a # b => buffers'[a] = buffers[a]
  BY <1>2, ReplaceFacts
<1> QED
  BY <1>1, <1>3 DEF Emptied

\* What a flush does to the buffers.
LEMMA EmptiedFlush ==
    ASSUME LoggerAssumption, Types, NEW b \in DOMAIN buffers, Flush(b)
    PROVE  Emptied(b)
<1> PICK x \in BufferType : x = buffers[b]
  BY DEF Types, LineTypes
<1> PICK rest \in Seq(Nat) :
        /\ rest = Rest(b)
        /\ \A k \in DOMAIN rest : \E j \in DOMAIN x.pending : rest[k] = x.pending[j]
  BY BatchFacts
<1> PICK y \in BufferType : y = [x EXCEPT !.pending = rest]
  BY DEF BufferType
<1>1. /\ y.pending = rest /\ y.writer = buffers[b].writer
      /\ \A k \in DOMAIN y.pending :
            \E j \in DOMAIN buffers[b].pending : y.pending[k] = buffers[b].pending[j]
  <2>1. y.pending = rest /\ y.writer = x.writer
    BY DEF BufferType
  <2> QED
    BY <2>1
<1>2. buffers' = [buffers EXCEPT ![b] = y] /\ buffers \in Seq(BufferType)
  BY DEF Flush, Types, LineTypes
<1>3. /\ buffers' \in Seq(BufferType) /\ Len(buffers') = Len(buffers)
      /\ DOMAIN buffers' = DOMAIN buffers /\ buffers'[b] = y
      /\ \A a \in DOMAIN buffers : a # b => buffers'[a] = buffers[a]
  BY <1>2, ReplaceFacts
<1> QED
  BY <1>1, <1>3, EmptiedAs

\* What the last flush does to the buffers.
LEMMA EmptiedFinalFlush ==
    ASSUME LoggerAssumption, Types, NEW b \in DOMAIN buffers, FinalFlush(b)
    PROVE  Emptied(b)
<1> PICK x \in BufferType : x = buffers[b]
  BY DEF Types, LineTypes
<1> PICK rest \in Seq(Nat) :
        /\ rest = Rest(b)
        /\ \A k \in DOMAIN rest : \E j \in DOMAIN x.pending : rest[k] = x.pending[j]
  BY BatchFacts
<1> PICK y \in BufferType : y = [x EXCEPT !.pending = rest]
  BY DEF BufferType
<1> PICK z \in BufferType : z = [y EXCEPT !.done = TRUE]
  BY DEF BufferType
<1>1. /\ z.pending = rest /\ z.writer = buffers[b].writer
      /\ \A k \in DOMAIN z.pending :
            \E j \in DOMAIN buffers[b].pending : z.pending[k] = buffers[b].pending[j]
  <2>1. z.pending = rest /\ z.writer = x.writer
    BY DEF BufferType
  <2> QED
    BY <2>1
<1>2. buffers \in Seq(BufferType)
  BY DEF Types, LineTypes
<1> PICK between \in Seq(BufferType) : between = [buffers EXCEPT ![b] = y]
  BY <1>2, ReplaceFacts
<1>3. /\ Len(between) = Len(buffers)
      /\ DOMAIN between = DOMAIN buffers /\ between[b] = y
      /\ \A a \in DOMAIN buffers : a # b => between[a] = buffers[a]
  BY <1>2, ReplaceFacts
<1>4. buffers' = [between EXCEPT ![b] = z]
  <2>1. buffers' = [buffers EXCEPT ![b].pending = rest, ![b].done = TRUE]
    BY DEF FinalFlush
  <2> QED
    BY <1>3, <2>1
<1>5. /\ buffers' \in Seq(BufferType) /\ Len(buffers') = Len(buffers)
      /\ DOMAIN buffers' = DOMAIN buffers /\ buffers'[b] = z
      /\ \A a \in DOMAIN buffers : a # b => buffers'[a] = buffers[a]
  BY <1>3, <1>4, ReplaceFacts
<1> QED
  BY <1>1, <1>5, EmptiedAs

\* A line after a flush of b: it was in b, and got its writer or was left behind; or it
\* is as before.
Moved(b, i) ==
    \/ lines'[i] = lines[i]
    \/ /\ \E k \in DOMAIN buffers[b].pending : buffers[b].pending[k] = i
       /\ lines'[i].want = lines[i].want
       /\ \/ lines'[i].at = "written" /\ lines'[i].by = buffers[b].writer
          \/ lines'[i].at = "left"

LEMMA FlushedLines ==
    ASSUME LoggerAssumption, Types, NEW b \in DOMAIN buffers, NEW n \in 0..Batch(b),
           lines' = Flushed(b, n)
    PROVE  /\ lines' \in Seq(LineType) /\ DOMAIN lines' = DOMAIN lines
           /\ \A i \in DOMAIN lines : Moved(b, i)
<1>1. lines \in Seq(LineType) /\ buffers[b] \in BufferType
  BY DEF Types, LineTypes
<1>2. buffers[b].writer \in Writers
  BY <1>1 DEF BufferType
<1>3. lines' = [i \in DOMAIN lines |->
                  IF In(i, b, 1, n) THEN WrittenBy(buffers[b].writer, lines[i].want)
                  ELSE IF In(i, b, n + 1, Batch(b)) THEN [lines[i] EXCEPT !.at = "left"]
                  ELSE lines[i]]
  BY DEF Flushed
<1>4. ASSUME NEW i, In(i, b, 1, n) \/ In(i, b, n + 1, Batch(b))
      PROVE  \E k \in DOMAIN buffers[b].pending : buffers[b].pending[k] = i
  <2>1. PICK k \in 1..Batch(b) : buffers[b].pending[k] = i
    BY <1>4, BatchFacts DEF In
  <2>2. k \in DOMAIN buffers[b].pending
    BY BatchFacts
  <2> QED
    BY <2>1, <2>2
<1>5. ASSUME NEW i \in DOMAIN lines
      PROVE  LET w == WrittenBy(buffers[b].writer, lines[i].want)
                 x == [lines[i] EXCEPT !.at = "left"]
             IN /\ w \in LineType /\ w.want = lines[i].want /\ w.at = "written"
                /\ w.by = buffers[b].writer
                /\ x \in LineType /\ x.want = lines[i].want /\ x.at = "left"
  <2>1. PICK line \in LineType : line = lines[i]
    BY <1>1
  <2>2. line.want \in Writers \cup {None}
    BY DEF LineType
  <2>3. LET w == WrittenBy(buffers[b].writer, line.want)
        IN /\ w \in LineType /\ w.want = line.want /\ w.at = "written"
           /\ w.by = buffers[b].writer
    BY <1>2, <2>2 DEF WrittenBy, LineType
  <2>4. LET x == [line EXCEPT !.at = "left"]
        IN x \in LineType /\ x.want = line.want /\ x.at = "left"
    BY DEF LineType
  <2> QED
    BY <2>1, <2>3, <2>4
<1>6. \A i \in DOMAIN lines : lines'[i] \in LineType
  BY <1>1, <1>3, <1>5
<1>7. DOMAIN lines' = DOMAIN lines /\ lines' \in Seq(LineType)
  <2> DEFINE new(i) ==
        IF In(i, b, 1, n) THEN WrittenBy(buffers[b].writer, lines[i].want)
        ELSE IF In(i, b, n + 1, Batch(b)) THEN [lines[i] EXCEPT !.at = "left"]
        ELSE lines[i]
  <2>1. lines' = [i \in DOMAIN lines |-> new(i)]
    BY <1>3
  <2> HIDE DEF new
  <2>2. DOMAIN lines' = DOMAIN lines
    BY <2>1
  <2>3. PICK m \in Nat : DOMAIN lines = 1..m
    BY <1>1
  <2>4. lines' = [i \in 1..m |-> lines'[i]] /\ \A i \in 1..m : lines'[i] \in LineType
    BY <1>6, <2>1, <2>2, <2>3
  <2>5. lines' \in [1..m -> LineType]
    BY <2>4
  <2> QED
    BY <2>2, <2>5
<1>8. \A i \in DOMAIN lines : Moved(b, i)
  BY <1>3, <1>4, <1>5 DEF Moved
<1> QED
  BY <1>7, <1>8

\* A step that flushes b or leaves the lines alone.
Handed(b) ==
    /\ Emptied(b)
    /\ lines' = lines \/ \E n \in 0..Batch(b) : lines' = Flushed(b, n)
    /\ UNCHANGED <<config, loggers, default, rewired, cur, fatal, crossed, raced>>
    /\ pc' \in [Procs -> {"idle", "check", "create", "store", "async", "exit", "closing"}]
    /\ on' \in [Procs -> Nat]
    /\ \A q \in Procs : Calling(q)' => Calling(q) /\ on'[q] = on[q]
    /\ SetAsyncKept

\* The lines get the writer of the buffer that they were in.
LEMMA HandedStep ==
    ASSUME LoggerAssumption, Types, WriterInv, OwnerInv, NEW b \in DOMAIN buffers, Handed(b)
    PROVE  Types' /\ WriterInv' /\ OwnerInv'
<1>1. /\ buffers' \in Seq(BufferType) /\ Len(buffers') = Len(buffers)
      /\ DOMAIN buffers' = DOMAIN buffers
      /\ \A a \in DOMAIN buffers : buffers'[a].writer = buffers[a].writer
  BY DEF Handed, Emptied
<1>2. ASSUME NEW a \in DOMAIN buffers', NEW k \in DOMAIN buffers'[a].pending
      PROVE  \E j \in DOMAIN buffers[a].pending :
                buffers'[a].pending[k] = buffers[a].pending[j]
  BY <1>1, <1>2 DEF Handed, Emptied
<1>3. /\ lines' \in Seq(LineType) /\ DOMAIN lines' = DOMAIN lines
      /\ \A i \in DOMAIN lines : Moved(b, i)
  <2>1. CASE lines' = lines
    BY <2>1 DEF Types, LineTypes, Moved
  <2>2. CASE \E n \in 0..Batch(b) : lines' = Flushed(b, n)
    BY <2>2, FlushedLines
  <2> QED
    BY <2>1, <2>2 DEF Handed
<1>4. UNCHANGED <<config, loggers, default, rewired, cur, fatal, crossed, raced>>
  BY DEF Handed
<1>5. Types'
  <2>1. LoggerTypes'
    BY <1>1, <1>4 DEF Types, LoggerTypes
  <2>2. LineTypes'
    <3>1. \A a \in DOMAIN buffers : \A j \in DOMAIN buffers[a].pending :
             buffers[a].pending[j] \in DOMAIN lines
      BY DEF Types, LineTypes
    <3>2. ASSUME NEW a \in DOMAIN buffers', NEW k \in DOMAIN buffers'[a].pending
          PROVE  buffers'[a].pending[k] \in DOMAIN lines'
      <4>1. PICK j \in DOMAIN buffers[a].pending :
               buffers'[a].pending[k] = buffers[a].pending[j]
        BY <1>2
      <4> QED
        BY <1>1, <1>3, <3>1, <4>1
    <3> QED
      BY <1>1, <1>3, <3>2 DEF LineTypes
  <2>3. ProcTypes'
    BY <1>1, <1>3, <1>4 DEF Handed, SetAsyncKept, Types, ProcTypes
  <2> QED
    BY <2>1, <2>2, <2>3 DEF Types
<1>6. WriterInv'
  <2>1. ASSUME NEW k \in DOMAIN loggers', k \notin rewired', loggers'[k].buf # 0
        PROVE  buffers'[loggers'[k].buf].writer = loggers'[k].writer
    <3>1. loggers[k].buf \in DOMAIN buffers
      BY <1>4, <2>1 DEF Types, LoggerTypes, LineTypes
    <3>2. buffers[loggers[k].buf].writer = loggers[k].writer
      BY <1>4, <2>1 DEF WriterInv
    <3> QED
      BY <1>1, <1>4, <3>1, <3>2
  <2>2. ASSUME NEW a \in DOMAIN buffers', NEW k \in DOMAIN buffers'[a].pending
        PROVE  /\ lines'[buffers'[a].pending[k]].want \in {None, buffers'[a].writer}
               /\ lines'[buffers'[a].pending[k]].at # "called"
    <3>1. a \in DOMAIN buffers
      BY <1>1
    <3>2. PICK j \in DOMAIN buffers[a].pending : buffers'[a].pending[k] = buffers[a].pending[j]
      BY <1>2
    <3>3. PICK i : i = buffers[a].pending[j]
      OBVIOUS
    <3>4. /\ i \in DOMAIN lines
          /\ lines[i].want \in {None, buffers[a].writer} /\ lines[i].at # "called"
      BY <3>1, <3>3 DEF WriterInv, Types, LineTypes
    <3>5. lines'[i].want \in {None, buffers[a].writer} /\ lines'[i].at # "called"
      BY <1>3, <3>4 DEF Moved
    <3> QED
      BY <1>1, <3>1, <3>2, <3>3, <3>5
  <2>3. ASSUME NEW q \in Procs, Calling(q)' PROVE lines'[cur'[q]].at = "called"
    <3>1. Calling(q) /\ lines[cur[q]].at = "called" /\ cur[q] \in DOMAIN lines
      BY <2>3 DEF Handed, WriterInv, Types, ProcTypes
    <3>2. ~ \E k \in DOMAIN buffers[b].pending : buffers[b].pending[k] = cur[q]
      BY <3>1 DEF WriterInv
    <3> QED
      BY <1>3, <1>4, <3>1, <3>2 DEF Moved
  <2>4. \A q, r \in Procs : Calling(q)' /\ Calling(r)' /\ q # r => cur'[q] # cur'[r]
    BY <1>4 DEF Handed, WriterInv
  <2>5. OwnWriter'
    <3> SUFFICES ASSUME NEW i \in DOMAIN lines, lines'[i].at = "written"
                 PROVE  lines'[i].want \in {None, lines'[i].by}
      BY <1>3 DEF OwnWriter
    <3>1. CASE lines'[i] = lines[i]
      BY <3>1 DEF WriterInv, OwnWriter
    <3>2. CASE /\ \E k \in DOMAIN buffers[b].pending : buffers[b].pending[k] = i
               /\ lines'[i].want = lines[i].want
               /\ lines'[i].by = buffers[b].writer
      BY <3>2 DEF WriterInv
    <3> QED
      BY <1>3, <3>1, <3>2 DEF Moved
  <2>6. ASSUME NEW q \in Procs, Storing(q)', q \notin crossed'
        PROVE  buffers'[cur'[q]].writer = loggers'[on'[q]].writer
    <3>1. Storing(q) /\ cur[q] \in DOMAIN buffers /\ on'[q] = on[q]
      BY <2>6 DEF Handed, SetAsyncKept, Types, ProcTypes
    <3>2. buffers[cur[q]].writer = loggers[on[q]].writer
      BY <1>4, <2>6, <3>1 DEF WriterInv
    <3> QED
      BY <1>1, <1>4, <3>1, <3>2
  <2> QED
    BY <2>1, <2>2, <2>3, <2>4, <2>5, <2>6 DEF WriterInv
<1>7. OwnerInv'
  BY <1>1, <1>4, KeptOwners DEF Handed
<1> QED
  BY <1>5, <1>6, <1>7

\* The actions of the workers, of Close and of Exit are such steps.
LEMMA FlushStep ==
    ASSUME LoggerAssumption, Types, WriterInv, OwnerInv,
           NEW b \in DOMAIN buffers, Flush(b) \/ FinalFlush(b)
    PROVE  Types' /\ WriterInv' /\ OwnerInv'
<1>1. Emptied(b)
  BY EmptiedFlush, EmptiedFinalFlush
<1>2. /\ \E n \in 0..Batch(b) : lines' = Flushed(b, n)
      /\ UNCHANGED <<config, loggers, default, rewired, pc, on, cur, fatal, crossed, raced>>
  BY DEF Flush, FinalFlush, FlushedAtEnd, loggerVars, procVars
<1>3. /\ pc \in [Procs -> {"idle", "check", "create", "store", "async", "exit", "closing"}]
      /\ on \in [Procs -> Nat]
  BY DEF Types, ProcTypes
<1>4. Handed(b)
  BY <1>1, <1>2, <1>3 DEF Handed, Calling, SetAsyncKept, Setting, Storing
<1> QED
  BY <1>4, HandedStep

\* A second Close changes neither buffers nor lines.
LEMMA CloseStep ==
    ASSUME LoggerAssumption, Types, WriterInv, OwnerInv,
           NEW p \in Procs, NEW l \in DOMAIN loggers, Close(p, l)
    PROVE  Types' /\ WriterInv' /\ OwnerInv'
<1> PICK b \in DOMAIN buffers : b = loggers[l].buf
  BY DEF Close, Types, LoggerTypes, LineTypes
<1>1. /\ UNCHANGED <<config, loggers, default, rewired, cur, fatal, lines, crossed, raced>>
      /\ pc[p] = "idle"
  BY DEF Close, loggerVars
<1>2. /\ pc \in [Procs -> {"idle", "check", "create", "store", "async", "exit", "closing"}]
      /\ on \in [Procs -> Nat] /\ b \in Nat /\ buffers[b].stop \in BOOLEAN
      /\ buffers \in Seq(BufferType)
  <2>1. buffers \in Seq(BufferType) /\ buffers[b] \in BufferType
    BY DEF Types, LineTypes
  <2>2. buffers[b].stop \in BOOLEAN
    BY <2>1 DEF BufferType
  <2> QED
    BY <2>1, <2>2 DEF Types, ProcTypes
<1>3. CASE buffers[b].stop
  <2>1. UNCHANGED <<buffers, pc, on>>
    BY <1>3 DEF Close
  <2>2. Emptied(b)
    BY <1>2, <2>1 DEF Emptied
  <2>3. Handed(b)
    BY <1>1, <1>2, <2>1, <2>2 DEF Handed, Calling, SetAsyncKept, Setting, Storing
  <2> QED
    BY <2>3, HandedStep
<1>4. CASE ~buffers[b].stop
  <2>1. /\ buffers' = [buffers EXCEPT ![b].stop = TRUE]
        /\ on' = [on EXCEPT ![p] = b] /\ pc' = [pc EXCEPT ![p] = "closing"]
    BY <1>4 DEF Close, Go
  <2>2. Emptied(b)
    BY <2>1, EmptiedSame
  <2>3. /\ pc' \in [Procs -> {"idle", "check", "create", "store", "async", "exit", "closing"}]
        /\ on' \in [Procs -> Nat] /\ pc'[p] = "closing"
        /\ \A q \in Procs : q # p => pc'[q] = pc[q] /\ on'[q] = on[q]
    BY <1>2, <2>1
  <2>4. Handed(b)
    BY <1>1, <2>2, <2>3 DEF Handed, Calling, SetAsyncKept, Setting, Storing
  <2> QED
    BY <2>4, HandedStep
<1> QED
  BY <1>2, <1>3, <1>4

\* The return of a Close, and Fatal's exit.
LEMMA EndStep ==
    ASSUME Types, WriterInv, OwnerInv, NEW p \in Procs, CloseReturn(p) \/ Exit(p)
    PROVE  Types' /\ WriterInv' /\ OwnerInv'
<1>1. /\ UNCHANGED <<config, loggers, default, rewired, buffers, on, cur, fatal, lines,
                     crossed, raced>>
      /\ pc' = pc \/ (pc[p] = "closing" /\ pc' = [pc EXCEPT ![p] = "idle"])
  BY DEF CloseReturn, Exit, Go, loggerVars, procVars
<1>2. /\ pc' \in [Procs -> {"idle", "check", "create", "store", "async", "exit", "closing"}]
      /\ \A q \in Procs : pc'[q] = pc[q] \/ (pc[q] = "closing" /\ pc'[q] = "idle")
  BY <1>1 DEF Types, ProcTypes
<1>3. (\A q \in Procs : Calling(q)' => Calling(q)) /\ SetAsyncKept
  BY <1>1, <1>2 DEF Calling, SetAsyncKept, Setting, Storing
<1>4. Types'
  <2>1. LoggerTypes'
    BY <1>1 DEF Types, LoggerTypes
  <2>2. LineTypes'
    BY <1>1 DEF Types, LineTypes
  <2>3. ProcTypes'
    BY <1>1, <1>2, <1>3 DEF Types, ProcTypes, SetAsyncKept
  <2> QED
    BY <2>1, <2>2, <2>3 DEF Types
<1>5. WriterInv'
  BY <1>1, <1>3 DEF WriterInv, OwnWriter, SetAsyncKept
<1>6. OwnerInv'
  BY <1>1, <1>3, KeptOwners
<1> QED
  BY <1>4, <1>5, <1>6

\* Nothing changes.
LEMMA StutterStep ==
    ASSUME Types, WriterInv, OwnerInv, UNCHANGED vars
    PROVE  Types' /\ WriterInv' /\ OwnerInv'
<1>1. UNCHANGED <<config, loggers, default, rewired, buffers, pc, on, cur, fatal, lines,
                  crossed, raced>>
  BY DEF vars, loggerVars, procVars
<1>2. Types'
  <2>1. LoggerTypes'
    BY <1>1 DEF Types, LoggerTypes
  <2>2. LineTypes'
    BY <1>1 DEF Types, LineTypes
  <2>3. ProcTypes'
    BY <1>1 DEF Types, ProcTypes, Calling, Storing
  <2> QED
    BY <2>1, <2>2, <2>3 DEF Types
<1>3. WriterInv'
  BY <1>1 DEF WriterInv, OwnWriter, Calling, Storing
<1>4. OwnerInv'
  BY <1>1 DEF OwnerInv, Owned, Setting, Storing
<1> QED
  BY <1>2, <1>3, <1>4

--------------------------------------------------------------------------------
(* Hooks.                                                                   *)

HookTypes ==
    /\ arrays \in Seq(Seq(Place))
    /\ asked \in Seq(Seq(Hooks)) /\ Len(asked) = Len(loggers)
    /\ family \in Seq(Nat) /\ Len(family) = Len(loggers)
    /\ overwritten \subseteq DOMAIN loggers

\* The hooks of a logger: as many as were asked for, in an array that has them; the
\* array of config is used by loggers made from config only, from its own hooks on.
HookSlice(l) ==
    LET slice == loggers[l].hooks IN
    /\ slice.arr \in 0..Len(arrays) /\ slice.len = Len(asked[l])
    /\ slice.arr = 0 => slice.len = 0
    /\ slice.arr # 0 => slice.len # 0 /\ slice.len <= Len(arrays[slice.arr])
    /\ slice.arr = 1 => Len(config.hooks) <= slice.len /\ family[l] = 1

\* Loggers that share an array are of one family, and config's own hooks stay where
\* they are.
HookInv ==
    /\ HookTypes
    /\ \A l \in DOMAIN loggers : HookSlice(l)
    /\ \A l, m \in DOMAIN loggers :
          loggers[l].hooks.arr # 0 /\ loggers[l].hooks.arr = loggers[m].hooks.arr
             => family[l] = family[m]
    /\ 1 \in DOMAIN arrays /\ Len(config.hooks) <= Len(arrays[1])
    /\ \A i \in 1..Len(config.hooks) : arrays[1][i] = config.hooks[i]
    /\ HooksAsAsked

\* A logger is appended with these hooks, unless it counts as overwritten, and the only
\* hook that changes is its last one, beyond the hooks of config; the loggers that had
\* a hook there count as overwritten.
Grown(new, hooks, fam) ==
    LET arr == new.hooks.arr
        len == new.hooks.len
    IN /\ new \in LoggerType /\ hooks \in Seq(Hooks) /\ fam \in Nat
       /\ loggers' = Append(loggers, new)
       /\ asked' = Append(asked, hooks) /\ family' = Append(family, fam)
       /\ UNCHANGED config
       /\ overwritten \subseteq overwritten'
       /\ overwritten' \subseteq DOMAIN loggers \cup {Len(loggers) + 1}
       /\ arrays' \in Seq(Seq(Place)) /\ Len(arrays) <= Len(arrays')
       /\ \A a \in DOMAIN arrays :
            /\ Len(arrays'[a]) = Len(arrays[a])
            /\ \A i \in 1..Len(arrays[a]) :
                 \/ arrays'[a][i] = arrays[a][i]
                 \/ /\ a = arr /\ i = len /\ (a = 1 => Len(config.hooks) < i)
                    /\ \A m \in DOMAIN loggers :
                          loggers[m].hooks.arr = a /\ i <= loggers[m].hooks.len
                             => m \in overwritten'
       /\ arr \in 0..Len(arrays') /\ len = Len(hooks)
       /\ arr = 0 => len = 0
       /\ arr # 0 => len # 0 /\ len <= Len(arrays'[arr])
       /\ arr = 1 => Len(config.hooks) <= len /\ fam = 1
       /\ \A l \in DOMAIN loggers : arr # 0 /\ loggers[l].hooks.arr = arr => family[l] = fam
       /\ Len(loggers) + 1 \notin overwritten'
             => \A i \in 1..len : arrays'[arr][i] = hooks[i]

\* Such a step keeps the hooks of all loggers in order.
LEMMA GrownHooks ==
    ASSUME LoggerAssumption, Types, HookInv, NEW new, NEW hooks, NEW fam, Grown(new, hooks, fam)
    PROVE  HookInv'
<1> DEFINE n == Len(loggers) + 1
<1>1. /\ new \in LoggerType /\ hooks \in Seq(Hooks) /\ fam \in Nat
      /\ loggers \in Seq(LoggerType) /\ loggers' = Append(loggers, new)
      /\ asked \in Seq(Seq(Hooks)) /\ asked' = Append(asked, hooks)
      /\ family \in Seq(Nat) /\ family' = Append(family, fam)
      /\ Len(asked) = Len(loggers) /\ Len(family) = Len(loggers)
      /\ config' = config
  BY DEF Grown, HookInv, HookTypes, Types, LoggerTypes
<1>2. /\ n \notin DOMAIN loggers /\ DOMAIN loggers' = DOMAIN loggers \cup {n}
      /\ loggers'[n] = new /\ \A l \in DOMAIN loggers : loggers'[l] = loggers[l]
      /\ Len(loggers') = n
  BY <1>1
<1>3. /\ asked'[n] = hooks /\ \A l \in DOMAIN loggers : asked'[l] = asked[l]
      /\ asked' \in Seq(Seq(Hooks)) /\ Len(asked') = n
  BY <1>1, AppendFacts
<1>4. /\ family'[n] = fam /\ \A l \in DOMAIN loggers : family'[l] = family[l]
      /\ family' \in Seq(Nat) /\ Len(family') = n
  BY <1>1
<1> HIDE DEF n
<1>41. /\ overwritten' \subseteq DOMAIN loggers' /\ overwritten \subseteq overwritten'
       /\ n \notin overwritten' => \A i \in 1..new.hooks.len : arrays'[new.hooks.arr][i] = hooks[i]
  <2>1. /\ overwritten' \subseteq DOMAIN loggers \cup {n} /\ overwritten \subseteq overwritten'
        /\ n \notin overwritten'
              => \A i \in 1..new.hooks.len : arrays'[new.hooks.arr][i] = hooks[i]
    BY DEF Grown, n
  <2> QED
    BY <1>2, <2>1
<1>5. HookTypes'
  BY <1>2, <1>3, <1>4, <1>41 DEF HookTypes, Grown
<1>6. /\ Len(arrays) \in Nat /\ Len(arrays') \in Nat /\ Len(arrays) <= Len(arrays')
      /\ DOMAIN arrays = 1..Len(arrays) /\ DOMAIN arrays' = 1..Len(arrays')
  BY SMTT(40) DEF HookInv, HookTypes, Grown
<1>61. /\ \A a \in DOMAIN arrays :
            /\ Len(arrays'[a]) = Len(arrays[a])
            /\ arrays[a] \in Seq(Place) /\ Len(arrays[a]) \in Nat
       /\ \A a \in DOMAIN arrays : \A i \in 1..Len(arrays[a]) :
            \/ arrays'[a][i] = arrays[a][i]
            \/ /\ a = new.hooks.arr /\ i = new.hooks.len /\ (a = 1 => Len(config.hooks) < i)
               /\ \A m \in DOMAIN loggers :
                     loggers[m].hooks.arr = a /\ i <= loggers[m].hooks.len
                        => m \in overwritten'
  <2>1. arrays \in Seq(Seq(Place))
    BY DEF HookInv, HookTypes
  <2>2. \A a \in DOMAIN arrays : arrays[a] \in Seq(Place)
    BY <2>1
  <2>3. \A a \in DOMAIN arrays : Len(arrays[a]) \in Nat
    BY <2>2
  <2> QED
    BY <2>2, <2>3 DEF Grown
<1>62. /\ \A l \in DOMAIN loggers :
            loggers[l].hooks.arr \in Nat /\ loggers[l].hooks.len \in Nat
       /\ new.hooks.arr \in Nat /\ new.hooks.len \in Nat
       /\ Len(config.hooks) \in Nat
  <2>1. \A l \in DOMAIN loggers : loggers[l] \in LoggerType
    BY <1>1
  <2>2. config.hooks \in Seq(Hooks)
    BY DEF LoggerAssumption, Types, LoggerTypes
  <2> QED
    BY SMTT(40), <1>1, <2>1, <2>2 DEF LoggerType
<1>7. ASSUME NEW l \in DOMAIN loggers' PROVE HookSlice(l)'
  <2>1. CASE l = n
    BY <1>1, <1>2, <1>3, <1>4, <2>1 DEF HookSlice, Grown
  <2>2. CASE l \in DOMAIN loggers
    <3>1. HookSlice(l)
      BY <2>2 DEF HookInv
    <3>2. loggers'[l] = loggers[l] /\ asked'[l] = asked[l] /\ family'[l] = family[l]
      BY <1>2, <1>3, <1>4, <2>2
    <3>3. ASSUME loggers[l].hooks.arr # 0
          PROVE  Len(arrays'[loggers[l].hooks.arr]) = Len(arrays[loggers[l].hooks.arr])
      <4>1. loggers[l].hooks.arr \in 0..Len(arrays)
        BY <3>1 DEF HookSlice
      <4>2. loggers[l].hooks.arr \in DOMAIN arrays
        BY <1>6, <1>62, <2>2, <3>3, <4>1
      <4> QED
        BY <1>61, <4>2
    <3>4. loggers[l].hooks.arr \in 0..Len(arrays')
      BY <1>6, <3>1 DEF HookSlice
    <3> QED
      BY <1>1, <3>1, <3>2, <3>3, <3>4 DEF HookSlice
  <2> QED
    BY <1>2, <2>1, <2>2
<1>8. ASSUME NEW l \in DOMAIN loggers', NEW m \in DOMAIN loggers',
             loggers'[l].hooks.arr # 0, loggers'[l].hooks.arr = loggers'[m].hooks.arr
      PROVE  family'[l] = family'[m]
  <2>1. CASE l \in DOMAIN loggers /\ m \in DOMAIN loggers
    <3>1. /\ loggers[l].hooks.arr # 0
          /\ loggers[l].hooks.arr = loggers[m].hooks.arr
      BY <1>2, <1>8, <2>1
    <3>2. family[l] = family[m]
      BY <2>1, <3>1 DEF HookInv
    <3> QED
      BY <1>4, <2>1, <3>2
  <2>2. CASE l = n /\ m \in DOMAIN loggers
    <3>1. new.hooks.arr # 0 /\ loggers[m].hooks.arr = new.hooks.arr
      BY <1>2, <1>8, <2>2
    <3>2. family[m] = fam
      BY <2>2, <3>1 DEF Grown
    <3> QED
      BY <1>4, <2>2, <3>2
  <2>3. CASE l \in DOMAIN loggers /\ m = n
    <3>1. new.hooks.arr # 0 /\ loggers[l].hooks.arr = new.hooks.arr
      BY <1>2, <1>8, <2>3
    <3>2. family[l] = fam
      BY <2>3, <3>1 DEF Grown
    <3> QED
      BY <1>4, <2>3, <3>2
  <2> QED
    BY <1>2, <2>1, <2>2, <2>3
<1>9. /\ 1 \in DOMAIN arrays' /\ Len(config'.hooks) <= Len(arrays'[1])
      /\ \A i \in 1..Len(config'.hooks) : arrays'[1][i] = config'.hooks[i]
  <2>1. /\ 1 \in DOMAIN arrays /\ Len(config.hooks) <= Len(arrays[1])
        /\ \A i \in 1..Len(config.hooks) : arrays[1][i] = config.hooks[i]
    BY DEF HookInv
  <2>2. 1 \in DOMAIN arrays' /\ Len(config.hooks) <= Len(arrays'[1])
    BY <1>6, <1>61, <2>1
  <2>3. ASSUME NEW i \in 1..Len(config.hooks) PROVE arrays'[1][i] = config.hooks[i]
    <3>1. i \in 1..Len(arrays[1]) /\ ~(Len(config.hooks) < i)
      BY <1>61, <1>62, <2>1
    <3> QED
      BY <1>61, <2>1, <3>1
  <2> QED
    BY <1>1, <2>1, <2>2, <2>3
<1>10. HooksAsAsked'
  <2> SUFFICES ASSUME NEW l \in DOMAIN loggers', l \notin overwritten'
               PROVE  /\ loggers'[l].hooks.len = Len(asked'[l])
                      /\ \A i \in DOMAIN asked'[l] :
                            arrays'[loggers'[l].hooks.arr][i] = asked'[l][i]
    BY DEF HooksAsAsked
  <2>0. DOMAIN hooks = 1..Len(hooks)
    BY <1>1
  <2>1. CASE l = n
    <3>1. loggers'[l] = new /\ asked'[l] = hooks /\ new.hooks.len = Len(hooks)
      BY <1>2, <1>3, <2>1 DEF Grown
    <3> QED
      BY <1>41, <2>0, <2>1, <3>1
  <2>2. CASE l \in DOMAIN loggers
    <3> DEFINE a == loggers[l].hooks.arr
    <3>1. loggers'[l] = loggers[l] /\ asked'[l] = asked[l] /\ l \notin overwritten
      BY <1>2, <1>3, <1>41, <2>2
    <3>2. HookSlice(l) /\ asked[l] \in Seq(Hooks)
      <4>1. HookSlice(l)
        BY <2>2 DEF HookInv
      <4>2. DOMAIN loggers = DOMAIN asked
        BY <1>1
      <4> QED
        BY <1>1, <2>2, <4>1, <4>2
    <3>3. /\ loggers[l].hooks.len = Len(asked[l])
          /\ \A i \in DOMAIN asked[l] : arrays[a][i] = asked[l][i]
      BY <2>2, <3>1 DEF HookInv, HooksAsAsked
    <3>4. ASSUME NEW i \in DOMAIN asked[l] PROVE arrays'[a][i] = arrays[a][i]
      <4>1. i \in 1..loggers[l].hooks.len
        BY <3>2, <3>3
      <4>2. a # 0
        BY <1>62, <2>2, <3>2, <4>1 DEF HookSlice
      <4>3. a \in DOMAIN arrays /\ loggers[l].hooks.len <= Len(arrays[a])
        BY <1>6, <1>62, <2>2, <3>2, <4>2 DEF HookSlice
      <4>4. i \in 1..Len(arrays[a]) /\ i <= loggers[l].hooks.len
        BY <1>61, <1>62, <2>2, <4>1, <4>3
      <4> QED
        BY <1>61, <2>2, <4>3, <4>4
    <3> QED
      BY <3>1, <3>3, <3>4
  <2> QED
    BY <1>2, <2>1, <2>2
<1> QED
  BY <1>5, <1>7, <1>8, <1>9, <1>10 DEF HookInv

\* The hooks of a logger that is there, as Grown asks for them of its clone.
LEMMA SameHooks ==
    ASSUME LoggerAssumption, Types, HookInv, NEW l \in DOMAIN loggers,
           NEW new \in LoggerType, new.hooks = loggers[l].hooks,
           loggers' = Append(loggers, new), asked' = Append(asked, asked[l]),
           family' = Append(family, family[l]), UNCHANGED <<config, arrays>>,
           overwritten' = Joined(overwritten, l \in overwritten)
    PROVE  Grown(new, asked[l], family[l])
<1>1. /\ arrays \in Seq(Seq(Place)) /\ Len(arrays) \in Nat
      /\ asked \in Seq(Seq(Hooks)) /\ family \in Seq(Nat)
      /\ DOMAIN asked = DOMAIN loggers /\ DOMAIN family = DOMAIN loggers
  BY DEF HookInv, HookTypes, Types, LoggerTypes
<1>2. asked[l] \in Seq(Hooks) /\ family[l] \in Nat
  <2>1. l \in DOMAIN asked /\ l \in DOMAIN family
    BY <1>1
  <2>2. asked \in Seq(Seq(Hooks)) /\ family \in Seq(Nat)
    BY <1>1
  <2>3. \A k \in DOMAIN asked : asked[k] \in Seq(Hooks)
    BY <2>2
  <2>4. \A k \in DOMAIN family : family[k] \in Nat
    BY SMTT(40), <2>2
  <2> QED
    BY <2>1, <2>3, <2>4
<1>3. HookSlice(l)
  BY DEF HookInv
<1>4. \A m \in DOMAIN loggers : new.hooks.arr # 0 /\ loggers[m].hooks.arr = new.hooks.arr
          => family[m] = family[l]
  BY DEF HookInv
<1>5. l \notin overwritten
         => \A i \in 1..new.hooks.len : arrays[new.hooks.arr][i] = asked[l][i]
  <2>1. DOMAIN asked[l] = 1..Len(asked[l])
    BY <1>2
  <2> QED
    BY <2>1 DEF HookInv, HooksAsAsked
<1>6. /\ arrays' \in Seq(Seq(Place)) /\ Len(arrays) <= Len(arrays')
      /\ \A a \in DOMAIN arrays :
           /\ Len(arrays'[a]) = Len(arrays[a])
           /\ \A i \in 1..Len(arrays[a]) : arrays'[a][i] = arrays[a][i]
  BY <1>1
<1>7. LET arr == new.hooks.arr
          len == new.hooks.len
      IN /\ arr \in 0..Len(arrays') /\ len = Len(asked[l])
         /\ arr = 0 => len = 0
         /\ arr # 0 => len # 0 /\ len <= Len(arrays'[arr])
         /\ arr = 1 => Len(config.hooks) <= len /\ family[l] = 1
  BY <1>3 DEF HookSlice
<1>8. /\ overwritten \subseteq overwritten'
      /\ overwritten' \subseteq DOMAIN loggers \cup {Len(loggers) + 1}
      /\ Len(loggers) + 1 \notin overwritten' => l \notin overwritten
  BY DEF Joined, HookInv, HookTypes
<1>9. Len(loggers) + 1 \notin overwritten'
         => \A i \in 1..new.hooks.len : arrays'[new.hooks.arr][i] = asked[l][i]
  BY <1>5, <1>8
<1> QED
  BY <1>2, <1>4, <1>6, <1>7, <1>8, <1>9 DEF Grown

\* The types of arrays and hooks, as the next proofs use them.
LEMMA HookFacts ==
    ASSUME LoggerAssumption, Types, HookInv
    PROVE  /\ arrays \in Seq(Seq(Place)) /\ Len(arrays) \in Nat \ {0}
           /\ DOMAIN arrays = 1..Len(arrays)
           /\ \A a \in DOMAIN arrays : /\ arrays[a] \in Seq(Place)
                                       /\ Len(arrays[a]) \in Nat
           /\ config.hooks \in Seq(Hooks) /\ Len(config.hooks) \in Nat
           /\ \A l \in DOMAIN loggers :
                /\ asked[l] \in Seq(Hooks) /\ family[l] \in Nat
                /\ loggers[l].hooks \in [arr : Nat, len : Nat]
                /\ loggers[l].hooks.arr \in 0..Len(arrays)
<1>1. /\ arrays \in Seq(Seq(Place)) /\ Len(arrays) \in Nat \ {0}
      /\ DOMAIN arrays = 1..Len(arrays)
  BY DEF HookInv, HookTypes
<1>2. \A a \in DOMAIN arrays : arrays[a] \in Seq(Place)
  BY <1>1
<1>3. \A a \in DOMAIN arrays : Len(arrays[a]) \in Nat
  BY <1>2
<1>4. config.hooks \in Seq(Hooks) /\ Len(config.hooks) \in Nat
  <2>1. config.hooks \in Seq(Hooks)
    BY DEF LoggerAssumption, Types, LoggerTypes
  <2> QED
    BY <2>1
<1>5. ASSUME NEW l \in DOMAIN loggers
      PROVE  /\ asked[l] \in Seq(Hooks) /\ family[l] \in Nat
             /\ loggers[l].hooks \in [arr : Nat, len : Nat]
             /\ loggers[l].hooks.arr \in 0..Len(arrays)
  <2>1. /\ l \in DOMAIN asked /\ l \in DOMAIN family
        /\ asked \in Seq(Seq(Hooks)) /\ family \in Seq(Nat)
        /\ loggers[l] \in LoggerType
    <3>1. loggers \in Seq(LoggerType)
      BY DEF Types, LoggerTypes
    <3>2. /\ asked \in Seq(Seq(Hooks)) /\ family \in Seq(Nat)
          /\ Len(asked) = Len(loggers) /\ Len(family) = Len(loggers)
      BY DEF HookInv, HookTypes
    <3> QED
      BY <3>1, <3>2
  <2>2. \A k \in DOMAIN asked : asked[k] \in Seq(Hooks)
    BY <2>1
  <2>3. \A k \in DOMAIN family : family[k] \in Nat
    BY <2>1
  <2>4. loggers[l].hooks \in [arr : Nat, len : Nat]
    BY <2>1 DEF LoggerType
  <2>5. loggers[l].hooks.arr \in 0..Len(arrays)
    BY DEF HookInv, HookSlice
  <2> QED
    BY <2>1, <2>2, <2>3, <2>4, <2>5
<1> QED
  BY <1>1, <1>2, <1>3, <1>4, <1>5

\* A logger whose hooks, if it has some, are in a new array.
LEMMA NewArrayHooks ==
    ASSUME LoggerAssumption, Types, HookInv, NEW new \in LoggerType,
           NEW hooks \in Seq(Hooks), NEW fam \in Nat,
           NEW array \in Seq(Place),
           loggers' = Append(loggers, new), asked' = Append(asked, hooks),
           family' = Append(family, fam), arrays' = Append(arrays, array),
           UNCHANGED config,
           new.hooks.arr = IF Len(hooks) = 0 THEN 0 ELSE Len(arrays) + 1,
           new.hooks.len = Len(hooks), Len(hooks) <= Len(array),
           overwritten \subseteq overwritten',
           overwritten' \subseteq DOMAIN loggers \cup {Len(loggers) + 1},
           Len(loggers) + 1 \notin overwritten' => \A i \in 1..Len(hooks) : array[i] = hooks[i]
    PROVE  Grown(new, hooks, fam)
<1>1. /\ arrays \in Seq(Seq(Place)) /\ Len(arrays) \in Nat \ {0}
      /\ DOMAIN arrays = 1..Len(arrays)
      /\ \A l \in DOMAIN loggers : loggers[l].hooks.arr \in 0..Len(arrays)
  BY HookFacts
<1>2. /\ arrays' \in Seq(Seq(Place)) /\ Len(arrays') = Len(arrays) + 1
      /\ \A a \in DOMAIN arrays : arrays'[a] = arrays[a]
      /\ arrays'[Len(arrays) + 1] = array
  BY <1>1, AppendFacts
<1>3. Len(hooks) \in Nat
  OBVIOUS
<1>4. /\ Len(arrays) <= Len(arrays')
      /\ \A a \in DOMAIN arrays :
           /\ Len(arrays'[a]) = Len(arrays[a])
           /\ \A i \in 1..Len(arrays[a]) : arrays'[a][i] = arrays[a][i]
  BY <1>1, <1>2
<1>5. /\ new.hooks.arr \in 0..Len(arrays') /\ new.hooks.len = Len(hooks)
      /\ new.hooks.arr = 0 => new.hooks.len = 0
      /\ new.hooks.arr # 0 => new.hooks.len # 0
      /\ new.hooks.arr # 0 => arrays'[new.hooks.arr] = array
      /\ new.hooks.arr # 1
  BY <1>1, <1>2, <1>3
<1>6. \A l \in DOMAIN loggers : new.hooks.arr # 0 => loggers[l].hooks.arr # new.hooks.arr
  BY SMTT(40), <1>1
<1>7. Len(loggers) + 1 \notin overwritten'
         => \A i \in 1..new.hooks.len : arrays'[new.hooks.arr][i] = hooks[i]
  BY <1>3, <1>5
<1> QED
  BY <1>2, <1>4, <1>5, <1>6, <1>7 DEF Grown

\* New uses the array of config, where its own hooks still are.
LEMMA NewHooks ==
    ASSUME LoggerAssumption, Types, HookInv, New
    PROVE  \E new, hooks, fam : Grown(new, hooks, fam)
<1> DEFINE new == FromConfig(Slice(config.hooks, 1), Len(buffers))
<1>1. /\ arrays \in Seq(Seq(Place)) /\ Len(arrays) \in Nat \ {0}
      /\ config.hooks \in Seq(Hooks) /\ Len(config.hooks) \in Nat
      /\ Len(config.hooks) <= Len(arrays[1])
      /\ \A i \in 1..Len(config.hooks) : arrays[1][i] = config.hooks[i]
  BY HookFacts DEF HookInv
<1>2. config.async \in BOOLEAN /\ config.writer \in Writers /\ Len(buffers) \in Nat
  BY DEF LoggerAssumption, Types, LoggerTypes, LineTypes
<1>3. /\ Slice(config.hooks, 1) \in [arr : Nat, len : Nat]
      /\ Slice(config.hooks, 1).len = Len(config.hooks)
      /\ Slice(config.hooks, 1).arr = IF Len(config.hooks) = 0 THEN 0 ELSE 1
  BY <1>1 DEF Slice
<1>4. /\ new \in LoggerType /\ new.hooks = Slice(config.hooks, 1)
  BY <1>2, <1>3 DEF FromConfig, LoggerType
<1>5. /\ loggers' = Append(loggers, new)
      /\ asked' = Append(asked, config.hooks) /\ family' = Append(family, 1)
      /\ UNCHANGED <<config, arrays, overwritten>>
  BY DEF New, Made
<1> HIDE DEF new
<1>6. /\ new.hooks.len = Len(config.hooks)
      /\ new.hooks.arr = IF Len(config.hooks) = 0 THEN 0 ELSE 1
  BY <1>3, <1>4
<1>7. \A l \in DOMAIN loggers : loggers[l].hooks.arr = 1 => family[l] = 1
  BY DEF HookInv, HookSlice
<1>8. /\ arrays' \in Seq(Seq(Place)) /\ Len(arrays) <= Len(arrays')
      /\ \A a \in DOMAIN arrays :
           /\ Len(arrays'[a]) = Len(arrays[a])
           /\ \A i \in 1..Len(arrays[a]) : arrays'[a][i] = arrays[a][i]
  BY <1>1, <1>5
<1>9. LET arr == new.hooks.arr
          len == new.hooks.len
      IN /\ arr \in 0..Len(arrays') /\ len = Len(config.hooks)
         /\ arr = 0 => len = 0
         /\ arr # 0 => len # 0 /\ len <= Len(arrays'[arr])
         /\ arr = 1 => Len(config.hooks) <= len
  BY <1>1, <1>5, <1>6
<1>10. \A i \in 1..new.hooks.len : arrays'[new.hooks.arr][i] = config.hooks[i]
  BY SMTT(40), <1>1, <1>5, <1>6
<1>11. \A l \in DOMAIN loggers :
          new.hooks.arr # 0 /\ loggers[l].hooks.arr = new.hooks.arr => family[l] = 1
  BY <1>6, <1>7
<1>111. overwritten \subseteq overwritten' /\ overwritten' \subseteq DOMAIN loggers \cup {Len(loggers) + 1}
  BY <1>5 DEF HookInv, HookTypes
<1>12. Grown(new, config.hooks, 1)
  BY <1>1, <1>4, <1>5, <1>8, <1>9, <1>10, <1>11, <1>111 DEF Grown
<1> QED
  BY <1>12

\* New of a cloned Config uses a new array.
LEMMA NewFromCloneHooks ==
    ASSUME LoggerAssumption, Types, HookInv, NewFromClone
    PROVE  \E new, hooks, fam : Grown(new, hooks, fam)
<1> DEFINE arr == Len(arrays) + 1
           new == FromConfig(Slice(config.hooks, arr), Len(buffers))
<1>1. /\ Len(arrays) \in Nat \ {0} /\ arr \in Nat
      /\ config.hooks \in Seq(Hooks) /\ Len(config.hooks) \in Nat
  BY HookFacts
<1>2. config.hooks \in Seq(Place)
  BY <1>1 DEF Place
<1>3. /\ config.async \in BOOLEAN /\ config.writer \in Writers /\ Len(buffers) \in Nat
      /\ Len(loggers) + 1 \in Nat
  BY DEF LoggerAssumption, Types, LoggerTypes, LineTypes
<1>4. /\ loggers' = Append(loggers, new)
      /\ asked' = Append(asked, config.hooks) /\ family' = Append(family, Len(loggers) + 1)
      /\ arrays' = Append(arrays, config.hooks)
      /\ UNCHANGED <<config, overwritten>>
  BY DEF NewFromClone, Made, ClonedHooks
<1> HIDE DEF arr
<1>5. /\ Slice(config.hooks, arr) \in [arr : Nat, len : Nat]
      /\ Slice(config.hooks, arr).len = Len(config.hooks)
      /\ Slice(config.hooks, arr).arr = IF Len(config.hooks) = 0 THEN 0 ELSE arr
  BY <1>1 DEF Slice
<1>6. new \in LoggerType /\ new.hooks = Slice(config.hooks, arr)
  BY <1>3, <1>5 DEF FromConfig, LoggerType
<1> HIDE DEF new
<1>7. /\ new.hooks.arr = IF Len(config.hooks) = 0 THEN 0 ELSE Len(arrays) + 1
      /\ new.hooks.len = Len(config.hooks) /\ Len(config.hooks) <= Len(config.hooks)
  BY <1>1, <1>5, <1>6 DEF arr
<1> PICK hooks \in Seq(Hooks), fam \in Nat, array \in Seq(Place) :
        hooks = config.hooks /\ fam = Len(loggers) + 1 /\ array = config.hooks
  BY <1>1, <1>2, <1>3
<1>8. \A i \in 1..Len(hooks) : array[i] = hooks[i]
  OBVIOUS
<1>81. overwritten \subseteq overwritten' /\ overwritten' \subseteq DOMAIN loggers \cup {Len(loggers) + 1}
  BY <1>4 DEF HookInv, HookTypes
<1>9. Grown(new, hooks, fam)
  BY <1>4, <1>6, <1>7, <1>8, <1>81, NewArrayHooks
<1> QED
  BY <1>9

\* An array that starts as another one does, with a further hook and room.
LEMMA LongerArray ==
    ASSUME NEW array \in Seq(Place), NEW n \in 0..Len(array), NEW e \in Place,
           NEW room \in Seq(Place), NEW longer,
           longer = Append(SubSeq(array, 1, n), e) \o room
    PROVE  /\ longer \in Seq(Place) /\ n + 1 <= Len(longer)
           /\ \A i \in 1..n : longer[i] = array[i]
           /\ longer[n + 1] = e
<1>0. n \in Nat /\ n <= Len(array)
  OBVIOUS
<1>1. PICK kept : kept = SubSeq(array, 1, n)
  OBVIOUS
<1>2. kept \in Seq(Place) /\ Len(kept) = n /\ \A i \in 1..n : kept[i] = array[i]
  BY <1>0, <1>1
<1>3. PICK more : more = Append(kept, e)
  OBVIOUS
<1>4. /\ more \in Seq(Place) /\ Len(more) = n + 1 /\ more[n + 1] = e
      /\ \A i \in 1..n : more[i] = array[i]
  BY <1>0, <1>2, <1>3
<1>5. longer = more \o room
  BY <1>1, <1>3
<1>6. /\ longer \in Seq(Place) /\ Len(longer) = n + 1 + Len(room) /\ Len(room) \in Nat
      /\ \A i \in 1..(n + 1) : longer[i] = more[i]
  BY <1>0, <1>4, <1>5
<1> QED
  BY <1>0, <1>4, <1>6

\* Places without a hook.
LEMMA EmptyPlaces ==
    ASSUME NEW S, None \in S, NEW n \in Nat
    PROVE  [i \in 1..n |-> None] \in Seq(S) /\ Len([i \in 1..n |-> None]) = n
OBVIOUS

\* The array that is made for a first hook.
LEMMA FirstHook ==
    ASSUME NEW S, NEW h \in S, NEW room \in Seq(S)
    PROVE  /\ <<h>> \o room \in Seq(S) /\ 1 <= Len(<<h>> \o room)
           /\ (<<h>> \o room)[1] = h
OBVIOUS

\* What the three cases of WithHook have in common: the hooks of l are the first len
\* ones of array arr, and the clone has one more.
Hooked(l, h, arr, len, new, hooks) ==
    /\ arr \in 0..Len(arrays) /\ loggers[l].hooks.arr = arr
    /\ arr = 0 => len = 0
    /\ arr # 0 => len # 0 /\ len <= Len(arrays[arr])
    /\ arr = 1 => Len(config.hooks) <= len /\ family[l] = 1
    /\ Len(hooks) = len + 1 /\ hooks[len + 1] = h
    /\ new.hooks.len = len + 1
    /\ new.hooks.arr = IF arr # 0 /\ Len(arrays[arr]) - len > 0 THEN arr ELSE Len(arrays) + 1
    /\ loggers' = Append(loggers, new) /\ asked' = Append(asked, hooks)
    /\ family' = Append(family, family[l]) /\ UNCHANGED config
    /\ overwritten \subseteq overwritten'
    /\ overwritten' \subseteq DOMAIN loggers \cup {Len(loggers) + 1}
    /\ arr # 0 /\ Len(arrays[arr]) - len > 0
          => \A m \in DOMAIN loggers :
                loggers[m].hooks.arr = arr /\ len + 1 <= loggers[m].hooks.len
                   => m \in overwritten'
    /\ Len(loggers) + 1 \notin overwritten' => \A i \in 1..len : arrays[arr][i] = hooks[i]

\* The first hook is in a new array ...
LEMMA WithFirstHook ==
    ASSUME LoggerAssumption, Types, HookInv, NEW l \in DOMAIN loggers, NEW h \in Hooks,
           NEW arr \in Nat, NEW len \in Nat, NEW new \in LoggerType,
           NEW hooks \in Seq(Hooks), Hooked(l, h, arr, len, new, hooks),
           arr = 0, NEW room \in Seq(Place),
           arrays' = Append(arrays, <<h>> \o room)
    PROVE  Grown(new, hooks, family[l])
<1>1. /\ Len(hooks) = 1 /\ hooks[1] = h /\ new.hooks.len = Len(hooks)
      /\ new.hooks.arr = IF Len(hooks) = 0 THEN 0 ELSE Len(arrays) + 1
  BY DEF Hooked
<1>2. h \in Place
  BY DEF Place
<1>3. PICK array \in Seq(Place) : /\ array = <<h>> \o room
                                              /\ 1 <= Len(array) /\ array[1] = h
  BY <1>2, FirstHook
<1>4. PICK fam \in Nat : fam = family[l]
  BY HookFacts
<1>5. /\ loggers' = Append(loggers, new) /\ asked' = Append(asked, hooks)
      /\ family' = Append(family, fam) /\ UNCHANGED config
      /\ arrays' = Append(arrays, array)
  BY <1>3, <1>4 DEF Hooked
<1>6. /\ Len(hooks) <= Len(array) /\ \A i \in 1..Len(hooks) : array[i] = hooks[i]
  BY <1>1, <1>3
<1>61. /\ overwritten \subseteq overwritten'
       /\ overwritten' \subseteq DOMAIN loggers \cup {Len(loggers) + 1}
  BY DEF Hooked
<1>7. Grown(new, hooks, fam)
  BY <1>1, <1>5, <1>6, <1>61, NewArrayHooks
<1> QED
  BY <1>4, <1>7

\* ... a hook that the array has no room for, in a longer copy of it ...
LEMMA WithHookInFull ==
    ASSUME LoggerAssumption, Types, HookInv, NEW l \in DOMAIN loggers, NEW h \in Hooks,
           NEW arr \in Nat, NEW len \in Nat, NEW new \in LoggerType,
           NEW hooks \in Seq(Hooks), Hooked(l, h, arr, len, new, hooks),
           arr # 0, ~(Len(arrays[arr]) - len > 0), NEW room \in Seq(Place),
           arrays' = Append(arrays, Append(SubSeq(arrays[arr], 1, len), h) \o room)
    PROVE  Grown(new, hooks, family[l])
<1>1. /\ Len(hooks) = len + 1 /\ hooks[len + 1] = h /\ new.hooks.len = Len(hooks)
      /\ new.hooks.arr = IF Len(hooks) = 0 THEN 0 ELSE Len(arrays) + 1
      /\ len <= Len(arrays[arr]) /\ arr \in 0..Len(arrays)
  BY SMTT(40) DEF Hooked
<1>2. h \in Place
  BY DEF Place
<1>3. PICK old \in Seq(Place) : old = arrays[arr] /\ len <= Len(old)
  <2>1. arr \in DOMAIN arrays
    BY <1>1, HookFacts
  <2>2. arrays[arr] \in Seq(Place)
    BY <2>1, HookFacts
  <2> QED
    BY <1>1, <2>2
<1>4. PICK array : array = Append(SubSeq(old, 1, len), h) \o room
  OBVIOUS
<1>5. /\ array \in Seq(Place) /\ len + 1 <= Len(array)
      /\ \A i \in 1..len : array[i] = old[i]
      /\ array[len + 1] = h
  <2>1. len \in 0..Len(old)
    BY <1>3
  <2> QED
    BY <1>2, <1>4, <2>1, LongerArray
<1>6. PICK fam \in Nat : fam = family[l]
  BY HookFacts
<1>7. /\ loggers' = Append(loggers, new) /\ asked' = Append(asked, hooks)
      /\ family' = Append(family, fam) /\ UNCHANGED config
      /\ arrays' = Append(arrays, array)
  BY <1>3, <1>4, <1>6 DEF Hooked
<1>8. ASSUME Len(loggers) + 1 \notin overwritten', NEW i \in 1..Len(hooks)
      PROVE  array[i] = hooks[i]
  <2>1. CASE i \in 1..len
    <3>1. arrays[arr][i] = hooks[i]
      BY <1>8, <2>1 DEF Hooked
    <3> QED
      BY <1>3, <1>5, <2>1, <3>1
  <2>2. CASE i = len + 1
    BY <1>1, <1>5, <2>2
  <2> QED
    BY <1>1, <2>1, <2>2
<1>81. /\ overwritten \subseteq overwritten'
       /\ overwritten' \subseteq DOMAIN loggers \cup {Len(loggers) + 1}
  BY DEF Hooked
<1>9. Len(hooks) <= Len(array)
  BY <1>1, <1>5
<1>10. Grown(new, hooks, fam)
  BY <1>1, <1>5, <1>7, <1>8, <1>81, <1>9, NewArrayHooks
<1> QED
  BY <1>6, <1>10

\* ... and one that it has room for, in the array that the family shares.
LEMMA WithHookInRoom ==
    ASSUME LoggerAssumption, Types, HookInv, NEW l \in DOMAIN loggers, NEW h \in Hooks,
           NEW arr \in Nat, NEW len \in Nat, NEW new \in LoggerType,
           NEW hooks \in Seq(Hooks), Hooked(l, h, arr, len, new, hooks),
           arr # 0, Len(arrays[arr]) - len > 0,
           arrays' = [arrays EXCEPT ![arr][len + 1] = h]
    PROVE  Grown(new, hooks, family[l])
<1>1. /\ Len(hooks) = len + 1 /\ hooks[len + 1] = h /\ new.hooks.len = len + 1
      /\ new.hooks.arr = arr /\ arr \in 0..Len(arrays)
  BY DEF Hooked
<1>2. h \in Place
  BY DEF Place
<1>3. /\ arrays \in Seq(Seq(Place)) /\ Len(arrays) \in Nat /\ DOMAIN arrays = 1..Len(arrays)
      /\ arr \in DOMAIN arrays /\ Len(config.hooks) \in Nat
  BY SMTT(40), <1>1, HookFacts
<1>4. PICK old \in Seq(Place) : old = arrays[arr]
  BY <1>3, HookFacts
<1>5. PICK size \in Nat : size = Len(old) /\ DOMAIN old = 1..size
  OBVIOUS
<1>6. PICK n \in Nat : n = len + 1 /\ n \in DOMAIN old
  BY <1>4, <1>5
<1>7. PICK array : array = [old EXCEPT ![n] = h]
  OBVIOUS
<1>8. /\ array \in Seq(Place) /\ Len(array) = Len(old) /\ array[n] = h
      /\ \A i \in DOMAIN old : i # n => array[i] = old[i]
  BY <1>2, <1>6, <1>7, ReplaceFacts
<1>9. arrays' = [arrays EXCEPT ![arr] = array]
  BY <1>4, <1>6, <1>7
<1>10. /\ arrays' \in Seq(Seq(Place)) /\ Len(arrays') = Len(arrays)
       /\ arrays'[arr] = array
       /\ \A a \in DOMAIN arrays : a # arr => arrays'[a] = arrays[a]
  BY SMTT(40), <1>3, <1>8, <1>9, ReplaceFacts
<1>11. PICK own \in Nat : own = Len(config.hooks)
  BY <1>3
<1>12. arr = 1 => own <= len /\ family[l] = 1
  BY <1>11 DEF Hooked
<1>13. ASSUME NEW a \in DOMAIN arrays
       PROVE  /\ Len(arrays'[a]) = Len(arrays[a])
              /\ \A i \in 1..Len(arrays[a]) :
                   \/ arrays'[a][i] = arrays[a][i]
                   \/ /\ a = new.hooks.arr /\ i = new.hooks.len
                      /\ (a = 1 => Len(config.hooks) < i)
                      /\ \A m \in DOMAIN loggers :
                            loggers[m].hooks.arr = a /\ i <= loggers[m].hooks.len
                               => m \in overwritten'
  <2>1. CASE a # arr
    BY <1>10, <2>1
  <2>2. CASE a = arr
    <3>1. Len(arrays'[a]) = Len(arrays[a])
      BY <1>4, <1>8, <1>10, <2>2
    <3>2. ASSUME NEW i \in 1..Len(arrays[a]), i # n
          PROVE  arrays'[a][i] = arrays[a][i]
      BY <1>4, <1>5, <1>8, <1>10, <2>2, <3>2
    <3>3. n = new.hooks.len
      BY <1>1, <1>6
    <3>4. a = 1 => own < n
      BY <1>6, <1>12, <2>2
    <3>5. \A m \in DOMAIN loggers :
             loggers[m].hooks.arr = a /\ n <= loggers[m].hooks.len => m \in overwritten'
      BY <1>6, <2>2 DEF Hooked
    <3> QED
      BY <1>1, <1>11, <2>2, <3>1, <3>2, <3>3, <3>4, <3>5
  <2> QED
    BY <2>1, <2>2
<1>14. ASSUME Len(loggers) + 1 \notin overwritten', NEW i \in 1..new.hooks.len
       PROVE  arrays'[new.hooks.arr][i] = hooks[i]
  <2>1. CASE i = n
    BY <1>1, <1>6, <1>8, <1>10, <2>1
  <2>2. CASE i # n
    <3>1. i \in 1..len /\ i \in DOMAIN old
      BY SMTT(40), <1>1, <1>5, <1>6, <2>2
    <3>2. arrays'[arr][i] = arrays[arr][i]
      BY <1>4, <1>8, <1>10, <2>2, <3>1
    <3>3. arrays[arr][i] = hooks[i]
      BY <1>14, <3>1 DEF Hooked
    <3> QED
      BY <1>1, <3>2, <3>3
  <2> QED
    BY <2>1, <2>2
<1>15. \A m \in DOMAIN loggers : arr # 0 /\ loggers[m].hooks.arr = arr => family[m] = family[l]
  BY DEF HookInv, Hooked
<1>16. /\ len + 1 <= Len(arrays'[arr]) /\ len + 1 # 0 /\ Len(arrays) <= Len(arrays')
       /\ arr \in 0..Len(arrays')
       /\ arr = 1 => Len(config.hooks) <= len + 1 /\ family[l] = 1
  <2>1. len + 1 <= Len(arrays'[arr]) /\ len + 1 # 0
    BY <1>5, <1>6, <1>8, <1>10
  <2>2. Len(arrays) <= Len(arrays') /\ arr \in 0..Len(arrays')
    BY <1>1, <1>3, <1>10
  <2>3. arr = 1 => own <= len + 1 /\ family[l] = 1
    BY <1>12
  <2> QED
    BY <1>11, <2>1, <2>2, <2>3
<1>17. /\ family[l] \in Nat /\ loggers' = Append(loggers, new) /\ asked' = Append(asked, hooks)
       /\ family' = Append(family, family[l]) /\ UNCHANGED config
       /\ overwritten \subseteq overwritten'
       /\ overwritten' \subseteq DOMAIN loggers \cup {Len(loggers) + 1}
  BY HookFacts DEF Hooked
<1>18. /\ new \in LoggerType /\ hooks \in Seq(Hooks) /\ new.hooks.len = len + 1
       /\ arrays' \in Seq(Seq(Place)) /\ new.hooks.len = Len(hooks)
  BY <1>1, <1>10
<1>19. new.hooks.arr = arr
  BY <1>1
<1>20. /\ new.hooks.arr \in 0..Len(arrays') /\ Len(arrays) <= Len(arrays')
       /\ new.hooks.arr = 0 => new.hooks.len = 0
       /\ new.hooks.arr # 0
             => new.hooks.len # 0 /\ new.hooks.len <= Len(arrays'[new.hooks.arr])
       /\ new.hooks.arr = 1 => Len(config.hooks) <= new.hooks.len /\ family[l] = 1
       /\ \A m \in DOMAIN loggers :
             new.hooks.arr # 0 /\ loggers[m].hooks.arr = new.hooks.arr
                => family[m] = family[l]
  BY <1>15, <1>16, <1>18, <1>19
<1>21. \A a \in DOMAIN arrays :
          /\ Len(arrays'[a]) = Len(arrays[a])
          /\ \A i \in 1..Len(arrays[a]) :
               \/ arrays'[a][i] = arrays[a][i]
               \/ /\ a = new.hooks.arr /\ i = new.hooks.len
                  /\ (a = 1 => Len(config.hooks) < i)
                  /\ \A m \in DOMAIN loggers :
                        loggers[m].hooks.arr = a /\ i <= loggers[m].hooks.len
                           => m \in overwritten'
  BY <1>13
<1>22. Len(loggers) + 1 \notin overwritten'
          => \A i \in 1..new.hooks.len : arrays'[new.hooks.arr][i] = hooks[i]
  BY <1>14
<1> QED
  BY ZenonT(40), <1>17, <1>18, <1>20, <1>21, <1>22 DEF Grown

\* WithHook is one of the three.
LEMMA WithHookHooks ==
    ASSUME LoggerAssumption, Types, HookInv, NEW l \in DOMAIN loggers, NEW h \in Hooks,
           WithHook(l, h)
    PROVE  \E new, hooks, fam : Grown(new, hooks, fam)
<1>1. PICK arr \in Nat, len \in Nat : loggers[l].hooks = [arr |-> arr, len |-> len]
  BY HookFacts
<1>2. loggers[l].hooks.arr = arr /\ loggers[l].hooks.len = len
  BY <1>1
<1>3. PICK lg \in LoggerType : lg = loggers[l]
  BY DEF Types, LoggerTypes
<1>4. PICK before \in Seq(Hooks) : before = asked[l]
  BY HookFacts
<1>5. PICK hooks \in Seq(Hooks) : hooks = Append(before, h)
  <2>1. Append(before, h) \in Seq(Hooks)
    OBVIOUS
  <2> QED
    BY <2>1
<1>6. /\ arr \in 0..Len(arrays) /\ len = Len(before)
      /\ arr = 0 => len = 0
      /\ arr # 0 => len # 0 /\ len <= Len(arrays[arr])
      /\ arr = 1 => Len(config.hooks) <= len /\ family[l] = 1
  BY <1>2, <1>4 DEF HookInv, HookSlice
<1>7. Len(hooks) = len + 1 /\ hooks[len + 1] = h
  BY <1>5, <1>6
<1>8. PICK narr \in Nat :
         narr = IF arr # 0 /\ Len(arrays[arr]) - len > 0 THEN arr ELSE Len(arrays) + 1
  <2>1. Len(arrays) + 1 \in Nat
    BY HookFacts
  <2> QED
    BY <2>1
<1>9. Room(loggers[l].hooks) > 0 <=> (arr # 0 /\ Len(arrays[arr]) - len > 0)
  BY <1>2, <1>6, HookFacts DEF Room
<1>10. PICK slice \in [arr : Nat, len : Nat] : slice = [arr |-> narr, len |-> len + 1]
  <2>1. [arr |-> narr, len |-> len + 1] \in [arr : Nat, len : Nat]
    OBVIOUS
  <2> QED
    BY <2>1
<1>11. slice.arr = narr /\ slice.len = len + 1
  BY <1>10
<1>12. PICK new \in LoggerType : new = [lg EXCEPT !.hooks = slice] /\ new.hooks = slice
  <2>1. /\ [lg EXCEPT !.hooks = slice] \in LoggerType
        /\ [lg EXCEPT !.hooks = slice].hooks = slice
    BY DEF LoggerType
  <2> QED
    BY <2>1
<1>13. /\ loggers' = Append(loggers, new) /\ asked' = Append(asked, hooks)
       /\ family' = Append(family, family[l]) /\ UNCHANGED config
  <2>1. Clone(l, [loggers[l] EXCEPT !.hooks = slice], Append(asked[l], h), l \in rewired)
    BY <1>2, <1>8, <1>9, <1>10 DEF WithHook
  <2> QED
    BY <1>3, <1>4, <1>5, <1>12, <2>1 DEF Clone
<1>14. overwritten' = Joined(overwritten, l \in overwritten) \cup Overwrites(l)
  BY DEF WithHook
<1>141. /\ overwritten \subseteq overwritten'
        /\ overwritten' \subseteq DOMAIN loggers \cup {Len(loggers) + 1}
        /\ Len(loggers) + 1 \notin overwritten' => l \notin overwritten
  BY <1>14 DEF Joined, Overwrites, HookInv, HookTypes
<1>142. ASSUME l \notin overwritten, NEW i \in 1..len PROVE arrays[arr][i] = hooks[i]
  <2>1. i \in DOMAIN before /\ hooks[i] = before[i]
    BY <1>5, <1>6
  <2>2. arrays[loggers[l].hooks.arr][i] = asked[l][i]
    BY <1>4, <1>142, <2>1 DEF HookInv, HooksAsAsked
  <2> QED
    BY <1>2, <1>4, <2>1, <2>2
<1>143. ASSUME arr # 0, Len(arrays[arr]) - len > 0, NEW m \in DOMAIN loggers,
               loggers[m].hooks.arr = arr, len + 1 <= loggers[m].hooks.len
        PROVE  m \in overwritten'
  <2>1. family[m] = family[l]
    BY <1>2, <1>143 DEF HookInv
  <2>2. loggers[m].hooks.len > len
    <3>1. loggers[m].hooks.len \in Nat
      BY HookFacts
    <3> QED
      BY <1>143, <3>1
  <2>3. m \in Overwrites(l)
    BY <1>2, <1>9, <1>143, <2>1, <2>2 DEF Overwrites
  <2> QED
    BY <1>14, <2>3
<1>15. Hooked(l, h, arr, len, new, hooks)
  <2>1. Len(loggers) + 1 \notin overwritten' => \A i \in 1..len : arrays[arr][i] = hooks[i]
    BY <1>141, <1>142
  <2> QED
    BY <1>2, <1>6, <1>7, <1>8, <1>11, <1>12, <1>13, <1>141, <1>143, <2>1 DEF Hooked
<1>16. None \in Place /\ h \in Place
  BY DEF Place
<1>17. CASE arr = 0
  <2>1. PICK room \in Seq(Place) : room = [i \in 1..(HookCapacity - 1) |-> None]
    <3>1. HookCapacity - 1 \in Nat
      BY DEF LoggerAssumption
    <3> QED
      BY <1>16, <3>1, EmptyPlaces
  <2>2. arrays' = Append(arrays, <<h>> \o room)
    BY <1>2, <1>17, <2>1 DEF WithHook
  <2> QED
    BY <1>15, <1>17, <2>2, WithFirstHook
<1>18. CASE arr # 0 /\ ~(Len(arrays[arr]) - len > 0)
  <2>1. PICK room \in Seq(Place) : room = [i \in 1..(len - 1) |-> None]
    <3>1. len - 1 \in Nat
      BY <1>6, <1>18
    <3> QED
      BY <1>16, <3>1, EmptyPlaces
  <2>2. arrays' = Append(arrays, Append(SubSeq(arrays[arr], 1, len), h) \o room)
    BY <1>2, <1>9, <1>18, <2>1 DEF WithHook, Kept
  <2> QED
    BY <1>15, <1>18, <2>2, WithHookInFull
<1>19. CASE arr # 0 /\ Len(arrays[arr]) - len > 0
  <2>1. arrays' = [arrays EXCEPT ![arr][len + 1] = h]
    BY <1>2, <1>9, <1>19 DEF WithHook
  <2> QED
    BY <1>15, <1>19, <2>1, WithHookInRoom
<1> QED
  BY <1>17, <1>18, <1>19

\* The other ways to clone a logger keep its hooks.
LEMMA CloneHooks ==
    ASSUME LoggerAssumption, Types, HookInv, NEW l \in DOMAIN loggers,
           \/ WithOption(l)
           \/ \E w \in Writers : WithWriter(l, w)
           \/ \E enabled \in BOOLEAN : WithAsync(l, enabled)
    PROVE  \E new, hooks, fam : Grown(new, hooks, fam)
<1> PICK lg \in LoggerType, n \in Nat : lg = loggers[l] /\ n = Len(buffers) + 1
  BY DEF Types, LoggerTypes, LineTypes
<1>1. ASSUME NEW new \in LoggerType, new.hooks = lg.hooks, NEW isRewired,
             Clone(l, new, asked[l], isRewired), SameHooksAs(l)
      PROVE  \E x, hooks, fam : Grown(x, hooks, fam)
  <2>1. /\ loggers' = Append(loggers, new) /\ asked' = Append(asked, asked[l])
        /\ family' = Append(family, family[l]) /\ UNCHANGED <<config, arrays>>
        /\ overwritten' = Joined(overwritten, l \in overwritten)
    BY <1>1 DEF Clone, SameHooksAs
  <2>2. Grown(new, asked[l], family[l])
    BY <1>1, <2>1, SameHooks
  <2> QED
    BY <2>2
<1>2. CASE WithOption(l)
  <2>1. Clone(l, lg, asked[l], l \in rewired) /\ SameHooksAs(l)
    BY <1>2 DEF WithOption
  <2> QED
    BY <1>1, <2>1
<1>3. ASSUME NEW w \in Writers, WithWriter(l, w)
      PROVE  \E new, hooks, fam : Grown(new, hooks, fam)
  <2>1. CASE NeedsBuffer(l)
    <3> DEFINE new == [lg EXCEPT !.writer = w, !.buf = n]
    <3>1. new \in LoggerType /\ new.hooks = lg.hooks
      BY DEF LoggerType
    <3>2. Clone(l, new, asked[l], FALSE) /\ SameHooksAs(l)
      BY <1>3, <2>1 DEF WithWriter
    <3> HIDE DEF new
    <3> QED
      BY <1>1, <3>1, <3>2
  <2>2. CASE ~NeedsBuffer(l)
    <3> DEFINE new == [lg EXCEPT !.writer = w]
    <3>1. new \in LoggerType /\ new.hooks = lg.hooks
      BY DEF LoggerType
    <3>2. /\ Clone(l, new, asked[l], loggers[l].buf # 0 /\ ~loggers[l].async)
          /\ SameHooksAs(l)
      BY <1>3, <2>2 DEF WithWriter
    <3> HIDE DEF new
    <3> QED
      BY <1>1, <3>1, <3>2
  <2> QED
    BY <2>1, <2>2
<1>4. ASSUME NEW enabled \in BOOLEAN, WithAsync(l, enabled)
      PROVE  \E new, hooks, fam : Grown(new, hooks, fam)
  <2> DEFINE create == enabled /\ loggers[l].buf = 0
  <2> PICK c \in BOOLEAN : c <=> create
    OBVIOUS
  <2> DEFINE new == [lg EXCEPT !.async = enabled, !.buf = IF c THEN n ELSE @]
  <2>1. new \in LoggerType /\ new.hooks = lg.hooks
    <3> HIDE DEF create
    <3> QED
      BY DEF LoggerType
  <2>2. Clone(l, new, asked[l], ~create /\ l \in rewired) /\ SameHooksAs(l)
    BY <1>4 DEF WithAsync
  <2> HIDE DEF new, create
  <2> QED
    BY <1>1, <2>1, <2>2
<1> QED
  BY <1>2, <1>3, <1>4

\* The other actions leave the hooks alone.
LEMMA KeptHooks ==
    ASSUME Types, HookInv, UNCHANGED <<config, hookVars>>,
           loggers' \in Seq(LoggerType), Len(loggers') = Len(loggers),
           \A l \in DOMAIN loggers : loggers'[l].hooks = loggers[l].hooks
    PROVE  HookInv'
<1>0. UNCHANGED <<config, arrays, asked, family, overwritten>>
  BY DEF hookVars
<1>1. DOMAIN loggers' = DOMAIN loggers
  BY DEF Types, LoggerTypes
<1>2. HookTypes'
  BY <1>0, <1>1 DEF HookInv, HookTypes
<1>3. \A l \in DOMAIN loggers' : HookSlice(l)'
  BY <1>0, <1>1 DEF HookInv, HookSlice
<1>4. HooksAsAsked'
  BY <1>0, <1>1 DEF HookInv, HooksAsAsked
<1> QED
  BY <1>0, <1>1, <1>2, <1>3, <1>4 DEF HookInv

\* A change of a logger's other fields.
LEMMA ReplacedHooks ==
    ASSUME Types, HookInv, UNCHANGED <<config, hookVars>>,
           NEW l \in DOMAIN loggers, NEW new \in LoggerType, new.hooks = loggers[l].hooks,
           loggers' = [loggers EXCEPT ![l] = new]
    PROVE  HookInv'
<1>1. loggers \in Seq(LoggerType)
  BY DEF Types, LoggerTypes
<1>2. /\ loggers' \in Seq(LoggerType) /\ Len(loggers') = Len(loggers)
      /\ loggers'[l] = new
      /\ \A m \in DOMAIN loggers : m # l => loggers'[m] = loggers[m]
  BY <1>1, ReplaceFacts
<1>3. \A m \in DOMAIN loggers : loggers'[m].hooks = loggers[m].hooks
  BY <1>2
<1> QED
  BY <1>2, <1>3, KeptHooks

\* SetWriter and SetAsync change other fields.
LEMMA DefaultHooks ==
    ASSUME Types, HookInv,
           \/ \E w \in Writers : SetWriter(w)
           \/ \E p \in Procs : \E enabled \in BOOLEAN : SetAsync(p, enabled)
    PROVE  HookInv'
<1>1. PICK lg \in LoggerType : lg = loggers[default] /\ default \in DOMAIN loggers
  BY DEF Types, LoggerTypes
<1>2. ASSUME NEW w \in Writers, SetWriter(w) PROVE HookInv'
  <2>1. PICK new \in LoggerType : new = [lg EXCEPT !.writer = w] /\ new.hooks = lg.hooks
    <3>1. [lg EXCEPT !.writer = w] \in LoggerType /\ [lg EXCEPT !.writer = w].hooks = lg.hooks
      BY DEF LoggerType
    <3> QED
      BY <3>1
  <2>2. /\ loggers' = [loggers EXCEPT ![default] = new]
        /\ UNCHANGED <<config, hookVars>>
    BY <1>1, <1>2, <2>1 DEF SetWriter
  <2> QED
    BY <1>1, <2>1, <2>2, ReplacedHooks
<1>3. ASSUME NEW p \in Procs, NEW enabled \in BOOLEAN, SetAsync(p, enabled) PROVE HookInv'
  <2>1. PICK new \in LoggerType : new = [lg EXCEPT !.async = enabled] /\ new.hooks = lg.hooks
    <3>1. /\ [lg EXCEPT !.async = enabled] \in LoggerType
          /\ [lg EXCEPT !.async = enabled].hooks = lg.hooks
      BY DEF LoggerType
    <3> QED
      BY <3>1
  <2>2. /\ loggers' = [loggers EXCEPT ![default] = new]
        /\ UNCHANGED <<config, hookVars>>
    BY <1>1, <1>3, <2>1 DEF SetAsync
  <2> QED
    BY <1>1, <2>1, <2>2, ReplacedHooks
<1> QED
  BY <1>2, <1>3

--------------------------------------------------------------------------------
(* The theorems.                                                            *)

Inv == Types /\ WriterInv /\ OwnerInv /\ HookInv

\* The invariant holds in the state after New, and is kept by every step.
LEMMA InitInv ==
    ASSUME LoggerAssumption, Init
    PROVE  Inv
<1>1. /\ config \in Configs /\ config.async \in BOOLEAN /\ config.writer \in Writers
      /\ config.hooks \in Seq(Hooks) /\ config.room \in Nat
  BY DEF Init, LoggerAssumption
<1>2. PICK own \in Seq(Hooks) : own = config.hooks
  BY <1>1
<1>3. PICK slice \in [arr : Nat, len : Nat] :
         /\ slice = Slice(own, 1)
         /\ slice.arr = IF Len(own) = 0 THEN 0 ELSE 1
         /\ slice.len = Len(own)
  <2>1. /\ Slice(own, 1) \in [arr : Nat, len : Nat]
        /\ Slice(own, 1).arr = IF Len(own) = 0 THEN 0 ELSE 1
        /\ Slice(own, 1).len = Len(own)
    BY DEF Slice
  <2> QED
    BY <2>1
<1>4. PICK first \in LoggerType :
         /\ first = FromConfig(slice, 0) /\ first.hooks = slice
         /\ first.buf = IF config.async THEN 1 ELSE 0
         /\ first.writer = config.writer
  <2>1. /\ FromConfig(slice, 0) \in LoggerType /\ FromConfig(slice, 0).hooks = slice
        /\ FromConfig(slice, 0).buf = IF config.async THEN 1 ELSE 0
        /\ FromConfig(slice, 0).writer = config.writer
    BY <1>1 DEF FromConfig, LoggerType
  <2> QED
    BY <2>1
<1>5. /\ loggers = <<first>> /\ default = 1 /\ rewired = {} /\ raced = FALSE
      /\ overwritten = {} /\ crossed = {}
      /\ lines = <<>> /\ asked = <<own>> /\ family = <<1>>
  BY <1>2, <1>3, <1>4 DEF Init
<1>6. /\ loggers \in Seq(LoggerType) /\ DOMAIN loggers = {1} /\ Len(loggers) = 1
      /\ loggers[1] = first
  BY <1>5
<1>7. /\ buffers \in Seq(BufferType)
      /\ Len(buffers) = IF config.async THEN 1 ELSE 0
      /\ DOMAIN buffers = IF config.async THEN {1} ELSE {}
      /\ \A b \in DOMAIN buffers : /\ DOMAIN buffers[b].pending = {}
                                   /\ buffers[b].writer = config.writer
  <2>1. /\ NewBuffer(config.writer) \in BufferType
        /\ NewBuffer(config.writer).writer = config.writer
        /\ NewBuffer(config.writer).pending = <<>>
    BY <1>1, NewBufferType
  <2>2. buffers = IF config.async THEN <<NewBuffer(config.writer)>> ELSE <<>>
    BY DEF Init, BufferOfConfig
  <2>3. DOMAIN <<>> = {}
    OBVIOUS
  <2> QED
    BY <2>1, <2>2, <2>3
<1>8. \A p \in Procs : pc[p] = "idle"
  BY DEF Init
<1>9. Types
  <2>1. LoggerTypes
    BY <1>1, <1>4, <1>5, <1>6, <1>7 DEF LoggerTypes
  <2>2. LineTypes
    BY <1>5, <1>7 DEF LineTypes
  <2>3. ProcTypes
    BY <1>5, <1>8 DEF Init, ProcTypes, Calling, Storing
  <2> QED
    BY <2>1, <2>2, <2>3 DEF Types
<1>10. WriterInv
  <2>1. OwnWriter
    BY <1>5 DEF OwnWriter
  <2> QED
    BY <1>4, <1>6, <1>7, <1>8, <2>1 DEF WriterInv, Calling, Storing
<1>11. OwnerInv
  BY <1>4, <1>6, <1>7, <1>8 DEF OwnerInv, Owned, Setting, Storing
<1>12. HookInv
  <2>1. PICK room \in Seq(Place) : room = [i \in 1..config.room |-> None]
    <3>1. None \in Place
      BY DEF Place
    <3> QED
      BY <1>1, <3>1, EmptyPlaces
  <2>2. PICK array \in Seq(Place) :
           /\ array = own \o room /\ Len(own) <= Len(array)
           /\ \A i \in 1..Len(own) : array[i] = own[i]
    <3>1. own \in Seq(Place)
      BY DEF Place
    <3>2. /\ own \o room \in Seq(Place) /\ Len(own) <= Len(own \o room)
          /\ \A i \in 1..Len(own) : (own \o room)[i] = own[i]
      BY <3>1
    <3> QED
      BY <3>2
  <2>3. /\ arrays = <<array>> /\ arrays \in Seq(Seq(Place)) /\ Len(arrays) = 1
        /\ arrays[1] = array /\ DOMAIN arrays = {1}
    BY SMTT(40), <1>2, <2>1, <2>2 DEF Init
  <2>4. /\ asked \in Seq(Seq(Hooks)) /\ Len(asked) = 1 /\ asked[1] = own
        /\ family \in Seq(Nat) /\ Len(family) = 1 /\ family[1] = 1
    BY <1>5
  <2>5. HookTypes
    BY <1>5, <1>6, <2>3, <2>4 DEF HookTypes
  <2>6. HookSlice(1)
    BY <1>2, <1>3, <1>4, <1>6, <2>2, <2>3, <2>4 DEF HookSlice
  <2>7. HooksAsAsked
    <3>1. first.hooks.len = Len(own)
      BY <1>3, <1>4
    <3>2. ASSUME NEW i \in DOMAIN own PROVE arrays[first.hooks.arr][i] = own[i]
      BY SMTT(40), <1>3, <1>4, <2>2, <2>3, <3>2
    <3> QED
      BY <1>6, <2>4, <3>1, <3>2 DEF HooksAsAsked
  <2> QED
    BY <1>2, <1>6, <2>2, <2>3, <2>5, <2>6, <2>7 DEF HookInv
<1> QED
  BY <1>9, <1>10, <1>11, <1>12 DEF Inv

\* One step of the proof per action, or per kind of action above.
LEMMA NextInv ==
    ASSUME LoggerAssumption, Inv, [Next]_vars
    PROVE  Inv'
<1> USE DEF Inv
<1>1. ASSUME \/ New \/ NewFromClone
             \/ \E l \in DOMAIN loggers :
                  \/ WithOption(l)
                  \/ \E w \in Writers : WithWriter(l, w)
                  \/ \E enabled \in BOOLEAN : WithAsync(l, enabled)
                  \/ \E h \in Hooks : WithHook(l, h)
      PROVE  Inv'
  <2>1. arrays \in Seq(Seq(Place))
    BY HookFacts
  <2>2. PICK new : Appended(new)
    BY <1>1, <2>1, Makes
  <2>3. Types' /\ WriterInv' /\ OwnerInv'
    BY <2>2, AppendedTypes, AppendedWriters, AppendedOwners
  <2>4. PICK x, hooks, fam : Grown(x, hooks, fam)
    BY <1>1, NewHooks, NewFromCloneHooks, CloneHooks, WithHookHooks
  <2> QED
    BY <2>3, <2>4, GrownHooks
<1>2. ASSUME NEW l \in DOMAIN loggers, SetDefaultLogger(l) PROVE Inv'
  <2>1. HookInv'
    BY <1>2, KeptHooks DEF SetDefaultLogger, Types, LoggerTypes
  <2> QED
    BY <1>2, <2>1, SetDefaultLoggerStep
<1>3. ASSUME NEW w \in Writers, SetWriter(w) PROVE Inv'
  BY <1>3, SetWriterStep, DefaultHooks
<1>4. ASSUME NEW p \in Procs, NEW enabled \in BOOLEAN, SetAsync(p, enabled) PROVE Inv'
  BY <1>4, SetAsyncStep, DefaultHooks
<1>5. ASSUME NEW p \in Procs, SetAsyncStore(p) PROVE Inv'
  <2>1. UNCHANGED <<config, hookVars>>
    BY <1>5 DEF SetAsyncStore
  <2> QED
    BY <1>5, <2>1, SetAsyncStoreStep, ReplacedHooks
\* The remaining actions leave the loggers alone.
<1>6. ASSUME UNCHANGED loggerVars PROVE HookInv'
  <2>1. /\ UNCHANGED <<config, hookVars, loggers>>
        /\ loggers \in Seq(LoggerType)
    BY <1>6 DEF loggerVars, Types, LoggerTypes
  <2> QED
    BY <2>1, KeptHooks
<1>7. ASSUME NEW p \in Procs, SetAsyncCheck(p) PROVE Inv'
  BY <1>6, <1>7, SetAsyncCheckStep DEF SetAsyncCheck
<1>71. ASSUME NEW p \in Procs, SetAsyncCreate(p) PROVE Inv'
  BY <1>6, <1>71, SetAsyncCreateStep DEF SetAsyncCreate
<1>8. ASSUME NEW p \in Procs, NEW l \in DOMAIN loggers, NEW f \in BOOLEAN, Log(p, l, f)
      PROVE  Inv'
  BY <1>6, <1>8, LogStep DEF Log
<1>9. ASSUME NEW p \in Procs, WriteAsync(p) PROVE Inv'
  BY <1>6, <1>9, WriteAsyncStep DEF WriteAsync
<1>10. ASSUME NEW b \in DOMAIN buffers, Worker(b) PROVE Inv'
  BY <1>6, <1>10, FlushStep DEF Worker, Flush, FinalFlush
<1>11. ASSUME NEW p \in Procs, NEW l \in DOMAIN loggers, Close(p, l) PROVE Inv'
  BY <1>6, <1>11, CloseStep DEF Close
<1>12. ASSUME NEW p \in Procs, CloseReturn(p) \/ Exit(p) PROVE Inv'
  BY <1>6, <1>12, EndStep DEF CloseReturn, Exit
<1>13. ASSUME UNCHANGED vars PROVE Inv'
  BY <1>6, <1>13, StutterStep DEF vars
<1> HIDE DEF Inv
<1> QED
  BY <1>1, <1>2, <1>3, <1>4, <1>5, <1>7, <1>71, <1>8, <1>9, <1>10, <1>11, <1>12, <1>13 DEF Next

\* The inductive invariant: types, writers, owners and hooks.
THEOREM Invariance == Spec => []Inv
<1>1. Init => Inv
  BY LoggerAssumption, InitInv
<1>2. Inv /\ [Next]_vars => Inv'
  BY LoggerAssumption, NextInv
<1> QED
  BY <1>1, <1>2, PTL DEF Spec

\* Types, and what the arguments of each step are.
THEOREM TypesTheorem == Spec => []Types
<1>1. Inv => Types
  BY DEF Inv
<1> QED
  BY <1>1, Invariance, PTL

\* A line goes to the writer of the logger it was written with, unless the logger was
\* given a writer under its buffer or during its making, or another one's buffer.
THEOREM OwnWriterTheorem == Spec => []OwnWriter
<1>1. Inv => OwnWriter
  BY DEF Inv, WriterInv
<1> QED
  BY <1>1, Invariance, PTL

\* Every worker can be stopped, unless SetAsync met another one, or SetDefaultLogger.
THEOREM NoOrphanBufferTheorem == Spec => []NoOrphanBuffer
<1>1. Inv => NoOrphanBuffer
  BY DEF Inv, OwnerInv, Owned, Storing, NoOrphanBuffer
<1> QED
  BY <1>1, Invariance, PTL

\* A logger runs the hooks it was given, unless a clone of its family was given one in
\* place of one of them.
THEOREM HooksAsAskedTheorem == Spec => []HooksAsAsked
<1>1. Inv => HooksAsAsked
  BY DEF Inv, HookInv
<1> QED
  BY <1>1, Invariance, PTL

================================================================================
