----------------------------- MODULE SamplersProofs -----------------------------
(***************************************************************************)
(* Theorems about the samplers, for any number of goroutines, all rates    *)
(* and all thresholds: how many entries they sample, that the volumes of   *)
(* the windows add up, and that the rate replays them.                     *)
(***************************************************************************)
EXTENDS Samplers, RecursionLemmas

USE DEF Goto, vars, samplerVars, keyVars, procVars, multiVars

--------------------------------------------------------------------------------
(* Arithmetic.                                                              *)

LEMMA UniqueQuotient ==
    ASSUME NEW n \in Nat \ {0}, NEW a \in Int, NEW b \in Int,
           NEW r \in 0..(n - 1), NEW s \in 0..(n - 1), n * a + r = n * b + s
    PROVE  a = b /\ r = s
<1>1. ASSUME NEW x \in Int, NEW y \in Int, x > y PROVE n * x >= n * y + n
  <2>1. x - y - 1 \in Nat /\ n * (x - y - 1) >= 0
    BY <1>1
  <2>2. n * (x - y - 1) = n * x - n * y - n
    OBVIOUS
  <2> QED
    BY <2>1, <2>2
<1>2. ~(a > b) /\ ~(b > a)
  BY <1>1
<1> QED
  BY <1>2

\* The counter c of a sampler of rate n: how many of the first c entries it samples.
LEMMA OneMore ==
    ASSUME NEW c \in Nat, NEW n \in Nat \ {0}
    PROVE  /\ c \div n \in 0..c
           /\ (c + 1) \div n = IF Passes(c + 1, n) THEN (c \div n) + 1 ELSE c \div n
           /\ 0 \div n = 0
<1>1. ASSUME NEW x \in Nat
      PROVE  x = n * (x \div n) + (x % n) /\ x \div n \in Nat /\ x % n \in 0..(n - 1)
  OBVIOUS
<1>a. ASSUME NEW a \in Int, NEW r \in 0..(n - 1), c + 1 = n * a + r
      PROVE  (c + 1) \div n = a /\ (c + 1) % n = r
  <2>1. c + 1 \in Nat
    OBVIOUS
  <2>2. /\ n * ((c + 1) \div n) + ((c + 1) % n) = n * a + r
        /\ (c + 1) \div n \in Int /\ (c + 1) % n \in 0..(n - 1)
    BY <1>1, <1>a, <2>1
  <2> QED
    BY <2>2, UniqueQuotient
<1>b. PICK q \in Nat, r \in 0..(n - 1) : q = c \div n /\ c = n * q + r
  BY <1>1
<1>2. ASSUME r + 1 < n PROVE (c + 1) \div n = q /\ ~Passes(c + 1, n)
  <2>1. c + 1 = n * q + (r + 1) /\ r + 1 \in 0..(n - 1) /\ r + 1 # 0
    BY <1>b, <1>2
  <2>2. (c + 1) \div n = q /\ (c + 1) % n = r + 1
    BY <1>a, <2>1
  <2> QED
    BY <2>1, <2>2 DEF Passes
<1>3. ASSUME r + 1 = n PROVE (c + 1) \div n = q + 1 /\ Passes(c + 1, n)
  <2>1. c + 1 = n * (q + 1) + 0 /\ 0 \in 0..(n - 1) /\ q + 1 \in Int
    BY <1>b, <1>3
  <2>2. (c + 1) \div n = q + 1 /\ (c + 1) % n = 0
    BY <1>a, <2>1
  <2> QED
    BY <2>2 DEF Passes
<1>4. (c + 1) \div n = IF Passes(c + 1, n) THEN (c \div n) + 1 ELSE c \div n
  <2>1. r + 1 < n \/ r + 1 = n
    OBVIOUS
  <2> QED
    BY <1>b, <1>2, <1>3, <2>1
<1>5. c \div n \in 0..c
  <2>1. n * (c \div n) >= c \div n
    BY <1>1
  <2> QED
    BY <1>1, <2>1
<1>6. 0 \div n = 0
  BY <1>1
<1> QED
  BY <1>4, <1>5, <1>6

--------------------------------------------------------------------------------
(* Types.                                                                   *)

Labels == {"idle", "clock", "window", "adjust", "adjusting", "rate", "count", "first",
           "second"}

\* Where goroutines can be in Sample of each kind of sampler.
Route ==
    \A p \in Procs :
        \/ pc[p] = "idle"
        \/ sampler = "rate" /\ pc[p] = "count"
        \/ Windowed /\ pc[p] \in Labels \ {"first", "second"}
        \/ sampler \in {"and", "or"} /\ pc[p] \in {"first", "second"}

\* TypeOK without the bounds of the counters.
Types ==
    /\ sampler \in {"rate", "adaptive", "spike", "key", "and", "or"}
    /\ counter \in Nat /\ counter2 \in Nat /\ passed \in Nat
    /\ hashes \subseteq Nat
    /\ decisions \in [Values -> SUBSET BOOLEAN]
    /\ rate \in Nat \ {0} /\ volume \in 0..MaxCalls
    /\ now \in 0..MaxTime /\ lastReset \in 0..now
    /\ lock \in Procs \cup {None}
    /\ pc \in [Procs -> Labels]
    /\ clock \in [Procs -> 0..now] /\ closing \in [Procs -> 0..MaxCalls]
    /\ myRate \in [Procs -> Nat \ {0}]
    /\ calls \in 0..MaxCalls /\ volume <= calls
    /\ closed \in Seq(0..MaxCalls)

LEMMA RatesAre ==
    /\ Rates \subseteq Nat \ {0}
    /\ BaseRate \in Rates /\ MaxRate \in Rates
BY SamplersAssumption DEF Rates, Smaller, Larger

\* The new rate of a window is between the bounds.
LEMMA NewRateBounded ==
    ASSUME NEW r \in Rates, NEW v \in Nat
    PROVE  NewRate(r, v) \in Rates
<1>1. r \in Nat \ {0} /\ BaseRate \in Rates /\ MaxRate \in Rates
  BY RatesAre
<1>2. Doubled(r) \in Rates
  <2>1. Smaller(BaseRate, MaxRate) <= r /\ Smaller(BaseRate, MaxRate) <= MaxRate
    BY SamplersAssumption DEF Rates, Smaller, Larger
  <2> QED
    BY <1>1, <2>1, SamplersAssumption DEF Doubled, Rates, Smaller, Larger
<1>3. Decayed(r) \in Rates
  <2>1. Decay \in 1..9
    BY SamplersAssumption
  <2>2. r * Decay <= r * 10 /\ r * Decay \in Nat
    BY <1>1, <2>1
  <2>3. (r * Decay) \div 10 <= r /\ (r * Decay) \div 10 \in Int
    BY <1>1, <2>2
  <2> QED
    BY <1>1, <2>3, SamplersAssumption DEF Decayed, Rates, Smaller, Larger
<1> QED
  BY <1>1, <1>2, <1>3 DEF NewRate

\* The rate is between its bounds wherever it is read, and a sampler without windows
\* keeps it.
RateInv ==
    /\ rate \in Rates
    /\ \A p \in Procs : pc[p] = "count" => myRate[p] \in Rates
    /\ ~Windowed => rate = BaseRate
    /\ ~Windowed => \A p \in Procs : pc[p] = "count" => myRate[p] = BaseRate

LEMMA TypesInductive ==
    Types /\ Route /\ RateInv /\ [Next]_vars => Types' /\ RateInv'
<1> SUFFICES ASSUME Types, Route, RateInv, [Next]_vars PROVE Types' /\ RateInv'
  OBVIOUS
<1> USE SamplersAssumption DEF Types, Route, RateInv, Labels
<1>1. CASE Tick
  BY <1>1 DEF Tick, Windowed
<1>2. ASSUME NEW p \in Procs, Start(p) PROVE Types' /\ RateInv'
  <2>1. CASE sampler = "rate"
    <3>1. myRate' = [myRate EXCEPT ![p] = rate] /\ pc' = [pc EXCEPT ![p] = "count"]
      BY <1>2, <2>1 DEF Start
    <3>2. calls < MaxCalls /\ calls' = calls + 1 /\ UNCHANGED volume
      BY <1>2, <2>1 DEF Start
    <3>3. UNCHANGED <<sampler, multiVars, rate, counter, lastReset, lock, now, clock, closing,
                      closed, passed>>
      BY <1>2 DEF Start
    <3> QED
      BY <2>1, <3>1, <3>2, <3>3 DEF Windowed
  <2>2. CASE sampler # "rate"
    <3>1. pc' = [pc EXCEPT ![p] = "clock"] /\ UNCHANGED myRate
      BY <1>2, <2>2 DEF Start
    <3>2. calls < MaxCalls /\ calls' = calls + 1 /\ volume' = volume + 1
      BY <1>2, <2>2 DEF Start
    <3>3. UNCHANGED <<sampler, multiVars, rate, counter, lastReset, lock, now, clock, closing,
                      closed, passed>>
      BY <1>2 DEF Start
    <3>4. \A q \in Procs : pc'[q] = "count" => pc[q] = "count"
      BY <3>1
    <3>5. Types'
      BY SMTT(40), <3>1, <3>2, <3>3
    <3>6. RateInv'
      BY <3>1, <3>3, <3>4 DEF Windowed
    <3> QED
      BY <3>5, <3>6
  <2> QED
    BY <2>1, <2>2
<1>3. ASSUME NEW p \in Procs, ReadClock(p) PROVE Types' /\ RateInv'
  BY <1>3 DEF ReadClock, Windowed
<1>4. ASSUME NEW p \in Procs, CheckWindow(p) PROVE Types' /\ RateInv'
  BY <1>4 DEF CheckWindow, Windowed
<1>5. ASSUME NEW p \in Procs, TakeVolume(p) PROVE Types' /\ RateInv'
  BY <1>5 DEF TakeVolume, Windowed, VolumeReset
<1>6. ASSUME NEW p \in Procs, SetRate(p) PROVE Types' /\ RateInv'
  <2>1. rate' \in Rates
    BY SMTT(40), <1>6, NewRateBounded DEF SetRate
  <2>2. /\ pc[p] = "adjusting" /\ pc' = [pc EXCEPT ![p] = "rate"]
        /\ lastReset' = clock[p] /\ lock' = None /\ closing' = [closing EXCEPT ![p] = 0]
        /\ UNCHANGED <<sampler, multiVars, counter, volume, now, clock, myRate, calls, closed,
                       passed>>
    BY <1>6 DEF SetRate, WindowStart
  <2>3. Types'
    BY <2>1, <2>2, RatesAre
  <2>4. \A q \in Procs : pc'[q] = "count" => pc[q] = "count"
    BY <2>2
  <2>5. Windowed
    BY <2>2 DEF Windowed
  <2>6. RateInv'
    BY <2>1, <2>2, <2>4, <2>5 DEF Windowed
  <2> QED
    BY <2>3, <2>6
<1>7. ASSUME NEW p \in Procs, ReadRate(p) PROVE Types' /\ RateInv'
  BY <1>7 DEF ReadRate, Windowed
<1>8. ASSUME NEW p \in Procs, Count(p) PROVE Types' /\ RateInv'
  <2>1. passed' \in Nat /\ counter' \in Nat
    BY <1>8 DEF Count
  <2> QED
    BY SMTT(40), <1>8, <2>1 DEF Count, Windowed
<1>9. ASSUME NEW p \in Procs, NEW v \in Values, KeySample(p, v) PROVE Types' /\ RateInv'
  <2>1. PICK h \in hashes \cup {FreshHash} :
             /\ hashes' = (hashes \ {h}) \cup {Mix(Reset(h), v)}
             /\ decisions' = [decisions EXCEPT ![v] = @ \cup {Mix(Reset(h), v) % BaseRate = 0}]
             /\ passed' \in {passed, passed + 1}
    BY <1>9 DEF KeySample
  <2>2. Mix(Reset(h), v) \in Nat
    BY DEF Mix, Reset, FreshHash
  <2>3. (Mix(Reset(h), v) % BaseRate = 0) \in BOOLEAN
    OBVIOUS
  <2>4. decisions' \in [Values -> SUBSET BOOLEAN]
    BY <2>1, <2>3
  <2>5. hashes' \subseteq Nat
    BY <2>1, <2>2
  <2>8. passed' \in Nat
    BY <2>1
  <2>6. calls < MaxCalls /\ calls' = calls + 1
    BY <1>9 DEF KeySample
  <2>7. UNCHANGED <<sampler, samplerVars, counter2, now, procVars, closed>>
    BY <1>9 DEF KeySample
  <2>9. Types'
    BY SMTT(40), <2>4, <2>5, <2>6, <2>7, <2>8
  <2>10. RateInv'
    BY <2>7 DEF Windowed
  <2> QED
    BY <2>9, <2>10
<1>10. ASSUME NEW p \in Procs, KeyMissing(p) PROVE Types' /\ RateInv'
  BY SMTT(40), <1>10 DEF KeyMissing, Windowed
<1>11. ASSUME NEW p \in Procs, AskFirst(p) PROVE Types' /\ RateInv'
  BY SMTT(40), <1>11 DEF AskFirst, Windowed
<1>12. ASSUME NEW p \in Procs, First(p) PROVE Types' /\ RateInv'
  BY SMTT(40), <1>12 DEF First, Windowed
<1>13. ASSUME NEW p \in Procs, Second(p) PROVE Types' /\ RateInv'
  BY SMTT(40), <1>13 DEF Second, Windowed
<1>14. CASE UNCHANGED vars
  BY <1>14 DEF Windowed
<1> QED
  BY <1>1, <1>2, <1>3, <1>4, <1>5, <1>6, <1>7, <1>8, <1>9, <1>10, <1>11, <1>12, <1>13,
     <1>14 DEF Next, Step

LEMMA RouteInductive == Types /\ Route /\ [Next]_vars => Route'
<1> SUFFICES ASSUME Types, Route, [Next]_vars PROVE Route'
  OBVIOUS
<1>0. UNCHANGED sampler
  BY DEF Next, Step, Tick, Start, ReadClock, CheckWindow, TakeVolume, SetRate, ReadRate, Count,
     KeySample, KeyMissing, AskFirst, First, Second
<1> USE DEF Types, Route, Labels
\* A step of p from one label to the next.
<1>a. ASSUME NEW p \in Procs, NEW l \in Labels, pc' = [pc EXCEPT ![p] = l],
             \/ l = "idle"
             \/ sampler = "rate" /\ l = "count"
             \/ Windowed /\ l \notin {"first", "second"}
             \/ sampler \in {"and", "or"} /\ l \in {"first", "second"}
      PROVE  Route'
  BY <1>0, <1>a DEF Windowed
<1>1. ASSUME NEW p \in Procs, Start(p) PROVE Route'
  BY <1>1, <1>a DEF Start
<1>2. ASSUME NEW p \in Procs, ReadClock(p) \/ CheckWindow(p) \/ TakeVolume(p) \/ SetRate(p)
                              \/ ReadRate(p)
      PROVE  Route'
  <2>1. /\ pc[p] \in {"clock", "window", "adjust", "adjusting", "rate"}
        /\ \E l \in {"window", "adjust", "adjusting", "rate", "count"} :
              pc' = [pc EXCEPT ![p] = l]
    BY <1>2 DEF ReadClock, CheckWindow, TakeVolume, SetRate, ReadRate
  <2>2. Windowed
    BY <2>1
  <2> QED
    BY <1>a, <2>1, <2>2
<1>3. ASSUME NEW p \in Procs, Count(p) \/ Second(p) PROVE Route'
  BY <1>3, <1>a DEF Count, Second
<1>4. ASSUME NEW p \in Procs, AskFirst(p) PROVE Route'
  BY <1>4, <1>a DEF AskFirst
<1>5. ASSUME NEW p \in Procs, First(p) PROVE Route'
  <2>1. pc[p] = "first" /\ \E l \in {"idle", "second"} : pc' = [pc EXCEPT ![p] = l]
    BY <1>5 DEF First
  <2>2. sampler \in {"and", "or"}
    BY <2>1
  <2> QED
    BY <1>a, <2>1, <2>2
<1>6. ASSUME \/ Tick \/ UNCHANGED vars
             \/ \E p \in Procs : KeyMissing(p) \/ \E v \in Values : KeySample(p, v)
      PROVE  Route'
  <2>1. UNCHANGED pc
    BY <1>6 DEF Tick, KeyMissing, KeySample
  <2> QED
    BY <1>0, <2>1 DEF Windowed
<1> QED
  BY <1>1, <1>2, <1>3, <1>4, <1>5, <1>6 DEF Next, Step

LEMMA TypesInitially == Init => Types /\ Route /\ RateInv
<1> SUFFICES ASSUME Init PROVE Types /\ Route /\ RateInv
  OBVIOUS
<1> USE SamplersAssumption DEF Init
<1>1. Types
  <2>1. clock \in [Procs -> 0..now] /\ closing \in [Procs -> 0..MaxCalls]
    OBVIOUS
  <2>2. closed \in Seq(0..MaxCalls) /\ myRate \in [Procs -> Nat \ {0}]
    OBVIOUS
  <2>3. decisions \in [Values -> SUBSET BOOLEAN] /\ pc \in [Procs -> Labels]
    BY DEF Labels
  <2> QED
    BY <2>1, <2>2, <2>3 DEF Types
<1>2. Route
  BY DEF Route
<1>3. RateInv
  BY RatesAre DEF RateInv, Windowed
<1> QED
  BY <1>1, <1>2, <1>3

\* Whatever windows the goroutines close, and in whatever order, the rate stays between
\* the two configured ones, and so is what a goroutine divides by.
THEOREM RateTheorem == Spec => []RateBounded
<1>1. RateInv => RateBounded
  BY DEF RateInv, RateBounded
<1> QED
  BY <1>1, TypesInitially, TypesInductive, RouteInductive, PTL DEF Spec

--------------------------------------------------------------------------------
(* KeySampler.                                                              *)

\* What a KeySampler answers for v with a fresh hash function.
Answer(v) == Mix(FreshHash, v) % BaseRate = 0

KeyInv == \A v \in Values : decisions[v] \subseteq {Answer(v)}

\* A KeySampler answers for a value what it answered before, whichever hash function of
\* the pool it gets.
THEOREM KeyTheorem == Spec => []KeyConsistent
<1>1. Init => KeyInv
  BY DEF Init, KeyInv
<1>2. Types /\ KeyInv /\ [Next]_vars => KeyInv'
  <2> SUFFICES ASSUME Types, KeyInv, [Next]_vars PROVE KeyInv'
    OBVIOUS
  <2>1. ASSUME NEW p \in Procs, NEW v \in Values, KeySample(p, v) PROVE KeyInv'
    <3>1. decisions' = [decisions EXCEPT ![v] = @ \cup {Answer(v)}]
      BY <2>1 DEF KeySample, Answer, Reset
    <3> QED
      BY <3>1 DEF KeyInv, Types
  <2>2. UNCHANGED decisions \/ \E p \in Procs : \E v \in Values : KeySample(p, v)
    BY DEF Next, Step, Tick, Start, ReadClock, CheckWindow, TakeVolume, SetRate, ReadRate,
       Count, KeyMissing, AskFirst, First, Second
  <2> QED
    BY <2>1, <2>2 DEF KeyInv
<1>3. KeyInv => KeyConsistent
  <2> SUFFICES ASSUME KeyInv, NEW v \in Values PROVE Cardinality(decisions[v]) <= 1
    BY DEF KeyConsistent
  <2>1. decisions[v] = {} \/ decisions[v] = {Answer(v)}
    BY DEF KeyInv
  <2>2. Cardinality(decisions[v]) = 0 \/ Cardinality(decisions[v]) = 1
    BY <2>1, FS_EmptySet, FS_Singleton
  <2> QED
    BY <2>2
<1> QED
  BY <1>1, <1>2, <1>3, TypesInitially, TypesInductive, RouteInductive, PTL DEF Spec

--------------------------------------------------------------------------------
(* Counting.                                                                *)

\* The goroutines at one of some labels.
In(labels) == {p \in Procs : pc[p] \in labels}

\* A goroutine that goes from one label to another changes their number by one.
LEMMA Moves ==
    ASSUME Types, NEW labels, NEW p \in Procs, NEW l, Goto(p, l), IsFiniteSet(In(labels))
    PROVE  /\ IsFiniteSet(In(labels)') /\ Cardinality(In(labels)) \in Nat
           /\ Cardinality(In(labels)') =
                 Cardinality(In(labels)) + (IF l \in labels THEN 1 ELSE 0)
                                         - (IF pc[p] \in labels THEN 1 ELSE 0)
<1>0. /\ Cardinality(In(labels)) \in Nat
      /\ \A q \in Procs : pc'[q] = IF q = p THEN l ELSE pc[q]
  BY FS_CardinalityType DEF Types
<1>1. CASE l \in labels /\ pc[p] \in labels
  <2>1. In(labels)' = In(labels)
    BY <1>0, <1>1 DEF In
  <2> QED
    BY <1>0, <1>1, <2>1
<1>2. CASE l \in labels /\ pc[p] \notin labels
  <2>1. In(labels)' = In(labels) \cup {p} /\ p \notin In(labels)
    BY <1>0, <1>2 DEF In
  <2> QED
    BY <1>0, <1>2, <2>1, FS_AddElement
<1>3. CASE l \notin labels /\ pc[p] \in labels
  <2>1. In(labels)' = In(labels) \ {p} /\ p \in In(labels)
    BY <1>0, <1>3 DEF In
  <2> QED
    BY <1>0, <1>3, <2>1, FS_RemoveElement
<1>4. CASE l \notin labels /\ pc[p] \notin labels
  <2>1. In(labels)' = In(labels)
    BY <1>0, <1>4 DEF In
  <2> QED
    BY <1>0, <1>4, <2>1
<1> QED
  BY <1>1, <1>2, <1>3, <1>4

Running == Labels \ {"idle"}

Uncounted == Labels \ {"idle", "second"}

\* How many calls there are at these labels, ...
Active == Cardinality(In(Running))

Pending == Cardinality(In(Uncounted))

Seconds == Cardinality(In({"second"}))

\* ... each a finite number.
Finite == IsFiniteSet(In(Running)) /\ IsFiniteSet(In(Uncounted)) /\ IsFiniteSet(In({"second"}))

\* A call is running until it has been counted, and then it may be sampled; the second
\* sampler of a MultiSampler counts what the first has counted.
CountInv ==
    /\ Finite
    /\ passed + Active <= calls
    /\ counter + Pending <= calls
    /\ sampler # "key" => counter + Pending = calls
    /\ counter2 + Seconds <= counter

LEMMA CountInitially == Init => CountInv
<1> SUFFICES ASSUME Init PROVE CountInv
  OBVIOUS
<1>1. In(Running) = {} /\ In(Uncounted) = {} /\ In({"second"}) = {}
  BY DEF Init, In, Running, Uncounted
<1>2. /\ IsFiniteSet(In(Running)) /\ IsFiniteSet(In(Uncounted)) /\ IsFiniteSet(In({"second"}))
      /\ Cardinality(In(Running)) = 0 /\ Cardinality(In(Uncounted)) = 0
      /\ Cardinality(In({"second"})) = 0
  BY <1>1, FS_EmptySet
<1> QED
  BY <1>2 DEF Init, CountInv, Finite, Active, Pending, Seconds

\* The numbers of calls after a goroutine has gone to label l.
LEMMA CountMoves ==
    ASSUME Types, Finite, NEW p \in Procs, NEW l \in Labels, Goto(p, l)
    PROVE  /\ Finite' /\ Active' \in Nat /\ Pending' \in Nat /\ Seconds' \in Nat
           /\ Active' = Active + (IF l # "idle" THEN 1 ELSE 0)
                               - (IF pc[p] # "idle" THEN 1 ELSE 0)
           /\ Pending' = Pending + (IF l \notin {"idle", "second"} THEN 1 ELSE 0)
                                 - (IF pc[p] \notin {"idle", "second"} THEN 1 ELSE 0)
           /\ Seconds' = Seconds + (IF l = "second" THEN 1 ELSE 0)
                                 - (IF pc[p] = "second" THEN 1 ELSE 0)
<1> USE DEF Finite, Active, Pending, Seconds
<1>1. Finite'
  BY Moves
<1>2. Active' \in Nat /\ Pending' \in Nat /\ Seconds' \in Nat
  BY <1>1, FS_CardinalityType
<1>3. pc[p] \in Labels
  BY DEF Types
<1>4. Active' = Active + (IF l \in Running THEN 1 ELSE 0)
                       - (IF pc[p] \in Running THEN 1 ELSE 0)
  BY Moves
<1>5. Pending' = Pending + (IF l \in Uncounted THEN 1 ELSE 0)
                         - (IF pc[p] \in Uncounted THEN 1 ELSE 0)
  BY Moves
<1>6. Seconds' = Seconds + (IF l \in {"second"} THEN 1 ELSE 0)
                         - (IF pc[p] \in {"second"} THEN 1 ELSE 0)
  BY Moves
<1>7. /\ l \in Running <=> l # "idle"
      /\ pc[p] \in Running <=> pc[p] # "idle"
      /\ l \in Uncounted <=> l \notin {"idle", "second"}
      /\ pc[p] \in Uncounted <=> pc[p] \notin {"idle", "second"}
  BY <1>3 DEF Running, Uncounted
<1> QED
  BY <1>1, <1>2, <1>4, <1>5, <1>6, <1>7

HIDE DEF Goto

\* How the counters and the numbers of calls change in a step.
LEMMA CountSteps ==
    ASSUME Types, Route, CountInv, [Next]_vars
    PROVE  /\ CountInv'
           /\ \/ sampler = "key"
              \/ UNCHANGED <<counter, counter2, passed, Seconds>>
              \/ \E p \in Procs :
                    \/ Count(p) /\ UNCHANGED Seconds
                    \/ First(p) /\ Seconds' = Seconds
                          + (IF Decides(Passes(counter + 1, BaseRate)) THEN 0 ELSE 1)
                    \/ Second(p) /\ Seconds' = Seconds - 1
<1>0. /\ Finite /\ Active \in Nat /\ Pending \in Nat /\ Seconds \in Nat
      /\ counter \in Nat /\ counter2 \in Nat /\ passed \in Nat /\ calls \in Nat
      /\ passed + Active <= calls /\ counter + Pending <= calls
      /\ sampler # "key" => counter + Pending = calls
      /\ counter2 + Seconds <= counter
  BY FS_CardinalityType, SamplersAssumption
     DEF CountInv, Types, Finite, Active, Pending, Seconds
<1>i. UNCHANGED sampler
  BY DEF Next, Step, Tick, Start, ReadClock, CheckWindow, TakeVolume, SetRate, ReadRate, Count,
     KeySample, KeyMissing, AskFirst, First, Second
<1>c. ASSUME Finite', passed' + Active' <= calls', counter' + Pending' <= calls',
             sampler # "key" => counter' + Pending' = calls',
             counter2' + Seconds' <= counter'
      PROVE  CountInv'
  BY <1>c, <1>i DEF CountInv
\* Steps that count nothing.
<1>1. ASSUME NEW p \in Procs, Start(p) \/ AskFirst(p)
      PROVE  CountInv' /\ UNCHANGED <<counter, counter2, passed, Seconds>>
  <2>1. /\ pc[p] = "idle" /\ \E l \in {"count", "clock", "first"} : Goto(p, l)
        /\ calls' = calls + 1 /\ UNCHANGED <<counter, counter2, passed>>
    BY <1>1 DEF Start, AskFirst
  <2>2. PICK l \in {"count", "clock", "first"} : Goto(p, l)
    BY <2>1
  <2>3. l \in Labels
    BY DEF Labels
  <2>4. Finite' /\ Active' = Active + 1 /\ Pending' = Pending + 1 /\ Seconds' = Seconds
    BY <1>0, CountMoves, <2>1, <2>2, <2>3
  <2> QED
    BY <1>0, <1>c, <2>1, <2>4
<1>2. ASSUME NEW p \in Procs, ReadClock(p) \/ CheckWindow(p) \/ TakeVolume(p) \/ SetRate(p)
                              \/ ReadRate(p)
      PROVE  CountInv' /\ UNCHANGED <<counter, counter2, passed, Seconds>>
  <2>1. /\ pc[p] \in {"clock", "window", "adjust", "adjusting", "rate"}
        /\ \E l \in {"window", "adjust", "adjusting", "rate", "count"} : Goto(p, l)
        /\ UNCHANGED <<counter, counter2, passed, calls>>
    BY <1>2 DEF ReadClock, CheckWindow, TakeVolume, SetRate, ReadRate
  <2>2. PICK l \in {"window", "adjust", "adjusting", "rate", "count"} : Goto(p, l)
    BY <2>1
  <2>3. l \in Labels
    BY DEF Labels
  <2>4. Finite' /\ Active' = Active /\ Pending' = Pending /\ Seconds' = Seconds
    BY <1>0, CountMoves, <2>1, <2>2, <2>3
  <2> QED
    BY <1>0, <1>c, <2>1, <2>4
<1>3. CASE Tick \/ UNCHANGED vars
  <2>1. UNCHANGED <<pc, counter, counter2, passed, calls>>
    BY <1>3 DEF Tick
  <2>2. Finite' /\ Active' = Active /\ Pending' = Pending /\ Seconds' = Seconds
    BY <1>0, <2>1 DEF In, Finite, Active, Pending, Seconds
  <2>3. CountInv'
    BY <1>0, <1>c, <2>1, <2>2
  <2> QED
    BY <2>1, <2>2, <2>3
<1>4. ASSUME NEW p \in Procs, Count(p) PROVE CountInv' /\ Seconds' = Seconds
  <2>1. pc[p] = "count" /\ Goto(p, "idle") /\ "idle" \in Labels
    BY <1>4 DEF Count, Labels
  <2>2. Finite' /\ Active' = Active - 1 /\ Pending' = Pending - 1 /\ Seconds' = Seconds
    BY <1>0, <2>1, CountMoves
  <2>3. /\ passed' = passed \/ passed' = passed + 1
        /\ counter' = counter + 1 /\ counter2' = counter2 /\ calls' = calls
    BY <1>4 DEF Count
  <2>4. passed' + Active' <= calls'
    BY <1>0, <2>2, <2>3
  <2>5. counter' + Pending' = counter + Pending /\ counter2' + Seconds' <= counter'
    BY <1>0, <2>2, <2>3
  <2> QED
    BY <1>0, <1>c, <2>2, <2>3, <2>4, <2>5
<1>5. ASSUME NEW p \in Procs, First(p)
      PROVE  /\ CountInv'
             /\ Seconds' = Seconds
                  + (IF Decides(Passes(counter + 1, BaseRate)) THEN 0 ELSE 1)
  <2> DEFINE d == Decides(Passes(counter + 1, BaseRate))
  <2>1. pc[p] = "first" /\ Goto(p, IF d THEN "idle" ELSE "second")
    BY <1>5 DEF First
  <2>2. counter' = counter + 1 /\ counter2' = counter2 /\ calls' = calls
    BY <1>5 DEF First
  <2>3. passed' = passed \/ (d /\ passed' = passed + 1)
    BY <1>5 DEF First
  <2>4. Finite' /\ Pending' = Pending - 1
    BY <1>0, <2>1, CountMoves DEF Labels
  <2> HIDE DEF d
  <2>5. CASE d
    <3>1. Active' = Active - 1 /\ Seconds' = Seconds
      BY <1>0, <2>1, <2>5, CountMoves DEF Labels
    <3>2. passed' + Active' <= calls'
      BY <1>0, <2>2, <2>3, <3>1
    <3>3. counter' + Pending' = counter + Pending /\ counter2' + Seconds' <= counter'
      BY <1>0, <2>2, <2>4, <3>1
    <3> QED
      BY <1>0, <1>c, <2>2, <2>4, <2>5, <3>1, <3>2, <3>3 DEF d
  <2>6. CASE ~d
    <3>1. Active' = Active /\ Seconds' = Seconds + 1
      BY <1>0, <2>1, <2>6, CountMoves DEF Labels
    <3>2. passed' + Active' <= calls'
      BY <1>0, <2>2, <2>3, <2>6, <3>1
    <3>3. counter' + Pending' = counter + Pending /\ counter2' + Seconds' <= counter'
      BY <1>0, <2>2, <2>4, <3>1
    <3> QED
      BY <1>0, <1>c, <2>2, <2>4, <2>6, <3>1, <3>2, <3>3 DEF d
  <2> QED
    BY <2>5, <2>6
<1>6. ASSUME NEW p \in Procs, Second(p) PROVE CountInv' /\ Seconds' = Seconds - 1
  <2>1. pc[p] = "second" /\ Goto(p, "idle") /\ "idle" \in Labels
    BY <1>6 DEF Second, Labels
  <2>2. Finite' /\ Active' = Active - 1 /\ Pending' = Pending /\ Seconds' = Seconds - 1
    BY <1>0, <2>1, CountMoves
  <2>3. /\ passed' = passed \/ passed' = passed + 1
        /\ counter2' = counter2 + 1 /\ counter' = counter /\ calls' = calls
    BY <1>6 DEF Second
  <2>4. passed' + Active' <= calls'
    BY <1>0, <2>2, <2>3
  <2>5. counter' + Pending' = counter + Pending /\ counter2' + Seconds' <= counter'
    BY <1>0, <2>2, <2>3
  <2> QED
    BY <1>0, <1>c, <2>2, <2>3, <2>4, <2>5
<1>7. ASSUME NEW p \in Procs, KeyMissing(p) \/ \E v \in Values : KeySample(p, v)
      PROVE  CountInv' /\ sampler = "key"
  <2>1. /\ sampler = "key" /\ calls' = calls + 1 /\ UNCHANGED <<pc, counter, counter2>>
        /\ passed' = passed \/ passed' = passed + 1
    BY <1>7 DEF KeyMissing, KeySample
  <2>2. Finite' /\ Active' = Active /\ Pending' = Pending /\ Seconds' = Seconds
    BY <1>0, <2>1 DEF In, Finite, Active, Pending, Seconds
  <2>3. /\ passed' = passed \/ passed' = passed + 1
        /\ calls' = calls + 1 /\ counter' = counter /\ counter2' = counter2
    BY <2>1
  <2>4. passed' + Active' <= calls'
    BY <1>0, <2>2, <2>3
  <2>5. counter' + Pending' <= calls' /\ counter2' + Seconds' <= counter'
    BY <1>0, <2>2, <2>3
  <2> QED
    BY <1>c, <2>1, <2>2, <2>4, <2>5
<1> QED
  BY <1>1, <1>2, <1>3, <1>4, <1>5, <1>6, <1>7 DEF Next, Step, Seconds

\* TypeOK with the bounds of the counters: a sampler never samples more than it was asked
\* for, and never counts more.
THEOREM TypeCorrectness == Spec => []TypeOK
<1>1. Types /\ CountInv => TypeOK
  <2> SUFFICES ASSUME Types, CountInv PROVE TypeOK
    OBVIOUS
  <2>1. Active \in Nat /\ Pending \in Nat /\ Seconds \in Nat
    BY FS_CardinalityType DEF CountInv, Finite, Active, Pending, Seconds
  <2>2. counter2 \in 0..counter /\ counter \in 0..MaxCalls /\ passed \in 0..calls
    BY <2>1, SamplersAssumption DEF Types, CountInv
  <2>3. volume \in 0..MaxCalls
    BY DEF Types
  <2> QED
    BY <2>2, <2>3 DEF Types, TypeOK, Labels
<1>2. Types /\ Route /\ CountInv /\ [Next]_vars => CountInv'
  BY CountSteps
<1> QED
  BY <1>1, <1>2, TypesInitially, TypesInductive, RouteInductive, CountInitially, PTL DEF Spec

--------------------------------------------------------------------------------
(* One in N.                                                                *)

\* What a sampler without windows has sampled, while calls are in progress too.
YieldInv ==
    LET first == counter \div BaseRate IN
    /\ sampler = "rate" => passed = first
    /\ sampler = "and" => counter2 + Seconds = first /\ passed = counter2 \div SecondRate
    /\ sampler = "or" => /\ counter2 + Seconds = counter - first
                         /\ passed = first + (counter2 \div SecondRate)

\* One of N entries is sampled, in whatever order the goroutines count; and a MultiSampler
\* samples what its two samplers do of what they are asked.
THEOREM OneInNTheorem == Spec => []OneInN
<1> USE SamplersAssumption
<1>1. Init => YieldInv
  <2> SUFFICES ASSUME Init PROVE YieldInv
    OBVIOUS
  <2>1. In({"second"}) = {}
    BY DEF Init, In
  <2>2. Seconds = 0
    BY <2>1, FS_EmptySet DEF Seconds
  <2>3. 0 \div BaseRate = 0 /\ 0 \div SecondRate = 0
    BY OneMore
  <2> QED
    BY <2>2, <2>3 DEF Init, YieldInv
<1>2. Types /\ Route /\ RateInv /\ CountInv /\ YieldInv /\ [Next]_vars => YieldInv'
  <2> SUFFICES ASSUME Types, Route, RateInv, CountInv, YieldInv, [Next]_vars
               PROVE  YieldInv'
    OBVIOUS
  <2>0. /\ counter \in Nat /\ counter2 \in Nat /\ passed \in Nat /\ UNCHANGED sampler
        /\ counter \div BaseRate \in Nat /\ counter2 \div SecondRate \in Nat
        /\ Seconds \in Nat
    <3>1. UNCHANGED sampler
      BY DEF Next, Step, Tick, Start, ReadClock, CheckWindow, TakeVolume, SetRate, ReadRate,
         Count, KeySample, KeyMissing, AskFirst, First, Second
    <3>2. counter \in Nat /\ counter2 \in Nat /\ passed \in Nat
      BY DEF Types
    <3>3. counter \div BaseRate \in Nat /\ counter2 \div SecondRate \in Nat
      BY <3>2, OneMore
    <3>4. Seconds \in Nat
      BY FS_CardinalityType DEF CountInv, Finite, Seconds
    <3> QED
      BY <3>1, <3>2, <3>3, <3>4
  <2>1. CASE UNCHANGED <<counter, counter2, passed, Seconds>> \/ sampler = "key"
    BY <2>0, <2>1 DEF YieldInv
  <2>2. ASSUME NEW p \in Procs, Count(p), UNCHANGED Seconds PROVE YieldInv'
    <3>1. counter' = counter + 1 /\ pc[p] = "count"
      BY <2>2 DEF Count
    <3>2. CASE sampler = "rate"
      <4>1. myRate[p] = BaseRate
        BY <3>1, <3>2 DEF RateInv, Windowed
      <4>2. passed' = IF Passes(counter + 1, BaseRate) THEN passed + 1 ELSE passed
        BY <2>2, <4>1 DEF Count
      <4>3. counter' \div BaseRate = IF Passes(counter + 1, BaseRate)
               THEN (counter \div BaseRate) + 1 ELSE counter \div BaseRate
        BY <2>0, <3>1, OneMore
      <4>4. passed' = counter' \div BaseRate
        BY <3>2, <4>2, <4>3 DEF YieldInv
      <4> QED
        BY <2>0, <3>2, <4>4 DEF YieldInv
    <3>3. CASE sampler # "rate"
      <4>1. Windowed
        BY <3>1, <3>3 DEF Route
      <4> QED
        BY <2>0, <4>1 DEF Windowed, YieldInv
    <3> QED
      BY <3>2, <3>3
  <2>3. ASSUME NEW p \in Procs, First(p),
               Seconds' = Seconds + (IF Decides(Passes(counter + 1, BaseRate)) THEN 0 ELSE 1)
        PROVE  YieldInv'
    <3> DEFINE yes == Passes(counter + 1, BaseRate)
    <3>1. counter' = counter + 1 /\ counter2' = counter2 /\ pc[p] = "first"
      BY <2>3 DEF First
    <3>2. sampler \in {"and", "or"}
      BY <3>1 DEF Route, Labels
    <3>3. passed' = IF Decides(yes) /\ yes THEN passed + 1 ELSE passed
      BY <2>3 DEF First
    <3>4. counter' \div BaseRate = IF yes THEN (counter \div BaseRate) + 1
                                         ELSE counter \div BaseRate
      BY <2>0, <3>1, OneMore
    <3>5. yes \in BOOLEAN
      BY DEF Passes
    <3> HIDE DEF yes
    <3>6. CASE sampler = "and"
      <4>1. Decides(yes) <=> ~yes
        BY <3>5, <3>6 DEF Decides
      <4>2. passed' = passed /\ Seconds' = Seconds + (IF yes THEN 1 ELSE 0)
        BY <2>3, <3>3, <4>1 DEF yes
      <4> QED
        BY <2>0, <3>1, <3>4, <3>6, <4>2 DEF YieldInv
    <3>7. CASE sampler = "or"
      <4>1. Decides(yes) <=> yes
        BY <3>5, <3>7 DEF Decides
      <4>2. /\ passed' = passed + (IF yes THEN 1 ELSE 0)
            /\ Seconds' = Seconds + (IF yes THEN 0 ELSE 1)
        BY <2>0, <2>3, <3>3, <4>1 DEF yes
      <4>3. /\ counter2 + Seconds = counter - (counter \div BaseRate)
            /\ passed = (counter \div BaseRate) + (counter2 \div SecondRate)
        BY <3>7 DEF YieldInv
      <4>4. counter' \div BaseRate = (counter \div BaseRate) + (IF yes THEN 1 ELSE 0)
        BY <2>0, <3>4
      <4>5. counter2' + Seconds' = counter' - (counter' \div BaseRate)
        <5>1. CASE yes
          BY <2>0, <3>1, <4>2, <4>3, <4>4, <5>1
        <5>2. CASE ~yes
          BY <2>0, <3>1, <4>2, <4>3, <4>4, <5>2
        <5> QED
          BY <5>1, <5>2
      <4>6. passed' = (counter' \div BaseRate) + (counter2' \div SecondRate)
        BY <2>0, <3>1, <4>2, <4>3, <4>4
      <4> QED
        BY <2>0, <3>7, <4>5, <4>6 DEF YieldInv
    <3> QED
      BY <3>2, <3>6, <3>7
  <2>4. ASSUME NEW p \in Procs, Second(p), Seconds' = Seconds - 1 PROVE YieldInv'
    <3>1. counter' = counter /\ counter2' = counter2 + 1 /\ pc[p] = "second"
      BY <2>4 DEF Second
    <3>2. sampler \in {"and", "or"}
      BY <3>1 DEF Route, Labels
    <3>3. passed' = IF Passes(counter2 + 1, SecondRate) THEN passed + 1 ELSE passed
      BY <2>4 DEF Second
    <3>4. counter2' \div SecondRate = IF Passes(counter2 + 1, SecondRate)
             THEN (counter2 \div SecondRate) + 1 ELSE counter2 \div SecondRate
      BY <2>0, <3>1, OneMore
    <3>5. counter2' + Seconds' = counter2 + Seconds
      BY <2>0, <2>4, <3>1
    <3>6. passed' - (counter2' \div SecondRate) = passed - (counter2 \div SecondRate)
      BY <2>0, <3>3, <3>4
    <3>7. counter2' \div SecondRate \in Nat /\ passed' \in Nat
      BY <2>0, <3>3, <3>4
    <3> QED
      BY <2>0, <3>1, <3>2, <3>5, <3>6, <3>7 DEF YieldInv
  <2> QED
    BY <2>1, <2>2, <2>3, <2>4, CountSteps
<1>3. Types /\ CountInv /\ YieldInv => OneInN
  <2> SUFFICES ASSUME Types, CountInv, YieldInv PROVE OneInN
    OBVIOUS
  <2>1. ASSUME \A p \in Procs : pc[p] = "idle", sampler # "key"
        PROVE  counter = calls /\ Seconds = 0
    <3>1. In({"second"}) = {} /\ In(Uncounted) = {}
      BY <2>1 DEF In, Uncounted
    <3>2. Seconds = 0 /\ Pending = 0
      BY <3>1, FS_EmptySet DEF Seconds, Pending
    <3> QED
      BY <2>1, <3>2 DEF CountInv, Types
  <2>2. sampler = "rate" => passed = counter \div BaseRate
    BY DEF YieldInv
  <2>3. ASSUME \A p \in Procs : pc[p] = "idle", sampler = "and"
        PROVE  passed = (calls \div BaseRate) \div SecondRate
    <3>1. counter = calls /\ Seconds = 0
      BY <2>1, <2>3
    <3>2. /\ counter2 + Seconds = counter \div BaseRate
          /\ passed = counter2 \div SecondRate
      BY <2>3 DEF YieldInv
    <3>3. counter2 = calls \div BaseRate
      BY <3>1, <3>2 DEF Types
    <3> QED
      BY <3>2, <3>3
  <2>4. ASSUME \A p \in Procs : pc[p] = "idle", sampler = "or"
        PROVE  passed = (calls \div BaseRate)
                           + ((calls - (calls \div BaseRate)) \div SecondRate)
    <3>1. counter = calls /\ Seconds = 0
      BY <2>1, <2>4
    <3>2. /\ counter2 + Seconds = counter - (counter \div BaseRate)
          /\ passed = (counter \div BaseRate) + (counter2 \div SecondRate)
      BY <2>4 DEF YieldInv
    <3>3. counter2 = calls - (calls \div BaseRate)
      BY <3>1, <3>2 DEF Types
    <3> QED
      BY <3>1, <3>2, <3>3
  <2> QED
    BY <2>2, <2>3, <2>4 DEF OneInN
<1>4. Types /\ Route /\ CountInv /\ [Next]_vars => CountInv'
  BY CountSteps
<1> QED
  BY <1>1, <1>2, <1>3, <1>4, TypesInitially, TypesInductive, RouteInductive, CountInitially,
     PTL DEF Spec

--------------------------------------------------------------------------------
(* Windows.                                                                 *)

\* f sums the first windows of c.
Sums(c, f) ==
    /\ f \in [0..Len(c) -> Nat] /\ f[0] = 0
    /\ \A i \in 1..Len(c) : f[i] = f[i - 1] + c[i]

LEMMA TotalSums ==
    ASSUME NEW c \in Seq(Nat)
    PROVE  \E f : Sums(c, f) /\ Total(c) = f[Len(c)]
<1> DEFINE n == Len(c)
           g == [p \in Nat \X (1..n) |-> p[1] + c[p[2]]]
           Eq(f) == f = [i \in 0..n |-> IF i = 0 THEN 0 ELSE f[i - 1] + c[i]]
           sum == CHOOSE f : Eq(f)
<1>1. g \in [Nat \X (1..n) -> Nat] /\ n \in Nat /\ 0 \in Nat
  OBVIOUS
<1>2. \A a \in Nat, i \in 1..n : g[<<a, i>>] = a + c[i]
  OBVIOUS
<1> HIDE DEF g
<1>3. PICK h : Recurs(h, n, Nat, 0, g)
  BY <1>1, Recursion, Zenon
<1>4. h \in [0..n -> Nat] /\ h[0] = 0 /\ \A i \in 1..n : h[i] = g[<<h[i - 1], i>>]
  BY <1>3 DEF Recurs
<1>5. ASSUME NEW i \in 1..n PROVE h[i] = h[i - 1] + c[i]
  <2>1. h[i - 1] \in Nat
    BY <1>4
  <2> QED
    BY <1>2, <1>4, <2>1
<1>6. Eq(h)
  <2>1. \A i \in 0..n : h[i] = IF i = 0 THEN 0 ELSE h[i - 1] + c[i]
    BY <1>4, <1>5
  <2> QED
    BY <1>4, <2>1
<1>7. Eq(sum)
  BY <1>6
<1>8. Total(c) = sum[n]
  BY DEF Total
<1> HIDE DEF sum
<1>9. sum[0] = 0 /\ \A i \in 1..n : sum[i] = sum[i - 1] + c[i]
  BY <1>1, <1>7
<1>10. DOMAIN sum = 0..n /\ sum = [i \in 0..n |-> sum[i]]
  BY <1>7
<1>11. \A i \in 0..n : sum[i] = h[i]
  <2>1. sum[0] = h[0]
    BY <1>4, <1>9
  <2>2. \A i \in 1..n : sum[i - 1] = h[i - 1] => sum[i] = h[i]
    BY <1>5, <1>9
  <2> HIDE DEF n
  <2>3. Alike(sum, h, n)
    BY <2>1, <2>2 DEF Alike
  <2> QED
    BY <1>1, <2>3, Agree
<1>12. Sums(c, sum)
  BY <1>4, <1>9, <1>10, <1>11 DEF Sums
<1> QED
  BY <1>8, <1>12

\* The total goes up by the volume of each window.
LEMMA TotalGrows ==
    ASSUME NEW w \in Seq(Nat), NEW v \in Nat
    PROVE  Total(w) \in Nat /\ Total(Append(w, v)) = Total(w) + v
<1> DEFINE n == Len(w)
           c == Append(w, v)
<1>1. /\ c \in Seq(Nat) /\ Len(c) = n + 1 /\ n \in Nat /\ c[n + 1] = v
      /\ \A i \in 1..n : c[i] = w[i]
  OBVIOUS
<1>2. PICK f : Sums(w, f) /\ Total(w) = f[n]
  BY TotalSums
<1>3. PICK h : Sums(c, h) /\ Total(c) = h[Len(c)]
  BY <1>1, TotalSums
<1> HIDE DEF c
<1>a. f[0] = 0 /\ f[n] \in Nat /\ \A i \in 1..n : f[i] = f[i - 1] + w[i]
  BY <1>1, <1>2 DEF Sums
<1> HIDE DEF n
<1>4. h[0] = 0 /\ \A i \in 1..(n + 1) : h[i] = h[i - 1] + c[i]
  BY <1>1, <1>3 DEF Sums
<1>5. \A i \in 0..n : f[i] = h[i]
  <2>1. Alike(f, h, n)
    BY <1>1, <1>a, <1>4 DEF Alike
  <2> QED
    BY <1>1, <2>1, Agree
<1>6. h[n + 1] = f[n] + v
  <2>1. h[n + 1] = h[(n + 1) - 1] + c[n + 1]
    BY <1>1, <1>4
  <2>2. h[n] = f[n] /\ (n + 1) - 1 = n
    BY <1>1, <1>5
  <2> QED
    BY <1>1, <2>1, <2>2
<1> QED
  BY <1>1, <1>2, <1>3, <1>a, <1>6 DEF c, n

LEMMA TotalOfNone == Total(<<>>) = 0
<1> DEFINE EmptySum(f) == f = [i \in 0..0 |-> IF i = 0 THEN 0 ELSE f[i - 1] + <<>>[i]]
<1>1. EmptySum([i \in 0..0 |-> 0])
  OBVIOUS
<1>2. EmptySum(CHOOSE f : EmptySum(f))
  BY <1>1
<1>3. Total(<<>>) = (CHOOSE f : EmptySum(f))[0]
  BY DEF Total
<1> QED
  BY <1>2, <1>3

\* Every call of a sampler with windows has been counted in one of them.
THEOREM VolumeTheorem == Spec => []VolumeConserved
<1>1. Init => VolumeConserved
  BY TotalOfNone DEF Init, VolumeConserved
<1>2. Types /\ VolumeConserved /\ [Next]_vars => VolumeConserved'
  <2> SUFFICES ASSUME Types, VolumeConserved, [Next]_vars, Windowed'
               PROVE  (volume + Total(closed) = calls)'
    BY DEF VolumeConserved
  <2>0. UNCHANGED sampler
    BY DEF Next, Step, Tick, Start, ReadClock, CheckWindow, TakeVolume, SetRate, ReadRate,
       Count, KeySample, KeyMissing, AskFirst, First, Second
  <2>a. /\ Windowed /\ closed \in Seq(Nat)
        /\ volume \in Nat /\ calls \in Nat /\ volume + Total(closed) = calls
    BY <2>0, SamplersAssumption DEF Windowed, VolumeConserved, Types
  <2>b. PICK t \in Nat : t = Total(closed)
    BY <2>a, TotalGrows
  <2>1. ASSUME NEW p \in Procs, Start(p) PROVE (volume + Total(closed) = calls)'
    <3>1. sampler # "rate"
      BY <2>a DEF Windowed
    <3>2. volume' = volume + 1 /\ calls' = calls + 1 /\ closed' = closed
      BY <2>1, <3>1 DEF Start
    <3>3. Total(closed') = Total(closed)
      BY <3>2
    <3>4. volume' + Total(closed') = calls'
      BY <2>a, <2>b, <3>2, <3>3
    <3> QED
      BY <3>4
  <2>2. ASSUME NEW p \in Procs, TakeVolume(p) PROVE (volume + Total(closed) = calls)'
    <3>1. volume' = 0 /\ calls' = calls /\ closed' = Append(closed, volume)
      BY <2>2 DEF TakeVolume, VolumeReset
    <3>2. Total(closed') = Total(closed) + volume
      BY <2>a, <3>1, TotalGrows
    <3> QED
      BY <2>a, <2>b, <3>1, <3>2
  <2>3. ASSUME NEW p \in Procs, First(p) PROVE UNCHANGED <<volume, calls, closed>>
    BY <2>3 DEF First
  <2>4. \/ UNCHANGED <<volume, calls, closed>>
        \/ \E p \in Procs : Start(p) \/ TakeVolume(p)
    BY <2>3, <2>a DEF Next, Step, Tick, ReadClock, CheckWindow, SetRate, ReadRate,
       Count, KeySample, KeyMissing, AskFirst, Second, Windowed
  <2> QED
    BY <2>1, <2>2, <2>4, <2>a
<1> QED
  BY <1>1, <1>2, TypesInitially, TypesInductive, RouteInductive, PTL DEF Spec

\* f replays the first windows of c.
Replays(c, f) ==
    /\ f \in [0..Len(c) -> Rates] /\ f[0] = BaseRate
    /\ \A i \in 1..Len(c) : f[i] = NewRate(f[i - 1], c[i])

LEMMA ReplayReplays ==
    ASSUME NEW c \in Seq(Nat)
    PROVE  \E f : Replays(c, f) /\ Replay(c) = f[Len(c)]
<1> DEFINE n == Len(c)
           R == Rates
           g == [p \in R \X (1..n) |-> NewRate(p[1], c[p[2]])]
           Eq(f) == f = [i \in 0..n |-> IF i = 0 THEN BaseRate ELSE NewRate(f[i - 1], c[i])]
           after == CHOOSE f : Eq(f)
<1>1. g \in [R \X (1..n) -> R] /\ n \in Nat /\ BaseRate \in R
  <2>1. ASSUME NEW p \in R \X (1..n) PROVE NewRate(p[1], c[p[2]]) \in R
    <3>1. p[1] \in R /\ c[p[2]] \in Nat
      OBVIOUS
    <3> QED
      BY <3>1, NewRateBounded
  <2>2. BaseRate \in R
    BY RatesAre
  <2> QED
    BY <2>1, <2>2
<1>2. \A a \in R, i \in 1..n : g[<<a, i>>] = NewRate(a, c[i])
  OBVIOUS
<1> HIDE DEF g, R
<1>3. PICK h : Recurs(h, n, R, BaseRate, g)
  BY <1>1, Recursion, Zenon
<1>4. h \in [0..n -> R] /\ h[0] = BaseRate /\ \A i \in 1..n : h[i] = g[<<h[i - 1], i>>]
  BY <1>3 DEF Recurs
<1>5. ASSUME NEW i \in 1..n PROVE h[i] = NewRate(h[i - 1], c[i])
  <2>1. h[i - 1] \in R
    BY <1>4
  <2> QED
    BY <1>2, <1>4, <2>1
<1>6. Eq(h)
  <2>1. \A i \in 0..n : h[i] = IF i = 0 THEN BaseRate ELSE NewRate(h[i - 1], c[i])
    BY <1>4, <1>5
  <2> QED
    BY <1>4, <2>1
<1>7. Eq(after)
  BY <1>6
<1>8. Replay(c) = after[n]
  BY DEF Replay
<1> HIDE DEF after
<1>9. after[0] = BaseRate /\ \A i \in 1..n : after[i] = NewRate(after[i - 1], c[i])
  BY <1>1, <1>7
<1>10. DOMAIN after = 0..n /\ after = [i \in 0..n |-> after[i]]
  BY <1>7
<1>11. \A i \in 0..n : after[i] = h[i]
  <2>1. after[0] = h[0]
    BY <1>4, <1>9
  <2>2. \A i \in 1..n : after[i - 1] = h[i - 1] => after[i] = h[i]
    BY <1>5, <1>9
  <2> HIDE DEF n
  <2>3. Alike(after, h, n)
    BY <2>1, <2>2 DEF Alike
  <2> QED
    BY <1>1, <2>3, Agree
<1>12. Replays(c, after)
  BY <1>4, <1>9, <1>10, <1>11 DEF Replays, R
<1> QED
  BY <1>8, <1>12

\* A window more is replayed on what the ones before it gave.
LEMMA ReplayGoesOn ==
    ASSUME NEW w \in Seq(Nat), NEW v \in Nat
    PROVE  Replay(Append(w, v)) = NewRate(Replay(w), v)
<1> DEFINE n == Len(w)
           c == Append(w, v)
<1>1. /\ c \in Seq(Nat) /\ Len(c) = n + 1 /\ n \in Nat /\ c[n + 1] = v
      /\ \A i \in 1..n : c[i] = w[i]
  OBVIOUS
<1>2. PICK f : Replays(w, f) /\ Replay(w) = f[n]
  BY ReplayReplays
<1>3. PICK h : Replays(c, h) /\ Replay(c) = h[Len(c)]
  BY <1>1, ReplayReplays
<1> HIDE DEF c
<1>a. f[0] = BaseRate /\ \A i \in 1..n : f[i] = NewRate(f[i - 1], w[i])
  BY <1>1, <1>2 DEF Replays
<1> HIDE DEF n
<1>4. h[0] = BaseRate /\ \A i \in 1..(n + 1) : h[i] = NewRate(h[i - 1], c[i])
  BY <1>1, <1>3 DEF Replays
<1>5. \A i \in 0..n : f[i] = h[i]
  <2>1. Alike(f, h, n)
    BY <1>1, <1>a, <1>4 DEF Alike
  <2> QED
    BY <1>1, <2>1, Agree
<1>6. h[n + 1] = NewRate(f[n], v)
  <2>1. h[n + 1] = NewRate(h[(n + 1) - 1], c[n + 1])
    BY <1>1, <1>4
  <2>2. h[n] = f[n] /\ (n + 1) - 1 = n
    BY <1>1, <1>5
  <2> QED
    BY <1>1, <2>1, <2>2
<1> QED
  BY <1>1, <1>2, <1>3, <1>6 DEF c

LEMMA ReplayOfNone == Replay(<<>>) = BaseRate
<1>1. <<>> \in Seq(Nat) /\ Len(<<>>) = 0
  OBVIOUS
<1>2. PICK f : Replays(<<>>, f) /\ Replay(<<>>) = f[Len(<<>>)]
  BY <1>1, ReplayReplays
<1> QED
  BY <1>1, <1>2 DEF Replays

\* Who is at "adjusting" has the lock; until it sets the rate, that is what the windows
\* before the one that it has closed give.
ReplayInv ==
    /\ \A p \in Procs : pc[p] = "adjusting" <=> lock = p
    /\ lock = None => rate = Replay(closed)
    /\ lock # None => \E w \in Seq(Nat) : closed = Append(w, closing[lock]) /\ rate = Replay(w)

\* The rate is what the windows give one after the other, although a window is taken and
\* its rate set in two steps, between which others count, take the time and read the rate.
THEOREM ReplayTheorem == Spec => []RateReplays
<1>0. None \notin Procs
  BY SamplersAssumption
<1>1. Init => ReplayInv
  BY <1>0, ReplayOfNone DEF Init, ReplayInv
<1>2. Types /\ ReplayInv /\ [Next]_vars => ReplayInv'
  <2> SUFFICES ASSUME Types, ReplayInv, [Next]_vars PROVE ReplayInv'
    OBVIOUS
  <2>0. UNCHANGED sampler
    BY DEF Next, Step, Tick, Start, ReadClock, CheckWindow, TakeVolume, SetRate, ReadRate,
       Count, KeySample, KeyMissing, AskFirst, First, Second
  <2>a. ASSUME NEW w, closed' = w PROVE Replay(closed)' = Replay(w)
    BY <2>0, <2>a DEF Replay, NewRate
  <2>b. /\ pc \in [Procs -> Labels] /\ closed \in Seq(Nat) /\ volume \in Nat
        /\ closing \in [Procs -> Nat] /\ lock \in Procs \cup {None}
    BY SamplersAssumption DEF Types
  <2>1. ASSUME NEW p \in Procs, TakeVolume(p) PROVE ReplayInv'
    <3>1. /\ lock = None /\ lock' = p /\ closing' = [closing EXCEPT ![p] = volume]
      BY <2>1 DEF TakeVolume, LockFree
    <3>a. closed' = Append(closed, volume) /\ rate' = rate
      BY <2>1 DEF TakeVolume, Goto
    <3>b. pc' = [pc EXCEPT ![p] = "adjusting"]
      BY <2>1 DEF TakeVolume, Goto
    <3>2. /\ lock' # None /\ closing'[lock'] = volume
          /\ \A q \in Procs : pc'[q] = "adjusting" <=> lock' = q
      BY <1>0, <2>b, <3>1, <3>b DEF ReplayInv
    <3>3. rate' = Replay(closed)
      BY <3>1, <3>a DEF ReplayInv
    <3>4. (\E w \in Seq(Nat) : closed = Append(w, closing[lock]) /\ rate = Replay(w))'
      <4>1. PICK w \in Seq(Nat) : w = closed
        BY <2>b
      <4>2. closed' = Append(w, closing'[lock']) /\ rate' = Replay(w)
        BY <3>a, <3>2, <3>3, <4>1
      <4>3. Replay(w)' = Replay(w)
        BY <2>0 DEF Replay, NewRate
      <4> QED
        BY <4>2, <4>3
    <3> QED
      BY <3>2, <3>4 DEF ReplayInv
  <2>2. ASSUME NEW p \in Procs, SetRate(p) PROVE ReplayInv'
    <3>1. pc[p] = "adjusting" /\ lock' = None /\ pc' = [pc EXCEPT ![p] = "rate"]
      BY <2>2 DEF SetRate, Goto
    <3>a. rate' = NewRate(rate, closing[p]) /\ closed' = closed
      BY <2>2 DEF SetRate, Goto
    <3>2. lock = p /\ lock # None
      BY <1>0, <3>1 DEF ReplayInv
    <3>3. PICK w \in Seq(Nat) : closed = Append(w, closing[p]) /\ rate = Replay(w)
      BY <3>2 DEF ReplayInv
    <3>4. Replay(Append(w, closing[p])) = NewRate(Replay(w), closing[p])
      BY <2>b, ReplayGoesOn
    <3>5. rate' = Replay(closed)'
      <4>1. PICK c : closed' = c
        OBVIOUS
      <4>2. Replay(closed)' = Replay(c)
        BY <2>a, <4>1
      <4> QED
        BY <3>a, <3>3, <3>4, <4>1, <4>2
    <3>6. \A q \in Procs : pc'[q] = "adjusting" <=> lock' = q
      BY <1>0, <2>b, <3>1, <3>2 DEF ReplayInv
    <3> QED
      BY <3>1, <3>5, <3>6 DEF ReplayInv
  <2>3. ASSUME UNCHANGED <<rate, closed, closing, lock>>,
               \A p \in Procs : pc'[p] = "adjusting" <=> pc[p] = "adjusting"
        PROVE  ReplayInv'
    <3>1. ASSUME lock = None PROVE rate' = Replay(closed)'
      <4>1. PICK c : closed' = c
        OBVIOUS
      <4>2. Replay(closed)' = Replay(c)
        BY <2>a, <4>1
      <4> QED
        BY <2>3, <3>1, <4>1, <4>2 DEF ReplayInv
    <3>2. ASSUME lock # None
          PROVE (\E w \in Seq(Nat) : closed = Append(w, closing[lock]) /\ rate = Replay(w))'
      <4>1. PICK w \in Seq(Nat) : closed = Append(w, closing[lock]) /\ rate = Replay(w)
        BY <3>2 DEF ReplayInv
      <4>2. closed' = Append(w, closing'[lock']) /\ rate' = Replay(w)
        BY <2>3, <4>1
      <4>3. Replay(w)' = Replay(w)
        BY <2>0 DEF Replay, NewRate
      <4> QED
        BY <4>2, <4>3
    <3>3. \A p \in Procs : pc'[p] = "adjusting" <=> lock' = p
      BY <2>3 DEF ReplayInv
    <3> QED
      BY <2>3, <3>1, <3>2, <3>3 DEF ReplayInv
  <2>4. ASSUME NEW p \in Procs,
               \/ Start(p) \/ AskFirst(p) \/ ReadClock(p) \/ CheckWindow(p)
               \/ ReadRate(p) \/ Count(p) \/ First(p) \/ Second(p)
        PROVE  ReplayInv'
    <3>1. UNCHANGED <<rate, closed, closing, lock>>
      BY <2>4 DEF Start, AskFirst, ReadClock, CheckWindow, ReadRate, Count, First, Second
    <3>a. pc[p] # "adjusting"
      BY <2>4 DEF Start, AskFirst, ReadClock, CheckWindow, ReadRate, Count, First, Second
    <3>b. \E l \in Labels \ {"adjusting"} : pc' = [pc EXCEPT ![p] = l]
      BY <2>4 DEF Start, AskFirst, ReadClock, CheckWindow, ReadRate, Count, First, Second,
                  Labels, Goto
    <3>2. \A q \in Procs : pc'[q] = "adjusting" <=> pc[q] = "adjusting"
      BY <2>b, <3>a, <3>b
    <3> QED
      BY <2>3, <3>1, <3>2
  <2>5. ASSUME \/ Tick \/ UNCHANGED vars
               \/ \E p \in Procs : KeyMissing(p) \/ \E v \in Values : KeySample(p, v)
        PROVE  ReplayInv'
    <3>1. UNCHANGED <<rate, closed, closing, lock, pc>>
      BY <2>5 DEF Tick, KeyMissing, KeySample
    <3> QED
      BY <2>3, <3>1
  <2> QED
    BY <2>1, <2>2, <2>4, <2>5 DEF Next, Step
<1>3. ReplayInv => RateReplays
  BY DEF ReplayInv, RateReplays
<1> QED
  BY <1>1, <1>2, <1>3, TypesInitially, TypesInductive, RouteInductive, PTL DEF Spec

================================================================================
