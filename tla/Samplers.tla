-------------------------------- MODULE Samplers --------------------------------
(***************************************************************************)
(* The samplers of src/sampling.go, shared by the goroutines that log.     *)
(* RateSampler, AdaptiveSampler and SpikeSampler count; the last two also  *)
(* count the volume of a window and set the rate when it is over; the      *)
(* volume, the counter and lastReset are read and changed outside of the   *)
(* lock that guards the rate.  KeySampler hashes a field's value.  A       *)
(* MultiSampler asks two RateSamplers, the second only when the first      *)
(* leaves the answer open.                                                 *)
(*                                                                         *)
(* For a rate that is a power of two the code takes the bits of the        *)
(* counter below it, which is the remainder as well.                       *)
(***************************************************************************)
EXTENDS Integers, FiniteSets, Sequences

CONSTANTS
    Procs,        \* goroutines
    BaseRate,     \* N of a RateSampler, s.BaseRate, s.NormalRate
    MaxRate,      \* s.MaxRate, s.SpikeRate
    WindowSize,   \* s.WindowSize
    Threshold,    \* s.Threshold
    Decay,        \* s.DecayFactor in tenths
    SecondRate,   \* N of the second RateSampler of a MultiSampler
    Values,       \* values of the field that a KeySampler looks at
    MaxTime,      \* bound: the clock
    MaxCalls      \* bound: calls of Sample

None == "none"

\* NewAdaptiveSampler and NewSpikeSampler replace what is not positive; they do
\* not compare the two rates.
ASSUME SamplersAssumption ==
    /\ BaseRate \in Nat \ {0} /\ MaxRate \in Nat \ {0}
    /\ WindowSize \in Nat \ {0} /\ Threshold \in Nat \ {0}
    /\ Decay \in 1..9
    /\ SecondRate \in Nat \ {0} /\ Values \subseteq Nat
    /\ MaxTime \in Nat /\ MaxCalls \in Nat /\ None \notin Procs

VARIABLES
    sampler,      \* "rate", "adaptive", "spike", "key", or "and" or "or": the
                  \* mode of a MultiSampler
    rate,         \* s.N, s.currentRate; for a spike sampler what inSpike selects
    counter, volume, lastReset,
    counter2,     \* the counter of the second sampler of a MultiSampler
    hashes,       \* the states of the hash functions in s.hashPool
    lock,         \* the goroutine that holds the lock for writing, or None
    now,
    pc,           \* where each goroutine is in Sample
    clock,        \* its now
    closing,      \* the volume it has swapped out
    myRate,       \* the rate it has read
    calls,
    closed,       \* history: volumes of the windows closed so far, in order
    passed,       \* history: entries sampled
    decisions     \* history: what a KeySampler has decided for each value

keyVars == <<hashes, decisions>>
samplerVars == <<rate, counter, volume, lastReset, lock>>
procVars == <<pc, clock, closing, myRate>>
multiVars == <<counter2, keyVars>>
vars == <<sampler, samplerVars, multiVars, now, procVars, calls, closed, passed>>

Init ==
    /\ sampler \in {"rate", "adaptive", "spike", "key", "and", "or"}
    /\ counter2 = 0 /\ hashes = {} /\ decisions = [v \in Values |-> {}]
    /\ rate = BaseRate /\ counter = 0 /\ volume = 0 /\ lastReset = 0
    /\ lock = None /\ now = 0
    /\ pc = [p \in Procs |-> "idle"]
    /\ clock = [p \in Procs |-> 0]
    /\ closing = [p \in Procs |-> 0]
    /\ myRate = [p \in Procs |-> 1]
    /\ calls = 0 /\ closed = <<>> /\ passed = 0

Goto(p, label) == pc' = [pc EXCEPT ![p] = label]

Windowed == sampler \in {"adaptive", "spike"}

\* Only the windows look at the clock.
Tick ==
    /\ now < MaxTime /\ Windowed
    /\ now' = now + 1
    /\ UNCHANGED <<sampler, multiVars, samplerVars, procVars, calls, closed, passed>>

--------------------------------------------------------------------------------
(* Sample                                                                   *)

\* RateSampler.Sample goes straight to the counter.
Start(p) ==
    /\ sampler = "rate" \/ Windowed
    /\ pc[p] = "idle" /\ calls < MaxCalls
    /\ calls' = calls + 1
    /\ IF sampler = "rate"
       THEN /\ Goto(p, "count") /\ myRate' = [myRate EXCEPT ![p] = rate]
            /\ UNCHANGED volume
       ELSE /\ Goto(p, "clock") /\ volume' = volume + 1
            /\ UNCHANGED myRate
    /\ UNCHANGED <<sampler, multiVars, rate, counter, lastReset, lock, now, clock, closing,
                   closed, passed>>

ReadClock(p) ==
    /\ pc[p] = "clock"
    /\ clock' = [clock EXCEPT ![p] = now]
    /\ Goto(p, "window")
    /\ UNCHANGED <<sampler, multiVars, samplerVars, now, closing, myRate, calls, closed,
                   passed>>

\* lastReset is read without the lock.
CheckWindow(p) ==
    /\ pc[p] = "window"
    /\ Goto(p, IF clock[p] - lastReset > WindowSize THEN "adjust" ELSE "rate")
    /\ UNCHANGED <<sampler, multiVars, samplerVars, now, clock, closing, myRate, calls,
                   closed, passed>>

\* Mutant: nothing is locked.
LockIgnored == TRUE

\* The lock can be taken for writing.
LockFree == lock = None

\* Mutant: the volume is not reset.
VolumeKept == volume

\* What atomic.SwapInt64 leaves in s.volume.
VolumeReset == 0

\* adjustSamplingRate and detectSpike: lock and swap the volume, ...
TakeVolume(p) ==
    /\ pc[p] = "adjust" /\ LockFree
    /\ lock' = p
    /\ closing' = [closing EXCEPT ![p] = volume]
    /\ volume' = VolumeReset
    /\ closed' = Append(closed, volume)
    /\ Goto(p, "adjusting")
    /\ UNCHANGED <<sampler, multiVars, rate, counter, lastReset, now, clock, myRate, calls,
                   passed>>

Smaller(a, b) == IF a < b THEN a ELSE b
Larger(a, b) == IF a > b THEN a ELSE b

\* Mutant: the doubled rate is not capped.
DoubledUncapped(r) == r * 2

Doubled(r) == Smaller(r * 2, MaxRate)
Decayed(r) == Larger((r * Decay) \div 10, BaseRate)

\* The rate after r when a window of volume v has been closed.
NewRate(r, v) ==
    IF sampler = "adaptive"
    THEN IF v > Threshold THEN Doubled(r) ELSE Decayed(r)
    ELSE IF v > Threshold THEN MaxRate ELSE BaseRate

WindowStart(p) == clock[p]

\* ... and set lastReset and the rate, and unlock.
SetRate(p) ==
    /\ pc[p] = "adjusting"
    /\ lastReset' = WindowStart(p)
    /\ rate' = NewRate(rate, closing[p])
    /\ lock' = None
    /\ closing' = [closing EXCEPT ![p] = 0]
    /\ Goto(p, "rate")
    /\ UNCHANGED <<sampler, multiVars, counter, volume, now, clock, myRate, calls, closed,
                   passed>>

ReadRate(p) ==
    /\ pc[p] = "rate" /\ lock = None
    /\ myRate' = [myRate EXCEPT ![p] = rate]
    /\ Goto(p, "count")
    /\ UNCHANGED <<sampler, multiVars, samplerVars, now, clock, closing, calls, closed,
                   passed>>

\* Mutant: the remainder is taken of one more.
PassesOneIn(c, n) == c % (n + 1) = 0

Passes(c, n) == c % n = 0

Count(p) ==
    /\ pc[p] = "count"
    /\ counter' = counter + 1
    /\ passed' = IF Passes(counter + 1, myRate[p]) THEN passed + 1 ELSE passed
    /\ clock' = [clock EXCEPT ![p] = 0]
    /\ myRate' = [myRate EXCEPT ![p] = 1]
    /\ Goto(p, "idle")
    /\ UNCHANGED <<sampler, multiVars, rate, volume, lastReset, lock, now, closing, calls,
                   closed>>

--------------------------------------------------------------------------------
(* KeySampler                                                               *)

FreshHash == 0

\* Stands for what FNV-1a makes of its state and a value.
Mix(h, v) == (h + v + 1) * 3

\* Mutant: a pooled hash function is used as it is.
NoReset(h) == h

\* h.Reset
Reset(h) == FreshHash

\* An entry with value v: a hash function, new or from the pool, which nobody else
\* has meanwhile, is reset, given v, and put back.
KeySample(p, v) ==
    /\ sampler = "key" /\ calls < MaxCalls /\ calls' = calls + 1
    /\ \E h \in hashes \cup {FreshHash} :
        LET sum    == Mix(Reset(h), v)
            answer == sum % BaseRate = 0
        IN /\ hashes' = (hashes \ {h}) \cup {sum}
           /\ decisions' = [decisions EXCEPT ![v] = @ \cup {answer}]
           /\ passed' = IF answer THEN passed + 1 ELSE passed
    /\ UNCHANGED <<sampler, samplerVars, counter2, now, procVars, closed>>

\* An entry without the field, or with a value that is not hashed.
KeyMissing(p) ==
    /\ sampler = "key" /\ calls < MaxCalls /\ calls' = calls + 1
    /\ passed' = passed + 1
    /\ UNCHANGED <<sampler, samplerVars, multiVars, now, procVars, closed>>

--------------------------------------------------------------------------------
(* MultiSampler                                                             *)

AskFirst(p) ==
    /\ sampler \in {"and", "or"} /\ pc[p] = "idle" /\ calls < MaxCalls
    /\ calls' = calls + 1
    /\ Goto(p, "first")
    /\ UNCHANGED <<sampler, samplerVars, multiVars, now, clock, closing, myRate,
                   closed, passed>>

\* Mutant: all samplers are asked.
DecidesNothing(answer) == FALSE

\* The first sampler's answer that ends the loop.
Decides(answer) == answer = (sampler = "or")

First(p) ==
    /\ pc[p] = "first"
    /\ counter' = counter + 1
    /\ LET answer == Passes(counter + 1, BaseRate) IN
        /\ Goto(p, IF Decides(answer) THEN "idle" ELSE "second")
        /\ passed' = IF Decides(answer) /\ answer THEN passed + 1 ELSE passed
    /\ UNCHANGED <<sampler, rate, volume, lastReset, lock, multiVars, now, clock,
                   closing, myRate, calls, closed>>

Second(p) ==
    /\ pc[p] = "second"
    /\ counter2' = counter2 + 1
    /\ passed' = IF Passes(counter2 + 1, SecondRate) THEN passed + 1 ELSE passed
    /\ Goto(p, "idle")
    /\ UNCHANGED <<sampler, samplerVars, keyVars, now, clock, closing, myRate,
                   calls, closed>>

--------------------------------------------------------------------------------

Step(p) ==
    \/ ReadClock(p) \/ CheckWindow(p) \/ TakeVolume(p) \/ SetRate(p)
    \/ ReadRate(p) \/ Count(p) \/ First(p) \/ Second(p)

Next ==
    \/ Tick
    \/ \E p \in Procs :
        \/ Start(p) \/ AskFirst(p) \/ Step(p)
        \/ KeyMissing(p) \/ \E v \in Values : KeySample(p, v)

Spec == Init /\ [][Next]_vars

--------------------------------------------------------------------------------
(* Properties.                                                              *)

TypeOK ==
    /\ sampler \in {"rate", "adaptive", "spike", "key", "and", "or"}
    /\ counter2 \in 0..counter /\ hashes \subseteq Nat
    /\ decisions \in [Values -> SUBSET BOOLEAN]
    /\ rate \in Nat \ {0} /\ counter \in 0..MaxCalls /\ volume \in 0..MaxCalls
    /\ lastReset \in 0..now /\ now \in 0..MaxTime
    /\ lock \in Procs \cup {None}
    /\ pc \in [Procs -> {"idle", "clock", "window", "adjust", "adjusting", "rate",
                         "count", "first", "second"}]
    /\ clock \in [Procs -> 0..now] /\ closing \in [Procs -> 0..MaxCalls]
    /\ myRate \in [Procs -> Nat \ {0}]
    /\ calls \in 0..MaxCalls /\ closed \in Seq(0..MaxCalls) /\ passed \in 0..calls

\* The rates between the two that are configured, whichever is the larger.
Rates == Smaller(BaseRate, MaxRate)..Larger(BaseRate, MaxRate)

\* Goroutines never divide by a rate that is not between the configured ones, in
\* whatever order they close windows.
RateBounded ==
    /\ rate \in Rates
    /\ \A p \in Procs : pc[p] = "count" => myRate[p] \in Rates

\* The sum of the volumes of some windows, ...
Total(windows) ==
    LET sum[n \in 0..Len(windows)] == IF n = 0 THEN 0 ELSE sum[n - 1] + windows[n]
    IN sum[Len(windows)]

\* ... and what they make of BaseRate when they are applied one after the other.
Replay(windows) ==
    LET after[n \in 0..Len(windows)] ==
            IF n = 0 THEN BaseRate ELSE NewRate(after[n - 1], windows[n])
    IN after[Len(windows)]

\* Every entry is counted in one window: goroutines that close the same window
\* twice, or count while it is closed, neither lose nor repeat one.
VolumeConserved == Windowed => volume + Total(closed) = calls

\* Whenever nobody holds the lock the rate is what the volumes closed so far
\* give when they are applied one after the other.
RateReplays == lock = None => rate = Replay(closed)

\* At a fixed rate, and with any number of goroutines, exactly one of N entries
\* is sampled.  Once all calls have returned a MultiSampler has sampled, in AndMode,
\* one in N2 of what its first sampler sampled, and in OrMode that and one in N2 of
\* the others, in whatever order its goroutines went from one to the other: the
\* second sampler counts only what the first leaves open.
OneInN ==
    /\ sampler = "rate" => passed = counter \div BaseRate
    /\ (\A p \in Procs : pc[p] = "idle") =>
        LET first == calls \div BaseRate IN
        /\ sampler = "and" => passed = first \div SecondRate
        /\ sampler = "or"  => passed = first + ((calls - first) \div SecondRate)

\* Entries with one value of the key are all sampled or none of them is, whatever
\* hash function of the pool they get.
KeyConsistent == \A v \in Values : Cardinality(decisions[v]) <= 1

================================================================================
