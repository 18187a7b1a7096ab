--------------------------- MODULE AsyncBufferProofs ---------------------------
(***************************************************************************)
(* Theorems about the ring buffer for every number of producers, every     *)
(* ring size, batch limit and bound.  The inductive invariant is built in  *)
(* layers, each proved with the ones before it.  First: who holds          *)
(* resizeLock, how far a resize has published the new ring, how the        *)
(* indexes relate to what goroutines have loaded of them, and the types.   *)
(* Then what the ring hands to its output: what batches and resizes are    *)
(* limited to and where an entry can be, so that none is written out twice *)
(* and the ring implements BoundedLog.  Last, its slots: which shards are  *)
(* held and what has become of the indexes that were claimed, so that a    *)
(* slot has one user at a time and, without resizes, no entry is written   *)
(* early, lost without a trace or forgotten by close.                      *)
(***************************************************************************)
EXTENDS AsyncBuffer, FiniteSetTheorems, TLAPS

USE DEF ringVars, statVars, rwVars, prodVars, resizeVars, workVars, closeVars,
        histVars, offProd, offResize, offWork, offClose, vars

--------------------------------------------------------------------------------
(* resizeLock.                                                              *)

Flushing == {"shards", "batch", "emit", "unlock", "advance"}

\* The write lock is held exactly during a resize, never together with a read
\* lock, and a flush past its first load holds a read lock.
LockInv ==
    /\ rwState = "held" <=> rz # "none"
    /\ rwState = "held" => readers = {}
    /\ rwState = "free" => rwWait = {}
    /\ wpc \in Flushing => Worker \in readers

\* LockInv is inductive: only RLock, RUnlock and the resize touch resizeLock.
THEOREM LockInvariant == Spec => []LockInv
<1>1. Init => LockInv
  BY DEF Init, LockInv, Flushing
<1>2. LockInv /\ [Next]_vars => LockInv'
  <2> SUFFICES ASSUME LockInv, [Next]_vars PROVE LockInv'
    OBVIOUS
  <2> USE DEF LockInv, Flushing, RLock, RUnlock, Unlock, Alive, At, ResizerAt,
              WorkerAt
  <2>1. ASSUME NEW p \in Producers, WriteStart(p) PROVE LockInv'
    BY <2>1 DEF WriteStart
  <2>2. ASSUME NEW p \in Producers, ProducerStep(p) PROVE LockInv'
    <3> p # Worker
      BY ConstantsAssumption
    <3>1. CASE SlowRLock(p)
      BY <3>1 DEF SlowRLock
    <3>2. CASE DropEntry(p) \/ Account(p)
      BY <3>2 DEF DropEntry, Account, Return
    <3>3. CASE \/ LoadReadIndex(p) \/ Claim(p) \/ ClaimLost(p)
               \/ EnterSlowPath(p) \/ Backoff(p) \/ SlowLoadWrite(p)
               \/ LockShard(p) \/ StoreEntry(p) \/ StoreOutOfRange(p)
      BY <3>3 DEF LoadReadIndex, Claim, ClaimLost, EnterSlowPath, Backoff,
                  SlowLoadWrite, LockShard, StoreEntry, StoreOutOfRange
    <3> QED
      BY <2>2, <3>1, <3>2, <3>3 DEF ProducerStep
  <2>3. CASE ResizeStep
    <3>1. CASE ResizeCheck \/ ResizeAnnounce \/ ResizeAcquire
      BY <3>1 DEF ResizeCheck, ResizeAnnounce, ResizeAcquire
    <3>2. CASE ResizeAbandon \/ PublishMask
      BY <3>2 DEF ResizeAbandon, PublishMask
    <3>3. CASE ResizeLoad \/ ResizeCopy \/ PublishBuffer \/ PublishSize
      BY <3>3 DEF ResizeLoad, ResizeCopy, PublishBuffer, PublishSize
    <3>4. ASSUME NEW k \in Shards, ResizeLockShard(k) PROVE LockInv'
      BY <3>4 DEF ResizeLockShard
    <3> QED
      BY <2>3, <3>1, <3>2, <3>3, <3>4 DEF ResizeStep
  <2>4. CASE WorkerTick \/ WorkerStop
    BY <2>4 DEF WorkerTick, WorkerStop
  <2>5. CASE FlushStep
    <3>1. CASE FlushEmpty \/ FlushAdvance
      BY <3>1 DEF FlushEmpty, FlushAdvance, AfterFlush
    <3>2. CASE \/ FlushLoad \/ FlushLockShard \/ FlushShardsLocked
               \/ FlushSkip \/ FlushTake
      BY <3>2 DEF FlushLoad, FlushLockShard, FlushShardsLocked, FlushSkip,
                  FlushTake
    <3>3. CASE FlushWrite \/ FlushWriteError \/ FlushUnlock
      BY <3>3 DEF FlushWrite, FlushWriteError, FlushUnlock
    <3> QED
      BY <2>5, <3>1, <3>2, <3>3 DEF FlushStep
  <2>6. CASE CloseSignal \/ CloseAgain \/ CloseReturn
    BY <2>6 DEF CloseSignal, CloseAgain, CloseReturn
  <2>7. CASE UNCHANGED vars
    BY <2>7
  <2> QED
    BY <2>1, <2>2, <2>3, <2>4, <2>5, <2>6, <2>7 DEF Next, Terminated
<1> QED
  BY <1>1, <1>2, PTL DEF Spec

--------------------------------------------------------------------------------
(* The ring a resize publishes.                                             *)

\* Array, size and mask agree except between the three stores that publish a
\* new ring, and there they differ by one doubling.
RingInv ==
    /\ size \in Nat \ {0} /\ mask \in Nat /\ bufLen \in Nat \ {0}
    /\ rz \in {"none", "recheck", "shards", "pubBuffer"}
          => bufLen = size /\ mask = size - 1
    /\ rz = "pubSize" => bufLen = 2 * size /\ mask = size - 1
    /\ rz = "pubMask" => bufLen = size

\* RingInv is inductive given LockInv, which says that a resize begins when
\* no other one is under way.
THEOREM RingInvariant == Spec => []RingInv
<1>1. Init => RingInv
  BY ConstantsAssumption DEF Init, RingInv
<1>2. LockInv /\ RingInv /\ [Next]_vars => RingInv'
  <2> SUFFICES ASSUME LockInv, RingInv, [Next]_vars PROVE RingInv'
    OBVIOUS
  <2> USE DEF RingInv, Alive, At, ResizerAt, WorkerAt
  <2>1. ASSUME NEW p \in Producers, WriteStart(p) PROVE RingInv'
    BY <2>1 DEF WriteStart
  <2>2. ASSUME NEW p \in Producers, ProducerStep(p) PROVE RingInv'
    BY <2>2 DEF ProducerStep, LoadReadIndex, Claim, ClaimLost, EnterSlowPath,
         Backoff, SlowRLock, SlowLoadWrite, LockShard, StoreEntry,
         StoreOutOfRange, DropEntry, Account
  <2>3. CASE ResizeStep
    <3>1. CASE ResizeAcquire
      BY <3>1 DEF ResizeAcquire, LockInv
    <3>2. CASE PublishBuffer \/ PublishSize \/ PublishMask
      BY <3>2 DEF PublishBuffer, PublishSize, PublishMask, newSize
    <3>3. CASE ResizeCheck \/ ResizeAnnounce \/ ResizeAbandon \/ ResizeLoad
               \/ ResizeCopy
      BY <3>3 DEF ResizeCheck, ResizeAnnounce, ResizeAbandon, ResizeLoad,
                  ResizeCopy
    <3>4. ASSUME NEW k \in Shards, ResizeLockShard(k) PROVE RingInv'
      BY <3>4 DEF ResizeLockShard
    <3> QED
      BY <2>3, <3>1, <3>2, <3>3, <3>4 DEF ResizeStep
  <2>4. CASE WorkerTick \/ WorkerStop \/ FlushStep
    BY <2>4 DEF WorkerTick, WorkerStop, FlushStep, FlushEmpty, FlushLoad,
         FlushLockShard, FlushShardsLocked, FlushSkip, FlushTake, FlushWrite,
         FlushWriteError, FlushUnlock, FlushAdvance
  <2>5. CASE CloseSignal \/ CloseAgain \/ CloseReturn
    BY <2>5 DEF CloseSignal, CloseAgain, CloseReturn
  <2>6. CASE UNCHANGED vars
    BY <2>6
  <2> QED
    BY <2>1, <2>2, <2>3, <2>4, <2>5, <2>6 DEF Next, Terminated
<1> QED
  BY <1>1, <1>2, LockInvariant, PTL DEF Spec

\* Whoever holds resizeLock for reading sees one ring: flush and the slow path
\* of write never index an array with the mask of another one.
THEOREM ReadersSeeWholeRingTheorem == Spec => []ReadersSeeWholeRing
<1>1. LockInv /\ RingInv => ReadersSeeWholeRing
  BY DEF LockInv, RingInv, ReadersSeeWholeRing
<1> QED
  BY <1>1, LockInvariant, RingInvariant, PTL

--------------------------------------------------------------------------------
(* The two indexes and what goroutines have loaded of them.                 *)

\* What a goroutine has loaded of an index is at most its present value, a
\* claim counted room as the ring had it, and a batch ends at writeIndex.
IndexInv ==
    /\ readIndex \in Nat /\ writeIndex \in Nat /\ fEnd \in Nat
    /\ w \in [Producers -> Nat] /\ r \in [Producers -> Nat]
    /\ pc \in [Producers -> {"idle", "loadRead", "claim", "rlock", "loadWrite",
                             "lock", "store", "account"}]
    /\ \A p \in Producers :
          /\ w[p] <= writeIndex /\ r[p] <= readIndex
          /\ pc[p] \in {"lock", "store", "account"} => usage(p) \in 1..size
    /\ wpc \in Flushing => readIndex <= fEnd /\ fEnd <= writeIndex
    /\ Capacity

\* IndexInv is inductive: only the worker moves readIndex, and a swap succeeds
\* only on the writeIndex that was loaded.
THEOREM IndexInvariant == Spec => []IndexInv
<1> USE DEF Capacity, usage, Flushing
<1>1. Init => IndexInv
  BY ConstantsAssumption DEF Init, IndexInv
<1>2. RingInv /\ RingInv' /\ IndexInv /\ [Next]_vars => IndexInv'
  <2> SUFFICES ASSUME RingInv, RingInv', IndexInv, [Next]_vars PROVE IndexInv'
    OBVIOUS
  <2> USE DEF IndexInv, Alive, At, ResizerAt, WorkerAt
  <2>0. size \in Nat \ {0} /\ size' \in Nat \ {0}
    BY DEF RingInv
  <2>1. ASSUME NEW p \in Producers, WriteStart(p) PROVE IndexInv'
    BY <2>0, <2>1 DEF WriteStart
  <2>2. ASSUME NEW p \in Producers, ProducerStep(p) PROVE IndexInv'
    <3>1. CASE LoadReadIndex(p)
      BY <2>0, <3>1 DEF LoadReadIndex
    <3>2. CASE Claim(p)
      BY <2>0, <3>2 DEF Claim, Swaps
    <3>3. CASE ClaimLost(p) \/ EnterSlowPath(p) \/ Backoff(p)
      BY <2>0, <3>3 DEF ClaimLost, EnterSlowPath, Backoff
    <3>4. CASE SlowRLock(p) \/ SlowLoadWrite(p)
      BY <2>0, <3>4 DEF SlowRLock, SlowLoadWrite
    <3>5. CASE LockShard(p) \/ StoreEntry(p) \/ StoreOutOfRange(p)
      BY <2>0, <3>5 DEF LockShard, StoreEntry, StoreOutOfRange
    <3>6. CASE DropEntry(p) \/ Account(p)
      BY <2>0, <3>6 DEF DropEntry, Account, Return
    <3> QED
      BY <2>2, <3>1, <3>2, <3>3, <3>4, <3>5, <3>6 DEF ProducerStep
  <2>3. CASE ResizeStep
    <3>1. CASE PublishSize
      BY <2>0, <3>1 DEF PublishSize, newSize
    <3>2. CASE \/ ResizeCheck \/ ResizeAnnounce \/ ResizeAcquire
               \/ ResizeAbandon \/ ResizeLoad \/ ResizeCopy
               \/ PublishBuffer \/ PublishMask
      BY <2>0, <3>2 DEF ResizeCheck, ResizeAnnounce, ResizeAcquire,
           ResizeAbandon, ResizeLoad, ResizeCopy, PublishBuffer, PublishMask
    <3>3. ASSUME NEW k \in Shards, ResizeLockShard(k) PROVE IndexInv'
      BY <2>0, <3>3 DEF ResizeLockShard
    <3> QED
      BY <2>3, <3>1, <3>2, <3>3 DEF ResizeStep
  <2>4. CASE WorkerTick \/ WorkerStop
    BY <2>0, <2>4 DEF WorkerTick, WorkerStop
  <2>5. CASE FlushStep
    <3>1. CASE FlushEmpty
      BY <2>0, <3>1 DEF FlushEmpty, AfterFlush
    <3>2. CASE FlushLoad
      BY <2>0, <3>2, ConstantsAssumption DEF FlushLoad, batchSize
    <3>3. CASE \/ FlushLockShard \/ FlushShardsLocked \/ FlushSkip \/ FlushTake
               \/ FlushWrite \/ FlushWriteError \/ FlushUnlock
      BY <2>0, <3>3 DEF FlushLockShard, FlushShardsLocked, FlushSkip, FlushTake,
           FlushWrite, FlushWriteError, FlushUnlock
    <3>4. CASE FlushAdvance
      BY <2>0, <3>4 DEF FlushAdvance, AfterFlush, endIndex
    <3> QED
      BY <2>5, <3>1, <3>2, <3>3, <3>4 DEF FlushStep
  <2>6. CASE CloseSignal \/ CloseAgain \/ CloseReturn
    BY <2>0, <2>6 DEF CloseSignal, CloseAgain, CloseReturn
  <2>7. CASE UNCHANGED vars
    BY <2>0, <2>7
  <2> QED
    BY <2>1, <2>2, <2>3, <2>4, <2>5, <2>6, <2>7 DEF Next, Terminated
<1> QED
  BY <1>1, <1>2, RingInvariant, PTL DEF Spec

\* The ring never overfills, for any number of writers, resizes and sizes.
THEOREM CapacityTheorem == Spec => []Capacity
<1>1. IndexInv => Capacity
  BY DEF IndexInv
<1> QED
  BY <1>1, IndexInvariant, PTL

--------------------------------------------------------------------------------
(* The metric.                                                              *)

\* The percentage that write computes from a usage within the ring.
LEMMA PercentBound ==
    ASSUME NEW a \in Nat, NEW b \in Nat \ {0}, a <= b
    PROVE  (a * 100) \div b \in 0..100
<1> DEFINE q == (a * 100) \div b
<1>1. q \in Int /\ b * q <= a * 100 /\ a * 100 < b * q + b
  OBVIOUS
<1>2. q <= 100
  <2> SUFFICES ASSUME q >= 101 PROVE FALSE
    BY <1>1
  <2>1. b * 101 <= b * q
    BY <1>1
  <2> QED
    BY <1>1, <2>1
<1>3. q >= 0
  <2> SUFFICES ASSUME q <= -1 PROVE FALSE
    BY <1>1
  <2>1. b * q <= b * (-1)
    BY <1>1
  <2> QED
    BY <1>1, <2>1
<1> QED
  BY <1>1, <1>2, <1>3

\* The metric stays a percentage although the two indexes it is computed from
\* are loaded at different times and the ring may double in between.
THEOREM UtilizationTheorem == Spec => []UtilizationInRange
<1> USE DEF UtilizationInRange
<1>1. Init => UtilizationInRange
  BY DEF Init
<1>2. RingInv /\ IndexInv /\ UtilizationInRange /\ [Next]_vars
         => UtilizationInRange'
  <2> SUFFICES ASSUME RingInv, IndexInv, UtilizationInRange, [Next]_vars
               PROVE  UtilizationInRange'
    OBVIOUS
  <2>1. ASSUME NEW p \in Producers, Account(p) PROVE UtilizationInRange'
    <3>1. usage(p) \in 1..size /\ size \in Nat \ {0}
      BY <2>1 DEF IndexInv, RingInv, Account, At
    <3>2. (usage(p) * 100) \div size \in 0..100
      BY <3>1, PercentBound
    <3> QED
      BY <2>1, <3>2 DEF Account
  <2>2. ASSUME NEW p \in Producers, WriteStart(p) \/ ProducerStep(p),
               ~Account(p)
        PROVE  UtilizationInRange'
    BY <2>2 DEF WriteStart, ProducerStep, LoadReadIndex, Claim, ClaimLost,
         DropEntry, EnterSlowPath, Backoff, SlowRLock, SlowLoadWrite,
         LockShard, StoreEntry, StoreOutOfRange
  <2>3. CASE ResizeStep
    BY <2>3 DEF ResizeStep, ResizeCheck, ResizeAnnounce, ResizeAcquire,
         ResizeAbandon, ResizeLoad, ResizeLockShard, ResizeCopy, PublishBuffer,
         PublishSize, PublishMask
  <2>4. CASE WorkerTick \/ WorkerStop \/ FlushStep
    BY <2>4 DEF WorkerTick, WorkerStop, FlushStep, FlushEmpty, FlushLoad,
         FlushLockShard, FlushShardsLocked, FlushSkip, FlushTake, FlushWrite,
         FlushWriteError, FlushUnlock, FlushAdvance
  <2>5. CASE CloseSignal \/ CloseAgain \/ CloseReturn
    BY <2>5 DEF CloseSignal, CloseAgain, CloseReturn
  <2>6. CASE UNCHANGED vars
    BY <2>6
  <2> QED
    BY <2>1, <2>2, <2>3, <2>4, <2>5, <2>6 DEF Next, Terminated
<1> QED
  BY <1>1, <1>2, RingInvariant, IndexInvariant, PTL DEF Spec

--------------------------------------------------------------------------------
(* Types.                                                                   *)

\* A masked index is a slot of the array.
LEMMA ModRange ==
    ASSUME NEW a \in Nat, NEW b \in Nat \ {0}
    PROVE  a % b \in 0..(b - 1)
OBVIOUS

\* The producers' variables.
THEOREM ProducerTypesInvariant == Spec => []ProducerTypes
<1> USE DEF Entry, Nil
<1>1. Init => ProducerTypes
  BY ConstantsAssumption DEF Init, ProducerTypes
<1>2. RingInv /\ IndexInv /\ ProducerTypes /\ [Next]_vars => ProducerTypes'
  <2> SUFFICES ASSUME RingInv, IndexInv, ProducerTypes, [Next]_vars PROVE
         ProducerTypes'
    OBVIOUS
  <2> USE DEF ProducerTypes, Alive, At, ResizerAt, WorkerAt
  <2>1. ASSUME NEW p \in Producers, WriteStart(p) PROVE ProducerTypes'
    BY <2>1 DEF WriteStart, IndexInv
  <2>2. ASSUME NEW p \in Producers, LoadReadIndex(p) PROVE ProducerTypes'
    BY <2>2 DEF LoadReadIndex, IndexInv
  <2>3. ASSUME NEW p \in Producers, DropEntry(p) PROVE ProducerTypes'
    BY <2>3, ConstantsAssumption DEF DropEntry, Return
  <2>4. ASSUME NEW p \in Producers, Backoff(p) PROVE ProducerTypes'
    BY <2>4 DEF Backoff, MayRetry, CountRetry
  <2>5. ASSUME NEW p \in Producers, SlowRLock(p) PROVE ProducerTypes'
    BY <2>5 DEF SlowRLock
  <2>6. ASSUME NEW p \in Producers, SlowLoadWrite(p) PROVE ProducerTypes'
    BY <2>6 DEF SlowLoadWrite, IndexInv
  <2>7. ASSUME NEW p \in Producers, LockShard(p) PROVE ProducerTypes'
    BY <2>7 DEF LockShard, RingInv
  <2>8. ASSUME NEW p \in Producers, StoreEntry(p) PROVE ProducerTypes'
    BY <2>8 DEF StoreEntry
  <2>9. ASSUME NEW p \in Producers, Account(p) PROVE ProducerTypes'
    BY <2>9, ConstantsAssumption DEF Account, Return
  <2>10. ASSUME NEW p \in Producers,
               Claim(p) \/ ClaimLost(p) \/ EnterSlowPath(p) \/ StoreOutOfRange(p)
        PROVE  ProducerTypes'
    BY <2>10
       DEF Claim, ClaimLost, EnterSlowPath, StoreOutOfRange
  <2>11. CASE ResizeCheck \/ ResizeAnnounce \/ ResizeAcquire \/ ResizeAbandon \/
             ResizeLoad \/ ResizeCopy \/ PublishBuffer \/ PublishSize \/
             PublishMask
    BY <2>11
       DEF ResizeCheck, ResizeAnnounce, ResizeAcquire, ResizeAbandon,
           ResizeLoad, ResizeCopy, PublishBuffer, PublishSize, PublishMask
  <2>12. ASSUME NEW k \in Shards, ResizeLockShard(k) PROVE ProducerTypes'
    BY <2>12 DEF ResizeLockShard
  <2>13. CASE WorkerTick \/ WorkerStop \/ FlushEmpty \/ FlushLoad \/
             FlushLockShard \/ FlushShardsLocked \/ FlushSkip \/ FlushTake \/
             FlushWrite \/ FlushWriteError \/ FlushUnlock \/ FlushAdvance
    BY <2>13
       DEF WorkerTick, WorkerStop, FlushEmpty, FlushLoad, FlushLockShard,
           FlushShardsLocked, FlushSkip, FlushTake, FlushWrite,
           FlushWriteError, FlushUnlock, FlushAdvance
  <2>14. CASE CloseSignal \/ CloseAgain \/ CloseReturn
    BY <2>14
       DEF CloseSignal, CloseAgain, CloseReturn
  <2>15. CASE UNCHANGED vars
    BY <2>15
  <2> QED
    BY <2>1, <2>2, <2>3, <2>4, <2>5, <2>6, <2>7, <2>8, <2>9, <2>10, <2>11,
       <2>12, <2>13, <2>14, <2>15
       DEF Next, Terminated, ProducerStep, ResizeStep, FlushStep
<1> QED
  BY <1>1, <1>2, RingInvariant, IndexInvariant, PTL DEF Spec

\* The variables of close and of the process.
THEOREM CloseTypesInvariant == Spec => []CloseTypes
<1>1. Init => CloseTypes
  BY ConstantsAssumption DEF Init, CloseTypes
<1>2. IndexInv /\ CloseTypes /\ [Next]_vars => CloseTypes'
  <2> SUFFICES ASSUME IndexInv, CloseTypes, [Next]_vars PROVE CloseTypes'
    OBVIOUS
  <2> USE ConstantsAssumption DEF CloseTypes, Alive, At, ResizerAt, WorkerAt
  <2>1. ASSUME NEW p \in Producers,
               LoadReadIndex(p) \/ Claim(p) \/ ClaimLost(p) \/
               DropEntry(p) \/ EnterSlowPath(p) \/ Backoff(p) \/ SlowRLock(p) \/
               SlowLoadWrite(p) \/ LockShard(p) \/ StoreEntry(p) \/
               Account(p)
        PROVE  CloseTypes'
    BY <2>1
       DEF LoadReadIndex, Claim, ClaimLost, DropEntry,
           EnterSlowPath, Backoff, SlowRLock, SlowLoadWrite, LockShard,
           StoreEntry, Account
  <2>2. ASSUME NEW p \in Producers, WriteStart(p) PROVE CloseTypes'
    BY <2>2 DEF WriteStart
  <2>3. ASSUME NEW p \in Producers, StoreOutOfRange(p) PROVE CloseTypes'
    BY <2>3 DEF StoreOutOfRange
  <2>4. CASE ResizeCheck \/ ResizeAnnounce \/ ResizeAcquire \/ ResizeAbandon \/
             ResizeLoad \/ ResizeCopy \/ PublishBuffer \/ PublishSize \/
             PublishMask
    BY <2>4
       DEF ResizeCheck, ResizeAnnounce, ResizeAcquire, ResizeAbandon,
           ResizeLoad, ResizeCopy, PublishBuffer, PublishSize, PublishMask
  <2>5. ASSUME NEW k \in Shards, ResizeLockShard(k) PROVE CloseTypes'
    BY <2>5 DEF ResizeLockShard
  <2>6. CASE WorkerTick \/ WorkerStop \/ FlushEmpty \/ FlushLoad \/
             FlushLockShard \/ FlushShardsLocked \/ FlushSkip \/ FlushTake \/
             FlushWrite \/ FlushWriteError \/ FlushUnlock \/ FlushAdvance
    BY <2>6
       DEF WorkerTick, WorkerStop, FlushEmpty, FlushLoad, FlushLockShard,
           FlushShardsLocked, FlushSkip, FlushTake, FlushWrite,
           FlushWriteError, FlushUnlock, FlushAdvance
  <2>7. CASE CloseSignal
    BY <2>7 DEF CloseSignal, Acked, IndexInv
  <2>8. CASE CloseAgain
    BY <2>8 DEF CloseAgain
  <2>9. CASE CloseReturn
    BY <2>9 DEF CloseReturn
  <2>10. CASE UNCHANGED vars
    BY <2>10
  <2> QED
    BY <2>1, <2>2, <2>3, <2>4, <2>5, <2>6, <2>7, <2>8, <2>9, <2>10
       DEF Next, Terminated, ProducerStep, ResizeStep, FlushStep
<1> QED
  BY <1>1, <1>2, IndexInvariant, PTL DEF Spec

\* The locks.
THEOREM LockTypesInvariant == Spec => []LockTypes
<1> USE DEF Goroutines
<1>1. Init => LockTypes
  BY ConstantsAssumption DEF Init, LockTypes
<1>2. IndexInv /\ LockTypes /\ [Next]_vars => LockTypes'
  <2> SUFFICES ASSUME IndexInv, LockTypes, [Next]_vars PROVE LockTypes'
    OBVIOUS
  <2> USE DEF LockTypes, Alive, At, ResizerAt, WorkerAt
  <2>1. ASSUME NEW p \in Producers, DropEntry(p) PROVE LockTypes'
    BY <2>1 DEF DropEntry, Return, RUnlock
  <2>2. ASSUME NEW p \in Producers, SlowRLock(p) PROVE LockTypes'
    BY <2>2 DEF SlowRLock, RLock
  <2>3. ASSUME NEW p \in Producers, LockShard(p) PROVE LockTypes'
    BY <2>3 DEF LockShard
  <2>4. ASSUME NEW p \in Producers, StoreEntry(p) PROVE LockTypes'
    BY <2>4 DEF StoreEntry
  <2>5. ASSUME NEW p \in Producers, Account(p) PROVE LockTypes'
    BY <2>5 DEF Account, Return, RUnlock
  <2>6. ASSUME NEW p \in Producers,
               WriteStart(p) \/ LoadReadIndex(p) \/ Claim(p) \/ ClaimLost(p) \/
               EnterSlowPath(p) \/ Backoff(p) \/ SlowLoadWrite(p) \/
               StoreOutOfRange(p)
        PROVE  LockTypes'
    BY <2>6
       DEF WriteStart, LoadReadIndex, Claim, ClaimLost, EnterSlowPath,
           Backoff, SlowLoadWrite, StoreOutOfRange
  <2>7. CASE ResizeAbandon
    BY <2>7 DEF ResizeAbandon, Unlock
  <2>8. ASSUME NEW k \in Shards, ResizeLockShard(k) PROVE LockTypes'
    BY <2>8 DEF ResizeLockShard
  <2>9. CASE ResizeCopy
    BY <2>9 DEF ResizeCopy
  <2>10. CASE PublishMask
    BY <2>10 DEF PublishMask, Unlock
  <2>11. CASE ResizeCheck \/ ResizeAnnounce \/ ResizeAcquire \/ ResizeLoad \/
             PublishBuffer \/ PublishSize
    BY <2>11
       DEF ResizeCheck, ResizeAnnounce, ResizeAcquire, ResizeLoad,
           PublishBuffer, PublishSize
  <2>12. CASE WorkerTick
    BY <2>12 DEF WorkerTick, RLock
  <2>13. CASE WorkerStop
    BY <2>13 DEF WorkerStop, RLock
  <2>14. CASE FlushEmpty
    BY <2>14 DEF FlushEmpty, RUnlock
  <2>15. CASE FlushLockShard
    BY <2>15 DEF FlushLockShard
  <2>16. CASE FlushUnlock
    BY <2>16 DEF FlushUnlock
  <2>17. CASE FlushAdvance
    BY <2>17 DEF FlushAdvance, RUnlock
  <2>18. CASE FlushLoad \/ FlushShardsLocked \/ FlushSkip \/ FlushTake \/
             FlushWrite \/ FlushWriteError
    BY <2>18
       DEF FlushLoad, FlushShardsLocked, FlushSkip, FlushTake, FlushWrite,
           FlushWriteError
  <2>19. CASE CloseSignal \/ CloseAgain \/ CloseReturn
    BY <2>19
       DEF CloseSignal, CloseAgain, CloseReturn
  <2>20. CASE UNCHANGED vars
    BY <2>20
  <2> QED
    BY <2>1, <2>2, <2>3, <2>4, <2>5, <2>6, <2>7, <2>8, <2>9, <2>10, <2>11,
       <2>12, <2>13, <2>14, <2>15, <2>16, <2>17, <2>18, <2>19, <2>20
       DEF Next, Terminated, ProducerStep, ResizeStep, FlushStep
<1> QED
  BY <1>1, <1>2, IndexInvariant, PTL DEF Spec

\* The variables of maybeResize and the metrics.
THEOREM ResizeTypesInvariant == Spec => []ResizeTypes
<1>1. Init => ResizeTypes
  BY ConstantsAssumption DEF Init, ResizeTypes
<1>2. RingInv /\ IndexInv /\ ResizeTypes /\ [Next]_vars => ResizeTypes'
  <2> SUFFICES ASSUME RingInv, IndexInv, ResizeTypes, [Next]_vars PROVE
         ResizeTypes'
    OBVIOUS
  <2> USE DEF ResizeTypes, Alive, At, ResizerAt, WorkerAt
  <2>1. ASSUME NEW p \in Producers, DropEntry(p) PROVE ResizeTypes'
    BY <2>1 DEF DropEntry, Drops
  <2>2. ASSUME NEW p \in Producers, Account(p) PROVE ResizeTypes'
    <3>1. usage(p) \in 1..size /\ size \in Nat \ {0}
      BY <2>2 DEF Account, IndexInv, RingInv
    <3>2. (usage(p) * 100) \div size \in 0..100
      BY <3>1, PercentBound
    <3> QED
      BY <2>2, <3>2 DEF Account
  <2>3. ASSUME NEW p \in Producers,
               WriteStart(p) \/ LoadReadIndex(p) \/ Claim(p) \/ ClaimLost(p) \/
               EnterSlowPath(p) \/ Backoff(p) \/ SlowRLock(p) \/ SlowLoadWrite(p) \/
               LockShard(p) \/ StoreEntry(p) \/ StoreOutOfRange(p)
        PROVE  ResizeTypes'
    BY <2>3
       DEF WriteStart, LoadReadIndex, Claim, ClaimLost, EnterSlowPath,
           Backoff, SlowRLock, SlowLoadWrite, LockShard, StoreEntry,
           StoreOutOfRange
  <2>4. CASE ResizeLoad
    BY <2>4 DEF ResizeLoad, IndexInv
  <2>5. CASE ResizeCheck \/ ResizeAnnounce \/ ResizeAcquire \/ ResizeAbandon \/
             ResizeCopy \/ PublishBuffer \/ PublishSize \/ PublishMask
    BY <2>5
       DEF ResizeCheck, ResizeAnnounce, ResizeAcquire, ResizeAbandon,
           ResizeCopy, PublishBuffer, PublishSize, PublishMask
  <2>6. ASSUME NEW k \in Shards, ResizeLockShard(k) PROVE ResizeTypes'
    BY <2>6 DEF ResizeLockShard
  <2>7. CASE WorkerTick \/ WorkerStop \/ FlushEmpty \/ FlushLoad \/
             FlushLockShard \/ FlushShardsLocked \/ FlushSkip \/ FlushTake \/
             FlushWrite \/ FlushWriteError \/ FlushUnlock \/ FlushAdvance
    BY <2>7
       DEF WorkerTick, WorkerStop, FlushEmpty, FlushLoad, FlushLockShard,
           FlushShardsLocked, FlushSkip, FlushTake, FlushWrite,
           FlushWriteError, FlushUnlock, FlushAdvance
  <2>8. CASE CloseSignal \/ CloseAgain \/ CloseReturn
    BY <2>8
       DEF CloseSignal, CloseAgain, CloseReturn
  <2>9. CASE UNCHANGED vars
    BY <2>9
  <2> QED
    BY <2>1, <2>2, <2>3, <2>4, <2>5, <2>6, <2>7, <2>8, <2>9
       DEF Next, Terminated, ProducerStep, ResizeStep, FlushStep
<1> QED
  BY <1>1, <1>2, RingInvariant, IndexInvariant, PTL DEF Spec

\* The arrays: a resize copies from slots that exist.
THEOREM RingTypesInvariant == Spec => []RingTypes
<1> USE DEF Entry, Nil
<1>1. Init => RingTypes
  BY ConstantsAssumption DEF Init, RingTypes
<1>2. LockInv /\ RingInv /\ RingInv' /\ IndexInv /\ IndexInv' /\ RingTypes /\ [Next]_vars => RingTypes'
  <2> SUFFICES ASSUME LockInv, RingInv, RingInv', IndexInv, IndexInv', RingTypes,
         [Next]_vars PROVE RingTypes'
    OBVIOUS
  <2> USE DEF newSize, RingTypes, Alive, At, ResizerAt, WorkerAt
  <2>1. ASSUME NEW p \in Producers, Claim(p) PROVE RingTypes'
    BY <2>1 DEF Claim, newSize
  <2>2. ASSUME NEW p \in Producers, StoreEntry(p) PROVE RingTypes'
    BY <2>2 DEF StoreEntry, IndexInv, newSize
  <2>3. ASSUME NEW p \in Producers,
               WriteStart(p) \/ LoadReadIndex(p) \/ ClaimLost(p) \/ DropEntry(p) \/
               EnterSlowPath(p) \/ Backoff(p) \/ SlowRLock(p) \/ SlowLoadWrite(p) \/
               LockShard(p) \/ StoreOutOfRange(p) \/ Account(p)
        PROVE  RingTypes'
    BY <2>3
       DEF WriteStart, LoadReadIndex, ClaimLost, DropEntry, EnterSlowPath,
           Backoff, SlowRLock, SlowLoadWrite, LockShard, StoreOutOfRange,
           Account
  <2>4. CASE ResizeAcquire
    BY <2>4 DEF ResizeAcquire, LockInv
  <2>5. CASE ResizeCopy
    <3>1. bufLen = size /\ mask + 1 = size
      BY <2>5 DEF ResizeCopy, RingInv
    <3>2. ASSUME NEW s \in 0..(newSize - 1) PROVE Copied(s) \in Entry
      <4> DEFINE Src == readIndex..(rzWrite - 1)
      <4>1. \A i \in Src : i \in Nat
        OBVIOUS
      <4>2. \A i \in Src : i % (mask + 1) \in 0..(bufLen - 1)
        BY <3>1, <4>1, ModRange
      <4>3. \A i \in Src : buffer[i % (mask + 1)] \in Entry
        BY <4>2
      <4> DEFINE c == CHOOSE i \in Src : i % newSize = s
      <4>4. (\E i \in Src : i % newSize = s) => c \in Src
        OBVIOUS
      <4> QED
        BY <4>3, <4>4 DEF Copied
    <3>3. newBuffer' \in [0..(newSize - 1) -> Entry] /\ newSize' = newSize
      BY <2>5, <3>2 DEF ResizeCopy, newSize
    <3> QED
      BY <2>5, <3>3 DEF ResizeCopy
  <2>6. CASE PublishBuffer
    BY <2>6 DEF PublishBuffer, newSize
  <2>7. CASE PublishSize
    BY <2>7 DEF PublishSize, newSize
  <2>8. CASE ResizeCheck \/ ResizeAnnounce \/ ResizeAbandon \/ ResizeLoad \/
             PublishMask
    BY <2>8
       DEF ResizeCheck, ResizeAnnounce, ResizeAbandon, ResizeLoad,
           PublishMask
  <2>9. ASSUME NEW k \in Shards, ResizeLockShard(k) PROVE RingTypes'
    BY <2>9 DEF ResizeLockShard
  <2>10. CASE FlushWrite
    BY <2>10 DEF FlushWrite, ClearSlot, newSize
  <2>11. CASE FlushAdvance
    BY <2>11 DEF FlushAdvance, endIndex, IndexInv, newSize
  <2>12. CASE WorkerTick \/ WorkerStop \/ FlushEmpty \/ FlushLoad \/
             FlushLockShard \/ FlushShardsLocked \/ FlushSkip \/ FlushTake \/
             FlushWriteError \/ FlushUnlock
    BY <2>12
       DEF WorkerTick, WorkerStop, FlushEmpty, FlushLoad, FlushLockShard,
           FlushShardsLocked, FlushSkip, FlushTake, FlushWriteError,
           FlushUnlock
  <2>13. CASE CloseSignal \/ CloseAgain \/ CloseReturn
    BY <2>13
       DEF CloseSignal, CloseAgain, CloseReturn
  <2>14. CASE UNCHANGED vars
    BY <2>14
  <2> QED
    BY <2>1, <2>2, <2>3, <2>4, <2>5, <2>6, <2>7, <2>8, <2>9, <2>10, <2>11,
       <2>12, <2>13, <2>14
       DEF Next, Terminated, ProducerStep, ResizeStep, FlushStep
<1> QED
  BY <1>1, <1>2, LockInvariant, RingInvariant, IndexInvariant, PTL DEF Spec

\* The worker: a flush takes entries from slots that exist.
THEOREM WorkerTypesInvariant == Spec => []WorkerTypes
<1> USE DEF Entry, Nil
<1>1. Init => WorkerTypes
  BY ConstantsAssumption DEF Init, WorkerTypes
<1>2. LockInv /\ RingInv /\ IndexInv /\ RingTypes /\ WorkerTypes /\ [Next]_vars => WorkerTypes'
  <2> SUFFICES ASSUME LockInv, RingInv, IndexInv, RingTypes, WorkerTypes,
         [Next]_vars PROVE WorkerTypes'
    OBVIOUS
  <2> USE DEF WorkerTypes, Alive, At, ResizerAt, WorkerAt
  <2>1. ASSUME NEW p \in Producers,
               WriteStart(p) \/ LoadReadIndex(p) \/ Claim(p) \/ ClaimLost(p) \/
               DropEntry(p) \/ EnterSlowPath(p) \/ Backoff(p) \/ SlowRLock(p) \/
               SlowLoadWrite(p) \/ LockShard(p) \/ StoreEntry(p) \/
               StoreOutOfRange(p) \/ Account(p)
        PROVE  WorkerTypes'
    BY ZenonT(40), <2>1
       DEF WriteStart, LoadReadIndex, Claim, ClaimLost, DropEntry,
           EnterSlowPath, Backoff, SlowRLock, SlowLoadWrite, LockShard,
           StoreEntry, StoreOutOfRange, Account
  <2>2. CASE ResizeCheck \/ ResizeAnnounce \/ ResizeAcquire \/ ResizeAbandon \/
             ResizeLoad \/ ResizeCopy \/ PublishBuffer \/ PublishSize \/
             PublishMask
    BY <2>2
       DEF ResizeCheck, ResizeAnnounce, ResizeAcquire, ResizeAbandon,
           ResizeLoad, ResizeCopy, PublishBuffer, PublishSize, PublishMask
  <2>3. ASSUME NEW k \in Shards, ResizeLockShard(k) PROVE WorkerTypes'
    BY <2>3 DEF ResizeLockShard
  <2>4. CASE FlushEmpty
    BY <2>4 DEF FlushEmpty, AfterFlush
  <2>5. CASE FlushLoad
    BY <2>5, ConstantsAssumption DEF FlushLoad, batchSize, IndexInv
  <2>6. CASE FlushShardsLocked
    BY <2>6 DEF FlushShardsLocked, IndexInv
  <2>7. CASE FlushTake
    <3>1. bufLen = size /\ mask + 1 = size
      BY <2>7 DEF FlushTake, LockInv, RingInv, Flushing
    <3>2. FlushSlot \in 0..(bufLen - 1)
      BY <3>1, ModRange DEF FlushSlot, RingInv
    <3>3. buffer[FlushSlot] \in Entry
      BY <3>2 DEF RingTypes
    <3> QED
      BY <2>7, <3>3 DEF FlushTake
  <2>8. CASE FlushAdvance
    BY <2>8 DEF FlushAdvance, AfterFlush
  <2>9. CASE WorkerTick \/ WorkerStop
    BY <2>9 DEF WorkerTick, WorkerStop
  <2>10. CASE FlushLockShard
    BY <2>10 DEF FlushLockShard
  <2>11. CASE FlushUnlock
    BY <2>11 DEF FlushUnlock
  <2>12. CASE FlushSkip
    BY <2>12 DEF FlushSkip
  <2>13. CASE FlushWrite
    <3>1. fEntry \in Nat /\ fi + 1 \in Nat /\ outputs + 1 \in Nat
      BY <2>13 DEF FlushWrite
    <3> QED
      BY <2>13, <3>1 DEF FlushWrite
  <2>14. CASE FlushWriteError
    <3>1. fi..(fEnd - 1) \subseteq Nat
      OBVIOUS
    <3> QED
      BY <2>14, <3>1 DEF FlushWriteError
  <2>15. CASE CloseSignal \/ CloseAgain \/ CloseReturn
    BY <2>15
       DEF CloseSignal, CloseAgain, CloseReturn
  <2>16. CASE UNCHANGED vars
    BY <2>16
  <2> QED
    BY <2>1, <2>2, <2>3, <2>4, <2>5, <2>6, <2>7, <2>8, <2>9, <2>10, <2>11,
       <2>12, <2>13, <2>14, <2>15, <2>16
       DEF Next, Terminated, ProducerStep, ResizeStep, FlushStep
<1> QED
  BY <1>1, <1>2, LockInvariant, RingInvariant, IndexInvariant,
     RingTypesInvariant, PTL DEF Spec

\* Every variable keeps its type.
THEOREM TypeCorrectness == Spec => []TypeOK
  BY ProducerTypesInvariant, CloseTypesInvariant, LockTypesInvariant,
     ResizeTypesInvariant, RingTypesInvariant, WorkerTypesInvariant, PTL
     DEF TypeOK

--------------------------------------------------------------------------------
(* Batches and resizes.                                                     *)

\* A batch being flushed is not empty and within its limit; a resize under way
\* was allowed by MaxSize and copies no more than one lap.
LimitInv ==
    /\ wpc \in Flushing => fEnd - readIndex \in 1..BatchLimit
    /\ rz \in {"shards", "pubBuffer", "pubSize"} => newSize <= MaxSize
    /\ rz = "shards" => rzWrite <= writeIndex /\ rzWrite - readIndex <= size

\* LimitInv is inductive: the flush that would move readIndex waits for the
\* resize, and the resize for the flush.
THEOREM LimitInvariant == Spec => []LimitInv
<1> USE DEF LimitInv, Flushing, newSize
<1>1. Init => LimitInv
  BY DEF Init
<1>2. LockInv /\ RingInv /\ IndexInv /\ RingTypes /\ ResizeTypes /\ LimitInv
         /\ [Next]_vars => LimitInv'
  <2> SUFFICES ASSUME LockInv, RingInv, IndexInv, RingTypes, ResizeTypes,
                      LimitInv, [Next]_vars
               PROVE  LimitInv'
    OBVIOUS
  <2> USE DEF Alive, At, ResizerAt, WorkerAt
  <2>0. /\ readIndex \in Nat /\ writeIndex \in Nat /\ fEnd \in Nat
        /\ size \in Nat \ {0} /\ rzWrite \in Nat
        /\ BatchLimit \in Nat \ {0} /\ MaxSize \in Nat
    BY ConstantsAssumption DEF IndexInv, RingInv, ResizeTypes
  <2>1. ASSUME NEW p \in Producers, WriteStart(p) PROVE LimitInv'
    BY <2>1 DEF WriteStart
  <2>2. ASSUME NEW p \in Producers, ProducerStep(p), ~Claim(p) PROVE LimitInv'
    BY <2>2 DEF ProducerStep, LoadReadIndex, ClaimLost, DropEntry, Return,
         EnterSlowPath, Backoff, SlowRLock, SlowLoadWrite, LockShard, StoreEntry,
         StoreOutOfRange, Account
  <2>3. ASSUME NEW p \in Producers, Claim(p) PROVE LimitInv'
    BY <2>0, <2>3 DEF Claim
  <2>4. CASE ResizeLoad
    BY <2>0, <2>4 DEF ResizeLoad, ResizeNeeded, IndexInv, Capacity
  <2>5. CASE PublishSize
    BY <2>5 DEF PublishSize
  <2>6. CASE ResizeCheck \/ ResizeAnnounce \/ ResizeAcquire \/ ResizeAbandon
             \/ ResizeCopy \/ PublishBuffer \/ PublishMask
    BY <2>6 DEF ResizeCheck, ResizeAnnounce, ResizeAcquire, ResizeAbandon,
         ResizeCopy, PublishBuffer, PublishMask
  <2>7. ASSUME NEW k \in Shards, ResizeLockShard(k) PROVE LimitInv'
    BY <2>7 DEF ResizeLockShard
  <2>8. CASE WorkerTick \/ WorkerStop
    BY <2>8 DEF WorkerTick, WorkerStop
  <2>9. CASE FlushEmpty
    BY <2>9 DEF FlushEmpty, AfterFlush
  <2>10. CASE FlushLoad
    BY <2>0, <2>10 DEF FlushLoad, batchSize
  <2>11. CASE FlushAdvance
    <3>1. rz = "none"
      BY <2>11 DEF FlushAdvance, LockInv
    <3> QED
      BY <2>11, <3>1 DEF FlushAdvance, AfterFlush
  <2>12. CASE FlushLockShard \/ FlushShardsLocked \/ FlushSkip \/ FlushTake
              \/ FlushWrite \/ FlushWriteError \/ FlushUnlock
    BY <2>12 DEF FlushLockShard, FlushShardsLocked, FlushSkip, FlushTake,
         FlushWrite, FlushWriteError, FlushUnlock
  <2>13. CASE CloseSignal \/ CloseAgain \/ CloseReturn
    BY <2>13 DEF CloseSignal, CloseAgain, CloseReturn
  <2>14. CASE UNCHANGED vars
    BY <2>14
  <2> QED
    BY <2>1, <2>2, <2>3, <2>4, <2>5, <2>6, <2>7, <2>8, <2>9, <2>10, <2>11,
       <2>12, <2>13, <2>14
       DEF Next, Terminated, ProducerStep, ResizeStep, FlushStep
<1> QED
  BY <1>1, <1>2, LockInvariant, RingInvariant, IndexInvariant,
     RingTypesInvariant, ResizeTypesInvariant, PTL DEF Spec

--------------------------------------------------------------------------------
(* Where an entry can be.                                                   *)

\* Producers that own an index and have not stored their entry yet.
Pending == {p \in Producers : pc[p] \in {"lock", "store"}}

\* The entries of an array are claimed, not written out, and in one slot each.
Fresh(array) ==
    /\ \A s \in DOMAIN array : array[s] < writeIndex /\ array[s] \notin delivered
    /\ \A s, t \in DOMAIN array : s # t /\ array[s] # Nil => array[s] # array[t]

\* The entry that p is about to store is in no array and not with the worker.
Unstored(p) ==
    /\ w[p] < writeIndex /\ w[p] \notin delivered /\ w[p] # fEntry
    /\ \A s \in DOMAIN buffer : buffer[s] # w[p]
    /\ \A s \in DOMAIN newBuffer : newBuffer[s] # w[p]
    /\ \A q \in Pending : p # q => w[p] # w[q]

\* An entry is in one place: with its producer, in one slot of an array, with
\* the worker, or written out.  The slot that the worker took its entry from
\* still holds it until it is cleared.
OnceInv ==
    /\ \A i \in delivered : i < writeIndex
    /\ \A p \in Pending : Unstored(p)
    /\ Fresh(buffer) /\ Fresh(newBuffer)
    /\ fEntry < writeIndex /\ fEntry \notin delivered
    /\ wpc = "emit" => \A s \in DOMAIN buffer : s # FlushSlot => buffer[s] # fEntry
    /\ wpc # "emit" => fEntry = Nil

\* Two indexes less than a lap apart have different slots.
LEMMA ModDistinct ==
    ASSUME NEW n \in Nat \ {0}, NEW a \in Nat, NEW b \in Nat, a < b, b - a < n
    PROVE  a % n # b % n
<1> SUFFICES ASSUME a % n = b % n PROVE FALSE
  OBVIOUS
<1> DEFINE qa == a \div n
           qb == b \div n
<1>1. qa \in Int /\ qb \in Int /\ a = n * qa + (a % n) /\ b = n * qb + (b % n)
  OBVIOUS
<1>2. b - a = n * (qb - qa)
  BY <1>1
<1> HIDE DEF qa, qb
<1>3. CASE qb - qa <= 0
  <2>1. n * (qb - qa) <= 0
    BY <1>1, <1>3
  <2> QED
    BY <1>2, <2>1
<1>4. CASE qb - qa >= 1
  <2>1. n * (qb - qa) >= n
    BY <1>1, <1>4
  <2> QED
    BY <1>2, <2>1
<1> QED
  BY <1>1, <1>3, <1>4

\* OnceInv is inductive: an index is claimed once, a store fills one slot with
\* an entry that is nowhere else, a resize copies less than a lap, and the
\* worker clears the slot whose entry it has written out.
THEOREM OnceInvariant == Spec => []OnceInv
<1> USE DEF Nil, Entry
<1>1. Init => OnceInv
  BY ConstantsAssumption DEF Init, OnceInv, Pending, Fresh, EmptyArray
<1>2. LockInv /\ RingInv /\ IndexInv /\ LimitInv /\ RingTypes /\ ResizeTypes
         /\ WorkerTypes /\ OnceInv /\ [Next]_vars => OnceInv'
  <2> SUFFICES ASSUME LockInv, RingInv, IndexInv, LimitInv, RingTypes,
                      ResizeTypes, WorkerTypes, OnceInv, [Next]_vars
               PROVE  OnceInv'
    OBVIOUS
  <2> USE DEF OnceInv, Alive, At, ResizerAt, WorkerAt
  <2>0. /\ writeIndex \in Nat /\ readIndex \in Nat /\ w \in [Producers -> Nat]
        /\ buffer \in [0..(bufLen - 1) -> Entry]
        /\ fi \in Nat /\ fEntry \in Entry /\ delivered \subseteq Nat
        /\ size \in Nat \ {0} /\ mask \in Nat /\ bufLen \in Nat \ {0}
        /\ DOMAIN pc = Producers
    BY DEF IndexInv, RingTypes, WorkerTypes
  <2>01. /\ rz # "pubBuffer" => newBuffer = EmptyArray
         /\ rz = "pubBuffer" => newBuffer \in [0..(newSize - 1) -> Entry]
    BY DEF RingTypes
  \* Steps that leave every place of an entry alone.
  <2>a. ASSUME UNCHANGED <<ringVars, newBuffer, delivered, fEntry, wpc, fi>>,
               w' \in [Producers -> Nat],
               \A p \in Pending' : p \in Pending /\ w'[p] = w[p]
        PROVE  OnceInv'
    BY <2>a DEF Unstored, Fresh, FlushSlot
  <2>1. ASSUME NEW p \in Producers, WriteStart(p) PROVE OnceInv'
    BY <2>0, <2>1, <2>a DEF WriteStart, Pending
  <2>2. ASSUME NEW p \in Producers,
               \/ LoadReadIndex(p) \/ ClaimLost(p) \/ EnterSlowPath(p)
               \/ Backoff(p) \/ SlowRLock(p) \/ SlowLoadWrite(p)
               \/ LockShard(p) \/ StoreOutOfRange(p)
        PROVE  OnceInv'
    BY <2>0, <2>2, <2>a DEF LoadReadIndex, ClaimLost, EnterSlowPath, Backoff,
         SlowRLock, SlowLoadWrite, LockShard, StoreOutOfRange, Pending
  <2>3. ASSUME NEW p \in Producers, DropEntry(p) \/ Account(p) PROVE OnceInv'
    BY <2>0, <2>3, <2>a DEF DropEntry, Account, Return, Pending
  <2>4. ASSUME NEW p \in Producers, Claim(p) PROVE OnceInv'
    <3>1. /\ w[p] = writeIndex /\ writeIndex' = writeIndex + 1
          /\ UNCHANGED <<buffer, newBuffer, delivered, fEntry, wpc, fi, mask, w>>
      BY <2>4 DEF Claim, Swaps
    <3>2. Pending' = Pending \cup {p}
      BY <2>0, <2>4 DEF Claim, Pending
    <3>3. Fresh(buffer)' /\ Fresh(newBuffer)'
      <4>1. \A s \in DOMAIN newBuffer : newBuffer[s] \in Entry
        BY <2>01 DEF EmptyArray
      <4> QED
        BY <2>0, <3>1, <4>1 DEF Fresh
    <3>4. Unstored(p)'
      BY <2>0, <3>1, <3>2 DEF Unstored, Fresh
    <3>5. ASSUME NEW q \in Pending, q # p PROVE Unstored(q)'
      <4>1. w[q] \in Nat /\ w[q] < writeIndex /\ w[q] # w[p]
        BY <2>0, <3>1 DEF Pending, Unstored
      <4>2. \A t \in Pending' : q # t => w[q] # w[t]
        BY <3>2, <4>1 DEF Unstored
      <4> QED
        BY <2>0, <3>1, <4>1, <4>2 DEF Unstored
    <3> QED
      BY <2>0, <3>1, <3>2, <3>3, <3>4, <3>5 DEF FlushSlot
  <2>5. ASSUME NEW p \in Producers, StoreEntry(p) PROVE OnceInv'
    <3>1. /\ UNCHANGED <<writeIndex, newBuffer, delivered, fEntry, wpc, fi,
                         mask, bufLen, w>>
          /\ p \in Pending
      BY <2>5 DEF StoreEntry, Pending
    <3>2. Pending' = Pending \ {p}
      BY <2>0, <2>5 DEF StoreEntry, Pending
    <3>3. \A s \in DOMAIN buffer' :
             s \in DOMAIN buffer /\ (buffer'[s] = w[p] \/ buffer'[s] = buffer[s])
      BY <2>0, <2>5 DEF StoreEntry
    <3>4. \A s, t \in DOMAIN buffer' :
             s # t => buffer'[s] = buffer[s] \/ buffer'[t] = buffer[t]
      BY <2>0, <2>5 DEF StoreEntry
    <3>5. Unstored(p) /\ Fresh(buffer)
      BY <3>1
    <3>6. Fresh(buffer)' /\ Fresh(newBuffer)'
      BY <3>1, <3>3, <3>4, <3>5 DEF Fresh, Unstored
    <3>7. ASSUME NEW q \in Pending, q # p PROVE Unstored(q)'
      BY <3>1, <3>2, <3>3, <3>7 DEF Unstored
    <3> QED
      BY <3>1, <3>2, <3>3, <3>5, <3>6, <3>7 DEF FlushSlot, Unstored
  <2>6. CASE ResizeCopy
    <3> DEFINE Src == readIndex..(rzWrite - 1)
               src(s) == CHOOSE i \in Src : i % newSize = s
    <3>1. /\ UNCHANGED <<writeIndex, buffer, delivered, fEntry, wpc, fi, mask,
                         w, pc>>
          /\ newBuffer' = [s \in 0..(newSize - 1) |-> Copied(s)]
      BY <2>6 DEF ResizeCopy
    <3>2. bufLen = size /\ mask + 1 = size /\ rzWrite \in Nat
          /\ rzWrite - readIndex <= size
      BY <2>6 DEF ResizeCopy, RingInv, LimitInv, ResizeTypes
    <3>3. ASSUME NEW i \in Src PROVE i \in Nat /\ i % (mask + 1) \in DOMAIN buffer
      <4>1. i \in Nat
        BY <2>0
      <4> QED
        BY <2>0, <3>2, <4>1, ModRange
    <3>4. ASSUME NEW i \in Src, NEW j \in Src, i # j
          PROVE  i % (mask + 1) # j % (mask + 1)
      <4>1. i \in Nat /\ j \in Nat /\ i - j < size /\ j - i < size
        BY <2>0, <3>2
      <4>2. CASE i < j
        BY <2>0, <3>2, <4>1, <4>2, ModDistinct
      <4>3. CASE j < i
        BY <2>0, <3>2, <4>1, <4>3, ModDistinct
      <4> QED
        BY <3>4, <4>1, <4>2, <4>3
    <3>5. ASSUME NEW s \in DOMAIN newBuffer', newBuffer'[s] # Nil
          PROVE  /\ src(s) \in Src /\ src(s) % newSize = s
                 /\ newBuffer'[s] = buffer[src(s) % (mask + 1)]
      BY <3>1, <3>5 DEF Copied
    <3>6. ASSUME NEW s \in DOMAIN newBuffer'
          PROVE  newBuffer'[s] = Nil
                 \/ \E t \in DOMAIN buffer : newBuffer'[s] = buffer[t]
      BY <3>3, <3>5
    <3>7. Fresh(newBuffer)'
      <4>1. ASSUME NEW s \in DOMAIN newBuffer'
            PROVE  newBuffer'[s] < writeIndex' /\ newBuffer'[s] \notin delivered'
        BY <2>0, <3>1, <3>6 DEF Fresh
      <4>2. ASSUME NEW s \in DOMAIN newBuffer', NEW t \in DOMAIN newBuffer',
                   s # t, newBuffer'[s] # Nil, newBuffer'[s] = newBuffer'[t]
            PROVE  FALSE
        <5>1. /\ src(s) \in Src /\ src(s) % newSize = s
              /\ newBuffer'[s] = buffer[src(s) % (mask + 1)]
          BY <3>5, <4>2
        <5>2. /\ src(t) \in Src /\ src(t) % newSize = t
              /\ newBuffer'[t] = buffer[src(t) % (mask + 1)]
          BY <3>5, <4>2
        <5>3. src(s) % (mask + 1) # src(t) % (mask + 1)
          BY <3>4, <4>2, <5>1, <5>2
        <5> QED
          BY <3>3, <4>2, <5>1, <5>2, <5>3 DEF Fresh
      <4> QED
        BY <4>1, <4>2 DEF Fresh
    <3>8. ASSUME NEW p \in Pending PROVE Unstored(p)'
      <4>1. w[p] \in Nat
        BY <2>0 DEF Pending
      <4> QED
        BY <3>1, <3>6, <4>1 DEF Unstored, Pending
    <3> QED
      BY <3>1, <3>7, <3>8 DEF Fresh, Pending, FlushSlot
  <2>7. CASE PublishBuffer
    <3>1. /\ UNCHANGED <<writeIndex, delivered, fEntry, wpc, w, pc>>
          /\ buffer' = newBuffer /\ newBuffer' = EmptyArray /\ wpc # "emit"
      BY <2>7 DEF PublishBuffer, LockInv, Flushing
    <3> QED
      BY <3>1 DEF Fresh, Unstored, Pending, EmptyArray
  <2>8. CASE PublishSize \/ PublishMask
    <3>1. /\ UNCHANGED <<writeIndex, buffer, newBuffer, delivered, fEntry, wpc,
                         w, pc>>
          /\ wpc # "emit"
      BY <2>8 DEF PublishSize, PublishMask, LockInv, Flushing
    <3> QED
      BY <3>1 DEF Fresh, Unstored, Pending
  <2>9. CASE \/ ResizeCheck \/ ResizeAnnounce \/ ResizeAcquire
             \/ ResizeAbandon \/ ResizeLoad
             \/ \E k \in Shards : ResizeLockShard(k)
    BY <2>0, <2>9, <2>a DEF ResizeCheck, ResizeAnnounce, ResizeAcquire,
         ResizeAbandon, ResizeLoad, ResizeLockShard, Pending
  <2>10. CASE FlushTake
    <3>1. /\ UNCHANGED <<writeIndex, buffer, newBuffer, delivered, fi, mask, w, pc>>
          /\ fEntry' = buffer[FlushSlot] /\ fEntry' # Nil
          /\ wpc' = "emit"
      BY <2>10 DEF FlushTake
    <3>2. FlushSlot \in DOMAIN buffer
      <4>1. bufLen = size /\ mask + 1 = size
        BY <2>10 DEF FlushTake, LockInv, RingInv, Flushing
      <4> QED
        BY <2>0, <4>1, ModRange DEF FlushSlot
    <3>3. ASSUME NEW p \in Pending PROVE Unstored(p)'
      BY <3>1, <3>2 DEF Unstored, Pending
    <3> QED
      BY <3>1, <3>2, <3>3 DEF Fresh, Pending, FlushSlot
  <2>11. CASE FlushWrite
    <3>1. /\ UNCHANGED <<writeIndex, newBuffer, w, pc>>
          /\ wpc = "emit" /\ wpc' # "emit" /\ fEntry' = Nil
          /\ delivered' = delivered \cup {fEntry}
          /\ buffer' = [buffer EXCEPT ![FlushSlot] = Nil]
      BY <2>11 DEF FlushWrite, ClearSlot
    <3>2. newBuffer = EmptyArray
      BY <2>01, <3>1 DEF LockInv, Flushing
    <3>3. \A s \in DOMAIN buffer' :
             /\ s \in DOMAIN buffer
             /\ buffer'[s] = Nil \/ (s # FlushSlot /\ buffer'[s] = buffer[s])
      BY <3>1
    <3>4. fEntry \in Nat
      BY <3>1 DEF WorkerTypes
    <3>5. Fresh(buffer)' /\ Fresh(newBuffer)'
      <4>1. ASSUME NEW s \in DOMAIN buffer'
            PROVE  buffer'[s] < writeIndex' /\ buffer'[s] \notin delivered'
        BY <2>0, <3>1, <3>3, <3>4 DEF Fresh
      <4>2. ASSUME NEW s \in DOMAIN buffer', NEW t \in DOMAIN buffer',
                   s # t, buffer'[s] # Nil
            PROVE  buffer'[s] # buffer'[t]
        BY <3>3, <4>2 DEF Fresh
      <4> QED
        BY <3>1, <3>2, <4>1, <4>2 DEF Fresh, EmptyArray
    <3>6. ASSUME NEW p \in Pending PROVE Unstored(p)'
      <4>1. w[p] \in Nat
        BY <2>0 DEF Pending
      <4> QED
        BY <3>1, <3>3, <4>1 DEF Unstored, Pending
    <3>7. Nil < writeIndex' /\ Nil \notin delivered'
      BY <2>0, <3>1, <3>4
    <3> QED
      BY <3>1, <3>5, <3>6, <3>7 DEF Pending
  <2>12. CASE FlushWriteError
    <3>1. /\ UNCHANGED <<writeIndex, buffer, newBuffer, delivered, w, pc>>
          /\ wpc' # "emit" /\ fEntry' = Nil
      BY <2>12 DEF FlushWriteError
    <3>2. ASSUME NEW p \in Pending PROVE Unstored(p)'
      <4>1. w[p] \in Nat
        BY <2>0 DEF Pending
      <4> QED
        BY <3>1, <4>1 DEF Unstored, Pending
    <3> QED
      BY <2>0, <3>1, <3>2 DEF Fresh, Pending
  <2>13. CASE \/ WorkerTick \/ WorkerStop \/ FlushEmpty \/ FlushLoad
              \/ FlushLockShard \/ FlushShardsLocked \/ FlushSkip
              \/ FlushUnlock \/ FlushAdvance
    <3>1. /\ UNCHANGED <<writeIndex, buffer, newBuffer, delivered, fEntry, w, pc>>
          /\ wpc # "emit" /\ wpc' # "emit"
      BY <2>13 DEF WorkerTick, WorkerStop, FlushEmpty, FlushLoad, AfterFlush,
           FlushLockShard, FlushShardsLocked, FlushSkip, FlushUnlock,
           FlushAdvance
    <3> QED
      BY <3>1 DEF Fresh, Unstored, Pending
  <2>14. CASE CloseSignal \/ CloseAgain \/ CloseReturn
    BY <2>0, <2>14, <2>a DEF CloseSignal, CloseAgain, CloseReturn, Pending
  <2>15. CASE UNCHANGED vars
    BY <2>0, <2>15, <2>a DEF Pending
  <2> QED
    BY <2>1, <2>2, <2>3, <2>4, <2>5, <2>6, <2>7, <2>8, <2>9, <2>10, <2>11,
       <2>12, <2>13, <2>14, <2>15
       DEF Next, Terminated, ProducerStep, ResizeStep, FlushStep
<1> QED
  BY <1>1, <1>2, LockInvariant, RingInvariant, IndexInvariant, LimitInvariant,
     RingTypesInvariant, ResizeTypesInvariant, WorkerTypesInvariant, PTL DEF Spec

\* No entry reaches the output twice, for any number of writers, flushes that
\* fail and resizes.
THEOREM AtMostOnceTheorem == Spec => []AtMostOnce
<1>1. OnceInv => AtMostOnce
  BY DEF OnceInv, AtMostOnce
<1> QED
  BY <1>1, OnceInvariant, PTL

--------------------------------------------------------------------------------
(* The bounded log.                                                         *)

\* Every step of the ring is a step of the bounded log or a stutter: a claim
\* accepts, a successful write to the output delivers, the end of a flush
\* releases its batch and the second store of a resize grows the log.
THEOREM ImplementsLogTheorem == Spec => ImplementsLog
<1> USE DEF Log!logVars
<1>1. Init => Log!LogInit
  BY DEF Init, Log!LogInit
<1>2. LockInv /\ RingInv /\ IndexInv /\ LimitInv /\ WorkerTypes /\ OnceInv
         /\ [Next]_vars => [Log!LogNext]_Log!logVars
  <2> SUFFICES ASSUME LockInv, RingInv, IndexInv, LimitInv, WorkerTypes,
                      OnceInv, [Next]_vars
               PROVE  [Log!LogNext]_Log!logVars
    OBVIOUS
  <2> USE DEF Alive, At, ResizerAt, WorkerAt
  <2>0. /\ readIndex \in Nat /\ writeIndex \in Nat /\ fEnd \in Nat
        /\ size \in Nat \ {0}
    BY DEF IndexInv, RingInv
  <2>1. ASSUME NEW p \in Producers, Claim(p) PROVE Log!LogNext
    <3>1. writeIndex - readIndex < size
      BY <2>0, <2>1 DEF Claim, Swaps, usage, IndexInv
    <3> QED
      BY <2>1, <3>1 DEF Claim, Log!LogNext, Log!Accept
  <2>2. CASE FlushWrite
    <3>1. fEntry \in 0..(writeIndex - 1) /\ fEntry \notin delivered
      BY <2>0, <2>2 DEF FlushWrite, WorkerTypes, OnceInv
    <3>2. Log!Deliver(fEntry)
      BY <2>2, <3>1 DEF FlushWrite, Log!Deliver
    <3> QED
      BY <3>1, <3>2 DEF Log!LogNext
  <2>3. CASE FlushAdvance
    <3> DEFINE n == fEnd - readIndex
    <3>1. n \in 1..BatchLimit /\ readIndex + n = fEnd /\ fEnd <= writeIndex
      BY <2>0, <2>3 DEF FlushAdvance, LimitInv, IndexInv, Flushing
    <3>2. Log!Release(n)
      BY <2>3, <3>1 DEF FlushAdvance, endIndex, Log!Release
    <3> QED
      BY <3>1, <3>2 DEF Log!LogNext
  <2>4. CASE PublishSize
    BY <2>4 DEF PublishSize, LimitInv, newSize, Log!LogNext, Log!Grow
  <2>5. ASSUME NEW p \in Producers, WriteStart(p) PROVE UNCHANGED Log!logVars
    BY <2>5 DEF WriteStart
  <2>6. ASSUME NEW p \in Producers, ProducerStep(p), ~Claim(p)
        PROVE  UNCHANGED Log!logVars
    BY <2>6 DEF ProducerStep, LoadReadIndex, ClaimLost, DropEntry,
         EnterSlowPath, Backoff, SlowRLock, SlowLoadWrite, LockShard, StoreEntry,
         StoreOutOfRange, Account
  <2>7. CASE ResizeStep /\ ~PublishSize
    BY <2>7 DEF ResizeStep, ResizeCheck, ResizeAnnounce, ResizeAcquire,
         ResizeAbandon, ResizeLoad, ResizeLockShard, ResizeCopy, PublishBuffer,
         PublishMask
  <2>8. CASE WorkerTick \/ WorkerStop
    BY <2>8 DEF WorkerTick, WorkerStop
  <2>9. CASE FlushStep /\ ~FlushWrite /\ ~FlushAdvance
    BY <2>9 DEF FlushStep, FlushEmpty, FlushLoad, FlushLockShard,
         FlushShardsLocked, FlushSkip, FlushTake, FlushWriteError, FlushUnlock
  <2>10. CASE CloseSignal \/ CloseAgain \/ CloseReturn
    BY <2>10 DEF CloseSignal, CloseAgain, CloseReturn
  <2>11. CASE UNCHANGED vars
    BY <2>11
  <2> QED
    BY <2>1, <2>2, <2>3, <2>4, <2>5, <2>6, <2>7, <2>8, <2>9, <2>10, <2>11
       DEF Next, Terminated
<1> QED
  BY <1>1, <1>2, LockInvariant, RingInvariant, IndexInvariant, LimitInvariant,
     WorkerTypesInvariant, OnceInvariant, PTL
     DEF Spec, ImplementsLog, Log!LogSpec

--------------------------------------------------------------------------------
(* The drop counter.                                                        *)

\* Calls of write that own no index yet and were not dropped.
Undecided == {p \in Producers : pc[p] \in {"loadRead", "claim", "rlock", "loadWrite"}}

\* GetDropCount misses no dropped entry and counts none twice, on whichever of
\* the two paths and in whichever mode entries are dropped.
THEOREM CallsAccountedTheorem == Spec => []CallsAccounted
<1> DEFINE CallsInv == IsFiniteSet(Undecided) /\ CallsAccounted
<1>1. Init => CallsInv
  <2> SUFFICES ASSUME Init PROVE CallsInv
    OBVIOUS
  <2>1. Undecided = {}
    BY DEF Init, Undecided
  <2> QED
    BY <2>1, FS_EmptySet DEF Init, CallsAccounted, Undecided
<1>2. IndexInv /\ ResizeTypes /\ CloseTypes /\ CallsInv /\ [Next]_vars
         => CallsInv'
  <2> SUFFICES ASSUME IndexInv, ResizeTypes, CloseTypes, CallsInv, [Next]_vars
               PROVE  CallsInv'
    OBVIOUS
  <2> USE DEF Alive, At, ResizerAt, WorkerAt
  <2>0. /\ writeIndex \in Nat /\ dropCount \in Nat /\ calls \in Nat
        /\ Cardinality(Undecided) \in Nat /\ DOMAIN pc = Producers
        /\ IsFiniteSet(Undecided)
        /\ calls = writeIndex + dropCount + Cardinality(Undecided)
    BY FS_CardinalityType DEF IndexInv, ResizeTypes, CloseTypes, CallsAccounted,
       Undecided
  <2>a. ASSUME Undecided' = Undecided, UNCHANGED <<writeIndex, dropCount, calls>>
        PROVE  CallsInv'
    BY <2>0, <2>a DEF CallsAccounted, Undecided
  <2>1. ASSUME NEW p \in Producers, WriteStart(p) PROVE CallsInv'
    <3>1. p \notin Undecided /\ Undecided' = Undecided \cup {p}
      BY <2>0, <2>1 DEF WriteStart, Undecided
    <3>2. /\ IsFiniteSet(Undecided')
          /\ Cardinality(Undecided') = Cardinality(Undecided) + 1
      BY <2>0, <3>1, FS_AddElement
    <3>3. calls' = writeIndex' + dropCount' + Cardinality(Undecided')
      BY <2>0, <2>1, <3>2 DEF WriteStart
    <3> QED
      BY <3>2, <3>3 DEF CallsAccounted, Undecided
  <2>2. ASSUME NEW p \in Producers, Claim(p) \/ DropEntry(p) PROVE CallsInv'
    <3>1. p \in Undecided /\ Undecided' = Undecided \ {p}
      BY <2>0, <2>2 DEF Claim, DropEntry, Return, Undecided
    <3>2. /\ IsFiniteSet(Undecided')
          /\ Cardinality(Undecided') = Cardinality(Undecided) - 1
      BY <2>0, <3>1, FS_RemoveElement
    <3>3. /\ calls' = calls
          /\ \/ writeIndex' = writeIndex + 1 /\ dropCount' = dropCount
             \/ writeIndex' = writeIndex /\ dropCount' = dropCount + 1
      BY <2>2 DEF Claim, DropEntry, Drops
    <3>4. calls' = writeIndex' + dropCount' + Cardinality(Undecided')
      BY <2>0, <3>2, <3>3
    <3> QED
      BY <3>2, <3>4 DEF CallsAccounted, Undecided
  <2>3. ASSUME NEW p \in Producers, ProducerStep(p), ~Claim(p), ~DropEntry(p)
        PROVE  CallsInv'
    <3>1. UNCHANGED <<writeIndex, dropCount, calls>>
      BY <2>3 DEF ProducerStep, LoadReadIndex, ClaimLost, EnterSlowPath,
         Backoff, SlowRLock, SlowLoadWrite, LockShard, StoreEntry,
         StoreOutOfRange, Account
    <3>2. CASE LoadReadIndex(p) \/ SlowLoadWrite(p) \/ SlowRLock(p) \/ Backoff(p)
               \/ ClaimLost(p) \/ EnterSlowPath(p)
      <4>1. /\ p \in Undecided
            /\ \/ pc' = [pc EXCEPT ![p] = "loadRead"]
               \/ pc' = [pc EXCEPT ![p] = "claim"]
               \/ pc' = [pc EXCEPT ![p] = "rlock"]
               \/ pc' = [pc EXCEPT ![p] = "loadWrite"]
        BY <3>2 DEF LoadReadIndex, SlowLoadWrite, SlowRLock, Backoff, ClaimLost,
           EnterSlowPath, Undecided
      <4>2. Undecided' = Undecided
        BY <2>0, <4>1 DEF Undecided
      <4> QED
        BY <2>a, <3>1, <4>2
    <3>3. CASE LockShard(p) \/ StoreEntry(p) \/ StoreOutOfRange(p) \/ Account(p)
      <4>1. Undecided' = Undecided
        BY <2>0, <3>3 DEF LockShard, StoreEntry, StoreOutOfRange, Account,
           Return, Undecided
      <4> QED
        BY <2>a, <3>1, <4>1
    <3> QED
      BY <2>3, <3>2, <3>3 DEF ProducerStep
  <2>4. CASE ResizeStep
    BY <2>4, <2>a DEF ResizeStep, ResizeCheck, ResizeAnnounce, ResizeAcquire,
       ResizeAbandon, ResizeLoad, ResizeLockShard, ResizeCopy, PublishBuffer,
       PublishSize, PublishMask, Undecided
  <2>5. CASE WorkerTick \/ WorkerStop \/ FlushStep
    BY <2>5, <2>a DEF WorkerTick, WorkerStop, FlushStep, FlushEmpty, FlushLoad,
       FlushLockShard, FlushShardsLocked, FlushSkip, FlushTake, FlushWrite,
       FlushWriteError, FlushUnlock, FlushAdvance, Undecided
  <2>6. CASE CloseSignal \/ CloseAgain \/ CloseReturn
    BY <2>6, <2>a DEF CloseSignal, CloseAgain, CloseReturn, Undecided
  <2>7. CASE UNCHANGED vars
    BY <2>7, <2>a DEF Undecided
  <2> QED
    BY <2>1, <2>2, <2>3, <2>4, <2>5, <2>6, <2>7 DEF Next, Terminated
<1>3. CallsInv => CallsAccounted
  OBVIOUS
<1> QED
  BY <1>1, <1>2, <1>3, IndexInvariant, ResizeTypesInvariant,
     CloseTypesInvariant, PTL DEF Spec

--------------------------------------------------------------------------------
(* Remainders.                                                              *)

\* Quotient and remainder are unique.
LEMMA UniqueRemainder ==
    ASSUME NEW n \in Nat \ {0}, NEW a \in Int, NEW b \in Int,
           NEW c \in 0..(n - 1), NEW d \in 0..(n - 1), n * a + c = n * b + d
    PROVE  c = d
<1>1. ASSUME NEW x \in Int, NEW y \in Int, x > y PROVE n * x >= n * y + n
  <2>1. x - y - 1 \in Nat /\ n * (x - y - 1) >= 0
    BY <1>1
  <2>2. n * (x - y - 1) = n * x - n * y - n
    OBVIOUS
  <2> QED
    BY <2>1, <2>2
<1>2. ~(a > b) /\ ~(b > a)
  BY <1>1
<1> QED
  BY <1>2

\* A number that is a multiple of n and a remainder.
LEMMA Remainder ==
    ASSUME NEW n \in Nat \ {0}, NEW x \in Nat, NEW a \in Int,
           NEW c \in 0..(n - 1), x = n * a + c
    PROVE  x % n = c
<1>1. PICK q \in Int, d \in 0..(n - 1) : d = x % n /\ x = n * q + d
  <2>1. x \div n \in Int /\ x % n \in 0..(n - 1) /\ x = n * (x \div n) + (x % n)
    OBVIOUS
  <2> QED
    BY <2>1
<1>2. d = c
  BY <1>1, UniqueRemainder
<1> QED
  BY <1>1, <1>2

\* Twice a multiple is a multiple.
LEMMA DoubledMultiple ==
    ASSUME NEW n \in Nat \ {0}, NEW a \in Nat, a % n = 0
    PROVE  (a * 2) % n = 0
<1>1. PICK q \in Int : a = n * q
  <2>1. a \div n \in Int /\ a = n * (a \div n) + (a % n)
    OBVIOUS
  <2> QED
    BY <2>1
<1>2. a * 2 \in Nat /\ q * 2 \in Int /\ 0 \in 0..(n - 1) /\ a * 2 = n * (q * 2) + 0
  BY <1>1
<1> QED
  BY <1>2, Remainder

\* Taking a remainder by a multiple of n first changes no remainder by n.
LEMMA RemainderOfRemainder ==
    ASSUME NEW n \in Nat \ {0}, NEW m \in Nat \ {0}, m % n = 0, NEW x \in Nat
    PROVE  (x % m) % n = x % n
<1>1. PICK k \in Int : m = n * k
  <2>1. m \div n \in Int /\ m = n * (m \div n) + (m % n)
    OBVIOUS
  <2> QED
    BY <2>1
<1>2. PICK q \in Int, y \in Nat : y = x % m /\ x = m * q + y
  <2>1. x \div m \in Int /\ x % m \in Nat /\ x = m * (x \div m) + (x % m)
    OBVIOUS
  <2> QED
    BY <2>1
<1>3. PICK s \in Int, t \in 0..(n - 1) : t = y % n /\ y = n * s + t
  <2>1. y \div n \in Int /\ y % n \in 0..(n - 1) /\ y = n * (y \div n) + (y % n)
    OBVIOUS
  <2> QED
    BY <2>1
<1>4. PICK z \in Int : z = k * q
  OBVIOUS
<1>5. x = n * (z + s) + t /\ z + s \in Int
  <2>1. m * q = n * z
    <3>1. (n * k) * q = n * (k * q)
      OBVIOUS
    <3> QED
      BY <1>1, <1>4, <3>1
  <2>2. x = n * z + n * s + t
    <3>1. PICK a \in Int, b \in Int : a = n * z /\ b = n * s
      OBVIOUS
    <3>2. x = a + y
      BY <1>2, <2>1, <3>1
    <3>3. y = b + t
      BY <1>3, <3>1
    <3>4. x = a + b + t
      BY <3>2, <3>3
    <3> QED
      BY <3>1, <3>4
  <2>3. n * (z + s) = n * z + n * s
    OBVIOUS
  <2> QED
    BY <2>2, <2>3
<1>6. x % n = t
  BY <1>5, Remainder
<1> QED
  BY <1>2, <1>3, <1>6

\* Of n numbers in a row one has the remainder of any number after them.
LEMMA RunCovers ==
    ASSUME NEW n \in Nat \ {0}, NEW a \in Nat, NEW x \in Nat, a <= x
    PROVE  \E j \in a..(a + n - 1) : j % n = x % n
<1>1. PICK q \in Int, d \in 0..(n - 1) : x - a = n * q + d
  <2>1. /\ (x - a) \div n \in Int /\ (x - a) % n \in 0..(n - 1)
        /\ x - a = n * ((x - a) \div n) + ((x - a) % n)
    OBVIOUS
  <2> QED
    BY <2>1
<1>2. PICK s \in Int, t \in 0..(n - 1) : t = x % n /\ x = n * s + t
  <2>1. x \div n \in Int /\ x % n \in 0..(n - 1) /\ x = n * (x \div n) + (x % n)
    OBVIOUS
  <2> QED
    BY <2>1
<1>3. a + d \in Nat /\ a + d \in a..(a + n - 1)
  BY <1>1
<1>4. a + d = n * (s - q) + t /\ s - q \in Int
  BY <1>1, <1>2
<1>5. (a + d) % n = t
  BY <1>3, <1>4, Remainder
<1> QED
  BY <1>2, <1>3, <1>5

--------------------------------------------------------------------------------
(* Who holds which shard.                                                   *)

Divides(n) == n % ShardCount = 0

\* Every ring and every mask in use is a multiple of the number of shards.
DividedInv ==
    /\ Divides(size) /\ Divides(bufLen) /\ Divides(mask + 1)
    /\ \A p \in Producers : msk[p] # Nil => Divides(msk[p] + 1)

\* The worker holds the shard of every index of its batch before n.
Covers(n) == \A j \in readIndex..(n - 1) : shard[j % ShardCount] = Worker

\* A producer that stores holds the shard of its index.  The worker, while it
\* locks, holds the shards of the indexes it has met and no others, and while
\* it goes through its batch those of the whole batch.
HeldInv ==
    /\ \A p \in Producers : pc[p] = "store" => shard[w[p] % ShardCount] = p
    /\ wpc \in {"shards", "batch", "emit"} => readIndex <= fi /\ fi <= fEnd
    /\ wpc = "emit" => fi < fEnd
    /\ wpc = "shards" => Covers(fi)
    /\ wpc = "shards" => \A k \in Shards : shard[k] = Worker
                            => \E j \in readIndex..(fi - 1) : j % ShardCount = k
    /\ wpc \in {"batch", "emit"} => Covers(fEnd)
    /\ wpc \notin {"shards", "batch", "emit", "unlock"}
          => \A k \in Shards : shard[k] # Worker

\* Doubling keeps the sizes multiples of the number of shards.
THEOREM DividedInvariant ==
    ASSUME InitSize % ShardCount = 0 PROVE Spec => []DividedInv
<1> USE ConstantsAssumption DEF Divides, DividedInv, Nil
<1>1. Init => DividedInv
  BY DEF Init
<1>2. ASSUME RingInv, RingInv', ProducerTypes, DividedInv, [Next]_vars
      PROVE  DividedInv'
  <2> USE <1>2 DEF Alive, At, ResizerAt, WorkerAt
  <2>0. /\ size \in Nat \ {0} /\ mask \in Nat /\ bufLen \in Nat \ {0}
        /\ msk \in [Producers -> Entry] /\ ShardCount \in Nat \ {0}
    BY DEF RingInv, ProducerTypes
  <2>1. Divides(newSize)
    BY <2>0, DoubledMultiple DEF newSize
  <2>a. ASSUME UNCHANGED <<size, mask, bufLen, msk>> PROVE DividedInv'
    BY <2>a
  <2>2. ASSUME NEW p \in Producers, LockShard(p) \/ StoreEntry(p)
        PROVE  DividedInv'
    BY <2>0, <2>2 DEF LockShard, StoreEntry
  <2>3. ASSUME NEW p \in Producers, WriteStart(p) \/ ProducerStep(p),
               ~LockShard(p), ~StoreEntry(p)
        PROVE  DividedInv'
    BY <2>3, <2>a DEF WriteStart, ProducerStep, LoadReadIndex, Claim, ClaimLost,
       DropEntry, Return, EnterSlowPath, Backoff, SlowRLock, SlowLoadWrite,
       StoreOutOfRange, Account
  <2>4. CASE PublishBuffer
    <3>1. bufLen' = newSize /\ size' = size /\ mask' = mask /\ msk' = msk
      BY <2>4 DEF PublishBuffer
    <3> QED
      BY <2>1, <3>1
  <2>5. CASE PublishSize
    <3>1. size' = newSize /\ bufLen' = bufLen /\ mask' = mask /\ msk' = msk
      BY <2>5 DEF PublishSize
    <3> QED
      BY <2>1, <3>1
  <2>6. CASE PublishMask
    <3>1. mask' + 1 = size /\ size' = size /\ bufLen' = bufLen /\ msk' = msk
      BY <2>0, <2>6 DEF PublishMask
    <3> QED
      BY <3>1
  <2>7. CASE \/ ResizeCheck \/ ResizeAnnounce \/ ResizeAcquire \/ ResizeAbandon
             \/ ResizeLoad \/ ResizeCopy \/ \E k \in Shards : ResizeLockShard(k)
    BY <2>7, <2>a DEF ResizeCheck, ResizeAnnounce, ResizeAcquire, ResizeAbandon,
       ResizeLoad, ResizeLockShard, ResizeCopy
  <2>8. CASE WorkerTick \/ WorkerStop \/ FlushStep
    BY <2>8, <2>a DEF WorkerTick, WorkerStop, FlushStep, FlushEmpty, FlushLoad,
       FlushLockShard, FlushShardsLocked, FlushSkip, FlushTake, FlushWrite,
       FlushWriteError, FlushUnlock, FlushAdvance
  <2>9. CASE CloseSignal \/ CloseAgain \/ CloseReturn
    BY <2>9, <2>a DEF CloseSignal, CloseAgain, CloseReturn
  <2>10. CASE UNCHANGED vars
    BY <2>10, <2>a
  <2> QED
    BY <2>2, <2>3, <2>4, <2>5, <2>6, <2>7, <2>8, <2>9, <2>10
       DEF Next, Terminated, ResizeStep
<1>3. RingInv /\ RingInv' /\ ProducerTypes /\ DividedInv /\ [Next]_vars
         => DividedInv'
  BY <1>2
<1> QED
  BY <1>1, <1>3, RingInvariant, ProducerTypesInvariant, PTL DEF Spec

\* HeldInv is inductive: a shard is taken only when it is free, and given back
\* only by the goroutine that holds it.
THEOREM HeldInvariant == Spec => []HeldInv
<1> USE ConstantsAssumption DEF HeldInv, Covers, Worker, Resizer, Free
<1>1. Init => HeldInv
  BY DEF Init
<1>2. ASSUME LockInv, LockTypes, IndexInv, IndexInv', WorkerTypes, HeldInv,
             [Next]_vars
      PROVE  HeldInv'
  <2> USE <1>2 DEF Alive, At, ResizerAt, WorkerAt
  <2>0. /\ readIndex \in Nat /\ fEnd \in Nat /\ fi \in Nat
        /\ w \in [Producers -> Nat] /\ w' \in [Producers -> Nat]
        /\ DOMAIN pc = Producers /\ DOMAIN shard = Shards
        /\ ShardCount \in Nat \ {0}
        /\ wpc \in Flushing => readIndex <= fEnd
    BY DEF IndexInv, WorkerTypes, LockTypes
  <2>01. ASSUME NEW x \in Nat PROVE x % ShardCount \in Shards
    <3>1. x % ShardCount \in 0..(ShardCount - 1)
      BY <2>0, ModRange
    <3> QED
      BY <3>1 DEF Shards
  <2>02. \A q \in Producers : w[q] \in Nat /\ w[q] % ShardCount \in Shards
    BY <2>0, <2>01
  \* Steps that take no shard and move no batch.
  <2>a. ASSUME UNCHANGED <<readIndex, shard, fi, fEnd, wpc>>,
               \A p \in Producers : pc'[p] = "store" => pc[p] = "store" /\ w'[p] = w[p]
        PROVE  HeldInv'
    BY <2>a
  \* Steps of the worker outside of its batch, with no shard.
  <2>b. ASSUME UNCHANGED <<shard, pc, w>>, wpc' \notin {"shards", "batch", "emit", "unlock"},
               \A k \in Shards : shard[k] # Worker
        PROVE  HeldInv'
    BY <2>b
  <2>1. ASSUME NEW p \in Producers, LockShard(p) PROVE HeldInv'
    <3> DEFINE k == w[p] % ShardCount
    <3>1. /\ UNCHANGED <<readIndex, fi, fEnd, wpc, w>> /\ shard[k] = Free
          /\ shard' = [shard EXCEPT ![k] = p] /\ pc' = [pc EXCEPT ![p] = "store"]
      BY <2>1 DEF LockShard, ShardFree
    <3>2. w[p] \in Nat /\ k \in Shards
      BY <2>02
    <3> HIDE DEF k
    <3>3. \A j \in Shards : shard[j] = Worker <=> shard'[j] = Worker
      BY <2>0, <3>1, <3>2
    <3>4. ASSUME NEW q \in Producers, pc'[q] = "store"
          PROVE  shard'[w'[q] % ShardCount] = q
      <4>1. CASE q = p
        BY <2>0, <3>1, <3>2, <4>1 DEF k
      <4>2. CASE q # p
        <5>1. shard[w[q] % ShardCount] = q
          BY <2>0, <3>1, <3>4, <4>2
        <5>2. w[q] % ShardCount # k
          BY <3>1, <5>1
        <5> QED
          BY <2>0, <3>1, <5>1, <5>2
      <4> QED
        BY <4>1, <4>2
    <3>5. ASSUME NEW n \in Nat, Covers(n)
          PROVE  \A j \in readIndex'..(n - 1) : shard'[j % ShardCount] = Worker
      <4>1. ASSUME NEW j \in readIndex..(n - 1) PROVE j % ShardCount \in Shards
        <5>1. j \in Nat
          BY <2>0
        <5> QED
          BY <2>01, <5>1
      <4> QED
        BY <2>0, <3>1, <3>3, <3>5, <4>1
    <3> QED
      BY <2>0, <3>1, <3>3, <3>4, <3>5
  <2>2. ASSUME NEW p \in Producers, StoreEntry(p) PROVE HeldInv'
    <3> DEFINE k == w[p] % ShardCount
    <3>1. /\ UNCHANGED <<readIndex, fi, fEnd, wpc, w>> /\ shard[k] = p
          /\ shard' = [shard EXCEPT ![k] = Free] /\ pc' = [pc EXCEPT ![p] = "account"]
      BY <2>2 DEF StoreEntry
    <3>2. w[p] \in Nat /\ k \in Shards
      BY <2>02
    <3> HIDE DEF k
    <3>3. \A j \in Shards : shard[j] = Worker <=> shard'[j] = Worker
      BY <2>0, <3>1, <3>2
    <3>4. ASSUME NEW q \in Producers, pc'[q] = "store"
          PROVE  shard'[w'[q] % ShardCount] = q
      <4>1. q # p /\ shard[w[q] % ShardCount] = q
        BY <2>0, <3>1, <3>4
      <4>2. w[q] % ShardCount # k
        BY <3>1, <4>1
      <4> QED
        BY <2>0, <3>1, <4>1, <4>2
    <3>5. ASSUME NEW n \in Nat, Covers(n)
          PROVE  \A j \in readIndex'..(n - 1) : shard'[j % ShardCount] = Worker
      <4>1. ASSUME NEW j \in readIndex..(n - 1) PROVE j % ShardCount \in Shards
        <5>1. j \in Nat
          BY <2>0
        <5> QED
          BY <2>01, <5>1
      <4> QED
        BY <2>0, <3>1, <3>3, <3>5, <4>1
    <3> QED
      BY <2>0, <3>1, <3>3, <3>4, <3>5
  <2>3. ASSUME NEW p \in Producers,
               \/ WriteStart(p) \/ LoadReadIndex(p) \/ Claim(p) \/ ClaimLost(p)
               \/ DropEntry(p) \/ EnterSlowPath(p) \/ Backoff(p) \/ SlowRLock(p)
               \/ SlowLoadWrite(p) \/ StoreOutOfRange(p) \/ Account(p)
        PROVE  HeldInv'
    BY <2>0, <2>3, <2>a DEF WriteStart, LoadReadIndex, Claim, ClaimLost,
       DropEntry, Return, EnterSlowPath, Backoff, SlowRLock, SlowLoadWrite,
       StoreOutOfRange, Account
  <2>4. ASSUME NEW k \in Shards, ResizeLockShard(k) PROVE HeldInv'
    <3>1. /\ UNCHANGED <<pc, w, wpc>> /\ shard[k] = Free
          /\ shard' = [shard EXCEPT ![k] = Resizer]
      BY <2>4 DEF ResizeLockShard, ShardFree
    <3>2. wpc \notin Flushing
      BY <2>4 DEF ResizeLockShard, LockInv
    <3>3. ASSUME NEW q \in Producers, pc'[q] = "store"
          PROVE  shard'[w'[q] % ShardCount] = q
      <4>1. shard[w[q] % ShardCount] = q /\ w[q] % ShardCount # k
        BY <3>1, <3>3
      <4> QED
        BY <2>0, <3>1, <4>1
    <3> QED
      BY <2>0, <3>1, <3>2, <3>3 DEF Flushing
  <2>5. CASE ResizeCopy
    <3>1. /\ UNCHANGED <<pc, w, wpc>> /\ \A k \in Shards : shard[k] = Resizer
          /\ shard' = [k \in Shards |-> Free]
      BY <2>5 DEF ResizeCopy
    <3>2. wpc \notin Flushing
      BY <2>5 DEF ResizeCopy, LockInv
    <3>3. \A q \in Producers : pc[q] # "store"
      BY <2>02, <3>1
    <3> QED
      BY <3>1, <3>2, <3>3 DEF Flushing
  <2>6. CASE ResizeCheck \/ ResizeAnnounce \/ ResizeAcquire \/ ResizeAbandon
             \/ ResizeLoad \/ PublishBuffer \/ PublishSize \/ PublishMask
    BY <2>6, <2>a DEF ResizeCheck, ResizeAnnounce, ResizeAcquire, ResizeAbandon,
       ResizeLoad, PublishBuffer, PublishSize, PublishMask
  <2>7. CASE WorkerTick \/ WorkerStop \/ FlushEmpty \/ FlushAdvance
    BY <2>7, <2>b DEF WorkerTick, WorkerStop, FlushEmpty, FlushAdvance, AfterFlush
  <2>8. CASE FlushLoad
    <3>1. /\ UNCHANGED <<shard, pc, w, readIndex>> /\ wpc' = "shards"
          /\ fi' = readIndex /\ \A k \in Shards : shard[k] # Worker
      BY <2>8 DEF FlushLoad
    <3>2. readIndex' <= fi' /\ fi' <= fEnd'
      BY <2>0, <2>8, <3>1 DEF IndexInv, Flushing
    <3> QED
      BY <2>0, <3>1, <3>2
  <2>9. CASE FlushLockShard
    <3> DEFINE k == fi % ShardCount
    <3>1. /\ UNCHANGED <<pc, w, readIndex, fEnd, wpc>> /\ shard[k] = Free
          /\ shard' = [shard EXCEPT ![k] = Worker] /\ fi' = fi + 1
          /\ wpc = "shards" /\ fi < fEnd
      BY <2>9 DEF FlushLockShard, ShardFree
    <3>2. k \in Shards
      BY <2>0, <2>01
    <3>3. \A j \in readIndex'..(fi' - 1) : j \in readIndex..(fi - 1) \/ j = fi
      BY <2>0, <3>1
    <3>4. \A j \in readIndex..(fi - 1) : j \in readIndex'..(fi' - 1)
      BY <2>0, <3>1
    <3>5. fi \in readIndex'..(fi' - 1)
      BY <2>0, <3>1
    <3>6. ASSUME NEW j \in readIndex..(fi - 1) PROVE j % ShardCount \in Shards
      <4>1. j \in Nat
        BY <2>0
      <4> QED
        BY <2>01, <4>1
    <3>7. \A j \in readIndex'..(fi' - 1) : shard'[j % ShardCount] = Worker
      BY <2>0, <3>1, <3>2, <3>3, <3>6
    <3>8. ASSUME NEW s \in Shards, shard'[s] = Worker
          PROVE  \E j \in readIndex'..(fi' - 1) : j % ShardCount = s
      <4>1. CASE s = k
        BY <3>5, <4>1
      <4>2. CASE s # k
        <5>1. shard[s] = Worker
          BY <2>0, <3>1, <3>8, <4>2
        <5> QED
          BY <3>1, <3>4, <5>1
      <4> QED
        BY <4>1, <4>2
    <3>9. ASSUME NEW q \in Producers, pc'[q] = "store"
          PROVE  shard'[w'[q] % ShardCount] = q
      <4>1. shard[w[q] % ShardCount] = q /\ w[q] % ShardCount # k
        BY <3>1, <3>9
      <4> QED
        BY <2>0, <3>1, <4>1
    <3>10. readIndex' <= fi' /\ fi' <= fEnd'
      BY <2>0, <3>1
    <3> QED
      BY <3>1, <3>7, <3>8, <3>9, <3>10
  <2>10. CASE FlushShardsLocked
    <3>1. /\ UNCHANGED <<pc, w, readIndex, fEnd, shard>> /\ fi' = readIndex
          /\ wpc' = "batch" /\ wpc = "shards"
          /\ fi = fEnd \/ fi % ShardCount \in ShardsHeld(Worker)
      BY <2>10 DEF FlushShardsLocked
    <3>2. ASSUME fi % ShardCount \in ShardsHeld(Worker), NEW x \in fi..(fEnd - 1)
          PROVE  shard[x % ShardCount] = Worker
      <4>1. PICK j \in readIndex..(fi - 1) : j % ShardCount = fi % ShardCount
        BY <3>1, <3>2 DEF ShardsHeld
      <4>2. fi - j >= ShardCount
        <5>1. j \in Nat /\ j < fi
          BY <2>0, <4>1
        <5>2. ~(fi - j < ShardCount)
          BY <2>0, <4>1, <5>1, ModDistinct
        <5> QED
          BY <2>0, <5>1, <5>2
      <4>3. x \in Nat /\ readIndex <= x
        BY <2>0, <3>1
      <4>4. PICK i \in readIndex..(readIndex + ShardCount - 1) :
                    i % ShardCount = x % ShardCount
        BY ZenonT(40), <2>0, <4>3, RunCovers
      <4>5. i \in readIndex..(fi - 1)
        BY <2>0, <4>1, <4>2, <4>4
      <4> QED
        BY <3>1, <4>4, <4>5
    <3>3. ASSUME NEW x \in readIndex..(fEnd - 1) PROVE shard[x % ShardCount] = Worker
      <4>1. x \in readIndex..(fi - 1) \/ (fi # fEnd /\ x \in fi..(fEnd - 1))
        BY <2>0, <3>1
      <4> QED
        BY <3>1, <3>2, <4>1
    <3>4. readIndex' <= fi' /\ fi' <= fEnd'
      BY <2>0, <3>1 DEF Flushing
    <3> QED
      BY <3>1, <3>3, <3>4
  <2>11. CASE FlushSkip \/ FlushTake \/ FlushWrite
    <3>1. /\ UNCHANGED <<pc, w, readIndex, fEnd, shard>>
          /\ wpc \in {"batch", "emit"} /\ wpc' \in {"batch", "emit"}
      BY <2>11 DEF FlushSkip, FlushTake, FlushWrite
    <3>2. readIndex' <= fi' /\ fi' <= fEnd'
      <4>1. fi < fEnd /\ (fi' = fi \/ fi' = fi + 1) /\ readIndex <= fi
        BY <2>11 DEF FlushSkip, FlushTake, FlushWrite
      <4> QED
        BY <2>0, <3>1, <4>1
    <3>3. wpc' = "emit" => fi' < fEnd'
      BY <2>11 DEF FlushSkip, FlushTake, FlushWrite
    <3> QED
      BY <3>1, <3>2, <3>3
  <2>12. CASE FlushWriteError
    BY <2>12 DEF FlushWriteError
  <2>13. CASE FlushUnlock
    <3>1. /\ UNCHANGED <<pc, w>> /\ wpc' = "advance"
          /\ shard' = [k \in Shards |-> IF shard[k] = Worker THEN Free ELSE shard[k]]
      BY <2>13 DEF FlushUnlock
    <3> QED
      BY <2>02, <3>1
  <2>14. CASE CloseSignal \/ CloseAgain \/ CloseReturn
    BY <2>14, <2>a DEF CloseSignal, CloseAgain, CloseReturn
  <2>15. CASE UNCHANGED vars
    BY <2>15, <2>a
  <2> QED
    BY <2>1, <2>2, <2>3, <2>4, <2>5, <2>6, <2>7, <2>8, <2>9, <2>10, <2>11,
       <2>12, <2>13, <2>14, <2>15
       DEF Next, Terminated, ProducerStep, ResizeStep, FlushStep
<1>3. LockInv /\ LockTypes /\ IndexInv /\ IndexInv' /\ WorkerTypes /\ HeldInv
         /\ [Next]_vars => HeldInv'
  BY <1>2
<1> QED
  BY <1>1, <1>3, LockInvariant, LockTypesInvariant, IndexInvariant,
     WorkerTypesInvariant, PTL DEF Spec

\* No two goroutines use one slot of one array at once, whatever the sizes a
\* resize goes through and whichever mask a store has loaded, if the number of
\* shards divides the size of the ring: indexes with one slot have one shard.
THEOREM SlotExclusiveTheorem ==
    ASSUME InitSize % ShardCount = 0 PROVE Spec => []SlotExclusive
<1>1. ASSUME RingInv, IndexInv, ProducerTypes, WorkerTypes, DividedInv, HeldInv
      PROVE  SlotExclusive
  <2> USE <1>1
  <2>0. /\ mask \in Nat /\ fi \in Nat /\ ShardCount \in Nat \ {0}
        /\ w \in [Producers -> Nat] /\ msk \in [Producers -> Entry]
    BY ConstantsAssumption DEF RingInv, ProducerTypes, WorkerTypes
  <2>1. ASSUME NEW p \in Producers
        PROVE  StoreSlot(p) % ShardCount = w[p] % ShardCount
    <3> DEFINE m == (IF msk[p] # Nil THEN msk[p] ELSE mask) + 1
    <3>1. m \in Nat \ {0} /\ m % ShardCount = 0
      BY <2>0 DEF DividedInv, Divides, Entry, Nil
    <3>2. w[p] \in Nat
      BY <2>0
    <3>3. StoreSlot(p) = w[p] % m
      BY DEF StoreSlot
    <3> HIDE DEF m
    <3> QED
      BY <2>0, <3>1, <3>2, <3>3, RemainderOfRemainder
  <2>2. FlushSlot % ShardCount = fi % ShardCount
    <3>1. mask + 1 \in Nat \ {0} /\ (mask + 1) % ShardCount = 0
      BY <2>0 DEF DividedInv, Divides
    <3> QED
      BY <2>0, <3>1, RemainderOfRemainder DEF FlushSlot
  <2>3. ASSUME NEW p \in Producers, NEW q \in Producers, p # q,
               pc[p] = "store", pc[q] = "store"
        PROVE  StoreSlot(p) # StoreSlot(q)
    <3>1. shard[w[p] % ShardCount] = p /\ shard[w[q] % ShardCount] = q
      BY <2>3 DEF HeldInv
    <3> QED
      BY <2>1, <2>3, <3>1
  <2>4. ASSUME NEW p \in Producers, pc[p] = "store",
               wpc \in {"batch", "emit"}, fi < fEnd
        PROVE  StoreSlot(p) # FlushSlot
    <3>1. shard[w[p] % ShardCount] = p
      BY <2>4 DEF HeldInv
    <3>2. readIndex <= fi /\ Covers(fEnd)
      BY <2>4 DEF HeldInv
    <3>3. fi \in readIndex..(fEnd - 1)
      <4>1. readIndex \in Int /\ fEnd \in Int
        BY DEF IndexInv, WorkerTypes
      <4> QED
        BY <2>0, <2>4, <3>2, <4>1
    <3>4. shard[fi % ShardCount] = Worker
      BY <3>2, <3>3 DEF Covers
    <3>5. p # Worker
      BY ConstantsAssumption
    <3> QED
      BY <2>1, <2>2, <3>1, <3>4, <3>5
  <2> QED
    BY <2>3, <2>4 DEF SlotExclusive
<1>2. RingInv /\ IndexInv /\ ProducerTypes /\ WorkerTypes /\ DividedInv
         /\ HeldInv => SlotExclusive
  BY <1>1
<1> QED
  BY <1>2, RingInvariant, IndexInvariant, ProducerTypesInvariant,
     WorkerTypesInvariant, DividedInvariant, HeldInvariant, PTL

--------------------------------------------------------------------------------
(* The ring while no resize replaces the array.                             *)

\* What keeps maybeResize from replacing the array: writes do not call it, its
\* threshold is one that no utilization is above, or the ring is as large as
\* a ring may get.
NoResize == ~DynamicResize \/ ResizeThreshold = 100 \/ 2 * InitSize > MaxSize

\* No resize gets past its second look, so that every store goes to the one
\* array there is.
FixedInv ==
    /\ rz \in {"none", "recheck"}
    /\ IF DynamicResize THEN ~ResizeNeeded
       ELSE spawned = 0 /\ lockers = 0 /\ rz = "none" /\ rwState = "free"
    /\ size = InitSize /\ bufLen = InitSize /\ mask = InitSize - 1
    /\ \A p \in Producers : msk[p] \in {Nil, mask} /\ arr[p] \in {Nil, bufLen}

\* An entry is in the slot of its index, also when the worker finds it there at
\* the turn of another one.
PlacedInv ==
    /\ \A s \in DOMAIN buffer : buffer[s] # Nil => buffer[s] % InitSize = s
    /\ wpc = "emit" => fEntry % InitSize = fi % InitSize

\* FixedInv is inductive: only a write spawns a resize, and what the resize
\* looks at stays within the threshold or the largest size.
THEOREM FixedInvariant == ASSUME NoResize PROVE Spec => []FixedInv
<1> USE ConstantsAssumption DEF FixedInv
<1>1. Init => FixedInv
  BY DEF Init, NoResize, ResizeNeeded, newSize
<1>2. ASSUME ProducerTypes, FixedInv, UtilizationInRange', [Next]_vars
      PROVE  FixedInv'
  <2> USE <1>2 DEF Alive, At, ResizerAt, WorkerAt
  <2>0. msk \in [Producers -> Entry] /\ arr \in [Producers -> Entry]
    BY DEF ProducerTypes
  <2>1. ASSUME DynamicResize, size' = InitSize PROVE ~ResizeNeeded'
    BY <2>1 DEF NoResize, ResizeNeeded, newSize, UtilizationInRange
  <2>a. ASSUME UNCHANGED <<rz, size, bufLen, mask, msk, arr>>,
               ~DynamicResize => UNCHANGED <<spawned, lockers, rwState>>
        PROVE  FixedInv'
    <3>1. size' = InitSize
      BY <2>a
    <3> QED
      BY <2>1, <2>a, <3>1
  <2>2. ASSUME NEW p \in Producers, LockShard(p) \/ StoreEntry(p) PROVE FixedInv'
    <3>1. /\ UNCHANGED <<rz, spawned, lockers, rwState, size, bufLen, mask>>
          /\ \A q \in Producers : /\ msk'[q] \in {Nil, mask}
                                  /\ arr'[q] \in {Nil, bufLen}
      BY <2>0, <2>2 DEF LockShard, StoreEntry
    <3>2. size' = InitSize
      BY <3>1
    <3> QED
      BY <2>1, <3>1, <3>2
  <2>3. ASSUME NEW p \in Producers,
               \/ WriteStart(p) \/ LoadReadIndex(p) \/ Claim(p) \/ ClaimLost(p)
               \/ EnterSlowPath(p) \/ Backoff(p) \/ SlowRLock(p)
               \/ SlowLoadWrite(p) \/ StoreOutOfRange(p)
               \/ DropEntry(p) \/ Account(p)
        PROVE  FixedInv'
    BY <2>3, <2>a DEF WriteStart, LoadReadIndex, Claim, ClaimLost, EnterSlowPath,
       Backoff, SlowRLock, RLock, SlowLoadWrite, StoreOutOfRange, DropEntry,
       Account, Return, RUnlock
  <2>4. CASE ResizeStep
    <3>1. /\ DynamicResize /\ UNCHANGED <<size, bufLen, mask, msk, arr>>
          /\ rz' \in {"none", "recheck"}
      BY <2>4 DEF ResizeStep, ResizeCheck, ResizeAnnounce, ResizeAcquire,
         ResizeAbandon, ResizeLoad, ResizeLockShard, ResizeCopy, PublishBuffer,
         PublishSize, PublishMask
    <3>2. size' = InitSize
      BY <3>1
    <3> QED
      BY <2>1, <3>1, <3>2
  <2>5. CASE WorkerTick \/ WorkerStop \/ FlushStep
    BY <2>5, <2>a DEF WorkerTick, WorkerStop, RLock, FlushStep, FlushEmpty,
       RUnlock, FlushLoad, FlushLockShard, FlushShardsLocked, FlushSkip,
       FlushTake, FlushWrite, FlushWriteError, FlushUnlock, FlushAdvance
  <2>6. CASE CloseSignal \/ CloseAgain \/ CloseReturn
    BY <2>6, <2>a DEF CloseSignal, CloseAgain, CloseReturn
  <2>7. CASE UNCHANGED vars
    BY <2>7, <2>a
  <2> QED
    BY <2>2, <2>3, <2>4, <2>5, <2>6, <2>7 DEF Next, Terminated, ProducerStep
<1>3. ProducerTypes /\ UtilizationInRange' /\ FixedInv /\ [Next]_vars => FixedInv'
  BY <1>2
<1> QED
  BY <1>1, <1>3, ProducerTypesInvariant, UtilizationTheorem, PTL DEF Spec

\* The resizes that start touch neither the ring nor the goroutines that use it.
LEMMA FixedResize ==
    ASSUME FixedInv, ResizeStep
    PROVE  UNCHANGED <<ringVars, prodVars, workVars, closeVars, histVars>>
BY DEF FixedInv, ResizeStep, ResizerAt, ResizeCheck, ResizeAnnounce,
   ResizeAcquire, ResizeAbandon, ResizeLoad, ResizeLockShard, ResizeCopy,
   PublishBuffer, PublishSize, PublishMask

\* Where the two accesses to a slot go when there is one array.
LEMMA FixedSlots ==
    ASSUME FixedInv, RingTypes, ProducerTypes, WorkerTypes
    PROVE  /\ DOMAIN buffer = 0..(InitSize - 1)
           /\ FlushSlot = fi % InitSize /\ FlushSlot \in DOMAIN buffer
           /\ \A p \in Producers : /\ StoreArray(p) = bufLen
                                   /\ StoreSlot(p) = w[p] % InitSize
                                   /\ StoreSlot(p) \in DOMAIN buffer
<1>1. InitSize \in Nat \ {0} /\ DOMAIN buffer = 0..(InitSize - 1)
  BY ConstantsAssumption DEF FixedInv, RingTypes
<1>2. mask + 1 = InitSize
  BY <1>1 DEF FixedInv
<1>3. FlushSlot = fi % InitSize /\ fi \in Nat
  BY <1>2 DEF FlushSlot, WorkerTypes
<1>4. ASSUME NEW p \in Producers
      PROVE  /\ StoreArray(p) = bufLen /\ w[p] \in Nat
             /\ StoreSlot(p) = w[p] % InitSize
  BY <1>2 DEF FixedInv, StoreArray, StoreSlot, ProducerTypes
<1>5. FlushSlot \in DOMAIN buffer
  BY <1>1, <1>3, ModRange
<1>6. \A p \in Producers : StoreSlot(p) \in DOMAIN buffer
  BY <1>1, <1>4, ModRange
<1> QED
  BY <1>1, <1>3, <1>4, <1>5, <1>6

\* PlacedInv is inductive: a store and a flush find the slot of an index with
\* the same mask.
THEOREM PlacedInvariant == ASSUME NoResize PROVE Spec => []PlacedInv
<1> USE DEF PlacedInv
<1>1. Init => PlacedInv
  BY ConstantsAssumption DEF Init
<1>2. ASSUME FixedInv, RingTypes, ProducerTypes, WorkerTypes, PlacedInv,
             [Next]_vars
      PROVE  PlacedInv'
  <2> USE <1>2 DEF Alive, At, ResizerAt, WorkerAt
  <2>0. /\ DOMAIN buffer = 0..(InitSize - 1)
        /\ FlushSlot = fi % InitSize /\ FlushSlot \in DOMAIN buffer
        /\ \A p \in Producers : /\ StoreArray(p) = bufLen
                                /\ StoreSlot(p) = w[p] % InitSize
                                /\ StoreSlot(p) \in DOMAIN buffer
    BY FixedSlots
  <2>a. ASSUME UNCHANGED buffer, wpc' = "emit" => UNCHANGED <<wpc, fi, fEntry>>
        PROVE  PlacedInv'
    BY <2>a
  <2>1. ASSUME NEW p \in Producers, StoreEntry(p) PROVE PlacedInv'
    <3>1. /\ buffer' = [buffer EXCEPT ![StoreSlot(p)] = w[p]]
          /\ UNCHANGED <<wpc, fi, fEntry>>
      BY <2>0, <2>1 DEF StoreEntry
    <3>2. StoreSlot(p) = w[p] % InitSize /\ StoreSlot(p) \in DOMAIN buffer
      BY <2>0
    <3> QED
      BY <3>1, <3>2
  <2>2. ASSUME NEW p \in Producers, WriteStart(p) \/ ProducerStep(p), ~StoreEntry(p)
        PROVE  PlacedInv'
    BY <2>2, <2>a DEF WriteStart, ProducerStep, LoadReadIndex, Claim, ClaimLost,
       DropEntry, EnterSlowPath, Backoff, SlowRLock, SlowLoadWrite,
       LockShard, StoreOutOfRange, Account
  <2>3. CASE ResizeStep
    BY <2>3, <2>a, FixedResize
  <2>4. CASE FlushTake
    <3>1. /\ UNCHANGED <<buffer, fi>> /\ fEntry' = buffer[FlushSlot]
          /\ buffer[FlushSlot] # Nil
      BY <2>4 DEF FlushTake
    <3>2. buffer[FlushSlot] % InitSize = FlushSlot
      BY <2>0, <3>1
    <3> QED
      BY <2>0, <3>1, <3>2
  <2>5. CASE FlushWrite
    <3>1. buffer' = [buffer EXCEPT ![FlushSlot] = Nil] /\ wpc' = "batch"
      BY <2>5 DEF FlushWrite, ClearSlot
    <3> QED
      BY <3>1
  <2>6. CASE WorkerTick \/ WorkerStop \/ (FlushStep /\ ~FlushTake /\ ~FlushWrite)
    BY <2>6, <2>a DEF WorkerTick, WorkerStop, FlushStep, FlushEmpty, FlushLoad,
       AfterFlush, FlushLockShard, FlushShardsLocked, FlushSkip,
       FlushWriteError, FlushUnlock, FlushAdvance
  <2>7. CASE CloseSignal \/ CloseAgain \/ CloseReturn
    BY <2>7, <2>a DEF CloseSignal, CloseAgain, CloseReturn
  <2>8. CASE UNCHANGED vars
    BY <2>8, <2>a
  <2> QED
    BY <2>1, <2>2, <2>3, <2>4, <2>5, <2>6, <2>7, <2>8 DEF Next, Terminated, FlushStep
<1>3. FixedInv /\ RingTypes /\ ProducerTypes /\ WorkerTypes /\ PlacedInv
         /\ [Next]_vars => PlacedInv'
  BY <1>2
<1> QED
  BY <1>1, <1>3, FixedInvariant, RingTypesInvariant, ProducerTypesInvariant,
     WorkerTypesInvariant, PTL DEF Spec

\* Two claimed indexes from readIndex on have slots of their own.
LEMMA OneLap ==
    ASSUME IndexInv, FixedInv, NEW i \in Nat, NEW j \in Nat,
           readIndex <= i, readIndex <= j, i < writeIndex, j < writeIndex, i # j
    PROVE  i % InitSize # j % InitSize
<1>1. InitSize \in Nat \ {0} /\ i - j < InitSize /\ j - i < InitSize
  BY ConstantsAssumption DEF IndexInv, FixedInv, Capacity
<1>2. CASE i < j
  BY <1>1, <1>2, ModDistinct
<1>3. CASE j < i
  BY <1>1, <1>3, ModDistinct
<1> QED
  BY <1>2, <1>3

\* The worker never writes an entry out before its turn: a slot holds the entry
\* of its index or one of an earlier lap, never of a later one.
THEOREM NeverEarlyTheorem == ASSUME NoResize PROVE Spec => []NeverEarly
<1>1. ASSUME IndexInv, HeldInv, WorkerTypes, OnceInv, FixedInv, PlacedInv
      PROVE  NeverEarly
  <2> SUFFICES ASSUME wpc = "emit", fEntry > fi PROVE FALSE
    BY <1>1 DEF NeverEarly, WorkerTypes
  <2>1. /\ fi \in Nat /\ fEntry \in Nat /\ fEntry < writeIndex
        /\ readIndex <= fi /\ readIndex \in Nat /\ writeIndex \in Nat
    BY <1>1 DEF WorkerTypes, OnceInv, HeldInv, IndexInv
  <2>2. fi < writeIndex /\ readIndex <= fEntry /\ fi # fEntry
    BY <2>1
  <2>3. fEntry % InitSize # fi % InitSize
    BY <1>1, <2>1, <2>2, OneLap
  <2> QED
    BY <1>1, <2>3 DEF PlacedInv
<1>2. IndexInv /\ HeldInv /\ WorkerTypes /\ OnceInv /\ FixedInv /\ PlacedInv
         => NeverEarly
  BY <1>1
<1> QED
  BY <1>2, IndexInvariant, HeldInvariant, WorkerTypesInvariant, OnceInvariant,
     FixedInvariant, PlacedInvariant, PTL

--------------------------------------------------------------------------------
(* What becomes of the indexes that were claimed.                           *)

Handled(i) == i \in delivered \/ Disturbed(i)

\* The entry of i is with its producer or in its slot.
Waiting(i) == (\E p \in Pending : w[p] = i) \/ buffer[i % InitSize] = i

\* What flushes have gone past was written out or is known to be disturbed; the
\* worker, at a slot, holds its own entry or has noted that it found another.
PastInv ==
    /\ \A i \in 0..(readIndex - 1) : Handled(i)
    /\ wpc \in {"batch", "emit"} => \A i \in readIndex..(fi - 1) : Handled(i)
    /\ wpc \in {"unlock", "advance"} => \A i \in readIndex..(fEnd - 1) : Handled(i)
    /\ wpc = "emit" => fEntry = fi \/ fi \in passed

\* The entries ahead of readIndex are where a flush will look for them.
AheadInv ==
    \A i \in readIndex..(writeIndex - 1) : Handled(i) \/ Waiting(i)

\* What is written out or disturbed remains so.
LEMMA HandledKept ==
    ASSUME delivered \subseteq delivered', passed \subseteq passed',
           failed \subseteq failed', NEW i, Handled(i)
    PROVE  Handled(i)'
BY DEF Handled, Disturbed

\* A flush that went past a slot, or failed before it, has disturbed its index.
LEMMA DisturbedThere ==
    ASSUME NEW i \in Nat, i \in passed \cup failed PROVE Disturbed(i)
BY DEF Disturbed

\* A later lap of a disturbed index is disturbed too.
LEMMA DisturbedLater ==
    ASSUME NEW k \in Nat, NEW i \in Nat, k <= i, k % InitSize = i % InitSize,
           Disturbed(k), passed \subseteq Nat, failed \subseteq Nat
    PROVE  Disturbed(i)
<1>1. PICK j \in passed \cup failed : j <= k /\ j % InitSize = k % InitSize
  BY DEF Disturbed
<1>2. j \in Nat /\ j <= i
  BY <1>1
<1> QED
  BY <1>1, <1>2 DEF Disturbed

\* PastInv is inductive: an index is gone past only by writing its entry out,
\* by noting that it was not there, or by the failure that ends the flush.
THEOREM PastInvariant == ASSUME NoResize PROVE Spec => []PastInv
<1> USE DEF PastInv
<1>1. Init => PastInv
  BY DEF Init
<1>2. ASSUME IndexInv, FixedInv, WorkerTypes, HeldInv, PastInv, [Next]_vars
      PROVE  PastInv'
  <2> USE <1>2 DEF Alive, At, ResizerAt, WorkerAt
  <2>0. /\ readIndex \in Nat /\ fi \in Nat /\ fEnd \in Nat
        /\ passed \subseteq Nat /\ failed \subseteq Nat
    BY DEF IndexInv, WorkerTypes
  <2>a. ASSUME UNCHANGED <<readIndex, wpc, fi, fEnd, fEntry, histVars>>
        PROVE  PastInv'
    BY <2>a, HandledKept
  \* Steps of the worker that go past no index.
  <2>b. ASSUME UNCHANGED <<readIndex, histVars>>,
               wpc' \notin {"batch", "emit", "unlock", "advance"}
        PROVE  PastInv'
    BY <2>b, HandledKept
  <2>1. ASSUME NEW p \in Producers, WriteStart(p) \/ ProducerStep(p) PROVE PastInv'
    BY <2>1, <2>a DEF WriteStart, ProducerStep, LoadReadIndex, Claim, ClaimLost,
       DropEntry, EnterSlowPath, Backoff, SlowRLock, SlowLoadWrite, LockShard,
       StoreEntry, StoreOutOfRange, Account
  <2>2. CASE ResizeStep
    BY <2>2, <2>a, FixedResize
  <2>3. CASE WorkerTick \/ WorkerStop \/ FlushEmpty \/ FlushLoad \/ FlushLockShard
    BY <2>3, <2>b DEF WorkerTick, WorkerStop, FlushEmpty, AfterFlush, FlushLoad,
       FlushLockShard
  <2>4. CASE FlushShardsLocked
    <3>1. /\ UNCHANGED <<readIndex, histVars>> /\ fi' = readIndex /\ wpc' = "batch"
      BY <2>4 DEF FlushShardsLocked
    <3>2. readIndex'..(fi' - 1) = {}
      BY <2>0, <3>1
    <3> QED
      BY <3>1, <3>2, HandledKept
  <2>5. CASE FlushSkip
    <3>1. /\ UNCHANGED <<readIndex, delivered, failed, wpc>> /\ fi' = fi + 1
          /\ passed' = passed \cup {fi} /\ wpc = "batch"
      BY <2>5 DEF FlushSkip
    <3>2. \A i : Handled(i) => Handled(i)'
      BY <3>1, HandledKept
    <3>3. PICK z \in Nat : z = fi
      BY <2>0
    <3>4. Handled(z)'
      BY <3>1, <3>3 DEF Handled, Disturbed
    <3>5. \A i \in readIndex'..(fi' - 1) : i \in readIndex..(fi - 1) \/ i = z
      BY <2>0, <3>1, <3>3
    <3>6. \A i \in readIndex'..(fi' - 1) : Handled(i)'
      BY <3>1, <3>2, <3>4, <3>5
    <3>7. \A i \in 0..(readIndex' - 1) : Handled(i)'
      BY <3>1, <3>2
    <3> QED
      BY <3>1, <3>6, <3>7
  <2>6. CASE FlushTake
    <3>1. /\ UNCHANGED <<readIndex, delivered, failed, fi>> /\ wpc' = "emit"
          /\ passed \subseteq passed' /\ wpc = "batch"
          /\ fEntry' = fi' \/ fi' \in passed'
      BY <2>6 DEF FlushTake
    <3>2. \A i : Handled(i) => Handled(i)'
      BY <3>1, HandledKept
    <3> QED
      BY <3>1, <3>2
  <2>7. CASE FlushWrite
    <3>1. /\ UNCHANGED <<readIndex, passed, failed>> /\ fi' = fi + 1
          /\ delivered' = delivered \cup {fEntry} /\ wpc = "emit" /\ wpc' = "batch"
      BY <2>7 DEF FlushWrite
    <3>2. \A i : Handled(i) => Handled(i)'
      BY <3>1, HandledKept
    <3>3. PICK z \in Nat : z = fi
      BY <2>0
    <3>4. Handled(z)'
      BY <3>1, <3>3 DEF Handled, Disturbed
    <3>5. \A i \in readIndex'..(fi' - 1) : i \in readIndex..(fi - 1) \/ i = z
      BY <2>0, <3>1, <3>3
    <3>6. \A i \in readIndex'..(fi' - 1) : Handled(i)'
      BY <3>1, <3>2, <3>4, <3>5
    <3>7. \A i \in 0..(readIndex' - 1) : Handled(i)'
      BY <3>1, <3>2
    <3> QED
      BY <3>1, <3>6, <3>7
  <2>8. CASE FlushWriteError
    <3>1. /\ UNCHANGED <<readIndex, delivered, passed, fEnd>> /\ wpc' = "unlock"
          /\ failed' = failed \cup fi..(fEnd - 1) /\ wpc = "emit"
      BY <2>8 DEF FlushWriteError
    <3>2. \A i : Handled(i) => Handled(i)'
      BY <3>1, HandledKept
    <3>3. ASSUME NEW i \in fi..(fEnd - 1) PROVE Handled(i)'
      BY <3>1 DEF Handled, Disturbed
    <3>4. \A i \in readIndex..(fEnd - 1) : i \in readIndex..(fi - 1) \/ i \in fi..(fEnd - 1)
      BY <2>0
    <3>5. \A i \in readIndex'..(fEnd' - 1) : Handled(i)'
      BY <3>1, <3>2, <3>3, <3>4
    <3>6. \A i \in 0..(readIndex' - 1) : Handled(i)'
      BY <3>1, <3>2
    <3> QED
      BY <3>1, <3>5, <3>6
  <2>9. CASE FlushUnlock
    <3>1. /\ UNCHANGED <<readIndex, fEnd, histVars>> /\ wpc' = "advance"
          /\ wpc = "unlock" \/ (wpc = "batch" /\ fi = fEnd)
      BY <2>9 DEF FlushUnlock
    <3>2. \A i \in readIndex..(fEnd - 1) : Handled(i)
      BY <3>1
    <3> QED
      BY <3>1, <3>2, HandledKept
  <2>10. CASE FlushAdvance
    <3>1. /\ readIndex' = fEnd /\ UNCHANGED histVars
          /\ wpc' \in {"select", "done"} /\ wpc = "advance"
      BY <2>10 DEF FlushAdvance, endIndex, AfterFlush
    <3>2. \A i \in 0..(readIndex' - 1) : i \in 0..(readIndex - 1) \/ i \in readIndex..(fEnd - 1)
      BY <2>0, <3>1
    <3>3. \A i \in 0..(readIndex' - 1) : Handled(i)'
      BY <3>1, <3>2, HandledKept
    <3> QED
      BY <3>1, <3>3
  <2>11. CASE CloseSignal \/ CloseAgain \/ CloseReturn
    BY <2>11, <2>a DEF CloseSignal, CloseAgain, CloseReturn
  <2>12. CASE UNCHANGED vars
    BY <2>12, <2>a
  <2> QED
    BY <2>1, <2>2, <2>3, <2>4, <2>5, <2>6, <2>7, <2>8, <2>9, <2>10, <2>11, <2>12
       DEF Next, Terminated, FlushStep
<1>3. IndexInv /\ FixedInv /\ WorkerTypes /\ HeldInv /\ PastInv /\ [Next]_vars
         => PastInv'
  BY <1>2
<1> QED
  BY <1>1, <1>3, IndexInvariant, FixedInvariant, WorkerTypesInvariant,
     HeldInvariant, PTL DEF Spec

\* AheadInv is inductive: a late store hits the slot of a later index only if
\* its own index was passed, which disturbs the later one as well.
THEOREM AheadInvariant == ASSUME NoResize PROVE Spec => []AheadInv
<1> USE DEF AheadInv
<1>1. Init => AheadInv
  BY DEF Init
<1>2. ASSUME IndexInv, FixedInv, RingTypes, ProducerTypes, WorkerTypes, HeldInv,
             OnceInv, PastInv, AheadInv, [Next]_vars
      PROVE  AheadInv'
  <2> USE <1>2 DEF Alive, At, ResizerAt, WorkerAt
  <2>0. /\ readIndex \in Nat /\ writeIndex \in Nat /\ fi \in Nat /\ fEnd \in Nat
        /\ w \in [Producers -> Nat] /\ DOMAIN pc = Producers
        /\ passed \subseteq Nat /\ failed \subseteq Nat
    BY DEF IndexInv, WorkerTypes
  <2>01. /\ DOMAIN buffer = 0..(InitSize - 1)
         /\ FlushSlot = fi % InitSize /\ FlushSlot \in DOMAIN buffer
         /\ \A p \in Producers : /\ StoreArray(p) = bufLen
                                 /\ StoreSlot(p) = w[p] % InitSize
                                 /\ StoreSlot(p) \in DOMAIN buffer
    BY FixedSlots
  \* Steps that move no entry and no index.
  <2>a. ASSUME UNCHANGED <<readIndex, writeIndex, buffer, delivered>>,
               passed \subseteq passed', failed \subseteq failed',
               \A p \in Pending : p \in Pending' /\ w'[p] = w[p]
        PROVE  AheadInv'
    <3>1. ASSUME NEW i, Waiting(i) PROVE Waiting(i)'
      BY <2>a, <3>1 DEF Waiting
    <3>2. \A i : Handled(i) => Handled(i)'
      BY <2>a, HandledKept
    <3> QED
      BY <2>a, <3>1, <3>2
  <2>1. ASSUME NEW p \in Producers, Claim(p) PROVE AheadInv'
    <3>1. /\ UNCHANGED <<readIndex, buffer, histVars, w>> /\ w[p] = writeIndex
          /\ writeIndex' = writeIndex + 1 /\ pc' = [pc EXCEPT ![p] = "lock"]
      BY <2>1 DEF Claim, Swaps
    <3>2. p \in Pending' /\ \A q \in Pending : q \in Pending'
      BY <2>0, <3>1 DEF Pending
    <3>3. ASSUME NEW i, Waiting(i) PROVE Waiting(i)'
      BY <3>1, <3>2, <3>3 DEF Waiting
    <3>4. \A i : Handled(i) => Handled(i)'
      BY <3>1, HandledKept
    <3>5. PICK z \in Nat : z = writeIndex
      BY <2>0
    <3>6. Waiting(z)'
      BY <3>1, <3>2, <3>5 DEF Waiting
    <3>7. \A i \in readIndex'..(writeIndex' - 1) :
             i \in readIndex..(writeIndex - 1) \/ i = z
      BY <2>0, <3>1, <3>5
    <3> QED
      BY <3>3, <3>4, <3>6, <3>7
  <2>2. ASSUME NEW p \in Producers, StoreEntry(p) PROVE AheadInv'
    <3>1. /\ UNCHANGED <<readIndex, writeIndex, histVars, w>> /\ p \in Pending
          /\ buffer' = [buffer EXCEPT ![w[p] % InitSize] = w[p]]
          /\ pc' = [pc EXCEPT ![p] = "account"]
      BY <2>0, <2>01, <2>2 DEF StoreEntry, Pending
    <3>2. \A q \in Pending : q # p => q \in Pending'
      BY <2>0, <3>1 DEF Pending
    <3>3. w[p] % InitSize \in DOMAIN buffer /\ w[p] \in Nat
      BY <2>0, <2>01
    <3>4. buffer'[w[p] % InitSize] = w[p]
      BY <3>1, <3>3
    <3>5. ASSUME NEW i \in readIndex..(writeIndex - 1), ~Handled(i)
          PROVE  Waiting(i)'
      <4>1. i \in Nat /\ readIndex <= i /\ i < writeIndex
        BY <2>0
      <4>2. Waiting(i)
        BY <3>5
      <4>3. CASE \E q \in Pending : w[q] = i
        <5>1. PICK q \in Pending : w[q] = i
          BY <4>3
        <5>2. CASE q = p
          BY <3>4, <5>1, <5>2 DEF Waiting
        <5>3. CASE q # p
          BY <3>1, <3>2, <5>1, <5>3 DEF Waiting
        <5> QED
          BY <5>2, <5>3
      <4>4. CASE buffer[i % InitSize] = i /\ i % InitSize # w[p] % InitSize
        <5>1. buffer'[i % InitSize] = i
          BY <3>1, <3>3, <4>4
        <5> QED
          BY <5>1 DEF Waiting
      <4>5. CASE i % InitSize = w[p] % InitSize
        <5>1. CASE w[p] = i
          BY <3>4, <5>1 DEF Waiting
        <5>2. CASE w[p] # i
          <6>1. w[p] < writeIndex /\ w[p] \notin delivered
            BY <3>1 DEF OnceInv, Unstored
          <6>2. w[p] < readIndex
            BY <2>0, <3>3, <4>1, <4>5, <5>2, <6>1, OneLap
          <6>3. w[p] \in 0..(readIndex - 1)
            BY <2>0, <3>3, <6>2
          <6>4. Disturbed(w[p])
            BY <6>1, <6>3 DEF PastInv, Handled
          <6>5. w[p] <= i
            BY <2>0, <3>3, <4>1, <6>2
          <6>6. Disturbed(i)
            BY <2>0, <3>3, <4>1, <4>5, <6>4, <6>5, DisturbedLater
          <6> QED
            BY <3>5, <6>6 DEF Handled
        <5> QED
          BY <5>1, <5>2
      <4> QED
        BY <4>2, <4>3, <4>4, <4>5 DEF Waiting
    <3>6. \A i : Handled(i) => Handled(i)'
      BY <3>1, HandledKept
    <3> QED
      BY <3>1, <3>5, <3>6
  <2>3. ASSUME NEW p \in Producers,
               \/ WriteStart(p) \/ LoadReadIndex(p) \/ ClaimLost(p) \/ DropEntry(p)
               \/ EnterSlowPath(p) \/ Backoff(p) \/ SlowRLock(p)
               \/ SlowLoadWrite(p) \/ LockShard(p) \/ StoreOutOfRange(p) \/ Account(p)
        PROVE  AheadInv'
    BY <2>0, <2>3, <2>a DEF WriteStart, LoadReadIndex, ClaimLost, DropEntry,
       Return, EnterSlowPath, Backoff, SlowRLock, SlowLoadWrite, LockShard,
       StoreOutOfRange, Account, Pending
  <2>4. CASE ResizeStep
    BY <2>4, <2>a, FixedResize DEF Pending
  <2>5. CASE FlushWrite
    <3>1. /\ UNCHANGED <<readIndex, writeIndex, passed, failed, pc, w>>
          /\ delivered' = delivered \cup {fEntry} /\ wpc = "emit"
          /\ buffer' = [buffer EXCEPT ![fi % InitSize] = Nil]
      BY <2>01, <2>5 DEF FlushWrite, ClearSlot
    <3>2. \A i : Handled(i) => Handled(i)'
      BY <3>1, HandledKept
    <3>3. ASSUME NEW i \in readIndex..(writeIndex - 1), ~Handled(i)'
          PROVE  Waiting(i)'
      <4>1. i \in Nat /\ readIndex <= i /\ i < writeIndex
        BY <2>0
      <4>2. Waiting(i)
        BY <3>2, <3>3
      <4>3. CASE \E q \in Pending : w[q] = i
        BY <3>1, <4>3 DEF Waiting, Pending
      <4>4. CASE buffer[i % InitSize] = i /\ i % InitSize # fi % InitSize
        <5>1. buffer'[i % InitSize] = i
          BY <2>01, <3>1, <4>4
        <5> QED
          BY <5>1 DEF Waiting
      <4>5. CASE i % InitSize = fi % InitSize
        <5>1. readIndex <= fi /\ fi < writeIndex
          <6>1. readIndex <= fi /\ fi < fEnd
            BY <3>1 DEF HeldInv
          <6>2. fEnd <= writeIndex
            BY <3>1 DEF IndexInv, Flushing
          <6> QED
            BY <2>0, <6>1, <6>2
        <5>2. i = fi
          BY <2>0, <4>1, <4>5, <5>1, OneLap
        <5>3. fEntry = fi \/ fi \in passed
          BY <3>1 DEF PastInv
        <5>4. Handled(i)'
          BY <3>1, <4>1, <5>2, <5>3 DEF Handled, Disturbed
        <5> QED
          BY <3>3, <5>4
      <4> QED
        BY <4>2, <4>3, <4>4, <4>5 DEF Waiting
    <3> QED
      BY <3>1, <3>3
  <2>6. CASE FlushAdvance
    <3>1. /\ UNCHANGED <<writeIndex, buffer, histVars, pc, w>> /\ readIndex' = fEnd
          /\ wpc = "advance"
      BY <2>6 DEF FlushAdvance, endIndex
    <3>2. readIndex <= fEnd
      BY <3>1 DEF IndexInv, Flushing
    <3>3. \A i \in readIndex'..(writeIndex' - 1) : i \in readIndex..(writeIndex - 1)
      BY <2>0, <3>1, <3>2
    <3>4. \A i : Waiting(i) => Waiting(i)'
      BY <3>1 DEF Waiting, Pending
    <3>5. \A i : Handled(i) => Handled(i)'
      BY <3>1, HandledKept
    <3> QED
      BY <3>3, <3>4, <3>5
  <2>7. CASE WorkerTick \/ WorkerStop \/ (FlushStep /\ ~FlushWrite /\ ~FlushAdvance)
    BY <2>7, <2>a DEF WorkerTick, WorkerStop, FlushStep, FlushEmpty, FlushLoad,
       FlushLockShard, FlushShardsLocked, FlushSkip, FlushTake,
       FlushWriteError, FlushUnlock, Pending
  <2>8. CASE CloseSignal \/ CloseAgain \/ CloseReturn
    BY <2>8, <2>a DEF CloseSignal, CloseAgain, CloseReturn, Pending
  <2>9. CASE UNCHANGED vars
    BY <2>9, <2>a DEF Pending
  <2> QED
    BY <2>1, <2>2, <2>3, <2>4, <2>5, <2>6, <2>7, <2>8, <2>9
       DEF Next, Terminated, ProducerStep, FlushStep
<1>3. IndexInv /\ FixedInv /\ RingTypes /\ ProducerTypes /\ WorkerTypes
         /\ HeldInv /\ OnceInv /\ PastInv /\ AheadInv /\ [Next]_vars => AheadInv'
  BY <1>2
<1> QED
  BY <1>1, <1>3, IndexInvariant, FixedInvariant, RingTypesInvariant,
     ProducerTypesInvariant, WorkerTypesInvariant, HeldInvariant, OnceInvariant,
     PastInvariant, PTL DEF Spec

\* Without resizes no entry is lost but behind a flush that passed its slot too
\* early or failed there, for any number of writers laps apart.
THEOREM AccountedTheorem == ASSUME NoResize PROVE Spec => []Accounted
<1>1. ASSUME IndexInv, FixedInv, PastInv, AheadInv PROVE Accounted
  <2> SUFFICES ASSUME NEW i \in 0..(writeIndex - 1), ~Handled(i)
               PROVE  i >= readIndex /\ (InFlight(i) \/ buffer[i % size] = i)
    BY DEF Accounted, Handled
  <2>1. readIndex \in Nat /\ writeIndex \in Nat
    BY <1>1 DEF IndexInv
  <2>2. i \notin 0..(readIndex - 1)
    BY <1>1 DEF PastInv
  <2>3. i >= readIndex /\ i \in readIndex..(writeIndex - 1)
    BY <2>1, <2>2
  <2>4. Waiting(i)
    BY <1>1, <2>3 DEF AheadInv
  <2>5. InFlight(i) \/ buffer[i % size] = i
    BY <1>1, <2>4 DEF Waiting, Pending, InFlight, FixedInv
  <2> QED
    BY <2>3, <2>5
<1>2. IndexInv /\ FixedInv /\ PastInv /\ AheadInv => Accounted
  BY <1>1
<1> QED
  BY <1>2, IndexInvariant, FixedInvariant, PastInvariant, AheadInvariant, PTL

--------------------------------------------------------------------------------
(* close.                                                                   *)

\* Before close nothing is owed; the last flush, which starts after close,
\* goes past everything that is; and close returns after it.
CloseInv ==
    /\ owed \subseteq 0..(writeIndex - 1)
    /\ stopCh = "open" => owed = {} /\ closing = "no" /\ cause = "tick"
    /\ cause = "stop" /\ wpc \in Flushing => \A i \in owed : i < fEnd
    /\ wpc = "done" => cause = "stop" /\ \A i \in owed : i < readIndex
    /\ closing = "returned" => wpc = "done"

\* CloseInv is inductive if one batch can hold the ring.
THEOREM CloseInvariant ==
    ASSUME NoResize, BatchLimit >= InitSize PROVE Spec => []CloseInv
<1> USE DEF CloseInv, Flushing
<1>1. Init => CloseInv
  BY DEF Init
<1>2. ASSUME IndexInv, FixedInv, CloseTypes, CloseInv, [Next]_vars PROVE CloseInv'
  <2> USE <1>2 DEF Alive, At, ResizerAt, WorkerAt
  <2>0. /\ readIndex \in Nat /\ writeIndex \in Nat /\ fEnd \in Nat
        /\ owed \subseteq Nat
        /\ InitSize \in Nat \ {0} /\ BatchLimit \in Nat \ {0}
    BY ConstantsAssumption DEF IndexInv, CloseTypes
  <2>a. ASSUME UNCHANGED <<readIndex, writeIndex, fEnd, wpc, cause, closeVars>>
        PROVE  CloseInv'
    BY <2>a
  <2>1. ASSUME NEW p \in Producers, Claim(p) PROVE CloseInv'
    <3>1. /\ UNCHANGED <<readIndex, fEnd, wpc, cause, closeVars>>
          /\ writeIndex' = writeIndex + 1
      BY <2>1 DEF Claim
    <3>2. \A i \in 0..(writeIndex - 1) : i \in 0..(writeIndex' - 1)
      BY <2>0, <3>1
    <3> QED
      BY <3>1, <3>2
  <2>2. ASSUME NEW p \in Producers, WriteStart(p) \/ ProducerStep(p), ~Claim(p)
        PROVE  CloseInv'
    BY <2>2, <2>a DEF WriteStart, ProducerStep, LoadReadIndex, ClaimLost,
       DropEntry, EnterSlowPath, Backoff, SlowRLock, SlowLoadWrite, LockShard,
       StoreEntry, StoreOutOfRange, Account
  <2>3. CASE ResizeStep
    BY <2>3, <2>a, FixedResize
  <2>4. CASE WorkerTick \/ WorkerStop
    BY <2>4 DEF WorkerTick, WorkerStop
  <2>5. CASE FlushEmpty
    <3>1. \A i \in owed : i < readIndex
      <4>1. readIndex >= writeIndex
        BY <2>5 DEF FlushEmpty
      <4> QED
        BY <2>0, <4>1
    <3> QED
      BY <2>5, <3>1 DEF FlushEmpty, AfterFlush
  <2>6. CASE FlushLoad
    <3>1. /\ UNCHANGED <<readIndex, writeIndex, cause, closeVars>>
          /\ wpc' = "shards" /\ wpc = "load" /\ fEnd' = readIndex + batchSize
      BY <2>6 DEF FlushLoad
    <3>2. writeIndex - readIndex <= InitSize
      BY DEF IndexInv, Capacity, FixedInv
    <3>3. fEnd' = writeIndex
      BY <2>0, <3>1, <3>2 DEF batchSize
    <3>4. \A i \in owed : i < fEnd'
      BY <2>0, <3>3
    <3> QED
      BY <3>1, <3>4
  <2>7. CASE FlushAdvance
    <3>1. /\ UNCHANGED <<writeIndex, cause, closeVars>> /\ wpc = "advance"
          /\ readIndex' = fEnd /\ wpc' = AfterFlush
      BY <2>7 DEF FlushAdvance, endIndex
    <3> QED
      BY <3>1 DEF AfterFlush
  <2>8. CASE \/ FlushLockShard \/ FlushShardsLocked \/ FlushSkip \/ FlushTake
             \/ FlushWrite \/ FlushWriteError \/ FlushUnlock
    <3>1. /\ UNCHANGED <<readIndex, writeIndex, fEnd, cause, closeVars>>
          /\ wpc \in Flushing /\ wpc' \in Flushing
      BY <2>8 DEF FlushLockShard, FlushShardsLocked, FlushSkip, FlushTake,
         FlushWrite, FlushWriteError, FlushUnlock
    <3> QED
      BY <3>1
  <2>9. CASE CloseSignal
    <3>1. /\ UNCHANGED <<readIndex, writeIndex, fEnd, wpc, cause>>
          /\ owed' \subseteq 0..(writeIndex - 1) /\ stopCh' = "closed"
          /\ closing' = "waiting" /\ stopCh = "open"
      BY <2>9 DEF CloseSignal, Acked
    <3> QED
      BY <3>1
  <2>10. CASE CloseAgain \/ CloseReturn
    BY <2>10 DEF CloseAgain, CloseReturn
  <2>11. CASE UNCHANGED vars
    BY <2>11, <2>a
  <2> QED
    BY <2>1, <2>2, <2>3, <2>4, <2>5, <2>6, <2>7, <2>8, <2>9, <2>10, <2>11
       DEF Next, Terminated, FlushStep
<1>3. IndexInv /\ FixedInv /\ CloseTypes /\ CloseInv /\ [Next]_vars => CloseInv'
  BY <1>2
<1> QED
  BY <1>1, <1>3, IndexInvariant, FixedInvariant, CloseTypesInvariant, PTL DEF Spec

\* What was acknowledged before close was called has been written out, or was
\* disturbed, when close returns, if one batch can hold the ring.
THEOREM CloseDrainsTheorem ==
    ASSUME NoResize, BatchLimit >= InitSize PROVE Spec => []CloseDrains
<1>1. ASSUME IndexInv, PastInv, CloseInv PROVE CloseDrains
  <2> SUFFICES ASSUME closing = "returned", NEW i \in owed PROVE Handled(i)
    BY DEF CloseDrains, Handled
  <2>1. readIndex \in Nat /\ writeIndex \in Nat
    BY <1>1 DEF IndexInv
  <2>2. i < readIndex /\ i \in 0..(writeIndex - 1)
    BY <1>1 DEF CloseInv
  <2>3. i \in 0..(readIndex - 1)
    BY <2>1, <2>2
  <2> QED
    BY <1>1, <2>3 DEF PastInv
<1>2. IndexInv /\ PastInv /\ CloseInv => CloseDrains
  BY <1>1
<1> QED
  BY <1>2, IndexInvariant, PastInvariant, CloseInvariant, PTL

================================================================================
