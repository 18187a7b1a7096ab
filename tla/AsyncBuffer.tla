------------------------------ MODULE AsyncBuffer ------------------------------
(***************************************************************************)
(* The ring buffer of asynchronous logging (src/async.go): producer        *)
(* goroutines that call write, the one worker goroutine that flushes to    *)
(* the output, the maybeResize goroutines that writes spawn, and close.    *)
(*                                                                         *)
(* An entry is represented by the index it claimed in the ring: a slot     *)
(* holding i holds the bytes of the write whose compare-and-swap moved     *)
(* writeIndex from i to i + 1.  A goroutine's steps are its accesses to    *)
(* shared memory; steps are merged only where README.md says why no        *)
(* interleaving is lost.                                                   *)
(***************************************************************************)
EXTENDS Integers, FiniteSets

CONSTANTS
    Producers,        \* goroutines that call write
    InitSize,         \* size of the ring newAsyncBuffer allocates
    MaxSize,          \* largest size maybeResize allocates (1024*1024)
    ShardCount,       \* number of shard locks
    BatchLimit,       \* most entries one flush handles (100)
    MaxRetries,       \* maxRetries of writeWithRetry (100)
    ResizeThreshold,  \* utilization (percent) above which a write resizes
    BackpressureMode, \* "Drop" or "Block"
    DynamicResize,    \* whether writes may spawn maybeResize
    WriterMayFail,    \* whether the output's Write may return an error
    MaxWrites,        \* bound: calls of write
    MaxCloses         \* bound: calls of close

Nil    == -1          \* an empty slot; a field not loaded yet
Worker == "worker"
Resizer == "resizer"
Free   == "free"

\* newAsyncBuffer has rounded the size up to a power of two and clamped the
\* shard count; SetResizeThreshold clamps the threshold.
ASSUME ConstantsAssumption ==
    /\ Producers # {} /\ Worker \notin Producers
    /\ Resizer \notin Producers /\ Free \notin Producers
    /\ InitSize \in Nat \ {0} /\ MaxSize \in Nat
    /\ ShardCount \in Nat \ {0}
    /\ BatchLimit \in Nat \ {0}
    /\ MaxRetries \in Nat
    /\ ResizeThreshold \in 0..100
    /\ BackpressureMode \in {"Drop", "Block"}
    /\ DynamicResize \in BOOLEAN
    /\ WriterMayFail \in BOOLEAN
    /\ MaxWrites \in Nat
    /\ MaxCloses \in Nat

ASSUME PowerOfTwoAssumption == InitSize \in {2^k : k \in 0..20}

VARIABLES
    \* fields of asyncBuffer
    readIndex, writeIndex,
    size, mask,
    buffer,           \* the slots of the array b.buffer points to
    bufLen,           \* its length; every array has a length of its own
    utilization, dropCount,
    stopCh,           \* "open" or "closed"
    shard,            \* owner of each shard lock
    \* resizeLock, a sync.RWMutex
    rwState,          \* "free", "pending" (Lock announced) or "held"
    readers,          \* goroutines that hold the read lock
    rwWait,           \* goroutines blocked in RLock
    \* producers
    pc, slow, w, r, retries, arr, msk,
    \* maybeResize goroutines
    spawned,          \* how many have not read utilization yet
    lockers,          \* how many are blocked in Lock
    rz, rzWrite, newBuffer,
    \* the worker
    wpc, cause, fi, fEnd, fEntry,
    \* callers of close, and the process
    calls, closeCalls, closing, crash,
    \* history: what was written out, and by how many writes; what a flush
    \* went past without finding it; what a failing flush left behind; what
    \* close owes its caller
    delivered, outputs, passed, failed, owed

ringVars   == <<readIndex, writeIndex, size, mask, buffer, bufLen>>
statVars   == <<utilization, dropCount>>
rwVars     == <<rwState, readers, rwWait>>
prodVars   == <<pc, slow, w, r, retries, arr, msk>>
resizeVars == <<spawned, lockers, rz, rzWrite, newBuffer>>
workVars   == <<wpc, cause, fi, fEnd, fEntry>>
closeVars  == <<stopCh, closeCalls, closing, owed>>
histVars   == <<delivered, outputs, passed, failed>>
vars == <<ringVars, statVars, shard, rwVars, prodVars, resizeVars, workVars,
          calls, closeVars, crash, histVars>>

\* What the actions of producers, of resizes, of the worker and of close
\* leave alone.
offProd   == <<resizeVars, workVars, calls, closeVars, crash, histVars>>
offResize == <<statVars, prodVars, workVars, calls, closeVars, crash, histVars>>
offWork   == <<statVars, prodVars, resizeVars, calls, closeVars, crash>>
offClose  == <<ringVars, statVars, shard, rwVars, prodVars, resizeVars, workVars,
               calls, histVars>>

Shards == 0..(ShardCount - 1)
Alive == crash = "none"
At(p, l)     == Alive /\ pc[p] = l
ResizerAt(l) == Alive /\ rz = l
WorkerAt(l)  == Alive /\ wpc = l

EmptyArray == [s \in {} |-> Nil]

Init ==
    /\ readIndex = 0 /\ writeIndex = 0
    /\ size = InitSize /\ mask = InitSize - 1
    /\ buffer = [s \in 0..(InitSize - 1) |-> Nil]
    /\ bufLen = InitSize
    /\ utilization = 0 /\ dropCount = 0
    /\ shard = [k \in Shards |-> Free]
    /\ rwState = "free" /\ readers = {} /\ rwWait = {}
    /\ pc = [p \in Producers |-> "idle"]
    /\ slow = [p \in Producers |-> FALSE]
    /\ w = [p \in Producers |-> 0]
    /\ r = [p \in Producers |-> 0]
    /\ retries = [p \in Producers |-> 0]
    /\ arr = [p \in Producers |-> Nil]
    /\ msk = [p \in Producers |-> Nil]
    /\ spawned = 0 /\ lockers = 0
    /\ rz = "none" /\ rzWrite = 0 /\ newBuffer = EmptyArray
    /\ wpc = "select" /\ cause = "tick"
    /\ fi = 0 /\ fEnd = 0 /\ fEntry = Nil
    /\ calls = 0
    /\ stopCh = "open" /\ closeCalls = 0 /\ closing = "no" /\ owed = {}
    /\ crash = "none"
    /\ delivered = {} /\ outputs = 0 /\ passed = {} /\ failed = {}

--------------------------------------------------------------------------------
(* resizeLock.  A Lock that waits for readers to leave keeps new readers    *)
(* out; its Unlock lets every blocked reader in before the next Lock.       *)

\* Mutant: a reader is let in whatever a writer does.
RLockIgnoringWriter(g) ==
    readers' = readers \cup {g} /\ UNCHANGED <<rwState, rwWait>>

RLock(g) ==
    IF rwState = "free"
    THEN readers' = readers \cup {g} /\ UNCHANGED <<rwState, rwWait>>
    ELSE rwWait' = rwWait \cup {g} /\ UNCHANGED <<rwState, readers>>

RUnlock(g) == readers' = readers \ {g} /\ UNCHANGED <<rwState, rwWait>>

Unlock == rwState' = "free" /\ readers' = rwWait /\ rwWait' = {}

--------------------------------------------------------------------------------
(* write and writeWithRetry.  Both load the two indexes, test for a full    *)
(* ring and swap writeIndex; slow[p] tells which of the two p is in.        *)

\* Mutant: the entry being written is not counted.
usageWithoutEntry(p) == w[p] - r[p]

usage(p) == w[p] + 1 - r[p]

\* Mutant: the swap succeeds without a comparison.
SwapAlways(p) == TRUE

\* The compare-and-swap of writeIndex finds the value that p loaded.
Swaps(p) == writeIndex = w[p]

\* Mutant: a write that gives up after its retries is not counted.
DropsOnFastPath(p) == IF slow[p] THEN dropCount ELSE dropCount + 1

Drops(p) == dropCount + 1

\* Mutant: one retry too many.
MayRetryOnceMore(p) == retries[p] <= MaxRetries

MayRetry(p) == retries[p] + 1 <= MaxRetries

\* Mutant: retries is not incremented.
RetryUncounted(p) == UNCHANGED retries

CountRetry(p) == retries' = [retries EXCEPT ![p] = @ + 1]

\* Mutant: the shard is not waited for.
ShardAlwaysFree(k) == TRUE

ShardFree(k) == shard[k] = Free

\* The call of write ends; the deferred RUnlock of the slow path runs.
Return(p) ==
    /\ pc' = [pc EXCEPT ![p] = "idle"]
    /\ slow' = [slow EXCEPT ![p] = FALSE]
    /\ w' = [w EXCEPT ![p] = 0]
    /\ r' = [r EXCEPT ![p] = 0]
    /\ retries' = [retries EXCEPT ![p] = 0]
    /\ UNCHANGED <<arr, msk>>
    /\ RUnlock(p)

WriteStart(p) ==
    /\ At(p, "idle") /\ calls < MaxWrites
    /\ calls' = calls + 1
    /\ w' = [w EXCEPT ![p] = writeIndex]
    /\ pc' = [pc EXCEPT ![p] = "loadRead"]
    /\ UNCHANGED <<shard, slow, r, retries, arr, msk, crash, ringVars,
                   statVars, rwVars, resizeVars, workVars, closeVars,
                   histVars>>

LoadReadIndex(p) ==
    /\ At(p, "loadRead")
    /\ r' = [r EXCEPT ![p] = readIndex]
    /\ pc' = [pc EXCEPT ![p] = "claim"]
    /\ UNCHANGED <<shard, slow, w, retries, arr, msk, ringVars, statVars,
                   rwVars, offProd>>

\* There is room and the compare-and-swap succeeds.
Claim(p) ==
    /\ At(p, "claim")
    /\ usage(p) <= size
    /\ Swaps(p)
    /\ writeIndex' = writeIndex + 1
    /\ pc' = [pc EXCEPT ![p] = "lock"]
    /\ UNCHANGED <<readIndex, size, mask, buffer, bufLen, shard, slow, w, r,
                   retries, arr, msk, statVars, rwVars, offProd>>

\* There is room and the compare-and-swap fails: the fast path falls into
\* writeWithRetry, the slow path goes round its loop.
ClaimLost(p) ==
    /\ At(p, "claim")
    /\ usage(p) <= size
    /\ ~Swaps(p)
    /\ pc' = [pc EXCEPT ![p] = IF slow[p] THEN "loadWrite" ELSE "rlock"]
    /\ UNCHANGED <<shard, slow, w, r, retries, arr, msk, ringVars, statVars,
                   rwVars, offProd>>

\* Full ring: ErrBufferFull in drop mode on either path, and in block mode
\* once the retries are used up or five seconds have passed.
DropEntry(p) ==
    /\ At(p, "claim")
    /\ usage(p) > size
    /\ BackpressureMode = "Drop" \/ slow[p]
    /\ dropCount' = Drops(p)
    /\ Return(p)
    /\ UNCHANGED <<utilization, shard, ringVars, offProd>>

\* Full ring in block mode: the fast path enters writeWithRetry.
EnterSlowPath(p) ==
    /\ At(p, "claim")
    /\ usage(p) > size
    /\ BackpressureMode = "Block" /\ ~slow[p]
    /\ pc' = [pc EXCEPT ![p] = "rlock"]
    /\ UNCHANGED <<shard, slow, w, r, retries, arr, msk, ringVars, statVars,
                   rwVars, offProd>>

\* Full ring in block mode on the slow path: sleep and go round the loop.
Backoff(p) ==
    /\ At(p, "claim")
    /\ usage(p) > size
    /\ BackpressureMode = "Block" /\ slow[p]
    /\ MayRetry(p)
    /\ CountRetry(p)
    /\ pc' = [pc EXCEPT ![p] = "loadWrite"]
    /\ UNCHANGED <<shard, slow, w, r, arr, msk, ringVars, statVars, rwVars,
                   offProd>>

\* writeWithRetry calls resizeLock.RLock.
SlowRLock(p) ==
    /\ At(p, "rlock")
    /\ RLock(p)
    /\ slow' = [slow EXCEPT ![p] = TRUE]
    /\ pc' = [pc EXCEPT ![p] = "loadWrite"]
    /\ UNCHANGED <<shard, w, r, retries, arr, msk, ringVars, statVars,
                   offProd>>

SlowLoadWrite(p) ==
    /\ At(p, "loadWrite")
    /\ p \in readers
    /\ w' = [w EXCEPT ![p] = writeIndex]
    /\ pc' = [pc EXCEPT ![p] = "loadRead"]
    /\ UNCHANGED <<shard, slow, r, retries, arr, msk, ringVars, statVars,
                   rwVars, offProd>>

\* Take the shard lock and make the first of the two unsynchronized loads of
\* b.buffer[writeIndex&b.mask]; the build may make them in either order.
LockShard(p) ==
    /\ At(p, "lock")
    /\ ShardFree(w[p] % ShardCount)
    /\ shard' = [shard EXCEPT ![w[p] % ShardCount] = p]
    /\ \/ arr' = [arr EXCEPT ![p] = bufLen] /\ UNCHANGED msk
       \/ msk' = [msk EXCEPT ![p] = mask] /\ UNCHANGED arr
    /\ pc' = [pc EXCEPT ![p] = "store"]
    /\ UNCHANGED <<slow, w, r, retries, ringVars, statVars, rwVars, offProd>>

\* Array and slot of p's store, once both loads are made.
StoreArray(p) == IF arr[p] # Nil THEN arr[p] ELSE bufLen
StoreSlot(p)  == w[p] % ((IF msk[p] # Nil THEN msk[p] ELSE mask) + 1)

\* The second load, the store and the unlock.  A store through a pointer to
\* an array that maybeResize has replaced since is lost.
StoreEntry(p) ==
    /\ At(p, "store")
    /\ StoreSlot(p) < StoreArray(p)
    /\ buffer' = IF StoreArray(p) = bufLen
                 THEN [buffer EXCEPT ![StoreSlot(p)] = w[p]]
                 ELSE buffer
    /\ shard' = [shard EXCEPT ![w[p] % ShardCount] = Free]
    /\ arr' = [arr EXCEPT ![p] = Nil]
    /\ msk' = [msk EXCEPT ![p] = Nil]
    /\ pc' = [pc EXCEPT ![p] = "account"]
    /\ UNCHANGED <<readIndex, writeIndex, size, mask, bufLen, slow, w, r,
                   retries, statVars, rwVars, offProd>>

\* The new mask applied to the old array: index out of range.
StoreOutOfRange(p) ==
    /\ At(p, "store")
    /\ StoreSlot(p) >= StoreArray(p)
    /\ crash' = "outOfRange"
    /\ UNCHANGED <<closeVars, offClose>>

\* Publish the utilization; only the fast path spawns a resize.  The code loads
\* size a second time for the test: a resize that doubles it just then makes the
\* write spawn none, which is as if there were no need of another one.
Account(p) ==
    LET u == (usage(p) * 100) \div size IN
    /\ At(p, "account")
    /\ utilization' = u
    /\ spawned' = IF ~slow[p] /\ DynamicResize /\ u > ResizeThreshold
                  THEN spawned + 1 ELSE spawned
    /\ Return(p)
    /\ UNCHANGED <<dropCount, shard, lockers, rz, rzWrite, newBuffer, calls,
                   crash, ringVars, workVars, closeVars, histVars>>

ProducerStep(p) ==
    \/ LoadReadIndex(p) \/ Claim(p) \/ ClaimLost(p) \/ DropEntry(p)
    \/ EnterSlowPath(p) \/ Backoff(p) \/ SlowRLock(p) \/ SlowLoadWrite(p)
    \/ LockShard(p) \/ StoreEntry(p) \/ StoreOutOfRange(p) \/ Account(p)

--------------------------------------------------------------------------------
(* maybeResize.  Of the goroutines that run it only the one that holds      *)
(* resizeLock has a position, rz; the others are counted.                   *)

newSize == size * 2

ResizeCheck ==
    /\ Alive /\ spawned > 0
    /\ spawned' = spawned - 1
    /\ lockers' = IF utilization > ResizeThreshold THEN lockers + 1 ELSE lockers
    /\ UNCHANGED <<shard, rz, rzWrite, newBuffer, ringVars, rwVars, offResize>>

\* resizeLock.Lock: announce the writer, then wait for the readers to leave.
ResizeAnnounce ==
    /\ Alive /\ lockers > 0 /\ rwState = "free"
    /\ rwState' = "pending"
    /\ lockers' = lockers - 1
    /\ UNCHANGED <<shard, readers, rwWait, spawned, rz, rzWrite, newBuffer,
                   ringVars, offResize>>

ResizeAcquire ==
    /\ Alive /\ rwState = "pending" /\ readers = {}
    /\ rwState' = "held"
    /\ rz' = "recheck"
    /\ UNCHANGED <<shard, readers, rwWait, spawned, lockers, rzWrite,
                   newBuffer, ringVars, offResize>>

\* The second look at utilization, and the largest size.
ResizeNeeded == utilization > ResizeThreshold /\ newSize <= MaxSize

ResizeAbandon ==
    /\ ResizerAt("recheck") /\ ~ResizeNeeded
    /\ rz' = "none"
    /\ Unlock
    /\ UNCHANGED <<shard, spawned, lockers, rzWrite, newBuffer, ringVars,
                   offResize>>

\* The indexes are loaded before the shards are locked.  readIndex cannot
\* move while resizeLock is held, so only writeIndex is remembered.
ResizeLoad ==
    /\ ResizerAt("recheck") /\ ResizeNeeded
    /\ rzWrite' = writeIndex
    /\ rz' = "shards"
    /\ UNCHANGED <<shard, spawned, lockers, newBuffer, ringVars, rwVars,
                   offResize>>

ResizeLockShard(k) ==
    /\ ResizerAt("shards")
    /\ ShardFree(k)
    /\ \A j \in 0..(k - 1) : shard[j] = Resizer
    /\ shard' = [shard EXCEPT ![k] = Resizer]
    /\ UNCHANGED <<ringVars, rwVars, resizeVars, offResize>>

\* What the copy loop leaves in slot s of the new array: the slot of the one
\* index in readIndex..rzWrite-1 that the new mask maps to s.
Copied(s) ==
    IF \E i \in readIndex..(rzWrite - 1) : i % newSize = s
    THEN buffer[(CHOOSE i \in readIndex..(rzWrite - 1) : i % newSize = s)
                % (mask + 1)]
    ELSE Nil

\* All shards are held: copy, then unlock them all.
ResizeCopy ==
    /\ ResizerAt("shards")
    /\ \A k \in Shards : shard[k] = Resizer
    /\ newBuffer' = [s \in 0..(newSize - 1) |-> Copied(s)]
    /\ shard' = [k \in Shards |-> Free]
    /\ rz' = "pubBuffer"
    /\ rzWrite' = 0
    /\ UNCHANGED <<spawned, lockers, ringVars, rwVars, offResize>>

\* The three plain stores that publish the new ring; no shard is held.
PublishBuffer ==
    /\ ResizerAt("pubBuffer")
    /\ buffer' = newBuffer
    /\ bufLen' = newSize
    /\ newBuffer' = EmptyArray
    /\ rz' = "pubSize"
    /\ UNCHANGED <<readIndex, writeIndex, size, mask, shard, spawned, lockers,
                   rzWrite, rwVars, offResize>>

PublishSize ==
    /\ ResizerAt("pubSize")
    /\ size' = newSize
    /\ rz' = "pubMask"
    /\ UNCHANGED <<readIndex, writeIndex, mask, buffer, bufLen, shard, spawned,
                   lockers, rzWrite, newBuffer, rwVars, offResize>>

PublishMask ==
    /\ ResizerAt("pubMask")
    /\ mask' = size - 1
    /\ rz' = "none"
    /\ Unlock
    /\ UNCHANGED <<readIndex, writeIndex, size, buffer, bufLen, shard, spawned,
                   lockers, rzWrite, newBuffer, offResize>>

ResizeStep ==
    \/ ResizeCheck \/ ResizeAnnounce \/ ResizeAcquire \/ ResizeAbandon
    \/ ResizeLoad \/ \E k \in Shards : ResizeLockShard(k)
    \/ ResizeCopy \/ PublishBuffer \/ PublishSize \/ PublishMask

--------------------------------------------------------------------------------
(* The worker goroutine and flush.                                          *)

\* A tick of the flush interval was chosen by select.
WorkerTick ==
    /\ WorkerAt("select")
    /\ wpc' = "load"
    /\ RLock(Worker)
    /\ UNCHANGED <<shard, cause, fi, fEnd, fEntry, ringVars, histVars,
                   offWork>>

\* The closed stopCh was chosen by select: flush once, then return.
WorkerStop ==
    /\ WorkerAt("select") /\ stopCh = "closed"
    /\ wpc' = "load"
    /\ cause' = "stop"
    /\ RLock(Worker)
    /\ UNCHANGED <<shard, fi, fEnd, fEntry, ringVars, histVars, offWork>>

\* Mutant: the worker does not return after the last flush.
AfterFlushSelect == "select"

AfterFlush == IF cause = "stop" THEN "done" ELSE "select"

FlushEmpty ==
    /\ WorkerAt("load") /\ Worker \in readers
    /\ readIndex >= writeIndex
    /\ wpc' = AfterFlush
    /\ RUnlock(Worker)
    /\ UNCHANGED <<shard, cause, fi, fEnd, fEntry, ringVars, histVars,
                   offWork>>

\* Mutant: a flush handles one entry.
batchSizeOne == 1

batchSize == IF writeIndex - readIndex > BatchLimit
             THEN BatchLimit ELSE writeIndex - readIndex

FlushLoad ==
    /\ WorkerAt("load") /\ Worker \in readers
    /\ readIndex < writeIndex
    /\ fi' = readIndex
    /\ fEnd' = readIndex + batchSize
    /\ wpc' = "shards"
    /\ UNCHANGED <<shard, cause, fEntry, ringVars, rwVars, histVars, offWork>>

ShardsHeld(g) == {k \in Shards : shard[k] = g}

\* Lock the shards of the batch, in the order in which its indexes meet them.
FlushLockShard ==
    /\ WorkerAt("shards")
    /\ fi < fEnd
    /\ fi % ShardCount \notin ShardsHeld(Worker)
    /\ ShardFree(fi % ShardCount)
    /\ shard' = [shard EXCEPT ![fi % ShardCount] = Worker]
    /\ fi' = fi + 1
    /\ UNCHANGED <<wpc, cause, fEnd, fEntry, ringVars, rwVars, histVars,
                   offWork>>

\* The indexes still to look at, if any, meet shards that are held already.
FlushShardsLocked ==
    /\ WorkerAt("shards")
    /\ fi = fEnd \/ fi % ShardCount \in ShardsHeld(Worker)
    /\ fi' = readIndex
    /\ wpc' = "batch"
    /\ UNCHANGED <<shard, cause, fEnd, fEntry, ringVars, rwVars, histVars,
                   offWork>>

\* Mutant: the slot of the next index.
FlushSlotNext == (fi + 1) % (mask + 1)

FlushSlot == fi % (mask + 1)

\* An empty slot is skipped: its writer has claimed it and not stored yet.
FlushSkip ==
    /\ WorkerAt("batch") /\ fi < fEnd
    /\ buffer[FlushSlot] = Nil
    /\ fi' = fi + 1
    /\ passed' = passed \cup {fi}
    /\ UNCHANGED <<shard, wpc, cause, fEnd, fEntry, delivered, outputs, failed,
                   ringVars, rwVars, offWork>>

\* The slot may hold an older entry, one that a failed flush left behind.
FlushTake ==
    /\ WorkerAt("batch") /\ fi < fEnd
    /\ buffer[FlushSlot] # Nil
    /\ fEntry' = buffer[FlushSlot]
    /\ wpc' = "emit"
    /\ passed' = IF buffer[FlushSlot] = fi THEN passed ELSE passed \cup {fi}
    /\ UNCHANGED <<shard, cause, fi, fEnd, delivered, outputs, failed, ringVars, rwVars,
                   offWork>>

\* Mutant: the slot is not cleared.
SlotUncleared == UNCHANGED buffer

ClearSlot == buffer' = [buffer EXCEPT ![FlushSlot] = Nil]

\* The output accepts the entry and the slot is cleared.
FlushWrite ==
    /\ WorkerAt("emit")
    /\ delivered' = delivered \cup {fEntry}
    /\ outputs' = outputs + 1
    /\ ClearSlot
    /\ fi' = fi + 1
    /\ fEntry' = Nil
    /\ wpc' = "batch"
    /\ UNCHANGED <<readIndex, writeIndex, size, mask, bufLen, shard, cause,
                   fEnd, passed, failed, rwVars, offWork>>

\* The output fails: leave the loop, keep this slot and the ones after it.
FlushWriteError ==
    /\ WorkerAt("emit") /\ WriterMayFail
    /\ failed' = failed \cup fi..(fEnd - 1)
    /\ fEntry' = Nil
    /\ wpc' = "unlock"
    /\ UNCHANGED <<shard, cause, fi, fEnd, delivered, outputs, passed, ringVars, rwVars,
                   offWork>>

FlushUnlock ==
    /\ WorkerAt("unlock") \/ (WorkerAt("batch") /\ fi = fEnd)
    /\ shard' = [k \in Shards |-> IF shard[k] = Worker THEN Free ELSE shard[k]]
    /\ fi' = 0
    /\ wpc' = "advance"
    /\ UNCHANGED <<cause, fEnd, fEntry, ringVars, rwVars, histVars, offWork>>

\* Mutant: what was written since the batch was cut is released too.
ReleaseAll == writeIndex

\* Mutant: the batch is not released.
ReleaseNone == readIndex

endIndex == fEnd

FlushAdvance ==
    /\ WorkerAt("advance")
    /\ readIndex' = endIndex
    /\ fEnd' = 0
    /\ wpc' = AfterFlush
    /\ RUnlock(Worker)
    /\ UNCHANGED <<writeIndex, size, mask, buffer, bufLen, shard, cause, fi,
                   fEntry, histVars, offWork>>

FlushStep ==
    \/ FlushEmpty \/ FlushLoad \/ FlushLockShard \/ FlushShardsLocked
    \/ FlushSkip \/ FlushTake \/ FlushWrite \/ FlushWriteError
    \/ FlushUnlock \/ FlushAdvance

--------------------------------------------------------------------------------
(* close, called by any goroutine.                                          *)

\* p owns index i and has not returned from write yet.
InFlight(i) == \E p \in Producers :
                   w[p] = i /\ pc[p] \in {"lock", "store", "account"}

\* Indexes whose write has returned nil.
Acked == {i \in 0..(writeIndex - 1) : ~InFlight(i)}

CloseSignal ==
    /\ Alive /\ closeCalls < MaxCloses /\ stopCh = "open"
    /\ closeCalls' = closeCalls + 1
    /\ stopCh' = "closed"
    /\ closing' = "waiting"
    /\ owed' = Acked
    /\ UNCHANGED <<crash, offClose>>

\* A second close(b.stopCh) panics.
CloseAgain ==
    /\ Alive /\ closeCalls < MaxCloses /\ stopCh = "closed"
    /\ closeCalls' = closeCalls + 1
    /\ crash' = "doubleClose"
    /\ UNCHANGED <<stopCh, closing, owed, offClose>>

\* wg.Wait returns.
CloseReturn ==
    /\ closing = "waiting" /\ WorkerAt("done")
    /\ closing' = "returned"
    /\ UNCHANGED <<stopCh, closeCalls, owed, crash, offClose>>

--------------------------------------------------------------------------------

\* The program has crashed, or nothing is left to do within the bounds.
Terminated ==
    /\ \/ crash # "none"
       \/ /\ \A p \in Producers : pc[p] = "idle"
          /\ calls = MaxWrites /\ spawned = 0 /\ lockers = 0 /\ rz = "none"
          /\ wpc = "done" /\ closing = "returned"
    /\ UNCHANGED vars

Next ==
    \/ \E p \in Producers : WriteStart(p) \/ ProducerStep(p)
    \/ ResizeStep
    \/ WorkerTick \/ WorkerStop \/ FlushStep
    \/ CloseSignal \/ CloseAgain \/ CloseReturn
    \/ Terminated

Spec == Init /\ [][Next]_vars

\* A goroutine that can run runs, the ticker ticks, and select, which picks
\* at random, does not ignore a closed channel for ever.  Nobody has to call
\* write or close.
Fairness ==
    /\ \A p \in Producers : WF_vars(ProducerStep(p))
    /\ WF_vars(ResizeStep)
    /\ WF_vars(WorkerTick \/ FlushStep)
    /\ SF_vars(WorkerStop)
    /\ WF_vars(CloseReturn)

FairSpec == Spec /\ Fairness

--------------------------------------------------------------------------------
(* Properties.                                                              *)

Goroutines == Producers \cup {Worker}
Entry == Nat \cup {Nil}

RingTypes ==
    /\ readIndex \in Nat /\ writeIndex \in Nat
    /\ size \in Nat \ {0} /\ mask \in Nat /\ bufLen \in Nat \ {0}
    /\ buffer \in [0..(bufLen - 1) -> Entry]
    /\ rz = "pubBuffer" => newBuffer \in [0..(newSize - 1) -> Entry]
    /\ rz # "pubBuffer" => newBuffer = EmptyArray

LockTypes ==
    /\ shard \in [Shards -> Goroutines \cup {Resizer, Free}]
    /\ rwState \in {"free", "pending", "held"}
    /\ readers \subseteq Goroutines /\ rwWait \subseteq Goroutines

ProducerTypes ==
    /\ pc \in [Producers -> {"idle", "loadRead", "claim", "rlock", "loadWrite",
                             "lock", "store", "account"}]
    /\ slow \in [Producers -> BOOLEAN]
    /\ w \in [Producers -> Nat] /\ r \in [Producers -> Nat]
    /\ retries \in [Producers -> 0..MaxRetries]
    /\ arr \in [Producers -> Entry] /\ msk \in [Producers -> Entry]

ResizeTypes ==
    /\ spawned \in Nat /\ lockers \in Nat
    /\ rz \in {"none", "recheck", "shards", "pubBuffer", "pubSize", "pubMask"}
    /\ rzWrite \in Nat
    /\ utilization \in Int /\ dropCount \in Nat

WorkerTypes ==
    /\ wpc \in {"select", "load", "shards", "batch", "emit", "unlock",
                "advance", "done"}
    /\ cause \in {"tick", "stop"}
    /\ fi \in Nat /\ fEnd \in Nat
    /\ fEntry \in Entry
    /\ wpc = "emit" => fEntry \in Nat
    /\ delivered \subseteq Nat /\ outputs \in Nat
    /\ passed \subseteq Nat /\ failed \subseteq Nat

CloseTypes ==
    /\ stopCh \in {"open", "closed"}
    /\ calls \in 0..MaxWrites /\ closeCalls \in 0..MaxCloses
    /\ closing \in {"no", "waiting", "returned"}
    /\ crash \in {"none", "outOfRange", "doubleClose"}
    /\ owed \subseteq Nat

TypeOK == /\ RingTypes /\ LockTypes /\ ProducerTypes
          /\ ResizeTypes /\ WorkerTypes /\ CloseTypes

\* The ring never holds more entries than it has slots, although a producer
\* tests for room with a readIndex that may be stale when its swap succeeds.
Capacity ==
    /\ readIndex <= writeIndex
    /\ writeIndex - readIndex <= size

\* GetUtilization reports a percentage (async.go, "0-100"), although usage
\* is computed from indexes that were loaded one after the other.
UtilizationInRange == utilization \in 0..100

\* No entry is handed to the output again after the output has accepted it,
\* although slots are found stale after a failed flush and stored into after
\* their flush went past.  One that the output failed to write stays in its
\* slot and may be handed over once more.
AtMostOnce == wpc = "emit" => fEntry \notin delivered

\* No two goroutines are between taking a slot's shard lock and giving it
\* back with the same slot of the same array: the plain loads and stores of
\* the slots do not race.
SlotExclusive ==
    /\ \A p, q \in Producers :
          p # q /\ pc[p] = "store" /\ pc[q] = "store"
             => StoreArray(p) # StoreArray(q) \/ StoreSlot(p) # StoreSlot(q)
    /\ \A p \in Producers :
          pc[p] = "store" /\ wpc \in {"batch", "emit"} /\ fi < fEnd
             => StoreArray(p) # bufLen \/ StoreSlot(p) # FlushSlot

\* A flush found the slot of i, or of an earlier lap of it, without its own
\* entry, or gave up there because the output failed.
Disturbed(i) == \E j \in passed \cup failed :
                    j <= i /\ j % InitSize = i % InitSize

\* Without resizes an entry is lost only behind a flush that passed its slot
\* too early or failed there: any other one is delivered, or is still ahead of
\* readIndex, with its producer or in its own slot.
Accounted == \A i \in 0..(writeIndex - 1) :
    \/ i \in delivered
    \/ Disturbed(i)
    \/ i >= readIndex /\ (InFlight(i) \/ buffer[i % size] = i)

\* An entry is never written out at the turn of an earlier index.
NeverEarly == wpc = "emit" => fEntry <= fi

\* The goroutines that hold resizeLock for reading see array, size and mask of
\* one ring, never of a resize in progress.  The fast path of write does not
\* hold it: see ResizeKeepsEntries.
ReadersSeeWholeRing ==
    readers # {} => rwState # "held" /\ size = bufLen /\ mask = size - 1

\* GetDropCount is exact: every call of write is in progress, owns an index
\* or was counted as dropped, also one that gave up while room appeared.
CallsAccounted ==
    calls = writeIndex + dropCount
            + Cardinality({p \in Producers :
                 pc[p] \in {"loadRead", "claim", "rlock", "loadWrite"}})

\* When close returns, what was acknowledged before it was called is written
\* out, unless a flush passed its slot too early or failed ("Drain the buffer
\* before exiting", async.go).
CloseDrains ==
    closing = "returned" => \A i \in owed : i \in delivered \/ Disturbed(i)

\* Every call of write returns, although in block mode it holds resizeLock
\* while it waits for a worker that a waiting resize may keep out.
WritesReturn ==
    \A p \in Producers : pc[p] # "idle" ~> pc[p] = "idle" \/ crash # "none"

\* close returns.
CloseReturns == closing = "waiting" ~> closing = "returned" \/ crash # "none"

\* The worker gets past every claimed index, whatever the output, the
\* producers and the resizes do.
Flushed ==
    \A i \in 0..(MaxWrites - 1) :
        writeIndex > i ~> readIndex > i \/ wpc = "done" \/ crash # "none"

\* The ring implements the bounded log.
Log == INSTANCE BoundedLog WITH accepted <- writeIndex, released <- readIndex,
                                capacity <- size
ImplementsLog == Log!LogSpec

--------------------------------------------------------------------------------
(* What a comment in the code says and the code does not do.                *)

\* "Copy entries from the old buffer to the new buffer": while every flush
\* found what it looked for, an acknowledged entry is written out or is still
\* in its slot of the ring.
ResizeKeepsEntries ==
    rz = "none" /\ Alive /\ passed \cup failed = {} =>
        \A i \in Acked : i \in delivered \/ buffer[i % size] = i

================================================================================
