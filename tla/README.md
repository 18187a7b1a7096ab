# onelog: a verification development

onelog (`src/`) is a logging package for Go. A log call takes an entry from a
pool, fills it, formats it and hands the bytes to a writer, either at once or
through a ring buffer that one worker goroutine empties. This directory models
the parts of it that have state which goroutines, failures or time can put out
of order, checks them with TLC on small instances, and proves what is
checked, all but the liveness properties, for every instance with TLAPS.

`PROJECT.json` lists the runs, which lines of the source every definition
stands for, the hazards, and the changes to the model (mutants) that every
property is known to notice.

## 1. The system

### Inventory

| component | source | state | operations | what makes it correct |
|---|---|---|---|---|
| asynchronous ring buffer | `async.go` | two indexes, array, size and mask, shard locks, `resizeLock`, utilization and drop count, stop channel | `write`, `writeWithRetry`, `maybeResize`, `worker`, `flush`, `close` | never more entries than slots; an entry is written at most once, not before its turn, and is lost only in ways that can be named; nothing is read or written in the middle of a resize; every call returns |
| rotating file writer | `writer.go` | open file and its size, the directory, running compressions and cleanups | `Write`, `rotate`, `openFile`, `Close`, `compressFile`, `cleanup` | the size is the file's; no entry goes except with a file that cleanup is meant to delete; the newest backups stay |
| MultiWriter, ConsoleWriter | `writer.go` | slice of writers, lock | `Write`, `Close`, `AddWriter`, `RemoveWriter` | each keeps its list; every writer before the first that fails gets every line, in one order |
| log calls, entries, pools | `entry.go`, `logger.go`, `utils.go` | level, entries, buffers, what is in the pools | `Logger.Info` and the like, `With`, `Writer`, `Entry.write`, `release`, `GetBuffer`, `PutBuffer` | an entry or buffer has one user; a line has the level, message and fields of its call; one outcome per call |
| samplers | `sampling.go` | counter, volume of the window, rate, start of the window | `Sample`, `adjustSamplingRate`, `detectSpike` | one in N; every entry counts in one window; the rate is what the volumes give |
| formatters | `formatter*.go`, `utils.go` | cache of formatted times | `Format` | a reader of the format gets back what was logged; sensitive values do not appear |
| CLF formatter, middleware | `formatter_clf.go` | cache of times, status and size of a response | `Format`, `LogRequest`, `HTTPMiddleware` | the parts of the line are where a reader looks for them; the access log tells what the client got |
| loggers, configuration, default logger | `logger.go`, `config.go`, `default.go` | each logger's writer, `EnableAsync`, buffer and hooks; the global logger | `New`, `Config.Clone`, `WithWriter` and the like, `SetWriter`, `SetAsync`, `Close`, `Fatal` | lines and hooks stay with those who asked for them; nothing buffered is left behind |
| levels, fields, errors, colours, field pool | `level.go`, `field.go`, `errors.go`, `colors.go`, `pool.go` | an atomic level; global colours; pools nobody takes from | small functions | |

### How the parts interact

- A goroutine that logs runs everything from the level check to the writer
  itself. It meets other goroutines in the level, the two `sync.Pool`s, the
  sampler, the formatter's cache and the writer.
- Loggers are copied as structs: what `WithHook` appends to and what `asyncBuffer`
  points to is shared between a logger and its clones.
- With `EnableAsync` the bytes go to `asyncBuffer.write`, which copies them. The
  worker goroutine calls the writer; writes above the resize threshold start
  goroutines that run `maybeResize`.
- The writer may be a `MultiWriter`, which calls its members one after the other
  under its lock, or a `FileWriter`. Its callers are serialized by `w.mu`; each
  rotation starts two goroutines that share nothing with it but the directory.

### What is hard

Concurrency: producers claim a slot with a compare-and-swap and store into it
later, under a shard lock, with plain loads of the array and the mask; the
worker looks at slots that are claimed and still empty; resizes replace array,
size and mask under a lock that the fast path does not take. Failure: the output
fails in the middle of a batch; a rotation fails between closing, renaming and
opening; a process stops between writing a compressed file and removing the
original. Sharing: slices of
hooks and of writers that several owners append to, or remove from, in place; one
buffer, and one worker, of several loggers. Waiting: block mode, `RWMutex`, a `select` with two ready channels.
Reuse: pooled entries and buffers, and an `io.Writer` that keeps one. Time: names
of a second's resolution, windows that several goroutines find over.
`PROJECT.json` has these one by one, with their lines, under `hazards`.

## 2. Modules

### AsyncBuffer

A step is one access to shared memory. An entry is the index that it claimed:
the slot that holds `i` holds the bytes of the write that moved `writeIndex`
from `i` to `i + 1`. `pc[p]` is a producer's place in `write` or, when `slow[p]`,
in `writeWithRetry`; `wpc` is the worker's place in `flush`; `rz` is the place of
the one `maybeResize` goroutine that holds `resizeLock`, while the others are
counted (`spawned` before their first look at `utilization`, `lockers` in `Lock`).

| action | code |
|---|---|
| `WriteStart`, `LoadReadIndex`, `SlowLoadWrite` | the loads of the indexes |
| `Claim`, `ClaimLost`, `DropEntry`, `EnterSlowPath`, `Backoff`, `SlowRLock` | full or not, swapped or not, drop or retry |
| `LockShard`, `StoreEntry`, `StoreOutOfRange` | the slot, or the panic of a new mask with an old array |
| `Account` | utilization, whether to resize, return |
| `ResizeCheck`, `ResizeAnnounce`, `ResizeAcquire`, `ResizeAbandon`, `ResizeLoad`, `ResizeLockShard`, `ResizeCopy`, `PublishBuffer`, `PublishSize`, `PublishMask` | `maybeResize` |
| `WorkerTick`, `WorkerStop` | the two cases of `select` |
| `FlushLoad`, `FlushEmpty`, `FlushLockShard`, `FlushShardsLocked`, `FlushSkip`, `FlushTake`, `FlushWrite`, `FlushWriteError`, `FlushUnlock`, `FlushAdvance` | `flush` |
| `CloseSignal`, `CloseAgain`, `CloseReturn` | `close`, and the panic of a second one |

Steps that are merged, and why no interleaving is lost:

- the test for room and the compare-and-swap: the test reads only `size` besides
  what the goroutine has loaded, and `size` only grows, so testing later lets
  in no write that the code would refuse for good;
- of the two plain loads in `b.buffer[i&b.mask]`, `LockShard` makes either one
  and `StoreEntry` the other with the store and the unlock: a resize can fall
  between the two loads, and nobody else uses the slot between the second
  load and the unlock without the shard lock, except as `SlotExclusive` says;
- utilization, the decision to resize and the deferred `RUnlock`: the first is
  an atomic store of a value that is not read in between. The code reads `size` for each of
  the first two (`async.go:132` and `135`), `Account` once: a size that doubles in between would
  spare one call of `maybeResize`, and no property depends on it;
- `index & mask` is `index % (mask + 1)`, for a mask one less than a power of two;
- `ResizeCopy` copies all slots and unlocks the shards at once: it holds them all.

`maybeResize` publishes array, size and mask in the order of the source; the
stores are plain, so that a build may use another order, and the model does not
show that. An array that was replaced is kept only as its length, since nobody
reads it again. The five seconds of `writeWithRetry` may be over at any time on
the slow path. The copy of `p` and torn reads of a slice header are not
modelled: where `SlotExclusive` holds there are none.

### BoundedLog

What asynchronous logging promises whatever its threads do: entries are
accepted one at a time into a bounded space, each is handed to the output
at most once and after it was accepted, space is given back in bounded batches,
and it grows by doubling up to a limit. It does not promise delivery, because
the code does not. `AsyncBuffer` implements it with `accepted` as `writeIndex`,
`released` as `readIndex` and `capacity` as `size` (`ImplementsLog`).

### FileWriter

A file is the set of calls that put bytes into it, a length and its
modification time. `active` is the file named `filename`; `rot` and `gz` map the
second in a rotated file's name to that file and its `.gz`. A call of `Write`
holds `w.mu` throughout and meets no other goroutine in the active file, so it is
one action, with one disjunct for each way it can go: `WriteAppend`,
`WriteRotate`, `WriteRotateFails`, `WriteReopenFails`, `WriteOpenFails`,
`WriteClosed`. The goroutines a rotation starts take a step for each system
call: `CompressOpen`, `CompressCreate` (`O_CREATE` without `O_TRUNC`),
`CompressWrite`, `CompressRemove`, `CompressFails`; `CleanupGlob`, `CleanupStat`
(all files at once: what `Stat` and the sort make of them), then one removal at a
time. `Restart` ends the process and all its goroutines at any point.

`stamp` orders modification times below the second. `expired` and `trimmed` are
histories of the calls in deleted files; a deleted `.gz` that was not finished
counts for the rotation whose name it has (`Holds`), since cleanup chose to
delete that rotation.

### Entries

A call is a number, which stands for its message and for the fields it passes.
Pools are counters per object, because `sync.Pool` does not notice when an
object is put into it twice, and `Get` may return a new object at any time. `pc`
follows a goroutine from the level check of `Logger` through that of `Entry`,
the sampler, the buffer, the formatter, the writer and the two ways back into
the pools. Whether the sampler passes an entry and whether formatter and
writer fail is free. `Release` clears the entry and puts it into the pool in one
step, and so do buffers: the code does not touch the object after `Put`, and
before it nobody else can have it. The asynchronous buffer copies what it gets,
so that giving the bytes to it and to a writer is one action here. An `Entry` of `With` or
`WithContext` and an `io.Writer` of `Writer` stay with the caller after `release` has
put the entry back: `EntryUses` bounds how often such an entry is used, and `Reuse` is the next
call on it, which works on an entry that is empty by then, or another goroutine's.

### Samplers

One module for all samplers, of which `Init` chooses one. `AddInt64` on volume and
counter, the clock, the look at `lastReset`, the swap of the volume
under the lock, the new rate, and the look at the rate are steps of their own.
`NewRate` is the rate after a window of a given volume; the decay factor is a number of
tenths. No constructor compares the two rates, and the module does not assume that the
first is the smaller. `KeySample` is one action:
nobody else has the hash function that it took from the pool, and which one it
took is free; `Mix` stands for FNV-1a. A `MultiSampler` has two `RateSampler`s,
each with a counter of its own (`First`, `Second`), and goroutines may come to
the second in another order than to the first.

### MultiWriter

Slices are modelled as Go has them, an array and a length, because
`NewMultiWriter(list...)` keeps the caller's array: in `Init` the MultiWriters either
share an array or have copies. `view` is the slice over which a loop of `Write` or
`Close` goes, as it was when the loop began; the elements are read from the array
as it is. `NextWriter` and `WriterFails` are one call of a member each. `AddWriter` is Go's
`append`, in place or to an array of twice the size, and `RemoveWriter` shifts the
elements in place; both are one step, under the lock, which nobody else's lock
excludes when the array is shared. Only that the goroutines of one MultiWriter
wait for each other is due to `mu`.

### Logger

A logger is a record of what the methods of another one may share or change:
`async` (`EnableAsync`), `buf` (`asyncBuffer`), `writer` and `hooks` (an array and a length).
`Clone` appends a copy. `WithWriter` makes a buffer when the logger has one and is
asynchronous, `WithAsync` when there is none, `WithHook` appends in place or to a new
array. `New` and `NewFromClone` make further loggers from the `Config` or from its
`Clone`. `SetAsync` takes four steps (`SetAsync`, `SetAsyncCheck`, `SetAsyncCreate`, `SetAsyncStore`):
between the read of the writer, for which the buffer is made, and the store of the buffer
`SetWriter` may give the logger another writer, and `SetDefaultLogger` another logger its place; `Log` reads `EnableAsync` and `WriteAsync` looks
at the buffer later. `Close` stops the buffer's worker or panics, `Exit` is the end of
`Fatal`. A write to a buffer and a flush are one step each, with the outcomes that they
have in `AsyncBuffer`: a line is dropped, or passed by a flush before it is stored, and a flush takes a
batch, of which the writer may fail to write the rest (`left`). This module asks who
shares what. Levels, samplers and formats,
which are in `Entries`, do not appear.

### Formatters

`FormatJSON`, `FormatLogfmt`, `FormatText` and `FormatCLF` turn an entry into a line, a
sequence of characters of which those are told apart that a format gives a
meaning; one newline stands for the control characters that have an escape, and `NUL` for
those that have none, which JSON does not allow in a string.
Base64 is computed from bytes as the code does. The reference is a reader: a
state machine (`JSONStep`, `LogfmtStep`, `CLFStep`) that takes a line apart and must get the
members, in order and unescaped, as they were logged. The cache of times keeps
its contents from one entry to the next. For CLF the keys of the parts are the
code's, each of which may be given by several fields. The text of a number is one
character (`Numeral`), because nothing looks into it; a key is a number, its place in
the order of the keys, and `Keys` gives its text. `sort.Slice` is the insertion of one field
after the other (`Inserted`, `Sorted`), as Go sorts up to twelve; with more of them fields of one
key may change places, and the properties do not depend on which comes first. Colours, separators and
`FieldNameConverter` are left out.

### AccessLog

Extends `Formatters` with the middleware: a handler calls `WriteHeader` and `Write` of
the `LogResponseWriter` a few times and returns or panics; `LogRequest` makes the
fields, `LevelOf` the level, and any formatter the line. net/http is modelled as it
is used: it sends the first final status, 200 with the first bytes or at the end,
and ignores others; 101 is final, the others below 200 are not.

## 3. Runs

The first eight runs are exhaustive within their bounds; the other four stop at
their counterexample.

| run | question | bounds |
|---|---|---|
| `ring` | Does a ring in drop mode keep its bound, its order, its slots exclusive, its utilization and its accounts, with an output that fails? | three producers, two slots under two shard locks, three writes, two closes: laps of the ring, stale indexes, contention, and one batch that fails in its middle; the ring is at its largest, so that the resizes that writes spawn replace nothing |
| `live` | While resizes run, do types and the count of calls hold, do lock holders see a whole ring, does the ring implement `BoundedLog`? Does every write and close return, and does the worker get past every index? | block mode, two producers, one slot growing to four (two doublings, so that a resize follows a resize), two writes, two retries, a failing output, one close |
| `rotation` | Do size and entries survive rotation, compression, cleanup, faults and restarts? | four calls of two bytes with a limit of three: every second one rotates; three seconds against an age limit of one; one backup; one fault; a rotation meets at most one goroutine of an earlier one |
| `entries` | Are entries and buffers exclusive, and lines those of their calls? | two goroutines, two objects per pool, three calls of three kinds (fields, fatal by `WithContext`, `io.Writer`), no entry used twice, all levels and `Disabled` |
| `samplers` | Do volumes, rates and one-in-N hold under concurrency? | three goroutines, six calls, five time units with windows of one: a window closed by one goroutine while two are between their steps; rates from 2 to 6, so that doubling is capped and powers of two and others occur; three values of a key |
| `formatters` | Does a reader get back what was logged, unless JSON has no escape for it, and the access log tell what was sent? | texts with each special character, among them one without an escape, entries of a level that has no name, each type of field, lists of up to three fields, every choice of the options that change the structure; the caller with at most one field, since TLC reads a line by recursion as deep as the line is long; requests with and without their optional parts, handlers of two calls with statuses of every class |
| `multi` | Does each MultiWriter keep its list, and do lines reach the members in one order? | two MultiWriters, of one array or two, lists of two and of three with a writer twice, with and without room for another, a third writer to add, two goroutines, three calls: a removal or addition before, between and after two writes |
| `logger` | Do loggers that share buffers, hooks and a `Config` disturb each other? | two goroutines, two writers, two hooks, buffers of one line, an asynchronous logger without hooks or a synchronous one with a hook and room for another; four calls, of which three make, change or close loggers and two log: two siblings and a line of one of them, the growth of an array, a line on either side of a `Close` or `SetAsync` |
| `drain` | violation of `CloseDrains` | as `ring`, a batch smaller than the ring |
| `shard_race` | violation of `SlotExclusive` | four shards, two slots |
| `resize_loses` | violation of `ResizeKeepsEntries` | one slot growing |
| `entry_reuse` | violation of `LinesIntact` | two goroutines, an `Entry` of `With` or an `io.Writer` used twice |

Symmetry is used for producers, goroutines and pool objects in safety runs,
where nothing distinguishes them; not in `live` and `logger`, which check liveness.

Deadlock is checked in the runs of the ring buffer and in `multi`: `Terminated` is enabled only
when the process has crashed, or when all calls allowed by the bounds were made
and every goroutine has returned, so that a state in which goroutines wait for
each other is an error. The other modules stop where their bounds do.

### Reading the passing properties

`Accounted` names all the ways in which a ring without resizes loses an entry: a
flush was at its slot, in its lap or an earlier one, before the store or when
the output failed. `CloseDrains` is the same at the return of `close`, for what
had been acknowledged. So an entry that was stored after a flush had passed its slot
is acknowledged and may never be written, with an output that never fails: that is
one of the ways. With resizes the model also has the index out of range that a
new mask on an old array gives (`StoreOutOfRange`).
`SlotExclusive` is checked by `ring`, with two shards, and proved, through resizes too, for a shard count that divides the
size of the ring. `newAsyncBuffer` takes the number of CPUs, from 4 to 32. When it
does not divide the size, with 6 CPUs or with a ring of two slots, the indexes of one
slot in successive laps have different shards, and a writer and the flush, or two
writers a lap apart, use the slot under different locks (`shard_race`).

`SizeLimit` allows for an entry that is larger than the limit on its own. The run has
none; that case rests on `SizeLimitTheorem`.

`KeepsNewest` and `BackupsBounded` are stated without compression. With it a
rotated file and its `.gz` count as two backups while both exist, and the `.gz` is
as old as its compression, so that cleanup keeps fewer rotations than
`maxBackups`, and not always the newest.

`NothingLost` holds with restarts and faults at any point because a compression
removes the original only after the compressed file is complete. It needs
`SameSecond = FALSE`: names of rotated files have a resolution of one second, so
that a second rotation within it replaces the file of the first, and with
`SameSecond = TRUE` TLC finds acknowledged entries that are gone.

`Exclusive` and `LinesIntact` are about programs that log once with an `Entry` of `With` or
`WithContext` and write once to an `io.Writer` of `Writer`. `entry_reuse` has a second call: it
writes a line without the fields, puts the entry into the pool again, and may fill and write an
entry that another goroutine has.

`LevelRespected` and the level part of `Exclusive` concern the two level checks: a
call can be let in by the first and stopped by the second. Lines of an
`io.Writer` are excepted, because `entryWriter` does not look at the level.

`RateReplays` says that closing windows is as if sequential. It does not say
that windows are long: two goroutines that both found a window over close it
twice, the second with the small volume since, which ends a spike that has just
been found. That is listed as a hazard. `RateBounded` is about the smaller and the larger of the
two rates, whichever is which.

`OneInN` for a `MultiSampler` is a statement about what is left when all calls have
returned: the second sampler decides about the entries that the first leaves open,
so that the fraction sampled is the product in `AndMode`, exactly and in any order.

`ListsKept` excepts a MultiWriter from whose array another one has removed: the
removal shifts the elements that both see, so that the other then has its last
writer twice and one not at all. It also excepts one whose added writer another
one has overwritten, which takes a list whose array has room.

`OwnWriter` excepts loggers whose writer was changed under their buffer, by
`SetWriter` while there is a buffer, or by `WithWriter` of a logger that has one and is
not asynchronous: their lines go to the old writer as long as they are asynchronous. It also
excepts one that `SetAsync` gave a buffer for a writer or a logger that was replaced meanwhile.
`EveryLineSettles` does not say that `Close` waits for a line: after `SetAsync(false)`
`Close` returns at once and the worker writes later. Lines that a buffer takes after
its worker has ended are `late` and never written; those that the writer's error left in the
ring count as settled (`left`), as `Accounted` counts them. `NoOrphanBuffer` excepts
`SetAsync(true)` next to another one or to `SetDefaultLogger`.

`HooksAsAsked` excepts a logger over whose hook a sibling's was appended, in the array that both
share (`overwritten`). The comment at `logger.go:177` promises "a new Logger with the given hook
added", which such a logger is not: with `WithHook` called twice on one logger whose array has
room, the first clone runs the hook of the second. The property is what remains: nothing else
disturbs hooks, and a `Clone` of a `Config` has its own.

`JSONRoundTrip` excepts entries with a control character that `jsonEscapeTable` leaves out
(`CleanEntry`). `writeEscapedStringOptimized` writes it as it is and the line is not valid JSON: a reader
stops there, and without the exception TLC finds such a line.

`CLFRoundTrip` is about values without the characters that CLF gives a meaning,
because the formatter escapes nothing. It says what the last field of a part says
(`Given`, `Told`), and not what can be told from the line: CLF writes `-` for what is not there,
and so a value that is `-` reads as one that is not. An earlier statement of it looked
for `-` in what had been read, and the proof failed at a request whose method is `-`,
which the list in `MCFormatters` has since then.

`NoSecret` compares a line with that of the entry whose sensitive values are blank
(`Blanked`): no line but that of CLF depends on one. `AccessTold` excepts handlers that set a
status that net/http does not send (a second one, one after the body has begun, an
informational one): the log then has the last one set. In answer to HEAD net/http sends no
body, and what the handler wrote is logged; HEAD is not among the requests. A handler that panics is
not logged.

### Findings

1. `close` writes at most one more batch of 100 entries (`drain`).
2. A write that overlaps a resize may be lost (`resize_loses`).
3. Two goroutines may be at one slot under different shard locks when the number
   of shards does not divide the size of the ring (`shard_race`).
4. An `Entry` of `With`, or an `io.Writer` of `Writer`, has lost its fields at its second use, and
   mixes its lines with those of other goroutines from then on (`entry_reuse`).

## 4. Fairness

`live` assumes: a goroutine that can take a step does so (weak fairness of each
producer's steps, of the steps of resizes together and of the worker), the
ticker ticks, `close` returns once the worker is done, and `select` with a closed
channel and a ticking ticker takes the channel some time (strong fairness of
`WorkerStop`; Go picks at random). Shard locks need no more than weak fairness,
because there are few writes and Go's mutexes hand over to those that starve.
Nobody is assumed to call `write` or `close`, and the output may fail for ever.

`logger` assumes that a worker whose buffer holds lines, or that was told to stop,
takes its next step (weak fairness of each worker): its ticker ticks, and no call
of the module keeps it from running. Nothing is assumed of the goroutines that log.

## 5. Proofs

Every module with state has theorems, each for every value of its constants that its
assumption allows: any number of goroutines, slots, writers, hooks, files or calls, and
for the formatters any characters, keys, entries and requests. `Formatters` and
`AccessLog` share theirs, which are about `AccessSpec`. The assumptions (`ConstantsAssumption` and its like) are what the
constructors and setters of the code make sure of, but for one that is a choice of the
model: `Decay` counts tenths. A theorem that needs more names it
after ASSUME, and for each such hypothesis there is a run, or an instance of the module
on which TLC finds a counterexample, that shows what happens without it:

| hypothesis | theorems | without it |
|---|---|---|
| `InitSize % ShardCount = 0` | `SlotExclusiveTheorem` | `shard_race` |
| `NoResize` | `NeverEarlyTheorem`, `AccountedTheorem`, `CloseDrainsTheorem` | `resize_loses` |
| `BatchLimit >= InitSize` | `CloseDrainsTheorem` | `drain` |
| `EntryUses = 1` | `ExclusiveTheorem`, `LinesTheorem` | `entry_reuse` |
| `SameSecond = FALSE` | `NothingLostTheorem`, `KeepsNewestTheorem` | TLC, with `SameSecond = TRUE`: two rotations of one second have one name |
| `CleanEntry`, in the property | `JSONTheorem` | a line that is not JSON |
| `MaxBackups > 0` | `BackupsBoundedTheorem` | no limit, as in `cleanup` |

### The ring: AsyncBufferProofs

- `TypeCorrectness`: `Spec => []TypeOK`. It includes that the slots form an array
  of length `bufLen` and that what a flush takes from it is an entry, so that no
  flush and no copy of a resize is out of bounds.
- `CapacityTheorem`, `ReadersSeeWholeRingTheorem`, `UtilizationTheorem`,
  `AtMostOnceTheorem` and `ImplementsLogTheorem` (the ring implements `BoundedLog`),
  with resizes at any time.
- `CallsAccountedTheorem`: every call of `write` is in progress, owns an index or
  was counted by `dropCount`, exactly once. It needs no finite set of producers:
  the set of calls in progress starts empty and grows by one.

None of these is inductive. The invariant is built in layers, each proved with
the ones before it:

1. `LockInv`: the write lock is held exactly during a resize, never with a read
   lock, and a flush past its first load holds a read lock.
2. `RingInv`: size, mask and array agree except between the stores that publish
   them, and differ there by one doubling. It needs 1 for the start of a resize.
3. `IndexInv`: `readIndex` and the end of a batch being flushed stay at or below
   `writeIndex`, and what a producer has loaded of an index is not ahead of it.
   This is the heart of `Capacity`: a stale `readIndex` is too small, so that it
   refuses entries but never admits one too many, and the swap shows that
   `writeIndex` is not stale. It needs 2, because the size may double in between.
4. The type invariants, by group of variables; `RingTypes` and `WorkerTypes` need
   2 and 3 for the bounds of the slots.
5. `LimitInv`: a batch being flushed has 1 to `BatchLimit` indexes, a resize under
   way fits `MaxSize` and copies no more than one lap. It needs 1: a resize and the
   flush that would move `readIndex` exclude each other.
6. `OnceInv`: an entry is in one place, with its producer, in one slot of an array,
   with the worker, or written out; only the slot that a flush took its entry from
   still holds it, until it is cleared. A copy keeps this because two indexes less
   than a lap apart have different slots (`ModDistinct`), which needs 5. Slots may
   hold older entries than the flush expects, and the store of a write may be lost:
   `OnceInv` does not say where an entry has to be.

`AtMostOnce` follows from 6, and the refinement of `BoundedLog` from 3, 5 and 6:
`Claim` is `Accept`, `FlushWrite` is `Deliver`, `FlushAdvance` is `Release`,
`PublishSize` is `Grow`, and every other step stutters.

### Slots and entries of the ring: AsyncBufferProofs

`SlotExclusiveTheorem` holds through any sequence of resizes. `DividedInv` says that the
shard count divides every size and mask a producer may use, `HeldInv` that a producer at
its slot holds the shard of its index and that the worker holds those of its whole batch
(it stops locking at the first shard that it already has, after which every index
meets a shard that it has: `RunCovers`). Two indexes of one slot then have one shard,
because a remainder by the size does not change the remainder by the shard count
(`RemainderOfRemainder`).

What becomes of an entry is proved for rings whose array no resize replaces, `NoResize`:
writes do not call `maybeResize`, or its threshold is 100 percent, which
`UtilizationTheorem` shows no utilization to be above, or the ring is as large as one may
get. Goroutines that run `maybeResize` are still there in the last two cases, and
`FixedInv` says that none gets past its second look. Then:

1. `PlacedInv`: an entry is in the slot of its index, so that a flush finds there the
   entry of its index or one of another lap; as two claimed indexes from `readIndex` on
   have different slots (`OneLap`), it is of an earlier lap: `NeverEarlyTheorem`.
2. `PastInv`: every index that a flush has gone past was written out, or is disturbed (it
   was passed before its store, or after the output had failed, or an earlier index of
   its slot was).
3. `AheadInv`: every index from `readIndex` on is with its producer or in its slot, or is
   disturbed. A store that comes a lap late overwrites an entry, and the proof shows
   that its index is then behind `readIndex`, by 2 disturbed, and so is the one that it
   overwrites. 2 and 3 are `AccountedTheorem`.
4. `CloseInv`: the last flush begins after `close`, and one batch holds the ring, so that
   nothing acknowledged before is ahead of it: `CloseDrainsTheorem`.

### EntriesProofs

`TypeCorrectness` comes with `Control`, which says what a goroutine at each place has:
an id of a call, an entry, a buffer. `LevelTheorem` (`LevelInv`: a goroutine past a level
check has a call that the check allowed) and `OutcomeTheorem` (`OutcomeInv`: a call that
was begun is open in exactly one goroutine and has no outcome, or in none and has one)
need nothing else. `ExclusiveTheorem` and `LinesTheorem` are about goroutines that use
an `Entry` of `With` and an `io.Writer` of `Writer` once. An entry that a goroutine works on is out of the pool and nobody
else has it (`EntryInv`, `BufferInv`); the pool counts how often each object is in it, so
the invariants also say that it is there at most once. `LineInv` then says what entry and
buffer hold at each place, which by exclusiveness only their owner changes.

### SamplersProofs

`CountInv` says that each call is in progress or was counted; with `Cardinality` of the
goroutines at groups of labels it bounds the counters of `TypeOK`. `RateInv` (the rate is between the two configured ones in the
sampler and in the goroutine that computes a new one) gives `RateTheorem`, `KeyInv`
(every answer for a value is that of a fresh hash) `KeyTheorem`. `YieldInv` states one in N
also while calls are in progress, for both counters of a `MultiSampler`: what has been
sampled and what is about to be is the quotient of the count; when all calls have
returned this is `OneInNTheorem`.

`VolumeTheorem` and `ReplayTheorem` are about all windows so far, by the lemmas of
`RecursionLemmas`. Every count is in the volume of a closed window or in that of the open one:
the swap of the volume moves it from one to the other at once. The rate is set a step
later than the volume is taken, and others count and read the rate in between; `ReplayInv` says
what holds there: while a goroutine holds the lock, the rate is the replay of all windows but
the last, whose volume that goroutine has.

### FileWriterProofs

`TypeCorrectness` proves `TypeOK`, and with it the types of what the goroutines of a
rotation remember (`Types`).
`SizeTrackedTheorem` and `SizeLimitTheorem` are inductive with little more. The others
need to know what each goroutine that a rotation has started may still do:

- `NothingLostTheorem`, from `Kept`: a rotated file is as it was renamed (`Renamed`); what was
  rotated is in that file, in its `.gz` or was deleted by cleanup (`Stored`); each rotated
  file is compressed by one goroutine (`OwnJobs`), and one about to remove the original has
  its contents in a complete `.gz` (`SafeJobs`). This holds at each restart and each fault.
- `BackupsBoundedTheorem`, from `Bounded`: either some goroutine of `cleanup` that has not
  looked yet, or will remove enough, is under way, or there are at most `MaxBackups`
  files.
- `KeepsNewestTheorem`, from `Stamps` (files rotated later were modified later, and no call
  is in two files) and `Deleted` (what a goroutine has chosen to remove comes before
  `MaxBackups` later rotations, and stays so however late it removes it).

### LoggerProofs

One inductive invariant, `Inv`, of four parts: `Types`; `WriterInv` (a buffer is for the
writer of each logger that has it, unless that logger was rewired, and so are the lines
it holds); `OwnerInv` (until two calls of `SetAsync` meet, one at most makes a buffer for
the default logger, which has none then); `HookInv`. What a goroutine has made and not stored
yet is in `WriterInv` too: it is for the writer that its logger has, unless `SetWriter` came in between
(`crossed`). The last is the argument for the
arrays that Go's `append` shares: loggers that share an array are of one family, that
is they were cloned from one another; the hooks of each are the ones that were asked
for in the places below its length; a hook appended in place goes beyond the length of
the longest logger that was asked for those hooks, or makes its family one that
`HooksAsAsked` excepts. They give `OwnWriterTheorem`, `NoOrphanBufferTheorem` and
`HooksAsAskedTheorem`.

### MultiWriterProofs

`Inv` is `Types` with `LoopInv`, `ListsKept` and `OrderInv`. `Types` includes that every slice
has writers in all its places, even when another MultiWriter of the array has removed
from it, so that `Write` and `Close` call no nil writer (`LoopsMeetWritersTheorem`).
`ListsKeptTheorem` rests on removal being a shift within the length of the slice
(`Shifted`) and on appends being beyond it. `OrderInv` says that no writer has a line of a
later call of its MultiWriter than the one whose loop runs, which holds because the
loop keeps the lock (`LoopInv`); hence `SameOrderTheorem`.

`EveryMemberCalledTheorem` has an invariant of its own, `ToldInv`, on top of `Inv`: the
loop of a `Write` has given its line to the writers before its place, or before the first
that failed, as often as each is among them (`Count`, which `CountNext` counts one
place after the other), and that of a `Close` has closed those before its place; and no call that
has returned is told less later (`CallKept`), because a line belongs to one call only.

### RecursionLemmas

What a recursive function computes along a sequence is proved by induction on the
sequence. The prover has no variables for predicates and operators, so that here
a set takes the place of a predicate (`Induction`, `SeqInduction`: a set that has the empty sequence
and, with each of its sequences, that with one more element, has all) and a function,
a table over the states and characters, that of an operator. `Fold` is the recursion along a
sequence: it exists and is typed (`FoldExists`, `FoldGoesOn`), goes on over a concatenation
(`FoldConcat`), and is what any function with its equations is (`FoldIs`, from `Agree`).
`FlattenSeq` of the library is such a fold (`FlattenIsFold`).

### FormattersProofs

`InvTheorem` has the invariant `Inv` of `AccessSpec`: what a cache of times holds is what formatting
would give (`CacheInv`); a line is what its formatter makes of the entry as it is (`LineInv`,
for logfmt also that the fields are in order, `SortedOrdered`); and what the `LogResponseWriter`
knows is what net/http sent, unless that ignored a status, and the entry has what it knows
(`ResponseInv`). The other theorems are about the line of one state in which `Inv` holds.

- `SecretTheorem` (`NoSecret`): the lines of an entry and of its blanked one are equal, part
  by part (`BlankedParts`, `LinesBlanked`).
- `JSONTheorem` and `LogfmtTheorem`: a reader goes along a line in steps that compose (`Reads`,
  `ReadsThen`). Escaping is undone character by character (`SpellsEscaped`, by induction on the
  text; `LogfmtSpellsEscaped`), a value leaves the reader past it with the text that was
  logged (`JSONValueReads`, `FieldValueReads`, for each type of field, truncated, redacted
  or not), a member or pair adds its key and value, and lists of members grow by one, with or
  without a comma (`OneMoreRead`, `OneMorePair`), so that each of the parts that the options leave
  out may be missing. Base64 as the code computes it, in groups of three bytes with a rest,
  is that of its definition by bits (`Sextets`, `Base64Is`). For logfmt there are two readings, in quotes
  or bare, and the formatter leaves the quotes out only where nothing needs them.
- `CLFTheorem`: the reader takes characters up to the first of the glue after a part. None of
  the parts of an entry with plain values has the character that ends it (`Separable`, `CLFLineIs`),
  so that it gets all of them (`CommonRead`, `AllRead`). The loop over the fields leaves what the last
  one of a part says (`PickedString`, `PickedInteger`).
- `ToldTheorem` (`AccessTold`): of the fields of a request each part of the line is given by
  one (`GivenOnce`), which is there when the request has a value for it (`RequestCarries`), so that the
  line tells what `ResponseInv` knows to have been sent.

### Only model-checked

Liveness (`WritesReturn`, `CloseReturns`, `Flushed`, `EveryLineSettles`): fairness and ENABLED are
out of the prover's reach.

`NeverEarly`, `Accounted` and `CloseDrains` say nothing of rings that grow: there the store
of a write may go to the array that was replaced, and `resize_loses` shows it.


## 6. Not modelled

The setters of the ring's options, which are meant to run before it is used, and
its two getters. Ready-made configurations, option functions, the other
constructors of fields, errors and colours are records, values and text; the
setters of formatter, error handler, sampler and caller of the default logger
assign a field that no other one depends on. Caller information and the calling of
hooks, which may do anything, are left out; which hooks a logger has is not. The
field pool has no user: `New` makes one and nothing takes a slice from it. The
exported `FormatField`, `SafeString`, `copyBuffer` and the lists of sensitive keys are
not called by the package's own path from a call to the output;
`WithRedactSensitiveFields` and `WithAdditionalSensitiveKeys` set fields that nothing
reads, so that only `Field.Sensitive` redacts, and `EnableSampling` is not read either.

Known and left out of the models, with the lines under `hazards`: NaN and infinities in JSON; time formats finer
than the cache; the flush interval that is set after the worker has started;
`EnableDynamicBufferResizing = false`, which has no effect because `newAsyncBuffer`
turns resizing on and `New` only ever turns it on; the `JSONFormatter` of
`NewHighPerformanceLogger`, which is made without a cache of times and would
dereference a nil pointer at its first time stamp (`Formatters` starts from the
`New...Formatter` functions).

## 7. Plan

Done: the modules above, their runs, and the theorems of section 5. Left is `NeverEarly`
while the ring grows, if an invariant over the slots of the replaced array can be found
that `ResizeCopy` keeps.
