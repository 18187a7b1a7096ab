------------------------------- MODULE FileWriter -------------------------------
(***************************************************************************)
(* The rotating log file (src/writer.go, FileWriter): writers, serialized  *)
(* by w.mu, append to the active file and rotate it when it would grow     *)
(* past maxSize; every rotation starts a goroutine that compresses the     *)
(* rotated file and one that deletes old ones.  The three meet only in the *)
(* directory.                                                              *)
(*                                                                         *)
(* The name of a rotated file holds the second of its rotation, so it is   *)
(* modelled by that second.  A file is the set of the write calls that put *)
(* bytes into it, its length and its times.                                *)
(***************************************************************************)
EXTENDS Integers, FiniteSets

CONSTANTS
    MaxSize,      \* w.maxSize, 0 for no rotation
    MaxAge,       \* w.maxAge in seconds, 0 for none
    MaxBackups,   \* w.maxBackups, 0 for no limit
    Lengths,      \* lengths of written entries
    SameSecond,   \* whether the file may be rotated twice within a second
    MaxTime,      \* bound: seconds
    MaxCalls,     \* bound: calls of Write
    MaxFaults,    \* bound: failing system calls and restarts of the process
    MaxJobs       \* bound: goroutines still running when a rotation happens

ASSUME FileWriterAssumption ==
    /\ MaxSize \in Nat /\ MaxAge \in Nat /\ MaxBackups \in Nat
    /\ Lengths \subseteq Nat \ {0}
    /\ SameSecond \in BOOLEAN
    /\ MaxTime \in Nat /\ MaxCalls \in Nat /\ MaxFaults \in Nat
    /\ MaxJobs \in Nat

VARIABLES
    compress,     \* w.compress, fixed when the writer is made
    file,         \* w.file: "nil", "open" or "closed" (not nil, but closed)
    size,         \* w.size
    active,       \* the file named w.filename
    rot, gz,      \* second -> rotated file, compressed file
    compressing,  \* running compressFile goroutines
    cleaning,     \* running cleanup goroutines
    now,          \* the clock
    calls, faults,
    acked,        \* history: calls of Write that returned no error
    rotated,      \* history: the rotations, [t: second, recs: calls]
    expired,      \* history: calls in files that cleanup deleted by age
    trimmed       \* history: calls in files that cleanup deleted by count

diskVars == <<active, rot, gz>>
histVars == <<acked, rotated, expired, trimmed>>
vars == <<compress, file, size, diskVars, compressing, cleaning, now, calls,
          faults, histVars>>

Seconds == 0..MaxTime
NoFile == [recs |-> {}, len |-> 0, mtime |-> -1, stamp |-> -1, inode |-> -1]
Exists(f) == f.inode # -1

\* inode tells a .gz file from a later one of the same name;
\* stamp orders the modification times within a second: a file is made before
\* the call writes to it.
NewFile(i) == [recs |-> {}, len |-> 0, mtime |-> now, stamp |-> 2 * calls,
               inode |-> i]

Init ==
    /\ compress \in BOOLEAN
    /\ now = 0 /\ calls = 0 /\ faults = 0
    /\ file = "open" /\ size = 0
    /\ active = NewFile(0)
    /\ rot = [t \in Seconds |-> NoFile]
    /\ gz = [t \in Seconds |-> NoFile]
    /\ compressing = {} /\ cleaning = {}
    /\ acked = {} /\ rotated = {} /\ expired = {} /\ trimmed = {}

Tick ==
    /\ now < MaxTime
    /\ now' = now + 1
    /\ UNCHANGED <<compress, file, size, diskVars, compressing, cleaning, calls,
                   faults, histVars>>

\* Something fails.
Fault == faults < MaxFaults /\ faults' = faults + 1

--------------------------------------------------------------------------------
(* Write and rotate.  A call of Write keeps w.mu from beginning to end, and *)
(* what it does to the active file no other goroutine sees: it is one step. *)

\* The active file and w.size once Write has opened the file if it has to.
opened  == IF Exists(active) THEN active ELSE NewFile(0)
sizeNow == IF file = "nil" THEN opened.len ELSE size

\* Mutant: the entry itself is not counted.
NeedsRotationLate(n) == MaxSize > 0 /\ sizeNow > MaxSize

NeedsRotation(n) == MaxSize > 0 /\ sizeNow + n > MaxSize

Call == calls < MaxCalls /\ calls' = calls + 1

\* Mutant: all of the entry is counted, not what was written of it.
BytesAsked(n, k) == n

\* What a file.Write that took k of n bytes adds to w.size.
BytesWritten(n, k) == k

\* file.Write takes k of the n bytes and fails unless that is all of them; f
\* is the file and s its size before.
FileWrite(f, s, n, k) ==
    /\ file' = "open"
    /\ active' = IF k = 0 THEN f
                 ELSE [f EXCEPT !.recs = @ \cup {calls}, !.len = @ + k,
                                !.mtime = now, !.stamp = 2 * calls + 1]
    /\ size' = s + BytesWritten(n, k)
    /\ IF k = n
       THEN acked' = acked \cup {calls} /\ UNCHANGED faults
       ELSE Fault /\ UNCHANGED acked

WriteAppend(n, k) ==
    /\ Call /\ file # "closed" /\ ~NeedsRotation(n)
    /\ FileWrite(opened, sizeNow, n, k)
    /\ UNCHANGED <<compress, rot, gz, compressing, cleaning, now,
                   rotated, expired, trimmed>>

\* The goroutines that a rotation starts are named after the call.
CompressJob == [id |-> calls, t |-> now, step |-> "open", recs |-> {},
                inode |-> -1]
CleanupJob  == [id |-> calls, now |-> now, step |-> "glob", names |-> {},
                aged |-> {}, excess |-> {}]

\* rotate has closed the active file and renames it over rot[now].
RenameActive ==
    /\ Cardinality(compressing) + Cardinality(cleaning) <= MaxJobs
    /\ SameSecond \/ \A f \in rotated : f.t # now
    /\ rot' = [rot EXCEPT ![now] = opened]
    /\ rotated' = rotated \cup {[t |-> now, recs |-> opened.recs]}
    /\ compressing' = IF compress THEN compressing \cup {CompressJob}
                      ELSE compressing

WriteRotate(n, k) ==
    /\ Call /\ file # "closed" /\ NeedsRotation(n)
    /\ RenameActive
    /\ FileWrite(NewFile(0), 0, n, k)
    /\ cleaning' = cleaning \cup {CleanupJob}
    /\ UNCHANGED <<compress, gz, now, expired, trimmed>>

\* rotate fails to close or to rename the file: w.file is left closed.
WriteRotateFails(n) ==
    /\ Call /\ file # "closed" /\ NeedsRotation(n) /\ Fault
    /\ file' = "closed"
    /\ active' = opened
    /\ size' = sizeNow
    /\ UNCHANGED <<compress, rot, gz, compressing, cleaning, now,
                   histVars>>

\* rotate fails to open a new file: w.file is left closed, and no cleanup is
\* started.
WriteReopenFails(n) ==
    /\ Call /\ file # "closed" /\ NeedsRotation(n) /\ Fault
    /\ RenameActive
    /\ file' = "closed"
    /\ active' = NoFile
    /\ size' = sizeNow
    /\ UNCHANGED <<compress, gz, cleaning, now, acked, expired,
                   trimmed>>

\* The file is nil and openFile fails.
WriteOpenFails ==
    /\ Call /\ file = "nil" /\ Fault
    /\ UNCHANGED <<compress, file, size, diskVars, compressing, cleaning, now, histVars>>

\* A closed file can be neither written nor rotated: the call fails.
WriteClosed ==
    /\ Call /\ file = "closed"
    /\ UNCHANGED <<compress, file, size, diskVars, compressing, cleaning, now,
                   faults, histVars>>

Write ==
    \/ \E n \in Lengths : \E k \in 0..n : WriteAppend(n, k) \/ WriteRotate(n, k)
    \/ \E n \in Lengths : WriteRotateFails(n) \/ WriteReopenFails(n)
    \/ WriteOpenFails \/ WriteClosed

--------------------------------------------------------------------------------
(* Close, and the process.                                                  *)

\* Close forgets the file even if it was closed before; the next Write opens
\* it again.
Close ==
    /\ file # "nil"
    /\ file' = "nil"
    /\ UNCHANGED <<compress, size, diskVars, compressing, cleaning, now, calls,
                   faults, histVars>>

\* The process stops, its goroutines with it, and a new one opens the file.
Restart ==
    /\ Fault
    /\ file' = "open"
    /\ active' = opened
    /\ size' = opened.len
    /\ compressing' = {} /\ cleaning' = {}
    /\ UNCHANGED <<compress, rot, gz, now, calls, histVars>>

--------------------------------------------------------------------------------
(* compressFile, run by the goroutine j.                                    *)

CompressFrame == UNCHANGED <<compress, file, size, active, cleaning, now, calls, histVars>>

Compressing(j, k) == compressing' = (compressing \ {j}) \cup {k}
Compressed(j) == compressing' = compressing \ {j}

CompressOpen(j) ==
    /\ j.step = "open"
    /\ IF Exists(rot[j.t])
       THEN Compressing(j, [j EXCEPT !.step = "create", !.recs = rot[j.t].recs])
       ELSE Compressed(j)
    /\ CompressFrame /\ UNCHANGED <<rot, gz, faults>>

\* The .gz file is created, or opened as it is: O_CREATE without O_TRUNC.
CompressCreate(j) ==
    /\ j.step = "create"
    /\ gz' = IF Exists(gz[j.t]) THEN gz ELSE [gz EXCEPT ![j.t] = NewFile(j.id)]
    /\ Compressing(j, [j EXCEPT !.step = "write", !.inode = gz'[j.t].inode])
    /\ CompressFrame /\ UNCHANGED <<rot, faults>>

\* The .gz file j has open gets contents rs; if it was deleted in between the
\* bytes go to a file without a name.
GzContents(j, rs) ==
    IF gz[j.t].inode = j.inode
    THEN [gz EXCEPT ![j.t] = [@ EXCEPT !.recs = rs, !.len = 1, !.mtime = now,
                                       !.stamp = 2 * calls + 1]]
    ELSE gz

\* Over the bytes of another goroutine the result may be unreadable.
CompressWrite(j) ==
    /\ j.step = "write"
    /\ \/ gz' = GzContents(j, j.recs)
       \/ gz[j.t].len > 0 /\ gz' = GzContents(j, {})
    /\ Compressing(j, [j EXCEPT !.step = "remove", !.recs = {}, !.inode = -1])
    /\ CompressFrame /\ UNCHANGED <<rot, faults>>

CompressRemove(j) ==
    /\ j.step = "remove"
    /\ rot' = [rot EXCEPT ![j.t] = NoFile]
    /\ Compressed(j)
    /\ CompressFrame /\ UNCHANGED <<gz, faults>>

\* Mutant: the original is removed although compressing it failed.
OriginalRemoved(j) == [rot EXCEPT ![j.t] = NoFile]

\* What is left of the rotated files when j fails.
OriginalKept(j) == rot

\* A system call of j fails; one that fails while writing leaves an unreadable
\* .gz file.
CompressFails(j) ==
    /\ Fault
    /\ gz' = IF j.step = "write" THEN GzContents(j, {}) ELSE gz
    /\ rot' = OriginalKept(j)
    /\ Compressed(j)
    /\ CompressFrame

CompressStep(j) ==
    \/ CompressOpen(j) \/ CompressCreate(j) \/ CompressWrite(j)
    \/ CompressRemove(j) \/ CompressFails(j)

--------------------------------------------------------------------------------
(* cleanup, run by the goroutine j.                                         *)

CleanupFrame == UNCHANGED <<compress, file, size, active, compressing, now, calls,
                            faults, acked, rotated>>

Cleaning(j, k) == cleaning' = (cleaning \ {j}) \cup {k}

FileAt(f) == IF f[1] = "rot" THEN rot[f[2]] ELSE gz[f[2]]
Backups == {f \in {"rot", "gz"} \X Seconds : Exists(FileAt(f))}

CleanupGlob(j) ==
    /\ j.step = "glob"
    /\ Cleaning(j, [j EXCEPT !.step = "stat", !.names = Backups])
    /\ CleanupFrame /\ UNCHANGED <<rot, gz, expired, trimmed>>

\* The files older than the age limit when the rotation happened.
Aged(j, logs) ==
    {f \in logs : MaxAge > 0 /\ FileAt(f).mtime < j.now - MaxAge}

\* Mutant: one file too many is deleted.
ExcessOfOneMore(logs) == Cardinality(logs) - MaxBackups + 1

\* Mutant: one file too few is deleted.
ExcessOfOneLess(logs) == Cardinality(logs) - MaxBackups - 1

ExcessOf(logs) == Cardinality(logs) - MaxBackups

\* v holds the oldest of logs, as many as there are too many.
Oldest(v, logs) ==
    /\ Cardinality(v) = IF MaxBackups > 0 /\ ExcessOf(logs) > 0
                        THEN ExcessOf(logs) ELSE 0
    /\ \A f \in v, g \in logs \ v : FileAt(f).stamp <= FileAt(g).stamp

\* Stat what glob has listed, passing over what has gone since, and choose
\* what to delete.
CleanupStat(j) ==
    LET logs == j.names \cap Backups IN
    /\ j.step = "stat"
    /\ \E v \in SUBSET logs :
          /\ Oldest(v, logs)
          /\ Cleaning(j, [j EXCEPT !.step = "remove", !.now = 0, !.names = {},
                                   !.aged = Aged(j, logs), !.excess = v])
    /\ CleanupFrame /\ UNCHANGED <<rot, gz, expired, trimmed>>

Remove(f) ==
    /\ rot' = IF f[1] = "rot" THEN [rot EXCEPT ![f[2]] = NoFile] ELSE rot
    /\ gz'  = IF f[1] = "gz"  THEN [gz  EXCEPT ![f[2]] = NoFile] ELSE gz

\* The calls whose bytes f holds or, as a .gz file being written, will hold.
Holds(f) ==
    FileAt(f).recs \cup UNION {r.recs : r \in {r \in rotated : r.t = f[2]}}

CleanupRemoveAged(j, f) ==
    /\ j.step = "remove" /\ f \in j.aged
    /\ Remove(f)
    /\ expired' = expired \cup Holds(f)
    /\ Cleaning(j, [j EXCEPT !.aged = @ \ {f}])
    /\ CleanupFrame /\ UNCHANGED trimmed

CleanupRemoveExcess(j, f) ==
    /\ j.step = "remove" /\ j.aged = {} /\ f \in j.excess
    /\ Remove(f)
    /\ trimmed' = trimmed \cup Holds(f)
    /\ Cleaning(j, [j EXCEPT !.excess = @ \ {f}])
    /\ CleanupFrame /\ UNCHANGED expired

CleanupReturn(j) ==
    /\ j.step = "remove" /\ j.aged = {} /\ j.excess = {}
    /\ cleaning' = cleaning \ {j}
    /\ CleanupFrame /\ UNCHANGED <<rot, gz, expired, trimmed>>

CleanupStep(j) ==
    \/ CleanupGlob(j) \/ CleanupStat(j) \/ CleanupReturn(j)
    \/ \E f \in j.aged : CleanupRemoveAged(j, f)
    \/ \E f \in j.excess : CleanupRemoveExcess(j, f)

--------------------------------------------------------------------------------

Next ==
    \/ Write \/ Close \/ Restart \/ Tick
    \/ \E j \in compressing : CompressStep(j)
    \/ \E j \in cleaning : CleanupStep(j)

Spec == Init /\ [][Next]_vars

--------------------------------------------------------------------------------
(* Properties.                                                              *)

Files == [recs : SUBSET (0..(MaxCalls - 1)), len : Nat, mtime : -1..MaxTime,
          stamp : -1..(2 * MaxCalls + 1), inode : -1..MaxCalls]

TypeOK ==
    /\ compress \in BOOLEAN /\ file \in {"nil", "open", "closed"} /\ size \in Nat
    /\ active \in Files
    /\ rot \in [Seconds -> Files] /\ gz \in [Seconds -> Files]
    /\ \A j \in compressing :
          j.t \in Seconds /\ j.step \in {"open", "create", "write", "remove"}
    /\ \A j \in cleaning : j.step \in {"glob", "stat", "remove"}
    /\ now \in Seconds /\ calls \in 0..MaxCalls /\ faults \in 0..MaxFaults
    /\ acked \cup expired \cup trimmed \subseteq 0..(MaxCalls - 1)

\* w.size is the length of the file while it is open, after short writes,
\* failures, rotations and reopenings alike.
SizeTracked == file = "open" => Exists(active) /\ size = active.len

\* The active file outgrows maxSize only if a single entry does so.
SizeLimit ==
    MaxSize > 0 /\ active.len > MaxSize => Cardinality(active.recs) = 1

\* An entry whose Write returned no error is in the active file, in a rotated
\* one or in a compressed one, unless cleanup deleted a file of its rotation:
\* compressing, failing and restarting at any point lose nothing.
Present == active.recs \cup UNION {FileAt(f).recs : f \in Backups}
NothingLost == acked \subseteq Present \cup expired \cup trimmed

\* Without compression cleanup never trims one of the maxBackups rotated files
\* that were newest, however late it runs.
KeepsNewest ==
    ~compress =>
        \A f \in rotated :
            f.recs \cap trimmed # {}
               => Cardinality({g \in rotated : g.t > f.t}) >= MaxBackups

\* Without compression and failures, once every cleanup has returned
\* there are at most maxBackups old files.
BackupsBounded ==
    ~compress /\ faults = 0 /\ cleaning = {}
       => Cardinality(Backups) <= MaxBackups

================================================================================
