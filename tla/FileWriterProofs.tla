---------------------------- MODULE FileWriterProofs ----------------------------
(***************************************************************************)
(* Theorems about the rotating log file, for all sizes, limits, lengths of *)
(* entries and numbers of rotations, failures and restarts.                *)
(***************************************************************************)
EXTENDS FileWriter, FiniteSetTheorems, TLAPS

USE DEF diskVars, histVars, vars, Exists

--------------------------------------------------------------------------------
(* Types.                                                                   *)

CompressJobs == [id : 0..MaxCalls, t : Seconds, step : {"open", "create", "write", "remove"},
                 recs : SUBSET (0..(MaxCalls - 1)), inode : -1..MaxCalls]

CleanupJobs == [id : 0..MaxCalls, now : Seconds, step : {"glob", "stat", "remove"},
                names : SUBSET ({"rot", "gz"} \X Seconds),
                aged : SUBSET ({"rot", "gz"} \X Seconds),
                excess : SUBSET ({"rot", "gz"} \X Seconds)]

\* TypeOK by what its conjuncts are about: counters, ...
Counters ==
    /\ compress \in BOOLEAN /\ file \in {"nil", "open", "closed"} /\ size \in Nat
    /\ now \in Seconds /\ calls \in 0..MaxCalls /\ faults \in 0..MaxFaults

\* ... files, ...
Disk ==
    /\ active \in Files
    /\ rot \in [Seconds -> Files] /\ gz \in [Seconds -> Files]

\* ... goroutines ...
Jobs == compressing \subseteq CompressJobs /\ cleaning \subseteq CleanupJobs

\* ... and what has been.
Past ==
    /\ acked \cup expired \cup trimmed \subseteq 0..(MaxCalls - 1)
    /\ \A f \in rotated : f.t \in Seconds /\ f.recs \subseteq 0..(MaxCalls - 1)

Types == Counters /\ Disk /\ Jobs /\ Past

LEMMA NewFileTypes ==
    ASSUME Counters
    PROVE  NoFile \in Files /\ \A i \in 0..MaxCalls : NewFile(i) \in Files
<1> USE FileWriterAssumption DEF Counters, Files, Seconds
<1>1. /\ -1 \in -1..MaxTime /\ -1 \in -1..(2 * MaxCalls + 1) /\ -1 \in -1..MaxCalls
      /\ now \in -1..MaxTime /\ 2 * calls \in -1..(2 * MaxCalls + 1)
  OBVIOUS
<1>2. NoFile \in Files
  BY <1>1 DEF NoFile
<1>3. ASSUME NEW i \in 0..MaxCalls PROVE NewFile(i) \in Files
  <2>1. i \in -1..MaxCalls
    OBVIOUS
  <2> QED
    BY <1>1, <2>1 DEF NewFile
<1> QED
  BY <1>2, <1>3

LEMMA FileTypes ==
    ASSUME Counters, NEW f \in Files, NEW k \in Nat,
           NEW rs \in SUBSET (0..(MaxCalls - 1))
    PROVE  /\ calls < MaxCalls =>
                [f EXCEPT !.recs = @ \cup {calls}, !.len = @ + k, !.mtime = now,
                          !.stamp = 2 * calls + 1] \in Files
           /\ [f EXCEPT !.recs = rs, !.len = 1, !.mtime = now,
                        !.stamp = 2 * calls + 1] \in Files
<1> USE FileWriterAssumption DEF Counters, Files, Seconds
<1>1. now \in -1..MaxTime /\ 2 * calls + 1 \in -1..(2 * MaxCalls + 1)
  OBVIOUS
<1>2. ASSUME calls < MaxCalls
      PROVE  [f EXCEPT !.recs = @ \cup {calls}, !.len = @ + k, !.mtime = now,
                       !.stamp = 2 * calls + 1] \in Files
  <2>1. f.len + k \in Nat /\ calls \in 0..(MaxCalls - 1)
    BY <1>2
  <2> QED
    BY <1>1, <2>1
<1>3. [f EXCEPT !.recs = rs, !.len = 1, !.mtime = now, !.stamp = 2 * calls + 1] \in Files
  BY <1>1
<1> QED
  BY <1>2, <1>3

\* The file that Write works on is there, and sizeNow is its length.
LEMMA Opened ==
    ASSUME Types
    PROVE  /\ opened \in Files /\ Exists(opened) /\ sizeNow \in Nat
           /\ SizeTracked /\ file # "closed" => sizeNow = opened.len
<1>1. NewFile(0) \in Files /\ NewFile(0).inode = 0
  BY NewFileTypes, FileWriterAssumption DEF Types, NewFile
<1>2. opened \in Files /\ Exists(opened)
  BY <1>1 DEF opened, Types, Disk
<1>3. sizeNow \in Nat
  BY <1>2 DEF sizeNow, Types, Counters, Files
<1>4. SizeTracked /\ file # "closed" => sizeNow = opened.len
  BY DEF SizeTracked, sizeNow, opened, Types, Counters
<1> QED
  BY <1>2, <1>3, <1>4

\* What a file.Write does.
LEMMA FileWrites ==
    ASSUME Types, NEW f \in Files, NEW s \in Nat, NEW n \in Lengths, NEW k \in 0..n,
           FileWrite(f, s, n, k), calls < MaxCalls
    PROVE  /\ file' = "open" /\ size' \in Nat /\ active' \in Files
           /\ size' = s + k /\ active'.len = f.len + k /\ active'.inode = f.inode
           /\ active'.recs = IF k = 0 THEN f.recs ELSE f.recs \cup {calls}
           /\ acked' = acked \/ (k = n /\ acked' = acked \cup {calls})
           /\ faults' \in 0..MaxFaults
<1> USE FileWriterAssumption
<1>1. k \in Nat /\ n \in Nat
  OBVIOUS
<1>2. active' \in Files
  BY <1>1, FileTypes DEF FileWrite, Types
<1>3. /\ active'.len = f.len + k /\ active'.inode = f.inode
      /\ active'.recs = IF k = 0 THEN f.recs ELSE f.recs \cup {calls}
  <2>1. f.len + 0 = f.len
    BY DEF Files
  <2>2. CASE k = 0
    BY <2>1, <2>2 DEF FileWrite
  <2>3. CASE k # 0
    BY <2>3 DEF FileWrite, Files
  <2> QED
    BY <2>2, <2>3
<1>4. size' = s + k /\ size' \in Nat /\ file' = "open"
  BY <1>1 DEF FileWrite, BytesWritten
<1>5. acked' = acked \/ (k = n /\ acked' = acked \cup {calls})
  BY DEF FileWrite
<1>6. UNCHANGED faults \/ Fault
  BY DEF FileWrite
<1>7. faults' \in 0..MaxFaults
  BY <1>6 DEF Fault, Types, Counters
<1> QED
  BY <1>2, <1>3, <1>4, <1>5, <1>7

\* What it does to the file that a rotation has made.
LEMMA RotateWrites ==
    ASSUME NEW n \in Lengths, NEW k \in 0..n, FileWrite(NewFile(0), 0, n, k)
    PROVE  /\ file' = "open" /\ size' = k /\ active'.len = k /\ active'.inode = 0
           /\ active'.recs = IF k = 0 THEN {} ELSE {calls}
           /\ acked' = acked \/ (k = n /\ acked' = acked \cup {calls})
<1>1. k \in Nat /\ n \in Nat /\ 0 + k = k /\ n # 0
  BY FileWriterAssumption
<1>2. CASE k = 0
  <2>1. active' = NewFile(0)
    BY <1>2 DEF FileWrite
  <2>2. active'.len = 0 /\ active'.inode = 0 /\ active'.recs = {}
    BY <2>1 DEF NewFile
  <2> QED
    BY <1>1, <1>2, <2>2 DEF FileWrite, BytesWritten
<1>3. CASE k # 0
  <2>1. active' = [NewFile(0) EXCEPT !.recs = @ \cup {calls}, !.len = @ + k,
                                     !.mtime = now, !.stamp = 2 * calls + 1]
    BY <1>3 DEF FileWrite
  <2>2. active'.len = 0 + k /\ active'.inode = 0 /\ active'.recs = {calls}
    BY <2>1 DEF NewFile
  <2> QED
    BY <1>1, <1>3, <2>2 DEF FileWrite, BytesWritten
<1> QED
  BY <1>2, <1>3

\* The variables keep their types in a call of Write, ...
LEMMA WriteTypes == Types /\ Write => Types'
<1> SUFFICES ASSUME Types, Write PROVE Types'
  OBVIOUS
<1> USE FileWriterAssumption
<1>0. calls < MaxCalls /\ calls' = calls + 1 /\ calls' \in 0..MaxCalls /\ calls \in 0..MaxCalls
  BY DEF Write, WriteAppend, WriteRotate, WriteRotateFails, WriteReopenFails, WriteOpenFails,
     WriteClosed, Call, Types, Counters
<1>1. CompressJob \in CompressJobs /\ CleanupJob \in CleanupJobs
  BY <1>0 DEF CompressJob, CleanupJob, CompressJobs, CleanupJobs, Types, Counters
<1>2. opened \in Files /\ sizeNow \in Nat /\ NewFile(0) \in Files /\ NoFile \in Files
  BY Opened, NewFileTypes DEF Types
<1>3. faults' \in 0..MaxFaults
  <2>1. UNCHANGED faults \/ Fault
    BY DEF Write, WriteAppend, WriteRotate, WriteRotateFails, WriteReopenFails,
       WriteOpenFails, WriteClosed, FileWrite
  <2> QED
    BY <2>1 DEF Fault, Types, Counters
\* The renaming of a rotation.
<1>r. ASSUME RenameActive
      PROVE  /\ rot' \in [Seconds -> Files] /\ compressing' \subseteq CompressJobs
             /\ \A f \in rotated' : f.t \in Seconds /\ f.recs \subseteq 0..(MaxCalls - 1)
  <2>1. now \in Seconds /\ opened.recs \subseteq 0..(MaxCalls - 1)
    BY <1>2 DEF Types, Counters, Files
  <2>2. rot' \in [Seconds -> Files]
    BY <1>r, <1>2, <2>1 DEF RenameActive, Types, Disk
  <2>3. compressing' \subseteq CompressJobs
    BY <1>r, <1>1 DEF RenameActive, Types, Jobs
  <2>4. \A f \in rotated' : f.t \in Seconds /\ f.recs \subseteq 0..(MaxCalls - 1)
    BY <1>r, <2>1 DEF RenameActive, Types, Past
  <2> QED
    BY <2>2, <2>3, <2>4
<1>4. ASSUME NEW n \in Lengths, NEW k \in 0..n, WriteAppend(n, k) PROVE Types'
  <2>1. FileWrite(opened, sizeNow, n, k)
    BY <1>4 DEF WriteAppend
  <2>2. /\ file' = "open" /\ size' \in Nat /\ active' \in Files
        /\ acked' = acked \/ acked' = acked \cup {calls}
    BY <1>0, <1>2, <2>1, FileWrites
  <2>3. UNCHANGED <<compress, rot, gz, compressing, cleaning, now, rotated, expired, trimmed>>
    BY <1>4 DEF WriteAppend
  <2>4. Counters'
    BY <1>0, <1>3, <2>2, <2>3 DEF Types, Counters
  <2>5. Disk' /\ Jobs'
    BY <2>2, <2>3 DEF Types, Disk, Jobs
  <2>6. Past'
    BY <1>0, <2>2, <2>3 DEF Types, Past
  <2> QED
    BY <2>4, <2>5, <2>6 DEF Types
<1>5. ASSUME NEW n \in Lengths, NEW k \in 0..n, WriteRotate(n, k) PROVE Types'
  <2>1. FileWrite(NewFile(0), 0, n, k) /\ RenameActive
    BY <1>5 DEF WriteRotate
  <2>2. /\ file' = "open" /\ size' \in Nat /\ active' \in Files
        /\ acked' = acked \/ acked' = acked \cup {calls}
    BY <1>0, <1>2, <2>1, FileWrites
  <2>3. UNCHANGED <<compress, gz, now, expired, trimmed>> /\ cleaning' = cleaning \cup {CleanupJob}
    BY <1>5 DEF WriteRotate
  <2>4. Counters'
    BY <1>0, <1>3, <2>2, <2>3 DEF Types, Counters
  <2>5. Disk' /\ Jobs'
    BY <1>1, <1>r, <2>1, <2>2, <2>3 DEF Types, Disk, Jobs
  <2>6. Past'
    BY <1>0, <1>r, <2>1, <2>2, <2>3 DEF Types, Past
  <2> QED
    BY <2>4, <2>5, <2>6 DEF Types
<1>6. ASSUME NEW n \in Lengths, WriteReopenFails(n) PROVE Types'
  <2>1. /\ RenameActive /\ file' = "closed" /\ active' = NoFile /\ size' = sizeNow
        /\ UNCHANGED <<compress, gz, cleaning, now, acked, expired, trimmed>>
    BY <1>6 DEF WriteReopenFails
  <2>2. Counters'
    BY <1>0, <1>2, <1>3, <2>1 DEF Types, Counters
  <2>3. Disk' /\ Jobs'
    BY <1>2, <1>r, <2>1 DEF Types, Disk, Jobs
  <2>4. Past'
    BY <1>r, <2>1 DEF Types, Past
  <2> QED
    BY <2>2, <2>3, <2>4 DEF Types
<1>7. ASSUME \/ \E n \in Lengths : WriteRotateFails(n)
             \/ WriteOpenFails \/ WriteClosed
      PROVE  Types'
  <2>1. /\ file' \in {"closed", file} /\ active' \in {active, opened} /\ size' \in {size, sizeNow}
        /\ UNCHANGED <<compress, rot, gz, compressing, cleaning, now, histVars>>
    BY <1>7 DEF WriteRotateFails, WriteOpenFails, WriteClosed
  <2>2. Counters'
    BY <1>0, <1>2, <1>3, <2>1 DEF Types, Counters
  <2>3. Disk' /\ Jobs' /\ Past'
    BY <1>2, <2>1 DEF Types, Disk, Jobs, Past
  <2> QED
    BY <2>2, <2>3 DEF Types
<1> QED
  BY <1>4, <1>5, <1>6, <1>7 DEF Write

\* ... in a step of compressFile, ...
LEMMA CompressTypes == ASSUME Types, NEW j \in compressing, CompressStep(j) PROVE Types'
<1> USE FileWriterAssumption
<1>0. /\ j \in CompressJobs /\ j.t \in Seconds /\ rot[j.t] \in Files /\ gz[j.t] \in Files
      /\ j.recs \subseteq 0..(MaxCalls - 1) /\ j.id \in 0..MaxCalls
  BY DEF Types, Jobs, CompressJobs, Disk
<1>1. NoFile \in Files /\ NewFile(j.id) \in Files
  BY <1>0, NewFileTypes DEF Types
<1>2. UNCHANGED <<compress, file, size, active, cleaning, now, calls, histVars>>
  BY DEF CompressStep, CompressOpen, CompressCreate, CompressWrite, CompressRemove,
     CompressFails, CompressFrame
<1>3. faults' \in 0..MaxFaults
  BY DEF CompressStep, CompressOpen, CompressCreate, CompressWrite, CompressRemove,
     CompressFails, Fault, Types, Counters
<1>4. rot' \in [Seconds -> Files]
  BY <1>0, <1>1 DEF CompressStep, CompressOpen, CompressCreate, CompressWrite, CompressRemove,
     CompressFails, OriginalKept, Types, Disk
<1>5. ASSUME NEW rs \in SUBSET (0..(MaxCalls - 1)) PROVE GzContents(j, rs) \in [Seconds -> Files]
  <2>1. [gz[j.t] EXCEPT !.recs = rs, !.len = 1, !.mtime = now, !.stamp = 2 * calls + 1] \in Files
    BY <1>0, FileTypes DEF Types
  <2> QED
    BY <1>0, <2>1 DEF GzContents, Types, Disk
<1>6. gz' \in [Seconds -> Files]
  <2>1. CASE CompressCreate(j)
    BY <1>0, <1>1, <2>1 DEF CompressCreate, Types, Disk
  <2>2. CASE CompressWrite(j) \/ CompressFails(j)
    <3>1. gz' \in {gz, GzContents(j, j.recs), GzContents(j, {})}
      BY <2>2 DEF CompressWrite, CompressFails
    <3> QED
      BY <1>0, <1>5, <3>1 DEF Types, Disk
  <2>3. CASE CompressOpen(j) \/ CompressRemove(j)
    BY <2>3 DEF CompressOpen, CompressRemove, Types, Disk
  <2> QED
    BY <2>1, <2>2, <2>3 DEF CompressStep
<1>7. compressing' \subseteq CompressJobs
  <2>1. CASE CompressOpen(j)
    <3>1. [j EXCEPT !.step = "create", !.recs = rot[j.t].recs] \in CompressJobs
      BY <1>0 DEF CompressJobs, Files
    <3> QED
      BY <2>1, <3>1 DEF CompressOpen, Compressing, Compressed, Types, Jobs
  <2>2. CASE CompressCreate(j)
    <3>1. gz'[j.t].inode \in -1..MaxCalls
      BY <1>0, <1>6 DEF Files
    <3>2. [j EXCEPT !.step = "write", !.inode = gz'[j.t].inode] \in CompressJobs
      BY <1>0, <3>1 DEF CompressJobs
    <3> QED
      BY <2>2, <3>2 DEF CompressCreate, Compressing, Types, Jobs
  <2>3. CASE CompressWrite(j)
    <3>1. [j EXCEPT !.step = "remove", !.recs = {}, !.inode = -1] \in CompressJobs
      <4>1. -1 \in -1..MaxCalls
        OBVIOUS
      <4> QED
        BY <1>0, <4>1 DEF CompressJobs
    <3> QED
      BY <2>3, <3>1 DEF CompressWrite, Compressing, Types, Jobs
  <2>4. CASE CompressRemove(j) \/ CompressFails(j)
    BY <2>4 DEF CompressRemove, CompressFails, Compressed, Types, Jobs
  <2> QED
    BY <2>1, <2>2, <2>3, <2>4 DEF CompressStep
<1> QED
  BY <1>2, <1>3, <1>4, <1>6, <1>7 DEF Types, Counters, Disk, Jobs, Past

\* ... in a step of cleanup ...
LEMMA CleanupTypes == ASSUME Types, NEW j \in cleaning, CleanupStep(j) PROVE Types'
<1> USE FileWriterAssumption
<1> DEFINE Names == {"rot", "gz"} \X Seconds
<1>0. /\ j \in CleanupJobs /\ j.names \subseteq Names
      /\ j.aged \subseteq Names /\ j.excess \subseteq Names
      /\ NoFile \in Files
  BY NewFileTypes DEF Types, Jobs, CleanupJobs
<1>1. UNCHANGED <<compress, file, size, active, compressing, now, calls, faults, acked, rotated>>
  BY DEF CleanupStep, CleanupGlob, CleanupStat, CleanupReturn, CleanupRemoveAged,
     CleanupRemoveExcess, CleanupFrame
<1>2. \A f \in Names : Holds(f) \subseteq 0..(MaxCalls - 1)
  BY DEF Holds, FileAt, Types, Disk, Past, Files
<1>3. /\ rot' \in [Seconds -> Files] /\ gz' \in [Seconds -> Files]
      /\ expired' \cup trimmed' \subseteq 0..(MaxCalls - 1)
  <2>1. CASE CleanupGlob(j) \/ CleanupStat(j) \/ CleanupReturn(j)
    <3>1. UNCHANGED <<rot, gz, expired, trimmed>>
      BY <2>1 DEF CleanupGlob, CleanupStat, CleanupReturn
    <3> QED
      BY <3>1 DEF Types, Disk, Past
  <2>2. ASSUME NEW f \in Names, CleanupRemoveAged(j, f) \/ CleanupRemoveExcess(j, f)
        PROVE  /\ rot' \in [Seconds -> Files] /\ gz' \in [Seconds -> Files]
               /\ expired' \cup trimmed' \subseteq 0..(MaxCalls - 1)
    <3>1. Remove(f)
      BY <2>2 DEF CleanupRemoveAged, CleanupRemoveExcess
    <3>2. rot' \in [Seconds -> Files] /\ gz' \in [Seconds -> Files]
      BY <1>0, <3>1 DEF Remove, Types, Disk
    <3>3. /\ expired' = expired \/ expired' = expired \cup Holds(f)
          /\ trimmed' = trimmed \/ trimmed' = trimmed \cup Holds(f)
      BY <2>2 DEF CleanupRemoveAged, CleanupRemoveExcess
    <3> QED
      BY <1>2, <3>2, <3>3 DEF Types, Past
  <2> QED
    BY <1>0, <2>1, <2>2 DEF CleanupStep
<1>4. cleaning' \subseteq CleanupJobs
  <2>1. Backups \subseteq Names
    BY DEF Backups
  <2>2. CASE CleanupGlob(j)
    <3>1. [j EXCEPT !.step = "stat", !.names = Backups] \in CleanupJobs
      BY <1>0, <2>1 DEF CleanupJobs
    <3> QED
      BY <2>2, <3>1 DEF CleanupGlob, Cleaning, Types, Jobs
  <2>3. CASE CleanupStat(j)
    <3> DEFINE logs == j.names \cap Backups
    <3>1. PICK v \in SUBSET logs :
               Cleaning(j, [j EXCEPT !.step = "remove", !.now = 0, !.names = {},
                                     !.aged = Aged(j, logs), !.excess = v])
      BY <2>3 DEF CleanupStat
    <3>2. Aged(j, logs) \subseteq Names /\ v \subseteq Names /\ 0 \in Seconds
      BY <1>0 DEF Aged, Seconds
    <3>3. [j EXCEPT !.step = "remove", !.now = 0, !.names = {},
                    !.aged = Aged(j, logs), !.excess = v] \in CleanupJobs
      BY <1>0, <3>2 DEF CleanupJobs
    <3> QED
      BY <3>1, <3>3 DEF Cleaning, Types, Jobs
  <2>4. ASSUME NEW f, CleanupRemoveAged(j, f) PROVE cleaning' \subseteq CleanupJobs
    <3>1. [j EXCEPT !.aged = @ \ {f}] \in CleanupJobs
      BY <1>0 DEF CleanupJobs
    <3> QED
      BY <2>4, <3>1 DEF CleanupRemoveAged, Cleaning, Types, Jobs
  <2>5. ASSUME NEW f, CleanupRemoveExcess(j, f) PROVE cleaning' \subseteq CleanupJobs
    <3>1. [j EXCEPT !.excess = @ \ {f}] \in CleanupJobs
      BY <1>0 DEF CleanupJobs
    <3> QED
      BY <2>5, <3>1 DEF CleanupRemoveExcess, Cleaning, Types, Jobs
  <2>6. CASE CleanupReturn(j)
    BY <2>6 DEF CleanupReturn, Types, Jobs
  <2> QED
    BY <2>2, <2>3, <2>4, <2>5, <2>6 DEF CleanupStep
<1> QED
  BY <1>1, <1>3, <1>4 DEF Types, Counters, Disk, Jobs, Past

\* ... and in every other.
LEMMA TypesInductive == Types /\ [Next]_vars => Types'
<1> SUFFICES ASSUME Types, [Next]_vars PROVE Types'
  OBVIOUS
<1> USE FileWriterAssumption
<1>1. CASE Restart
  <2>1. opened \in Files /\ opened.len \in Nat
    BY Opened DEF Files
  <2>2. /\ file' = "open" /\ active' = opened /\ size' = opened.len
        /\ compressing' = {} /\ cleaning' = {}
        /\ UNCHANGED <<compress, rot, gz, now, calls, histVars>>
    BY <1>1 DEF Restart
  <2>3. faults' \in 0..MaxFaults
    BY <1>1 DEF Restart, Fault, Types, Counters
  <2> QED
    BY <2>1, <2>2, <2>3 DEF Types, Counters, Disk, Jobs, Past
<1>2. CASE Tick
  <2>1. now' \in Seconds
    BY <1>2 DEF Tick, Types, Counters, Seconds
  <2> QED
    BY <1>2, <2>1 DEF Tick, Types, Counters, Disk, Jobs, Past
<1>3. CASE Close
  BY <1>3 DEF Close, Types, Counters, Disk, Jobs, Past
<1>4. CASE UNCHANGED vars
  BY <1>4 DEF Types, Counters, Disk, Jobs, Past
<1> QED
  BY <1>1, <1>2, <1>3, <1>4, WriteTypes, CompressTypes, CleanupTypes DEF Next

LEMMA TypesInitially == Init => Types
<1> SUFFICES ASSUME Init PROVE Types
  OBVIOUS
<1>1. Counters
  BY FileWriterAssumption DEF Init, Counters, Seconds
<1>2. NoFile \in Files /\ NewFile(0) \in Files
  BY <1>1, NewFileTypes, FileWriterAssumption
<1> QED
  BY <1>1, <1>2 DEF Init, Types, Disk, Jobs, Past

\* Every variable keeps its type, and so does what the goroutines of a rotation remember.
THEOREM TypeCorrectness == Spec => [](TypeOK /\ Types)
<1>1. Types => TypeOK
  BY DEF Types, Counters, Disk, Jobs, Past, CompressJobs, CleanupJobs, TypeOK
<1> QED
  BY <1>1, TypesInitially, TypesInductive, PTL DEF Spec

--------------------------------------------------------------------------------
(* The size of the active file.                                             *)

\* w.size is the length of the open file after short writes, failures, rotations and
\* restarts alike.
THEOREM SizeTrackedTheorem == Spec => []SizeTracked
<1>1. Init => SizeTracked
  BY DEF Init, SizeTracked, NewFile
<1>2. Types /\ SizeTracked /\ [Next]_vars => SizeTracked'
  <2> SUFFICES ASSUME Types, SizeTracked, [Next]_vars PROVE SizeTracked'
    OBVIOUS
  <2>0. /\ opened \in Files /\ Exists(opened)
        /\ sizeNow \in Nat
        /\ file # "closed" => sizeNow = opened.len
    BY Opened
  <2>1. ASSUME NEW n \in Lengths, NEW k \in 0..n, WriteAppend(n, k) PROVE SizeTracked'
    <3>1. FileWrite(opened, sizeNow, n, k) /\ calls < MaxCalls /\ file # "closed"
      BY <2>1 DEF WriteAppend, Call
    <3>2. size' = sizeNow + k /\ active'.len = opened.len + k /\ active'.inode = opened.inode
      BY <2>0, <3>1, FileWrites
    <3> QED
      BY <2>0, <3>1, <3>2 DEF SizeTracked
  <2>2. ASSUME NEW n \in Lengths, NEW k \in 0..n, WriteRotate(n, k) PROVE SizeTracked'
    <3>1. size' = k /\ active'.len = k /\ active'.inode = 0
      BY <2>2, RotateWrites DEF WriteRotate
    <3> QED
      BY <3>1 DEF SizeTracked
  <2>3. ASSUME NEW n \in Lengths, WriteRotateFails(n) \/ WriteReopenFails(n)
        PROVE  SizeTracked'
    BY <2>3 DEF WriteRotateFails, WriteReopenFails, SizeTracked
  <2>4. CASE Restart
    BY <2>0, <2>4 DEF Restart, SizeTracked
  <2>5. CASE Close
    BY <2>5 DEF Close, SizeTracked
  <2>6. ASSUME \/ WriteOpenFails \/ WriteClosed \/ Tick \/ UNCHANGED vars
               \/ \E j \in compressing : CompressStep(j)
               \/ \E j \in cleaning : CleanupStep(j)
        PROVE  SizeTracked'
    <3>1. UNCHANGED <<file, size, active>>
      BY <2>6 DEF WriteOpenFails, WriteClosed, Tick, CompressStep, CompressOpen,
         CompressCreate, CompressWrite, CompressRemove, CompressFails, CompressFrame,
         CleanupStep, CleanupGlob, CleanupStat, CleanupReturn, CleanupRemoveAged,
         CleanupRemoveExcess, CleanupFrame
    <3> QED
      BY <3>1 DEF SizeTracked
  <2> QED
    BY <2>1, <2>2, <2>3, <2>4, <2>5, <2>6 DEF Next, Write
<1> QED
  BY <1>1, <1>2, TypesInitially, TypesInductive, PTL DEF Spec

\* No entry is appended to a file that has no room for it: a file longer than maxSize
\* holds one entry.
THEOREM SizeLimitTheorem == Spec => []SizeLimit
<1>1. Init => SizeTracked /\ SizeLimit
  BY FileWriterAssumption DEF Init, SizeTracked, SizeLimit, NewFile
<1>2. Types /\ SizeTracked /\ SizeLimit /\ [Next]_vars => SizeLimit'
  <2> SUFFICES ASSUME Types, SizeTracked, SizeLimit, [Next]_vars, MaxSize > 0
               PROVE  active'.len > MaxSize => Cardinality(active'.recs) = 1
    BY DEF SizeLimit
  <2> USE FileWriterAssumption
  <2>0. /\ opened \in Files /\ Exists(opened) /\ opened.len \in Nat
        /\ sizeNow \in Nat
        /\ file # "closed" => sizeNow = opened.len
    BY Opened DEF Files
  <2>a. opened.len > MaxSize => Cardinality(opened.recs) = 1
    BY DEF opened, NewFile, SizeLimit
  <2>1. ASSUME NEW n \in Lengths, NEW k \in 0..n, WriteAppend(n, k)
        PROVE  active'.len <= MaxSize
    <3>1. /\ FileWrite(opened, sizeNow, n, k) /\ calls < MaxCalls /\ file # "closed"
          /\ sizeNow + n <= MaxSize /\ k <= n
      BY <2>0, <2>1 DEF WriteAppend, Call, NeedsRotation
    <3>2. active'.len = opened.len + k
      BY <2>0, <3>1, FileWrites
    <3> QED
      BY <2>0, <3>1, <3>2
  <2>2. ASSUME NEW n \in Lengths, NEW k \in 0..n, WriteRotate(n, k), active'.len > MaxSize
        PROVE  Cardinality(active'.recs) = 1
    <3>1. /\ active'.len = k
          /\ active'.recs = IF k = 0 THEN {} ELSE {calls}
      BY <2>2, RotateWrites DEF WriteRotate
    <3>2. active'.recs = {calls}
      BY <2>2, <3>1
    <3> QED
      BY <3>2, FS_Singleton
  <2>3. ASSUME NEW n \in Lengths, WriteReopenFails(n) PROVE active'.len <= MaxSize
    BY <2>3 DEF WriteReopenFails, NoFile
  <2>4. ASSUME (\E n \in Lengths : WriteRotateFails(n)) \/ Restart PROVE active' = opened
    BY <2>4 DEF WriteRotateFails, Restart
  <2>5. ASSUME \/ Close \/ WriteOpenFails \/ WriteClosed \/ Tick \/ UNCHANGED vars
               \/ \E j \in compressing : CompressStep(j)
               \/ \E j \in cleaning : CleanupStep(j)
        PROVE  UNCHANGED active
    BY <2>5 DEF Close, WriteOpenFails, WriteClosed, Tick, CompressStep, CompressOpen,
       CompressCreate, CompressWrite, CompressRemove, CompressFails, CompressFrame,
       CleanupStep, CleanupGlob, CleanupStat, CleanupReturn, CleanupRemoveAged,
       CleanupRemoveExcess, CleanupFrame
  <2>6. active' = active => (active'.len > MaxSize => Cardinality(active'.recs) = 1)
    BY DEF SizeLimit
  <2>7. active' = opened => (active'.len > MaxSize => Cardinality(active'.recs) = 1)
    BY <2>a
  <2>8. active'.len <= MaxSize => ~(active'.len > MaxSize)
    <3>1. Types'
      BY TypesInductive
    <3>2. active'.len \in Nat
      BY <3>1 DEF Types, Disk, Files
    <3> QED
      BY <3>2
  <2> QED
    BY <2>1, <2>2, <2>3, <2>4, <2>5, <2>6, <2>7, <2>8 DEF Next, Write
<1> QED
  BY <1>1, <1>2, TypesInitially, TypesInductive, SizeTrackedTheorem, PTL DEF Spec

--------------------------------------------------------------------------------
(* Nothing is lost.                                                         *)

WasRotated(t) == \E f \in rotated : f.t = t

\* The calls whose bytes were in the file rotated at t, and those in a file that
\* cleanup deleted.
RotatedAt(t) == UNION {f.recs : f \in {f \in rotated : f.t = t}}
Gone == expired \cup trimmed

\* A file that is not there holds nothing.
Empty ==
    /\ active.inode = -1 => active.recs = {}
    /\ \A t \in Seconds : rot[t].inode = -1 => rot[t].recs = {}
    /\ \A t \in Seconds : gz[t].inode = -1 => gz[t].recs = {} /\ gz[t].len = 0

\* A rotated file is as it was renamed, and only such a file is compressed.
Renamed ==
    \A t \in Seconds :
       /\ Exists(rot[t]) => rot[t].recs = RotatedAt(t)
       /\ Exists(gz[t]) => WasRotated(t)

\* What was rotated is in the rotated file, in the compressed one or deleted.
Stored == \A t \in Seconds : RotatedAt(t) \subseteq rot[t].recs \cup gz[t].recs \cup Gone

\* What was acknowledged is in the active file or was rotated.
AckedSomewhere ==
    \A c \in acked : c \in active.recs \/ \E t \in Seconds : c \in RotatedAt(t)

\* Rotated files are compressed by one goroutine each, ...
OwnJobs ==
    \A j \in compressing :
       /\ WasRotated(j.t)
       /\ \A k \in compressing : k.t = j.t => k = j

\* ... which has the .gz file for itself, and the file it removes is in there.
Safe(j) ==
    /\ j.step \in {"open", "create"} => ~Exists(gz[j.t])
    /\ j.step \in {"create", "write"} => j.recs = RotatedAt(j.t)
    /\ j.step = "write" => gz[j.t].recs = {} /\ gz[j.t].len = 0 /\ j.inode # -1
    /\ j.step = "write" => gz[j.t].inode = j.inode \/ RotatedAt(j.t) \subseteq Gone
    /\ j.step = "remove" => RotatedAt(j.t) \subseteq gz[j.t].recs \cup Gone

SafeJobs == \A j \in compressing : Safe(j)

Kept == Empty /\ Renamed /\ Stored /\ AckedSomewhere /\ OwnJobs /\ SafeJobs

LEMMA SameRotations ==
    ASSUME UNCHANGED rotated, NEW t
    PROVE  RotatedAt(t)' = RotatedAt(t) /\ WasRotated(t)' = WasRotated(t)
BY DEF RotatedAt, WasRotated

\* Steps that only append to the active file or reopen it.
LEMMA KeptByAppending ==
    ASSUME Types, Kept, UNCHANGED <<rot, gz, rotated, expired, trimmed>>,
           compressing' \subseteq compressing, Exists(active') \/ active'.recs = {},
           active.recs \subseteq active'.recs, acked' \subseteq acked \cup active'.recs
    PROVE  Kept'
<1>1. \A t : RotatedAt(t)' = RotatedAt(t) /\ WasRotated(t)' = WasRotated(t)
  BY SameRotations
<1>2. Gone' = Gone
  BY DEF Gone
<1>3. Empty' /\ Renamed' /\ Stored'
  BY <1>1, <1>2 DEF Kept, Empty, Renamed, Stored
<1>4. AckedSomewhere'
  BY <1>1 DEF Kept, AckedSomewhere
<1>5. OwnJobs'
  BY <1>1 DEF Kept, OwnJobs
<1>6. SafeJobs'
  BY <1>1, <1>2 DEF Kept, SafeJobs, Safe
<1> QED
  BY <1>3, <1>4, <1>5, <1>6 DEF Kept

\* A rotation, in a second that has seen none.
LEMMA KeptByRotating ==
    ASSUME Types, Kept, SameSecond = FALSE, RenameActive,
           UNCHANGED <<gz, now, expired, trimmed>>,
           Exists(active') \/ active'.recs = {}, acked' \subseteq acked \cup active'.recs
    PROVE  Kept'
<1>1. /\ now \in Seconds /\ rot \in [Seconds -> Files] /\ ~WasRotated(now)
      /\ rot' = [rot EXCEPT ![now] = opened]
      /\ rotated' = rotated \cup {[t |-> now, recs |-> opened.recs]}
  BY DEF RenameActive, Types, Counters, Disk, WasRotated
<1>2. opened \in Files /\ Exists(opened)
  BY Opened
<1>3. active.recs \subseteq opened.recs
  BY DEF Kept, Empty, opened
<1>4. Gone' = Gone
  BY DEF Gone
<1> DEFINE new == [t |-> now, recs |-> opened.recs]
<1>n. new.t = now /\ new.recs = opened.recs /\ rotated' = rotated \cup {new} /\ now' = now
  BY <1>1
<1> HIDE DEF new
<1>5. ASSUME NEW t PROVE WasRotated(t)' <=> (WasRotated(t) \/ t = now)
  BY <1>n DEF WasRotated
<1>6. ASSUME NEW t, t # now PROVE RotatedAt(t)' = RotatedAt(t)
  <2>1. {f \in rotated' : f.t = t} = {f \in rotated : f.t = t}
    BY <1>n, <1>6
  <2> QED
    BY <2>1 DEF RotatedAt
<1>7. RotatedAt(now)' = opened.recs
  <2>1. {f \in rotated' : f.t = now'} = {new}
    BY <1>1, <1>n DEF WasRotated
  <2> QED
    BY <2>1, <1>n DEF RotatedAt
<1>8. Empty'
  BY <1>1, <1>2 DEF Kept, Empty
<1>9. Renamed'
  BY <1>1, <1>2, <1>5, <1>6, <1>7, <1>n DEF Kept, Renamed
<1>10. Stored'
  BY <1>1, <1>4, <1>6, <1>7, <1>n DEF Kept, Stored
<1>11. AckedSomewhere'
  <2>1. RotatedAt(now) = {}
    BY <1>1 DEF RotatedAt, WasRotated
  <2> SUFFICES ASSUME NEW c \in acked', c \notin active'.recs
               PROVE  \E t \in Seconds : c \in RotatedAt(t)'
    BY DEF AckedSomewhere
  <2>2. CASE c \in active.recs
    BY <1>1, <1>3, <1>7, <1>n, <2>2
  <2>3. CASE c \notin active.recs
    BY <1>6, <2>1, <2>3 DEF Kept, AckedSomewhere
  <2> QED
    BY <2>2, <2>3
<1>12. ASSUME NEW j \in compressing', j \notin compressing PROVE j = CompressJob /\ j.t = now
  BY <1>12 DEF RenameActive, CompressJob
<1>13. ASSUME NEW j \in compressing PROVE WasRotated(j.t) /\ j.t # now
  BY <1>1 DEF Kept, OwnJobs
<1>14. OwnJobs'
  BY <1>5, <1>12, <1>13 DEF Kept, OwnJobs
<1>15. SafeJobs'
  <2> SUFFICES ASSUME NEW j \in compressing' PROVE Safe(j)'
    BY DEF SafeJobs
  <2>1. CASE j \in compressing
    BY <1>4, <1>6, <1>13, <2>1 DEF Kept, SafeJobs, Safe
  <2>2. CASE j \notin compressing
    <3>1. j.step = "open" /\ j.t = now
      BY <1>12, <2>2 DEF CompressJob
    <3>2. ~Exists(gz[now])
      BY <1>1 DEF Kept, Renamed
    <3> QED
      BY <3>1, <3>2 DEF Safe
  <2> QED
    BY <2>1, <2>2
<1> QED
  BY <1>8, <1>9, <1>10, <1>11, <1>14, <1>15 DEF Kept

\* A step of a goroutine j that leaves the files of other rotations alone.
LEMMA KeptAround ==
    ASSUME Types, Kept, NEW j \in compressing, UNCHANGED <<active, histVars>>,
           \A t \in Seconds : t # j.t => rot'[t] = rot[t] /\ gz'[t] = gz[t],
           rot'[j.t] \in {rot[j.t], NoFile},
           gz'[j.t].inode = -1 => gz'[j.t].recs = {} /\ gz'[j.t].len = 0,
           RotatedAt(j.t) \subseteq rot'[j.t].recs \cup gz'[j.t].recs \cup Gone,
           \/ compressing' = compressing \ {j}
           \/ \E k : /\ k.t = j.t /\ Safe(k)'
                     /\ compressing' = (compressing \ {j}) \cup {k}
    PROVE  Kept'
<1>1. \A t : RotatedAt(t)' = RotatedAt(t) /\ WasRotated(t)' = WasRotated(t)
  BY SameRotations
<1>2. Gone' = Gone
  BY DEF Gone
<1>3. j.t \in Seconds
  BY DEF Types, Jobs, CompressJobs
<1>4. WasRotated(j.t)
  BY DEF Kept, OwnJobs
<1>5. NoFile.inode = -1 /\ NoFile.recs = {}
  BY DEF NoFile
<1>6. Empty'
  BY <1>3, <1>5 DEF Kept, Empty
<1>7. Renamed'
  BY <1>1, <1>3, <1>4, <1>5 DEF Kept, Renamed
<1>8. Stored'
  BY <1>1, <1>2, <1>3 DEF Kept, Stored
<1>9. AckedSomewhere'
  BY <1>1 DEF Kept, AckedSomewhere
<1>10. \A k \in compressing \ {j} : k.t \in Seconds /\ k.t # j.t
  BY DEF Kept, OwnJobs, Types, Jobs, CompressJobs
<1>11. OwnJobs'
  BY <1>1, <1>4, <1>10 DEF Kept, OwnJobs
<1>12. \A k \in compressing \ {j} : Safe(k)'
  BY <1>1, <1>2, <1>10 DEF Kept, SafeJobs, Safe
<1>13. SafeJobs'
  BY <1>12 DEF SafeJobs
<1> QED
  BY <1>6, <1>7, <1>8, <1>9, <1>11, <1>13 DEF Kept

LEMMA KeptByCompressing ==
    ASSUME Types, Kept, NEW j \in compressing, CompressStep(j)
    PROVE  Kept'
<1> DEFINE t == j.t
<1>0. /\ j \in CompressJobs /\ t \in Seconds /\ Safe(j)
      /\ rot \in [Seconds -> Files] /\ gz \in [Seconds -> Files]
      /\ rot[t] \in Files /\ gz[t] \in Files
  BY DEF Types, Jobs, CompressJobs, Disk, Kept, SafeJobs
<1>1. UNCHANGED <<active, calls, histVars>> /\ RotatedAt(t)' = RotatedAt(t) /\ Gone' = Gone
  <2>1. UNCHANGED <<active, calls, histVars>>
    BY DEF CompressStep, CompressOpen, CompressCreate, CompressWrite, CompressRemove,
       CompressFails, CompressFrame
  <2> QED
    BY <2>1, SameRotations DEF Gone
<1>2. /\ Exists(rot[t]) => rot[t].recs = RotatedAt(t)
      /\ ~Exists(rot[t]) => rot[t].recs = {}
      /\ ~Exists(gz[t]) => gz[t].recs = {} /\ gz[t].len = 0
      /\ RotatedAt(t) \subseteq rot[t].recs \cup gz[t].recs \cup Gone
  BY <1>0 DEF Kept, Renamed, Empty, Stored
<1>3. ASSUME NEW rs, gz' = GzContents(j, rs) \/ gz' = gz
      PROVE  /\ \A u \in Seconds : u # t => gz'[u] = gz[u]
             /\ gz'[t].inode = gz[t].inode
             /\ gz'[t] = gz[t] \/ (gz[t].inode = j.inode /\ gz'[t].recs = rs)
  <2>1. CASE gz' = gz
    BY <2>1
  <2>2. CASE gz' # gz
    <3>1. /\ gz[t].inode = j.inode
          /\ gz' = [gz EXCEPT ![t] = [gz[t] EXCEPT !.recs = rs, !.len = 1, !.mtime = now,
                                                   !.stamp = 2 * calls + 1]]
      BY <1>3, <2>2 DEF GzContents
    <3>2. gz'[t] = [gz[t] EXCEPT !.recs = rs, !.len = 1, !.mtime = now,
                                 !.stamp = 2 * calls + 1]
      BY <1>0, <3>1
    <3>3. gz'[t].inode = gz[t].inode /\ gz'[t].recs = rs
      BY <1>0, <3>2 DEF Files
    <3> QED
      BY <1>0, <3>1, <3>3
  <2> QED
    BY <2>1, <2>2
<1>4. CASE CompressOpen(j)
  <2>1. UNCHANGED <<rot, gz>>
    BY <1>4 DEF CompressOpen
  <2>2. CASE Exists(rot[t])
    <3>0. PICK k : k = [j EXCEPT !.step = "create", !.recs = rot[t].recs]
      OBVIOUS
    <3>1. k.t = t /\ k.step = "create" /\ k.recs = rot[t].recs
      BY <1>0, <3>0 DEF CompressJobs
    <3>2. compressing' = (compressing \ {j}) \cup {k}
      BY <1>4, <2>2, <3>0 DEF CompressOpen, Compressing
    <3>3. ~Exists(gz[t])
      BY <1>0, <1>4 DEF CompressOpen, Safe
    <3>4. Safe(k)'
      BY <1>1, <1>2, <2>1, <2>2, <3>1, <3>3 DEF Safe
    <3> QED
      BY <1>1, <1>2, <2>1, <3>1, <3>2, <3>4, KeptAround
  <2>3. CASE ~Exists(rot[t])
    <3>1. compressing' = compressing \ {j}
      BY <1>4, <2>3 DEF CompressOpen, Compressed
    <3> QED
      BY <1>1, <1>2, <2>1, <3>1, KeptAround
  <2> QED
    BY <2>2, <2>3
<1>5. CASE CompressCreate(j)
  <2>0. PICK k : k = [j EXCEPT !.step = "write", !.inode = gz'[t].inode]
    OBVIOUS
  <2>1. ~Exists(gz[t]) /\ j.recs = RotatedAt(t) /\ UNCHANGED rot
    BY <1>0, <1>5 DEF CompressCreate, Safe
  <2>2. gz' = [gz EXCEPT ![t] = NewFile(j.id)]
    BY <1>5, <2>1 DEF CompressCreate
  <2>3. gz'[t].recs = {} /\ gz'[t].len = 0 /\ \A u \in Seconds : u # t => gz'[u] = gz[u]
    BY <1>0, <2>2 DEF NewFile
  <2>8. gz'[t].inode # -1
    <3>1. gz'[t].inode = j.id /\ j.id \in 0..MaxCalls
      BY <1>0, <2>2 DEF NewFile, CompressJobs
    <3> QED
      BY <3>1
  <2>4. k.t = t /\ k.step = "write" /\ k.recs = j.recs /\ k.inode = gz'[t].inode
    BY <1>0, <2>0 DEF CompressJobs
  <2>5. compressing' = (compressing \ {j}) \cup {k}
    BY <1>5, <2>0 DEF CompressCreate, Compressing
  <2>6. Safe(k)'
    BY <1>1, <2>1, <2>3, <2>4, <2>8 DEF Safe
  <2>7. RotatedAt(t) \subseteq rot'[t].recs \cup gz'[t].recs \cup Gone
    BY <1>2, <2>1
  <2> QED
    BY <1>1, <2>1, <2>3, <2>4, <2>5, <2>6, <2>7, <2>8, KeptAround
<1>6. CASE CompressWrite(j)
  <2>0. PICK k : k = [j EXCEPT !.step = "remove", !.recs = {}, !.inode = -1]
    OBVIOUS
  <2>1. /\ j.recs = RotatedAt(t) /\ gz[t].recs = {} /\ gz[t].len = 0 /\ UNCHANGED rot
        /\ gz[t].inode = j.inode \/ RotatedAt(t) \subseteq Gone
        /\ j.inode # -1
    BY <1>0, <1>6 DEF CompressWrite, Safe
  <2>2. gz' = GzContents(j, j.recs)
    BY <1>6, <2>1 DEF CompressWrite
  <2>3. /\ \A u \in Seconds : u # t => gz'[u] = gz[u]
        /\ gz'[t].inode = gz[t].inode
        /\ gz'[t] = gz[t] \/ gz'[t].recs = j.recs
    BY <1>3, <2>2
  <2>4. k.t = t /\ k.step = "remove"
    BY <1>0, <2>0 DEF CompressJobs
  <2>5. compressing' = (compressing \ {j}) \cup {k}
    BY <1>6, <2>0 DEF CompressWrite, Compressing
  <2>6. RotatedAt(t) \subseteq gz'[t].recs \cup Gone
    <3>1. CASE gz[t].inode = j.inode
      <4>1. gz'[t] = [gz[t] EXCEPT !.recs = j.recs, !.len = 1, !.mtime = now,
                                   !.stamp = 2 * calls + 1]
        BY <1>0, <2>2, <3>1 DEF GzContents
      <4>2. gz'[t].recs = j.recs
        BY <1>0, <4>1 DEF Files
      <4> QED
        BY <2>1, <4>2
    <3> QED
      BY <2>1, <3>1
  <2>7. Safe(k)'
    BY <1>1, <2>4, <2>6 DEF Safe
  <2>8. gz'[t].inode = -1 => gz'[t].recs = {} /\ gz'[t].len = 0
    <3>1. gz'[t].inode = -1 => gz'[t] = gz[t]
      BY <1>3, <2>1, <2>2
    <3> QED
      BY <2>1, <3>1
  <2> QED
    BY <1>1, <2>1, <2>3, <2>4, <2>5, <2>6, <2>7, <2>8, KeptAround
<1>7. CASE CompressRemove(j)
  <2>1. /\ rot' = [rot EXCEPT ![t] = NoFile] /\ UNCHANGED gz
        /\ RotatedAt(t) \subseteq gz[t].recs \cup Gone
        /\ compressing' = compressing \ {j}
    BY <1>0, <1>7 DEF CompressRemove, Safe, Compressed
  <2>2. rot'[t] = NoFile /\ \A u \in Seconds : u # t => rot'[u] = rot[u]
    BY <1>0, <2>1
  <2> QED
    BY <1>1, <1>2, <2>1, <2>2, KeptAround
<1>8. CASE CompressFails(j)
  <2>1. /\ UNCHANGED rot /\ compressing' = compressing \ {j}
        /\ \/ gz' = gz
           \/ gz' = GzContents(j, {}) /\ j.inode # -1 /\ gz[t].recs = {} /\ gz[t].len = 0
    BY <1>0, <1>8 DEF Safe, CompressFails, OriginalKept, Compressed
  <2>2. /\ \A u \in Seconds : u # t => gz'[u] = gz[u]
        /\ gz'[t].inode = gz[t].inode
        /\ gz'[t] = gz[t] \/ (gz[t].inode = j.inode /\ gz'[t].recs = {})
    BY <1>3, <2>1
  <2>3. gz'[t].inode = -1 => gz'[t] = gz[t]
    BY <2>1, <2>2
  <2>4. RotatedAt(t) \subseteq rot'[t].recs \cup gz'[t].recs \cup Gone
    BY <1>2, <2>1
  <2> QED
    BY <1>1, <1>2, <2>1, <2>2, <2>3, <2>4, KeptAround
<1> QED
  BY <1>4, <1>5, <1>6, <1>7, <1>8 DEF CompressStep

\* A step of cleanup: the calls of a file it deletes are gone.
LEMMA KeptByCleaning ==
    ASSUME Types, Kept, NEW j \in cleaning, CleanupStep(j)
    PROVE  Kept'
<1>1. /\ UNCHANGED <<active, compressing, acked, rotated>>
      /\ \A t : RotatedAt(t)' = RotatedAt(t) /\ WasRotated(t)' = WasRotated(t)
  <2>1. UNCHANGED <<active, compressing, acked, rotated>>
    BY DEF CleanupStep, CleanupGlob, CleanupStat, CleanupReturn, CleanupRemoveAged,
       CleanupRemoveExcess, CleanupFrame
  <2> QED
    BY <2>1, SameRotations
<1>2. ASSUME UNCHANGED <<rot, gz, expired, trimmed>> PROVE Kept'
  BY <1>1, <1>2, KeptByAppending DEF Kept, Empty
<1>3. ASSUME NEW f \in {"rot", "gz"} \X Seconds,
             CleanupRemoveAged(j, f) \/ CleanupRemoveExcess(j, f)
      PROVE  Kept'
  <2> DEFINE s == f[2]
  <2>1. s \in Seconds /\ f[1] \in {"rot", "gz"}
    OBVIOUS
  <2>2. Gone \subseteq Gone' /\ RotatedAt(s) \subseteq Gone'
    BY <1>3 DEF CleanupRemoveAged, CleanupRemoveExcess, Holds, Gone, RotatedAt
  <2>3. /\ \A t \in Seconds : t # s => rot'[t] = rot[t] /\ gz'[t] = gz[t]
        /\ rot'[s] \in {rot[s], NoFile} /\ gz'[s] \in {gz[s], NoFile}
    BY <1>3, <2>1 DEF CleanupRemoveAged, CleanupRemoveExcess, Remove, Types, Disk
  <2>4. NoFile.inode = -1 /\ NoFile.recs = {} /\ NoFile.len = 0
    BY DEF NoFile
  <2>5. Empty'
    BY <1>1, <2>1, <2>3, <2>4 DEF Kept, Empty
  <2>6. Renamed'
    BY <1>1, <2>1, <2>3, <2>4 DEF Kept, Renamed
  <2>7. Stored'
    BY <1>1, <2>1, <2>2, <2>3, <2>4 DEF Kept, Stored
  <2>8. AckedSomewhere' /\ OwnJobs'
    BY <1>1 DEF Kept, AckedSomewhere, OwnJobs
  <2>9. SafeJobs'
    <3> SUFFICES ASSUME NEW k \in compressing PROVE Safe(k)'
      BY <1>1 DEF SafeJobs
    <3>1. Safe(k) /\ k.t \in Seconds
      BY DEF Kept, SafeJobs, Types, Jobs, CompressJobs
    <3>2. CASE k.t # s
      BY <1>1, <2>2, <2>3, <3>1, <3>2 DEF Safe
    <3>3. CASE k.t = s
      BY <1>1, <2>2, <2>3, <2>4, <3>1, <3>3 DEF Safe
    <3> QED
      BY <3>2, <3>3
  <2> QED
    BY <2>5, <2>6, <2>7, <2>8, <2>9 DEF Kept
<1>4. j.aged \subseteq {"rot", "gz"} \X Seconds /\ j.excess \subseteq {"rot", "gz"} \X Seconds
  BY DEF Types, Jobs, CleanupJobs
<1> QED
  BY <1>2, <1>3, <1>4 DEF CleanupStep, CleanupGlob, CleanupStat, CleanupReturn

LEMMA KeptByWriting == ASSUME Types, Kept, SameSecond = FALSE, Write PROVE Kept'
<1>0. /\ opened \in Files /\ sizeNow \in Nat /\ Exists(opened)
      /\ active.recs \subseteq opened.recs
      /\ calls \in 0..MaxCalls
  BY Opened DEF Kept, Empty, opened, Types, Counters
<1>1. ASSUME NEW n \in Lengths, NEW k \in 0..n, WriteAppend(n, k) PROVE Kept'
  <2>1. /\ FileWrite(opened, sizeNow, n, k) /\ calls < MaxCalls
        /\ UNCHANGED <<rot, gz, compressing, rotated, expired, trimmed>>
    BY <1>1 DEF WriteAppend, Call
  <2>2. n # 0
    BY FileWriterAssumption
  <2>3. /\ active'.inode = opened.inode
        /\ active'.recs = IF k = 0 THEN opened.recs ELSE opened.recs \cup {calls}
        /\ acked' = acked \/ (k = n /\ acked' = acked \cup {calls})
    BY <1>0, <2>1, FileWrites
  <2> QED
    BY <1>0, <2>1, <2>2, <2>3, KeptByAppending
<1>2. ASSUME NEW n \in Lengths, NEW k \in 0..n, WriteRotate(n, k) PROVE Kept'
  <2>1. /\ FileWrite(NewFile(0), 0, n, k) /\ RenameActive
        /\ UNCHANGED <<gz, now, expired, trimmed>>
    BY <1>2 DEF WriteRotate
  <2>2. n # 0
    BY FileWriterAssumption
  <2>3. /\ active'.inode = 0
        /\ active'.recs = IF k = 0 THEN {} ELSE {calls}
        /\ acked' = acked \/ (k = n /\ acked' = acked \cup {calls})
    BY <2>1, RotateWrites
  <2>4. acked' \subseteq acked \cup active'.recs
    BY <2>2, <2>3
  <2>5. Exists(active')
    BY <2>3
  <2> QED
    BY <2>1, <2>4, <2>5, KeptByRotating
<1>3. ASSUME NEW n \in Lengths, WriteReopenFails(n) PROVE Kept'
  <2>1. /\ RenameActive /\ active' = NoFile /\ UNCHANGED <<gz, now, acked, expired, trimmed>>
    BY <1>3 DEF WriteReopenFails
  <2>2. active'.recs = {}
    BY <2>1 DEF NoFile
  <2> QED
    BY <2>1, <2>2, KeptByRotating
<1>4. ASSUME NEW n \in Lengths, WriteRotateFails(n) PROVE Kept'
  <2>1. active' = opened /\ UNCHANGED <<rot, gz, compressing, histVars>>
    BY <1>4 DEF WriteRotateFails
  <2> QED
    BY <1>0, <2>1, KeptByAppending
<1>5. ASSUME WriteOpenFails \/ WriteClosed PROVE Kept'
  <2>1. UNCHANGED <<active, rot, gz, compressing, histVars>>
    BY <1>5 DEF WriteOpenFails, WriteClosed
  <2> QED
    BY <2>1, KeptByAppending DEF Kept, Empty
<1> QED
  BY <1>1, <1>2, <1>3, <1>4, <1>5 DEF Write

LEMMA KeptInductive ==
    ASSUME SameSecond = FALSE, Types, Kept, [Next]_vars
    PROVE  Kept'
<1>1. CASE Restart
  <2>1. active' = opened /\ UNCHANGED <<rot, gz, histVars>> /\ compressing' = {}
    BY <1>1 DEF Restart
  <2>2. Exists(opened) /\ active.recs \subseteq opened.recs
    BY Opened DEF Kept, Empty, opened
  <2> QED
    BY <2>1, <2>2, KeptByAppending
<1>2. CASE Tick \/ Close \/ UNCHANGED vars
  <2>1. UNCHANGED <<active, rot, gz, compressing, histVars>>
    BY <1>2 DEF Tick, Close
  <2> QED
    BY <2>1, KeptByAppending DEF Kept, Empty
<1> QED
  BY <1>1, <1>2, KeptByWriting, KeptByCompressing, KeptByCleaning DEF Next

LEMMA KeptInitially == Init => Kept
<1> SUFFICES ASSUME Init PROVE Kept
  OBVIOUS
<1>1. NoFile.inode = -1 /\ NoFile.recs = {} /\ NoFile.len = 0 /\ NewFile(0).inode = 0
  BY DEF NoFile, NewFile
<1>2. Empty
  BY <1>1 DEF Init, Empty
<1>3. Renamed /\ Stored
  BY <1>1 DEF Init, Renamed, Stored, RotatedAt
<1>4. AckedSomewhere /\ OwnJobs /\ SafeJobs
  BY DEF Init, AckedSomewhere, OwnJobs, SafeJobs
<1> QED
  BY <1>2, <1>3, <1>4 DEF Kept

\* With at most one rotation a second no acknowledged entry is lost by rotating,
\* compressing, deleting, failing or restarting, unless its file was deleted by cleanup.
THEOREM NothingLostTheorem == ASSUME SameSecond = FALSE PROVE Spec => []NothingLost
<1>1. Init => Kept
  BY KeptInitially
<1>2. Types /\ Kept /\ [Next]_vars => Kept'
  BY KeptInductive
<1>3. Kept => NothingLost
  <2> SUFFICES ASSUME Kept, NEW c \in acked
               PROVE  c \in Present \cup Gone
    BY DEF NothingLost, Gone
  <2>1. CASE c \in active.recs
    BY <2>1 DEF Present
  <2>2. ASSUME NEW t \in Seconds, c \in RotatedAt(t) PROVE c \in Present \cup Gone
    <3>1. c \in rot[t].recs \/ c \in gz[t].recs \/ c \in Gone
      BY <2>2 DEF Kept, Stored
    <3>2. ASSUME c \in rot[t].recs PROVE c \in Present
      <4>1. FileAt(<<"rot", t>>) = rot[t] /\ Exists(rot[t])
        BY <3>2 DEF FileAt, Kept, Empty
      <4>2. <<"rot", t>> \in Backups
        BY <4>1 DEF Backups
      <4> QED
        BY <3>2, <4>1, <4>2 DEF Present
    <3>3. ASSUME c \in gz[t].recs PROVE c \in Present
      <4>1. FileAt(<<"gz", t>>) = gz[t] /\ Exists(gz[t])
        BY <3>3 DEF FileAt, Kept, Empty
      <4>2. <<"gz", t>> \in Backups
        BY <4>1 DEF Backups
      <4> QED
        BY <3>3, <4>1, <4>2 DEF Present
    <3> QED
      BY <3>1, <3>2, <3>3
  <2> QED
    BY <2>1, <2>2 DEF Kept, AckedSomewhere
<1> QED
  BY <1>1, <1>2, <1>3, TypesInitially, TypesInductive, PTL DEF Spec

--------------------------------------------------------------------------------
(* The number of old files, without compression.                            *)

\* Without compression there are no compressed files.
NotCompressed == ~compress => compressing = {} /\ \A t \in Seconds : ~Exists(gz[t])

\* The goroutine j will leave at most maxBackups files if none is added.
Trimming(j) ==
    \/ j.step = "glob"
    \/ j.step = "stat" /\ Backups \subseteq j.names
    \/ j.step = "remove" /\ Cardinality(Backups \ (j.aged \cup j.excess)) <= MaxBackups

Bounded ==
    ~compress /\ faults = 0
       => Cardinality(Backups) <= MaxBackups \/ \E j \in cleaning : Trimming(j)

LEMMA BackupsFinite ==
    /\ Backups \subseteq {"rot", "gz"} \X Seconds
    /\ \A s \in SUBSET ({"rot", "gz"} \X Seconds) : IsFiniteSet(s) /\ Cardinality(s) \in Nat
<1>1. IsFiniteSet({"rot", "gz"}) /\ IsFiniteSet(Seconds)
  <2>1. IsFiniteSet({"rot"} \cup {"gz"})
    BY FS_Singleton, FS_AddElement
  <2>2. {"rot"} \cup {"gz"} = {"rot", "gz"}
    OBVIOUS
  <2> QED
    BY <2>1, <2>2, FS_Interval, FileWriterAssumption DEF Seconds
<1>2. IsFiniteSet({"rot", "gz"} \X Seconds)
  BY <1>1, FS_Product
<1> QED
  BY <1>2, FS_Subset, FS_CardinalityType DEF Backups

LEMMA SameBackups == ASSUME UNCHANGED <<rot, gz>> PROVE Backups' = Backups
BY DEF Backups, FileAt

LEMMA NotCompressedInitially == Init => NotCompressed
BY DEF Init, NotCompressed, NoFile

LEMMA NotCompressedInductive == Types /\ NotCompressed /\ [Next]_vars => NotCompressed'
<1> SUFFICES ASSUME Types, NotCompressed, [Next]_vars, ~compress'
             PROVE  compressing' = {} /\ \A t \in Seconds : ~Exists(gz[t])'
  BY DEF NotCompressed
<1>1. CASE Write
  <2>1. compress' = compress /\ gz' = gz
    BY <1>1 DEF Write, WriteAppend, WriteRotate, WriteRotateFails, WriteReopenFails,
       WriteOpenFails, WriteClosed
  <2>2. ~compress => compressing' = compressing
    BY <1>1 DEF Write, WriteAppend, WriteRotate, WriteRotateFails, WriteReopenFails,
       WriteOpenFails, WriteClosed, RenameActive
  <2> QED
    BY <2>1, <2>2 DEF NotCompressed
<1>2. CASE Close \/ Restart \/ Tick \/ UNCHANGED vars
  BY <1>2 DEF Close, Restart, Tick, NotCompressed
<1>3. ASSUME NEW j \in compressing, CompressStep(j) PROVE FALSE
  <2>1. compress' = compress
    BY <1>3 DEF CompressStep, CompressOpen, CompressCreate, CompressWrite, CompressRemove,
       CompressFails, CompressFrame
  <2> QED
    BY <2>1 DEF NotCompressed
<1>4. ASSUME NEW j \in cleaning, CleanupStep(j)
      PROVE  compressing' = {} /\ \A t \in Seconds : ~Exists(gz[t])'
  <2>1. compress' = compress /\ compressing' = compressing
    BY <1>4 DEF CleanupStep, CleanupGlob, CleanupStat, CleanupReturn, CleanupRemoveAged,
       CleanupRemoveExcess, CleanupFrame
  <2>2. gz' = gz \/ \E f \in {"rot", "gz"} \X Seconds : gz' = [gz EXCEPT ![f[2]] = NoFile]
    BY <1>4 DEF CleanupStep, CleanupGlob, CleanupStat, CleanupReturn, CleanupRemoveAged,
       CleanupRemoveExcess, Remove, Types, Jobs, CleanupJobs
  <2>3. NoFile.inode = -1
    BY DEF NoFile
  <2> QED
    BY <2>1, <2>2, <2>3 DEF NotCompressed, Types, Disk
<1> QED
  BY <1>1, <1>2, <1>3, <1>4 DEF Next

\* A step of cleanup: what it leaves to delete is enough.
LEMMA BoundedByCleaning ==
    ASSUME MaxBackups > 0, Types, Bounded, ~compress, faults = 0,
           NEW j \in cleaning, CleanupStep(j)
    PROVE  Cardinality(Backups') <= MaxBackups \/ \E i \in cleaning' : Trimming(i)'
<1> USE FileWriterAssumption
<1> DEFINE Names == {"rot", "gz"} \X Seconds
           Old == Backups
<1>0. /\ j \in CleanupJobs /\ Old \subseteq Names /\ Old' \subseteq Names
      /\ \A s \in SUBSET Names : IsFiniteSet(s) /\ Cardinality(s) \in Nat
  BY BackupsFinite DEF Types, Jobs, CleanupJobs, Backups
<1>1. Cardinality(Old) <= MaxBackups \/ \E i \in cleaning : Trimming(i)
  BY DEF Bounded
\* Another goroutine is not disturbed by the deletion of a file.
<1>2. ASSUME Old' \subseteq Old
      PROVE  /\ Cardinality(Old) <= MaxBackups => Cardinality(Old') <= MaxBackups
             /\ \A i \in cleaning : Trimming(i) => Trimming(i)'
  <2>1. Cardinality(Old') <= Cardinality(Old)
    BY <1>0, <1>2, FS_Subset
  <2>2. ASSUME NEW i \in cleaning
        PROVE  Cardinality(Old' \ (i.aged \cup i.excess)) <= Cardinality(Old \ (i.aged \cup i.excess))
    <3>1. Old' \ (i.aged \cup i.excess) \subseteq Old \ (i.aged \cup i.excess)
      BY <1>2
    <3> QED
      BY <1>0, <3>1, FS_Subset
  <2>3. ASSUME NEW i \in cleaning
        PROVE  /\ Cardinality(Old' \ (i.aged \cup i.excess)) \in Nat
               /\ Cardinality(Old \ (i.aged \cup i.excess)) \in Nat
    BY <1>0
  <2>4. Cardinality(Old) \in Nat /\ Cardinality(Old') \in Nat
    BY <1>0
  <2> HIDE DEF Old
  <2>5. Cardinality(Old) <= MaxBackups => Cardinality(Old') <= MaxBackups
    BY <2>1, <2>4
  <2>6. ASSUME NEW i \in cleaning, Cardinality(Old \ (i.aged \cup i.excess)) <= MaxBackups
        PROVE  Cardinality(Old' \ (i.aged \cup i.excess)) <= MaxBackups
    <3> DEFINE a == Cardinality(Old \ (i.aged \cup i.excess))
               b == Cardinality(Old' \ (i.aged \cup i.excess))
    <3>1. a \in Nat /\ b \in Nat /\ b <= a /\ a <= MaxBackups
      BY <2>2, <2>3, <2>6
    <3> HIDE DEF a, b
    <3>2. b <= MaxBackups
      BY <3>1
    <3> QED
      BY <3>2 DEF b
  <2> USE DEF Old
  <2>7. ASSUME NEW i \in cleaning, Trimming(i) PROVE Trimming(i)'
    <3>1. CASE i.step = "glob"
      BY <3>1 DEF Trimming
    <3>2. CASE i.step = "stat" /\ Backups \subseteq i.names
      BY <1>2, <3>2 DEF Trimming
    <3>3. CASE /\ i.step = "remove"
               /\ Cardinality(Backups \ (i.aged \cup i.excess)) <= MaxBackups
      BY <2>6, <3>3 DEF Trimming
    <3> QED
      BY <2>7, <3>1, <3>2, <3>3 DEF Trimming
  <2> QED
    BY <2>5, <2>7
<1>3. CASE CleanupGlob(j)
  <2>1. PICK k : k = [j EXCEPT !.step = "stat", !.names = Old]
    OBVIOUS
  <2>2. k.step = "stat" /\ k.names = Old
    BY <1>0, <2>1 DEF CleanupJobs
  <2>3. Old' = Old
    BY <1>3, SameBackups DEF CleanupGlob
  <2>4. k \in cleaning'
    BY <1>3, <2>1 DEF CleanupGlob, Cleaning
  <2> QED
    BY <2>2, <2>3, <2>4 DEF Trimming
<1>4. CASE CleanupStat(j)
  <2> DEFINE logs == j.names \cap Old
  <2>1. PICK v \in SUBSET logs :
             /\ Oldest(v, logs)
             /\ Cleaning(j, [j EXCEPT !.step = "remove", !.now = 0, !.names = {},
                                      !.aged = Aged(j, logs), !.excess = v])
    BY <1>4 DEF CleanupStat
  <2>2. Old' = Old
    BY <1>4, SameBackups DEF CleanupStat
  <2>3. PICK k : k = [j EXCEPT !.step = "remove", !.now = 0, !.names = {},
                               !.aged = Aged(j, logs), !.excess = v]
    OBVIOUS
  <2>4. k.step = "remove" /\ k.aged = Aged(j, logs) /\ k.excess = v
    BY <1>0, <2>3 DEF CleanupJobs
  <2>5. cleaning' = (cleaning \ {j}) \cup {k}
    BY <2>1, <2>3 DEF Cleaning
  <2>6. ASSUME Trimming(j) PROVE Trimming(k)'
    <3>1. Old \subseteq j.names
      BY <1>4, <2>6 DEF CleanupStat, Trimming
    <3>2. logs = Old /\ v \subseteq Old
      BY <3>1
    <3>3. /\ Cardinality(Old) \in Nat /\ Cardinality(v) \in Nat
          /\ Cardinality(Old \ v) \in Nat /\ Cardinality(Old \ (k.aged \cup k.excess)) \in Nat
      BY <1>0, <3>2
    <3>4. Cardinality(v) = IF Cardinality(Old) - MaxBackups > 0
                           THEN Cardinality(Old) - MaxBackups ELSE 0
      BY <2>1, <3>2 DEF Oldest, ExcessOf
    <3>5. Cardinality(Old \ v) = Cardinality(Old) - Cardinality(v)
      <4>1. Old \cap v = v /\ IsFiniteSet(Old)
        BY <1>0, <3>2
      <4> QED
        BY <4>1, FS_Difference
    <3>6. Cardinality(Old \ (k.aged \cup k.excess)) <= Cardinality(Old \ v)
      <4>1. Old \ (k.aged \cup k.excess) \subseteq Old \ v
        BY <2>4
      <4> QED
        BY <1>0, <4>1, FS_Subset
    <3> HIDE DEF Old
    <3>7. Cardinality(Old \ v) <= MaxBackups
      BY <3>3, <3>4, <3>5
    <3>8. Cardinality(Old \ (k.aged \cup k.excess)) <= MaxBackups
      BY <3>3, <3>6, <3>7
    <3> QED
      BY <2>2, <2>4, <3>8 DEF Trimming, Old
  <2>7. \A i \in cleaning : Trimming(i) => Trimming(i)'
    BY <1>2, <2>2
  <2> QED
    BY <1>1, <2>2, <2>5, <2>6, <2>7
<1>5. CASE CleanupReturn(j)
  <2>1. Old' = Old /\ cleaning' = cleaning \ {j}
    BY <1>5, SameBackups DEF CleanupReturn
  <2>2. Trimming(j) => Cardinality(Old) <= MaxBackups
    <3>1. j.step = "remove" /\ Old \ (j.aged \cup j.excess) = Old
      BY <1>5 DEF CleanupReturn
    <3> QED
      BY <3>1 DEF Trimming
  <2>3. \A i \in cleaning : Trimming(i) => Trimming(i)'
    BY <1>2, <2>1
  <2> QED
    BY <1>1, <2>1, <2>2, <2>3
<1>6. ASSUME NEW f \in Names, CleanupRemoveAged(j, f) \/ CleanupRemoveExcess(j, f)
      PROVE  Cardinality(Old') <= MaxBackups \/ \E i \in cleaning' : Trimming(i)'
  <2>1. Old' = Old \ {f}
    <3>1. Remove(f)
      BY <1>6 DEF CleanupRemoveAged, CleanupRemoveExcess
    <3>2. NoFile.inode = -1
      BY DEF NoFile
    <3>3. ASSUME NEW g \in Names PROVE Exists(FileAt(g))' <=> (Exists(FileAt(g)) /\ g # f)
      <4>1. g = <<g[1], g[2]>> /\ f = <<f[1], f[2]>> /\ f[2] \in Seconds /\ g[2] \in Seconds
        OBVIOUS
      <4>2. g[1] \in {"rot", "gz"} /\ f[1] \in {"rot", "gz"}
        OBVIOUS
      <4>3. rot \in [Seconds -> Files] /\ gz \in [Seconds -> Files]
        BY DEF Types, Disk
      <4>4. CASE g[1] = "rot"
        BY <3>1, <3>2, <4>1, <4>2, <4>3, <4>4 DEF Remove, FileAt
      <4>5. CASE g[1] = "gz"
        BY <3>1, <3>2, <4>1, <4>2, <4>3, <4>5 DEF Remove, FileAt
      <4> QED
        BY <4>2, <4>4, <4>5
    <3> QED
      BY <3>3 DEF Backups
  <2>2. PICK k : /\ k = [j EXCEPT !.aged = @ \ {f}] \/ k = [j EXCEPT !.excess = @ \ {f}]
                 /\ cleaning' = (cleaning \ {j}) \cup {k}
    BY <1>6 DEF CleanupRemoveAged, CleanupRemoveExcess, Cleaning
  <2>3. /\ k.step = "remove" /\ j.step = "remove"
        /\ (j.aged \cup j.excess) \ {f} \subseteq k.aged \cup k.excess
    BY <1>0, <1>6, <2>2 DEF CleanupJobs, CleanupRemoveAged, CleanupRemoveExcess
  <2>4. ASSUME Trimming(j) PROVE Trimming(k)'
    <3>1. Cardinality(Old \ (j.aged \cup j.excess)) <= MaxBackups
      BY <2>3, <2>4 DEF Trimming
    <3>2. Old' \ (k.aged \cup k.excess) \subseteq Old \ (j.aged \cup j.excess)
      BY <2>1, <2>3
    <3>3. /\ Cardinality(Old' \ (k.aged \cup k.excess)) <= Cardinality(Old \ (j.aged \cup j.excess))
          /\ Cardinality(Old' \ (k.aged \cup k.excess)) \in Nat
          /\ Cardinality(Old \ (j.aged \cup j.excess)) \in Nat
      BY <1>0, <3>2, FS_Subset
    <3> HIDE DEF Old
    <3>4. Cardinality(Old' \ (k.aged \cup k.excess)) <= MaxBackups
      BY <3>1, <3>3
    <3> QED
      BY <2>3, <3>4 DEF Trimming, Old
  <2>5. /\ Cardinality(Old) <= MaxBackups => Cardinality(Old') <= MaxBackups
        /\ \A i \in cleaning : Trimming(i) => Trimming(i)'
    BY <1>2, <2>1
  <2> QED
    BY <1>1, <2>2, <2>4, <2>5
<1>7. j.aged \subseteq Names /\ j.excess \subseteq Names
  BY <1>0 DEF CleanupJobs
<1> HIDE DEF Names
<1> QED
  BY <1>3, <1>4, <1>5, <1>6, <1>7 DEF CleanupStep

LEMMA BoundedInductive ==
    ASSUME MaxBackups > 0, Types, NotCompressed, Bounded, [Next]_vars
    PROVE  Bounded'
<1> SUFFICES ASSUME ~compress', faults' = 0
             PROVE  Cardinality(Backups') <= MaxBackups \/ \E i \in cleaning' : Trimming(i)'
  BY DEF Bounded
<1>0. faults \in Nat
  BY DEF Types, Counters
<1>1. ~Fault
  BY <1>0 DEF Fault
<1>2. ASSUME compress' = compress, faults' = faults, UNCHANGED <<rot, gz, cleaning>>
      PROVE  Cardinality(Backups') <= MaxBackups \/ \E i \in cleaning' : Trimming(i)'
  <2>1. Backups' = Backups
    BY <1>2, SameBackups
  <2> QED
    BY <1>2, <2>1 DEF Bounded, Trimming
<1>3. ASSUME NEW n \in Lengths, NEW k \in 0..n, WriteRotate(n, k)
      PROVE  \E i \in cleaning' : Trimming(i)'
  <2>1. PICK i : i = CleanupJob
    OBVIOUS
  <2>2. i \in cleaning' /\ i.step = "glob"
    BY <1>3, <2>1 DEF WriteRotate, CleanupJob
  <2> QED
    BY <2>2 DEF Trimming
<1>4. ASSUME NEW n \in Lengths, NEW k \in 0..n, WriteAppend(n, k)
      PROVE  compress' = compress /\ faults' = faults /\ UNCHANGED <<rot, gz, cleaning>>
  BY <1>1, <1>4 DEF WriteAppend, FileWrite
<1>5. ASSUME \/ \E n \in Lengths : WriteRotateFails(n) \/ WriteReopenFails(n)
             \/ WriteOpenFails \/ Restart
      PROVE  FALSE
  BY <1>1, <1>5 DEF WriteRotateFails, WriteReopenFails, WriteOpenFails, Restart
<1>6. ASSUME WriteClosed \/ Close \/ Tick \/ UNCHANGED vars
      PROVE  compress' = compress /\ faults' = faults /\ UNCHANGED <<rot, gz, cleaning>>
  BY <1>6 DEF WriteClosed, Close, Tick
<1>7. ASSUME NEW j \in compressing, CompressStep(j) PROVE FALSE
  <2>1. compress' = compress
    BY <1>7 DEF CompressStep, CompressOpen, CompressCreate, CompressWrite, CompressRemove,
       CompressFails, CompressFrame
  <2> QED
    BY <2>1 DEF NotCompressed
<1>8. ASSUME NEW j \in cleaning, CleanupStep(j)
      PROVE  Cardinality(Backups') <= MaxBackups \/ \E i \in cleaning' : Trimming(i)'
  <2>1. compress' = compress /\ faults' = faults
    BY <1>8 DEF CleanupStep, CleanupGlob, CleanupStat, CleanupReturn, CleanupRemoveAged,
       CleanupRemoveExcess, CleanupFrame
  <2> QED
    BY <1>8, <2>1, BoundedByCleaning
<1> QED
  BY <1>2, <1>3, <1>4, <1>5, <1>6, <1>7, <1>8 DEF Next, Write

\* Without compression and failures at most maxBackups old files are left when the
\* cleanups that rotations started have returned, in whatever order they ran.
THEOREM BackupsBoundedTheorem == ASSUME MaxBackups > 0 PROVE Spec => []BackupsBounded
<1>1. Init => NotCompressed /\ Bounded
  <2> SUFFICES ASSUME Init PROVE Bounded
    BY NotCompressedInitially
  <2>1. Backups = {}
    BY DEF Init, Backups, FileAt, NoFile
  <2> QED
    BY <2>1, FS_EmptySet, FileWriterAssumption DEF Bounded
<1>2. Types /\ NotCompressed /\ Bounded /\ [Next]_vars => NotCompressed' /\ Bounded'
  BY NotCompressedInductive, BoundedInductive
<1>3. Bounded => BackupsBounded
  BY DEF Bounded, BackupsBounded
<1> QED
  BY <1>1, <1>2, <1>3, TypesInitially, TypesInductive, PTL DEF Spec

--------------------------------------------------------------------------------
(* What cleanup trims.                                                      *)

\* Files are stamped by the calls made, and rotated in the seconds passed.
Stamped ==
    /\ Exists(active) => active.stamp <= 2 * calls
    /\ \A t \in Seconds : Exists(rot[t]) => rot[t].stamp <= 2 * calls /\ WasRotated(t)
    /\ \A f \in rotated : f.t <= now

\* g is modified after f; only while it is empty may it be at the same time.
After(f, g) == f.stamp <= g.stamp /\ (g.recs # {} => f.stamp < g.stamp)

\* Files that were rotated later were modified later.
Ordered ==
    /\ \A t \in Seconds : Exists(rot[t]) /\ Exists(active) => After(rot[t], active)
    /\ \A t, u \in Seconds :
          Exists(rot[t]) /\ Exists(rot[u]) /\ t < u => After(rot[t], rot[u])

\* No call is in two files.
Apart ==
    /\ \A c \in active.recs : c < calls
    /\ \A f \in rotated : \A c \in f.recs : c < calls /\ c \notin active.recs
    /\ \A f, g \in rotated : f.recs \cap g.recs # {} => f.t = g.t
    /\ IsFiniteSet(rotated)

Stamps == Stamped /\ Ordered /\ Apart

LEMMA FileStamps ==
    ASSUME Types
    PROVE  /\ calls \in Nat /\ 2 * calls \in Int /\ now \in Int
           /\ active.stamp \in Int
           /\ \A t \in Seconds : rot[t].stamp \in Int /\ t \in Int
<1>1. \A f \in Files : f.stamp \in Int
  BY DEF Files
<1>2. active \in Files /\ (\A t \in Seconds : rot[t] \in Files) /\ calls \in Nat /\ now \in Int
  BY FileWriterAssumption DEF Types, Disk, Counters, Seconds
<1> QED
  BY <1>1, <1>2 DEF Seconds

LEMMA OpenedStamps ==
    ASSUME Types, Kept, Stamps
    PROVE  /\ opened.recs = active.recs /\ opened.stamp \in Int /\ opened.stamp <= 2 * calls
           /\ \A t \in Seconds : Exists(rot[t]) => After(rot[t], opened)
<1>1. CASE Exists(active)
  <2>1. opened = active
    BY <1>1 DEF opened
  <2> QED
    BY <1>1, <2>1, FileStamps DEF Stamps, Stamped, Ordered
<1>2. CASE ~Exists(active)
  <2>1. opened.stamp = 2 * calls /\ opened.recs = {} /\ active.recs = {}
    BY <1>2 DEF opened, NewFile, Kept, Empty
  <2> QED
    BY <2>1, FileStamps DEF Stamps, Stamped, After
<1> QED
  BY <1>1, <1>2

\* A file that was written is stamped with the call.
LEMMA WriteStamps ==
    ASSUME NEW f \in Files, NEW s, NEW n, NEW k, FileWrite(f, s, n, k)
    PROVE  \/ active' = f
           \/ /\ active'.recs = f.recs \cup {calls} /\ active'.stamp = 2 * calls + 1
              /\ active'.inode = f.inode
BY DEF FileWrite, Files

\* Steps that delete files and let time pass.
LEMMA StampsByRemoving ==
    ASSUME Types, Stamps, UNCHANGED <<active, rotated>>,
           calls' = calls \/ calls' = calls + 1, now' = now \/ now' = now + 1,
           \A t \in Seconds : rot'[t] = rot[t] \/ rot'[t] = NoFile
    PROVE  Stamps'
<1>1. /\ calls \in Nat /\ now \in Int /\ active.stamp \in Int
      /\ \A t \in Seconds : rot[t].stamp \in Int
  BY FileStamps
<1>2. \A t \in Seconds : Exists(rot'[t]) => rot'[t] = rot[t]
  BY DEF NoFile
<1>3. /\ \A i \in Int : i <= 2 * calls => i <= 2 * calls'
      /\ \A i \in Nat : i < calls => i < calls'
  BY <1>1
<1>4. \A i \in Int : i <= now => i <= now'
  BY <1>1
<1>5. \A f \in rotated : f.t \in Int /\ f.recs \subseteq Nat
  BY DEF Types, Past, Seconds
<1>6. active.recs \subseteq Nat
  BY DEF Types, Disk, Files
<1>7. Stamped'
  BY <1>1, <1>2, <1>3, <1>4, <1>5, SameRotations DEF Stamps, Stamped
<1>8. Ordered'
  BY <1>2 DEF Stamps, Ordered, After
<1>9. Apart'
  BY <1>3, <1>5, <1>6 DEF Stamps, Apart
<1> QED
  BY <1>7, <1>8, <1>9 DEF Stamps

\* A step that works on the active file only: it is as it was opened, or written.
LEMMA StampsByWriting ==
    ASSUME Types, Kept, Stamps, UNCHANGED <<rot, rotated, now>>,
           calls' = calls \/ calls' = calls + 1,
           \/ active' = opened
           \/ /\ active'.recs = opened.recs \cup {calls} /\ active'.stamp = 2 * calls + 1
              /\ calls' = calls + 1
    PROVE  Stamps'
<1>1. /\ calls \in Nat /\ 2 * calls \in Int
      /\ \A t \in Seconds : rot[t].stamp \in Int
  BY FileStamps
<1>2. /\ opened.recs = active.recs /\ opened.stamp \in Int /\ opened.stamp <= 2 * calls
      /\ \A t \in Seconds : Exists(rot[t]) => After(rot[t], opened)
  BY OpenedStamps
<1>3. /\ \A i \in Int : i <= 2 * calls => i <= 2 * calls'
      /\ \A i \in Nat : i < calls => i < calls'
  BY <1>1
<1>4. \A t \in Seconds : WasRotated(t)' = WasRotated(t)
  BY SameRotations
<1>5. active'.stamp <= 2 * calls'
  BY <1>1, <1>2, <1>3
<1>6. \A t \in Seconds : Exists(rot[t]) => After(rot[t], active')
  <2>1. CASE active' = opened
    BY <1>2, <2>1 DEF After
  <2>2. CASE active'.stamp = 2 * calls + 1
    <3> SUFFICES ASSUME NEW t \in Seconds, Exists(rot[t])
                 PROVE  rot[t].stamp < active'.stamp /\ rot[t].stamp <= active'.stamp
      BY DEF After
    <3>1. rot[t].stamp <= 2 * calls /\ rot[t].stamp \in Int
      BY <1>1 DEF Stamps, Stamped
    <3> QED
      BY <1>1, <2>2, <3>1
  <2> QED
    BY <2>1, <2>2
<1>7. Stamped'
  BY <1>1, <1>3, <1>4, <1>5 DEF Stamps, Stamped
<1>8. Ordered'
  BY <1>6 DEF Stamps, Ordered, After
<1>9. Apart'
  <2>1. \A f \in rotated : f.recs \subseteq Nat
    BY DEF Types, Past
  <2>2. active.recs \subseteq Nat
    BY DEF Types, Disk, Files
  <2>3. \A c \in active'.recs : c < calls'
    <3>1. CASE active' = opened
      BY <1>2, <1>3, <2>2, <3>1 DEF Stamps, Apart
    <3>2. CASE active'.recs = opened.recs \cup {calls} /\ calls' = calls + 1
      <4>1. calls < calls'
        BY <1>1, <3>2
      <4> QED
        BY <1>2, <1>3, <2>2, <3>2, <4>1 DEF Stamps, Apart
    <3> QED
      BY <3>1, <3>2
  <2>4. \A f \in rotated : \A c \in f.recs : c < calls' /\ c \notin active'.recs
    <3> SUFFICES ASSUME NEW f \in rotated, NEW c \in f.recs
                 PROVE  c < calls' /\ c \notin active'.recs
      OBVIOUS
    <3>1. c < calls /\ c \notin active.recs /\ c \in Nat
      BY <2>1 DEF Stamps, Apart
    <3>2. c # calls
      BY <1>1, <3>1
    <3> QED
      BY <1>2, <1>3, <3>1, <3>2
  <2> QED
    BY <2>3, <2>4 DEF Stamps, Apart
<1> QED
  BY <1>7, <1>8, <1>9 DEF Stamps

\* A rotation, in a second that has seen none.
LEMMA StampsByRotating ==
    ASSUME Types, Kept, Stamps, SameSecond = FALSE, RenameActive, now' = now,
           calls' = calls + 1,
           \/ ~Exists(active') /\ active'.recs = {}
           \/ active'.recs = {} /\ active'.stamp = 2 * calls
           \/ active'.recs = {calls} /\ active'.stamp = 2 * calls + 1
    PROVE  Stamps'
<1>1. /\ calls \in Nat /\ 2 * calls \in Int /\ now \in Int /\ now \in Seconds
      /\ \A t \in Seconds : rot[t].stamp \in Int /\ t \in Int
  BY FileStamps DEF Types, Counters
<1>2. /\ opened.recs = active.recs /\ opened.stamp \in Int /\ opened.stamp <= 2 * calls
      /\ \A t \in Seconds : Exists(rot[t]) => After(rot[t], opened)
  BY OpenedStamps
<1>3. /\ \A i \in Int : i <= 2 * calls => i <= 2 * calls'
      /\ \A i \in Nat : i < calls => i < calls'
  BY <1>1
<1> DEFINE new == [t |-> now, recs |-> opened.recs]
<1>4. new.t = now /\ new.recs = active.recs /\ rotated' = rotated \cup {new}
  BY <1>2 DEF RenameActive
<1> HIDE DEF new
<1>5. /\ rot'[now] = opened /\ \A t \in Seconds : t # now => rot'[t] = rot[t]
      /\ \A f \in rotated : f.t # now
  BY <1>1 DEF RenameActive, Types, Disk
<1>6. \A t \in Seconds : Exists(rot[t]) => t < now
  <2> SUFFICES ASSUME NEW t \in Seconds, Exists(rot[t]) PROVE t < now
    OBVIOUS
  <2>1. PICK f \in rotated : f.t = t
    BY DEF Stamps, Stamped, WasRotated
  <2>2. t <= now /\ t # now
    BY <1>5, <2>1 DEF Stamps, Stamped
  <2> QED
    BY <1>1, <2>2
<1>7. ASSUME NEW f, f.stamp \in Int, f.stamp <= 2 * calls, Exists(active')
      PROVE  After(f, active')
  BY <1>1, <1>7 DEF After
<1>8. Stamped'
  <2>1. Exists(active') => active'.stamp <= 2 * calls'
    BY <1>1
  <2>2. ASSUME NEW t \in Seconds, Exists(rot'[t])
        PROVE  rot'[t].stamp <= 2 * calls' /\ WasRotated(t)'
    <3>1. CASE t = now
      BY <1>2, <1>3, <1>4, <1>5, <3>1 DEF WasRotated
    <3>2. CASE t # now
      BY <1>1, <1>3, <1>4, <1>5, <2>2, <3>2 DEF WasRotated, Stamps, Stamped
    <3> QED
      BY <3>1, <3>2
  <2>3. \A f \in rotated' : f.t <= now'
    BY <1>1, <1>4 DEF Stamps, Stamped
  <2> QED
    BY <2>1, <2>2, <2>3 DEF Stamped
<1>9. Ordered'
  <2>1. ASSUME NEW t \in Seconds, Exists(rot'[t]), Exists(active')
        PROVE  After(rot'[t], active')
    <3>1. rot'[t].stamp \in Int /\ rot'[t].stamp <= 2 * calls
      BY <1>1, <1>2, <1>5, <2>1 DEF Stamps, Stamped
    <3> QED
      BY <1>7, <2>1, <3>1
  <2>2. ASSUME NEW t \in Seconds, NEW u \in Seconds, Exists(rot'[t]), Exists(rot'[u]), t < u
        PROVE  After(rot'[t], rot'[u])
    <3>1. t # now
      <4>1. ASSUME t = now PROVE FALSE
        <5>1. now < u /\ u # now
          BY <1>1, <2>2, <4>1
        <5>2. u < now
          BY <1>5, <1>6, <2>2, <5>1
        <5> QED
          BY <1>1, <5>1, <5>2
      <4> QED
        BY <4>1
    <3>2. CASE u = now
      BY <1>2, <1>5, <2>2, <3>1, <3>2
    <3>3. CASE u # now
      BY <1>5, <2>2, <3>1, <3>3 DEF Stamps, Ordered
    <3> QED
      BY <3>2, <3>3
  <2> QED
    BY <2>1, <2>2 DEF Ordered, After
<1>10. Apart'
  <2>1. \A f \in rotated : f.recs \subseteq Nat
    BY DEF Types, Past
  <2>2. active.recs \subseteq Nat /\ \A c \in active.recs : c < calls
    BY DEF Types, Disk, Files, Stamps, Apart
  <2>3. active'.recs \subseteq {calls}
    OBVIOUS
  <2>4. \A f \in rotated' : \A c \in f.recs : c \in Nat /\ c < calls
    BY <1>4, <2>1, <2>2 DEF Stamps, Apart
  <2>5. \A c \in active'.recs : c < calls'
    BY <1>1, <2>3
  <2>6. \A f \in rotated' : \A c \in f.recs : c < calls' /\ c \notin active'.recs
    <3> SUFFICES ASSUME NEW f \in rotated', NEW c \in f.recs
                 PROVE  c < calls' /\ c # calls
      BY <2>3
    <3>1. c \in Nat /\ c < calls
      BY <2>4
    <3> QED
      BY <1>1, <3>1
  <2>7. \A f, g \in rotated' : f.recs \cap g.recs # {} => f.t = g.t
    BY <1>4 DEF Stamps, Apart
  <2>8. IsFiniteSet(rotated')
    BY <1>4, FS_AddElement DEF Stamps, Apart
  <2> QED
    BY <2>5, <2>6, <2>7, <2>8 DEF Apart
<1> QED
  BY <1>8, <1>9, <1>10 DEF Stamps

LEMMA StampsInductive ==
    ASSUME SameSecond = FALSE, Types, Kept, Stamps, [Next]_vars
    PROVE  Stamps'
<1>0. opened \in Files
  BY Opened
<1>1. ASSUME NEW n \in Lengths, NEW k \in 0..n, WriteAppend(n, k) PROVE Stamps'
  <2>1. FileWrite(opened, sizeNow, n, k) /\ calls' = calls + 1 /\ UNCHANGED <<rot, rotated, now>>
    BY <1>1 DEF WriteAppend, Call
  <2>2. \/ active' = opened
        \/ active'.recs = opened.recs \cup {calls} /\ active'.stamp = 2 * calls + 1
    BY <1>0, <2>1, WriteStamps
  <2> QED
    BY <2>1, <2>2, StampsByWriting
<1>2. ASSUME NEW n \in Lengths, NEW k \in 0..n, WriteRotate(n, k) PROVE Stamps'
  <2>1. /\ FileWrite(NewFile(0), 0, n, k) /\ calls' = calls + 1 /\ now' = now
        /\ RenameActive
    BY <1>2 DEF WriteRotate, Call
  <2>2. NewFile(0).recs = {} /\ NewFile(0).stamp = 2 * calls
    BY DEF NewFile
  <2>3. PICK f \in Files : f = NewFile(0)
    BY NewFileTypes, FileWriterAssumption DEF Types
  <2>4. FileWrite(f, 0, n, k)
    BY <2>1, <2>3
  <2>5. \/ active' = f
        \/ active'.recs = f.recs \cup {calls} /\ active'.stamp = 2 * calls + 1
    BY <2>4, WriteStamps
  <2>6. \/ active'.recs = {} /\ active'.stamp = 2 * calls
        \/ active'.recs = {calls} /\ active'.stamp = 2 * calls + 1
    BY <2>2, <2>3, <2>5
  <2> QED
    BY <2>1, <2>6, StampsByRotating
<1>3. ASSUME NEW n \in Lengths, WriteReopenFails(n) PROVE Stamps'
  <2>1. RenameActive /\ active' = NoFile /\ calls' = calls + 1 /\ now' = now
    BY <1>3 DEF WriteReopenFails, Call
  <2>2. ~Exists(active') /\ active'.recs = {}
    BY <2>1 DEF NoFile
  <2> QED
    BY <2>1, <2>2, StampsByRotating
<1>4. ASSUME (\E n \in Lengths : WriteRotateFails(n)) \/ Restart PROVE Stamps'
  <2>1. /\ active' = opened /\ UNCHANGED <<rot, rotated, now>>
        /\ calls' = calls \/ calls' = calls + 1
    BY <1>4 DEF WriteRotateFails, Restart, Call
  <2> QED
    BY <2>1, StampsByWriting
<1>5. ASSUME WriteOpenFails \/ WriteClosed \/ Close \/ Tick \/ UNCHANGED vars PROVE Stamps'
  <2>1. /\ UNCHANGED <<active, rot, rotated>>
        /\ calls' = calls \/ calls' = calls + 1
        /\ now' = now \/ now' = now + 1
    BY <1>5 DEF WriteOpenFails, WriteClosed, Close, Tick, Call
  <2> QED
    BY <2>1, StampsByRemoving
<1>6. ASSUME NEW j \in compressing, CompressStep(j) PROVE Stamps'
  <2>1. UNCHANGED <<active, rotated, calls, now>>
    BY <1>6 DEF CompressStep, CompressOpen, CompressCreate, CompressWrite, CompressRemove,
       CompressFails, CompressFrame
  <2>2. rot' = rot \/ rot' = [rot EXCEPT ![j.t] = NoFile]
    BY <1>6 DEF CompressStep, CompressOpen, CompressCreate, CompressWrite, CompressRemove,
       CompressFails, OriginalKept
  <2>3. \A t \in Seconds : rot'[t] = rot[t] \/ rot'[t] = NoFile
    BY <2>2 DEF Types, Disk
  <2> QED
    BY <2>1, <2>3, StampsByRemoving
<1>7. ASSUME NEW j \in cleaning, CleanupStep(j) PROVE Stamps'
  <2>1. UNCHANGED <<active, rotated, calls, now>>
    BY <1>7 DEF CleanupStep, CleanupGlob, CleanupStat, CleanupReturn, CleanupRemoveAged,
       CleanupRemoveExcess, CleanupFrame
  <2>2. rot' = rot \/ \E f : rot' = [rot EXCEPT ![f[2]] = NoFile]
    BY <1>7 DEF CleanupStep, CleanupGlob, CleanupStat, CleanupReturn, CleanupRemoveAged,
       CleanupRemoveExcess, Remove
  <2>3. \A t \in Seconds : rot'[t] = rot[t] \/ rot'[t] = NoFile
    BY <2>2 DEF Types, Disk
  <2> QED
    BY <2>1, <2>3, StampsByRemoving
<1> QED
  BY <1>1, <1>2, <1>3, <1>4, <1>5, <1>6, <1>7 DEF Next, Write

LaterThan(t) == {g \in rotated : g.t > t}
Enough(t) == Cardinality(LaterThan(t)) >= MaxBackups

\* What has been trimmed, and what a goroutine has chosen to trim, comes before
\* maxBackups later rotations.
Deleted ==
    ~compress =>
       /\ \A c \in trimmed : \E f \in rotated : c \in f.recs
       /\ \A f \in rotated : f.recs \cap trimmed # {} => Enough(f.t)
       /\ \A j \in cleaning : \A f \in j.excess :
             WasRotated(f[2]) /\ (RotatedAt(f[2]) # {} => Enough(f[2]))

LEMMA EnoughGrows ==
    ASSUME rotated \subseteq rotated', IsFiniteSet(rotated'), NEW t
    PROVE  Enough(t) => Enough(t)'
<1>1. LaterThan(t) \subseteq LaterThan(t)' /\ LaterThan(t)' \subseteq rotated'
  BY DEF LaterThan
<1>2. IsFiniteSet(LaterThan(t)') /\ IsFiniteSet(LaterThan(t))
  BY <1>1, FS_Subset
<1>3. /\ Cardinality(LaterThan(t)) <= Cardinality(LaterThan(t)')
      /\ Cardinality(LaterThan(t)) \in Nat /\ Cardinality(LaterThan(t)') \in Nat
  BY <1>1, <1>2, FS_Subset, FS_CardinalityType
<1> HIDE DEF LaterThan
<1> QED
  BY <1>3, FileWriterAssumption DEF Enough

\* Steps that neither rotate nor choose or trim a file.
LEMMA DeletedByOthers ==
    ASSUME Deleted, UNCHANGED <<compress, rotated, trimmed>>,
           \A j \in cleaning' : j.excess = {} \/ \E i \in cleaning : j.excess \subseteq i.excess
    PROVE  Deleted'
<1>1. \A t : RotatedAt(t)' = RotatedAt(t) /\ WasRotated(t)' = WasRotated(t)
  BY SameRotations
<1>2. \A t : Enough(t)' = Enough(t)
  BY DEF Enough, LaterThan
<1> QED
  BY <1>1, <1>2 DEF Deleted

LEMMA DeletedByRotating ==
    ASSUME Types, Kept, Stamps, Deleted, SameSecond = FALSE, RenameActive, Stamps',
           UNCHANGED <<compress, now, trimmed>>, cleaning' \subseteq cleaning \cup {CleanupJob}
    PROVE  Deleted'
<1> SUFFICES ASSUME ~compress
             PROVE  /\ \A c \in trimmed : \E f \in rotated' : c \in f.recs
                    /\ \A f \in rotated' : f.recs \cap trimmed # {} => Enough(f.t)'
                    /\ \A j \in cleaning' : \A f \in j.excess :
                          WasRotated(f[2])' /\ (RotatedAt(f[2])' # {} => Enough(f[2])')
  BY DEF Deleted
<1> DEFINE new == [t |-> now, recs |-> opened.recs]
<1>1. new.t = now /\ new.recs = active.recs /\ rotated' = rotated \cup {new}
  BY OpenedStamps DEF RenameActive
<1> HIDE DEF new
<1>2. /\ \A t : Enough(t) => Enough(t)'
      /\ \A t : WasRotated(t) => WasRotated(t)' /\ t # now
  BY <1>1, EnoughGrows DEF Stamps, Apart, WasRotated, RenameActive
<1>3. ASSUME NEW t, WasRotated(t) PROVE RotatedAt(t)' = RotatedAt(t)
  <2>1. {f \in rotated' : f.t = t} = {f \in rotated : f.t = t}
    BY <1>1, <1>2, <1>3
  <2> QED
    BY <2>1 DEF RotatedAt
<1>4. new.recs \cap trimmed = {}
  BY <1>1 DEF Deleted, Stamps, Apart
<1>5. \A j \in cleaning' : j.excess # {} => j \in cleaning
  BY DEF CleanupJob
<1>6. \A c \in trimmed : \E f \in rotated' : c \in f.recs
  BY <1>1 DEF Deleted
<1>7. \A f \in rotated' : f.recs \cap trimmed # {} => Enough(f.t)'
  BY <1>1, <1>2, <1>4 DEF Deleted
<1>8. ASSUME NEW j \in cleaning', NEW f \in j.excess
      PROVE  WasRotated(f[2])' /\ (RotatedAt(f[2])' # {} => Enough(f[2])')
  BY <1>2, <1>3, <1>5 DEF Deleted
<1> QED
  BY <1>6, <1>7, <1>8

\* cleanup chooses the oldest files of those that are there: all that it leaves were
\* rotated later.
LEMMA Chosen ==
    ASSUME Types, Kept, Stamps, NotCompressed, ~compress, NEW logs \in SUBSET Backups,
           NEW v \in SUBSET logs, Oldest(v, logs), NEW f \in v
    PROVE  WasRotated(f[2]) /\ (RotatedAt(f[2]) # {} => Enough(f[2]))
<1> USE FileWriterAssumption
<1>1. ASSUME NEW g \in logs
      PROVE  /\ g = <<"rot", g[2]>> /\ g[2] \in Seconds /\ FileAt(g) = rot[g[2]]
             /\ Exists(rot[g[2]]) /\ WasRotated(g[2]) /\ rot[g[2]].recs = RotatedAt(g[2])
  <2>1. g \in {"rot", "gz"} \X Seconds /\ Exists(FileAt(g))
    BY DEF Backups
  <2>2. g[1] # "gz"
    BY <2>1 DEF FileAt, NotCompressed
  <2>3. g = <<"rot", g[2]>> /\ g[2] \in Seconds /\ FileAt(g) = rot[g[2]] /\ Exists(rot[g[2]])
    BY <2>1, <2>2 DEF FileAt
  <2> QED
    BY <2>3 DEF Kept, Renamed, Stamps, Stamped
<1> DEFINE t == f[2]
<1>2. t \in Seconds /\ WasRotated(t) /\ f = <<"rot", t>> /\ FileAt(f) = rot[t]
  BY <1>1
<1> SUFFICES ASSUME RotatedAt(t) # {} PROVE Enough(t)
  BY <1>2
<1> DEFINE rest == logs \ v
           later == LaterThan(t)
\* All that cleanup leaves is later, ...
<1>3. ASSUME NEW g \in rest PROVE g[2] > t
  <2>1. /\ g[2] \in Seconds /\ FileAt(g) = rot[g[2]] /\ Exists(rot[g[2]])
        /\ Exists(rot[t]) /\ rot[t].recs # {}
    BY <1>1
  <2>2. rot[t].stamp <= rot[g[2]].stamp
    BY <1>2, <2>1 DEF Oldest
  <2>3. g[2] # t
    BY <1>1, <1>2
  <2>4. ~(g[2] < t)
    <3>1. ASSUME g[2] < t PROVE FALSE
      <4>1. rot[g[2]].stamp < rot[t].stamp
        BY <1>2, <2>1, <3>1 DEF Stamps, Ordered, After
      <4>2. rot[g[2]].stamp \in Int /\ rot[t].stamp \in Int
        BY <1>2, <2>1, FileStamps
      <4> QED
        BY <2>2, <4>1, <4>2
    <3> QED
      BY <3>1
  <2>5. g[2] \in Int /\ t \in Int
    BY <1>2, <2>1, FileStamps
  <2> QED
    BY <2>3, <2>4, <2>5
\* ... there are maxBackups files of that, ...
<1>4. Cardinality(rest) = MaxBackups
  <2>1. IsFiniteSet(logs) /\ IsFiniteSet(v) /\ Cardinality(logs) \in Nat /\ Cardinality(v) \in Nat
    BY BackupsFinite
  <2>2. Cardinality(v) # 0
    BY <2>1, FS_EmptySet
  <2>3. Cardinality(v) = Cardinality(logs) - MaxBackups
    BY <2>2 DEF Oldest, ExcessOf
  <2>4. Cardinality(rest) = Cardinality(logs) - Cardinality(v)
    <3>1. logs \cap v = v
      OBVIOUS
    <3> QED
      BY <2>1, <3>1, FS_Difference
  <2> QED
    BY <2>1, <2>3, <2>4
\* ... and each was rotated at a second of its own.
<1>5. Cardinality(rest) <= Cardinality(later)
  <2> DEFINE h == [g \in rest |-> CHOOSE r \in rotated : r.t = g[2]]
  <2>1. ASSUME NEW g \in rest PROVE h[g] \in later /\ h[g].t = g[2]
    <3>1. \E r \in rotated : r.t = g[2]
      BY <1>1 DEF WasRotated
    <3>2. h[g] \in rotated /\ h[g].t = g[2]
      BY <3>1
    <3> QED
      BY <1>3, <3>2 DEF LaterThan
  <2>2. ASSUME NEW g \in rest, NEW i \in rest, h[g] = h[i] PROVE g = i
    <3>1. g[2] = i[2]
      BY <2>1, <2>2
    <3> QED
      BY <1>1, <3>1
  <2>3. h \in [rest -> later]
    BY <2>1
  <2> HIDE DEF h, rest, later
  <2>4. h \in Injection(rest, later)
    BY <2>2, <2>3 DEF Injection, IsInjective
  <2>5. IsFiniteSet(later)
    BY FS_Subset DEF later, LaterThan, Stamps, Apart
  <2> QED
    BY <2>4, <2>5, FS_Injection
<1>6. Cardinality(later) \in Nat
  BY FS_Subset, FS_CardinalityType DEF LaterThan, Stamps, Apart
<1> HIDE DEF rest, later
<1>7. Cardinality(later) >= MaxBackups
  BY <1>4, <1>5, <1>6
<1> QED
  BY <1>7 DEF Enough, later

LEMMA DeletedByCleaning ==
    ASSUME Types, Kept, Stamps, NotCompressed, Deleted, NEW j \in cleaning, CleanupStep(j)
    PROVE  Deleted'
<1>0. /\ j \in CleanupJobs /\ UNCHANGED <<compress, rotated>>
      /\ j.excess \subseteq {"rot", "gz"} \X Seconds
  BY DEF CleanupStep, CleanupGlob, CleanupStat, CleanupReturn, CleanupRemoveAged,
     CleanupRemoveExcess, CleanupFrame, Types, Jobs, CleanupJobs
<1>1. CASE CleanupGlob(j)
  <2>1. PICK k : k = [j EXCEPT !.step = "stat", !.names = Backups]
    OBVIOUS
  <2>2. k.excess = j.excess /\ cleaning' = (cleaning \ {j}) \cup {k} /\ trimmed' = trimmed
    BY <1>0, <1>1, <2>1 DEF CleanupGlob, Cleaning, CleanupJobs
  <2> QED
    BY <1>0, <2>2, DeletedByOthers
<1>2. CASE CleanupReturn(j)
  <2>1. cleaning' = cleaning \ {j} /\ trimmed' = trimmed
    BY <1>2 DEF CleanupReturn
  <2> QED
    BY <1>0, <2>1, DeletedByOthers
<1>3. ASSUME NEW f, CleanupRemoveAged(j, f) PROVE Deleted'
  <2>1. PICK k : k = [j EXCEPT !.aged = @ \ {f}]
    OBVIOUS
  <2>2. k.excess = j.excess /\ cleaning' = (cleaning \ {j}) \cup {k} /\ trimmed' = trimmed
    BY <1>0, <1>3, <2>1 DEF CleanupRemoveAged, Cleaning, CleanupJobs
  <2> QED
    BY <1>0, <2>2, DeletedByOthers
<1>4. \A t : /\ RotatedAt(t)' = RotatedAt(t) /\ WasRotated(t)' = WasRotated(t)
             /\ Enough(t)' = Enough(t)
  BY <1>0, SameRotations DEF Enough, LaterThan
<1>5. CASE CleanupStat(j)
  <2> DEFINE logs == j.names \cap Backups
  <2>1. PICK v \in SUBSET logs :
             /\ Oldest(v, logs)
             /\ Cleaning(j, [j EXCEPT !.step = "remove", !.now = 0, !.names = {},
                                      !.aged = Aged(j, logs), !.excess = v])
    BY <1>5 DEF CleanupStat
  <2>2. PICK k : k = [j EXCEPT !.step = "remove", !.now = 0, !.names = {},
                               !.aged = Aged(j, logs), !.excess = v]
    OBVIOUS
  <2>3. k.excess = v
    BY <1>0, <2>2 DEF CleanupJobs
  <2>4. cleaning' = (cleaning \ {j}) \cup {k} /\ trimmed' = trimmed
    BY <1>5, <2>1, <2>2 DEF Cleaning, CleanupStat
  <2>5. logs \in SUBSET Backups
    OBVIOUS
  <2> HIDE DEF logs
  <2>6. ~compress => \A f \in v : WasRotated(f[2]) /\ (RotatedAt(f[2]) # {} => Enough(f[2]))
    BY <2>1, <2>5, Chosen
  <2> QED
    BY <1>0, <1>4, <2>3, <2>4, <2>6 DEF Deleted
<1>6. ASSUME NEW f \in j.excess, CleanupRemoveExcess(j, f) PROVE Deleted'
  <2> SUFFICES ASSUME ~compress
               PROVE  /\ \A c \in trimmed' : \E g \in rotated : c \in g.recs
                      /\ \A g \in rotated : g.recs \cap trimmed' # {} => Enough(g.t)
                      /\ \A k \in cleaning' : \A g \in k.excess :
                            WasRotated(g[2]) /\ (RotatedAt(g[2]) # {} => Enough(g[2]))
    BY <1>0, <1>4 DEF Deleted
  <2>1. PICK k : k = [j EXCEPT !.excess = @ \ {f}]
    OBVIOUS
  <2>2. k.excess \subseteq j.excess /\ cleaning' = (cleaning \ {j}) \cup {k}
    BY <1>0, <1>6, <2>1 DEF CleanupRemoveExcess, Cleaning, CleanupJobs
  <2>3. f[2] \in Seconds /\ f[1] \in {"rot", "gz"}
    BY <1>0
  <2>4. FileAt(f).recs \subseteq RotatedAt(f[2])
    BY <2>3 DEF FileAt, Kept, Renamed, Empty, NotCompressed
  <2>5. trimmed' \subseteq trimmed \cup RotatedAt(f[2])
    BY <1>6, <2>4 DEF CleanupRemoveExcess, Holds, RotatedAt
  <2>6. RotatedAt(f[2]) # {} => Enough(f[2])
    BY <1>6 DEF Deleted
  <2>7. \A c \in trimmed' : \E g \in rotated : c \in g.recs
    BY <2>5 DEF Deleted, RotatedAt
  <2>8. ASSUME NEW g \in rotated, g.recs \cap trimmed' # {} PROVE Enough(g.t)
    <3>1. CASE g.recs \cap trimmed # {}
      BY <3>1 DEF Deleted
    <3>2. CASE g.recs \cap RotatedAt(f[2]) # {}
      <4>1. g.t = f[2]
        BY <3>2 DEF RotatedAt, Stamps, Apart
      <4> QED
        BY <2>6, <3>2, <4>1
    <3> QED
      BY <2>5, <2>8, <3>1, <3>2
  <2>9. \A i \in cleaning' : \A g \in i.excess :
            WasRotated(g[2]) /\ (RotatedAt(g[2]) # {} => Enough(g[2]))
    BY <2>2 DEF Deleted
  <2> QED
    BY <2>7, <2>8, <2>9
<1> QED
  BY <1>1, <1>2, <1>3, <1>5, <1>6 DEF CleanupStep

LEMMA DeletedInductive ==
    ASSUME SameSecond = FALSE, Types, Kept, Stamps, NotCompressed, Deleted, [Next]_vars
    PROVE  Deleted'
<1>1. Stamps'
  BY StampsInductive
<1>2. ASSUME \/ \E n \in Lengths : \E k \in 0..n : WriteAppend(n, k)
             \/ \E n \in Lengths : WriteRotateFails(n)
             \/ WriteOpenFails \/ WriteClosed \/ Close \/ Tick \/ UNCHANGED vars \/ Restart
             \/ \E j \in compressing : CompressStep(j)
      PROVE  Deleted'
  <2>1. /\ UNCHANGED <<compress, rotated, trimmed>>
        /\ cleaning' = cleaning \/ cleaning' = {}
    BY <1>2 DEF WriteAppend, WriteRotateFails, WriteOpenFails, WriteClosed, Close, Tick, Restart,
       CompressStep, CompressOpen, CompressCreate, CompressWrite, CompressRemove,
       CompressFails, CompressFrame
  <2> QED
    BY <2>1, DeletedByOthers
<1>3. ASSUME \/ \E n \in Lengths : \E k \in 0..n : WriteRotate(n, k)
             \/ \E n \in Lengths : WriteReopenFails(n)
      PROVE  Deleted'
  <2>1. /\ RenameActive /\ UNCHANGED <<compress, now, trimmed>>
        /\ cleaning' \subseteq cleaning \cup {CleanupJob}
    BY <1>3 DEF WriteRotate, WriteReopenFails
  <2> QED
    BY <1>1, <2>1, DeletedByRotating
<1> QED
  BY <1>2, <1>3, DeletedByCleaning DEF Next, Write

\* Without compression, a file that cleanup deletes by count is older than maxBackups
\* others, however late the goroutine runs.
THEOREM KeepsNewestTheorem == ASSUME SameSecond = FALSE PROVE Spec => []KeepsNewest
<1>1. Init => Kept /\ Stamps /\ NotCompressed /\ Deleted
  <2> SUFFICES ASSUME Init PROVE Stamps /\ Deleted
    BY KeptInitially, NotCompressedInitially
  <2>1. NoFile.inode = -1 /\ NewFile(0).recs = {} /\ NewFile(0).stamp = 2 * calls
    BY DEF NoFile, NewFile
  <2>2. Stamped /\ Ordered
    BY <2>1 DEF Init, Stamped, Ordered
  <2>3. Apart /\ Deleted
    BY <2>1, FS_EmptySet DEF Init, Apart, Deleted
  <2> QED
    BY <2>2, <2>3 DEF Stamps
<1>2. Types /\ Kept /\ Stamps /\ NotCompressed /\ Deleted /\ [Next]_vars
         => Kept' /\ Stamps' /\ NotCompressed' /\ Deleted'
  BY KeptInductive, StampsInductive, NotCompressedInductive, DeletedInductive
<1>3. Deleted => KeepsNewest
  BY DEF Deleted, KeepsNewest, Enough, LaterThan
<1> QED
  BY <1>1, <1>2, <1>3, TypesInitially, TypesInductive, PTL DEF Spec

================================================================================
