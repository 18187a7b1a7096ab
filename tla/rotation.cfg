\* Rotation with compression and cleanup, failing system calls and a restart,
\* at most one rotation a second.
SPECIFICATION Spec
CONSTANTS
    MaxSize = 3
    MaxAge = 1
    MaxBackups = 1
    Lengths = {2}
    SameSecond = FALSE
    MaxTime = 2
    MaxCalls = 4
    MaxFaults = 1
    MaxJobs = 1
INVARIANTS SizeTracked SizeLimit NothingLost KeepsNewest BackupsBounded
CHECK_DEADLOCK FALSE
