\* One worker that may crash; a job with a run and one of another type.
SPECIFICATION FairSpec
CONSTANTS
    j1 = j1
    j2 = j2
    r1 = r1
    Jobs = {j1, j2}
    Runs = {r1}
    Workers = {w1}
    RunOf <- Mixed
    NoRun = NoRun
    NoWorker = NoWorker
    DeadSession = DeadSession
    NoJob = NoJob
    MaxAttempts = 2
    HeartbeatMaxErrors = 2
PROPERTIES
    EveryJobSettles
    LockReleased
CHECK_DEADLOCK FALSE
