\* Two workers, two jobs of one run, two leases per job.
SPECIFICATION Spec
CONSTANTS
    j1 = j1
    j2 = j2
    r1 = r1
    Jobs = {j1, j2}
    Runs = {r1}
    Workers = {w1, w2}
    RunOf <- SameRun
    NoRun = NoRun
    NoWorker = NoWorker
    DeadSession = DeadSession
    NoJob = NoJob
    MaxAttempts = 2
    HeartbeatMaxErrors = 2
INVARIANTS
    TypeOK
    OneHandlerPerRun
    OneActiveJobPerRun
    OneHolder
    DoneWasHandled
    RetryBudget
PROPERTIES
    LeaseEndsProperly
    ImplementsExclusiveExecution
SYMMETRY Interchangeable
CHECK_DEADLOCK FALSE
