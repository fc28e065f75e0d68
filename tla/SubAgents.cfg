\* One sub-agent, two parallel calls of its parent, a waiter, and one mishap.
SPECIFICATION Spec
CONSTANTS
    Calls = {c1, c2}
    MaxCreates = 2
    MaxInputs = 1
    MaxAttempts = 2
    MaxMishaps = 1
SYMMETRY CallSymmetry
INVARIANTS
    TypeOK
    OneActiveRun
    RowMatchesRun
    InputsHaveARun
    WaiterIsWoken
    BusyIsWorkedOn
CHECK_DEADLOCK FALSE
