\* All who move the counter; at most two slots are lost.
SPECIFICATION Spec
CONSTANTS
    Runs = {r1, r2, r3}
    Creators = {"api", "scheduler", "other"}
    Limit = 1
    MaxAttempts = 2
    Reaping = TRUE
CONSTRAINT TwoMishaps
SYMMETRY RunSymmetry
INVARIANTS
    TypeOK
    NoSlotLeaks
    LimitKept
CHECK_DEADLOCK FALSE
