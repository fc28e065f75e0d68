\* agent.interactive scans an input while its own transaction is open.
SPECIFICATION FairSpec
CONSTANTS
    Keys = {k1}
    MaxAttempts = 1
    MaxEmits = 2
    Interactive = TRUE
    Forcers = {"reaper"}
PROPERTIES
    EveryRunEnds
CHECK_DEADLOCK FALSE
