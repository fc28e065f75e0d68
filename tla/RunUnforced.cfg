\* No forced termination: every writer takes the row lock first.
SPECIFICATION StreamSpec
CONSTANTS
    Keys = {k1}
    MaxAttempts = 2
    MaxEmits = 2
    Interactive = TRUE
    Forcers = {}
INVARIANTS
    SeqUnique
    NoEventSkipped
    SingleTerminal
PROPERTIES
    StreamCatchesUp
CHECK_DEADLOCK FALSE
