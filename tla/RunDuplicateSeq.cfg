\* A run the reaper lists while another writer, a cancel or its worker, may have the row.
SPECIFICATION Spec
CONSTANTS
    Keys = {k1}
    MaxAttempts = 1
    MaxEmits = 1
    Interactive = FALSE
    Forcers = {"reaper"}
INVARIANT
    SeqUnique
CHECK_DEADLOCK FALSE
