\* The whole lifecycle: retries, cancels, inputs, scans, the reaper, a supersede.
SPECIFICATION FairSpec
CONSTANTS
    Keys = {k1}
    MaxAttempts = 2
    MaxEmits = 2
    Interactive = TRUE
    Forcers = {"reaper", "superseder"}
INVARIANTS
    TypeOK
    Gapless
    WorkStopsAtCancel
    InputsAcceptedOnce
    StatusMatchesLog
PROPERTIES
    EndedStaysEnded
    EndsOrStuck
CHECK_DEADLOCK FALSE
