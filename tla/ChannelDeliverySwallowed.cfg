\* An attempt that fails with a notice and a retry that completes, nothing else
\* goes wrong.
SPECIFICATION Spec
CONSTANTS
    Inline = "inline"
    Drainers = {"d1"}
    Segments = 2
    Parts = 1
    OutboxMaxAttempts = 2
    MaxNotices = 1
    MaxMishaps = 0
INVARIANT AnswerIsDelivered
CHECK_DEADLOCK FALSE
