\* One run with an answer of two segments, each of two messages, one attempt that
\* fails with a notice, two drain loops, two delivery attempts and two mishaps.
SPECIFICATION FairSpec
CONSTANTS
    Inline = "inline"
    Drainers = {"d1", "d2"}
    Segments = 2
    Parts = 2
    OutboxMaxAttempts = 2
    MaxNotices = 1
    MaxMishaps = 2
INVARIANTS
    TypeOK
    SentIsDelivered
    DeadWasTried
    CopiesHaveCauses
PROPERTY RowsSettle
CHECK_DEADLOCK FALSE
