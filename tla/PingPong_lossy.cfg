\* Lost acknowledgements, failing calls, broken links; both programs run on.
SPECIFICATION FairSpec
CONSTANTS
    Count = 10
    QueueDepth = 10
    AcksLost = TRUE
    Faults = TRUE
INVARIANTS TypeOK ReceiveCredit QueuesFit
PROPERTIES ImplementsEcho EndsOrStranded
\* A server whose client is gone without an outstanding echo polls for ever.
CHECK_DEADLOCK FALSE
