\* No loss and no faults: both programs end, and deadlock is checked.
SPECIFICATION FairSpec
CONSTANTS
    Count = 10
    QueueDepth = 10
    AcksLost = FALSE
    Faults = FALSE
INVARIANTS CompletionsInOrder
PROPERTIES AllEchoed SendBufferOwned
