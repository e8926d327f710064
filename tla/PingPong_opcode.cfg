\* An acknowledgement that arrives after the echo.
SPECIFICATION Spec
CONSTANTS
    Count = 10
    QueueDepth = 10
    AcksLost = TRUE
    Faults = FALSE
INVARIANTS CompletionsInOrder
CHECK_DEADLOCK FALSE
