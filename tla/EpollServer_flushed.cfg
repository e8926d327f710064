\* A client that leaves before its echo.
SPECIFICATION Spec
CONSTANTS
    Conns = {c1}
    ec = ec
    MaxEvents = 16
    PollBatch = 16
    MaxSendWr = 10
    Count <- OneEach
    LogBound = 2
    Mishaps = {"leave"}
INVARIANTS OnlyReceived
