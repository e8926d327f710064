\* A disconnect and a completion of one connection in one batch.
SPECIFICATION Spec
CONSTANTS
    Conns = {c1}
    ec = ec
    MaxEvents = 16
    PollBatch = 16
    MaxSendWr = 10
    Count <- OneEach
    LogBound = 2
    Mishaps = {}
INVARIANTS BatchRegistered
