\* Every mishap: clients that leave, failing calls, addresses used again.
SPECIFICATION FairSpec
CONSTANTS
    Conns = {c1, c2}
    NULL = NULL
    MaxThreads = 2
    Rounds = 1
    Mishaps = {"leave", "give_up", "rtu_lost", "no_thread", "verbs_fail", "reuse"}
INVARIANTS TypeOK OwnId EventIdAlive OnlyChannelLeaks
PROPERTIES SlotsKept EchoReturns
CHECK_DEADLOCK FALSE
