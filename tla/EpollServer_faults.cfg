\* Clients that leave, give up or lose acknowledgements: the loop stays sound.
SPECIFICATION Spec
CONSTANTS
    Conns = {c1, c2}
    ec = ec
    MaxEvents = 16
    PollBatch = 16
    MaxSendWr = 2
    Count <- OneEach
    LogBound = 2
    Mishaps = {"ack_lost", "leave", "give_up", "no_memory", "verbs_fail"}
INVARIANTS TypeOK NoLostWakeup ReceiveCredit NothingLeaks
SYMMETRY ConnSymmetry
