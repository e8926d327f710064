\* Clients that finish, leave or give up: service, reclamation, exit.
SPECIFICATION FairSpec
CONSTANTS
    Conns = {c1, c2}
    ec = ec
    MaxEvents = 2
    PollBatch = 16
    MaxSendWr = 1
    Count <- OneAndTwo
    LogBound = 2
    Mishaps = {"leave", "give_up"}
INVARIANTS PostNeverFails
PROPERTIES EchoPerConnection EchoReturns Reclaimed SigintExits
