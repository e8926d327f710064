\* Three clients come to one server; messages are lost, clients killed and calls fail.
SPECIFICATION FairSpec
CONSTANTS
    Clients = {c1, c2, c3}
    NoClient = NoClient
    Mishaps = {"unresolved", "rep_lost", "rtu_lost", "killed", "accept_fails", "stray_wr"}
INVARIANTS TypeOK OneClientServed ServerAgrees OnlyDisturbedDies
PROPERTIES HandshakeEnds
