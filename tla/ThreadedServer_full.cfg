\* A client that leaves between two messages keeps its slot.
SPECIFICATION Spec
CONSTANTS
    Conns = {c1, c2}
    NULL = NULL
    MaxThreads = 1
    Rounds = 2
    Mishaps = {"leave"}
INVARIANTS FullOfClients
