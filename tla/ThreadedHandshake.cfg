\* Three clients, two slots: those that give up, those that are told too late.
SPECIFICATION FairSpec
CONSTANTS
    Conns = {c1, c2, c3}
    NULL = NULL
    MaxThreads = 2
    Mishaps = {"give_up", "verbs_fail"}
PROPERTIES ImplementsPool Wakes SlotsReturn TakenDown
