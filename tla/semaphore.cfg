SPECIFICATION FairSpec
CONSTANTS
    Procs = {p1, p2, p3, p4}
    ConfigMax = 2
    Maxima = {1}
    Restarts = TRUE
INVARIANTS
    CounterIsHolders
    SlotsBounded
PROPERTIES
    SlotComesBack
