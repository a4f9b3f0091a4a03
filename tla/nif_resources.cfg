SPECIFICATION FairSpec
CONSTANTS
    a1 = a1
    a2 = a2
    Threads = {t1, t2}
    Contexts = {c1}
    Adapters = {a1, a2}
    Projectors = {p1}
    Samplers = {s1}
    Loaded = {c1, p1}
    Addr <- AddrOrder
    AdaptersInTurn = TRUE
    MaxCalls = 2
    Nobody = Nobody
CHECK_DEADLOCK FALSE
INVARIANTS
    UsedIsLive
    BorrowerHasModel
    CountsExact
    PendingHasBorrower
    InterruptIsOwn
PROPERTIES
    CallsReturn
