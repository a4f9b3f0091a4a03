SPECIFICATION Spec
CONSTANTS
    Keys = {k1}
    Namespaces = {n1}
    NsOf <- OneNamespace
    Refs = {m1, m2}
    Callers = {c1}
    Tokens = {1, 2, 3}
    Nil = Nil
    Writers = {w1}
    PinKeys = {k1}
    LiveKeys = {}
    Faults = {"slow_publish", "corruption", "tier_restart", "meta_restart"}
SYMMETRY ActorSymmetry
INVARIANTS
    TypeOK
    NoWaiterOnAvailable
    NoLeakedClaim
    AvailableIsIndexed
