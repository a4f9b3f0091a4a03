SPECIFICATION Spec
CONSTANTS
    Keys = {k1}
    Namespaces = {n1}
    NsOf <- OneNamespace
    Refs = {m1, m2}
    Callers = {c1}
    Tokens = {1, 2, 3, 4}
    Nil = Nil
    Writers = {w1, w2, w3}
    PinKeys = {}
    LiveKeys = {}
    Faults = {}
SYMMETRY ActorSymmetry
INVARIANTS
    AvailableHasFile
    RefcountIsHolders
    LinkUnderAuthority
PROPERTIES
    HeldRowStays
    ImplementsCache
