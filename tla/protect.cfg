SPECIFICATION ServerSpec
CONSTANTS
    Keys = {k1, k2}
    Namespaces = {n1}
    NsOf <- OneNamespace
    Refs = {m1}
    Callers = {}
    Tokens = {1, 2}
    Nil = Nil
    Writers = {w1}
    PinKeys = {k1, k2}
    LiveKeys = {k2, Nil}
    Faults = {"slow_publish"}
INVARIANTS
    PinFlagAgrees
    PlaceholderIsReserved
PROPERTIES
    ProtectedGoLast
    ReservationEnds
