SPECIFICATION Spec
CONSTANTS
    c1 = c1
    c2 = c2
    c3 = c3
    c4 = c4
    s1 = s1
    s2 = s2
    Clients = {c1, c2, c3, c4}
    Sessions = {s1, s2}
    NoSession = NoSession
    NoSeq = NoSeq
    NoClient = NoClient
    Kind <- MixedKind
    Session <- MixedSession
    OnFull = {c4}
    NSeqMax = 2
    Budget = 2
    ChunkSize = 2
    PromptMax = 2
    RespMax = 3
    MaxTicks = 3
    SerialFirstTurns = TRUE
INVARIANTS
    TypeOK
    SeqOwnedOnce
    NoSeqLost
    CallersTracked
    InflightExact
    NoStalledWork
PROPERTIES
    BatchWithinBudget
