SPECIFICATION Spec
CONSTANTS
    c1 = c1
    c2 = c2
    c3 = c3
    c4 = c4
    s1 = s1
    s2 = s2
    Clients = {c1, c2}
    Sessions = {s1}
    NoSession = NoSession
    NoSeq = NoSeq
    NoClient = NoClient
    Kind <- SharedKind
    Session <- SharedSession
    OnFull = {}
    NSeqMax = 2
    Budget = 3
    ChunkSize = 2
    PromptMax = 1
    RespMax = 1
    MaxTicks = 3
    SerialFirstTurns = FALSE
INVARIANTS
    OneRequestPerSession
