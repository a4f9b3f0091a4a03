SPECIFICATION FairSpec
CONSTANTS
    c1 = c1
    c2 = c2
    c3 = c3
    c4 = c4
    s1 = s1
    s2 = s2
    Clients = {c1, c2, c3}
    Sessions = {s1, s2}
    NoSession = NoSession
    NoSeq = NoSeq
    NoClient = NoClient
    Kind <- RivalKind
    Session <- RivalSession
    OnFull = {}
    NSeqMax = 2
    Budget = 3
    ChunkSize = 1
    PromptMax = 2
    RespMax = 2
    MaxTicks = 2
    SerialFirstTurns = TRUE
PROPERTIES
    EveryCallAnswered
