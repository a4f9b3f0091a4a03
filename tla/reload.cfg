SPECIFICATION FairSpec
CONSTANTS
    Ids = {chat}
    Pids = {m1, m2}
    Refs = {r1}
    NoId = NoId
    NoPid = NoPid
    ConfigEnabled = TRUE
    Gap = 0
    MinEvict = 2
    MaxCalls = 0
    MaxGrow = 0
    ModelBytes = 2
    HighBytes = 3
PROPERTY
    EndedIdIsFreed
