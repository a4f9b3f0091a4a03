SPECIFICATION FairSpec
CONSTANTS
    Ids = {chat, coder}
    Pids = {m1, m2}
    Refs = {r1, r2}
    NoId = NoId
    NoPid = NoPid
    ConfigEnabled = TRUE
    Gap = 0
    MinEvict = 1
    MaxCalls = 1
    MaxGrow = 1
    ModelBytes = 2
    HighBytes = 3
INVARIANTS
    LiveIsFound
    DepthExact
    TimerChain
PROPERTIES
    DeadRowsGo
    PressureAnswered
