SPECIFICATION Spec
CONSTANTS
    NSeqMax = 2
    Tokens = {1}
    Prompts <- MCPrompts
    Tails <- MCTails
    Kinds = {"spec", "prefill_only", "media"}
    Sessions = {A, B}
    NoSession = NoSession
    Budget = 3
    MinTokens = 1
    Boundary = 2
    Interval = 3
    Target = 3
    MaxDraft = 1
    MaxReqs = 2
    Risky = {}
SYMMETRY Symmetry
CHECK_DEADLOCK FALSE
INVARIANTS
    TypeOK
    KvMirrorsContext
    SampledFromOwnLogits
    SavedKvMatchesKey
    IdleSeqEmpty
