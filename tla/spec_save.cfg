SPECIFICATION Spec
CONSTANTS
    NSeqMax = 2
    Tokens = {1}
    Prompts <- MCPrompts
    Tails <- MCTails
    Kinds = {"spec"}
    Sessions = {}
    NoSession = NoSession
    Budget = 3
    MinTokens = 1
    Boundary = 2
    Interval = 1
    Target = 3
    MaxDraft = 1
    MaxReqs = 2
    Risky = {}
CHECK_DEADLOCK FALSE
INVARIANT
    SavedKvMatchesKey
