SPECIFICATION TurnSpec
CONSTANTS
    root = root
    x = x
    a = a
    b = b
    None = None
    Combos = {root}
    Root = root
    ModelsOf <- OneEntry
    Ranked = {}
    Fallbacks <- NoFallback
    Timed = {}
    AccountsOf <- TwoAccounts
    NoAuth = {}
    Nodes = {}
    Shared = {}
    ForceFallback = FALSE
    Answers = {"broken", "fault"}
    Hints = {0}
    MaxTries = 10
INVARIANTS
    OneCandidateAnswers
