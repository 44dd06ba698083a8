SPECIFICATION ServicesSpec
CONSTANTS
    root = root
    other = other
    spare = spare
    x = x
    y = y
    free = free
    a = a
    b = b
    fast = fast
    slow = slow
    None = None
    Nobody = Nobody
    c1 = c1
    c2 = c2
    r3 = r3
    Requests = {r1, r2, r3}
    FailureThreshold = 2
    ResetTimeout = 1
    HalfOpenRequests = 2
    MaxBackoffMultiplier = 2
    BackoffEscalationCount = 1
    CycleCap = 1
    Priority <- BothAccounts
    SpentAccounts = {}
    MaxCooldown = 1
    Combos = {root, other, spare}
    Root = root
    ModelsOf <- Chains
    Ranked = {}
    Fallbacks <- Cyclic
    Timed = {root}
    AccountsOf <- Shares
    NoAuth = {free}
    Nodes = {y}
    Shared = {a}
    ForceFallback = FALSE
    Answers = {"guardrail", "quota", "refused"}
    Hints = {1}
    MaxTries = 10
    Callers = {q1, q2}
    Capped = {fast, slow}
    BudgetCalls <- Ceilings
    BudgetWindow <- Windows
    Uncounted = Uncounted
    Panel = {m1, m2, m3}
    MinPanel = 2
    Attempts = {a1, a2}
    Sizes = {1, 2, 4}
    TPM = 4
    Rate = 1
    Slots = 1
    MaxTicks = 4
    gpt = gpt
    Candidates <- OneModel
    Threshold = 2
    OnlyFailed = TRUE
    MaxRestarts = 1
    t1 = t1
    px = px
    Scripts <- Replies
    Readers = {TRUE, FALSE}
INVARIANTS
    ProbesBounded
    ExpiredStaysSilent
    ErrorMeansExhausted
    
    OvershootBounded
    
    PanelAccounted
    DisabledHasOwner
    WaitsAreWatched
PROPERTIES
    BreakerNotStuck
    OutagesEnd
    LoopUsesBreaker
    NoResend
    VetoEndsCombo
    TurnEnds
    SpendKept
    ScopeIsSlotPool
    FusionEnds
    ChangesEarned
    ModelsGivenBack
    FailoverEnds
    NothingAfterTerminal
    RelayEnds
