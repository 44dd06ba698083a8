SPECIFICATION FailoverSpec
CONSTANTS
    a = a
    b = b
    p = p
    q = q
    m1 = m1
    m2 = m2
    s1 = s1
    px = px
    py = py
    None = None
    Priority <- TwoAccounts
    OAuthAccounts = {}
    Turns = {p, q}
    Models = {m1}
    Keys = {s1}
    Requests <- PInSession
    Strategy = "round-robin"
    ForceFallback = TRUE
    Pools = {}
    OwnPool <- NoOwnPool
    ProviderPool = None
    PoolRotation = FALSE
    FreeTier = FALSE
    Toggled = {}
    MaxCooldown = 1
INVARIANTS
    NoHealthyAccountOverlooked
    DialsBounded
PROPERTIES
    AffinityKept
    NoTraceOfProbes
