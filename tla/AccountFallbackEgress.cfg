SPECIFICATION Spec
CONSTANTS
    a = a
    b = b
    p = p
    q = q
    m1 = m1
    m2 = m2
    s1 = s1
    px = px
    py = py
    None = None
    Priority <- TwoAccounts
    OAuthAccounts = {}
    Turns = {p}
    Models = {m1}
    Keys = {}
    Requests <- AllPlain
    Strategy = "none"
    ForceFallback = FALSE
    Pools = {px, py}
    OwnPool <- NoOwnPool
    ProviderPool = px
    PoolRotation = TRUE
    FreeTier = TRUE
    Toggled = {}
    MaxCooldown = 1
INVARIANTS
    EgressesTried
