SPECIFICATION Spec
CONSTANTS
    a = a
    b = b
    p = p
    q = q
    m1 = m1
    m2 = m2
    s1 = s1
    px = px
    py = py
    None = None
    Priority <- TwoAccounts
    OAuthAccounts = {a}
    Turns = {p}
    Models = {m1}
    Keys = {}
    Requests <- AllPlain
    Strategy = "none"
    ForceFallback = FALSE
    Pools = {}
    OwnPool <- NoOwnPool
    ProviderPool = None
    PoolRotation = FALSE
    FreeTier = FALSE
    Toggled = {}
    MaxCooldown = 1
PROPERTIES
    ParkedNotSelected
