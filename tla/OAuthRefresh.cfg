SPECIFICATION Spec
CONSTANTS
    c1 = c1
    c2 = c2
    tick = tick
    test = test
    None = None
    Chats = {c1, c2}
    Background = {tick}
    Probes = {test}
    MaxTokens = 1
INVARIANTS
    StoredTokenIsNewest
    HealthyNotParked
    LockNotLeaked
