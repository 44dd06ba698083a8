SPECIFICATION Spec
CONSTANTS
    c1 = c1
    c2 = c2
    tick = tick
    test = test
    None = None
    Chats = {c1}
    Background = {tick}
    Probes = {test}
    MaxTokens = 2
INVARIANTS
    TokensSpentOnce
