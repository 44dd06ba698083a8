SPECIFICATION LimitersSpec
CONSTANTS
    k1 = k1  k2 = k2  r1 = r1  r2 = r2  r3 = r3  r4 = r4
    b1 = b1  g1 = g1  g2 = g2  g3 = g3  g4 = g4  None = None
    Keys = {k1, k2}
    Requests = {r1, r2, r3, r4}
    KeyOf <- MCKeyOf
    Rpm <- MCRpm
    Conc <- MCConc
    CanWait = {r1, r2, r3, r4}
    RpmCeiling <- MCRpmCeiling
    ConcCeiling <- MCConcCeiling
    Window = 2
    MaxKeys = 3
    MaxQueueDepth = 1
    Callers = {r1, r2, r3}
    Blockers = {b1}
    Gates = {g1, g2, g3, g4}
    MaxConcurrency = 1
    DefaultConcurrency = 2
    MaxQueueSize = 2
    OperatorResets = TRUE
INVARIANTS
    SlotAccounting
    RpmRespected
    NoLostWakeup
    EvictionSparesBusyKeys
    RunningIsHolders
    NoneStranded
PROPERTIES
    GateIsSlotPool
