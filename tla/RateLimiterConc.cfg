CONSTANTS
    k1 = k1  k2 = k2  r1 = r1  r2 = r2  r3 = r3  r4 = r4
    Keys = {k1}
    Requests = {r1, r2, r3, r4}
    KeyOf <- ConcOnlyKeyOf
    Rpm <- ConcOnlyRpm
    Conc <- ConcOnlyConc
    CanWait = {r1, r2, r3, r4}
    RpmCeiling <- ConcOnlyRpmCeiling
    ConcCeiling <- ConcOnlyConcCeiling
    Window = 1
    MaxKeys = 3
    MaxQueueDepth = 3
SPECIFICATION ConcOnlySpec
PROPERTIES NoOvertakingOnConcurrency ConcurrencyWaiterServed IsSlotPool
