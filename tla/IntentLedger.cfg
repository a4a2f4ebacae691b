SPECIFICATION LedgerSpec
CONSTANTS
    t1 = t1
    t2 = t2
    t3 = t3
    kA = kA
    kB = kB
    NoTrace = NoTrace
    Traces = {t1, t2, t3}
    Clients = {c1, c2}
    Keys = {kA, kB}
    Key <- MCKey
    Quantity <- MCQuantity
    Notional <- MCNotional
    MaxPosition = 4
    MaxTotal = 5
    DbFaults = TRUE
    MaxVersion = 3
INVARIANTS
    VersionOrder
    ReplayMatchesQuery
    RemovalMatchesReplay
    OvershootBound
PROPERTIES
    ImplementsLifecycle
    RowsPermanent
CHECK_DEADLOCK FALSE
SYMMETRY ClientSymmetry
