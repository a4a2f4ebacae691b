SPECIFICATION Spec
CONSTANTS
    t1 = t1
    t2 = t2
    kA = kA
    NoTrace = NoTrace
    Traces = {t1, t2}
    Clients = {c1, c2}
    Keys = {kA}
    Key <- MCKey
    Quantity <- MCUnit
    Notional <- MCUnit
    MaxPosition = 0
    MaxTotal = 0
    DbFaults = FALSE
    MaxVersion = 2
    Approved = {t1, t2}
    Cancels = {"cancel"}
    Modes = {}
    RemoteFaults = FALSE
    MaxCrashes = 0
    MaxOrders = 2
INVARIANTS
    TypeOK
    QuiescentAgreement
    LiveImpliesOutstanding
    LoadedImpliesOutstanding
    CancelledIsDead
    FillsBookedOnce
PROPERTIES
    RowsFollowLifecycle
    FillsGoToTheirOrder
SYMMETRY ClientSymmetry
CHECK_DEADLOCK FALSE
