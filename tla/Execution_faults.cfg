SPECIFICATION Spec
CONSTANTS
    t1 = t1
    t2 = t2
    kA = kA
    NoTrace = NoTrace
    Traces = {t1}
    Clients = {c1, c2}
    Keys = {kA}
    Key <- MCKey
    Quantity <- MCUnit
    Notional <- MCUnit
    MaxPosition = 0
    MaxTotal = 0
    DbFaults = TRUE
    MaxVersion = 2
    Approved = {t1}
    Cancels = {"cancelall"}
    Modes = {"cancel_only"}
    RemoteFaults = TRUE
    MaxCrashes = 1
    MaxOrders = 2
INVARIANTS
    WriteAhead
    AtMostOnePlacement
SYMMETRY ClientSymmetry
CHECK_DEADLOCK FALSE
