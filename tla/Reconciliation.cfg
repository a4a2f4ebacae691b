SPECIFICATION ReconFairSpec
CONSTANTS
    t1 = t1
    kA = kA
    NoTrace = NoTrace
    Traces = {t1}
    Clients = {c1}
    Keys = {kA}
    Key <- MCKey
    Quantity <- MCUnit
    Notional <- MCUnit
    MaxPosition = 0
    MaxTotal = 0
    DbFaults = FALSE
    MaxVersion = 1
    Approved = {t1}
    Cancels = {"cancel", "cancelall"}
    Modes = {}
    RemoteFaults = FALSE
    MaxCrashes = 1
    MaxOrders = 1
INVARIANTS
    AlarmMeansUnsettledFill
PROPERTIES
    
    RegisteredFillsBooked
CHECK_DEADLOCK FALSE
