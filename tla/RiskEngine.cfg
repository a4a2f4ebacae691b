SPECIFICATION RiskSpec
CONSTANTS
    s1 = s1
    mA = mA
    buy1 = buy1
    sell1 = sell1
    Strategies = {s1}
    Markets = {mA}
    Allowed = {mA}
    Signals = {buy1, sell1}
    Strategy <- MCStrategy
    Side <- MCSide
    Quantity <- MCQuantity
    Price <- MCPrice
    Market <- MCMarket
    Policy <- MCPolicy
    Minute = 2
    DupWindow = 1
    HaltModes = {"full_stop"}
    RiskDbFaults = TRUE
    MaxDelay = 0
    MaxApprovals = 3
    MaxReports = 2
    MaxTime = 2
    MaxCrashes = 1
INVARIANTS
    OrdersPerMinute
    DuplicatesApart
    AckedFillsCounted
