SPECIFICATION BacktestSpec
CONSTANTS
    Markets = {mA, mB}
    Quotes <- MCQuotes
    Gaps = {0, 5, 60}
    Tolerance = 5
    Policy <- MCPolicy
    MaxSpreadBps = 5000
    InitialCapital = 1000
    MaxSnapshots = 4
INVARIANTS
    TicksWithinTolerance
    DrawdownEndsTrading
    TradesPerMinute
SYMMETRY MarketSymmetry
CHECK_DEADLOCK FALSE
