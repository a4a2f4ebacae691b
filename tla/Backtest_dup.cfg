SPECIFICATION BacktestSpec
CONSTANTS
    Markets = {mA}
    Quotes <- MCQuotes
    Gaps = {0, 6}
    Tolerance = 5
    Policy <- MCPolicy
    MaxSpreadBps = 5000
    InitialCapital = 1000
    MaxSnapshots = 3
INVARIANTS
    ReplayDeniesDuplicates
CHECK_DEADLOCK FALSE
