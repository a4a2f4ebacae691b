SPECIFICATION ExSpec
CONSTANTS
    r1 = r1
    r2 = r2
    r3 = r3
    mA = mA
    mB = mB
    Requests = {r1, r2, r3}
    Markets = {mA, mB}
    ReqMarket <- MCMarket
    ReqSide <- MCSide
    ReqQty <- MCQty
    ReqPrice <- MCPrice
    InitialBalance = 100
    Rejects = TRUE
    MaxOrders = 3
INVARIANTS
    FillAccounting
PROPERTY
    CancelIsFinal
CHECK_DEADLOCK FALSE
