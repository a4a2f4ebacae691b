SPECIFICATION HpFairSpec
CONSTANTS
    Scopes = {"global"}
    Callers = {monitor, c1}
    Monitor = monitor
    KsDbFaults = FALSE
    Cli = FALSE
    MaxTriggers = 1
    MaxRows = 1
    MaxRestarts = 1
    MaxExecRestarts = 1
    MaxRiskRestarts = 1
    Approvals = {a1}
PROPERTIES
    HaltReachesExec
    HaltReachesRisk
CHECK_DEADLOCK FALSE
