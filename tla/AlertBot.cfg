SPECIFICATION AlertFairSpec
CONSTANTS
    Chats = {c1, c2}
    AllowedChats = {c1}
    Trades <- MCTrades
    Alerts <- MCAlerts
    BatchSize = 2
    Burst = 2
    ConfirmWindow = 1
    MaxEvents <- MCEvents
    MaxLostAcks = 1
    MaxCrashes = 1
    MaxCommands = 3
    MaxClock = 2
INVARIANTS
    DeliveriesConserved
    OneCallPerKill
PROPERTIES
    BatchAnnounced
CHECK_DEADLOCK FALSE
