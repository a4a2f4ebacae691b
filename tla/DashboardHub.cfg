SPECIFICATION HubFairSpec
CONSTANTS
    Clients = {c1, c2}
    BroadcastCap = 1
    SendCap = 1
    MaxMsgs = 3
INVARIANTS
    ChannelDiscipline
    FeedComplete
PROPERTIES
    GapEndsFeed
    GoroutinesEnd
CHECK_DEADLOCK FALSE
