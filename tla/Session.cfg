SPECIFICATION Spec
CONSTANTS
    p1 = p1
    Peer <- OnePeer
    PerSecond = 2
    PerUnit = 1
    ToleranceBps = 500
    MaxStreak = 2
    U64Max = 9
    Amounts = {3, 7}
    Reports = {0, 2}
    ReadFails = TRUE
    TickMs = 700
    StepBackMs = 700
    MaxClock = 700
    MaxUnits = 1
    MaxCredit = 10
    MaxPending = 2
INVARIANTS
    MeteredUsageIsBilled
    ChargeIsFair
    AccessFollowsPhase
    NoCreditLost
PROPERTY
    NeverChargedWhileBlocked
