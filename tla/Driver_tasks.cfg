SPECIFICATION FairSpec
CONSTANTS
    h1 = h1
    h2 = h2
    ip1 = ip1
    Meter = meter
    Reaper = reaper
    Http <- TwoRequests
    IP <- OneAddress
    Amount = 2
    Reaps = TRUE
    MaxRequests = 2
    MaxUnits = 2
    MaxMisreads = 1
    PerSecond = 0
    PerUnit = 1
    ToleranceBps = 500
    MaxStreak = 2
    U64Max = 100
INVARIANTS
    TokensAreCredited
    ChargedForTraffic
PROPERTY
    IdleIsForgotten
CHECK_DEADLOCK FALSE
