SPECIFICATION Spec
CONSTANTS
    h1 = h1
    h2 = h2
    ip1 = ip1
    Meter = meter
    Reaper = reaper
    Http <- OneRequest
    IP <- OneAddress
    Amount = 2
    Reaps = FALSE
    MaxRequests = 2
    MaxUnits = 2
    MaxMisreads = 1
    PerSecond = 0
    PerUnit = 1
    ToleranceBps = 500
    MaxStreak = 2
    U64Max = 100
INVARIANT
    ActiveIsServed
CHECK_DEADLOCK FALSE
