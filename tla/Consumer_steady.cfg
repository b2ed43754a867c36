SPECIFICATION SteadySpec
CONSTANTS
    PerSecond = 0
    PerUnit = 1
    ToleranceBps = 1000000
    MaxStreak = 3
    U64Max = 1000
    Amount = 5
    Topup = 5
    Meters = {FALSE}
    Pace = 1
    Step = 0
    MaxTime = 0
    MaxUnits = 20
    MaxFailures = 0
    MaxRefusals = 0
INVARIANTS
    SteadySessionNeverDrops
CHECK_DEADLOCK FALSE
