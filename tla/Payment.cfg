SPECIFICATION PaymentSpec
CONSTANTS
    a = a
    b = b
    c = c
    t1 = t1
    t2 = t2
    Proof <- Proofs
    Token <- Tokens
    Accepted <- AcceptedTokens
    Task <- TwoTasks
    Swaps = TRUE
    MaxRestarts = 2
    MaxCredit = 2
    PerSecond = 1
    PerUnit = 1
    ToleranceBps = 1000000
    MaxStreak = 3
    U64Max = 1000
    Amount = 2
    Topup = 2
    Meters = {TRUE, FALSE}
    Pace = 2
    Step = 1500
    MaxTime = 3000
    MaxUnits = 3
    MaxFailures = 1
    MaxRefusals = 1
    Grants <- SomeGrants
    Readings <- SomeReadings
    LateProgress = FALSE
    MaxNow = 3
INVARIANTS
    NoDoubleCredit
    RefusedIsSpent
    ExposureIsBounded
    CapsAreEnforced
PROPERTIES
    ServedAgain
    SplitsOnce
    LeaseEndsGrant
    JournalStands
CHECK_DEADLOCK FALSE
