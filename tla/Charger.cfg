SPECIFICATION MCSpec
CONSTANTS
    Deposit = 5
    MaxSeconds = 2
    MaxCost = 4
    ExpiresAt = 2500
    PerSecondMillis = 3
    StepMs = 500
    MaxNow = 2500
    MaxCrashes = 1
    MaxRedeliveries = 1
    MaxOrders = 2
    Rate = 2
    LeaseMs = 3000
    ExtStepMs = 1000
    ExtMaxNow = 5000
    ExtMaxCrashes = 2
INVARIANTS
    PaidTimeWasServed
    NoDeliveryAfterSettlement
    PaysTheMeter
PROPERTIES
    FrozenAfterStop
    BothSplitOnce
    BothSettle
CHECK_DEADLOCK FALSE
