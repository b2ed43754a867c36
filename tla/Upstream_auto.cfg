SPECIFICATION FairSpec
CONSTANTS
    g1 = g1
    g2 = g2
    Gateway <- TwoGateways
    Order <- BothInTurn
    Purchase = 2
    ThresholdPct = 50
    DisconnectAfter = 2
    RenewalTicks = 1
    PaymentTicks = 1
    VerifySignature = TRUE
    ChannelCap = 1
    MaxPrice = 1
    Scenarios <- TwoAndOne
INVARIANTS
    OnePayer
    OneTracker
    ConnectPaysWhenEmpty
PROPERTY
    ServiceComesBack
CHECK_DEADLOCK FALSE
