SPECIFICATION FairSpec
CONSTANTS
    g1 = g1
    g2 = g2
    Gateway <- OneGateway
    Order <- Alone
    Purchase = 2
    ThresholdPct = 50
    DisconnectAfter = 2
    RenewalTicks = 1
    PaymentTicks = 1
    VerifySignature = TRUE
    ChannelCap = 1
    MaxPrice = 0
    Scenarios <- Cheap
PROPERTY
    ZeroIsNoLimit
CHECK_DEADLOCK FALSE
