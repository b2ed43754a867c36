SPECIFICATION MCSpec
CONSTANTS
  Lifetime = 3
  MaxAge = 3
  Retention = 1
  Grace = 1
  Expiries = {0, 1, 4}
  MaxPass = 1
  MaxClock = 6
  AcceptedMints <- MCAccepted
  RecoveryThreshold = 3
  MaxUpDowns = 1
  MaxTimeouts = 1
  StepSize = 30
  Metric = "milliseconds"
  OurMints = {"a", "b"}
  OurUnit = "sat"
  MaxPrice <- MCMaxPrice
  PreferredAllotment = 120
  Purses = {0, 3}
  Leases <- MCLeases
  Addresses = {"10.0.0.2", "10.0.0.4"}
  TrustProxyHeaders = TRUE
  Requests = {1, 2}
  MaxDrops = 1
  MintUrls <- MCMintUrls
  Tokens = {1}
  TestAmount = 2
  MaxQuotePolls = 2
  MaxAttempts = 3
  MaxMintings = 2
  MaxFaults = 2
  MaxRestarts = 1
INVARIANTS GrantedOnce AcceptedIsPaid OwnTokenIsAnswered OkIsMinted
PROPERTIES PaidIsGranted QuoteIsForgotten RecoveryIsEarned AdvertisementSettles
CHECK_DEADLOCK FALSE
