SPECIFICATION WalletSpec
CONSTANTS
    a = a
    b = b
    c = c
    t1 = t1
    t2 = t2
    Proof <- Proofs
    Token <- Tokens
    Accepted <- AcceptedTokens
    Task <- TwoTasks
    Swaps = FALSE
    MaxRestarts = 0
    MaxCredit = 2
INVARIANT
    NoDoubleCredit
CHECK_DEADLOCK FALSE
