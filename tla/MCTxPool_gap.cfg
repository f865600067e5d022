SPECIFICATION PoolSpec
CONSTANTS
    Nodes = {N1}
    Payments <- MCPayments
    SenderOf <- MCSenderOf
    NonceOf <- MCNonceOf
    Doubtful = {}
    Scripts = {}
    PoolSize = 4
    PerSender = 2
    Totalquantity = 4
    Lifetime = 1
    MaxClock = 1
    MaxPacked = 1
INVARIANTS
  NextNonceIsUsed
CHECK_DEADLOCK FALSE
