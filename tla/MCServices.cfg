SPECIFICATION MCSpec
CONSTANTS
    Clients = {c1, c2}
    Names = {n1}
    Values = {v1, v2}
    Scores <- MCScores
    Indexes <- MCIndexes
    Requests <- MCRequests
    InPieces <- MCInPieces
    NotExist = NotExist
    OutOfSize = OutOfSize
    Gone = Gone
    NoRequest = NoRequest
    MaxOps = 2
    Budget = 4
    MaxSent = 2
    Readers = {r1}
    Txs = {t1, t2}
    Sender <- MCSender
    Receiver <- MCReceiver
    PageSizes = {1, 2}
    Idle = Idle
    MaxBlocks = 2
    MaxRequests = 2
    First = N1
    Second = N2
    Nodes = {N1, N2, N3}
    Payments <- MCPayments
    SenderOf <- MCSenderOf
    NonceOf <- MCNonceOf
    ReceiverOf <- MCReceiverOf
    FormOf <- MCFormOf
    Doubtful <- MCScripts
    Scripts <- MCScripts
    PoolSize = 3
    PerSender = 3
    Totalquantity = 3
    Lifetime = 1
    MaxClock = 1
    MaxPacked = 2
    Garbage = Garbage
    MaxNet = 2
    MaxEvents = 4
    Callers = {g1, g2}
    Ips = {i1, i2}
    whiteListIPs = {}
    Burst = 1
    cacheSize = 1
    NoIp = NoIp
    MaxMade = 4
    MaxSeconds = 1
    Peer1 = p1
    Peer2 = p2
    Configured <- MCConfigured
    NewPeers = {p3, p4}
    NewIds = {3, 4}
    MaxChanges = 3
    MaxLeaves = 10
    Kinds = {"plain", "map", "set", "list", "score", "commands", "queue", "chain",
             "pool", "pools", "gossip", "limiter", "members", "merkle"}
SYMMETRY Alike
INVARIANTS
  ListsAreWhole
  RangeFindsMembers
  EveryElementServedOnce
  AnswersInOrder
  ExplorerShowsLatest
  PagesLeaveNoGap
  SectionsAreChained
  TxIndexesAgree
  BlocksHoldRuns
  BlocksVerify
  BurstIsBounded
  PeersFollowChanges
  VerifyFindsLeaves
PROPERTIES
  ImplementsCollections
  AnnouncedUntilReceived
CHECK_DEADLOCK FALSE
