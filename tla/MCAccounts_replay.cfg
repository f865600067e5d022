\* A script, and a crash between its writes and the block's.
SPECIFICATION MCSpec
CONSTANTS
  n1 = n1
  n2 = n2
  alice = alice
  bob = bob
  m1 = m1
  m2 = m2
  ds = ds
  cm = cm
  coin = coin
  c1 = c1
  c2 = c2
  Kinds = {"chain"}
  Modulus = 64
  Node = {n1, n2}
  Addr = {alice, bob, m1, m2, ds, cm}
  NoAddr = NoAddr
  Ds = ds
  Cm = cm
  Miner <- MCMiner
  StartBalance <- MCBalance
  StartLock <- NoLock
  StartTokens <- MCTokens
  Txs <- CrashTxs
  Client = {}
  Request <- NoRequest
  MinAmount = 1
  MinFee = 1
  Total = 10
  Period = 2
  BlockLimit = 2
  MaxLog = 2
  Candidates = {n1}
  Crashable = {n2}
INVARIANTS
  BlocksAreAccepted
\* The run stops where the bound on the log does.
CHECK_DEADLOCK FALSE
