\* Liveness: terms end until the leader stays.
SPECIFICATION FairSpec
CONSTANTS
  Node = {n1, n2}
  NoNode = NoNode
  SnapCount = 1
  BatchLimit = 1
  Peers = 1
  MaxLog = 4
  Candidates = {n1}
  Crashable = {}
  EarlySnapshot = FALSE
PROPERTIES
  EveryBlockArrives
\* The run stops where the bound on the log does.
CHECK_DEADLOCK FALSE
