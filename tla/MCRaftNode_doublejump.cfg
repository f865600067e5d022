\* One Ready commits past two multiples of SnapCount.
SPECIFICATION Spec
CONSTANTS
  Node = {n1, n2}
  NoNode = NoNode
  SnapCount = 2
  BatchLimit = 3
  Peers = 1
  MaxLog = 5
  Candidates = {n1}
  Crashable = {}
  EarlySnapshot = FALSE
INVARIANTS
  NoHeightGap
\* The run stops where the bound on the log does.
CHECK_DEADLOCK FALSE
