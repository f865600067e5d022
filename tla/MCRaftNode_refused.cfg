\* A crash in the middle of a recovery.
SPECIFICATION Spec
CONSTANTS
  Node = {n1, n2}
  NoNode = NoNode
  SnapCount = 1
  BatchLimit = 1
  Peers = 1
  MaxLog = 4
  Candidates = {n1, n2}
  Crashable = {n1, n2}
  EarlySnapshot = FALSE
INVARIANTS
  NodesRestart
\* The run stops where the bound on the log does.
CHECK_DEADLOCK FALSE
