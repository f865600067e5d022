\* More entries in a Ready than an increment has, snapshots that reach a
\* node before its first Ready: what still holds.
SPECIFICATION Spec
CONSTANTS
  Node = {n1, n2}
  NoNode = NoNode
  SnapCount = 1
  BatchLimit = 2
  Peers = 1
  MaxLog = 4
  Candidates = {n1}
  Crashable = {n2}
  EarlySnapshot = TRUE
INVARIANTS
  ChainFollowsLog
\* The run stops where the bound on the log does.
CHECK_DEADLOCK FALSE
