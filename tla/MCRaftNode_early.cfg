\* A snapshot reaches a restarted node before its first Ready.
SPECIFICATION Spec
CONSTANTS
  Node = {n1, n2}
  NoNode = NoNode
  SnapCount = 2
  BatchLimit = 2
  Peers = 1
  MaxLog = 5
  Candidates = {n1}
  Crashable = {n2}
  EarlySnapshot = TRUE
INVARIANTS
  NoMissingIncrement
\* The run stops where the bound on the log does.
CHECK_DEADLOCK FALSE
