\* Snapshots of two entries: one node crashes, both can lead.
SPECIFICATION Spec
CONSTANTS
  Node = {n1, n2}
  NoNode = NoNode
  SnapCount = 2
  BatchLimit = 2
  Peers = 1
  MaxLog = 4
  Candidates = {n1, n2}
  Crashable = {n2}
  EarlySnapshot = FALSE
INVARIANTS
  Inv
  NoMissingIncrement
  ServesEveryIncrement
\* The run stops where the bound on the log does.
CHECK_DEADLOCK FALSE
