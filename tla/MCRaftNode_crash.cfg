\* Crashes of both nodes, an increment per entry.
SPECIFICATION Spec
CONSTANTS
  Node = {n1, n2}
  NoNode = NoNode
  SnapCount = 1
  BatchLimit = 1
  Peers = 1
  MaxLog = 4
  Candidates = {n1, n2}
  Crashable = {n1, n2}
  EarlySnapshot = FALSE
SYMMETRY Symmetry
INVARIANTS
  TypeOK
  ReplicasAgree
  NoHeightGap
  DatabaseHoldsWalCommit
PROPERTIES
  CommitIndexAdvances
  ImplementsLedger
\* The run stops where the bound on the log does.
CHECK_DEADLOCK FALSE
