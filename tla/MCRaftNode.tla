----------------------------- MODULE MCRaftNode -----------------------------
(***************************************************************************)
(* Instances of RaftNode for TLC.                                          *)
(***************************************************************************)
EXTENDS RaftNodeInv, TLC

\* Nodes are interchangeable in the safety runs.
Symmetry == Permutations(Node)
=============================================================================
