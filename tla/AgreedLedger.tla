---------------------------- MODULE AgreedLedger ----------------------------
(***************************************************************************)
(* What the replicated block chain promises, without raft, logs, snapshots *)
(* or crashes: there is one ledger that only grows, and every node holds a *)
(* copy of some prefix of it which it extends one block at a time.  A copy *)
(* never shrinks and never holds a block the ledger does not have.         *)
(***************************************************************************)
EXTENDS Naturals, Sequences

CONSTANTS Node,    \* the members of the cluster
          Block    \* what tells two blocks apart

VARIABLES ledger,  \* the agreed chain
          copy     \* copy[n]: the chain in the data base of node n

ledgerVars == <<ledger, copy>>

LedgerInit == /\ ledger = <<>>
              /\ copy = [n \in Node |-> <<>>]

\* The cluster agrees on the next block.
Agree(b) == /\ ledger' = Append(ledger, b)
            /\ UNCHANGED copy

\* A node takes the next block of the ledger over into its copy.
Deliver(n) == /\ Len(copy[n]) < Len(ledger)
              /\ copy' = [copy EXCEPT ![n] = Append(@, ledger[Len(@) + 1])]
              /\ UNCHANGED ledger

LedgerNext == \/ \E b \in Block : Agree(b)
              \/ \E n \in Node : Deliver(n)

LedgerSpec == LedgerInit /\ [][LedgerNext]_ledgerVars
=============================================================================
