----------------------------- MODULE MCAccounts -----------------------------
(***************************************************************************)
(* Instances of Accounts for TLC.  A behaviour is of one kind: a chain of   *)
(* blocks, or requests to lock while there is a block.                     *)
(***************************************************************************)
EXTENDS Accounts

CONSTANTS n1, n2, alice, bob, m1, m2, ds, cm, coin, c1, c2,
          Kinds  \* the kinds of behaviour
VARIABLE kind    \* the kind of this behaviour

MCMiner == n1 :> m1 @@ n2 :> m2
MCBalance == alice :> 4 @@ bob :> 3 @@ m1 :> 0 @@ m2 :> 0 @@ ds :> 0 @@ cm :> 0

\* alice owns a token, bob has two of it.
MCTokens == (OwnerKey(coin) :> alice) @@ (BalanceKey(coin, bob) :> 2)

Plain(from, to, amount, non) ==
  [from |-> from, to |-> to, amount |-> amount, fee |-> 0, nonce |-> non,
   script |-> <<>>, root |-> <<>>, order |-> NoAddr]
Script(from, to, fee, non, statement) ==
  [Plain(from, to, 1, non) EXCEPT !.fee = fee, !.script = <<statement>>]
Transfer(amount, to) == [name |-> "transfer", id |-> coin, amount |-> amount, addr |-> to]
Freeze(addr) == [name |-> "freeze", id |-> coin, addr |-> addr]

\* alice freezes the tokens that bob transfers.  Its second payment has a fee
\* that nobody gets, and has to wait until bob has paid something, unless
\* the first is left out.
MCTxs == {
  [Script(alice, bob, 1, 1, Freeze(bob)) EXCEPT !.order = bob],
  [Plain(alice, bob, 3, 2) EXCEPT !.fee = 1],
  Script(bob, alice, 1, 1, Transfer(1, alice))}

Ask(n, what, addr, amount) == [node |-> n, kind |-> what, addr |-> addr, amount |-> amount]
\* n1 has locked one of bob's three; then the rest is to be locked, and the
\* first to be unlocked.
MCLock == [n \in Node |-> [x \in Addr |-> IF n = n1 /\ x = bob THEN 1 ELSE 0]]
MCRequest == c1 :> Ask(n1, "lock", bob, 2) @@ c2 :> Ask(n1, "unlock", bob, 1)

\* alice, who owns 4, pays for two scripts.
FeesTxs == {Script(alice, bob, 2, 1, Freeze(bob)), Script(alice, bob, 2, 2, Freeze(m1))}
\* One transfer of tokens.
CrashTxs == {Script(bob, alice, 1, 1, Transfer(1, alice))}
NoRequest == <<>>
NoLock == [n \in Node |-> [x \in Addr |-> 0]]

NodeStep(n) ==
  \/ Pendings(n) \/ NewBlock(n) \/ Propose(n) \/ Discard(n)
  \/ SkipStaleBlock(n) \/ AcceptBlock(n) \/ FlushScript(n) \/ CommitBlock(n) \/ RefuseBlock(n)
RequestStep(c) == OpenRequest(c) \/ CheckRequest(c) \/ CommitRequest(c) \/ FailRequest(c)

\* In a chain the rest is to be locked and n2 crashes.
ChainStep ==
  \/ \E n \in Node : NodeStep(n)
  \/ Crash(n2)
  \/ \E c \in Client \ {c2} : RequestStep(c)

\* With one block, both requests come and the node they are for crashes.
LockStep ==
  /\ \/ \E n \in Node : NodeStep(n)
     \/ Crash(n1)
     \/ \E c \in Client : RequestStep(c)
  /\ Len(log') <= 1

MCInit == Init /\ kind \in Kinds
MCNext ==
  /\ \/ kind = "chain" /\ ChainStep
     \/ kind = "locks" /\ LockStep
  /\ UNCHANGED kind

MCSpec == MCInit /\ [][MCNext]_<<vars, kind>>
=============================================================================
