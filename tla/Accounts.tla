------------------------------ MODULE Accounts ------------------------------
(***************************************************************************)
(* blockchain/blockchain.go: balances, nonces, locks and contract state of *)
(* the nodes' data bases, from the packing of a block to its commit.       *)
(*                                                                         *)
(* The log is the one RaftNode delivers.  Its entries here are the blocks, *)
(* with what AddBlock and its checks read of them.  A node reads its data  *)
(* base when it packs a block (Pendings) and again when the block is       *)
(* committed (Checkresults, VerifyBlcok, AddBlock); in between other       *)
(* blocks and lock requests come.  AddBlock writes one badger transaction, *)
(* but the scripts of the block go to the contract data base one by one    *)
(* before that.                                                            *)
(*                                                                         *)
(* A block also carries resulting balances (Calculationresults).  They are *)
(* left out: Checkresults computes them into the record it compares with.  *)
(* Its merkle root is left out as well: VerifyBlcok asks whether the root  *)
(* is one of the leaves, and it never is.                                  *)
(***************************************************************************)
EXTENDS TokenExec, Integers, FiniteSetsExt

CONSTANTS
  Node,
  Addr,
  NoAddr,         \* a transaction without a signed order
  Ds, Cm,         \* the addresses of the nodes' configuration that get rewards
  Miner,          \* rn.addr of each node
  StartBalance, StartLock, StartTokens,  \* what the data bases begin with
  Txs,            \* the transactions clients send
  Client,         \* clients that lock and unlock balances
  Request,        \* what each of them asks: [node, kind, addr, amount]
  MinAmount, MinFee,  \* 500000 in the code
  Total, Period,  \* the reward of a block and the heights it is paid for
  BlockLimit,     \* bound on the transactions of a block (Totalquantity)
  MaxLog,         \* bound on the length of the log
  Candidates,     \* the nodes that may lead and pack blocks
  Crashable       \* the nodes that may crash

ASSUME AccountsAssumption ==
  /\ NoAddr \notin Addr /\ Ds \in Addr /\ Cm \in Addr
  /\ Miner \in [Node -> Addr]
  /\ StartBalance \in [Addr -> 0 .. Modulus - 1]
  /\ StartLock \in [Node -> [Addr -> 0 .. Modulus - 1]]
  /\ Request \in [Client -> [node : Node, kind : {"lock", "unlock"},
                             addr : Addr, amount : 0 .. Modulus - 1]]
  /\ MinAmount \in Nat /\ MinFee \in Nat /\ Total \in Nat
  /\ Period \in Nat \ {0} /\ BlockLimit \in Nat /\ MaxLog \in Nat
  /\ Candidates \subseteq Node /\ Crashable \subseteq Node
  \* RecepTx and rpcclient.go refuse a transfer to oneself.  Any transaction
  \* may have a fee: only for scripts does verify look at it.
  /\ \A tx \in Txs : tx.from # tx.to
  /\ \A tx \in Txs :
       /\ DOMAIN tx = {"from", "to", "amount", "fee", "nonce", "script", "root", "order"}
       /\ tx.from \in Addr /\ tx.to \in Addr /\ tx.order \in Addr \cup {NoAddr}
       /\ tx.amount \in 0 .. Modulus - 1 /\ tx.fee \in 0 .. Modulus - 1 /\ tx.nonce \in Nat

VARIABLES
  log,       \* blocks in the order raft agreed on
  applied,   \* entries a node has handled
  height,    \* height of the data base, above the start
  balance, nonce, lock,  \* of each address in a node's data base
  cdb,       \* the node's contract data base
  flushing,  \* AddBlock's next script, 0 outside of AddBlock
  packing,   \* the block packBlock is working on
  request    \* progress of the clients' requests

chain == <<height, balance, nonce, lock, cdb>>
vars == <<log, applied, chain, flushing, packing, request>>

\* uint64 arithmetic, and the conversion to int64.
Plus(x, y) == (x + y) % Modulus
Minus(x, y) == (x + Modulus - y) % Modulus
Signed(x) == IF 2 * x >= Modulus THEN x - Modulus ELSE x

Idle == [stage |-> "idle"]
\* A request without a transaction open.
Closed(stage) == [stage |-> stage, balance |-> 0, value |-> 0, conflict |-> FALSE]

Init ==
  /\ log = <<>>
  /\ applied = [n \in Node |-> 0] /\ height = [n \in Node |-> 0]
  /\ balance = [n \in Node |-> StartBalance]
  /\ nonce = [n \in Node |-> [a \in Addr |-> 1]]
  /\ lock = StartLock
  /\ cdb = [n \in Node |-> StartTokens]
  /\ flushing = [n \in Node |-> 0]
  /\ packing = [n \in Node |-> Idle] /\ request = [c \in Client |-> Closed("new")]

(***************************************************************************)
(* Checks of a transaction and rewards of a block.                         *)
(***************************************************************************)

\* A changed verify that takes any nonce.
VerifyAnyNonce(bal, non, lck, tx) ==
  LET unlocked == Minus(bal[tx.from], lck[tx.from])
  IN /\ unlocked >= tx.amount
     /\ tx.script # <<>> => tx.fee >= MinFee /\ tx.fee <= unlocked
     /\ tx.amount >= MinAmount /\ tx.amount <= bal[tx.from]

\* txpool.verify; balances that are locked cannot be spent.
Verify(bal, non, lck, tx) ==
  LET unlocked == Minus(bal[tx.from], lck[tx.from])
  IN /\ tx.nonce >= non[tx.from]
     /\ unlocked >= tx.amount
     /\ tx.script # <<>> => tx.fee >= MinFee /\ tx.fee <= unlocked
     /\ tx.amount >= MinAmount /\ tx.amount <= bal[tx.from]

\* Clients send everything early: the pool has passes at the start.
Pool == {tx \in Txs : Verify(StartBalance, [a \in Addr |-> 1], [a \in Addr |-> 0], tx)}

\* The reward falls by a fifth every Period heights.
RewardAfter[x \in Nat] == IF x = 0 THEN Total ELSE (RewardAfter[x - 1] * 8) \div 10

\* Who signed the orders that came with transactions.
Orders(txs) ==
  FoldLeft(LAMBDA signers, tx : IF tx.order = NoAddr THEN signers ELSE Append(signers, tx.order),
           <<>>, txs)

\* Distr: what a block pays to whom.
Distr(txs, miner, h) ==
  LET reward == RewardAfter[h \div Period]
      orders == Orders(txs)
      Share(amount) == [i \in DOMAIN orders |-> [to |-> orders[i], amount |-> amount]]
  IN (IF orders = <<>> THEN <<[to |-> Ds, amount |-> (reward * 2) \div 10]>>
      ELSE Append(Share((reward \div 10) \div Len(orders)), [to |-> Ds, amount |-> reward \div 10]))
     \o <<[to |-> miner, amount |-> (reward * 4) \div 10],
          [to |-> Cm, amount |-> (reward * 4) \div 10]>>

(***************************************************************************)
(* packBlock.  The tests of leadership and of the log's length are left to *)
(* RaftNode.                                                               *)
(***************************************************************************)

\* The transactions of the sender of txs[i] before that, and what they take of
\* the balance that Pendings keeps for the sender: the fee only of a script.
Before(txs, i) == {j \in 1 .. i - 1 : txs[j].from = txs[i].from}
Spends(tx) == IF tx.script = <<>> THEN tx.amount ELSE tx.amount + tx.fee
SpentBefore(txs, i) == MapThenSumSet(LAMBDA j : Spends(txs[j]), Before(txs, i))

Available(n, a) == Minus(balance[n][a], lock[n][a])

\* A changed Pendings that asks the data base only, for every transaction.
SelectableOneByOne(n, txs) ==
  \A i \in DOMAIN txs :
    LET tx == txs[i]
    IN /\ tx.nonce >= nonce[n][tx.from]
       /\ \A j \in Before(txs, i) : txs[j].nonce < tx.nonce
       /\ Signed(Available(n, tx.from)) >= Signed(tx.amount)
       /\ New(cdb[n], tx.script, tx.from).ok

\* The nonces of a sender that Pendings goes past without a transaction: the
\* one that is due, when a later one came first, and those of refused scripts.
GoesPast(n, a, k) ==
  \/ k = nonce[n][a]
  \/ \E tx \in Pool : tx.from = a /\ tx.nonce = k /\ ~New(cdb[n], tx.script, a).ok

\* What Pendings lets into a block: rising nonces, and a running balance, an
\* int64, that covers the amounts (not the fees).
Selectable(n, txs) ==
  \A i \in DOMAIN txs :
    LET tx == txs[i]
        used == {txs[j].nonce : j \in Before(txs, i)}
        left == Signed(Available(n, tx.from)) - SpentBefore(txs, i)
    IN /\ tx.nonce >= nonce[n][tx.from]
       /\ \A k \in used : k < tx.nonce
       /\ \A k \in nonce[n][tx.from] .. tx.nonce - 1 : k \in used \/ GoesPast(n, tx.from, k)
       /\ Available(n, tx.from) # 0
       /\ Signed(left % Modulus) >= Signed(tx.amount)
       /\ New(cdb[n], tx.script, tx.from).ok

\* Pendings records in a transaction what its script will write.
WithRoot(n, tx) == [tx EXCEPT !.root = Root(New(cdb[n], tx.script, tx.from))]

\* Pendings takes transactions from the pool and reads the data base for it;
\* seen is history, the height of the data base.
Pendings(n) ==
  /\ n \in Candidates /\ packing[n] = Idle /\ flushing[n] = 0
  /\ \E txs \in BoundedSeq(Pool, BlockLimit) :
       /\ Selectable(n, txs)
       /\ packing' = [packing EXCEPT ![n] =
            [stage |-> "pending", seen |-> height[n],
             txs |-> [i \in DOMAIN txs |-> WithRoot(n, txs[i])]]]
  /\ UNCHANGED <<log, applied, chain, flushing, request>>

\* NewBlock reads the height again.
NewBlock(n) ==
  /\ packing[n].stage = "pending" /\ flushing[n] = 0
  /\ LET txs == packing[n].txs
         h == height[n] + 1
     IN packing' = [packing EXCEPT ![n] =
          [stage |-> "packed",
           block |-> [height |-> h, txs |-> txs, miner |-> Miner[n],
                      first |-> Distr(txs, Miner[n], h), seen |-> packing[n].seen]]]
  /\ UNCHANGED <<log, applied, chain, flushing, request>>

\* The block is proposed unless its height has come meanwhile.
Propose(n) ==
  /\ packing[n].stage = "packed"
  /\ packing[n].block.height > height[n]
  /\ Len(log) < MaxLog
  /\ log' = Append(log, packing[n].block)
  /\ packing' = [packing EXCEPT ![n] = Idle]
  /\ UNCHANGED <<applied, chain, flushing, request>>

\* ... or because the leader was replaced and the proposal is lost.
Discard(n) ==
  /\ packing[n].stage # "idle"
  /\ packing' = [packing EXCEPT ![n] = Idle]
  /\ UNCHANGED <<log, applied, chain, flushing, request>>

(***************************************************************************)
(* commitEntries: the checks of a block, then AddBlock.                    *)
(***************************************************************************)

NextBlock(n) == log[applied[n] + 1]
HasBlock(n) == applied[n] < Len(log) /\ flushing[n] = 0

\* Sums of what addresses receive, which is how Checkresults compares rewards.
Received(payments, a) ==
  FoldLeft(LAMBDA sum, p : IF p.to = a THEN sum + p.amount ELSE sum, 0, payments)

\* A changed Checkresults that runs the scripts and does not compare.
ChecksRewardsOnly(n, b) ==
  /\ \A i \in DOMAIN b.txs : New(cdb[n], b.txs[i].script, b.txs[i].from).ok
  /\ \A p \in ToSet(Distr(b.txs, b.miner, b.height)) :
       Received(b.first, p.to) = Received(Distr(b.txs, b.miner, b.height), p.to)

\* Checkresults: scripts still write what they wrote for the packer.
ChecksResults(n, b) ==
  /\ \A i \in DOMAIN b.txs :
       LET e == New(cdb[n], b.txs[i].script, b.txs[i].from)
       IN e.ok /\ b.txs[i].root = Root(e)
  /\ \A p \in ToSet(Distr(b.txs, b.miner, b.height)) :
       Received(b.first, p.to) = Received(Distr(b.txs, b.miner, b.height), p.to)

\* A changed commitEntries that takes a block of any height.
AcceptableAtAnyHeight(n, b) ==
  /\ ChecksResults(n, b)
  /\ \A i \in DOMAIN b.txs : Verify(balance[n], nonce[n], lock[n], b.txs[i])

Acceptable(n, b) ==
  /\ b.height = height[n] + 1
  /\ ChecksResults(n, b)
  /\ \A i \in DOMAIN b.txs : Verify(balance[n], nonce[n], lock[n], b.txs[i])

\* The next transaction with a script, or one past the last transaction.
NextScript(txs, i) ==
  Min({j \in i .. Len(txs) : txs[j].script # <<>>} \cup {Len(txs) + 1})

\* A changed commitEntries that may skip a block it needs.
SkipAnyBlock(n) ==
  /\ HasBlock(n)
  /\ applied' = [applied EXCEPT ![n] = @ + 1]
  /\ UNCHANGED <<log, chain, flushing, packing, request>>

SkipStaleBlock(n) ==
  /\ HasBlock(n) /\ NextBlock(n).height <= height[n]
  /\ applied' = [applied EXCEPT ![n] = @ + 1]
  /\ UNCHANGED <<log, chain, flushing, packing, request>>

AcceptBlock(n) ==
  /\ HasBlock(n) /\ Acceptable(n, NextBlock(n))
  /\ flushing' = [flushing EXCEPT ![n] = NextScript(NextBlock(n).txs, 1)]
  /\ UNCHANGED <<log, applied, chain, packing, request>>

\* AddBlock runs a script once more and writes it to the contract data base.
FlushScript(n) ==
  /\ flushing[n] # 0 /\ flushing[n] \in DOMAIN NextBlock(n).txs
  /\ LET tx == NextBlock(n).txs[flushing[n]]
         e == New(cdb[n], tx.script, tx.from)
     IN /\ e.ok
        /\ cdb' = [cdb EXCEPT ![n] = Flush(@, e)]
  /\ flushing' = [flushing EXCEPT ![n] = NextScript(NextBlock(n).txs, @ + 1)]
  /\ UNCHANGED <<log, applied, height, balance, nonce, lock, packing, request>>

\* setMinerAccount for every payment.
Pay(bal, payments) ==
  FoldLeft(LAMBDA b, p : [b EXCEPT ![p.to] = Plus(@, p.amount)], bal, payments)

\* setMinerFee: the fee of a script.
SetMinerFee(bal, to, fee) == [bal EXCEPT ![to] = Plus(@, fee)]

\* setAccount: both balances are read before either is written.
SetAccount(bal, tx) ==
  [bal EXCEPT ![tx.from] = Minus(Minus(@, tx.amount), tx.fee),
              ![tx.to] = Plus(bal[tx.to], tx.amount)]

\* The fee of a script goes to the node's own address, whoever packed the
\* block; that of another transaction is taken from its sender and goes nowhere.
Execute(n, bal, tx) ==
  SetAccount(IF tx.script = <<>> THEN bal ELSE SetMinerFee(bal, Miner[n], tx.fee), tx)

\* set_nonce after every transaction.
SetNonces(non, txs) ==
  FoldLeft(LAMBDA ns, tx : [ns EXCEPT ![tx.from] = tx.nonce + 1], non, txs)

CommitBlock(n) ==
  /\ flushing[n] # 0 /\ flushing[n] \notin DOMAIN NextBlock(n).txs
  /\ LET b == NextBlock(n)
     IN /\ balance' = [balance EXCEPT ![n] =
             FoldLeft(LAMBDA bal, tx : Execute(n, bal, tx), Pay(@, b.first), b.txs)]
        /\ nonce' = [nonce EXCEPT ![n] = SetNonces(@, b.txs)]
  /\ height' = [height EXCEPT ![n] = @ + 1]
  /\ applied' = [applied EXCEPT ![n] = @ + 1]
  /\ flushing' = [flushing EXCEPT ![n] = 0]
  /\ UNCHANGED <<log, lock, cdb, packing, request>>

\* What a process loses when it ends.  The next one replays the log from where
\* its WAL lets it begin.
EndProcess(n) ==
  /\ \E k \in 0 .. applied[n] : applied' = [applied EXCEPT ![n] = k]
  /\ flushing' = [flushing EXCEPT ![n] = 0]
  /\ packing' = [packing EXCEPT ![n] = Idle]
  /\ request' = [c \in Client |->
       IF Request[c].node = n /\ request[c].stage \in {"read", "write"}
       THEN Closed("failed") ELSE request[c]]
  /\ UNCHANGED <<log, chain>>

\* A block that fails a check is a panic; a script that fails in AddBlock is a
\* nil exec, and a panic as well.
Refuses(n) ==
  \/ HasBlock(n) /\ NextBlock(n).height > height[n] /\ ~Acceptable(n, NextBlock(n))
  \/ /\ flushing[n] # 0 /\ flushing[n] \in DOMAIN NextBlock(n).txs
     /\ LET tx == NextBlock(n).txs[flushing[n]]
        IN ~New(cdb[n], tx.script, tx.from).ok

RefuseBlock(n) == Refuses(n) /\ EndProcess(n)

Crash(n) == n \in Crashable /\ EndProcess(n)

(***************************************************************************)
(* LockBalance and Unlockbalance.  A badger transaction is opened first;   *)
(* it fails at its commit if the lock was written since.                   *)
(***************************************************************************)

OpenRequest(c) ==
  LET n == Request[c].node IN
  /\ request[c].stage = "new" /\ flushing[n] = 0
  /\ request' = [request EXCEPT
       ![c].stage = "read",
       ![c].balance = IF Request[c].kind = "lock" THEN balance[n][Request[c].addr] ELSE 0]
  /\ UNCHANGED <<log, applied, chain, flushing, packing>>

\* May amount be locked, given the balance and the lock that were read?
LockFits(bal, locked, amount) ==
  Plus(locked, amount) <= bal /\ amount <= bal /\ amount <= Minus(bal, locked)

CheckRequest(c) ==
  LET n == Request[c].node
      locked == lock[n][Request[c].addr]
      amount == Request[c].amount
      isLock == Request[c].kind = "lock"
      ok == IF isLock THEN LockFits(request[c].balance, locked, amount) ELSE amount <= locked
  IN
  /\ request[c].stage = "read" /\ flushing[n] = 0
  /\ request' = [request EXCEPT ![c] =
       IF ok THEN [@ EXCEPT !.stage = "write", !.balance = 0,
                            !.value = IF isLock THEN Plus(locked, amount)
                                      ELSE Minus(locked, amount)]
       ELSE Closed("failed")]
  /\ UNCHANGED <<log, applied, chain, flushing, packing>>

SameLock(c, d) == Request[c].node = Request[d].node /\ Request[c].addr = Request[d].addr

\* A changed commit that writes the lock in spite of a conflict.
CommitRequestAnyway(c) ==
  /\ request[c].stage = "write"
  /\ lock' = [lock EXCEPT ![Request[c].node][Request[c].addr] = request[c].value]
  /\ request' = [request EXCEPT ![c] = Closed("done")]
  /\ UNCHANGED <<log, applied, height, balance, nonce, cdb, flushing, packing>>

CommitRequest(c) ==
  LET n == Request[c].node IN
  /\ request[c].stage = "write" /\ ~request[c].conflict
  /\ lock' = [lock EXCEPT ![n][Request[c].addr] = request[c].value]
  /\ request' = [d \in Client |->
       IF d = c THEN Closed("done")
       ELSE IF SameLock(c, d) /\ request[d].stage \in {"read", "write"}
       THEN [request[d] EXCEPT !.conflict = TRUE] ELSE request[d]]
  /\ UNCHANGED <<log, applied, height, balance, nonce, cdb, flushing, packing>>

FailRequest(c) ==
  /\ request[c].stage = "write" /\ request[c].conflict
  /\ request' = [request EXCEPT ![c] = Closed("failed")]
  /\ UNCHANGED <<log, applied, chain, flushing, packing>>

(***************************************************************************)
(* waldir/recover.go, an offline tool: a data base made anew from the      *)
(* blocks of a WAL.                                                        *)
(***************************************************************************)

NewDatabase ==
  [ok |-> TRUE, height |-> 0, balance |-> StartBalance, nonce |-> [a \in Addr |-> 1],
   cdb |-> StartTokens]

\* The scripts of a block, one after the other; one that fails is a panic.
FlushAll(s, txs) ==
  FoldLeft(LAMBDA t, tx : LET e == New(t.cdb, tx.script, tx.from)
                          IN IF e.ok THEN [t EXCEPT !.cdb = Flush(@, e)]
                             ELSE [t EXCEPT !.ok = FALSE],
           s, txs)

\* A changed tool that does not keep the heights it has seen.
RecoverEveryBlock(s, b) ==
  IF s.ok /\ s.height + 1 = b.height
  THEN [FlushAll(s, b.txs) EXCEPT
          !.height = b.height, !.nonce = SetNonces(@, b.txs),
          !.balance = FoldLeft(SetAccount, Pay(@, b.first), b.txs)]
  ELSE [s EXCEPT !.ok = FALSE]

\* The tool takes the first block of each height and ends at a gap.  It makes
\* no checks, and its AddBlock gets no address for the fees: badger refuses to
\* write the empty key, and only the log tells.
RecoverBlock(s, b) ==
  IF ~s.ok \/ b.height <= s.height THEN s
  ELSE IF s.height + 1 # b.height THEN [s EXCEPT !.ok = FALSE]
  ELSE [FlushAll(s, b.txs) EXCEPT
          !.height = b.height, !.nonce = SetNonces(@, b.txs),
          !.balance = FoldLeft(SetAccount, Pay(@, b.first), b.txs)]

Recovery(blocks) == FoldLeft(RecoverBlock, NewDatabase, blocks)

-----------------------------------------------------------------------------

Next ==
  \/ \E n \in Node :
       \/ Pendings(n) \/ NewBlock(n) \/ Propose(n) \/ Discard(n)
       \/ SkipStaleBlock(n) \/ AcceptBlock(n) \/ FlushScript(n) \/ CommitBlock(n)
       \/ RefuseBlock(n) \/ Crash(n)
  \/ \E c \in Client :
       OpenRequest(c) \/ CheckRequest(c) \/ CommitRequest(c) \/ FailRequest(c)

Spec == Init /\ [][Next]_vars

(***************************************************************************)
(* Properties.                                                             *)
(***************************************************************************)

\* The blocks of a node's chain: for each height, the first in the log.
ChainOf(n) == {i \in DOMAIN log : /\ log[i].height <= height[n]
                                  /\ \A j \in 1 .. i - 1 : log[j].height # log[i].height}

\* The transactions of the chain, in order.
ChainTxs(n) ==
  FlattenSeq([i \in DOMAIN log |-> IF i \in ChainOf(n) THEN log[i].txs ELSE <<>>])

\* Every variable stays within its type; amounts fit the width of the code's
\* integers.
TypeOK ==
  /\ applied \in [Node -> 0 .. Len(log)] /\ height \in [Node -> 0 .. MaxLog]
  /\ balance \in [Node -> [Addr -> 0 .. Modulus - 1]]
  /\ lock \in [Node -> [Addr -> 0 .. Modulus - 1]]
  /\ nonce \in [Node -> [Addr -> Nat]]
  /\ \A n \in Node : flushing[n] \in 0 .. BlockLimit + 1
  /\ \A n \in Node : packing[n].stage \in {"idle", "pending", "packed"}
  /\ \A c \in Client :
       request[c].stage \in {"new", "read", "write", "done", "failed"}

\* AddBlock subtracts amounts and fees without a check (setAccount), and verify
\* asks for each transaction alone.  When a block was packed from the data of
\* the height below its own, its senders have what Pendings counted for them,
\* one transaction after the other, in the data base of every node that has
\* accepted it, whatever that node has been through.  The nodes' own addresses
\* are left aside: they hold different fees at each node.
AmountsAreCovered ==
  \A n \in Node : flushing[n] # 0 /\ NextBlock(n).seen = height[n] =>
    LET txs == NextBlock(n).txs
    IN \A i \in DOMAIN txs : txs[i].from \notin {Miner[k] : k \in Node} =>
         SpentBefore(txs, i) + txs[i].amount <= balance[n][txs[i].from]

\* Money is neither made nor lost: a data base holds what it began with and
\* the rewards of its blocks.  The sum is one of integers, so no balance has
\* wrapped around, although AddBlock subtracts without a check and relies on
\* what Pendings saw when the block was packed.
SupplyConserved ==
  \A n \in Node :
    SumFunction(balance[n]) =
      SumFunction(StartBalance)
      + MapThenSumSet(LAMBDA i : FoldLeft(LAMBDA sum, p : sum + p.amount, 0, log[i].first),
                      ChainOf(n))

\* Data bases of one height have equal balances, whoever packed the blocks and
\* however often a node ended and replayed the log.  A script's fee goes to
\* each node's own address (setMinerFee), so these differ.
BalancesAgree ==
  \A n, m \in Node : height[n] = height[m] =>
    \A a \in Addr \ {Miner[k] : k \in Node} : balance[n][a] = balance[m][a]

\* ... and equal nonces, for every address: they have taken the same blocks
\* (AddBlock, set_nonce).
NoncesAgree == \A n, m \in Node : height[n] = height[m] => nonce[n] = nonce[m]

\* Where the transactions of an address are: a block of the chain, and a place
\* in the block.
SentBy(n, a) ==
  UNION {{<<i, j>> : j \in {k \in DOMAIN log[i].txs : log[i].txs[k].from = a}} : i \in ChainOf(n)}
NonceAt(p) == log[p[1]].txs[p[2]].nonce
Precedes(p, q) == p[1] < q[1] \/ (p[1] = q[1] /\ p[2] < q[2])

\* The chain takes the transactions of an address in the order of their nonces,
\* none twice, though Pendings reads the nonces before NewBlock reads the
\* height; and the data base knows the nonce after the last (set_nonce).  A
\* nonce may be left out: Pendings goes past it.
NoncesInOrder ==
  \A n \in Node, a \in Addr :
    LET used == {NonceAt(p) : p \in SentBy(n, a)}
    IN /\ \A p, q \in SentBy(n, a) : Precedes(p, q) => NonceAt(p) < NonceAt(q)
       /\ \A k \in used : 0 < k /\ k < nonce[n][a]
       /\ nonce[n][a] - 1 \in used \cup {0}

\* LockBalance and Unlockbalance of concurrent clients and blocks do not lose
\* each other's updates: what is locked is the sum of what was granted.
LocksAddUp ==
  \A n \in Node, a \in Addr :
    LET granted == {c \in Client : /\ request[c].stage = "done"
                                   /\ Request[c].node = n /\ Request[c].addr = a}
        Change(c) == IF Request[c].kind = "lock" THEN Request[c].amount ELSE -Request[c].amount
    IN lock[n][a] = StartLock[n][a] + MapThenSumSet(Change, granted)

\* What a granted request makes of a lock: it fits into what is locked at that
\* time, and nothing else writes locks (SetLockBalance), although both the
\* check and the new value come from an earlier read.
GrantsAreExact ==
  [][\A n \in Node, a \in Addr : lock'[n][a] # lock[n][a] =>
       \E c \in Client :
         /\ Request[c].node = n /\ Request[c].addr = a
         /\ request[c].stage = "write" /\ request'[c].stage = "done"
         /\ IF Request[c].kind = "lock"
            THEN lock'[n][a] = Plus(lock[n][a], Request[c].amount)
            ELSE /\ Request[c].amount <= lock[n][a]
                 /\ lock'[n][a] = lock[n][a] - Request[c].amount]_vars

\* A contract data base after the scripts of transactions.
TokensAfter(db, txs) ==
  FoldLeft(LAMBDA d, tx : Flush(d, New(d, tx.script, tx.from)), db, txs)

\* A script takes effect once.  The contract data base has the effects of the
\* scripts in the node's chain, and of the first few of the next block's, which
\* AddBlock writes before the block: a crash in between and the replay after it
\* do not repeat them.
TokensFollowChain ==
  \A n \in Node :
    LET db == TokensAfter(StartTokens, ChainTxs(n))
    IN \/ cdb[n] = db
       \/ \E i \in DOMAIN log :
            /\ log[i].height = height[n] + 1
            /\ \E k \in DOMAIN log[i].txs :
                 cdb[n] = TokensAfter(db, SubSeq(log[i].txs, 1, k))

\* The log up to the first block above a node's height, with the stale blocks.
TakenBy(n) ==
  SubSeq(log, 1, Max({k \in 0 .. Len(log) : \A i \in 1 .. k : log[i].height <= height[n]}))

\* The recovery tool makes the node's data base again, except for the fees the
\* node has paid itself: without checking a block it takes the ones that the
\* node has taken, and no script fails that did not fail there.
RecoveryRebuildsChain ==
  \A n \in Node :
    LET r == Recovery(TakenBy(n))
    IN /\ r.ok /\ r.height = height[n] /\ r.nonce = nonce[n]
       /\ \A a \in Addr \ {Miner[k] : k \in Node} : r.balance[a] = balance[n][a]

\* commitEntries panics over a block that does not pass the checks ("CheckBlock
\* ERROR!", "VerifyBlcok ERROR!"): the blocks of the cluster's own nodes do.
BlocksAreAccepted == \A n \in Node : ~Refuses(n)
=============================================================================
