------------------------------- MODULE TxPool -------------------------------
(***************************************************************************)
(* The transaction pools of the nodes (txpool.go): a heap of transactions, *)
(* what Pendings takes from it for a block, the queue of those it cannot   *)
(* use yet, and the removal of a decided block's transactions.  Pendings   *)
(* holds the pool's lock, and reads the data base anew for each            *)
(* transaction; the goroutine that commits blocks changes the data base    *)
(* without that lock, between any two of these reads and before NewBlock   *)
(* reads the height.  Whether a balance covers a transaction is left open  *)
(* here; module Accounts says when it does.  Consensus is the agreed log   *)
(* of blocks that module RaftNode implements.                              *)
(***************************************************************************)
EXTENDS Integers, Sequences, SequencesExt, FiniteSets, FiniteSetsExt

CONSTANTS Nodes,
          Payments,      \* transactions as signed by their senders
          SenderOf,      \* SenderOf[t]: the address that pays
          NonceOf,       \* NonceOf[t]: the nonce it was signed with, from 1
          PoolSize,      \* Add refuses when the list is longer (1500)
          PerSender,     \* transactions of one sender in the list (50)
          Doubtful,      \* the transactions that the balance may not cover
          Scripts,       \* the transactions with a script that may be refused
          Totalquantity, \* transactions in a block (500)
          Lifetime,      \* age at which a transaction leaves the pool (10 s)
          MaxClock,      \* bound: seconds that pass
          MaxPacked      \* bound: blocks proposed

ASSUME PoolAssumption ==
    /\ \A t \in Payments : NonceOf[t] \in Nat \ {0}
    /\ Doubtful \subseteq Payments /\ Scripts \subseteq Payments
    /\ {PoolSize, PerSender, Totalquantity, Lifetime, MaxClock, MaxPacked} \subseteq Nat

VARIABLES List,          \* List[n]: the heap, an array; entries [tx, time]
          packing,       \* packing[n]: the pool's other fields, see Unpacked
          proposals,     \* the blocks proposed and not decided yet
          nonce,         \* nonce[n][a]: the account's nonce in the data base
          height,        \* height[n]: the last height in the data base
          applied,       \* applied[n]: the entries of log n has handled
          filtered,      \* filtered[n]: Filter has run for the next entry
          log,           \* the agreed blocks, [height, txs, refused, seen]
          clock          \* seconds

chain == <<nonce, height, applied, filtered>>
pvars == <<List, packing, proposals, chain, log, clock>>

Addresses == {SenderOf[t] : t \in Payments}

---------------------------------------------------------------------------
(* The heap: container/heap over TxHeap.  Less is not transitive.          *)

Less(x, y) ==
    IF SenderOf[x.tx] = SenderOf[y.tx] /\ NonceOf[x.tx] # NonceOf[y.tx]
    THEN NonceOf[x.tx] < NonceOf[y.tx]
    ELSE x.time < y.time

Swap(h, i, j) == [h EXCEPT ![i] = h[j], ![j] = h[i]]

\* Op applied up to n times, starting from s.
Repeat(Op(_), s, n) == FoldLeft(LAMBDA acc, k : Op(acc), s, [k \in 1 .. n |-> k])

up(s) ==
    IF s.at > 1 /\ Less(s.h[s.at], s.h[s.at \div 2])
    THEN [h |-> Swap(s.h, s.at, s.at \div 2), at |-> s.at \div 2]
    ELSE s

down(s) ==
    LET kids == {j \in {2 * s.at, 2 * s.at + 1} : j <= Len(s.h)}
        kid  == IF Cardinality(kids) = 2 /\ Less(s.h[2 * s.at + 1], s.h[2 * s.at])
                THEN 2 * s.at + 1 ELSE 2 * s.at
    IN IF kids # {} /\ Less(s.h[kid], s.h[s.at])
       THEN [h |-> Swap(s.h, s.at, kid), at |-> kid] ELSE s

Push(h, x) == Repeat(up, [h |-> Append(h, x), at |-> Len(h) + 1], Len(h)).h

\* What is left when the first element has been popped.
Popped(h) ==
    IF Len(h) = 1 THEN <<>>
    ELSE Repeat(down, [h |-> Front(Swap(h, 1, Len(h))), at |-> 1], Len(h)).h

---------------------------------------------------------------------------
\* No block is being packed: queue is the heap of transactions set aside, pending
\* and item are Pendings', read the senders whose balance it has, refused and seen
\* are history, the scripts it left out and the height when it began.
Unpacked(q) ==
    [stage |-> "idle", queue |-> q, pending |-> <<>>, read |-> {}, refused |-> {},
     item |-> [a \in Addresses |-> 0], seen |-> 0]

PoolInit ==
    /\ List = [n \in Nodes |-> <<>>]
    /\ packing = [n \in Nodes |-> Unpacked(<<>>)]
    /\ proposals = {}
    /\ nonce = [n \in Nodes |-> [a \in Addresses |-> 1]]
    /\ height = [n \in Nodes |-> 0]
    /\ applied = [n \in Nodes |-> 0]
    /\ filtered = [n \in Nodes |-> FALSE]
    /\ log = <<>>
    /\ clock = 0

\* Pendings holds the lock of the pool, which Add and Filter take as well.
Unlocked(n) == packing[n].stage # "selecting"

check(h, t) ==
    LET own == {i \in DOMAIN h : SenderOf[h[i].tx] = SenderOf[t]} IN
    /\ \A i \in own : NonceOf[h[i].tx] # NonceOf[t]
    /\ Cardinality(own) < PerSender

\* The checks of Add; signature and balance are taken to be good.
MayAdd(n, t) ==
    /\ Len(List[n]) <= PoolSize
    /\ NonceOf[t] >= nonce[n][SenderOf[t]]
    /\ check(List[n], t)

\* Add stamps the transaction with the node's time.
AddTo(n, t) == List' = [List EXCEPT ![n] = Push(@, [tx |-> t, time |-> clock])]

---------------------------------------------------------------------------
(* Pendings: s is its state, covered says whether the balance covers the   *)
(* transaction, bad whether the contract data base refuses its script.     *)

Drop(s)     == s
Skip(s, e)  == [s EXCEPT !.item[SenderOf[e.tx]] = NonceOf[e.tx], !.refused = @ \cup {e.tx}]
Take(s, e)  == [s EXCEPT !.item[SenderOf[e.tx]] = NonceOf[e.tx], !.pending = Append(@, e.tx)]
Defer(s, e) == [s EXCEPT !.queue = Push(@, e)]

\* A wrong form: any later nonce goes on.
FollowsSomewhere(s, e) == NonceOf[e.tx] > s.item[SenderOf[e.tx]]

\* item remembers the last nonce that a sender's transactions have got to.
Follows(s, e) == NonceOf[e.tx] = s.item[SenderOf[e.tx]] + 1

\* The balance is read for the first transaction of a sender, the others have
\* what that left of it.
Unread(s, e, covered) == SenderOf[e.tx] \notin s.read /\ ~covered

\* A refused script is dropped when item has gone on to it.
Use(s, e, covered, bad) ==
    IF ~covered THEN Drop(s) ELSE IF bad THEN Skip(s, e) ELSE Take(s, e)

\* A wrong form: a nonce behind the account's is as good as the one due.
SortPassed(s, e, covered, bad, n) ==
    LET a == SenderOf[e.tx]
        r == [s EXCEPT !.read = @ \cup {a}]
    IN CASE Unread(s, e, covered) -> Drop(s)
         [] ~Unread(s, e, covered) /\ s.item[a] = 0 ->
              IF NonceOf[e.tx] <= nonce[n][a] THEN Use(r, e, covered, bad)
              ELSE Defer([r EXCEPT !.item[a] = nonce[n][a]], e)
         [] ~Unread(s, e, covered) /\ s.item[a] # 0 ->
              IF Follows(s, e) THEN Use(r, e, covered, bad) ELSE Defer(r, e)

Sort(s, e, covered, bad, n) ==
    LET a == SenderOf[e.tx]
        k == NonceOf[e.tx]
        r == [s EXCEPT !.read = @ \cup {a}]
    IN CASE k < nonce[n][a] \/ Unread(s, e, covered) -> Drop(s)
         [] k = nonce[n][a] /\ ~Unread(s, e, covered) ->
              IF s.item[a] = 0 THEN Use(r, e, covered, bad) ELSE Drop(r)
         [] k > nonce[n][a] /\ ~Unread(s, e, covered) ->
              IF s.item[a] = 0 THEN Defer([r EXCEPT !.item[a] = nonce[n][a]], e)
              ELSE IF Follows(s, e) THEN Use(r, e, covered, bad) ELSE Defer(r, e)

\* The loop goes on until the block is full or the heap is empty.
GoesOn(n) == Len(packing[n].pending) < Totalquantity /\ List[n] # <<>>

Pendings(n) ==
    /\ packing[n].stage = "idle"
    /\ Len(log) + Cardinality(proposals)
         + Cardinality({m \in Nodes : packing[m].stage # "idle"}) < MaxPacked
    /\ packing' = [packing EXCEPT ![n].stage = "selecting", ![n].seen = height[n]]
    /\ UNCHANGED <<List, proposals, chain, log, clock>>

\* One turn of the loop.
Select(n, covered, bad) ==
    /\ packing[n].stage = "selecting" /\ GoesOn(n)
    /\ LET e == Head(List[n]) IN
       /\ ~covered => e.tx \in Doubtful
       /\ bad => e.tx \in Scripts
       /\ packing' = [packing EXCEPT ![n] = Sort(@, e, covered, bad, n)]
    /\ List' = [List EXCEPT ![n] = Popped(@)]
    /\ UNCHANGED <<proposals, chain, log, clock>>

\* The loop's bound shrinks with the heap from, so that half of it is popped;
\* what is not too old is put out.
Moving(s) ==
    IF s.i >= Len(s.from) THEN s
    ELSE [from |-> Popped(s.from), i |-> s.i + 1,
          out  |-> IF clock - Head(s.from).time < Lifetime THEN Append(s.out, Head(s.from))
                   ELSE s.out]

Requeued(from) == Repeat(Moving, [from |-> from, out |-> <<>>, i |-> 0], Len(from))

PushAll(h, es) == FoldLeft(Push, h, es)

\* After the loop the queue is looked through, item and balance are cleared.
PendingsEnd(n) ==
    /\ packing[n].stage = "selecting" /\ ~GoesOn(n)
    /\ LET r == Requeued(packing[n].queue) IN
       /\ List' = [List EXCEPT ![n] = PushAll(@, r.out)]
       /\ packing' = [packing EXCEPT ![n] =
            [Unpacked(r.from) EXCEPT !.stage = "pending", !.pending = packing[n].pending,
                                     !.refused = packing[n].refused, !.seen = packing[n].seen]]
    /\ UNCHANGED <<proposals, chain, log, clock>>

\* NewBlock reads the height in the data base and goes on from there.
NewHeight(n) == height[n] + 1

\* NewBlock and RemovePending; the block is proposed.
ProposeBlock(n) ==
    /\ packing[n].stage = "pending"
    /\ proposals' = proposals \cup {[height |-> NewHeight(n), txs |-> packing[n].pending,
                           refused |-> packing[n].refused, seen |-> packing[n].seen]}
    /\ packing' = [packing EXCEPT ![n] = Unpacked(packing[n].queue)]
    /\ UNCHANGED <<List, chain, log, clock>>

\* A proposal is decided at any time later, or gets lost; what Pendings took is
\* gone then.
Decide(b) ==
    /\ log' = Append(log, b) /\ proposals' = proposals \ {b}
    /\ UNCHANGED <<List, packing, chain, clock>>

LoseBlock(b) == proposals' = proposals \ {b} /\ UNCHANGED <<List, packing, chain, log, clock>>

---------------------------------------------------------------------------
InBlock(e, b) ==
    \E i \in DOMAIN b : SenderOf[b[i]] = SenderOf[e.tx] /\ NonceOf[b[i]] = NonceOf[e.tx]

Keep(h, b) ==
    FoldLeft(LAMBDA left, e : IF InBlock(e, b) THEN left ELSE Append(left, e), <<>>, h)

\* Filter cuts the block's transactions out of the array, which may be no heap
\* then, and renews half of the list.
Filter(n, b) ==
    LET r == Requeued(Keep(List[n], b)) IN
    List' = [List EXCEPT ![n] = PushAll(r.from, r.out)]

\* setAccount: each transaction puts the nonce of its sender behind its own.
NoncesAfter(f, b) ==
    FoldLeft(LAMBDA g, t : [g EXCEPT ![SenderOf[t]] = NonceOf[t] + 1], f, b)

\* VerifyBlcok: no transaction is behind its account.
VerifyBlock(n, b) == \A i \in DOMAIN b : NonceOf[b[i]] >= nonce[n][SenderOf[b[i]]]

Upcoming(n) == log[applied[n] + 1]

\* What a node does with the next entry: first Filter, whatever the block is.
FilterBlock(n) ==
    /\ applied[n] < Len(log) /\ ~filtered[n] /\ Unlocked(n)
    /\ Filter(n, Upcoming(n).txs)
    /\ filtered' = [filtered EXCEPT ![n] = TRUE]
    /\ UNCHANGED <<packing, proposals, nonce, height, applied, log, clock>>

\* The entry is done.
EntryDone(n) ==
    /\ applied[n] < Len(log) /\ filtered[n]
    /\ filtered' = [filtered EXCEPT ![n] = FALSE]
    /\ applied' = [applied EXCEPT ![n] = @ + 1]
    /\ UNCHANGED <<List, packing, proposals, log, clock>>

\* A block of the height after the node's is stored, without the pool's lock; the
\* node panics on one that does not verify.
CommitBlock(n) ==
    /\ EntryDone(n)
    /\ Upcoming(n).height = height[n] + 1
    /\ VerifyBlock(n, Upcoming(n).txs)
    /\ nonce' = [nonce EXCEPT ![n] = NoncesAfter(@, Upcoming(n).txs)]
    /\ height' = [height EXCEPT ![n] = @ + 1]

\* A second block of a height is dropped.
DropBlock(n) ==
    /\ EntryDone(n)
    /\ Upcoming(n).height <= height[n]
    /\ UNCHANGED <<nonce, height>>

\* A process that starts again has an empty pool, and the chain on its disk.
Restart(n) ==
    /\ List' = [List EXCEPT ![n] = <<>>]
    /\ packing' = [packing EXCEPT ![n] = Unpacked(<<>>)]
    /\ filtered' = [filtered EXCEPT ![n] = FALSE]
    /\ UNCHANGED <<proposals, nonce, height, applied, log, clock>>

Tick ==
    clock < MaxClock /\ clock' = clock + 1 /\ UNCHANGED <<List, packing, proposals, chain, log>>

AddLocal(n, t) ==
    /\ Unlocked(n) /\ MayAdd(n, t) /\ AddTo(n, t)
    /\ UNCHANGED <<packing, proposals, chain, log, clock>>

PoolStep(nodes, payments) ==
    \/ Tick
    \/ \E n \in nodes :
         \/ \E t \in payments : AddLocal(n, t)
         \/ Pendings(n)
         \/ \E covered, bad \in BOOLEAN : Select(n, covered, bad)
         \/ PendingsEnd(n)
         \/ ProposeBlock(n)
         \/ FilterBlock(n)
         \/ CommitBlock(n)
         \/ DropBlock(n)
         \/ Restart(n)
    \/ \E b \in proposals : Decide(b) \/ LoseBlock(b)

PoolSpec == PoolInit /\ [][PoolStep(Nodes, Payments)]_pvars

---------------------------------------------------------------------------
\* A nonce of a that the block has, or left out with a script that was refused.
Accounted(b, a, k) == \E t \in ToSet(b.txs) \cup b.refused : SenderOf[t] = a /\ NonceOf[t] = k

HoldsRuns(b) ==
    \A i, l \in DOMAIN b.txs : i < l /\ SenderOf[b.txs[i]] = SenderOf[b.txs[l]] =>
        /\ NonceOf[b.txs[i]] < NonceOf[b.txs[l]]
        /\ \A k \in NonceOf[b.txs[i]] + 1 .. NonceOf[b.txs[l]] - 1 :
             Accounted(b, SenderOf[b.txs[i]], k)

\* A block holds a run of nonces of each sender, none twice and none left out
\* inside the run but that of a script that was refused, whatever order the
\* heap hands them out in (txpool.go:166-274).
BlocksHoldRuns == \A j \in DOMAIN log : HoldsRuns(log[j])

\* A block was packed without a block committed meanwhile on the node: NewBlock
\* read the height that the data base had when Pendings began.
PackedAtOnce(b) == b.seen = b.height - 1

\* The block that is next in a replica's chain passes the checks on whose
\* failure the replica panics: its height follows (node.go:377-380), and if it
\* was packed at once, none of its transactions was in an earlier block,
\* although every pool may have packed, set aside or received it again meanwhile
\* and the block may have come to the log late (node.go:387-390).  A block
\* committed between Pendings and NewBlock can make a replica panic
\* (server.go:966-967).
BlocksVerify ==
    \A n \in Nodes : applied[n] < Len(log) =>
        LET b == Upcoming(n) IN
        /\ b.height <= height[n] + 1
        /\ b.height = height[n] + 1 /\ PackedAtOnce(b) => VerifyBlock(n, b.txs)

\* The nonce that the API answers for an address is the one its next
\* transaction in a block has (rpcclient.go:219, txpool.go:181-272).
NextNonceIsUsed ==
    \A n \in Nodes : applied[n] < Len(log) /\ Upcoming(n).height = height[n] + 1 =>
        LET txs == Upcoming(n).txs IN
        \A i \in DOMAIN txs :
            (\A j \in 1 .. i - 1 : SenderOf[txs[j]] # SenderOf[txs[i]])
            => NonceOf[txs[i]] = nonce[n][SenderOf[txs[i]]]
=============================================================================
