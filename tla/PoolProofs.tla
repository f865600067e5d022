----------------------------- MODULE PoolProofs -----------------------------
(***************************************************************************)
(* What the pools put into blocks, and what the nodes announce to each     *)
(* other, for any number of nodes and transactions and any heap.           *)
(*                                                                         *)
(* Less is not transitive and Filter cuts holes into the array, so nothing *)
(* is known of the order in which the heap hands transactions out.  What   *)
(* makes a block right is Pendings alone: it never goes back behind the    *)
(* nonce in the data base, and item goes on by one, although the data base *)
(* may change between any two transactions.  And as every block goes on    *)
(* from a chain in the log, a block whose node committed nothing between   *)
(* Pendings and NewBlock was packed with the nonces of the replica that    *)
(* commits it, whenever it comes to the log and whatever came before.      *)
(***************************************************************************)
EXTENDS Gossip, Inductions, SequenceTheorems, FiniteSetTheorems

---------------------------------------------------------------------------
(***************************************************************************)
(* Heaps hold entries whatever is done to them.                            *)
(***************************************************************************)

Entry == [tx : Payments, time : Nat]
Heap == Seq(Entry)

\* A heap and the place that Push or Pop have come to.
Cursor == {c \in [h : Heap, at : Nat \ {0}] : c.at \in DOMAIN c.h}

\* Swaps leave entries.
LEMMA SwapType ==
  ASSUME NEW h \in Heap, NEW i \in DOMAIN h, NEW j \in DOMAIN h
  PROVE  Swap(h, i, j) \in Heap /\ DOMAIN Swap(h, i, j) = DOMAIN h /\ Len(Swap(h, i, j)) = Len(h)
  BY DEF Swap, Heap

\* One step up (container/heap).
LEMMA UpType ==
  ASSUME NEW c \in Cursor
  PROVE  up(c) \in Cursor
<1>1. /\ c.h \in Heap /\ c.at \in DOMAIN c.h
      /\ DOMAIN c.h = 1 .. Len(c.h) /\ Len(c.h) \in Nat
  BY DEF Cursor, Heap
<1>2. CASE c.at > 1 /\ Less(c.h[c.at], c.h[c.at \div 2])
  <2>1. up(c) = [h |-> Swap(c.h, c.at, c.at \div 2), at |-> c.at \div 2]
    BY <1>2 DEF up
  <2>2. c.at \div 2 \in DOMAIN c.h /\ c.at \div 2 \in Nat \ {0}
    BY <1>1, <1>2
  <2> QED BY <1>1, <2>1, <2>2, SwapType DEF Cursor
<1>3. CASE ~(c.at > 1 /\ Less(c.h[c.at], c.h[c.at \div 2]))
  BY <1>3 DEF up
<1> QED BY <1>2, <1>3

\* One step down.
LEMMA DownType ==
  ASSUME NEW c \in Cursor
  PROVE  down(c) \in Cursor
<1> DEFINE kids == {j \in {2 * c.at, 2 * c.at + 1} : j <= Len(c.h)}
           kid == IF Cardinality(kids) = 2 /\ Less(c.h[2 * c.at + 1], c.h[2 * c.at])
                  THEN 2 * c.at + 1 ELSE 2 * c.at
<1>1. /\ c.h \in Heap /\ c.at \in DOMAIN c.h
      /\ DOMAIN c.h = 1 .. Len(c.h) /\ Len(c.h) \in Nat
  BY DEF Cursor, Heap
<1>2. CASE kids # {} /\ Less(c.h[kid], c.h[c.at])
  <2>1. down(c) = [h |-> Swap(c.h, c.at, kid), at |-> kid]
    BY <1>2 DEF down
  <2>2. kid \in kids
    <3>1. CASE kid = 2 * c.at
      <4>1. 2 * c.at <= Len(c.h)
        BY <1>1, <1>2
      <4> QED BY <3>1, <4>1
    <3>2. CASE kid # 2 * c.at
      <4>1. Cardinality(kids) = 2 /\ kid = 2 * c.at + 1
        BY <3>2
      <4>2. CASE 2 * c.at + 1 <= Len(c.h)
        BY <4>1, <4>2
      <4>3. CASE ~(2 * c.at + 1 <= Len(c.h))
        <5>1. kids = {2 * c.at}
          BY <1>1, <1>2, <4>3
        <5>2. Cardinality(kids) = 1
          BY <5>1, FS_Singleton
        <5> QED BY <4>1, <5>2
      <4> QED BY <4>2, <4>3
    <3> QED BY <3>1, <3>2
  <2>3. kid \in DOMAIN c.h /\ kid \in Nat \ {0}
    BY <1>1, <2>2
  <2> HIDE DEF kid
  <2> QED BY <1>1, <2>1, <2>3, SwapType DEF Cursor
<1>3. CASE ~(kids # {} /\ Less(c.h[kid], c.h[c.at]))
  BY <1>3 DEF down
<1> QED BY <1>2, <1>3

\* All the steps of a Push.
LEMMA UpsType ==
  ASSUME NEW n \in Nat, NEW c \in Cursor
  PROVE  Repeat(up, c, n) \in Cursor
<1> DEFINE ks == [k \in 1 .. n |-> k]
           P(g) == g = [s \in SUBSET DOMAIN ks |->
                          IF s = {} THEN c
                          ELSE LET x == Max(s) IN up(g[s \ {x}])]
           g0 == CHOOSE g : P(g)
           F == [p \in (1 .. n) \X Cursor |-> up(p[2])]
<1>1. n \in Nat /\ DOMAIN ks = 1 .. n /\ c \in Cursor
  OBVIOUS
<1>2. \A x \in Cursor, i \in 1 .. n : up(x) \in Cursor
  BY UpType
<1>3. Repeat(up, c, n) = g0[1 .. n]
  BY <1>1 DEF Repeat, FoldLeft, MapThenFoldSet
<1>4. F \in [(1 .. n) \X Cursor -> Cursor]
  BY <1>2
<1>5. PICK g : Folds(g, n, Cursor, c, F)
  <2> HIDE DEF F
  <2> QED BY <1>1, <1>4, FoldExists
<1>6. P(g)
  <2>1. ASSUME NEW s \in SUBSET (1 .. n), s # {}
        PROVE  F[<<Max(s), g[s \ {Max(s)}]>>] = up(g[s \ {Max(s)}])
    <3>1. Max(s) \in 1 .. n /\ g[s \ {Max(s)}] \in Cursor
      BY <1>1, <1>5, <2>1, MaxOfInterval DEF Folds
    <3> QED BY <3>1
  <2> HIDE DEF F
  <2> QED BY <1>1, <1>5, <2>1 DEF Folds
<1>7. P(g0)
  <2> HIDE DEF P
  <2> QED BY <1>6, Zenon
<1> HIDE DEF g0
<1>8. Steps(g0, n, Cursor, c, F)
  BY <1>1, <1>7, MaxOfInterval DEF Steps
<1> HIDE DEF F
<1> QED BY <1>1, <1>3, <1>4, <1>8, FoldWithin

\* All the steps of a Pop.
LEMMA DownsType ==
  ASSUME NEW n \in Nat, NEW c \in Cursor
  PROVE  Repeat(down, c, n) \in Cursor
<1> DEFINE ks == [k \in 1 .. n |-> k]
           P(g) == g = [s \in SUBSET DOMAIN ks |->
                          IF s = {} THEN c
                          ELSE LET x == Max(s) IN down(g[s \ {x}])]
           g0 == CHOOSE g : P(g)
           F == [p \in (1 .. n) \X Cursor |-> down(p[2])]
<1>1. n \in Nat /\ DOMAIN ks = 1 .. n /\ c \in Cursor
  OBVIOUS
<1>2. \A x \in Cursor, i \in 1 .. n : down(x) \in Cursor
  BY DownType
<1>3. Repeat(down, c, n) = g0[1 .. n]
  BY <1>1 DEF Repeat, FoldLeft, MapThenFoldSet
<1>4. F \in [(1 .. n) \X Cursor -> Cursor]
  BY <1>2
<1>5. PICK g : Folds(g, n, Cursor, c, F)
  <2> HIDE DEF F
  <2> QED BY <1>1, <1>4, FoldExists
<1>6. P(g)
  <2>1. ASSUME NEW s \in SUBSET (1 .. n), s # {}
        PROVE  F[<<Max(s), g[s \ {Max(s)}]>>] = down(g[s \ {Max(s)}])
    <3>1. Max(s) \in 1 .. n /\ g[s \ {Max(s)}] \in Cursor
      BY <1>1, <1>5, <2>1, MaxOfInterval DEF Folds
    <3> QED BY <3>1
  <2> HIDE DEF F
  <2> QED BY <1>1, <1>5, <2>1 DEF Folds
<1>7. P(g0)
  <2> HIDE DEF P
  <2> QED BY <1>6, Zenon
<1> HIDE DEF g0
<1>8. Steps(g0, n, Cursor, c, F)
  BY <1>1, <1>7, MaxOfInterval DEF Steps
<1> HIDE DEF F
<1> QED BY <1>1, <1>3, <1>4, <1>8, FoldWithin

\* Push adds an entry (txpool.go:46).
LEMMA PushType ==
  ASSUME NEW h \in Heap, NEW e \in Entry
  PROVE  Push(h, e) \in Heap
<1> DEFINE c == [h |-> Append(h, e), at |-> Len(h) + 1]
<1>1. c \in Cursor /\ Len(h) \in Nat
  BY DEF Cursor, Heap
<1> HIDE DEF c
<1>2. Repeat(up, c, Len(h)) \in Cursor
  BY <1>1, UpsType
<1> QED BY <1>2 DEF Push, c, Cursor

\* What Pop leaves are entries (txpool.go:50).
LEMMA PoppedType ==
  ASSUME NEW h \in Heap, h # <<>>
  PROVE  Popped(h) \in Heap
<1>1. CASE Len(h) = 1
  BY <1>1 DEF Popped, Heap
<1>2. CASE Len(h) # 1
  <2> DEFINE w == Swap(h, 1, Len(h))
             c == [h |-> Front(w), at |-> 1]
  <2>1. Len(h) \in Nat /\ Len(h) > 1 /\ DOMAIN h = 1 .. Len(h)
    BY <1>2 DEF Heap
  <2>2. w \in Heap /\ Len(w) = Len(h)
    <3>1. 1 \in DOMAIN h /\ Len(h) \in DOMAIN h
      BY <2>1
    <3> QED BY <3>1, SwapType
  <2>3. \A i \in 1 .. Len(w) - 1 : w[i] \in Entry
    BY <2>1, <2>2 DEF Heap
  <2> HIDE DEF w
  <2>4. Front(w) \in Heap /\ Len(Front(w)) = Len(h) - 1
    <3>1. 1 \in Int /\ Len(w) - 1 \in Int
      BY <2>1, <2>2
    <3> QED BY <2>1, <2>2, <2>3, <3>1, SubSeqProperties DEF Front, Heap
  <2>5. c \in Cursor
    BY <2>1, <2>4 DEF Cursor, Heap
  <2> HIDE DEF c
  <2>6. Repeat(down, c, Len(h)) \in Cursor
    BY <2>1, <2>5, DownsType
  <2> QED BY <1>2, <2>6 DEF Popped, Cursor, c, w
<1> QED BY <1>1, <1>2

\* What Pendings and Filter take out of a heap to put it back (txpool.go:276).
Moves == [from : Heap, out : Seq(Entry), i : Nat]

\* One of them.
LEMMA MovingType ==
  ASSUME NEW s \in Moves
  PROVE  Moving(s) \in Moves
<1>1. CASE s.i >= Len(s.from)
  BY <1>1 DEF Moving
<1>2. CASE ~(s.i >= Len(s.from))
  <2>1. s.from \in Heap /\ s.from # <<>> /\ s.out \in Seq(Entry) /\ s.i \in Nat
    BY <1>2 DEF Moves, Heap
  <2>2. Popped(s.from) \in Heap
    BY <2>1, PoppedType
  <2>3. Head(s.from) \in Entry
    BY <2>1 DEF Heap
  <2>4. Append(s.out, Head(s.from)) \in Seq(Entry)
    BY <2>1, <2>3
  <2> QED BY <1>2, <2>1, <2>2, <2>4 DEF Moving, Moves
<1> QED BY <1>1, <1>2

\* All of them.
LEMMA MovesType ==
  ASSUME NEW n \in Nat, NEW m \in Moves
  PROVE  Repeat(Moving, m, n) \in Moves
<1> DEFINE ks == [k \in 1 .. n |-> k]
           P(g) == g = [s \in SUBSET DOMAIN ks |->
                          IF s = {} THEN m
                          ELSE LET x == Max(s) IN Moving(g[s \ {x}])]
           g0 == CHOOSE g : P(g)
           F == [p \in (1 .. n) \X Moves |-> Moving(p[2])]
<1>1. n \in Nat /\ DOMAIN ks = 1 .. n /\ m \in Moves
  OBVIOUS
<1>2. \A x \in Moves, i \in 1 .. n : Moving(x) \in Moves
  BY MovingType
<1>3. Repeat(Moving, m, n) = g0[1 .. n]
  BY <1>1 DEF Repeat, FoldLeft, MapThenFoldSet
<1>4. F \in [(1 .. n) \X Moves -> Moves]
  BY <1>2
<1>5. PICK g : Folds(g, n, Moves, m, F)
  <2> HIDE DEF F
  <2> QED BY <1>1, <1>4, FoldExists
<1>6. P(g)
  <2>1. ASSUME NEW s \in SUBSET (1 .. n), s # {}
        PROVE  F[<<Max(s), g[s \ {Max(s)}]>>] = Moving(g[s \ {Max(s)}])
    <3>1. Max(s) \in 1 .. n /\ g[s \ {Max(s)}] \in Moves
      BY <1>1, <1>5, <2>1, MaxOfInterval DEF Folds
    <3> QED BY <3>1
  <2> HIDE DEF F
  <2> QED BY <1>1, <1>5, <2>1 DEF Folds
<1>7. P(g0)
  <2> HIDE DEF P
  <2> QED BY <1>6, Zenon
<1> HIDE DEF g0
<1>8. Steps(g0, n, Moves, m, F)
  BY <1>1, <1>7, MaxOfInterval DEF Steps
<1> HIDE DEF F
<1> QED BY <1>1, <1>3, <1>4, <1>8, FoldWithin

\* Requeued divides a heap.
LEMMA RequeuedType ==
  ASSUME NEW h \in Heap
  PROVE  Requeued(h).from \in Heap /\ Requeued(h).out \in Seq(Entry)
<1> DEFINE m == [from |-> h, out |-> <<>>, i |-> 0]
<1>1. m \in Moves /\ Len(h) \in Nat
  BY DEF Moves, Heap
<1> HIDE DEF m
<1>2. Repeat(Moving, m, Len(h)) \in Moves
  BY <1>1, MovesType
<1> QED BY <1>2 DEF Requeued, Moves, m

\* Entries pushed one by one.
LEMMA PushAllType ==
  ASSUME NEW h \in Heap, NEW es \in Seq(Entry)
  PROVE  PushAll(h, es) \in Heap
<1> DEFINE P(g) == g = [s \in SUBSET DOMAIN es |->
                          IF s = {} THEN h
                          ELSE LET x == Max(s) IN Push(g[s \ {x}], es[x])]
           g0 == CHOOSE g : P(g)
           F == [p \in (1 .. Len(es)) \X Heap |-> Push(p[2], es[p[1]])]
<1>1. Len(es) \in Nat /\ DOMAIN es = 1 .. Len(es) /\ h \in Heap
  OBVIOUS
<1>2. \A x \in Heap, i \in 1 .. Len(es) : Push(x, es[i]) \in Heap
  BY PushType
<1>3. PushAll(h, es) = g0[1 .. Len(es)]
  BY <1>1 DEF PushAll, FoldLeft, MapThenFoldSet
<1>4. F \in [(1 .. Len(es)) \X Heap -> Heap]
  BY <1>2
<1>5. PICK g : Folds(g, Len(es), Heap, h, F)
  <2> HIDE DEF F
  <2> QED BY <1>1, <1>4, FoldExists
<1>6. P(g)
  <2>1. ASSUME NEW s \in SUBSET (1 .. Len(es)), s # {}
        PROVE  F[<<Max(s), g[s \ {Max(s)}]>>] = Push(g[s \ {Max(s)}], es[Max(s)])
    <3>1. Max(s) \in 1 .. Len(es) /\ g[s \ {Max(s)}] \in Heap
      BY <1>1, <1>5, <2>1, MaxOfInterval DEF Folds
    <3> QED BY <3>1
  <2> HIDE DEF F
  <2> QED BY <1>1, <1>5, <2>1 DEF Folds
<1>7. P(g0)
  <2> HIDE DEF P
  <2> QED BY <1>6, Zenon
<1> HIDE DEF g0
<1>8. Steps(g0, Len(es), Heap, h, F)
  BY <1>1, <1>7, MaxOfInterval DEF Steps
<1> HIDE DEF F
<1> QED BY <1>1, <1>3, <1>4, <1>8, FoldWithin

\* What an entry of the heap adds to the ones that stay.
Stays(left, e, b) == IF InBlock(e, b) THEN left ELSE Append(left, e)

\* The entries that a block leaves (Filter).
LEMMA KeepType ==
  ASSUME NEW h \in Heap, NEW b
  PROVE  Keep(h, b) \in Heap
<1> DEFINE P(g) == g = [s \in SUBSET DOMAIN h |->
                          IF s = {} THEN <<>>
                          ELSE LET x == Max(s) IN Stays(g[s \ {x}], h[x], b)]
           g0 == CHOOSE g : P(g)
           F == [p \in (1 .. Len(h)) \X Heap |-> Stays(p[2], h[p[1]], b)]
<1>1. Len(h) \in Nat /\ DOMAIN h = 1 .. Len(h) /\ <<>> \in Heap
  BY DEF Heap
<1>2. \A x \in Heap, i \in 1 .. Len(h) : Stays(x, h[i], b) \in Heap
  BY DEF Stays, Heap
<1>3. Keep(h, b) = g0[1 .. Len(h)]
  BY <1>1 DEF Keep, Stays, FoldLeft, MapThenFoldSet
<1>4. F \in [(1 .. Len(h)) \X Heap -> Heap]
  BY <1>2
<1>5. PICK g : Folds(g, Len(h), Heap, <<>>, F)
  <2> HIDE DEF F
  <2> QED BY <1>1, <1>4, FoldExists
<1>6. P(g)
  <2>1. ASSUME NEW s \in SUBSET (1 .. Len(h)), s # {}
        PROVE  F[<<Max(s), g[s \ {Max(s)}]>>] = Stays(g[s \ {Max(s)}], h[Max(s)], b)
    <3>1. Max(s) \in 1 .. Len(h) /\ g[s \ {Max(s)}] \in Heap
      BY <1>1, <1>5, <2>1, MaxOfInterval DEF Folds
    <3> QED BY <3>1
  <2> HIDE DEF F
  <2> QED BY <1>1, <1>5, <2>1 DEF Folds
<1>7. P(g0)
  <2> HIDE DEF P
  <2> QED BY <1>6, Zenon
<1> HIDE DEF g0
<1>8. Steps(g0, Len(h), Heap, <<>>, F)
  BY <1>1, <1>7, MaxOfInterval DEF Steps
<1> HIDE DEF F
<1> QED BY <1>1, <1>3, <1>4, <1>8, FoldWithin

---------------------------------------------------------------------------
(***************************************************************************)
(* What Pendings selects.                                                  *)
(***************************************************************************)

Bases == [Addresses -> Nat \ {0}]

\* A nonce of a that is selected, or was left out with a refused script.
Counted(s, a, k) ==
  \E t \in Payments : /\ t \in s.refused \/ \E i \in DOMAIN s.pending : s.pending[i] = t
                      /\ SenderOf[t] = a /\ NonceOf[t] = k

\* No transaction is behind its account; item is the last nonce of a sender,
\* and all between one that is selected and item are counted.
NotBehind(s, base) ==
  \A i \in DOMAIN s.pending : NonceOf[s.pending[i]] >= base[SenderOf[s.pending[i]]]

UpToItem(s) ==
  \A i \in DOMAIN s.pending :
    /\ NonceOf[s.pending[i]] <= s.item[SenderOf[s.pending[i]]]
    /\ \A k \in NonceOf[s.pending[i]] + 1 .. s.item[SenderOf[s.pending[i]]] :
         Counted(s, SenderOf[s.pending[i]], k)

InRuns(s) ==
  \A i, l \in DOMAIN s.pending : i < l /\ SenderOf[s.pending[i]] = SenderOf[s.pending[l]] =>
    /\ NonceOf[s.pending[i]] < NonceOf[s.pending[l]]
    /\ \A k \in NonceOf[s.pending[i]] + 1 .. NonceOf[s.pending[l]] - 1 :
         Counted(s, SenderOf[s.pending[i]], k)

SelectType == [stage : {"idle", "selecting", "pending"}, queue : Heap, pending : Seq(Payments),
               read : SUBSET Addresses, refused : SUBSET Payments, item : [Addresses -> Nat],
               seen : Nat]

\* Of the nonces only those of the height at which Pendings began are known; base
\* are those of height h.
Selection(base, h) ==
  {s \in SelectType : /\ s.stage = "selecting" /\ s.seen <= h
                      /\ s.seen = h => NotBehind(s, base)
                      /\ UpToItem(s) /\ InRuns(s)}

\* The nonces of transactions.
LEMMA PaymentType ==
  ASSUME NEW t \in Payments
  PROVE  SenderOf[t] \in Addresses /\ NonceOf[t] \in Nat \ {0}
  BY PoolAssumption DEF Addresses

\* Deferring and reading balances select nothing.
LEMMA SelectionKept ==
  ASSUME NEW base \in Bases, NEW h \in Nat, NEW s \in Selection(base, h), NEW r \in SelectType,
         r.pending = s.pending, r.refused = s.refused, r.item = s.item,
         r.stage = s.stage, r.seen = s.seen
  PROVE  r \in Selection(base, h)
  BY DEF Selection, NotBehind, UpToItem, InRuns, Counted

\* A first look at a sender none of whose transactions is selected.
LEMMA SelectionBegins ==
  ASSUME NEW base \in Bases, NEW h \in Nat, NEW s \in Selection(base, h), NEW r \in SelectType,
         NEW a \in Addresses, s.item[a] = 0, NEW k \in Nat, r.stage = s.stage, r.seen = s.seen,
         r.pending = s.pending, r.refused = s.refused, r.item = [s.item EXCEPT ![a] = k]
  PROVE  r \in Selection(base, h)
<1>1. ASSUME NEW i \in DOMAIN s.pending
      PROVE  s.pending[i] \in Payments /\ SenderOf[s.pending[i]] # a
  <2>1. s.pending[i] \in Payments
    BY DEF Selection, SelectType
  <2>2. NonceOf[s.pending[i]] \in Nat \ {0}
    BY <2>1, PaymentType
  <2>3. NonceOf[s.pending[i]] <= s.item[SenderOf[s.pending[i]]]
    BY DEF Selection, UpToItem
  <2> QED BY <2>1, <2>2, <2>3
<1>2. \A i \in DOMAIN s.pending : r.item[SenderOf[s.pending[i]]] = s.item[SenderOf[s.pending[i]]]
  BY <1>1 DEF Selection, SelectType
<1>3. \A b, m : Counted(s, b, m) => Counted(r, b, m)
  BY DEF Counted
<1>4. UpToItem(r)
  BY <1>2, <1>3 DEF UpToItem, Selection
<1>5. (r.seen = h => NotBehind(r, base)) /\ InRuns(r) /\ r.stage = "selecting" /\ r.seen <= h
  BY <1>3 DEF NotBehind, InRuns, Selection
<1> QED BY <1>4, <1>5 DEF Selection

\* The next transaction of a sender is selected, or its script is refused.
LEMMA SelectionGrows ==
  ASSUME NEW base \in Bases, NEW h \in Nat, NEW s \in Selection(base, h), NEW r \in SelectType,
         r.stage = s.stage, r.seen = s.seen, NEW t \in Payments, NonceOf[t] >= base[SenderOf[t]],
         s.item[SenderOf[t]] = 0 \/ NonceOf[t] = s.item[SenderOf[t]] + 1,
         r.item = [s.item EXCEPT ![SenderOf[t]] = NonceOf[t]],
         \/ r.pending = Append(s.pending, t) /\ r.refused = s.refused
         \/ r.pending = s.pending /\ r.refused = s.refused \cup {t}
  PROVE  r \in Selection(base, h)
<1> DEFINE a == SenderOf[t]
           p == s.pending
           n == Len(p)
<1>1. /\ p \in Seq(Payments) /\ n \in Nat /\ DOMAIN p = 1 .. n
      /\ a \in Addresses /\ NonceOf[t] \in Nat \ {0} /\ s.item \in [Addresses -> Nat]
  BY PaymentType DEF Selection, SelectType
<1>2. /\ \A i \in 1 .. n : r.pending[i] = p[i] /\ i \in DOMAIN r.pending
      /\ \A i \in DOMAIN r.pending : i \in 1 .. n \/ (i = n + 1 /\ r.pending[i] = t)
      /\ s.refused \subseteq r.refused
  <2>1. CASE r.pending = Append(s.pending, t) /\ r.refused = s.refused
    <3> HIDE DEF p, n
    <3>1. \A q \in Seq(Payments) : \A i \in 1 .. Len(q) : Append(q, t)[i] = q[i]
      OBVIOUS
    <3>2. Append(p, t)[n + 1] = t /\ DOMAIN Append(p, t) = 1 .. n + 1
      BY <1>1 DEF n
    <3>3. DOMAIN r.pending = 1 .. n + 1 /\ r.pending = Append(p, t)
      BY <2>1, <3>2 DEF p
    <3>4. \A i \in 1 .. n : r.pending[i] = p[i]
      BY <1>1, <3>1, <3>3 DEF n
    <3>5. \A i \in 1 .. n + 1 : i \in 1 .. n \/ i = n + 1
      BY <1>1
    <3>6. 1 .. n \subseteq 1 .. n + 1
      BY <1>1
    <3> QED BY <2>1, <3>2, <3>3, <3>4, <3>5, <3>6
  <2>2. CASE r.pending = s.pending /\ r.refused = s.refused \cup {t}
    <3>1. DOMAIN r.pending = 1 .. n /\ r.pending = p
      BY <1>1, <2>2
    <3> HIDE DEF p, n
    <3> QED BY <2>2, <3>1
  <2> QED BY <2>1, <2>2
<1>3. ASSUME NEW i \in 1 .. n
      PROVE  /\ p[i] \in Payments /\ SenderOf[p[i]] \in Addresses /\ NonceOf[p[i]] \in Nat \ {0}
             /\ NonceOf[p[i]] <= s.item[SenderOf[p[i]]]
             /\ s.item[SenderOf[p[i]]] \in Nat
             /\ SenderOf[p[i]] = a => NonceOf[p[i]] < NonceOf[t]
  <2>1. p[i] \in Payments
    BY <1>1
  <2>2. SenderOf[p[i]] \in Addresses /\ NonceOf[p[i]] \in Nat \ {0}
    BY <2>1, PaymentType
  <2>3. NonceOf[p[i]] <= s.item[SenderOf[p[i]]]
    BY <1>1 DEF Selection, UpToItem
  <2>4. s.item[SenderOf[p[i]]] \in Nat
    BY <1>1, <2>2
  <2>5. CASE SenderOf[p[i]] = a
    BY <1>1, <2>1, <2>2, <2>3, <2>4, <2>5
  <2> QED BY <2>1, <2>2, <2>3, <2>4, <2>5
<1>4. ASSUME NEW b, NEW k, Counted(s, b, k) PROVE Counted(r, b, k)
  <2>1. PICK u \in Payments :
          /\ u \in s.refused \/ \E i \in DOMAIN s.pending : s.pending[i] = u
          /\ SenderOf[u] = b /\ NonceOf[u] = k
    BY <1>4 DEF Counted
  <2>2. u \in r.refused \/ \E i \in DOMAIN r.pending : r.pending[i] = u
    BY <1>1, <1>2, <2>1
  <2> QED BY <2>1, <2>2 DEF Counted
<1>5. Counted(r, a, NonceOf[t])
  <2>1. t \in r.refused \/ \E i \in DOMAIN r.pending : r.pending[i] = t
    <3>1. CASE r.pending = Append(p, t)
      <4>1. n + 1 \in DOMAIN r.pending /\ r.pending[n + 1] = t
        BY <1>1, <3>1
      <4> QED BY <4>1
    <3> QED BY <3>1
  <2> QED BY <2>1 DEF Counted
<1>6. ASSUME NEW i \in 1 .. n, NEW k \in NonceOf[p[i]] + 1 .. s.item[SenderOf[p[i]]]
      PROVE  Counted(r, SenderOf[p[i]], k)
  <2>1. Counted(s, SenderOf[p[i]], k)
    BY <1>1, <1>6 DEF Selection, UpToItem
  <2> QED BY <1>4, <2>1
<1>7. r.seen = h => NotBehind(r, base)
  BY <1>1, <1>2 DEF Selection, NotBehind
<1>8. UpToItem(r)
  <2> SUFFICES ASSUME NEW i \in DOMAIN r.pending
               PROVE  /\ NonceOf[r.pending[i]] <= r.item[SenderOf[r.pending[i]]]
                      /\ \A k \in NonceOf[r.pending[i]] + 1 .. r.item[SenderOf[r.pending[i]]] :
                           Counted(r, SenderOf[r.pending[i]], k)
    BY DEF UpToItem
  <2>1. r.item[a] = NonceOf[t]
    BY <1>1
  <2>2. CASE i \in 1 .. n /\ SenderOf[p[i]] = a
    <3>1. r.pending[i] = p[i] /\ s.item[a] # 0 /\ NonceOf[t] = s.item[a] + 1
      BY <1>2, <1>3, <2>2
    <3>2. ASSUME NEW k \in NonceOf[p[i]] + 1 .. NonceOf[t] PROVE Counted(r, a, k)
      <4>1. k = NonceOf[t] \/ k \in NonceOf[p[i]] + 1 .. s.item[SenderOf[p[i]]]
        BY <1>1, <1>3, <2>2, <3>1
      <4> QED BY <1>5, <1>6, <2>2, <4>1
    <3> QED BY <1>1, <1>3, <2>1, <2>2, <3>1, <3>2
  <2>3. CASE i \in 1 .. n /\ SenderOf[p[i]] # a
    <3>1. r.pending[i] = p[i] /\ r.item[SenderOf[p[i]]] = s.item[SenderOf[p[i]]]
      BY <1>1, <1>2, <1>3, <2>3
    <3> QED BY <1>3, <1>6, <2>3, <3>1
  <2>4. CASE r.pending[i] = t
    BY <1>1, <2>1, <2>4
  <2> QED BY <1>2, <2>2, <2>3, <2>4
<1>9. InRuns(r)
  <2> SUFFICES ASSUME NEW i \in DOMAIN r.pending, NEW l \in DOMAIN r.pending, i < l,
                      SenderOf[r.pending[i]] = SenderOf[r.pending[l]]
               PROVE  /\ NonceOf[r.pending[i]] < NonceOf[r.pending[l]]
                      /\ \A k \in NonceOf[r.pending[i]] + 1 .. NonceOf[r.pending[l]] - 1 :
                           Counted(r, SenderOf[r.pending[i]], k)
    BY DEF InRuns
  <2>1. i \in 1 .. n
    BY <1>1, <1>2
  <2>2. CASE l \in 1 .. n
    <3>1. r.pending[i] = p[i] /\ r.pending[l] = p[l]
      BY <1>2, <2>1, <2>2
    <3>2. /\ NonceOf[p[i]] < NonceOf[p[l]]
          /\ \A k \in NonceOf[p[i]] + 1 .. NonceOf[p[l]] - 1 : Counted(s, SenderOf[p[i]], k)
      BY <1>1, <2>1, <2>2, <3>1 DEF Selection, InRuns
    <3> QED BY <1>4, <3>1, <3>2
  <2>3. CASE l = n + 1 /\ r.pending[l] = t
    <3>1. r.pending[i] = p[i] /\ SenderOf[p[i]] = a
      BY <1>2, <2>1, <2>3
    <3>2. NonceOf[t] - 1 = s.item[a] /\ NonceOf[p[i]] < NonceOf[t]
      <4>1. s.item[a] = 0 \/ NonceOf[t] = s.item[a] + 1
        OBVIOUS
      <4>2. /\ NonceOf[p[i]] \in Nat \ {0} /\ NonceOf[p[i]] <= s.item[a]
            /\ NonceOf[p[i]] < NonceOf[t] /\ s.item[a] \in Nat
        BY <1>3, <2>1, <3>1
      <4> QED BY <4>1, <4>2
    <3>3. \A k \in NonceOf[p[i]] + 1 .. s.item[a] : Counted(r, a, k)
      BY <1>6, <2>1, <3>1
    <3> QED BY <2>3, <3>1, <3>2, <3>3
  <2> QED BY <1>2, <2>2, <2>3
<1>10. r.stage = "selecting" /\ r.seen <= h
  BY DEF Selection
<1> QED BY <1>7, <1>8, <1>9, <1>10 DEF Selection

\* Use selects the transaction, leaves it out for good, or drops it.
LEMMA UseType ==
  ASSUME NEW base \in Bases, NEW h \in Nat, NEW s \in Selection(base, h), NEW e \in Entry,
         NEW covered, NEW bad,
         NonceOf[e.tx] >= base[SenderOf[e.tx]],
         s.item[SenderOf[e.tx]] = 0 \/ NonceOf[e.tx] = s.item[SenderOf[e.tx]] + 1
  PROVE  Use(s, e, covered, bad) \in Selection(base, h)
<1>1. /\ s \in SelectType /\ e.tx \in Payments
      /\ SenderOf[e.tx] \in Addresses /\ NonceOf[e.tx] \in Nat
  BY PaymentType DEF Selection, Entry
<1>2. Skip(s, e) \in Selection(base, h)
  <2> DEFINE r == Skip(s, e)
  <2>1. /\ r \in SelectType /\ r.pending = s.pending /\ r.refused = s.refused \cup {e.tx}
        /\ r.stage = s.stage /\ r.seen = s.seen
        /\ r.item = [s.item EXCEPT ![SenderOf[e.tx]] = NonceOf[e.tx]]
    BY <1>1 DEF Skip, SelectType
  <2> HIDE DEF r
  <2>2. r \in Selection(base, h)
    BY <1>1, <2>1, SelectionGrows
  <2> QED BY <2>2 DEF r
<1>3. Take(s, e) \in Selection(base, h)
  <2> DEFINE r == Take(s, e)
  <2>1. /\ Append(s.pending, e.tx) \in Seq(Payments)
        /\ [s.item EXCEPT ![SenderOf[e.tx]] = NonceOf[e.tx]] \in [Addresses -> Nat]
    BY <1>1 DEF SelectType
  <2>2. r = [s EXCEPT !.pending = Append(s.pending, e.tx),
                      !.item = [s.item EXCEPT ![SenderOf[e.tx]] = NonceOf[e.tx]]]
    BY <1>1 DEF Take, SelectType
  <2>3. /\ r \in SelectType /\ r.pending = Append(s.pending, e.tx) /\ r.refused = s.refused
        /\ r.stage = s.stage /\ r.seen = s.seen
        /\ r.item = [s.item EXCEPT ![SenderOf[e.tx]] = NonceOf[e.tx]]
    BY <1>1, <2>1, <2>2 DEF SelectType
  <2> HIDE DEF r
  <2>4. r \in Selection(base, h)
    BY <1>1, <2>3, SelectionGrows
  <2> QED BY <2>4 DEF r
<1> QED BY <1>2, <1>3 DEF Use, Drop

\* So does Sort, or it defers the transaction.
LEMMA SortType ==
  ASSUME NEW n \in Nodes, nonce[n] \in Bases, height[n] \in Nat,
         NEW s \in Selection(nonce[n], height[n]), NEW e \in Entry,
         NEW covered \in BOOLEAN, NEW bad
  PROVE  Sort(s, e, covered, bad, n) \in Selection(nonce[n], height[n])
<1> DEFINE a == SenderOf[e.tx]
           k == NonceOf[e.tx]
           r == [s EXCEPT !.read = @ \cup {a}]
           b == [r EXCEPT !.item[a] = nonce[n][a]]
<1>1. /\ s \in SelectType /\ e.tx \in Payments /\ a \in Addresses
      /\ k \in Nat /\ nonce[n][a] \in Nat
  BY PaymentType DEF Selection, Entry, Bases
<1>2. /\ r \in SelectType /\ r.pending = s.pending /\ r.refused = s.refused /\ r.item = s.item
      /\ r.stage = s.stage /\ r.seen = s.seen
  BY <1>1 DEF SelectType
<1>3. r \in Selection(nonce[n], height[n])
  <2> HIDE DEF r
  <2> QED BY <1>2, SelectionKept
<1>4. ASSUME s.item[a] = 0 PROVE b \in Selection(nonce[n], height[n])
  <2>1. /\ b \in SelectType /\ b.pending = r.pending /\ b.refused = r.refused
        /\ b.stage = r.stage /\ b.seen = r.seen
        /\ b.item = [r.item EXCEPT ![a] = nonce[n][a]]
    <3> HIDE DEF r
    <3> QED BY <1>1, <1>2 DEF SelectType
  <2> HIDE DEF b, r
  <2>2. r.item[a] = 0
    BY <1>2, <1>4
  <2> QED BY <1>1, <1>3, <2>1, <2>2, SelectionBegins
<1>5. ASSUME NEW x \in Selection(nonce[n], height[n]) PROVE Defer(x, e) \in Selection(nonce[n], height[n])
  <2> DEFINE y == Defer(x, e)
  <2>1. x \in SelectType
    BY DEF Selection
  <2>2. Push(x.queue, e) \in Heap
    BY <2>1, PushType DEF SelectType
  <2>3. /\ y \in SelectType /\ y.pending = x.pending /\ y.refused = x.refused /\ y.item = x.item
        /\ y.stage = x.stage /\ y.seen = x.seen
    BY <2>1, <2>2 DEF Defer, SelectType
  <2> HIDE DEF y
  <2>4. y \in Selection(nonce[n], height[n])
    BY <2>3, SelectionKept
  <2> QED BY <2>4 DEF y
<1> HIDE DEF r, b
<1>6. CASE k < nonce[n][a] \/ Unread(s, e, covered)
  <2>1. Sort(s, e, covered, bad, n) = s
    BY <1>1, <1>6 DEF Sort, Drop
  <2> QED BY <2>1
<1>7. CASE k = nonce[n][a] /\ ~Unread(s, e, covered)
  <2>1. Sort(s, e, covered, bad, n) = IF s.item[a] = 0 THEN Use(r, e, covered, bad) ELSE r
    BY <1>1, <1>7 DEF Sort, Drop, r
  <2>2. s.item[a] = 0 => Use(r, e, covered, bad) \in Selection(nonce[n], height[n])
    BY <1>1, <1>2, <1>3, <1>7, UseType
  <2> QED BY <1>3, <2>1, <2>2
<1>8. CASE k > nonce[n][a] /\ ~Unread(s, e, covered)
  <2>1. Sort(s, e, covered, bad, n) =
          IF s.item[a] = 0 THEN Defer(b, e)
          ELSE IF Follows(s, e) THEN Use(r, e, covered, bad) ELSE Defer(r, e)
    BY <1>1, <1>8 DEF Sort, b, r
  <2>2. Follows(s, e) => Use(r, e, covered, bad) \in Selection(nonce[n], height[n])
    BY <1>1, <1>2, <1>3, <1>8, UseType DEF Follows
  <2> QED BY <1>3, <1>4, <1>5, <2>1, <2>2
<1> QED BY <1>1, <1>6, <1>7, <1>8

---------------------------------------------------------------------------
(***************************************************************************)
(* The chain.  at is the nonces of every height: those that the first      *)
(* block of the height in the log leaves.                                  *)
(***************************************************************************)

\* One transaction's nonce (setAccount).
NonceAfter(f, t) == [f EXCEPT ![SenderOf[t]] = NonceOf[t] + 1]

\* A block leaves a nonce for each account (blockchain.go:214).
LEMMA NoncesAfterType ==
  ASSUME NEW f \in Bases, NEW b \in Seq(Payments)
  PROVE  NoncesAfter(f, b) \in Bases
<1> DEFINE P(g) == g = [s \in SUBSET DOMAIN b |->
                          IF s = {} THEN f
                          ELSE LET x == Max(s) IN NonceAfter(g[s \ {x}], b[x])]
           g0 == CHOOSE g : P(g)
           F == [p \in (1 .. Len(b)) \X Bases |-> NonceAfter(p[2], b[p[1]])]
<1>1. Len(b) \in Nat /\ DOMAIN b = 1 .. Len(b) /\ f \in Bases
  OBVIOUS
<1>2. \A x \in Bases, i \in 1 .. Len(b) : NonceAfter(x, b[i]) \in Bases
  BY PaymentType DEF NonceAfter, Bases
<1>3. NoncesAfter(f, b) = g0[1 .. Len(b)]
  BY <1>1 DEF NoncesAfter, NonceAfter, FoldLeft, MapThenFoldSet
<1>4. F \in [(1 .. Len(b)) \X Bases -> Bases]
  BY <1>2
<1>5. PICK g : Folds(g, Len(b), Bases, f, F)
  <2> HIDE DEF F
  <2> QED BY <1>1, <1>4, FoldExists
<1>6. P(g)
  <2>1. ASSUME NEW s \in SUBSET (1 .. Len(b)), s # {}
        PROVE  F[<<Max(s), g[s \ {Max(s)}]>>] = NonceAfter(g[s \ {Max(s)}], b[Max(s)])
    <3>1. Max(s) \in 1 .. Len(b) /\ g[s \ {Max(s)}] \in Bases
      BY <1>1, <1>5, <2>1, MaxOfInterval DEF Folds
    <3> QED BY <3>1
  <2> HIDE DEF F
  <2> QED BY <1>1, <1>5, <2>1 DEF Folds
<1>7. P(g0)
  <2> HIDE DEF P
  <2> QED BY <1>6, Zenon
<1> HIDE DEF g0
<1>8. Steps(g0, Len(b), Bases, f, F)
  BY <1>1, <1>7, MaxOfInterval DEF Steps
<1> HIDE DEF F
<1> QED BY <1>1, <1>3, <1>4, <1>8, FoldWithin

Block == [height : Nat \ {0}, txs : Seq(Payments), refused : SUBSET Payments, seen : Nat]

PoolType ==
  /\ List \in [Nodes -> Heap] /\ packing \in [Nodes -> SelectType] /\ proposals \subseteq Block
  /\ nonce \in [Nodes -> Bases]
  /\ height \in [Nodes -> Nat] /\ applied \in [Nodes -> Nat]
  /\ log \in Seq(Block) /\ clock \in Nat

\* What is being packed: runs, that are not behind the account unless the height
\* has changed since Pendings began.
Packed(s, base, h) ==
  /\ s.stage = "idle" => s.pending = <<>>
  /\ s.stage = "selecting" => UpToItem(s)
  /\ s.seen <= h
  /\ s.seen = h => NotBehind(s, base)
  /\ InRuns(s)

PackInv == \A n \in Nodes : Packed(packing[n], nonce[n], height[n])

\* A node has handled a part of the log in which every height up to its own
\* occurs and none after it; no height is missing in the log.
HeightsInv ==
  /\ \A n \in Nodes :
       /\ applied[n] <= Len(log)
       /\ \A j \in 1 .. applied[n] : log[j].height <= height[n]
       /\ \A h \in 1 .. height[n] : \E j \in 1 .. applied[n] : log[j].height = h
  /\ \A i \in 1 .. Len(log) : \A h \in 1 .. log[i].height :
       \E j \in 1 .. i : log[j].height = h

\* Nor is one missing before a block that is proposed.
ProposalsInv ==
  \A b \in proposals :
    /\ HoldsRuns(b)
    /\ \A h \in 1 .. b.height - 1 : \E j \in 1 .. Len(log) : log[j].height = h

\* No transaction is behind the nonces f.
Current(f, txs) == \A i \in DOMAIN txs : NonceOf[txs[i]] >= f[SenderOf[txs[i]]]

\* Blocks packed at once are current with the nonces of the height before their own.
Chained(at) ==
  /\ at \in [Nat -> Bases]
  /\ \A n \in Nodes : nonce[n] = at[height[n]]
  /\ \A i \in 1 .. Len(log) :
       /\ PackedAtOnce(log[i]) => Current(at[log[i].height - 1], log[i].txs)
       /\ (\A j \in 1 .. i - 1 : log[j].height # log[i].height)
          => at[log[i].height] = NoncesAfter(at[log[i].height - 1], log[i].txs)
  /\ \A b \in proposals : PackedAtOnce(b) => Current(at[b.height - 1], b.txs)

ChainInv == \E at : Chained(at)

PoolInv == PoolType /\ PackInv /\ HeightsInv /\ ProposalsInv /\ ChainInv /\ BlocksHoldRuns

\* An idle node packs nothing.
LEMMA IdlePacked ==
  ASSUME NEW q \in Heap, NEW base, NEW h \in Nat
  PROVE  Unpacked(q) \in SelectType /\ Packed(Unpacked(q), base, h)
<1>1. Unpacked(q) \in SelectType
  BY DEF Unpacked, SelectType
<1>2. Unpacked(q).pending = <<>> /\ Unpacked(q).seen = 0
  BY DEF Unpacked
<1>3. /\ UpToItem(Unpacked(q)) /\ NotBehind(Unpacked(q), base) /\ InRuns(Unpacked(q))
      /\ Unpacked(q).seen <= h
  BY <1>2 DEF UpToItem, NotBehind, InRuns
<1> QED BY <1>1, <1>2, <1>3 DEF Packed

\* Empty pools, an empty chain.
LEMMA PoolInitially == PoolInit => PoolInv
<1> SUFFICES ASSUME PoolInit PROVE PoolInv
  OBVIOUS
<1> DEFINE at == [h \in Nat |-> [a \in Addresses |-> 1]]
<1>0. <<>> \in Heap
  BY DEF Heap
<1>1. PoolType /\ PackInv
  <2>1. \A n \in Nodes : packing[n] \in SelectType /\ Packed(packing[n], nonce[n], height[n])
    BY <1>0, IdlePacked DEF PoolInit
  <2>2. packing \in [Nodes -> SelectType]
    BY <2>1 DEF PoolInit
  <2> QED BY <1>0, <2>1, <2>2 DEF PoolInit, PoolType, PackInv, Bases
<1>2. HeightsInv /\ BlocksHoldRuns /\ ProposalsInv
  BY DEF PoolInit, HeightsInv, BlocksHoldRuns, ProposalsInv
<1>3. Chained(at)
  BY DEF PoolInit, Chained, Bases
<1> QED BY <1>1, <1>2, <1>3 DEF PoolInv, ChainInv

\* What the log holds.
LEMMA LogType ==
  ASSUME PoolType
  PROVE  /\ Len(log) \in Nat /\ DOMAIN log = 1 .. Len(log)
         /\ \A i \in 1 .. Len(log) :
              /\ log[i] \in Block
              /\ log[i].height \in Nat \ {0} /\ log[i].txs \in Seq(Payments)
              /\ log[i].refused \in SUBSET Payments /\ log[i].seen \in Nat
<1>1. log \in Seq(Block)
  BY DEF PoolType
<1>2. \A i \in 1 .. Len(log) : log[i] \in Block
  BY <1>1
<1> QED BY <1>1, <1>2 DEF Block

\* The invariant makes the next block verify.
LEMMA NextVerifies ==
  ASSUME PoolInv, NEW n \in Nodes, applied[n] < Len(log)
  PROVE  /\ Upcoming(n) \in Block /\ Upcoming(n) = log[applied[n] + 1]
         /\ applied[n] + 1 \in 1 .. Len(log)
         /\ Upcoming(n).height <= height[n] + 1
         /\ Upcoming(n).height = height[n] + 1 /\ PackedAtOnce(Upcoming(n))
            => VerifyBlock(n, Upcoming(n).txs)
<1> DEFINE i == applied[n] + 1
<1>1. /\ applied[n] \in Nat /\ height[n] \in Nat /\ i \in 1 .. Len(log) /\ i \in DOMAIN log
      /\ Upcoming(n) = log[i] /\ log[i] \in Block /\ log[i].height \in Nat \ {0}
  <2>1. /\ applied[n] \in Nat /\ height[n] \in Nat /\ Len(log) \in Nat
        /\ DOMAIN log = 1 .. Len(log)
    BY LogType DEF PoolInv, PoolType
  <2>2. i \in 1 .. Len(log)
    BY <2>1
  <2> QED BY <2>1, <2>2, LogType DEF PoolInv, Upcoming
<1>2. ASSUME log[i].height > height[n] + 1 PROVE FALSE
  <2>1. height[n] + 1 \in 1 .. log[i].height
    BY <1>1, <1>2
  <2>2. PICK j \in 1 .. i : log[j].height = height[n] + 1
    BY <1>1, <2>1 DEF PoolInv, HeightsInv
  <2>3. j # i
    BY <1>1, <1>2, <2>2
  <2>4. j \in 1 .. applied[n]
    BY <1>1, <2>3
  <2>5. log[j].height <= height[n]
    BY <2>4 DEF PoolInv, HeightsInv
  <2> QED BY <1>1, <2>2, <2>5
<1>3. ASSUME log[i].height = height[n] + 1, PackedAtOnce(log[i]) PROVE VerifyBlock(n, log[i].txs)
  <2>1. PICK at : Chained(at)
    BY DEF PoolInv, ChainInv
  <2>2. Current(at[log[i].height - 1], log[i].txs) /\ nonce[n] = at[height[n]]
    BY <1>1, <1>3, <2>1 DEF Chained
  <2>3. log[i].height - 1 = height[n]
    BY <1>1, <1>3
  <2> QED BY <2>2, <2>3 DEF Current, VerifyBlock
<1> QED BY <1>1, <1>2, <1>3

\* Steps that leave the log and the nodes' chains alone.
LEMMA ChainsKept ==
  ASSUME PoolInv, UNCHANGED <<nonce, height, applied, log>>, List' \in [Nodes -> Heap],
         packing' \in [Nodes -> SelectType],
         \A n \in Nodes : Packed(packing'[n], nonce[n], height[n]),
         proposals' \subseteq proposals, clock' \in Nat
  PROVE  PoolInv'
<1>1. PoolType' /\ HeightsInv' /\ BlocksHoldRuns'
  BY DEF PoolInv, PoolType, HeightsInv, BlocksHoldRuns
<1>2. ProposalsInv' /\ PackInv'
  BY DEF PoolInv, PackInv, ProposalsInv
<1>3. PICK at : Chained(at)
  BY DEF PoolInv, ChainInv
<1>4. Chained(at)'
  BY <1>3 DEF Chained
<1> QED BY <1>1, <1>2, <1>4 DEF PoolInv, ChainInv

\* Of those, the steps that pack nothing.
LEMMA PoolsKept ==
  ASSUME PoolInv, UNCHANGED <<packing, nonce, height, applied, log>>, List' \in [Nodes -> Heap],
         proposals' \subseteq proposals, clock' \in Nat
  PROVE  PoolInv'
<1>1. packing' \in [Nodes -> SelectType] /\ \A n \in Nodes : Packed(packing'[n], nonce[n], height[n])
  BY DEF PoolInv, PoolType, PackInv
<1> QED BY <1>1, ChainsKept

\* And those that one node packs with.
LEMMA NodePacks ==
  ASSUME PoolInv, UNCHANGED <<nonce, height, applied, log>>, List' \in [Nodes -> Heap],
         NEW n \in Nodes, NEW s \in SelectType, Packed(s, nonce[n], height[n]),
         packing' = [packing EXCEPT ![n] = s], proposals' \subseteq proposals, clock' \in Nat
  PROVE  PoolInv'
<1>1. packing' \in [Nodes -> SelectType]
  BY DEF PoolInv, PoolType
<1>2. ASSUME NEW m \in Nodes PROVE Packed(packing'[m], nonce[m], height[m])
  <2>1. packing'[m] = IF m = n THEN s ELSE packing[m]
    BY DEF PoolInv, PoolType
  <2> QED BY <2>1 DEF PoolInv, PackInv
<1> QED BY <1>1, <1>2, ChainsKept

\* Filter leaves a heap's entries (txpool.go:426).
LEMMA FilterType ==
  ASSUME PoolType, NEW n \in Nodes, NEW b, Filter(n, b)
  PROVE  List' \in [Nodes -> Heap]
<1>1. Keep(List[n], b) \in Heap
  BY KeepType DEF PoolType
<1> DEFINE r == Requeued(Keep(List[n], b))
<1>2. r.from \in Heap /\ r.out \in Seq(Entry)
  BY <1>1, RequeuedType
<1>3. List' = [List EXCEPT ![n] = PushAll(r.from, r.out)]
  BY DEF Filter
<1> HIDE DEF r
<1>4. PushAll(r.from, r.out) \in Heap
  BY <1>2, PushAllType
<1> QED BY <1>3, <1>4 DEF PoolType

\* A committed block is the first of its height (node.go:377).
LEMMA CommitKeeps ==
  ASSUME PoolInv, NEW n \in Nodes, CommitBlock(n)
  PROVE  PoolInv'
<1> DEFINE i == applied[n] + 1
           b == log[i]
<1>1. /\ applied[n] \in Nat /\ height[n] \in Nat /\ i \in 1 .. Len(log) /\ Len(log) \in Nat
      /\ b \in Block /\ b.height = height[n] + 1 /\ Upcoming(n) = b
      /\ b.txs \in Seq(Payments)
  <2>1. /\ Upcoming(n) \in Block /\ Upcoming(n) = b /\ i \in 1 .. Len(log)
        /\ b.height = height[n] + 1
    BY NextVerifies DEF CommitBlock, EntryDone
  <2>2. applied[n] \in Nat /\ height[n] \in Nat /\ Len(log) \in Nat
    BY LogType DEF PoolInv, PoolType
  <2> QED BY <2>1, <2>2, LogType DEF PoolInv
<1>2. /\ nonce' = [nonce EXCEPT ![n] = NoncesAfter(nonce[n], b.txs)]
      /\ height' = [height EXCEPT ![n] = height[n] + 1]
      /\ applied' = [applied EXCEPT ![n] = i]
      /\ UNCHANGED <<List, packing, proposals, log, clock>>
  BY <1>1 DEF CommitBlock, EntryDone
<1> HIDE DEF b
<1>3. PoolType'
  <2>1. List' \in [Nodes -> Heap] /\ packing' \in [Nodes -> SelectType] /\ proposals' \subseteq Block
    BY <1>2 DEF PoolInv, PoolType
  <2>2. NoncesAfter(nonce[n], b.txs) \in Bases
    BY <1>1, NoncesAfterType DEF PoolInv, PoolType
  <2>3. nonce' \in [Nodes -> Bases]
    BY <1>2, <2>2 DEF PoolInv, PoolType
  <2>4. height' \in [Nodes -> Nat] /\ applied' \in [Nodes -> Nat]
    BY <1>1, <1>2 DEF PoolInv, PoolType
  <2>5. log' \in Seq(Block) /\ clock' \in Nat
    BY <1>2 DEF PoolInv, PoolType
  <2> QED BY <2>1, <2>3, <2>4, <2>5 DEF PoolType
<1>4. HeightsInv'
  <2>1. ASSUME NEW m \in Nodes
        PROVE  /\ applied'[m] <= Len(log)
               /\ \A j \in 1 .. applied'[m] : log[j].height <= height'[m]
               /\ \A h \in 1 .. height'[m] : \E j \in 1 .. applied'[m] : log[j].height = h
    <3>1. CASE m # n
      <4>1. applied'[m] = applied[m] /\ height'[m] = height[m]
        BY <1>2, <3>1 DEF PoolInv, PoolType
      <4> QED BY <4>1 DEF PoolInv, HeightsInv
    <3>2. CASE m = n
      <4>1. applied'[n] = i /\ height'[n] = height[n] + 1
        BY <1>2 DEF PoolInv, PoolType
      <4>2. ASSUME NEW j \in 1 .. i PROVE log[j].height <= height[n] + 1
        <5>1. CASE j = i
          BY <1>1, <5>1 DEF b
        <5>2. CASE j # i
          <6>1. j \in 1 .. applied[n] /\ j \in 1 .. Len(log)
            BY <1>1, <5>2
          <6>2. log[j].height <= height[n] /\ log[j].height \in Nat
            BY <6>1, LogType DEF PoolInv, HeightsInv
          <6> QED BY <1>1, <6>2
        <5> QED BY <5>1, <5>2
      <4>3. ASSUME NEW h \in 1 .. height[n] + 1 PROVE \E j \in 1 .. i : log[j].height = h
        <5>1. CASE h = height[n] + 1
          <6>1. i \in 1 .. i /\ log[i].height = h
            BY <1>1, <5>1 DEF b
          <6> QED BY <6>1
        <5>2. CASE h # height[n] + 1
          <6>1. h \in 1 .. height[n]
            BY <1>1, <5>2
          <6>2. PICK j \in 1 .. applied[n] : log[j].height = h
            BY <6>1 DEF PoolInv, HeightsInv
          <6>3. j \in 1 .. i
            BY <1>1
          <6> QED BY <6>2, <6>3
        <5> QED BY <5>1, <5>2
      <4> QED BY <1>1, <3>2, <4>1, <4>2, <4>3
    <3> QED BY <3>1, <3>2
  <2> QED BY <1>2, <2>1 DEF PoolInv, HeightsInv
<1>5. ChainInv'
  <2>1. PICK at : Chained(at)
    BY DEF PoolInv, ChainInv
  <2>2. \A j \in 1 .. i - 1 : log[j].height # b.height
    <3> TAKE j \in 1 .. i - 1
    <3>1. j \in 1 .. applied[n] /\ j \in 1 .. Len(log)
      BY <1>1
    <3>2. log[j].height <= height[n] /\ log[j].height \in Nat
      BY <3>1, LogType DEF PoolInv, HeightsInv
    <3> QED BY <1>1, <3>2
  <2>3. at[b.height] = NoncesAfter(at[b.height - 1], b.txs)
    BY <1>1, <2>1, <2>2 DEF Chained, b
  <2>4. b.height - 1 = height[n] /\ nonce[n] = at[height[n]]
    BY <1>1, <2>1 DEF Chained
  <2>5. ASSUME NEW m \in Nodes PROVE nonce'[m] = at[height'[m]]
    <3>1. CASE m = n
      <4>1. nonce'[n] = NoncesAfter(nonce[n], b.txs) /\ height'[n] = b.height
        BY <1>1, <1>2 DEF PoolInv, PoolType
      <4> QED BY <2>3, <2>4, <3>1, <4>1
    <3>2. CASE m # n
      <4>1. nonce'[m] = nonce[m] /\ height'[m] = height[m]
        BY <1>2, <3>2 DEF PoolInv, PoolType
      <4> QED BY <2>1, <4>1 DEF Chained
    <3> QED BY <3>1, <3>2
  <2>6. Chained(at)'
    BY <1>2, <2>1, <2>5 DEF Chained
  <2> QED BY <2>6 DEF ChainInv
<1>6. BlocksHoldRuns' /\ ProposalsInv'
  BY <1>2 DEF PoolInv, BlocksHoldRuns, ProposalsInv
<1>7. PackInv'
  <2> SUFFICES ASSUME NEW m \in Nodes PROVE Packed(packing[m], nonce'[m], height'[m])
    BY <1>2 DEF PackInv
  <2>1. Packed(packing[m], nonce[m], height[m]) /\ packing[m].seen \in Nat
    BY DEF PoolInv, PackInv, PoolType, SelectType
  <2>2. CASE m # n
    BY <1>2, <2>1, <2>2 DEF PoolInv, PoolType
  <2>3. CASE m = n
    <3>1. height'[m] = height[m] + 1
      BY <1>2, <2>3 DEF PoolInv, PoolType
    <3>2. packing[m].seen <= height'[m] /\ packing[m].seen # height'[m]
      BY <1>1, <2>1, <2>3, <3>1 DEF Packed
    <3> QED BY <2>1, <3>2 DEF Packed
  <2> QED BY <2>2, <2>3
<1> QED BY <1>3, <1>4, <1>5, <1>6, <1>7 DEF PoolInv

\* A dropped block is of a height the node has (node.go:380).
LEMMA DropKeeps ==
  ASSUME PoolInv, NEW n \in Nodes, DropBlock(n)
  PROVE  PoolInv'
<1> DEFINE i == applied[n] + 1
<1>1. /\ applied[n] \in Nat /\ height[n] \in Nat /\ i \in 1 .. Len(log) /\ Len(log) \in Nat
      /\ log[i].height <= height[n]
  BY NextVerifies DEF DropBlock, EntryDone, PoolInv, PoolType
<1>2. /\ applied' = [applied EXCEPT ![n] = i]
      /\ UNCHANGED <<List, packing, proposals, nonce, height, log, clock>>
  BY DEF DropBlock, EntryDone
<1>3. PoolType'
  <2>1. applied' \in [Nodes -> Nat]
    BY <1>1, <1>2 DEF PoolInv, PoolType
  <2> QED BY <1>2, <2>1 DEF PoolInv, PoolType
<1>4. HeightsInv'
  <2>1. ASSUME NEW m \in Nodes
        PROVE  /\ applied'[m] <= Len(log)
               /\ \A j \in 1 .. applied'[m] : log[j].height <= height[m]
               /\ \A h \in 1 .. height[m] : \E j \in 1 .. applied'[m] : log[j].height = h
    <3>1. CASE m # n
      <4>1. applied'[m] = applied[m]
        BY <1>2, <3>1 DEF PoolInv, PoolType
      <4> QED BY <4>1 DEF PoolInv, HeightsInv
    <3>2. CASE m = n
      <4>1. applied'[n] = i
        BY <1>2 DEF PoolInv, PoolType
      <4>2. ASSUME NEW j \in 1 .. i PROVE log[j].height <= height[n]
        <5>1. j = i \/ j \in 1 .. applied[n]
          BY <1>1
        <5> QED BY <1>1, <5>1 DEF PoolInv, HeightsInv
      <4>3. ASSUME NEW h \in 1 .. height[n] PROVE \E j \in 1 .. i : log[j].height = h
        <5>1. PICK j \in 1 .. applied[n] : log[j].height = h
          BY DEF PoolInv, HeightsInv
        <5>2. j \in 1 .. i
          BY <1>1
        <5> QED BY <5>1, <5>2
      <4>4. i <= Len(log)
        BY <1>1
      <4> QED BY <3>2, <4>1, <4>2, <4>3, <4>4
    <3> QED BY <3>1, <3>2
  <2> QED BY <1>2, <2>1 DEF PoolInv, HeightsInv
<1>5. PICK at : Chained(at)
  BY DEF PoolInv, ChainInv
<1>6. Chained(at)'
  BY <1>2, <1>5 DEF Chained
<1>7. BlocksHoldRuns' /\ PackInv' /\ ProposalsInv'
  BY <1>2 DEF PoolInv, BlocksHoldRuns, PackInv, ProposalsInv
<1> QED BY <1>3, <1>4, <1>6, <1>7 DEF PoolInv, ChainInv

\* A block that is decided goes on from a chain in the log, so that no height
\* is missing; only the first of a height says which nonces follow it.
LEMMA DecideKeeps ==
  ASSUME PoolInv, NEW b \in proposals, Decide(b)
  PROVE  PoolInv'
<1> DEFINE new == Len(log) + 1
           before == b.height - 1
<1>1. /\ b \in Block /\ b.height \in Nat \ {0} /\ before \in Nat /\ b.height = before + 1
      /\ b.txs \in Seq(Payments)
  BY DEF PoolInv, PoolType, Block
<1>2. /\ log' = Append(log, b) /\ nonce' = nonce /\ height' = height /\ applied' = applied
      /\ proposals' = proposals \ {b} /\ List' = List /\ packing' = packing /\ clock' = clock
  BY DEF Decide, chain
<1> HIDE DEF before
<1>3. /\ Len(log) \in Nat /\ Len(log') = new /\ log' \in Seq(Block)
      /\ \A i \in 1 .. Len(log) : log'[i] = log[i]
      /\ log'[new] = b /\ DOMAIN log' = 1 .. new
  BY <1>1, <1>2 DEF PoolInv, PoolType
<1>4. PoolType'
  BY <1>2, <1>3 DEF PoolInv, PoolType
<1>5. HeightsInv'
  <2>1. ASSUME NEW m \in Nodes
        PROVE  /\ applied[m] <= Len(log')
               /\ \A j \in 1 .. applied[m] : log'[j].height <= height[m]
               /\ \A h \in 1 .. height[m] : \E j \in 1 .. applied[m] : log'[j].height = h
    <3>1. applied[m] \in Nat /\ applied[m] <= Len(log)
      BY DEF PoolInv, PoolType, HeightsInv
    <3>2. \A j \in 1 .. applied[m] : log'[j] = log[j]
      BY <1>3, <3>1
    <3>3. /\ \A j \in 1 .. applied[m] : log[j].height <= height[m]
          /\ \A h \in 1 .. height[m] : \E j \in 1 .. applied[m] : log[j].height = h
      BY DEF PoolInv, HeightsInv
    <3> QED BY <1>3, <3>1, <3>2, <3>3
  <2>2. ASSUME NEW i \in 1 .. new, NEW h \in 1 .. log'[i].height
        PROVE  \E j \in 1 .. i : log'[j].height = h
    <3>1. CASE i \in 1 .. Len(log)
      <4>1. h \in 1 .. log[i].height
        BY <1>3, <3>1
      <4>2. PICK j \in 1 .. i : log[j].height = h
        BY <3>1, <4>1 DEF PoolInv, HeightsInv
      <4>3. log'[j] = log[j]
        BY <1>3, <3>1
      <4> QED BY <4>2, <4>3
    <3>2. CASE i = new
      <4>1. h \in 1 .. before + 1
        BY <1>1, <1>3, <3>2
      <4>2. CASE h = before + 1
        BY <1>1, <1>3, <3>2, <4>2
      <4>3. CASE h # before + 1
        <5>1. h \in 1 .. before
          BY <1>1, <4>1, <4>3
        <5>2. PICK j \in 1 .. Len(log) : log[j].height = h
          BY <5>1 DEF PoolInv, ProposalsInv, before
        <5>3. j \in 1 .. i
          BY <1>3, <3>2
        <5> QED BY <1>3, <5>2, <5>3
      <4> QED BY <4>2, <4>3
    <3> QED BY <1>3, <3>1, <3>2
  <2>3. Len(log') = new /\ applied' = applied /\ height' = height
    BY <1>2, <1>3
  <2>4. \A m \in Nodes :
          /\ applied'[m] <= Len(log')
          /\ \A j \in 1 .. applied'[m] : log'[j].height <= height'[m]
          /\ \A h \in 1 .. height'[m] : \E j \in 1 .. applied'[m] : log'[j].height = h
    BY <2>1, <2>3
  <2>5. \A i \in 1 .. Len(log') : \A h \in 1 .. log'[i].height :
          \E j \in 1 .. i : log'[j].height = h
    BY <2>2, <2>3
  <2> QED BY <2>4, <2>5, Zenon DEF HeightsInv
<1>6. ChainInv'
  <2>1. PICK at : Chained(at)
    BY DEF PoolInv, ChainInv
  <2> DEFINE first == \A j \in 1 .. Len(log) : log[j].height # b.height
             next == IF first THEN [at EXCEPT ![b.height] = NoncesAfter(at[before], b.txs)]
                     ELSE at
  <2>2. at \in [Nat -> Bases] /\ b.height \in Nat
    BY <1>1, <2>1 DEF Chained
  <2>3. NoncesAfter(at[before], b.txs) \in Bases
    BY <1>1, <2>2, NoncesAfterType
  <2>4. next \in [Nat -> Bases] /\ next[before] = at[before]
    BY <1>1, <2>2, <2>3
  <2>5. \A h \in Nat : next[h] # at[h] => h = b.height /\ first
    BY <2>2
  <2>6. first => next[b.height] = NoncesAfter(at[before], b.txs)
    BY <2>2
  <2>7. ASSUME NEW i \in 1 .. Len(log)
        PROVE  /\ log[i].height \in Nat /\ log[i].height - 1 \in Nat
               /\ next[log[i].height] = at[log[i].height]
               /\ next[log[i].height - 1] = at[log[i].height - 1]
    <3>1. log[i].height \in Nat \ {0}
      BY LogType DEF PoolInv
    <3>2. next[log[i].height] = at[log[i].height]
      BY <2>5, <3>1
    <3>3. ASSUME log[i].height - 1 = b.height PROVE ~first
      <4>1. b.height \in 1 .. log[i].height
        BY <1>1, <3>1, <3>3
      <4>2. PICK j \in 1 .. i : log[j].height = b.height
        BY <4>1 DEF PoolInv, HeightsInv
      <4>3. j \in 1 .. Len(log)
        BY <1>3
      <4> QED BY <4>2, <4>3
    <3> HIDE DEF first, next
    <3>4. log[i].height - 1 \in Nat
      BY <3>1
    <3> QED BY <2>5, <3>1, <3>2, <3>3, <3>4
  <2>8. ASSUME NEW m \in Nodes PROVE nonce[m] = next[height[m]]
    <3>1. height[m] \in Nat /\ nonce[m] = at[height[m]]
      BY <2>1 DEF Chained, PoolInv, PoolType
    <3>2. ASSUME height[m] = b.height PROVE ~first
      <4>1. b.height \in 1 .. height[m]
        BY <1>1, <3>1, <3>2
      <4>2. PICK j \in 1 .. applied[m] : log[j].height = b.height
        BY <4>1 DEF PoolInv, HeightsInv
      <4>3. applied[m] \in Nat /\ applied[m] <= Len(log)
        BY DEF PoolInv, PoolType, HeightsInv
      <4>4. j \in 1 .. Len(log)
        BY <1>3, <4>3
      <4> QED BY <4>2, <4>4
    <3> HIDE DEF first, next
    <3> QED BY <2>5, <3>1, <3>2
  <2> HIDE DEF next
  <2>9. ASSUME NEW i \in 1 .. new
        PROVE  /\ PackedAtOnce(log'[i]) => Current(next[log'[i].height - 1], log'[i].txs)
               /\ (\A j \in 1 .. i - 1 : log'[j].height # log'[i].height)
                  => next[log'[i].height] = NoncesAfter(next[log'[i].height - 1], log'[i].txs)
    <3>1. CASE i \in 1 .. Len(log)
      <4>1. \A j \in 1 .. i : log'[j] = log[j]
        BY <1>3, <3>1
      <4>2. i \in 1 .. i /\ \A j \in 1 .. i - 1 : j \in 1 .. i
        BY <3>1
      <4>3. /\ PackedAtOnce(log[i]) => Current(at[log[i].height - 1], log[i].txs)
            /\ (\A j \in 1 .. i - 1 : log[j].height # log[i].height)
               => at[log[i].height] = NoncesAfter(at[log[i].height - 1], log[i].txs)
        BY <2>1, <3>1 DEF Chained
      <4>4. /\ next[log[i].height] = at[log[i].height]
            /\ next[log[i].height - 1] = at[log[i].height - 1]
        BY <2>7, <3>1
      <4> HIDE DEF first
      <4> QED BY <4>1, <4>2, <4>3, <4>4
    <3>2. CASE i = new
      <4>1. log'[i] = b /\ b.height - 1 = before /\ i - 1 = Len(log)
        BY <1>3, <3>2 DEF before
      <4>2. PackedAtOnce(b) => Current(at[before], b.txs)
        BY <2>1 DEF Chained, before
      <4>3. PackedAtOnce(b) => Current(next[before], b.txs)
        BY <2>4, <4>2
      <4>4. (\A j \in 1 .. i - 1 : log'[j].height # b.height) => first
        BY <1>3, <4>1
      <4> HIDE DEF first
      <4> QED BY <2>4, <2>6, <4>1, <4>3, <4>4
    <3> QED BY <1>3, <3>1, <3>2
  <2>13. ASSUME NEW d \in proposals', PackedAtOnce(d) PROVE Current(next[d.height - 1], d.txs)
    <3>1. d \in proposals /\ d.height \in Nat \ {0}
      BY <1>2, <2>13 DEF PoolInv, PoolType, Block
    <3>2. Current(at[d.height - 1], d.txs)
      BY <2>1, <2>13, <3>1 DEF Chained
    <3>3. ASSUME d.height - 1 = b.height PROVE ~first
      <4>1. b.height \in 1 .. d.height - 1
        BY <1>1, <3>1, <3>3
      <4>2. PICK j \in 1 .. Len(log) : log[j].height = b.height
        BY <3>1, <4>1 DEF PoolInv, ProposalsInv
      <4> QED BY <4>2
    <3>4. d.height - 1 \in Nat
      BY <3>1
    <3> HIDE DEF first
    <3>5. next[d.height - 1] = at[d.height - 1]
      BY <2>5, <3>3, <3>4
    <3> QED BY <3>2, <3>5
  <2>10. PICK f : f = next
    OBVIOUS
  <2>11. /\ f \in [Nat -> Bases]
         /\ \A m \in Nodes : nonce'[m] = f[height'[m]]
         /\ \A i \in 1 .. Len(log') :
              /\ PackedAtOnce(log'[i]) => Current(f[log'[i].height - 1], log'[i].txs)
              /\ (\A j \in 1 .. i - 1 : log'[j].height # log'[i].height)
                 => f[log'[i].height] = NoncesAfter(f[log'[i].height - 1], log'[i].txs)
         /\ \A d \in proposals' : PackedAtOnce(d) => Current(f[d.height - 1], d.txs)
    BY <1>2, <1>3, <2>4, <2>8, <2>9, <2>10, <2>13
  <2>12. Chained(f)'
    BY <2>11 DEF Chained
  <2> QED BY <2>12 DEF ChainInv
<1>7. BlocksHoldRuns'
  <2>1. ASSUME NEW d \in 1 .. Len(log) PROVE HoldsRuns(log'[d])
    <3>1. log'[d] = log[d] /\ d \in DOMAIN log
      BY <1>3, LogType DEF PoolInv
    <3> QED BY <3>1 DEF PoolInv, BlocksHoldRuns
  <2>4. HoldsRuns(b)
    BY DEF PoolInv, ProposalsInv
  <2>5. \A d \in DOMAIN log' : d \in 1 .. Len(log) \/ d = new
    BY <1>3
  <2>6. \A d \in DOMAIN log' : HoldsRuns(log'[d])
    BY <1>3, <2>1, <2>4, <2>5
  <2> QED BY <2>6 DEF BlocksHoldRuns
<1>8. PackInv'
  BY <1>2 DEF PoolInv, PackInv
<1>9. ProposalsInv'
  <2>1. ASSUME NEW d \in proposals, NEW h \in 1 .. d.height - 1
        PROVE  \E j \in 1 .. Len(log') : log'[j].height = h
    <3>1. PICK j \in 1 .. Len(log) : log[j].height = h
      BY DEF PoolInv, ProposalsInv
    <3>2. j \in 1 .. Len(log') /\ log'[j] = log[j]
      BY <1>3
    <3> QED BY <3>1, <3>2
  <2>2. \A d \in proposals : HoldsRuns(d)
    BY DEF PoolInv, ProposalsInv
  <2> QED BY <1>2, <2>1, <2>2 DEF ProposalsInv
<1> QED BY <1>4, <1>5, <1>6, <1>7, <1>8, <1>9 DEF PoolInv

\* A proposal goes on from the node's chain, and is current unless the height has
\* changed since Pendings began (server.go:964).
LEMMA ProposeKeeps ==
  ASSUME PoolInv, NEW n \in Nodes, ProposeBlock(n)
  PROVE  PoolInv'
<1> DEFINE s == packing[n]
           b == [height |-> NewHeight(n), txs |-> s.pending, refused |-> s.refused, seen |-> s.seen]
<1>1. /\ height[n] \in Nat /\ applied[n] \in Nat /\ applied[n] <= Len(log) /\ s \in SelectType
      /\ Packed(s, nonce[n], height[n]) /\ Len(log) \in Nat
  BY DEF PoolInv, PoolType, PackInv, HeightsInv
<1>2. /\ b \in Block /\ b.height = height[n] + 1 /\ b.txs = s.pending /\ b.refused = s.refused
      /\ b.seen = s.seen /\ s.seen \in Nat
  BY <1>1 DEF NewHeight, Block, SelectType
<1>3. /\ proposals' = proposals \cup {b} /\ packing' = [packing EXCEPT ![n] = Unpacked(s.queue)]
      /\ nonce' = nonce /\ height' = height /\ applied' = applied /\ log' = log
      /\ List' = List /\ clock' = clock
  BY DEF ProposeBlock, chain
<1>4. /\ Unpacked(s.queue) \in SelectType
      /\ Packed(Unpacked(s.queue), nonce[n], height[n])
  BY <1>1, IdlePacked DEF SelectType
<1>5. HoldsRuns(b)
  <2>1. ASSUME NEW a, NEW k, Counted(s, a, k) PROVE Accounted(b, a, k)
    BY <1>1, <1>2, <2>1 DEF Counted, Accounted, ToSet, SelectType
  <2> HIDE DEF b
  <2> SUFFICES ASSUME NEW i \in DOMAIN s.pending, NEW l \in DOMAIN s.pending, i < l,
                      SenderOf[s.pending[i]] = SenderOf[s.pending[l]]
               PROVE  /\ NonceOf[s.pending[i]] < NonceOf[s.pending[l]]
                      /\ \A k \in NonceOf[s.pending[i]] + 1 .. NonceOf[s.pending[l]] - 1 :
                           Accounted(b, SenderOf[s.pending[i]], k)
    BY <1>2 DEF HoldsRuns
  <2>2. /\ NonceOf[s.pending[i]] < NonceOf[s.pending[l]]
        /\ \A k \in NonceOf[s.pending[i]] + 1 .. NonceOf[s.pending[l]] - 1 :
             Counted(s, SenderOf[s.pending[i]], k)
    BY <1>1 DEF Packed, InRuns
  <2> QED BY <2>1, <2>2
<1>6. \A h \in 1 .. b.height - 1 : \E j \in 1 .. Len(log) : log[j].height = h
  <2> HIDE DEF b, s
  <2> TAKE h \in 1 .. b.height - 1
  <2>1. h \in 1 .. height[n]
    BY <1>1, <1>2
  <2>2. PICK j \in 1 .. applied[n] : log[j].height = h
    BY <2>1 DEF PoolInv, HeightsInv
  <2>3. j \in 1 .. Len(log)
    BY <1>1
  <2> QED BY <2>2, <2>3
<1>7. PackedAtOnce(b) => Current(nonce[n], b.txs)
  <2> SUFFICES ASSUME PackedAtOnce(b) PROVE Current(nonce[n], s.pending)
    BY <1>2
  <2>1. s.seen = height[n]
    <3> HIDE DEF b, s
    <3> QED BY <1>1, <1>2 DEF PackedAtOnce
  <2> QED BY <1>1, <2>1 DEF Packed, NotBehind, Current
<1> HIDE DEF b
<1>8. PoolType' /\ PackInv'
  <2>1. packing' \in [Nodes -> SelectType] /\ proposals' \subseteq Block
    BY <1>2, <1>3, <1>4 DEF PoolInv, PoolType
  <2>2. ASSUME NEW m \in Nodes PROVE Packed(packing'[m], nonce[m], height[m])
    <3>1. packing'[m] = IF m = n THEN Unpacked(s.queue) ELSE packing[m]
      BY <1>3 DEF PoolInv, PoolType
    <3> QED BY <1>4, <3>1 DEF PoolInv, PackInv
  <2> QED BY <1>3, <2>1, <2>2 DEF PoolInv, PoolType, PackInv
<1>9. HeightsInv' /\ BlocksHoldRuns'
  BY <1>3 DEF PoolInv, HeightsInv, BlocksHoldRuns
<1>10. ProposalsInv'
  BY <1>3, <1>5, <1>6 DEF PoolInv, ProposalsInv
<1>11. PICK at : Chained(at)
  BY DEF PoolInv, ChainInv
<1>12. \A d \in proposals' : PackedAtOnce(d) => Current(at[d.height - 1], d.txs)
  <2>1. b.height - 1 = height[n] /\ nonce[n] = at[height[n]]
    <3> HIDE DEF s
    <3> QED BY <1>1, <1>2, <1>11 DEF Chained
  <2> QED BY <1>3, <1>7, <1>11, <2>1 DEF Chained
<1>13. Chained(at)'
  BY <1>3, <1>11, <1>12 DEF Chained
<1> QED BY <1>8, <1>9, <1>10, <1>13 DEF PoolInv, ChainInv

\* Pendings begins with nothing selected, at the height it finds (txpool.go:166).
LEMMA PendingsKeeps ==
  ASSUME PoolInv, NEW n \in Nodes, Pendings(n)
  PROVE  PoolInv'
<1> DEFINE s == [packing[n] EXCEPT !.stage = "selecting", !.seen = height[n]]
<1>1. /\ packing[n] \in SelectType /\ height[n] \in Nat /\ packing[n].pending = <<>>
  BY DEF PoolInv, PoolType, PackInv, Packed, Pendings
<1>2. s \in SelectType /\ s.pending = <<>> /\ s.seen = height[n] /\ s.stage = "selecting"
  BY <1>1 DEF SelectType
<1>3. /\ packing' = [packing EXCEPT ![n] = s]
      /\ UNCHANGED <<List, proposals, nonce, height, applied, log, clock>>
  BY DEF Pendings, chain, PoolInv, PoolType
<1> HIDE DEF s
<1>4. Packed(s, nonce[n], height[n])
  BY <1>1, <1>2 DEF Packed, UpToItem, NotBehind, InRuns
<1>5. List' \in [Nodes -> Heap] /\ proposals' \subseteq proposals /\ clock' \in Nat
  BY <1>3 DEF PoolInv, PoolType
<1> QED BY <1>2, <1>3, <1>4, <1>5, NodePacks

\* One turn of the loop of Pendings (txpool.go:172).
LEMMA SelectKeeps ==
  ASSUME PoolInv, NEW n \in Nodes, NEW covered \in BOOLEAN, NEW bad, Select(n, covered, bad)
  PROVE  PoolInv'
<1> DEFINE e == Head(List[n])
           s == Sort(packing[n], e, covered, bad, n)
<1>1. /\ packing[n] \in SelectType /\ packing[n].stage = "selecting" /\ List[n] \in Heap
      /\ List[n] # <<>> /\ Packed(packing[n], nonce[n], height[n])
      /\ nonce[n] \in Bases /\ height[n] \in Nat
  BY DEF PoolInv, PoolType, PackInv, Select, GoesOn
<1>2. packing[n] \in Selection(nonce[n], height[n])
  BY <1>1 DEF Packed, Selection
<1>3. e \in Entry /\ Popped(List[n]) \in Heap
  BY <1>1, PoppedType DEF Heap
<1>4. /\ packing' = [packing EXCEPT ![n] = s] /\ List' = [List EXCEPT ![n] = Popped(List[n])]
      /\ UNCHANGED <<proposals, nonce, height, applied, log, clock>>
  BY DEF Select, chain
<1> HIDE DEF e
<1>5. s \in Selection(nonce[n], height[n])
  BY <1>1, <1>2, <1>3, SortType
<1> HIDE DEF s
<1>6. s \in SelectType /\ Packed(s, nonce[n], height[n])
  BY <1>5 DEF Packed, Selection
<1>7. List' \in [Nodes -> Heap] /\ proposals' \subseteq proposals /\ clock' \in Nat
  BY <1>3, <1>4 DEF PoolInv, PoolType
<1> QED BY <1>4, <1>6, <1>7, NodePacks

\* After the loop the selection stays, item is cleared (txpool.go:278).
LEMMA PendingsEndKeeps ==
  ASSUME PoolInv, NEW n \in Nodes, PendingsEnd(n)
  PROVE  PoolInv'
<1> DEFINE s == packing[n]
           r == Requeued(s.queue)
           p == [Unpacked(r.from) EXCEPT !.stage = "pending", !.pending = s.pending,
                                         !.refused = s.refused, !.seen = s.seen]
<1>1. /\ s \in SelectType /\ s.queue \in Heap /\ List[n] \in Heap
      /\ Packed(s, nonce[n], height[n]) /\ height[n] \in Nat
  BY DEF PoolInv, PoolType, PackInv, SelectType
<1>2. r.from \in Heap /\ r.out \in Seq(Entry)
  BY <1>1, RequeuedType
<1>3. /\ packing' = [packing EXCEPT ![n] = p] /\ List' = [List EXCEPT ![n] = PushAll(List[n], r.out)]
      /\ UNCHANGED <<proposals, nonce, height, applied, log, clock>>
  BY DEF PendingsEnd, chain
<1> HIDE DEF r
<1>4. PushAll(List[n], r.out) \in Heap
  BY <1>1, <1>2, PushAllType
<1>5. Unpacked(r.from) \in SelectType
  BY <1>1, <1>2, IdlePacked
<1> HIDE DEF s
<1>6. /\ p \in SelectType /\ p.stage = "pending" /\ p.pending = s.pending /\ p.refused = s.refused
      /\ p.seen = s.seen
  BY <1>1, <1>5 DEF SelectType
<1> HIDE DEF p
<1>7. Packed(p, nonce[n], height[n])
  BY <1>1, <1>6 DEF Packed, InRuns, NotBehind, Counted
<1>8. List' \in [Nodes -> Heap] /\ proposals' \subseteq proposals /\ clock' \in Nat
  BY <1>3, <1>4 DEF PoolInv, PoolType
<1> QED BY <1>3, <1>6, <1>7, <1>8, NodePacks

\* Every step of the pools keeps the invariant.
LEMMA PoolInductive == PoolInv /\ [PoolStep(Nodes, Payments)]_pvars => PoolInv'
<1> SUFFICES ASSUME PoolInv, [PoolStep(Nodes, Payments)]_pvars PROVE PoolInv'
  OBVIOUS
<1>1. List \in [Nodes -> Heap] /\ clock \in Nat
  BY DEF PoolInv, PoolType
<1>2. CASE Tick
  BY <1>1, <1>2, PoolsKept DEF Tick, chain
<1>3. ASSUME NEW n \in Nodes, NEW t \in Payments, AddLocal(n, t) PROVE PoolInv'
  <2>1. List' = [List EXCEPT ![n] = Push(List[n], [tx |-> t, time |-> clock])]
    BY <1>3 DEF AddLocal, AddTo
  <2>2. Push(List[n], [tx |-> t, time |-> clock]) \in Heap
    BY <1>1, PushType DEF Entry
  <2>3. List' \in [Nodes -> Heap]
    BY <1>1, <2>1, <2>2
  <2> QED BY <1>1, <1>3, <2>3, PoolsKept DEF AddLocal, chain
<1>4. ASSUME NEW n \in Nodes, FilterBlock(n) PROVE PoolInv'
  <2>1. List' \in [Nodes -> Heap]
    BY <1>4, FilterType DEF FilterBlock, PoolInv
  <2> QED BY <1>1, <1>4, <2>1, PoolsKept DEF FilterBlock
<1>5. ASSUME NEW n \in Nodes, Restart(n) PROVE PoolInv'
  <2>1. <<>> \in Heap /\ height[n] \in Nat
    BY DEF Heap, PoolInv, PoolType
  <2>2. Unpacked(<<>>) \in SelectType /\ Packed(Unpacked(<<>>), nonce[n], height[n])
    BY <2>1, IdlePacked
  <2>3. /\ List' \in [Nodes -> Heap] /\ proposals' \subseteq proposals /\ clock' \in Nat
        /\ packing' = [packing EXCEPT ![n] = Unpacked(<<>>)]
        /\ UNCHANGED <<nonce, height, applied, log>>
    BY <1>1, <1>5, <2>1 DEF Restart
  <2> QED BY <2>2, <2>3, NodePacks
<1>6. ASSUME NEW b \in proposals, LoseBlock(b) PROVE PoolInv'
  BY <1>1, <1>6, PoolsKept DEF LoseBlock, chain
<1>7. CASE UNCHANGED pvars
  BY <1>1, <1>7, PoolsKept DEF pvars, chain
<1>8. CASE PoolStep(Nodes, Payments)
  <2>1. \/ Tick
        \/ \E n \in Nodes :
             \/ \E t \in Payments : AddLocal(n, t)
             \/ Pendings(n)
             \/ \E covered, bad \in BOOLEAN : Select(n, covered, bad)
             \/ PendingsEnd(n) \/ ProposeBlock(n) \/ FilterBlock(n)
             \/ CommitBlock(n) \/ DropBlock(n) \/ Restart(n)
        \/ \E b \in proposals : Decide(b) \/ LoseBlock(b)
    BY <1>8 DEF PoolStep
  <2> QED BY <1>2, <1>3, <1>4, <1>5, <1>6, <2>1, PendingsKeeps, SelectKeeps, PendingsEndKeeps,
             ProposeKeeps, CommitKeeps, DropKeeps, DecideKeeps
<1> QED BY <1>7, <1>8

\* The invariant of the pools and the chains.
LEMMA PoolInvCorrect == PoolSpec => []PoolInv
<1>1. PoolInit => PoolInv
  BY PoolInitially
<1>2. PoolInv /\ [PoolStep(Nodes, Payments)]_pvars => PoolInv'
  BY PoolInductive
<1> QED BY <1>1, <1>2, PTL DEF PoolSpec

\* The next block of a replica's chain never leaves out a height, and if the node
\* that packed it committed no block between Pendings and NewBlock, no transaction
\* in it is behind its account, whoever packed it from whatever pool and whenever
\* it came to the log (node.go:377-390, server.go:964-973).
THEOREM BlocksVerifyCorrect == PoolSpec => []BlocksVerify
<1>1. PoolInv => BlocksVerify
  BY NextVerifies DEF BlocksVerify
<1> QED BY <1>1, PoolInvCorrect, PTL

\* Blocks hold runs of nonces, in order and without gaps but for refused
\* scripts, whatever the heap hands out (txpool.go:166-274).
THEOREM BlocksHoldRunsCorrect == PoolSpec => []BlocksHoldRuns
<1>1. PoolInv => BlocksHoldRuns
  BY DEF PoolInv
<1> QED BY <1>1, PoolInvCorrect, PTL

---------------------------------------------------------------------------
(***************************************************************************)
(* No announced transaction is forgotten before another node has it.       *)
(*                                                                         *)
(* An announcement ends when a pull with its checksum comes, or when a     *)
(* transaction is announced under the same checksum.  Both checksums may   *)
(* be those of other transactions (Sums).  What saves the announcement is  *)
(* where a wrong checksum comes from: from a push that the same node was   *)
(* hashing, so the transaction it is of had been taken by the pusher.      *)
(***************************************************************************)

Key == Payments \cup {Garbage}

\* Messages go from one node to another.
NetType ==
  \A m \in net :
    /\ m.from \in Nodes /\ m.to \in Nodes /\ m.from # m.to
    /\ m.type \in {"push", "pull"}
    /\ m.type = "push" => m.data \in Payments

MapsType ==
  /\ mp \in [Nodes -> SUBSET (Key \X Payments)]
  /\ received \in [Nodes -> SUBSET Payments]

\* A node has what it announces, what it pushes, and what it acknowledges by
\* the checksum of a transaction.
AnnouncerHas == \A n \in Nodes : \A e \in mp[n] : e[2] \in received[n]
MessengerHas == \A m \in net : m.data \in Payments => m.data \in received[m.from]

GossipInv == MapsType /\ NetType /\ AnnouncerHas /\ MessengerHas

\* The body of AnnouncedUntilReceived.
Kept ==
  \A n \in Nodes, t \in Payments : <<t, t>> \in mp[n] \ mp'[n] =>
    \/ \E o \in Nodes \ {n} : t \in received[o]
    \/ RestartNode(n)

\* Initially nothing is announced or under way (p2p.go:39-57).
LEMMA GossipInitially == GossipInit => GossipInv
  BY DEF GossipInit, GossipInv, MapsType, NetType, AnnouncerHas, MessengerHas

\* What goroutines hashing together may get is one of their transactions, or
\* the checksum of none (p2p.go:67, 141).
LEMMA SumsOf ==
  ASSUME NEW data, NEW key \in Sums(data)
  PROVE  key \in data \cup {Garbage}
  BY DEF Sums

\* Pushes come from other nodes, which have what they push (p2p.go:96-109).
LEMMA PushesOf ==
  ASSUME GossipInv, NEW n \in Nodes, NEW ps \in Few(PushesTo(n)), NEW t \in Data(ps)
  PROVE  /\ t \in Payments
         /\ \E o \in Nodes \ {n} : t \in received[o]
<1>1. PICK p \in ps : t = p.data
  BY DEF Data
<1>2. p \in net /\ p.type = "push" /\ p.to = n
  BY <1>1 DEF Few, PushesTo
<1> QED BY <1>1, <1>2 DEF GossipInv, NetType, MessengerHas

\* recvMsg answers pushes with pulls whose checksums are of transactions the
\* node has been pushed or is announcing (p2p.go:121-144).
LEMMA RecvMsgKeeps ==
  ASSUME GossipInv, NEW n \in Nodes, NEW ps \in Few(PushesTo(n)),
         NEW more \in SUBSET Payments, NEW sums \in SUBSET (more \cup Data(ps) \cup {Garbage}),
         NEW keyOf \in [ps -> sums], recvMsg(n, ps, keyOf),
         received' = [received EXCEPT ![n] = @ \cup more \cup Data(ps)]
  PROVE  NetType' /\ MessengerHas' /\ received' \in [Nodes -> SUBSET Payments]
<1>1. Data(ps) \in SUBSET Payments
  BY PushesOf
<1>2. received' \in [Nodes -> SUBSET Payments]
  BY <1>1 DEF GossipInv, MapsType
<1>3. /\ \A o \in Nodes : received[o] \subseteq received'[o]
      /\ more \cup Data(ps) \subseteq received'[n]
  BY DEF GossipInv, MapsType
<1>4. Garbage \notin Payments
  BY GossipAssumption
<1>5. ASSUME NEW m \in net', m \notin net
      PROVE  /\ m.from = n /\ m.to \in Nodes \ {n} /\ m.type = "pull"
             /\ m.data \in Payments => m.data \in received'[n]
  <2>1. PICK p \in ps : m = Message("pull", n, p.from, keyOf[p])
    BY <1>5 DEF recvMsg
  <2>2. p \in net /\ p.to = n
    BY DEF Few, PushesTo
  <2>3. keyOf[p] \in more \cup Data(ps) \cup {Garbage}
    OBVIOUS
  <2>4. m.from = n /\ m.to = p.from /\ m.type = "pull" /\ m.data = keyOf[p]
    BY <2>1 DEF Message
  <2>5. p.from \in Nodes \ {n}
    BY <2>2 DEF GossipInv, NetType
  <2> QED BY <1>3, <1>4, <2>3, <2>4, <2>5
<1>6. NetType'
  BY <1>5 DEF GossipInv, NetType
<1>7. MessengerHas'
  <2> SUFFICES ASSUME NEW m \in net', m.data \in Payments PROVE m.data \in received'[m.from]
    BY DEF MessengerHas
  <2>1. CASE m \in net
    BY <2>1, <1>3 DEF GossipInv, NetType, MessengerHas
  <2>2. CASE m \notin net
    BY <2>2, <1>5
  <2> QED BY <2>1, <2>2
<1> QED BY <1>2, <1>6, <1>7

\* A client's transaction, hashed together with pushes.
LEMMA SubmitKeeps ==
  ASSUME GossipInv, NEW n \in Nodes, NEW t \in Payments, NEW ps \in Few(PushesTo(n)),
         Submit(n, t, ps)
  PROVE  GossipInv' /\ Kept
<1> DEFINE sums == Sums({t} \cup Data(ps))
<1>1. PICK key \in sums, keyOf \in [ps -> sums] : Broadcast(n, key, t) /\ recvMsg(n, ps, keyOf)
  BY DEF Submit
<1>2. received' = [received EXCEPT ![n] = @ \cup {t} \cup Data(ps)]
  BY DEF Submit
<1>3. sums \in SUBSET ({t} \cup Data(ps) \cup {Garbage})
  BY SumsOf
<1> HIDE DEF sums
<1>4. NetType' /\ MessengerHas' /\ received' \in [Nodes -> SUBSET Payments]
  BY <1>1, <1>2, <1>3, RecvMsgKeeps
<1>5. Data(ps) \in SUBSET Payments
  BY PushesOf
<1>6. key \in Key
  BY <1>3, <1>5 DEF Key
<1>7. mp' = [mp EXCEPT ![n] = {e \in @ : e[1] # key} \cup {<<key, t>>}]
  BY <1>1 DEF Broadcast
<1>8. mp' \in [Nodes -> SUBSET (Key \X Payments)]
  BY <1>6, <1>7 DEF GossipInv, MapsType
<1>9. AnnouncerHas'
  BY <1>2, <1>7 DEF GossipInv, MapsType, AnnouncerHas
<1>10. Kept
  <2> SUFFICES ASSUME NEW o \in Nodes, NEW x \in Payments, <<x, x>> \in mp[o] \ mp'[o]
               PROVE  \E p \in Nodes \ {o} : x \in received[p]
    BY DEF Kept
  <2>1. o = n /\ x = key /\ x # t
    BY <1>7 DEF GossipInv, MapsType
  <2>2. x \in Data(ps)
    BY <1>3, <2>1, GossipAssumption
  <2> QED BY <2>1, <2>2, PushesOf
<1> QED BY <1>4, <1>8, <1>9, <1>10 DEF GossipInv, MapsType

\* Hashing the pushes that have arrived, at one time with each other.
LEMMA ReceivePushKeeps ==
  ASSUME GossipInv, NEW n \in Nodes, NEW ps \in Few(PushesTo(n)), ReceivePush(n, ps)
  PROVE  GossipInv' /\ Kept
<1> DEFINE sums == Sums(Data(ps))
<1>1. PICK keyOf \in [ps -> sums] : recvMsg(n, ps, keyOf)
  BY DEF ReceivePush
<1>2. /\ received' = [received EXCEPT ![n] = @ \cup {} \cup Data(ps)]
      /\ mp' = mp
  BY DEF ReceivePush
<1>3. sums \in SUBSET ({} \cup Data(ps) \cup {Garbage})
  BY SumsOf
<1> HIDE DEF sums
<1>4. NetType' /\ MessengerHas' /\ received' \in [Nodes -> SUBSET Payments]
  BY <1>1, <1>2, <1>3, RecvMsgKeeps
<1>5. AnnouncerHas'
  BY <1>2 DEF GossipInv, MapsType, AnnouncerHas
<1>6. Kept
  BY <1>2 DEF Kept
<1> QED BY <1>2, <1>4, <1>5, <1>6 DEF GossipInv, MapsType

\* The announcement a pull ends is of something the puller has.
LEMMA ReceivePullKeeps ==
  ASSUME GossipInv, NEW m \in net, ReceivePull(m)
  PROVE  GossipInv' /\ Kept
<1>1. /\ mp' = [mp EXCEPT ![m.to] = {e \in @ : e[1] # m.data}]
      /\ net' = net \ {m} /\ received' = received
  BY DEF ReceivePull
<1>2. m.from \in Nodes /\ m.to \in Nodes /\ m.from # m.to
  BY DEF GossipInv, NetType
<1>3. GossipInv'
  BY <1>1, <1>2 DEF GossipInv, MapsType, NetType, AnnouncerHas, MessengerHas
<1>4. Kept
  <2> SUFFICES ASSUME NEW o \in Nodes, NEW x \in Payments, <<x, x>> \in mp[o] \ mp'[o]
               PROVE  \E p \in Nodes \ {o} : x \in received[p]
    BY DEF Kept
  <2>1. o = m.to /\ x = m.data
    BY <1>1, <1>2 DEF GossipInv, MapsType
  <2> QED BY <1>2, <2>1 DEF GossipInv, MessengerHas
<1> QED BY <1>3, <1>4

\* A tick sends what the node has (p2p.go:70-109).
LEMMA PushAnnouncedKeeps ==
  ASSUME GossipInv, NEW n \in Nodes, PushAnnounced(n)
  PROVE  GossipInv' /\ Kept
<1>1. mp' = mp /\ received' = received
  BY DEF PushAnnounced
<1>2. ASSUME NEW m \in net', m \notin net
      PROVE  /\ m.from = n /\ m.to \in Nodes \ {n} /\ m.type = "push"
             /\ m.data \in Payments /\ m.data \in received[n]
  <2>1. PICK o \in Nodes \ {n}, e \in mp[n] : m = Message("push", n, o, e[2])
    BY <1>2 DEF PushAnnounced
  <2>2. m.from = n /\ m.to = o /\ m.type = "push" /\ m.data = e[2]
    BY <2>1 DEF Message
  <2>3. e[2] \in Payments
    BY DEF GossipInv, MapsType
  <2> QED BY <2>2, <2>3 DEF GossipInv, AnnouncerHas
<1>3. GossipInv'
  BY <1>1, <1>2 DEF GossipInv, MapsType, NetType, AnnouncerHas, MessengerHas
<1> QED BY <1>1, <1>3 DEF Kept

\* A restart forgets announcements, and messages under way stay.
LEMMA RestartKeeps ==
  ASSUME GossipInv, NEW n \in Nodes, RestartNode(n)
  PROVE  GossipInv' /\ Kept
<1>1. mp' = [mp EXCEPT ![n] = {}] /\ net' = net /\ received' = received
  BY DEF RestartNode
<1>2. GossipInv'
  BY <1>1 DEF GossipInv, MapsType, NetType, AnnouncerHas, MessengerHas
<1>3. Kept
  BY <1>1 DEF Kept, GossipInv, MapsType
<1> QED BY <1>2, <1>3

\* Every step keeps the invariant and forgets nothing too early.
LEMMA GossipInductive ==
  ASSUME GossipInv, [GossipStep(Payments)]_<<pvars, gvars>>
  PROVE  GossipInv' /\ Kept
<1>1. ASSUME mp' = mp, received' = received, net' \subseteq net
      PROVE  GossipInv' /\ Kept
  BY <1>1 DEF GossipInv, MapsType, NetType, AnnouncerHas, MessengerHas, Kept
<1>2. CASE UNCHANGED <<pvars, gvars>>
  BY <1>1, <1>2 DEF gvars
<1>3. ASSUME NEW n \in Nodes, NEW t \in Payments, NEW ps \in Few(PushesTo(n)), Submit(n, t, ps)
      PROVE  GossipInv' /\ Kept
  BY <1>3, SubmitKeeps
<1>4. ASSUME NEW n \in Nodes, NEW t \in Payments, Deliver(n, t)
      PROVE  GossipInv' /\ Kept
  BY <1>1, <1>4 DEF Deliver
<1>5. ASSUME NEW m \in net, Lose(m)
      PROVE  GossipInv' /\ Kept
  BY <1>1, <1>5 DEF Lose
<1>6. CASE GossipStep(Payments)
  <2>1. \/ \E n \in Nodes :
             \/ \E t \in Payments : \E ps \in Few(PushesTo(n)) : Submit(n, t, ps)
             \/ PushAnnounced(n) \/ RestartNode(n)
             \/ \E ps \in Few(PushesTo(n)) : ReceivePush(n, ps)
             \/ \E t \in Payments : Deliver(n, t)
        \/ \E m \in net : ReceivePull(m) \/ Lose(m)
    BY <1>6 DEF GossipStep
  <2> QED BY <2>1, <1>3, <1>4, <1>5, PushAnnouncedKeeps, RestartKeeps, ReceivePushKeeps,
             ReceivePullKeeps
<1> QED BY <1>2, <1>6

\* Announcers and messengers have what they announce, push and acknowledge, on
\* every node and however messages are lost, reordered or hashed together
\* (p2p.go:64-144).
THEOREM GossipInvCorrect == GossipSpec => []GossipInv
<1>1. PoolInit /\ GossipInit => GossipInv
  BY GossipInitially
<1>2. GossipInv /\ [GossipStep(Payments)]_<<pvars, gvars>> => GossipInv'
  BY GossipInductive
<1> QED BY <1>1, <1>2, PTL DEF GossipSpec

\* An announced transaction stays announced until another node has it or the
\* announcing process ends (p2p.go:64-144).
THEOREM AnnouncedCorrect == GossipSpec => AnnouncedUntilReceived
<1>1. GossipInv /\ [GossipStep(Payments)]_<<pvars, gvars>> => Kept
  BY GossipInductive
<1>2. Kept => [Kept]_mp
  OBVIOUS
<1> QED BY <1>1, <1>2, GossipInvCorrect, PTL DEF GossipSpec, AnnouncedUntilReceived, Kept
=============================================================================
