----------------------------- MODULE ChainProofs -----------------------------
(***************************************************************************)
(* What readers of the chain are shown: the proofs for any number of       *)
(* blocks, transactions and readers.                                       *)
(*                                                                         *)
(* Of the data base, the invariant says that every height up to the newest *)
(* has one block, which names the one before and never changes, and that   *)
(* its transactions are where they are looked up.  A reader reads height,  *)
(* hash and block at different times; what it has in hand is true of the   *)
(* chain it has seen, and stays true of the longer one.                    *)
(***************************************************************************)
EXTENDS ChainIndex, Inductions, SequenceTheorems, FiniteSetTheorems

BlockKey(hash)    == RawKey(BlockName(hash))
TxKey(t)          == RawKey(TxName(t))
TxHeightKey(t, d) == MapKey(TxName(t), d)
AddressKey(a, t)  == MapKey(Address(a), <<t>>)

\* Every height up to the newest has a block, and the blocks are a chain.
Chained ==
    /\ HeightKey \in DOMAIN db /\ Height \in Nat \ {0} /\ made \in Nat
    /\ \A h \in Nat : HashKey(h) \in DOMAIN db <=> h \in 1 .. Height
    /\ \A h \in 1 .. Height :
          /\ db[HashKey(h)] \in 0 .. made /\ BlockKey(db[HashKey(h)]) \in DOMAIN db
          /\ BlockAt(h) \in Block /\ BlockAt(h).height = h /\ BlockAt(h).hash = db[HashKey(h)]
          /\ h > 1 => BlockAt(h).prev = db[HashKey(h - 1)]

\* A transaction is found by its hash and its addresses, with its height.
Recorded(h, d) ==
    /\ d.number = h
    /\ TxKey(d.tx) \in DOMAIN db /\ db[TxKey(d.tx)] = d
    /\ TxHeightKey(d.tx, d) \in DOMAIN db /\ db[TxHeightKey(d.tx, d)] = h
    /\ \A a \in {Sender[d.tx], Receiver[d.tx]} :
          AddressKey(a, d.tx) \in DOMAIN db /\ db[AddressKey(a, d.tx)] = d

Indexed ==
    /\ \A h \in 1 .. Height : \A i \in DOMAIN BlockAt(h).txs : Recorded(h, BlockAt(h).txs[i])
    /\ \A key \in DOMAIN db : key[1] = "m" /\ key[2][1] = "addr" =>
          db[key] \in TxRecord /\ db[key].number \in 1 .. Height

\* Of the blocks under way, those for the next height extend the chain, and
\* none has the hash of another or a transaction that is on the chain.
Packs ==
    \A b \in packed :
       /\ b \in Block /\ b.hash \in 1 .. made /\ b.height \in 2 .. Height + 1
       /\ \A h \in 1 .. Height : db[HashKey(h)] # b.hash
       /\ \A c \in packed : c.hash = b.hash => c = b
       /\ \A i \in DOMAIN b.txs : b.txs[i].number = b.height
       /\ b.height = Height + 1 => /\ b.prev = db[HashKey(Height)]
                                   /\ \A i \in DOMAIN b.txs : ~OnChain(b.txs[i].tx)

---------------------------------------------------------------------------
(* The readers.                                                            *)

Bare(lo, hi) == \A x \in lo .. hi : BlockAt(x).txs = <<>>

\* The pages turned over so far reach down to height low.
Reach(s, low) == \E x \in ToSet(s) : x <= low

InSection(j) ==
    /\ j.found \in Seq(Block) /\ Len(j.found) < j.at
    /\ j.found # <<>> => j.at - 1 <= Height
    /\ \A i \in 1 .. Len(j.found) : j.found[i] = BlockAt(j.at - Len(j.found) + i - 1)

InPages(j, s) ==
    /\ j.to <= 1 \/ j.to <= j.asof - j.page * j.num + 1
    /\ j.page >= 1 => j.at <= j.asof
    /\ s # <<>> => Reach(s, j.at + 1)

JobInv(j, s) ==
    /\ j \in Jobs /\ More(j) /\ j.asof <= Height
    /\ j.at >= 1 /\ (j.op \in {"block", "rpcblock", "page"} => j.to >= 1)
    /\ j.hash # NotExist => j.at <= Height /\ j.hash = db[HashKey(j.at)]
    /\ j.op = "latest" => j.found = <<>> /\ j.at <= j.asof /\ Bare(j.at + 1, j.asof)
    /\ j.op = "section" => InSection(j)
    /\ j.op = "page" => InPages(j, s)

LatestAnswer(a) ==
    /\ a.ok
    /\ \/ a.found = <<>> /\ Bare(1, a.asof)
       \/ \E h \in 1 .. a.asof :
             /\ a.found # <<>> /\ a.found[1].height = h
             /\ a.found[1].hash = BlockAt(h).hash /\ a.found[1].txs = BlockAt(h).txs
             /\ BlockAt(h).txs # <<>> /\ Bare(h + 1, a.asof)

SectionAnswer(a) ==
    /\ a.ok \/ a.to > a.asof
    /\ \A i \in DOMAIN a.found :
          /\ a.found[i].height = a.found[1].height + i - 1
          /\ i > 1 => a.found[i].prev = a.found[i - 1].hash

\* What the last page leaves is for the next one to begin with.
PageAnswer(a, s) ==
    a.page >= 1 /\ s # <<>> => Reach(s, 1) \/ Reach(s, a.asof - a.page * a.num + 1)

AnswerInv(a, s, idle) ==
    /\ a.asof \in Nat /\ a.asof <= Height /\ a.page \in Nat /\ a.num \in Nat
    /\ a.op = "latest" => LatestAnswer(a)
    /\ a.op = "section" => SectionAnswer(a)
    /\ a.op = "page" /\ idle => PageAnswer(a, s)

Gapless(s) == \A x \in ToSet(s) : x \in 1 .. Height /\ x .. Head(s) \subseteq ToSet(s)

\* A reader with job j, answer a and pages s.
Fine(j, a, s) ==
    /\ s \in Seq(Nat) /\ Gapless(s)
    /\ j # Idle => JobInv(j, s)
    /\ a # Idle => AnswerInv(a, s, j = Idle)

ReaderInv(r) == Fine(job[r], answer[r], shown[r])

ReadersTyped == DOMAIN job = Readers /\ DOMAIN answer = Readers /\ DOMAIN shown = Readers

HasChain == Chained /\ Indexed /\ Packs /\ \A r \in Readers : ReaderInv(r)
NoChain ==
    /\ made = 0 /\ packed = {}
    /\ \A r \in Readers : job[r] = Idle /\ answer[r] = Idle /\ shown[r] = <<>>

ChainInv == ReadersTyped /\ IF db = Nothing THEN NoChain ELSE HasChain

---------------------------------------------------------------------------
(* What a list of operations writes.                                       *)

KeyOf(e)   == IF e.op = "set" THEN RawKey(e.name) ELSE MapKey(e.name, e.arg[1])
ValueOf(e) == IF e.op = "set" THEN e.arg ELSE e.arg[2]

\* One operation's write.
LEMMA OneWrite ==
  ASSUME NEW w, NEW e
  PROVE  WriteOne(w, e) = Amend(w, Put(KeyOf(e), ValueOf(e)))
<1>1. \A k, v : set(k, v).writes = Put(RawKey(k), v)
  BY DEF set, Effect
<1>2. \A m, k, v : mset(m, k, v).writes = Put(MapKey(m, k), v)
  BY DEF mset, Effect
<1>3. CASE e.op = "set"
  <2>1. KeyOf(e) = RawKey(e.name) /\ ValueOf(e) = e.arg
    BY <1>3 DEF KeyOf, ValueOf
  <2> QED BY <1>1, <1>3, <2>1 DEF WriteOne
<1>4. CASE e.op # "set"
  <2>1. KeyOf(e) = MapKey(e.name, e.arg[1]) /\ ValueOf(e) = e.arg[2]
    BY <1>4 DEF KeyOf, ValueOf
  <2> QED BY <1>2, <1>4, <2>1 DEF WriteOne
<1> QED BY <1>3, <1>4

\* The writes of a list, operation by operation.
WritesUpTo(h, n, X, ops) ==
  /\ h \in [0 .. n -> X] /\ h[0] = Nothing /\ h[n] = WritesOf(ops)
  /\ \A k \in 1 .. n : h[k] = WriteOne(h[k - 1], ops[k])

LEMMA WritesFold ==
  ASSUME NEW n \in Nat, NEW ops, DOMAIN ops = 1 .. n, NEW X, Nothing \in X,
         \A w \in X, i \in 1 .. n : WriteOne(w, ops[i]) \in X
  PROVE  \E h : WritesUpTo(h, n, X, ops)
<1> DEFINE P(g) == g = [s \in SUBSET DOMAIN ops |->
                          IF s = {} THEN Nothing
                          ELSE LET x == Max(s) IN WriteOne(g[s \ {x}], ops[x])]
           g0 == CHOOSE g : P(g)
           F == [p \in (1 .. n) \X X |-> WriteOne(p[2], ops[p[1]])]
<1>2. WritesOf(ops) = g0[1 .. n]
  BY DEF WritesOf, FoldLeft, MapThenFoldSet
<1>3. F \in [(1 .. n) \X X -> X]
  OBVIOUS
<1>4. PICK g : Folds(g, n, X, Nothing, F)
  <2> HIDE DEF F
  <2> QED BY <1>3, FoldExists
<1>5. P(g)
  <2>1. ASSUME NEW s \in SUBSET (1 .. n), s # {}
        PROVE  F[<<Max(s), g[s \ {Max(s)}]>>] = WriteOne(g[s \ {Max(s)}], ops[Max(s)])
    <3>1. Max(s) \in 1 .. n /\ g[s \ {Max(s)}] \in X
      BY <1>4, <2>1, MaxOfInterval DEF Folds
    <3> QED BY <3>1
  <2> HIDE DEF F
  <2> QED BY <1>4, <2>1 DEF Folds
<1>6. P(g0)
  <2> HIDE DEF P
  <2> QED BY <1>5, Zenon
<1> HIDE DEF g0
<1>7. Steps(g0, n, X, Nothing, F)
  BY <1>6, MaxOfInterval DEF Steps
<1>8. PICK h : Results(h, n, X, Nothing, F, g0[1 .. n])
  <2> HIDE DEF F
  <2> QED BY <1>3, <1>7, FoldResults
<1>9. ASSUME NEW k \in 1 .. n PROVE h[k] = WriteOne(h[k - 1], ops[k])
  <2>1. h[k - 1] \in X
    BY <1>8 DEF Results
  <2> QED BY <1>8, <2>1 DEF Results
<1> HIDE DEF F
<1>10. WritesUpTo(h, n, X, ops)
  BY <1>2, <1>8, <1>9 DEF Results, WritesUpTo
<1> QED BY <1>10

\* A list writes the keys of its operations, each with the value of one of them.
LEMMA WritesAre ==
  ASSUME NEW S, NEW ops \in Seq(S)
  PROVE  /\ DOMAIN WritesOf(ops) = {KeyOf(e) : e \in ToSet(ops)}
         /\ \A key \in DOMAIN WritesOf(ops) :
               \E e \in ToSet(ops) : KeyOf(e) = key /\ WritesOf(ops)[key] = ValueOf(e)
<1> DEFINE n == Len(ops)
           K == {KeyOf(ops[i]) : i \in 1 .. n}
           V == {ValueOf(ops[i]) : i \in 1 .. n}
           X == UNION {[D -> V] : D \in SUBSET K}
<1>1. n \in Nat /\ DOMAIN ops = 1 .. n
  OBVIOUS
<1>2. Nothing \in X
  <2>1. Nothing \in [{} -> V]
    BY DEF Nothing
  <2> HIDE DEF V, K
  <2> QED BY <2>1
<1>3. ASSUME NEW w \in X, NEW i \in 1 .. n PROVE WriteOne(w, ops[i]) \in X
  <2>1. PICK D \in SUBSET K : w \in [D -> V]
    OBVIOUS
  <2>2. KeyOf(ops[i]) \in K /\ ValueOf(ops[i]) \in V
    OBVIOUS
  <2> HIDE DEF K, V
  <2>3. WriteOne(w, ops[i]) \in [D \cup {KeyOf(ops[i])} -> V]
    BY <2>1, <2>2, OneWrite DEF Amend, Put
  <2> QED BY <2>2, <2>3
<1> HIDE DEF K, V, X
<1>4. PICK h : WritesUpTo(h, n, X, ops)
  <2> HIDE DEF n
  <2> QED BY <1>1, <1>2, <1>3, WritesFold
<1> DEFINE Right(k) == /\ DOMAIN h[k] = {KeyOf(ops[i]) : i \in 1 .. k}
                       /\ \A key \in DOMAIN h[k] :
                             \E i \in 1 .. k : KeyOf(ops[i]) = key /\ h[k][key] = ValueOf(ops[i])
           T == {k \in 0 .. n : Right(k)}
<1>5. 0 \in T
  <2>1. h[0] = Nothing /\ 1 .. 0 = {} /\ 0 \in 0 .. n
    BY <1>1, <1>4 DEF WritesUpTo
  <2> QED BY <2>1 DEF Nothing
<1>6. ASSUME NEW k \in 0 .. n - 1, k \in T PROVE k + 1 \in T
  <2> DEFINE e == ops[k + 1]
  <2>1. k + 1 \in 1 .. n /\ (k + 1) - 1 = k /\ k + 1 \in 0 .. n
    BY <1>1
  <2>2. h[k + 1] = WriteOne(h[k], e)
    BY <1>4, <2>1 DEF WritesUpTo
  <2>3. /\ DOMAIN h[k + 1] = DOMAIN h[k] \cup {KeyOf(e)}
        /\ \A key \in DOMAIN h[k + 1] :
              h[k + 1][key] = IF key = KeyOf(e) THEN ValueOf(e) ELSE h[k][key]
    BY <2>2, OneWrite DEF Amend, Put
  <2>4. 1 .. k + 1 = 1 .. k \cup {k + 1}
    OBVIOUS
  <2>5. Right(k)
    BY <1>6
  <2>6. DOMAIN h[k + 1] = {KeyOf(ops[i]) : i \in 1 .. k + 1}
    BY <2>3, <2>4, <2>5
  <2>7. \A key \in DOMAIN h[k + 1] :
          \E i \in 1 .. k + 1 : KeyOf(ops[i]) = key /\ h[k + 1][key] = ValueOf(ops[i])
    BY <2>3, <2>4, <2>5
  <2> QED BY <2>1, <2>6, <2>7
<1>7. Right(n)
  <2> HIDE DEF Right
  <2>1. 0 .. n \subseteq T
    <3> HIDE DEF T, n
    <3> QED BY <1>1, <1>5, <1>6, Induction
  <2> QED BY <1>1, <2>1
<1>8. h[n] = WritesOf(ops)
  BY <1>4 DEF WritesUpTo
<1>9. ToSet(ops) = {ops[i] : i \in 1 .. n}
  BY <1>1 DEF ToSet
<1> HIDE DEF n
<1> QED BY <1>7, <1>8, <1>9

---------------------------------------------------------------------------
(* The operations of a block.                                              *)

\* The first ones; k is where the height of the next block is noted.
FirstOps(h, k, b) ==
    << OpMset(NumName(h), <<"hash">>, b.hash), OpSet(BlockName(b.hash), b),
       OpSet(NumName(k), h + 1), OpSet(<<"height">>, h) >>

\* The operations of the transactions are added one transaction after the other.
OpsUpTo(f, n, X, h, b) ==
  /\ f \in [0 .. n -> X] /\ f[0] = FirstOps(h, h - 1, b) /\ f[n] = BlockOps(h, b)
  /\ \A k \in 1 .. n : f[k] = f[k - 1] \o TxOps(h, b.hash, b.txs[k])

LEMMA OpsFold ==
  ASSUME NEW h, NEW b, NEW n \in Nat, DOMAIN b.txs = 1 .. n, NEW X, FirstOps(h, h - 1, b) \in X,
         \A o \in X, i \in 1 .. n : o \o TxOps(h, b.hash, b.txs[i]) \in X
  PROVE  \E f : OpsUpTo(f, n, X, h, b)
<1> DEFINE base == FirstOps(h, h - 1, b)
           P(g) == g = [s \in SUBSET DOMAIN b.txs |->
                          IF s = {} THEN base
                          ELSE LET x == Max(s) IN g[s \ {x}] \o TxOps(h, b.hash, b.txs[x])]
           g0 == CHOOSE g : P(g)
           F == [p \in (1 .. n) \X X |-> p[2] \o TxOps(h, b.hash, b.txs[p[1]])]
<1>2. BlockOps(h, b) = g0[1 .. n]
  BY DEF BlockOps, FirstOps, FoldLeft, MapThenFoldSet
<1>3. F \in [(1 .. n) \X X -> X]
  OBVIOUS
<1> HIDE DEF base
<1>4. PICK g : Folds(g, n, X, base, F)
  <2> HIDE DEF F
  <2>1. base \in X
    BY DEF base
  <2> QED BY <1>3, <2>1, FoldExists
<1>5. P(g)
  <2>1. ASSUME NEW s \in SUBSET (1 .. n), s # {}
        PROVE  F[<<Max(s), g[s \ {Max(s)}]>>] = g[s \ {Max(s)}] \o TxOps(h, b.hash, b.txs[Max(s)])
    <3>1. Max(s) \in 1 .. n /\ g[s \ {Max(s)}] \in X
      BY <1>4, <2>1, MaxOfInterval DEF Folds
    <3> QED BY <3>1
  <2> HIDE DEF F
  <2> QED BY <1>4, <2>1 DEF Folds
<1>6. P(g0)
  <2> HIDE DEF P
  <2> QED BY <1>5, Zenon
<1> HIDE DEF g0
<1>7. Steps(g0, n, X, base, F)
  BY <1>6, MaxOfInterval DEF Steps
<1>8. PICK f : Results(f, n, X, base, F, g0[1 .. n])
  <2> HIDE DEF F
  <2>1. base \in X
    BY DEF base
  <2> QED BY <1>3, <1>7, <2>1, FoldResults
<1>9. ASSUME NEW k \in 1 .. n PROVE f[k] = f[k - 1] \o TxOps(h, b.hash, b.txs[k])
  <2>1. f[k - 1] \in X
    BY <1>8 DEF Results
  <2> QED BY <1>8, <2>1 DEF Results
<1> HIDE DEF F
<1>10. OpsUpTo(f, n, X, h, b)
  BY <1>2, <1>8, <1>9 DEF Results, OpsUpTo, base
<1> QED BY <1>10

\* What two sequences have together.
LEMMA Together ==
  ASSUME NEW S, NEW s \in Seq(S), NEW t \in Seq(S)
  PROVE  s \o t \in Seq(S) /\ ToSet(s \o t) = ToSet(s) \cup ToSet(t)
<1> DEFINE m == Len(s)
           n == Len(t)
           u == s \o t
<1>1. m \in Nat /\ n \in Nat /\ DOMAIN s = 1 .. m /\ DOMAIN t = 1 .. n
  OBVIOUS
<1>2. /\ u \in Seq(S) /\ Len(u) = m + n /\ DOMAIN u = 1 .. m + n
      /\ \A i \in 1 .. m + n : u[i] = IF i <= m THEN s[i] ELSE t[i - m]
  OBVIOUS
<1> HIDE DEF m, n, u
<1>3. ToSet(u) \subseteq ToSet(s) \cup ToSet(t)
  <2> SUFFICES ASSUME NEW i \in 1 .. m + n PROVE u[i] \in ToSet(s) \cup ToSet(t)
    <3>1. ToSet(u) = {u[i] : i \in 1 .. m + n}
      BY <1>2 DEF ToSet
    <3> QED BY <3>1
  <2>1. CASE i <= m
    <3>1. i \in 1 .. m
      BY <1>1, <2>1
    <3> QED BY <1>1, <1>2, <2>1, <3>1 DEF ToSet
  <2>2. CASE ~(i <= m)
    <3>1. i - m \in 1 .. n
      BY <1>1, <2>2
    <3> QED BY <1>1, <1>2, <2>2, <3>1 DEF ToSet
  <2> QED BY <2>1, <2>2
<1>4. ASSUME NEW i \in 1 .. m PROVE s[i] \in ToSet(u)
  <2>1. i \in 1 .. m + n /\ i <= m
    BY <1>1
  <2> QED BY <1>2, <2>1 DEF ToSet
<1>5. ASSUME NEW i \in 1 .. n PROVE t[i] \in ToSet(u)
  <2>1. i + m \in 1 .. m + n /\ ~(i + m <= m) /\ (i + m) - m = i
    BY <1>1
  <2> QED BY <1>2, <2>1 DEF ToSet
<1> QED BY <1>1, <1>2, <1>3, <1>4, <1>5 DEF ToSet, u

\* The operations of a block are those, and those of its transactions.
LEMMA OpsAre ==
  ASSUME NEW h, NEW b \in Block
  PROVE  /\ \E S : BlockOps(h, b) \in Seq(S)
         /\ ToSet(BlockOps(h, b)) = ToSet(FirstOps(h, h - 1, b))
              \cup UNION {ToSet(TxOps(h, b.hash, b.txs[i])) : i \in DOMAIN b.txs}
<1> DEFINE n == Len(b.txs)
           first == FirstOps(h, h - 1, b)
           Of(i) == TxOps(h, b.hash, b.txs[i])
           S == ToSet(first) \cup UNION {ToSet(Of(i)) : i \in 1 .. n}
           X == Seq(S)
<1>1. n \in Nat /\ DOMAIN b.txs = 1 .. n
  <2>1. b.txs \in Seq(TxRecord)
    BY DEF Block
  <2> QED BY <2>1
<1>2. first \in X
  <2>1. first = [i \in 1 .. 4 |-> first[i]] /\ DOMAIN first = 1 .. 4
    BY DEF FirstOps
  <2>2. \A i \in 1 .. 4 : first[i] \in S
    BY <2>1 DEF ToSet
  <2>3. first \in [1 .. 4 -> S]
    <3> HIDE DEF S, first
    <3> QED BY <2>1, <2>2
  <2> HIDE DEF S, first
  <2> QED BY <2>3, SeqDef
<1>3. ASSUME NEW i \in 1 .. n PROVE Of(i) \in X
  <2> DEFINE o == Of(i)
  <2>1. o = [k \in 1 .. 5 |-> o[k]] /\ DOMAIN o = 1 .. 5
    BY DEF TxOps
  <2>2. \A k \in 1 .. 5 : o[k] \in S
    <3> HIDE DEF first
    <3>1. \A k \in 1 .. 5 : o[k] \in ToSet(o)
      BY <2>1 DEF ToSet
    <3>2. ToSet(o) \subseteq S
      OBVIOUS
    <3> HIDE DEF o, S
    <3> QED BY <3>1, <3>2
  <2>3. o \in [1 .. 5 -> S]
    <3> HIDE DEF S, o
    <3> QED BY <2>1, <2>2
  <2> HIDE DEF S, o
  <2>4. o \in Seq(S)
    <3>1. 5 \in Nat /\ Seq(S) = UNION {[1 .. m -> S] : m \in Nat}
      BY SeqDef
    <3> QED BY <2>3, <3>1
  <2> QED BY <2>4 DEF o
<1> HIDE DEF n, S, first, Of
<1>4. ASSUME NEW o \in X, NEW i \in 1 .. n PROVE o \o Of(i) \in X
  BY <1>3, Together
<1>5. PICK f : OpsUpTo(f, n, X, h, b)
  <2>1. \A o \in X, i \in 1 .. n : o \o TxOps(h, b.hash, b.txs[i]) \in X
    BY <1>4 DEF Of
  <2> HIDE DEF X
  <2> QED BY <1>1, <1>2, <2>1, OpsFold DEF first
<1> DEFINE Right(k) == ToSet(f[k]) = ToSet(first) \cup UNION {ToSet(Of(i)) : i \in 1 .. k}
           T == {k \in 0 .. n : Right(k)}
<1>6. 0 \in T
  <2>1. f[0] = first /\ 1 .. 0 = {} /\ 0 \in 0 .. n
    BY <1>1, <1>5 DEF OpsUpTo, first
  <2> QED BY <2>1
<1>7. ASSUME NEW k \in 0 .. n - 1, k \in T PROVE k + 1 \in T
  <2>1. k + 1 \in 1 .. n /\ (k + 1) - 1 = k /\ k + 1 \in 0 .. n /\ k \in 0 .. n
    BY <1>1
  <2>2. f[k + 1] = f[k] \o Of(k + 1) /\ f[k] \in X
    BY <1>5, <2>1 DEF OpsUpTo, Of
  <2>3. ToSet(f[k + 1]) = ToSet(f[k]) \cup ToSet(Of(k + 1))
    BY <1>3, <2>1, <2>2, Together
  <2>4. 1 .. k + 1 = 1 .. k \cup {k + 1}
    OBVIOUS
  <2>5. Right(k + 1)
    BY <1>7, <2>3, <2>4
  <2> QED BY <2>1, <2>5
<1>8. Right(n)
  <2> HIDE DEF Right
  <2>1. 0 .. n \subseteq T
    <3> HIDE DEF T
    <3> QED BY <1>1, <1>6, <1>7, Induction
  <2> QED BY <1>1, <2>1
<1>9. f[n] = BlockOps(h, b) /\ f[n] \in X
  BY <1>1, <1>5 DEF OpsUpTo
<1> QED BY <1>1, <1>8, <1>9 DEF first, Of

---------------------------------------------------------------------------
(* The keys.                                                               *)

NumKey(k)           == RawKey(NumName(k))
BlockTxKey(hash, t) == MapKey(BlockName(hash), <<t>>)

\* Keys of different kinds differ in their first parts.
LEMMA KeyParts ==
  /\ HeightKey[1] = "k" /\ HeightKey[2][1] = "height"
  /\ \A h : NumKey(h)[1] = "k" /\ NumKey(h)[2][1] = "num"
  /\ \A x : BlockKey(x)[1] = "k" /\ BlockKey(x)[2][1] = "block" /\ BlockKey(x)[2][2] = x
  /\ \A t : TxKey(t)[1] = "k" /\ TxKey(t)[2][1] = "tx" /\ TxKey(t)[2][2] = t
  /\ \A h : HashKey(h)[1] = "m" /\ HashKey(h)[2][1] = "num" /\ HashKey(h)[2][2] = h
  /\ \A x, t : BlockTxKey(x, t)[1] = "m" /\ BlockTxKey(x, t)[2][1] = "block"
  /\ \A t, d : /\ TxHeightKey(t, d)[1] = "m" /\ TxHeightKey(t, d)[2][1] = "tx"
              /\ TxHeightKey(t, d)[2][2] = t
  /\ \A a, t : /\ AddressKey(a, t)[1] = "m" /\ AddressKey(a, t)[2][1] = "addr"
              /\ AddressKey(a, t)[2] = Address(a) /\ AddressKey(a, t)[3][1] = t
  BY DEF HeightKey, NumKey, BlockKey, TxKey, HashKey, BlockTxKey, TxHeightKey, AddressKey,
         RawKey, MapKey, NumName, BlockName, TxName, Address

---------------------------------------------------------------------------
(* What a block writes.                                                    *)

\* One value under a key that belongs to transaction d.
TxWrites(key, v, h, hash, d) ==
    \/ key \in {AddressKey(Sender[d.tx], d.tx), AddressKey(Receiver[d.tx], d.tx),
                BlockTxKey(hash, d.tx), TxKey(d.tx)} /\ v = d
    \/ key = TxHeightKey(d.tx, d) /\ v = h

\* The writes w of a block at height h.
BlockWrites(w, h, k, b) ==
    /\ \A key \in DOMAIN w :
          \/ key = HashKey(h) /\ w[key] = b.hash
          \/ key = BlockKey(b.hash) /\ w[key] = b
          \/ key = NumKey(k) /\ w[key] = h + 1
          \/ key = HeightKey /\ w[key] = h
          \/ \E i \in DOMAIN b.txs : TxWrites(key, w[key], h, b.hash, b.txs[i])
    /\ {HashKey(h), BlockKey(b.hash), NumKey(k), HeightKey} \subseteq DOMAIN w
    /\ \A i \in DOMAIN b.txs :
          {AddressKey(Sender[b.txs[i].tx], b.txs[i].tx), AddressKey(Receiver[b.txs[i].tx], b.txs[i].tx),
           TxKey(b.txs[i].tx), TxHeightKey(b.txs[i].tx, b.txs[i])} \subseteq DOMAIN w

\* Key and value of the operations of a block.
LEMMA FirstKeys ==
  ASSUME NEW h, NEW k, NEW b
  PROVE  /\ {KeyOf(e) : e \in ToSet(FirstOps(h, k, b))}
              = {HashKey(h), BlockKey(b.hash), NumKey(k), HeightKey}
         /\ \A e \in ToSet(FirstOps(h, k, b)) :
              \/ KeyOf(e) = HashKey(h) /\ ValueOf(e) = b.hash
              \/ KeyOf(e) = BlockKey(b.hash) /\ ValueOf(e) = b
              \/ KeyOf(e) = NumKey(k) /\ ValueOf(e) = h + 1
              \/ KeyOf(e) = HeightKey /\ ValueOf(e) = h
<1> DEFINE o == FirstOps(h, k, b)
<1>1. DOMAIN o = 1 .. 4 /\ ToSet(o) = {o[1], o[2], o[3], o[4]}
  BY DEF FirstOps, ToSet
<1>2. /\ KeyOf(o[1]) = HashKey(h) /\ ValueOf(o[1]) = b.hash
      /\ KeyOf(o[2]) = BlockKey(b.hash) /\ ValueOf(o[2]) = b
      /\ KeyOf(o[3]) = NumKey(k) /\ ValueOf(o[3]) = h + 1
      /\ KeyOf(o[4]) = HeightKey /\ ValueOf(o[4]) = h
  BY DEF FirstOps, OpSet, OpMset, KeyOf, ValueOf, HashKey, BlockKey, NumKey, HeightKey
<1> HIDE DEF o
<1> QED BY <1>1, <1>2 DEF o

LEMMA TxKeys ==
  ASSUME NEW h, NEW hash, NEW d
  PROVE  /\ {AddressKey(Sender[d.tx], d.tx), AddressKey(Receiver[d.tx], d.tx),
             TxKey(d.tx), TxHeightKey(d.tx, d)} \subseteq {KeyOf(e) : e \in ToSet(TxOps(h, hash, d))}
         /\ \A e \in ToSet(TxOps(h, hash, d)) : TxWrites(KeyOf(e), ValueOf(e), h, hash, d)
<1> DEFINE o == TxOps(h, hash, d)
<1>1. DOMAIN o = 1 .. 5 /\ ToSet(o) = {o[1], o[2], o[3], o[4], o[5]}
  BY DEF TxOps, ToSet
<1>2. /\ KeyOf(o[1]) = AddressKey(Sender[d.tx], d.tx) /\ ValueOf(o[1]) = d
      /\ KeyOf(o[2]) = AddressKey(Receiver[d.tx], d.tx) /\ ValueOf(o[2]) = d
      /\ KeyOf(o[3]) = BlockTxKey(hash, d.tx) /\ ValueOf(o[3]) = d
      /\ KeyOf(o[4]) = TxHeightKey(d.tx, d) /\ ValueOf(o[4]) = h
      /\ KeyOf(o[5]) = TxKey(d.tx) /\ ValueOf(o[5]) = d
  BY DEF TxOps, OpSet, OpMset, KeyOf, ValueOf, AddressKey, BlockTxKey, TxHeightKey, TxKey
<1> HIDE DEF o
<1> QED BY <1>1, <1>2 DEF o, TxWrites

LEMMA AddBlockWrites ==
  ASSUME NEW h, NEW b \in Block
  PROVE  BlockWrites(WritesOf(BlockOps(h, b)), h, h - 1, b)
<1> DEFINE ops == BlockOps(h, b)
           w == WritesOf(ops)
           first == FirstOps(h, h - 1, b)
<1>1. PICK S : ops \in Seq(S)
  BY OpsAre
<1>2. ToSet(ops) = ToSet(first) \cup UNION {ToSet(TxOps(h, b.hash, b.txs[i])) : i \in DOMAIN b.txs}
  BY OpsAre
<1> HIDE DEF ops, first
<1>3. /\ DOMAIN w = {KeyOf(e) : e \in ToSet(ops)}
      /\ \A key \in DOMAIN w : \E e \in ToSet(ops) : KeyOf(e) = key /\ w[key] = ValueOf(e)
  BY <1>1, WritesAre
<1> HIDE DEF w
<1>4. ASSUME NEW key \in DOMAIN w
      PROVE  \/ key = HashKey(h) /\ w[key] = b.hash
             \/ key = BlockKey(b.hash) /\ w[key] = b
             \/ key = NumKey(h - 1) /\ w[key] = h + 1
             \/ key = HeightKey /\ w[key] = h
             \/ \E i \in DOMAIN b.txs : TxWrites(key, w[key], h, b.hash, b.txs[i])
  <2>1. PICK e \in ToSet(ops) : KeyOf(e) = key /\ w[key] = ValueOf(e)
    BY <1>3
  <2>2. CASE e \in ToSet(first)
    BY <2>1, <2>2, FirstKeys DEF first
  <2>3. ASSUME NEW i \in DOMAIN b.txs, e \in ToSet(TxOps(h, b.hash, b.txs[i]))
        PROVE  TxWrites(key, w[key], h, b.hash, b.txs[i])
    BY <2>1, <2>3, TxKeys
  <2> QED BY <1>2, <2>2, <2>3
<1>5. {HashKey(h), BlockKey(b.hash), NumKey(h - 1), HeightKey} \subseteq DOMAIN w
  <2>1. ToSet(first) \subseteq ToSet(ops)
    BY <1>2
  <2>2. {KeyOf(e) : e \in ToSet(first)} \subseteq DOMAIN w
    BY <1>3, <2>1
  <2> QED BY <2>2, FirstKeys DEF first
<1>6. ASSUME NEW i \in DOMAIN b.txs
      PROVE  {AddressKey(Sender[b.txs[i].tx], b.txs[i].tx), AddressKey(Receiver[b.txs[i].tx], b.txs[i].tx),
              TxKey(b.txs[i].tx), TxHeightKey(b.txs[i].tx, b.txs[i])} \subseteq DOMAIN w
  <2> DEFINE d == b.txs[i]
             o == TxOps(h, b.hash, d)
  <2>1. ToSet(o) \subseteq ToSet(ops)
    BY <1>2
  <2> HIDE DEF o, d
  <2>2. {KeyOf(e) : e \in ToSet(o)} \subseteq DOMAIN w
    BY <1>3, <2>1
  <2>3. {AddressKey(Sender[d.tx], d.tx), AddressKey(Receiver[d.tx], d.tx),
         TxKey(d.tx), TxHeightKey(d.tx, d)} \subseteq DOMAIN w
    BY <2>2, TxKeys DEF o
  <2> QED BY <2>3 DEF d
<1> QED BY <1>4, <1>5, <1>6 DEF BlockWrites, w, ops

LEMMA GenesisWrites ==
  BlockWrites(WritesOf(<<OpMset(NumName(1), <<"hash">>, 0), OpSet(BlockName(0), GenesisBlock),
                         OpSet(NumName(1), 2), OpSet(<<"height">>, 1)>>), 1, 1, GenesisBlock)
<1> DEFINE ops == FirstOps(1, 1, GenesisBlock)
           w == WritesOf(ops)
<1>1. ops = <<OpMset(NumName(1), <<"hash">>, 0), OpSet(BlockName(0), GenesisBlock),
              OpSet(NumName(1), 2), OpSet(<<"height">>, 1)>>
  BY DEF FirstOps, GenesisBlock
<1>2. ops \in Seq(ToSet(ops))
  <2>1. DOMAIN ops = 1 .. 4 /\ ops = [i \in 1 .. 4 |-> ops[i]]
    BY DEF FirstOps
  <2> HIDE DEF ops
  <2>2. ops \in [1 .. 4 -> ToSet(ops)]
    BY <2>1 DEF ToSet
  <2>3. 4 \in Nat /\ Seq(ToSet(ops)) = UNION {[1 .. m -> ToSet(ops)] : m \in Nat}
    BY SeqDef
  <2> QED BY <2>2, <2>3
<1> HIDE DEF ops
<1>3. /\ DOMAIN w = {KeyOf(e) : e \in ToSet(ops)}
      /\ \A key \in DOMAIN w : \E e \in ToSet(ops) : KeyOf(e) = key /\ w[key] = ValueOf(e)
  BY <1>2, WritesAre
<1> HIDE DEF w
<1>4. /\ DOMAIN w = {HashKey(1), BlockKey(GenesisBlock.hash), NumKey(1), HeightKey}
      /\ \A key \in DOMAIN w :
            \/ key = HashKey(1) /\ w[key] = GenesisBlock.hash
            \/ key = BlockKey(GenesisBlock.hash) /\ w[key] = GenesisBlock
            \/ key = NumKey(1) /\ w[key] = 1 + 1
            \/ key = HeightKey /\ w[key] = 1
  BY <1>3, FirstKeys DEF ops
<1>5. DOMAIN GenesisBlock.txs = {}
  BY DEF GenesisBlock
<1> QED BY <1>1, <1>4, <1>5 DEF BlockWrites, w

\* A key is as it was.
Kept(key, base, new) ==
    (key \in DOMAIN new <=> key \in DOMAIN base) /\ (key \in DOMAIN base => new[key] = base[key])

\* What the data base new has that base, to which block b is added, had not.
Added(base, new, h, b) ==
    /\ HeightKey \in DOMAIN new /\ new[HeightKey] = h
    /\ HashKey(h) \in DOMAIN new /\ new[HashKey(h)] = b.hash
    /\ BlockKey(b.hash) \in DOMAIN new /\ new[BlockKey(b.hash)] = b
    /\ \A x : x # h => Kept(HashKey(x), base, new)
    /\ \A x : x # b.hash => Kept(BlockKey(x), base, new)

AddedTxs(base, new, h, b) ==
    /\ \A i \in DOMAIN b.txs : LET d == b.txs[i] IN
          /\ TxKey(d.tx) \in DOMAIN new /\ new[TxKey(d.tx)] = d
          /\ TxHeightKey(d.tx, d) \in DOMAIN new /\ new[TxHeightKey(d.tx, d)] = h
          /\ \A a \in {Sender[d.tx], Receiver[d.tx]} :
                AddressKey(a, d.tx) \in DOMAIN new /\ new[AddressKey(a, d.tx)] = d
    /\ \A t : (\A i \in DOMAIN b.txs : b.txs[i].tx # t) =>
          /\ Kept(TxKey(t), base, new)
          /\ \A d : Kept(TxHeightKey(t, d), base, new)
          /\ \A a : Kept(AddressKey(a, t), base, new)
    /\ \A key \in DOMAIN new : key[1] = "m" /\ key[2][1] = "addr" =>
          \/ key \in DOMAIN base /\ new[key] = base[key]
          \/ \E i \in DOMAIN b.txs : new[key] = b.txs[i]

\* No write of a block is a deletion.
LEMMA OverBlock ==
  ASSUME NEW base, NEW w, NEW h \in Nat, NEW k, NEW b \in Block, BlockWrites(w, h, k, b)
  PROVE  /\ DOMAIN Over(base, w) = DOMAIN base \cup DOMAIN w
         /\ \A key \in DOMAIN Over(base, w) :
               Over(base, w)[key] = IF key \in DOMAIN w THEN w[key] ELSE base[key]
<1>1. b.hash \in Nat /\ h + 1 \in Nat /\ \A i \in DOMAIN b.txs : b.txs[i] \in TxRecord
  <2>1. b.hash \in Nat /\ b.txs \in Seq(TxRecord)
    BY DEF Block
  <2> QED BY <2>1, ElementOfSeq
<1>2. ASSUME NEW key \in DOMAIN w PROVE w[key] \in Nat \cup TxRecord \cup Block
  BY <1>1 DEF BlockWrites, TxWrites
<1>3. \A key \in DOMAIN w : w[key] # Gone
  BY <1>2, ChainAssumption
<1> QED BY <1>3 DEF Over

LEMMA BlockAdded ==
  ASSUME NEW base, NEW w, NEW h \in Nat, NEW k, NEW b \in Block, BlockWrites(w, h, k, b)
  PROVE  Added(base, Over(base, w), h, b)
<1> DEFINE new == Over(base, w)
<1>1. /\ DOMAIN new = DOMAIN base \cup DOMAIN w
      /\ \A key \in DOMAIN new : new[key] = IF key \in DOMAIN w THEN w[key] ELSE base[key]
  BY OverBlock
<1> HIDE DEF new
<1>2. \A key : key \notin DOMAIN w => Kept(key, base, new)
  BY <1>1 DEF Kept
<1>3. ASSUME NEW key \in DOMAIN w
      PROVE  /\ key[1] = "k" /\ key[2][1] = "height" => w[key] = h
             /\ key[1] = "m" /\ key[2][1] = "num" => key = HashKey(h) /\ w[key] = b.hash
             /\ key[1] = "k" /\ key[2][1] = "block" => key = BlockKey(b.hash) /\ w[key] = b
  <2>1. ASSUME NEW i \in DOMAIN b.txs, TxWrites(key, w[key], h, b.hash, b.txs[i])
        PROVE  \/ key[1] = "m" /\ key[2][1] \in {"tx", "block", "addr"}
               \/ key[1] = "k" /\ key[2][1] = "tx"
    BY <2>1, KeyParts DEF TxWrites
  <2> QED BY <2>1, KeyParts DEF BlockWrites
<1>4. {HashKey(h), BlockKey(b.hash), HeightKey} \subseteq DOMAIN w
  BY DEF BlockWrites
<1>5. /\ new[HeightKey] = h /\ new[HashKey(h)] = b.hash /\ new[BlockKey(b.hash)] = b
      /\ {HashKey(h), BlockKey(b.hash), HeightKey} \subseteq DOMAIN new
  BY <1>1, <1>3, <1>4, KeyParts
<1>6. ASSUME NEW x, x # h PROVE Kept(HashKey(x), base, new)
  BY <1>2, <1>3, <1>6, KeyParts
<1>7. ASSUME NEW x, x # b.hash PROVE Kept(BlockKey(x), base, new)
  BY <1>2, <1>3, <1>7, KeyParts
<1> QED BY <1>5, <1>6, <1>7 DEF Added, new

LEMMA TxsAdded ==
  ASSUME NEW base, NEW w, NEW h \in Nat, NEW k, NEW b \in Block, BlockWrites(w, h, k, b),
         \A i, j \in DOMAIN b.txs : b.txs[i].tx = b.txs[j].tx => b.txs[i] = b.txs[j]
  PROVE  AddedTxs(base, Over(base, w), h, b)
<1> DEFINE new == Over(base, w)
<1>1. /\ DOMAIN new = DOMAIN base \cup DOMAIN w
      /\ \A key \in DOMAIN new : new[key] = IF key \in DOMAIN w THEN w[key] ELSE base[key]
  BY OverBlock
<1> HIDE DEF new
<1>2. \A key : key \notin DOMAIN w => Kept(key, base, new)
  BY <1>1 DEF Kept
<1>3. ASSUME NEW key \in DOMAIN w
      PROVE  /\ key[1] = "k" /\ key[2][1] = "tx" =>
                   \E i \in DOMAIN b.txs : key[2][2] = b.txs[i].tx /\ w[key] = b.txs[i]
             /\ key[1] = "m" /\ key[2][1] = "tx" =>
                   w[key] = h /\ \E i \in DOMAIN b.txs : key[2][2] = b.txs[i].tx
             /\ key[1] = "m" /\ key[2][1] = "addr" =>
                   \E i \in DOMAIN b.txs : key[3][1] = b.txs[i].tx /\ w[key] = b.txs[i]
  <2>1. CASE \E i \in DOMAIN b.txs : TxWrites(key, w[key], h, b.hash, b.txs[i])
    <3>1. PICK i \in DOMAIN b.txs : TxWrites(key, w[key], h, b.hash, b.txs[i])
      BY <2>1
    <3> DEFINE d == b.txs[i]
    <3>2. CASE key = TxKey(d.tx) /\ w[key] = d
      BY <3>2, KeyParts
    <3>3. CASE key = TxHeightKey(d.tx, d) /\ w[key] = h
      BY <3>3, KeyParts
    <3>4. CASE key = BlockTxKey(b.hash, d.tx)
      BY <3>4, KeyParts
    <3>5. CASE \E a : key = AddressKey(a, d.tx) /\ w[key] = d
      BY <3>5, KeyParts
    <3> QED BY <3>1, <3>2, <3>3, <3>4, <3>5 DEF TxWrites
  <2>2. CASE ~ \E i \in DOMAIN b.txs : TxWrites(key, w[key], h, b.hash, b.txs[i])
    BY <2>2, KeyParts DEF BlockWrites
  <2> QED BY <2>1, <2>2
<1>4. ASSUME NEW i \in DOMAIN b.txs, NEW d, d = b.txs[i]
      PROVE  /\ TxKey(d.tx) \in DOMAIN new /\ new[TxKey(d.tx)] = d
             /\ TxHeightKey(d.tx, d) \in DOMAIN new /\ new[TxHeightKey(d.tx, d)] = h
             /\ \A a \in {Sender[d.tx], Receiver[d.tx]} :
                   AddressKey(a, d.tx) \in DOMAIN new /\ new[AddressKey(a, d.tx)] = d
  <2>1. {AddressKey(Sender[d.tx], d.tx), AddressKey(Receiver[d.tx], d.tx),
         TxKey(d.tx), TxHeightKey(d.tx, d)} \subseteq DOMAIN w
    BY <1>4 DEF BlockWrites
  <2>2. \A j \in DOMAIN b.txs : b.txs[j].tx = d.tx => b.txs[j] = d
    BY <1>4
  <2>3. w[TxKey(d.tx)] = d
    BY <1>3, <2>1, <2>2, KeyParts
  <2>4. w[TxHeightKey(d.tx, d)] = h
    BY <1>3, <2>1, KeyParts
  <2>5. \A a \in {Sender[d.tx], Receiver[d.tx]} : w[AddressKey(a, d.tx)] = d
    BY <1>3, <2>1, <2>2, KeyParts
  <2> QED BY <1>1, <2>1, <2>3, <2>4, <2>5
<1>5. ASSUME NEW t, \A i \in DOMAIN b.txs : b.txs[i].tx # t
      PROVE  /\ Kept(TxKey(t), base, new)
             /\ \A d : Kept(TxHeightKey(t, d), base, new)
             /\ \A a : Kept(AddressKey(a, t), base, new)
  <2>1. TxKey(t) \notin DOMAIN w
    BY <1>3, <1>5, KeyParts
  <2>2. ASSUME NEW d PROVE TxHeightKey(t, d) \notin DOMAIN w
    BY <1>3, <1>5, KeyParts
  <2>3. ASSUME NEW a PROVE AddressKey(a, t) \notin DOMAIN w
    BY <1>3, <1>5, KeyParts
  <2> QED BY <1>2, <2>1, <2>2, <2>3
<1>6. ASSUME NEW key \in DOMAIN new, key[1] = "m", key[2][1] = "addr"
      PROVE  \/ key \in DOMAIN base /\ new[key] = base[key]
             \/ \E i \in DOMAIN b.txs : new[key] = b.txs[i]
  BY <1>1, <1>3, <1>6
<1> QED BY <1>4, <1>5, <1>6 DEF AddedTxs, new

---------------------------------------------------------------------------
(* The chain grows.                                                        *)

\* Blocks stay where they are.
Grows ==
    /\ Height' \in Nat /\ Height <= Height'
    /\ \A h \in 1 .. Height : db'[HashKey(h)] = db[HashKey(h)] /\ BlockAt(h)' = BlockAt(h)

LEMMA AddChained ==
  ASSUME NEW H, Height = H, Chained, Packs, NEW b \in packed, AddBlock(b)
  PROVE  Chained' /\ Grows /\ Height' = H + 1 /\ BlockAt(H + 1)' = b
<1>1. H \in Nat \ {0} /\ H + 1 \in Nat /\ made \in Nat /\ made' = made
  BY DEF Chained, AddBlock
<1>2. /\ b \in Block /\ b.hash \in 1 .. made /\ b.height = H + 1
      /\ b.prev = db[HashKey(H)] /\ \A h \in 1 .. H : db[HashKey(h)] # b.hash
  BY DEF Packs, AddBlock
<1>3. Added(db, db', H + 1, b)
  <2>1. db' = Over(db, WritesOf(BlockOps(H + 1, b)))
    BY DEF AddBlock, Write
  <2>2. BlockWrites(WritesOf(BlockOps(H + 1, b)), H + 1, (H + 1) - 1, b)
    BY <1>2, AddBlockWrites
  <2> QED BY <1>1, <1>2, <2>1, <2>2, BlockAdded
<1>4. Height' = H + 1 /\ HeightKey \in DOMAIN db'
  BY <1>3 DEF Added, Height
<1>5. /\ HashKey(H + 1) \in DOMAIN db' /\ db'[HashKey(H + 1)] = b.hash
      /\ BlockKey(b.hash) \in DOMAIN db' /\ BlockAt(H + 1)' = b
  <2>1. /\ HashKey(H + 1) \in DOMAIN db' /\ db'[HashKey(H + 1)] = b.hash
        /\ BlockKey(b.hash) \in DOMAIN db' /\ db'[BlockKey(b.hash)] = b
    BY <1>3 DEF Added
  <2> QED BY <2>1 DEF BlockAt, BlockKey
<1>6. ASSUME NEW h \in 1 .. H
      PROVE  /\ HashKey(h) \in DOMAIN db' /\ db'[HashKey(h)] = db[HashKey(h)]
             /\ BlockKey(db[HashKey(h)]) \in DOMAIN db' /\ BlockAt(h)' = BlockAt(h)
  <2>1. h # H + 1 /\ HashKey(h) \in DOMAIN db /\ BlockKey(db[HashKey(h)]) \in DOMAIN db
    BY <1>1 DEF Chained
  <2>2. HashKey(h) \in DOMAIN db' /\ db'[HashKey(h)] = db[HashKey(h)]
    BY <1>3, <2>1 DEF Added, Kept
  <2>3. /\ BlockKey(db[HashKey(h)]) \in DOMAIN db'
        /\ db'[BlockKey(db[HashKey(h)])] = db[BlockKey(db[HashKey(h)])]
    BY <1>2, <1>3, <2>1 DEF Added, Kept
  <2> QED BY <2>2, <2>3 DEF BlockAt, BlockKey
<1>7. ASSUME NEW h \in Nat PROVE HashKey(h) \in DOMAIN db' <=> h \in 1 .. H + 1
  <2>1. CASE h = H + 1
    BY <1>1, <1>5, <2>1
  <2>2. CASE h # H + 1
    <3>1. HashKey(h) \in DOMAIN db' <=> HashKey(h) \in DOMAIN db
      BY <1>3, <2>2 DEF Added, Kept
    <3>2. HashKey(h) \in DOMAIN db <=> h \in 1 .. H
      BY DEF Chained
    <3> QED BY <1>1, <2>2, <3>1, <3>2
  <2> QED BY <2>1, <2>2
<1>8. Grows
  <2>1. H <= H + 1
    BY <1>1
  <2> QED BY <1>1, <1>4, <1>6, <2>1 DEF Grows
<1>9. ASSUME NEW h \in 1 .. H + 1
      PROVE  /\ db'[HashKey(h)] \in 0 .. made /\ BlockKey(db'[HashKey(h)]) \in DOMAIN db'
             /\ BlockAt(h)' \in Block /\ BlockAt(h)'.height = h /\ BlockAt(h)'.hash = db'[HashKey(h)]
             /\ h > 1 => BlockAt(h)'.prev = db'[HashKey(h - 1)]
  <2>1. CASE h = H + 1
    <3>1. H \in 1 .. H /\ h - 1 = H
      BY <1>1, <2>1
    <3>2. BlockAt(h)' = b
      BY <1>5, <2>1 DEF BlockAt, BlockKey
    <3> QED BY <1>1, <1>2, <1>5, <1>6, <2>1, <3>1, <3>2
  <2>2. CASE h # H + 1
    <3>1. h \in 1 .. H /\ (h > 1 => h - 1 \in 1 .. H)
      BY <1>1, <2>2
    <3> QED BY <1>6, <3>1 DEF Chained
  <2> QED BY <2>1, <2>2
<1>10. Chained'
  <2>1. H + 1 \in Nat \ {0}
    BY <1>1
  <2> QED BY <1>1, <1>4, <1>7, <1>9, <2>1 DEF Chained
<1> QED BY <1>4, <1>5, <1>8, <1>10
LEMMA AddIndexed ==
  ASSUME NEW H, Height = H, Chained, Indexed, Packs, NEW b \in packed, AddBlock(b)
  PROVE  Indexed'
<1>1. H \in Nat \ {0} /\ H + 1 \in Nat
  BY DEF Chained
<1>2. /\ b \in Block /\ b.height = H + 1 /\ DOMAIN b.txs \subseteq Nat
      /\ \A i \in DOMAIN b.txs : b.txs[i] \in TxRecord /\ b.txs[i].number = H + 1 /\ ~OnChain(b.txs[i].tx)
  <2>1. b \in Block /\ b.txs \in Seq(TxRecord) /\ b.height = H + 1
    BY DEF Packs, AddBlock, Block
  <2>2. DOMAIN b.txs = 1 .. Len(b.txs) /\ Len(b.txs) \in Nat
    BY <2>1
  <2> QED BY <2>1, <2>2, ElementOfSeq DEF Packs, AddBlock
<1>3. AddedTxs(db, db', H + 1, b)
  <2>1. db' = Over(db, WritesOf(BlockOps(H + 1, b)))
    BY DEF AddBlock, Write
  <2>2. BlockWrites(WritesOf(BlockOps(H + 1, b)), H + 1, (H + 1) - 1, b)
    BY <1>2, AddBlockWrites
  <2>3. \A i, j \in DOMAIN b.txs : b.txs[i].tx = b.txs[j].tx => b.txs[i] = b.txs[j]
    BY <1>2 DEF TxRecord
  <2> QED BY <1>1, <1>2, <2>1, <2>2, <2>3, TxsAdded
<1>4. Height' = H + 1 /\ BlockAt(H + 1)' = b /\ \A h \in 1 .. H : BlockAt(h)' = BlockAt(h)
  BY AddChained DEF Grows
<1>5. ASSUME NEW h \in 1 .. H, NEW d, Recorded(h, d)
      PROVE  Recorded(h, d)'
  <2>1. \A i \in DOMAIN b.txs : b.txs[i].tx # d.tx
    BY <1>2, <1>5 DEF Recorded, OnChain, TxKey
  <2>2. /\ Kept(TxKey(d.tx), db, db') /\ Kept(TxHeightKey(d.tx, d), db, db')
        /\ \A a : Kept(AddressKey(a, d.tx), db, db')
    BY <1>3, <2>1 DEF AddedTxs
  <2> QED BY <1>5, <2>2 DEF Recorded, Kept
<1>6. ASSUME NEW i \in DOMAIN b.txs, NEW d, d = b.txs[i]
      PROVE  Recorded(H + 1, d)'
  <2>1. d.number = H + 1
    BY <1>2, <1>6
  <2>2. /\ TxKey(d.tx) \in DOMAIN db' /\ db'[TxKey(d.tx)] = d
        /\ TxHeightKey(d.tx, d) \in DOMAIN db' /\ db'[TxHeightKey(d.tx, d)] = H + 1
        /\ \A a \in {Sender[d.tx], Receiver[d.tx]} :
              AddressKey(a, d.tx) \in DOMAIN db' /\ db'[AddressKey(a, d.tx)] = d
    BY <1>3, <1>6 DEF AddedTxs
  <2> QED BY <2>1, <2>2 DEF Recorded
<1>7. ASSUME NEW h \in 1 .. H + 1, NEW c, c = BlockAt(h)', NEW i \in DOMAIN c.txs
      PROVE  Recorded(h, c.txs[i])'
  <2>1. CASE h = H + 1
    BY <1>4, <1>6, <1>7, <2>1
  <2>2. CASE h # H + 1
    <3>1. h \in 1 .. H
      BY <1>1, <2>2
    <3>2. c = BlockAt(h)
      BY <1>4, <1>7, <3>1
    <3>3. Recorded(h, c.txs[i])
      BY <1>7, <3>1, <3>2 DEF Indexed
    <3> QED BY <1>5, <3>1, <3>3
  <2> QED BY <2>1, <2>2
<1>8. ASSUME NEW key \in DOMAIN db', key[1] = "m", key[2][1] = "addr"
      PROVE  db'[key] \in TxRecord /\ db'[key].number \in 1 .. H + 1
  <2>1. CASE key \in DOMAIN db /\ db'[key] = db[key]
    <3>1. db[key] \in TxRecord /\ db[key].number \in 1 .. H
      BY <1>8, <2>1 DEF Indexed
    <3> QED BY <1>1, <2>1, <3>1
  <2>2. CASE \E i \in DOMAIN b.txs : db'[key] = b.txs[i]
    BY <1>1, <1>2, <2>2
  <2> QED BY <1>3, <1>8, <2>1, <2>2 DEF AddedTxs
<1> QED BY <1>4, <1>7, <1>8 DEF Indexed

LEMMA AddPacks ==
  ASSUME NEW H, Height = H, Chained, Packs, NEW b \in packed, AddBlock(b)
  PROVE  Packs'
<1>1. H \in Nat \ {0} /\ packed' = packed \ {b} /\ made' = made
  BY DEF Chained, AddBlock
<1>2. Height' = H + 1 /\ \A h \in 1 .. H : db'[HashKey(h)] = db[HashKey(h)]
  BY AddChained DEF Grows
<1>3. db'[HashKey(H + 1)] = b.hash
  <2>1. BlockAt(H + 1)' = b /\ Chained'
    BY AddChained
  <2>2. BlockAt(H + 1)'.hash = db'[HashKey(H + 1)]
    <3>1. H + 1 \in 1 .. Height'
      BY <1>1, <1>2
    <3> QED BY <2>1, <3>1 DEF Chained
  <2> QED BY <2>1, <2>2
<1>4. ASSUME NEW c \in packed', NEW h \in 1 .. H + 1 PROVE db'[HashKey(h)] # c.hash
  <2>1. CASE h = H + 1
    BY <1>1, <1>3, <2>1 DEF Packs
  <2>2. CASE h # H + 1
    <3>1. h \in 1 .. H
      BY <1>1, <2>2
    <3> QED BY <1>1, <1>2, <3>1 DEF Packs
  <2> QED BY <2>1, <2>2
<1>5. ASSUME NEW c \in packed' PROVE c.height \in 2 .. (H + 1) + 1 /\ c.height # (H + 1) + 1
  <2>1. c.height \in 2 .. H + 1
    BY <1>1 DEF Packs
  <2> QED BY <1>1, <2>1
<1> QED BY <1>1, <1>2, <1>4, <1>5 DEF Packs
\* A set of transactions in some order.
LEMMA InOrder ==
  ASSUME NEW txs \in SUBSET Txs
  PROVE  \E n \in Nat : SetToSeq(txs) \in [1 .. n -> txs]
<1> DEFINE n == Cardinality(txs)
           P(f) == f \in [1 .. n -> txs] /\ IsInjective(f)
<1>1. IsFiniteSet(txs)
  BY ChainAssumption, FS_Subset
<1>2. n \in Nat /\ ExistsBijection(1 .. n, txs)
  BY <1>1, FS_CardinalityType
<1> HIDE DEF n
<1>3. \E f : P(f)
  BY <1>2 DEF ExistsBijection, Bijection, Injection, IsInjective
<1>4. SetToSeq(txs) = CHOOSE f : P(f)
  BY DEF SetToSeq, n
<1>5. P(SetToSeq(txs))
  <2> HIDE DEF P
  <2> QED BY <1>3, <1>4
<1> QED BY <1>2, <1>5

LEMMA NewBlockKeeps ==
  ASSUME NEW H, Height = H, Chained, Indexed, Packs, NEW txs \in SUBSET Txs, NewBlock(txs)
  PROVE  Chained' /\ Indexed' /\ Packs' /\ Grows
<1> DEFINE s == SetToSeq(txs)
           b == [height |-> H + 1, hash |-> made + 1, prev |-> db[HashKey(H)],
                 txs |-> [i \in DOMAIN s |-> [tx |-> s[i], number |-> H + 1]]]
<1>1. H \in Nat \ {0} /\ made \in Nat /\ made' = made + 1 /\ db' = db /\ packed' = packed \cup {b}
  BY DEF Chained, NewBlock, vars, Height
<1>2. PICK n \in Nat : s \in [1 .. n -> txs]
  BY InOrder
<1>3. Height' = H /\ HeightKey \in DOMAIN db /\ \A h : BlockAt(h)' = BlockAt(h)
  BY <1>1 DEF Height, BlockAt, Chained
<1>4. Grows
  BY <1>1, <1>3 DEF Grows
<1>5. 0 .. made \subseteq 0 .. made' /\ 1 .. made \subseteq 1 .. made' /\ made' \in Nat
  BY <1>1
<1>6. Chained'
  BY <1>1, <1>3, <1>5 DEF Chained, BlockAt
<1>7. Indexed'
  BY <1>1, <1>3 DEF Indexed, Recorded
<1>8. /\ b \in Block /\ b.hash = made + 1 /\ b.height = H + 1 /\ b.prev = db[HashKey(H)]
      /\ \A i \in DOMAIN b.txs : b.txs[i].number = H + 1 /\ b.txs[i].tx \in txs
  <2> HIDE DEF s
  <2>1. b.txs = [i \in 1 .. n |-> [tx |-> s[i], number |-> H + 1]]
    BY <1>2
  <2>2. H + 1 \in Nat /\ \A i \in 1 .. n : [tx |-> s[i], number |-> H + 1] \in TxRecord
    BY <1>1, <1>2 DEF TxRecord
  <2>3. b.txs \in [1 .. n -> TxRecord]
    BY <2>1, <2>2
  <2>4. b.txs \in Seq(TxRecord)
    BY <2>3, SeqDef
  <2>5. db[HashKey(H)] \in Nat
    <3>1. H \in 1 .. H
      BY <1>1
    <3>2. db[HashKey(H)] \in 0 .. made
      BY <3>1 DEF Chained
    <3> QED BY <1>1, <3>2
  <2>6. b \in Block
    BY <1>1, <2>2, <2>4, <2>5 DEF Block
  <2> QED BY <1>2, <2>1, <2>6
<1> HIDE DEF s
<1>9. ASSUME NEW c \in packed
      PROVE  /\ c \in Block /\ c.hash \in 1 .. made /\ c.hash # made + 1 /\ c.height \in 2 .. H + 1
             /\ \A h \in 1 .. H : db[HashKey(h)] # c.hash
             /\ \A i \in DOMAIN c.txs : c.txs[i].number = c.height
             /\ c.height = H + 1 => /\ c.prev = db[HashKey(H)]
                                    /\ \A i \in DOMAIN c.txs : ~OnChain(c.txs[i].tx)
  <2>1. c.hash \in 1 .. made
    BY DEF Packs
  <2>2. c.hash # made + 1
    BY <1>1, <2>1
  <2> QED BY <2>1, <2>2 DEF Packs
<1>10. /\ b.hash \in 1 .. made' /\ b.height \in 2 .. H + 1
       /\ \A h \in 1 .. H : db[HashKey(h)] # b.hash
       /\ \A i \in DOMAIN b.txs : ~OnChain(b.txs[i].tx)
  <2>1. ASSUME NEW h \in 1 .. H PROVE db[HashKey(h)] # made + 1
    <3>1. db[HashKey(h)] \in 0 .. made
      BY DEF Chained
    <3> QED BY <1>1, <3>1
  <2>2. \A t \in txs : ~OnChain(t)
    BY DEF NewBlock
  <2>3. made + 1 \in 1 .. made' /\ H + 1 \in 2 .. H + 1
    BY <1>1
  <2> HIDE DEF b
  <2> QED BY <1>8, <2>1, <2>2, <2>3
<1> HIDE DEF b
<1>11. \A t : OnChain(t)' <=> OnChain(t)
  BY <1>1 DEF OnChain
<1>12. ASSUME NEW c \in packed', NEW e \in packed', e.hash = c.hash PROVE e = c
  <2>1. CASE c = b \/ e = b
    BY <1>1, <1>8, <1>9, <1>12, <2>1
  <2>2. CASE c # b /\ e # b
    BY <1>1, <1>12, <2>2 DEF Packs
  <2> QED BY <2>1, <2>2
<1>13. ASSUME NEW c \in packed'
       PROVE  /\ c \in Block /\ c.hash \in 1 .. made' /\ c.height \in 2 .. H + 1
              /\ \A h \in 1 .. H : db[HashKey(h)] # c.hash
              /\ \A i \in DOMAIN c.txs : c.txs[i].number = c.height
              /\ c.height = H + 1 => /\ c.prev = db[HashKey(H)]
                                     /\ \A i \in DOMAIN c.txs : ~OnChain(c.txs[i].tx)
  <2>1. CASE c \in packed
    BY <1>5, <1>9, <2>1
  <2>2. CASE c = b
    BY <1>8, <1>10, <2>2
  <2> QED BY <1>1, <2>1, <2>2
<1>14. Packs'
  BY <1>1, <1>3, <1>11, <1>12, <1>13 DEF Packs
<1> QED BY <1>4, <1>6, <1>7, <1>14

\* The first block begins the chain.
LEMMA GenesisChained ==
  ASSUME db = Nothing, NoChain, Genesis
  PROVE  Chained' /\ Indexed' /\ Packs' /\ UNCHANGED readers
<1>1. made' = 0 /\ packed' = {} /\ UNCHANGED readers
  BY DEF NoChain, Genesis, Write
<1>2. GenesisBlock \in Block /\ DOMAIN GenesisBlock.txs = {}
  BY DEF GenesisBlock, Block
<1>3. Added(db, db', 1, GenesisBlock) /\ AddedTxs(db, db', 1, GenesisBlock)
  BY <1>2, GenesisWrites, BlockAdded, TxsAdded DEF Genesis, Write
<1>4. DOMAIN db = {}
  BY DEF Nothing
<1>5. Height' = 1 /\ HeightKey \in DOMAIN db'
  BY <1>3 DEF Added, Height
<1>6. /\ HashKey(1) \in DOMAIN db' /\ db'[HashKey(1)] = 0
      /\ BlockKey(0) \in DOMAIN db' /\ db'[BlockKey(0)] = GenesisBlock
  BY <1>3 DEF Added, GenesisBlock
<1>7. BlockAt(1)' = GenesisBlock
  BY <1>6 DEF BlockAt, BlockKey
<1>8. ASSUME NEW h \in Nat PROVE HashKey(h) \in DOMAIN db' <=> h \in 1 .. 1
  <2>1. CASE h = 1
    BY <1>6, <2>1
  <2>2. CASE h # 1
    BY <1>3, <1>4, <2>2 DEF Added, Kept
  <2> QED BY <2>1, <2>2
<1>9. \A h \in 1 .. 1 : h = 1
  OBVIOUS
<1>10. GenesisBlock.height = 1 /\ GenesisBlock.hash = 0
  BY DEF GenesisBlock
<1>11. Chained'
  BY <1>1, <1>2, <1>5, <1>6, <1>7, <1>8, <1>9, <1>10 DEF Chained
<1>12. \A key \in DOMAIN db' : ~(key[1] = "m" /\ key[2][1] = "addr")
  BY <1>2, <1>3, <1>4 DEF AddedTxs
<1>13. Indexed'
  BY <1>2, <1>5, <1>7, <1>9, <1>12 DEF Indexed
<1> QED BY <1>1, <1>11, <1>13 DEF Packs
---------------------------------------------------------------------------
(* What is fine for a reader stays so while the chain grows.               *)

LEMMA JobKept ==
  ASSUME NEW H, Height = H, NEW G, Height' = G, Chained, Grows, NEW j, NEW s, JobInv(j, s)
  PROVE  JobInv(j, s)'
<1>1. H \in Nat /\ G \in Nat /\ H <= G
  BY DEF Chained, Grows
<1>2. /\ j \in Jobs /\ j.at \in Int /\ j.to \in Int /\ j.asof \in Nat /\ j.asof <= H
      /\ j.found \in Seq(Block \cup RpcBlock)
  BY DEF JobInv, Jobs
<1>3. j.asof <= G
  BY <1>1, <1>2
<1>4. j.hash # NotExist => j.at <= G /\ j.hash = db'[HashKey(j.at)]
  <2> SUFFICES ASSUME j.hash # NotExist PROVE j.at <= G /\ j.hash = db'[HashKey(j.at)]
    OBVIOUS
  <2>1. j.at >= 1 /\ j.at <= H /\ j.hash = db[HashKey(j.at)]
    BY DEF JobInv
  <2>2. j.at \in 1 .. H /\ j.at <= G
    BY <1>1, <1>2, <2>1
  <2> QED BY <2>1, <2>2 DEF Grows
<1>5. ASSUME j.op = "latest" PROVE Bare(j.at + 1, j.asof)'
  <2>1. \A x \in j.at + 1 .. j.asof : x \in 1 .. H
    BY <1>1, <1>2 DEF JobInv
  <2>2. Bare(j.at + 1, j.asof)
    BY <1>5 DEF JobInv
  <2> QED BY <2>1, <2>2 DEF Bare, Grows
<1>6. ASSUME j.op = "section" PROVE InSection(j)'
  <2>1. InSection(j)
    BY <1>6 DEF JobInv
  <2> DEFINE n == Len(j.found)
  <2>2. n \in Nat /\ n < j.at /\ (j.found # <<>> => j.at - 1 <= H) /\ (n > 0 => j.found # <<>>)
    BY <1>2, <2>1 DEF InSection
  <2>3. j.found # <<>> => j.at - 1 <= G
    BY <1>1, <1>2, <2>2
  <2>4. ASSUME NEW i \in 1 .. n
        PROVE  BlockAt(j.at - n + i - 1)' = BlockAt(j.at - n + i - 1)
    <3>1. j.at - n + i - 1 \in 1 .. H
      <4> HIDE DEF n
      <4> QED BY <1>1, <1>2, <2>2
    <3> QED BY <3>1 DEF Grows
  <2> QED BY <2>1, <2>3, <2>4 DEF InSection
<1> QED BY <1>3, <1>4, <1>5, <1>6 DEF JobInv, InPages, Reach, More

LEMMA AnswerKept ==
  ASSUME NEW H, Height = H, NEW G, Height' = G, Chained, Grows,
         NEW a, NEW s, NEW idle, AnswerInv(a, s, idle)
  PROVE  AnswerInv(a, s, idle)'
<1>1. H \in Nat /\ G \in Nat /\ H <= G /\ a.asof \in Nat /\ a.asof <= H
  BY DEF Chained, Grows, AnswerInv
<1>2. a.asof <= G /\ \A x \in 1 .. a.asof : x \in 1 .. H
  BY <1>1
<1>3. \A x \in 1 .. a.asof : BlockAt(x)' = BlockAt(x)
  BY <1>2 DEF Grows
<1>4. ASSUME LatestAnswer(a) PROVE LatestAnswer(a)'
  <2>1. CASE a.found = <<>> /\ Bare(1, a.asof)
    BY <1>3, <1>4, <2>1 DEF LatestAnswer, Bare
  <2>2. ASSUME NEW h \in 1 .. a.asof,
               a.found # <<>>, a.found[1].height = h, a.found[1].hash = BlockAt(h).hash,
               a.found[1].txs = BlockAt(h).txs, BlockAt(h).txs # <<>>, Bare(h + 1, a.asof)
        PROVE  LatestAnswer(a)'
    <3>1. \A x \in h + 1 .. a.asof : x \in 1 .. a.asof
      BY <1>1
    <3>2. Bare(h + 1, a.asof)'
      BY <1>3, <2>2, <3>1 DEF Bare
    <3>3. BlockAt(h)' = BlockAt(h)
      BY <1>3
    <3> QED BY <1>4, <2>2, <3>2, <3>3 DEF LatestAnswer
  <2> QED BY <1>4, <2>1, <2>2 DEF LatestAnswer
<1> QED BY <1>2, <1>4 DEF AnswerInv, SectionAnswer, PageAnswer, Reach

LEMMA FineKept ==
  ASSUME Chained, Grows, NEW j, NEW a, NEW s, Fine(j, a, s)
  PROVE  Fine(j, a, s)'
<1>1. PICK H : Height = H
  OBVIOUS
<1>2. PICK G : Height' = G
  OBVIOUS
<1>3. Gapless(s)'
  <2>1. H \in Nat /\ G \in Nat /\ H <= G
    BY <1>1, <1>2 DEF Chained, Grows
  <2>2. \A x \in 1 .. H : x \in 1 .. G
    BY <2>1
  <2> QED BY <1>1, <1>2, <2>2 DEF Fine, Gapless
<1>4. j # Idle => JobInv(j, s)'
  BY <1>1, <1>2, JobKept DEF Fine
<1>5. a # Idle => AnswerInv(a, s, j = Idle)'
  BY <1>1, <1>2, AnswerKept DEF Fine
<1> QED BY <1>3, <1>4, <1>5 DEF Fine

LEMMA ReadersKept ==
  ASSUME Chained, Grows, \A r \in Readers : ReaderInv(r), UNCHANGED readers
  PROVE  \A r \in Readers : ReaderInv(r)'
<1> SUFFICES ASSUME NEW r \in Readers PROVE ReaderInv(r)'
  OBVIOUS
<1>1. PICK j, a, s : j = job[r] /\ a = answer[r] /\ s = shown[r]
  OBVIOUS
<1>2. j = job'[r] /\ a = answer'[r] /\ s = shown'[r]
  BY <1>1 DEF readers
<1>3. Fine(j, a, s)'
  BY <1>1, FineKept DEF ReaderInv
<1> QED BY <1>2, <1>3 DEF ReaderInv

---------------------------------------------------------------------------
(* A step of a reader.                                                     *)

\* The answer to job j.
Told(j, ok) == [op |-> j.op, ok |-> ok, found |-> j.found, asof |-> j.asof,
                to |-> j.to, page |-> j.page, num |-> j.num]

\* Reader r has job j, answer a and pages s now.
Turns(r, j, a, s) ==
    /\ ReadersTyped' /\ job'[r] = j /\ answer'[r] = a /\ shown'[r] = s
    /\ \A q \in Readers \ {r} : job'[q] = job[q] /\ answer'[q] = answer[q] /\ shown'[q] = shown[q]

Shows(r, s) ==
    DOMAIN shown' = Readers /\ shown'[r] = s /\ \A q \in Readers \ {r} : shown'[q] = shown[q]

LEMMA Replies ==
  ASSUME ReadersTyped, NEW r \in Readers, NEW j, NEW ok, Reply(r, j, ok),
         NEW s, Shows(r, s)
  PROVE  Turns(r, Idle, Told(j, ok), s)
BY DEF ReadersTyped, Reply, Turns, Told, Shows

LEMMA Continues ==
  ASSUME ReadersTyped, NEW r \in Readers, NEW j, Continue(r, j),
         NEW s, Shows(r, s)
  PROVE  \/ More(j) /\ Turns(r, j, answer[r], s)
         \/ ~More(j) /\ Turns(r, Idle, Told(j, TRUE), s)
<1>1. CASE More(j)
  BY <1>1 DEF Continue, ReadersTyped, Turns, Shows
<1>2. CASE ~More(j)
  BY <1>2, Replies DEF Continue
<1> QED BY <1>1, <1>2

LEMMA ReaderStep ==
  ASSUME Chained, \A q \in Readers : ReaderInv(q), UNCHANGED db,
         NEW r \in Readers, NEW j, NEW a, NEW s, Turns(r, j, a, s), Fine(j, a, s)
  PROVE  ReadersTyped' /\ \A q \in Readers : ReaderInv(q)'
<1>1. Grows
  BY DEF Grows, Height, BlockAt, Chained
<1>2. ReaderInv(r)'
  <2>1. Fine(j, a, s)'
    BY <1>1, FineKept
  <2> QED BY <2>1 DEF ReaderInv, Turns
<1>3. ASSUME NEW q \in Readers, q # r PROVE ReaderInv(q)'
  <2>1. PICK k, b, t : k = job[q] /\ b = answer[q] /\ t = shown[q]
    OBVIOUS
  <2>2. k = job'[q] /\ b = answer'[q] /\ t = shown'[q]
    BY <1>3, <2>1 DEF Turns
  <2>3. Fine(k, b, t)'
    BY <1>1, <2>1, FineKept DEF ReaderInv
  <2> QED BY <2>2, <2>3 DEF ReaderInv
<1> QED BY <1>2, <1>3 DEF Turns
\* A step of reader r after which it is fine.
Goes(r) == \E j, a, s : Turns(r, j, a, s) /\ Fine(j, a, s)

\* A job of the reader that is not one of the pages, before its first read.
LEMMA JobStarts ==
  ASSUME Chained, ReadersTyped, NEW r \in Readers, ReaderInv(r), job[r] = Idle,
         NEW j, NEW op \in {"latest", "block", "rpcblock", "section"}, NEW at \in Int, NEW to \in Int,
         j = Job(op, at, to, 0, 0), at >= 1, op \in {"block", "rpcblock"} => to >= 1,
         op = "latest" => at = Height, Continue(r, j), UNCHANGED shown
  PROVE  Goes(r)
<1>1. PICK H, a, s : H = Height /\ a = answer[r] /\ s = shown[r]
  OBVIOUS
<1>2. H \in Nat \ {0} /\ Shows(r, s)
  BY <1>1 DEF Chained, ReadersTyped, Shows
<1>3. /\ j.op = op /\ j.at = at /\ j.to = to /\ j.hash = NotExist /\ j.found = <<>>
      /\ j.asof = H /\ j.num = 0 /\ j.page = 0 /\ j \in Jobs
  BY <1>1, <1>2 DEF Job, Jobs
<1>4. s \in Seq(Nat) /\ Gapless(s) /\ (a # Idle => AnswerInv(a, s, TRUE))
  BY <1>1 DEF ReaderInv, Fine
<1>5. CASE More(j) /\ Turns(r, j, a, s)
  <2>1. op = "latest" => Bare(j.at + 1, j.asof)
    BY <1>1, <1>2, <1>3 DEF Bare
  <2>2. InSection(j)
    <3>1. Len(j.found) = 0 /\ j.found \in Seq(Block) /\ j.at > 0
      <4>1. <<>> \in Seq(Block) /\ Len(<<>>) = 0
        OBVIOUS
      <4>2. at > 0
        OBVIOUS
      <4> QED BY <1>3, <4>1, <4>2
    <3>2. 1 .. 0 = {}
      OBVIOUS
    <3> QED BY <1>3, <3>1, <3>2 DEF InSection
  <2>3. JobInv(j, s)
    BY <1>1, <1>2, <1>3, <1>5, <2>1, <2>2 DEF JobInv
  <2>4. a # Idle => AnswerInv(a, s, FALSE)
    BY <1>4 DEF AnswerInv
  <2>5. j # Idle
    BY <1>3, ChainAssumption
  <2>6. Fine(j, a, s)
    BY <1>4, <2>3, <2>4, <2>5 DEF Fine
  <2> QED BY <1>5, <2>6 DEF Goes
<1>6. CASE ~More(j) /\ Turns(r, Idle, Told(j, TRUE), s)
  <2> DEFINE b == Told(j, TRUE)
  <2>1. /\ b.op = op /\ b.ok = TRUE /\ b.found = <<>> /\ b.asof = H /\ b.page = 0 /\ b.num = 0
    BY <1>3 DEF Told
  <2>2. op # "latest"
    BY <1>1, <1>2, <1>3, <1>6 DEF More
  <2> HIDE DEF b
  <2>3. AnswerInv(b, s, TRUE)
    BY <1>1, <1>2, <2>1, <2>2 DEF AnswerInv, SectionAnswer
  <2>4. Fine(Idle, b, s)
    BY <1>4, <2>3 DEF Fine
  <2> QED BY <1>6, <2>4 DEF Goes, b
<1> QED BY <1>1, <1>2, <1>5, <1>6, Continues

LEMMA LatestGoes ==
  ASSUME Chained, ReadersTyped, NEW r \in Readers, ReaderInv(r), GetBlock_FY(r)
  PROVE  Goes(r)
<1>1. PICK j, H : j = Job("latest", H, 1, 0, 0) /\ H = Height
  OBVIOUS
<1>2. H \in Int /\ H >= 1
  BY <1>1 DEF Chained
<1> QED BY <1>1, <1>2, JobStarts DEF GetBlock_FY, Asks

LEMMA ByNumGoes ==
  ASSUME Chained, ReadersTyped, NEW r \in Readers, ReaderInv(r), NEW h \in Heights,
         GetBlockbyNum(r, h) \/ GetBlockByNum(r, h)
  PROVE  Goes(r)
<1>1. PICK j, k : j = Job("block", h, h, 0, 0) /\ k = Job("rpcblock", h, h, 0, 0)
  OBVIOUS
<1>2. h \in Int /\ h >= 1
  BY ChainAssumption DEF Heights
<1>3. CASE GetBlockbyNum(r, h)
  BY <1>1, <1>2, <1>3, JobStarts DEF GetBlockbyNum, Asks
<1>4. CASE GetBlockByNum(r, h)
  BY <1>1, <1>2, <1>4, JobStarts DEF GetBlockByNum, Asks
<1> QED BY <1>3, <1>4

LEMMA SectionGoes ==
  ASSUME Chained, ReadersTyped, NEW r \in Readers, ReaderInv(r), NEW h \in Heights, NEW last \in Heights,
         GetBlockSection(r, h, last)
  PROVE  Goes(r)
<1>1. PICK j : j = Job("section", last, h, 0, 0)
  OBVIOUS
<1>2. h \in Int /\ last \in Int /\ last >= 1
  BY ChainAssumption DEF Heights
<1> QED BY <1>1, <1>2, JobStarts DEF GetBlockSection, Asks
\* Pages that reach down to m reach down to any height above m.
LEMMA Reaches ==
  ASSUME NEW s \in Seq(Nat)
  PROVE  /\ ToSet(s) \subseteq Nat
         /\ \A m, n \in Int : m <= n /\ Reach(s, m) => Reach(s, n)
<1>1. ToSet(s) \subseteq Nat
  BY ElementOfSeq DEF ToSet
<1>2. ASSUME NEW m \in Int, NEW n \in Int, m <= n, Reach(s, m) PROVE Reach(s, n)
  BY <1>1, <1>2 DEF Reach
<1> QED BY <1>1, <1>2

\* A page is asked for that begins at height top, with the pages s before it.
Begun(H, num, page, a, before, s, top) ==
    /\ H = Height /\ num \in Nat /\ page \in Nat
    /\ before \in Seq(Nat) /\ Gapless(before) /\ (a # Idle => AnswerInv(a, before, TRUE))
    /\ page > 1 => a # Idle /\ a.op = "page" /\ a.page = page - 1 /\ a.num = num
    /\ s = IF page = 1 THEN <<>> ELSE before
    /\ top = H - (page - 1) * num

LEMMA PageBegins ==
  ASSUME Chained, NEW H, NEW num, NEW page, NEW a, NEW before, NEW s, NEW top,
         Begun(H, num, page, a, before, s, top)
  PROVE  /\ top \in Int /\ (page >= 1 => top <= H) /\ H - page * num + 1 = top - num + 1
         /\ s \in Seq(Nat) /\ Gapless(s)
         /\ s # <<>> /\ top >= 1 => Reach(s, top + 1)
         /\ s # <<>> /\ page >= 1 /\ top <= 0 => Reach(s, 1)
<1> USE DEF Begun
<1>1. H \in Nat \ {0} /\ page - 1 \in Int
  BY DEF Chained
<1>2. PICK d : d = (page - 1) * num
  OBVIOUS
<1>3. d \in Int /\ (page >= 1 => d \in Nat) /\ (page = 0 => d = -num) /\ page * num = d + num
  BY <1>1, <1>2
<1>4. top \in Int /\ (page >= 1 => top <= H) /\ H - page * num + 1 = top - num + 1
  BY <1>1, <1>2, <1>3
<1>5. s \in Seq(Nat) /\ Gapless(s)
  <2>1. ToSet(<<>>) = {} /\ <<>> \in Seq(Nat)
    BY DEF ToSet
  <2> QED BY <2>1 DEF Gapless
<1>6. ASSUME page > 1, s # <<>>
      PROVE  Reach(s, 1) \/ Reach(s, top + 1)
  <2>1. PageAnswer(a, s) /\ a.page = page - 1 /\ a.num = num /\ a.page >= 1 /\ a.asof \in Nat /\ a.asof <= H
    BY <1>1, <1>6 DEF AnswerInv
  <2>2. Reach(s, 1) \/ Reach(s, a.asof - d + 1)
    BY <1>2, <1>6, <2>1 DEF PageAnswer
  <2>3. a.asof - d + 1 <= top + 1 /\ a.asof - d + 1 \in Int /\ top + 1 \in Int
    BY <1>1, <1>2, <1>3, <2>1
  <2> QED BY <1>5, <2>2, <2>3, Reaches
<1>7. ASSUME page = 0, s # <<>>
      PROVE  Reach(s, top + 1)
  <2>1. s = before /\ Len(s) \in Nat /\ Len(s) # 0 /\ DOMAIN s = 1 .. Len(s)
    BY <1>5, <1>7
  <2>2. s[1] \in ToSet(s)
    BY <2>1 DEF ToSet
  <2>3. s[1] \in 1 .. H
    BY <1>5, <2>2 DEF Gapless
  <2>4. top + 1 >= H
    BY <1>1, <1>2, <1>3, <1>7
  <2>5. s[1] <= top + 1
    BY <1>1, <1>4, <2>3, <2>4
  <2> QED BY <2>2, <2>5 DEF Reach
<1>8. ASSUME s # <<>>, top >= 1 PROVE Reach(s, top + 1)
  <2>1. Reach(s, 1) => Reach(s, top + 1)
    <3>1. 1 <= top + 1 /\ top + 1 \in Int /\ 1 \in Int
      BY <1>4, <1>8
    <3> QED BY <1>5, <3>1, Reaches
  <2>2. page # 1
    BY <1>8
  <2> QED BY <1>6, <1>7, <1>8, <2>1, <2>2
<1>9. ASSUME s # <<>>, page >= 1, top <= 0 PROVE Reach(s, 1)
  <2>1. Reach(s, top + 1) => Reach(s, 1)
    <3>1. top + 1 <= 1 /\ top + 1 \in Int /\ 1 \in Int
      BY <1>4, <1>9
    <3> QED BY <1>5, <3>1, Reaches
  <2>2. page # 1
    BY <1>9
  <2> QED BY <1>6, <1>9, <2>1, <2>2
<1> QED BY <1>4, <1>5, <1>8, <1>9

LEMMA PageGoes ==
  ASSUME Chained, ReadersTyped, NEW r \in Readers, ReaderInv(r), TurnPage(r)
  PROVE  Goes(r)
<1>1. PICK num \in PageSizes, page \in 0 .. 1 + MaxBlocks :
         /\ page > 1 => /\ answer[r] # Idle /\ answer[r].op = "page"
                        /\ answer[r].page = page - 1 /\ answer[r].num = num
         /\ GetBlockbyNum_FY(r, num, page)
  BY DEF TurnPage
<1>2. num \in Nat /\ page \in Nat
  BY ChainAssumption
<1>3. PICK H, a, before : H = Height /\ a = answer[r] /\ before = shown[r]
  OBVIOUS
<1> DEFINE top == H - (page - 1) * num
           s == IF page = 1 THEN <<>> ELSE before
           to == Max({1, top - num + 1})
           low == H - page * num + 1
<1>4. PICK j : j = Job("page", top, to, num, page)
  OBVIOUS
<1>5. /\ job[r] = Idle
      /\ shown' = [shown EXCEPT ![r] = s]
      /\ IF top <= 0 THEN Reply(r, j, FALSE) ELSE Continue(r, j)
  BY <1>1, <1>3, <1>4 DEF GetBlockbyNum_FY, Asks, blocknumber
<1>6. H \in Nat \ {0} /\ Shows(r, s)
  BY <1>3, <1>5 DEF Chained, ReadersTyped, Shows
<1>7. before \in Seq(Nat) /\ Gapless(before) /\ (a # Idle => AnswerInv(a, before, TRUE))
  BY <1>3, <1>5 DEF ReaderInv, Fine
<1>8. PICK t : t = top
  OBVIOUS
<1>9. /\ t \in Int /\ (page >= 1 => t <= H) /\ low = t - num + 1
      /\ s \in Seq(Nat) /\ Gapless(s)
      /\ s # <<>> /\ t >= 1 => Reach(s, t + 1)
      /\ s # <<>> /\ page >= 1 /\ t <= 0 => Reach(s, 1)
  <2>1. Begun(H, num, page, a, before, s, t)
    BY <1>1, <1>2, <1>3, <1>7, <1>8 DEF Begun
  <2> HIDE DEF s, top
  <2> QED BY <2>1, PageBegins
<1>10. PICK m : m = to
  OBVIOUS
<1>11. m \in Int /\ m >= 1 /\ m >= low /\ (m = 1 \/ m = low)
  <2>1. m = Max({1, low})
    BY <1>8, <1>9, <1>10
  <2>2. low \in Int
    BY <1>2, <1>9
  <2> HIDE DEF low
  <2>3. \E x \in {1, low} : \A y \in {1, low} : x >= y
    <3>1. CASE low >= 1
      BY <2>2, <3>1
    <3>2. CASE ~(low >= 1)
      BY <2>2, <3>2
    <3> QED BY <3>1, <3>2
  <2>4. m \in {1, low} /\ \A y \in {1, low} : m >= y
    BY <2>1, <2>3 DEF Max
  <2> QED BY <2>2, <2>4
<1>12. /\ j.op = "page" /\ j.at = t /\ j.to = m /\ j.hash = NotExist /\ j.found = <<>>
       /\ j.asof = H /\ j.num = num /\ j.page = page /\ j \in Jobs
  <2> HIDE DEF top, to
  <2>1. j = [op |-> "page", at |-> t, to |-> m, hash |-> NotExist, found |-> <<>>,
             asof |-> H, num |-> num, page |-> page]
    BY <1>3, <1>4, <1>8, <1>10 DEF Job
  <2> QED BY <1>2, <1>6, <1>9, <1>11, <2>1 DEF Jobs
<1> HIDE DEF s
<1>13. ASSUME NEW ok, ~More(j) \/ t <= 0 PROVE Fine(Idle, Told(j, ok), s)
  <2> DEFINE b == Told(j, ok)
  <2>1. b.op = "page" /\ b.asof = H /\ b.page = page /\ b.num = num
    BY <1>12 DEF Told
  <2> HIDE DEF b
  <2>2. ASSUME page >= 1, s # <<>> PROVE Reach(s, 1) \/ Reach(s, low)
    <3>1. CASE t <= 0
      BY <1>9, <2>2, <3>1
    <3>2. CASE ~(t <= 0) /\ ~More(j)
      <4>1. t < m
        BY <1>9, <1>11, <1>12, <3>2 DEF More
      <4>2. low = t + 1 /\ t >= 1
        BY <1>2, <1>9, <1>11, <3>2, <4>1
      <4> QED BY <1>9, <2>2, <4>2
    <3> QED BY <1>13, <3>1, <3>2
  <2>3. PageAnswer(b, s)
    BY <2>1, <2>2 DEF PageAnswer
  <2>4. AnswerInv(b, s, TRUE)
    BY <1>2, <1>3, <1>6, <2>1, <2>3 DEF AnswerInv
  <2> QED BY <1>9, <2>4 DEF Fine, b
<1>14. ASSUME t > 0, More(j) PROVE Fine(j, a, s)
  <2>1. InPages(j, s)
    BY <1>9, <1>11, <1>12, <1>14 DEF InPages
  <2>2. JobInv(j, s)
    BY <1>3, <1>6, <1>9, <1>11, <1>12, <1>14, <2>1 DEF JobInv
  <2>3. a # Idle => AnswerInv(a, s, FALSE)
    BY <1>7 DEF AnswerInv
  <2>4. j # Idle
    BY <1>12, ChainAssumption
  <2> QED BY <1>9, <2>2, <2>3, <2>4 DEF Fine
<1>15. CASE t <= 0
  <2>1. Turns(r, Idle, Told(j, FALSE), s)
    BY <1>5, <1>6, <1>8, <1>15, Replies
  <2> QED BY <1>13, <1>15, <2>1 DEF Goes
<1>16. CASE ~(t <= 0)
  <2>1. Continue(r, j) /\ t > 0
    BY <1>5, <1>8, <1>9, <1>16
  <2>2. \/ More(j) /\ Turns(r, j, a, s)
        \/ ~More(j) /\ Turns(r, Idle, Told(j, TRUE), s)
    BY <1>3, <1>6, <2>1, Continues
  <2> QED BY <1>13, <1>14, <2>1, <2>2 DEF Goes
<1> QED BY <1>15, <1>16
---------------------------------------------------------------------------
(* The reads.                                                              *)

\* What is passed on of a block: the number the handler fills in is the one
\* that is stored.
LEMMA Passed ==
  ASSUME Chained, Indexed, NEW h \in 1 .. Height, NEW b, b = BlockAt(h),
         NEW op \in {"latest", "block", "rpcblock", "section", "page"}
  PROVE  Shown(op, b) \in Block \cup RpcBlock /\ (op # "rpcblock" => Shown(op, b) = b)
<1>1. b \in Block /\ b.height = h
  BY DEF Chained
<1>2. PICK n \in Nat : b.txs \in [1 .. n -> TxRecord]
  <2>1. b.txs \in Seq(TxRecord)
    BY <1>1 DEF Block
  <2> QED BY <2>1, SeqDef
<1>3. CASE op = "rpcblock"
  <2> DEFINE t == [i \in 1 .. n |-> Unnumbered(b.txs[i])]
  <2>1. t \in [1 .. n -> [tx : Txs]]
    BY <1>2 DEF Unnumbered, TxRecord
  <2>2. t \in Seq([tx : Txs])
    <3> HIDE DEF t
    <3>1. Seq([tx : Txs]) = UNION {[1 .. m -> [tx : Txs]] : m \in Nat}
      BY SeqDef
    <3> QED BY <2>1, <3>1
  <2>3. DOMAIN b.txs = 1 .. n
    BY <1>2
  <2>4. Shown(op, b) = [b EXCEPT !.txs = t]
    BY <1>3, <2>3 DEF Shown
  <2> HIDE DEF t
  <2>5. [b EXCEPT !.txs = t] \in RpcBlock
    BY <1>1, <2>2 DEF Block, RpcBlock
  <2> QED BY <1>3, <2>4, <2>5
<1>4. CASE op = "latest"
  <2>1. ASSUME NEW i \in 1 .. n PROVE [b.txs[i] EXCEPT !.number = h] = b.txs[i]
    <3>1. i \in DOMAIN b.txs
      BY <1>2
    <3>2. b.txs[i].number = h /\ b.txs[i] \in TxRecord
      BY <1>2, <3>1 DEF Indexed, Recorded
    <3> QED BY <3>2 DEF TxRecord
  <2>2. [i \in DOMAIN b.txs |-> [b.txs[i] EXCEPT !.number = b.height]] = b.txs
    BY <1>1, <1>2, <2>1
  <2>3. Shown(op, b) = [b EXCEPT !.txs = b.txs]
    BY <1>4, <2>2 DEF Shown
  <2>4. [b EXCEPT !.txs = b.txs] = b
    BY <1>1 DEF Block
  <2> QED BY <1>1, <2>3, <2>4
<1>5. CASE op # "rpcblock" /\ op # "latest"
  BY <1>1, <1>5 DEF Shown
<1> QED BY <1>3, <1>4, <1>5

\* The blocks found for a range follow each other.
LEMMA SectionFound ==
  ASSUME Chained, NEW j, j.at \in Int, InSection(j), NEW i \in DOMAIN j.found
  PROVE  /\ j.found[i].height = j.found[1].height + i - 1
         /\ i > 1 => j.found[i].prev = j.found[i - 1].hash
<1>1. PICK H : H = Height
  OBVIOUS
<1> DEFINE n == Len(j.found)
           x == j.at - n
<1>2. /\ H \in Nat /\ n \in Nat /\ DOMAIN j.found = 1 .. n /\ (n > 0 => j.found # <<>>)
      /\ n < j.at
  BY <1>1 DEF InSection, Chained
<1>3. \A k \in 1 .. n : j.found[k] = BlockAt(x + k - 1)
  BY DEF InSection
<1>4. i \in 1 .. n /\ 1 \in 1 .. n /\ x >= 1 /\ x \in Int /\ x + n - 1 <= H
  <2>1. i \in 1 .. n /\ n > 0
    BY <1>2
  <2>2. j.at - 1 <= H
    BY <1>1, <1>2, <2>1 DEF InSection
  <2> HIDE DEF n
  <2> QED BY <1>2, <2>1, <2>2
<1> HIDE DEF x, n
<1>5. /\ x + i - 1 \in 1 .. H /\ x + 1 - 1 \in 1 .. H /\ x + 1 - 1 = x /\ x \in Nat
      /\ i > 1 => i - 1 \in 1 .. n /\ x + (i - 1) - 1 = (x + i - 1) - 1 /\ x + i - 1 > 1
                  /\ (x + i - 1) - 1 \in 1 .. H
  <2>1. x \in Nat /\ i \in Nat /\ n \in Nat /\ H \in Nat /\ x >= 1 /\ i >= 1 /\ i <= n /\ x + n - 1 <= H
    BY <1>2, <1>4
  <2>2. x + i - 1 \in Nat /\ x + i - 1 >= 1 /\ x + i - 1 <= H
    BY <2>1
  <2>3. x + 1 - 1 = x /\ x <= H
    BY <2>1
  <2>4. ASSUME i > 1
        PROVE  i - 1 \in 1 .. n /\ x + (i - 1) - 1 = (x + i - 1) - 1 /\ x + i - 1 > 1
    BY <2>1, <2>4
  <2>5. ASSUME i > 1 PROVE (x + i - 1) - 1 \in 1 .. H
    BY <2>1, <2>2, <2>5
  <2> QED BY <2>1, <2>2, <2>3, <2>4, <2>5
<1>6. j.found[i] = BlockAt(x + i - 1) /\ j.found[1] = BlockAt(x)
  BY <1>3, <1>4, <1>5
<1>7. j.found[i].height = x + i - 1 /\ j.found[1].height = x
  BY <1>1, <1>5, <1>6 DEF Chained
<1>8. ASSUME i > 1 PROVE j.found[i].prev = j.found[i - 1].hash
  <2>1. PICK y : y = x + i - 1
    OBVIOUS
  <2>2. y \in 1 .. H /\ y > 1 /\ y - 1 \in 1 .. H /\ j.found[i] = BlockAt(y) /\ j.found[i - 1] = BlockAt(y - 1)
    BY <1>3, <1>5, <1>6, <1>8, <2>1
  <2> QED BY <1>1, <2>2 DEF Chained
<1> QED BY <1>4, <1>7, <1>8

\* There is no block where the job wants one.
LEMMA FailsFine ==
  ASSUME Chained, NEW j, NEW s \in Seq(Nat), Gapless(s), JobInv(j, s), j.at > Height
  PROVE  Fine(Idle, Told(j, j.op = "page"), s)
<1> DEFINE a == Told(j, j.op = "page")
<1>1. PICK H : H = Height
  OBVIOUS
<1>2. /\ H \in Nat /\ j.asof \in Nat /\ j.asof <= H /\ j.at \in Int /\ j.to \in Int /\ j.at > H
      /\ j.page \in Nat /\ j.num \in Nat /\ j.op # "latest" /\ (j.op = "page" => ~(j.page >= 1))
  BY <1>1 DEF Chained, JobInv, Jobs, InPages
<1>3. /\ a.op = j.op /\ a.found = j.found /\ a.asof = j.asof /\ a.to = j.to
      /\ a.page = j.page /\ a.num = j.num
  BY DEF Told
<1> HIDE DEF a
<1>4. ASSUME j.op = "section" PROVE SectionAnswer(a)
  <2>1. a.to > a.asof
    BY <1>2, <1>3, <1>4 DEF JobInv, More
  <2>2. InSection(j)
    BY <1>4 DEF JobInv
  <2>3. \A i \in DOMAIN j.found :
           /\ j.found[i].height = j.found[1].height + i - 1
           /\ i > 1 => j.found[i].prev = j.found[i - 1].hash
    BY <1>2, <2>2, SectionFound
  <2> QED BY <1>3, <2>1, <2>3 DEF SectionAnswer
<1>5. AnswerInv(a, s, TRUE)
  BY <1>1, <1>2, <1>3, <1>4 DEF AnswerInv, PageAnswer
<1> QED BY <1>5 DEF Fine, a

LEMMA ReadHashGoes ==
  ASSUME Chained, ReadersTyped, NEW r \in Readers, ReaderInv(r), ReadHash(r)
  PROVE  Goes(r)
<1>1. PICK j, a, s, H : j = job[r] /\ a = answer[r] /\ s = shown[r] /\ H = Height
  OBVIOUS
<1>2. /\ j # Idle /\ j.hash = NotExist /\ JobInv(j, s)
      /\ s \in Seq(Nat) /\ Gapless(s) /\ (a # Idle => AnswerInv(a, s, FALSE))
  BY <1>1 DEF ReadHash, ReaderInv, Fine
<1>3. H \in Nat /\ j \in Jobs /\ j.at \in Nat /\ j.at >= 1
  BY <1>1, <1>2 DEF Chained, JobInv, Jobs
<1>4. HashKey(j.at) \in DOMAIN db <=> j.at \in 1 .. H
  BY <1>1, <1>3 DEF Chained
<1>5. CASE HashKey(j.at) \notin DOMAIN db
  <2>1. Reply(r, j, j.op = "page") /\ UNCHANGED shown
    BY <1>1, <1>5 DEF ReadHash, ReadFails
  <2>2. Turns(r, Idle, Told(j, j.op = "page"), s)
    <3>1. Shows(r, s)
      BY <1>1, <2>1 DEF Shows, ReadersTyped
    <3>2. PICK ok : ok = (j.op = "page")
      OBVIOUS
    <3>3. Reply(r, j, ok)
      BY <2>1, <3>2
    <3> QED BY <3>1, <3>2, <3>3, Replies
  <2>3. j.at > Height
    BY <1>1, <1>3, <1>4, <1>5
  <2>4. Fine(Idle, Told(j, j.op = "page"), s)
    BY <1>2, <2>3, FailsFine
  <2> QED BY <2>2, <2>4 DEF Goes
<1>6. CASE HashKey(j.at) \in DOMAIN db
  <2>1. PICK k : k = [j EXCEPT !.hash = db[HashKey(j.at)]]
    OBVIOUS
  <2>2. job' = [job EXCEPT ![r] = k] /\ UNCHANGED <<answer, shown>>
    BY <1>1, <1>6, <2>1 DEF ReadHash
  <2>3. Turns(r, k, a, s)
    BY <1>1, <2>2 DEF Turns, ReadersTyped
  <2>4. db[HashKey(j.at)] \in Nat
    <3>1. db[HashKey(j.at)] \in 0 .. made
      BY <1>1, <1>4, <1>6 DEF Chained
    <3> QED BY <3>1
  <2>5. /\ k \in Jobs /\ k.hash = db[HashKey(j.at)] /\ k.op = j.op /\ k.at = j.at /\ k.to = j.to
        /\ k.found = j.found /\ k.asof = j.asof /\ k.num = j.num /\ k.page = j.page
    BY <1>3, <2>1, <2>4 DEF Jobs
  <2>6. k.at <= Height
    BY <1>1, <1>3, <1>4, <1>6, <2>5
  <2>7. JobInv(k, s)
    BY <1>2, <2>5, <2>6 DEF JobInv, More, InSection, InPages
  <2>8. k # Idle
    BY <2>5, ChainAssumption
  <2>9. Fine(k, a, s)
    BY <1>2, <2>7, <2>8 DEF Fine
  <2> QED BY <2>3, <2>9 DEF Goes
<1> QED BY <1>5, <1>6
\* The job once block b is read, and what is fine for it and for its answer.
After(j, b) ==
    [j EXCEPT !.hash = NotExist,
              !.at = IF j.op = "section" THEN @ + 1 ELSE @ - 1,
              !.found = IF Skipped(j, b) THEN @ ELSE Append(@, Shown(j.op, b))]

GoesOn(j, s) ==
    /\ More(j) => JobInv(j, s)
    /\ ~More(j) => AnswerInv(Told(j, TRUE), s, TRUE)

\* Job j is about to read block b, after which it is k.
Reads(j, s, b, k) ==
    /\ JobInv(j, s) /\ s \in Seq(Nat) /\ Gapless(s)
    /\ j.at \in 1 .. Height /\ b = BlockAt(j.at) /\ k = After(j, b)

LEMMA AfterIs ==
  ASSUME Chained, Indexed, NEW j, NEW s, NEW b, NEW k, Reads(j, s, b, k)
  PROVE  /\ k \in Jobs /\ k.hash = NotExist /\ k.op = j.op /\ k.to = j.to /\ k.asof = j.asof
         /\ k.num = j.num /\ k.page = j.page
         /\ k.at = IF j.op = "section" THEN j.at + 1 ELSE j.at - 1
         /\ k.found = IF Skipped(j, b) THEN j.found ELSE Append(j.found, Shown(j.op, b))
         /\ b \in Block /\ Shown(j.op, b) \in Block \cup RpcBlock
         /\ j.op # "rpcblock" => Shown(j.op, b) = b
<1>1. j \in Jobs /\ j.op \in {"latest", "block", "rpcblock", "section", "page"} /\ j.at \in Int
      /\ j.found \in Seq(Block \cup RpcBlock)
  BY DEF Reads, JobInv, Jobs
<1>2. Shown(j.op, b) \in Block \cup RpcBlock /\ (j.op # "rpcblock" => Shown(j.op, b) = b)
  BY <1>1, Passed DEF Reads
<1>3. b \in Block
  BY DEF Reads, Chained
<1> DEFINE at == IF j.op = "section" THEN j.at + 1 ELSE j.at - 1
           found == IF Skipped(j, b) THEN j.found ELSE Append(j.found, Shown(j.op, b))
<1>4. at \in Int /\ found \in Seq(Block \cup RpcBlock)
  <2>1. Append(j.found, Shown(j.op, b)) \in Seq(Block \cup RpcBlock)
    BY <1>1, <1>2
  <2> QED BY <1>1, <2>1
<1>5. k = [j EXCEPT !.hash = NotExist, !.at = at, !.found = found]
  BY DEF Reads, After
<1> HIDE DEF at, found
<1>6. /\ k \in Jobs /\ k.hash = NotExist /\ k.op = j.op /\ k.to = j.to /\ k.asof = j.asof
      /\ k.num = j.num /\ k.page = j.page /\ k.at = at /\ k.found = found
  BY <1>1, <1>4, <1>5 DEF Jobs
<1> QED BY <1>2, <1>3, <1>6 DEF at, found

LEMMA LatestReads ==
  ASSUME Chained, Indexed, NEW j, NEW s, NEW b, NEW k, Reads(j, s, b, k), j.op = "latest"
  PROVE  GoesOn(k, s)
<1>1. PICK H, h : H = Height /\ h = j.at
  OBVIOUS
<1>2. /\ k \in Jobs /\ k.hash = NotExist /\ k.op = "latest" /\ k.asof = j.asof /\ k.at = h - 1
      /\ k.num = j.num /\ k.page = j.page /\ Shown("latest", b) = b
      /\ k.found = IF b.txs = <<>> THEN <<>> ELSE Append(<<>>, Shown("latest", b))
  <2>1. j.found = <<>>
    BY DEF Reads, JobInv
  <2>2. /\ k \in Jobs /\ k.hash = NotExist /\ k.op = j.op /\ k.asof = j.asof
        /\ k.num = j.num /\ k.page = j.page
        /\ k.at = IF j.op = "section" THEN j.at + 1 ELSE j.at - 1
        /\ k.found = IF Skipped(j, b) THEN j.found ELSE Append(j.found, Shown(j.op, b))
        /\ j.op # "rpcblock" => Shown(j.op, b) = b
    BY AfterIs
  <2>3. Skipped(j, b) <=> b.txs = <<>>
    BY DEF Skipped
  <2> QED BY <1>1, <2>1, <2>2, <2>3
<1>3. /\ H \in Nat /\ h \in 1 .. H /\ j.asof \in Nat /\ j.asof <= H /\ h <= j.asof
      /\ j.num \in Nat /\ j.page \in Nat /\ Bare(h + 1, j.asof) /\ b = BlockAt(h)
  BY <1>1 DEF Chained, Reads, JobInv, Jobs
<1>4. CASE b.txs = <<>>
  <2>1. Bare(h, j.asof)
    <3>1. ASSUME NEW x \in h .. j.asof PROVE x = h \/ x \in h + 1 .. j.asof
      BY <1>3
    <3> QED BY <1>3, <1>4, <3>1 DEF Bare
  <2>2. k.found = <<>> /\ (More(k) <=> h - 1 >= 1)
    BY <1>2, <1>4 DEF More
  <2>3. ASSUME More(k) PROVE JobInv(k, s)
    <3>1. k.at >= 1 /\ k.at <= k.asof /\ k.at + 1 = h
      BY <1>2, <1>3, <2>2, <2>3
    <3> QED BY <1>1, <1>2, <1>3, <2>1, <2>2, <2>3, <3>1 DEF JobInv
  <2>4. ASSUME ~More(k) PROVE AnswerInv(Told(k, TRUE), s, TRUE)
    <3>1. h = 1
      BY <1>3, <2>2, <2>4
    <3> QED BY <1>1, <1>2, <1>3, <2>1, <2>2, <3>1 DEF AnswerInv, LatestAnswer, Told
  <2> QED BY <2>3, <2>4 DEF GoesOn
<1>5. CASE b.txs # <<>>
  <2> DEFINE a == Told(k, TRUE)
  <2>1. k.found # <<>> /\ k.found[1] = b
    <3>1. k.found = Append(<<>>, b)
      BY <1>2, <1>5
    <3> QED BY <3>1
  <2>2. ~More(k)
    BY <1>2, <2>1 DEF More
  <2>3. a.op = "latest" /\ a.ok /\ a.found = k.found /\ a.asof = j.asof /\ a.num = j.num /\ a.page = j.page
    BY <1>2 DEF Told
  <2> HIDE DEF a
  <2>4. b.height = h
    BY <1>1, <1>3 DEF Chained
  <2>5. LatestAnswer(a)
    <3>1. h \in 1 .. a.asof
      BY <1>3, <2>3
    <3> QED BY <1>3, <1>5, <2>1, <2>3, <2>4, <3>1 DEF LatestAnswer
  <2>6. AnswerInv(a, s, TRUE)
    BY <1>1, <1>3, <2>3, <2>5 DEF AnswerInv
  <2> QED BY <2>2, <2>6 DEF GoesOn, a
<1> QED BY <1>4, <1>5

LEMMA ByNumReads ==
  ASSUME Chained, Indexed, NEW j, NEW s, NEW b, NEW k, Reads(j, s, b, k), j.op \in {"block", "rpcblock"}
  PROVE  GoesOn(k, s)
<1>1. PICK H : H = Height
  OBVIOUS
<1>2. /\ k \in Jobs /\ k.hash = NotExist /\ k.op = j.op /\ k.asof = j.asof /\ k.to = j.to
      /\ k.num = j.num /\ k.page = j.page
  BY AfterIs
<1>3. /\ H \in Nat /\ j.asof \in Nat /\ j.asof <= H /\ j.num \in Nat /\ j.page \in Nat
      /\ j.to >= 1 /\ j.to \in Int /\ k.at \in Int
  BY <1>1, <1>2 DEF Chained, Reads, JobInv, Jobs
<1>4. ASSUME More(k) PROVE JobInv(k, s)
  <2>1. k.at >= 1
    BY <1>2, <1>3, <1>4 DEF More
  <2> QED BY <1>1, <1>2, <1>3, <1>4, <2>1 DEF JobInv
<1>5. AnswerInv(Told(k, TRUE), s, TRUE)
  BY <1>1, <1>2, <1>3 DEF AnswerInv, Told
<1> QED BY <1>4, <1>5 DEF GoesOn

LEMMA SectionReads ==
  ASSUME Chained, Indexed, NEW j, NEW s, NEW b, NEW k, Reads(j, s, b, k), j.op = "section"
  PROVE  GoesOn(k, s)
<1>1. PICK H, n : H = Height /\ n = Len(j.found)
  OBVIOUS
<1>2. /\ k \in Jobs /\ k.hash = NotExist /\ k.op = "section" /\ k.asof = j.asof /\ k.at = j.at + 1
      /\ k.num = j.num /\ k.page = j.page /\ k.found = Append(j.found, b) /\ b \in Block
  <2>1. /\ k \in Jobs /\ k.hash = NotExist /\ k.op = j.op /\ k.asof = j.asof
        /\ k.num = j.num /\ k.page = j.page /\ b \in Block
        /\ k.at = IF j.op = "section" THEN j.at + 1 ELSE j.at - 1
        /\ k.found = IF Skipped(j, b) THEN j.found ELSE Append(j.found, Shown(j.op, b))
        /\ j.op # "rpcblock" => Shown(j.op, b) = b
    BY AfterIs
  <2>2. ~Skipped(j, b)
    BY DEF Skipped
  <2> QED BY <2>1, <2>2
<1>3. /\ H \in Nat /\ j.at \in 1 .. H /\ j.asof \in Nat /\ j.asof <= H
      /\ j.num \in Nat /\ j.page \in Nat /\ b = BlockAt(j.at)
  BY <1>1 DEF Chained, Reads, JobInv, Jobs
<1>4. /\ j.found \in Seq(Block) /\ n \in Nat /\ n < j.at
      /\ \A i \in 1 .. n : j.found[i] = BlockAt(j.at - n + i - 1)
  BY <1>1 DEF Reads, JobInv, InSection
<1>5. /\ k.found \in Seq(Block) /\ Len(k.found) = n + 1
      /\ \A i \in 1 .. n + 1 : k.found[i] = IF i = n + 1 THEN b ELSE j.found[i]
  BY <1>1, <1>2, <1>4
<1>6. InSection(k)
  <2>1. n + 1 < k.at /\ k.at - 1 <= H
    BY <1>2, <1>3, <1>4
  <2>2. ASSUME NEW i \in 1 .. n + 1 PROVE k.found[i] = BlockAt(k.at - (n + 1) + i - 1)
    <3>1. k.at - (n + 1) + i - 1 = j.at - n + i - 1
      <4>1. k.at = j.at + 1 /\ j.at \in Int /\ n \in Int
        BY <1>2, <1>3, <1>4
      <4> QED BY <4>1
    <3>2. CASE i = n + 1
      <4>1. j.at - n + i - 1 = j.at
        BY <1>3, <1>4, <3>2
      <4> QED BY <1>3, <1>5, <3>1, <3>2, <4>1
    <3>3. CASE i # n + 1
      <4>1. i \in 1 .. n
        BY <1>4, <3>3
      <4> QED BY <1>4, <1>5, <3>1, <3>3, <4>1
    <3> QED BY <3>2, <3>3
  <2> QED BY <1>1, <1>5, <2>1, <2>2 DEF InSection
<1>7. ASSUME More(k) PROVE JobInv(k, s)
  <2>1. k.at >= 1
    BY <1>2, <1>3
  <2> QED BY <1>1, <1>2, <1>3, <1>6, <1>7, <2>1 DEF JobInv
<1>8. AnswerInv(Told(k, TRUE), s, TRUE)
  <2>1. k.at \in Int
    BY <1>2, <1>3
  <2>2. \A i \in DOMAIN k.found :
           /\ k.found[i].height = k.found[1].height + i - 1
           /\ i > 1 => k.found[i].prev = k.found[i - 1].hash
    BY <1>6, <2>1, SectionFound
  <2> DEFINE a == Told(k, TRUE)
  <2>3. a.op = "section" /\ a.ok /\ a.found = k.found /\ a.asof = j.asof /\ a.num = j.num /\ a.page = j.page
    BY <1>2 DEF Told
  <2> HIDE DEF a
  <2>4. SectionAnswer(a)
    BY <2>2, <2>3 DEF SectionAnswer
  <2>5. AnswerInv(a, s, TRUE)
    BY <1>1, <1>3, <2>3, <2>4 DEF AnswerInv
  <2> QED BY <2>5 DEF a
<1> QED BY <1>7, <1>8 DEF GoesOn

LEMMA PageReads ==
  ASSUME Chained, Indexed, NEW j, NEW s, NEW b, NEW k, Reads(j, s, b, k), j.op = "page",
         NEW t, t = Append(s, j.at)
  PROVE  GoesOn(k, t) /\ t \in Seq(Nat) /\ Gapless(t)
<1>1. PICK H, h : H = Height /\ h = j.at
  OBVIOUS
<1>2. /\ k \in Jobs /\ k.hash = NotExist /\ k.op = "page" /\ k.asof = j.asof /\ k.at = h - 1
      /\ k.num = j.num /\ k.page = j.page /\ k.to = j.to
  BY <1>1, AfterIs
<1>3. /\ H \in Nat /\ h \in 1 .. H /\ j.asof \in Nat /\ j.asof <= H
      /\ j.num \in Nat /\ j.page \in Nat /\ j.to \in Int /\ h >= j.to /\ j.to >= 1
      /\ j.to <= 1 \/ j.to <= j.asof - j.page * j.num + 1
      /\ j.page >= 1 => h <= j.asof
      /\ s # <<>> => Reach(s, h + 1)
      /\ s \in Seq(Nat) /\ Gapless(s)
  BY <1>1 DEF Chained, Reads, JobInv, Jobs, InPages, More
<1>4. t \in Seq(Nat) /\ ToSet(t) = ToSet(s) \cup {h} /\ (s # <<>> => Head(t) = Head(s)) /\ (s = <<>> => Head(t) = h)
      /\ t # <<>>
  <2>1. h \in Nat /\ Len(s) \in Nat /\ DOMAIN s = 1 .. Len(s) /\ t = Append(s, h)
    BY <1>1, <1>3
  <2>2. t \in Seq(Nat) /\ Len(t) = Len(s) + 1 /\ DOMAIN t = 1 .. Len(s) + 1 /\ t # <<>>
        /\ \A i \in 1 .. Len(s) + 1 : t[i] = IF i = Len(s) + 1 THEN h ELSE s[i]
    <3>1. s \in Seq(Nat) /\ h \in Nat /\ t = Append(s, h)
      BY <1>3, <2>1
    <3>2. Len(s) + 1 # 0
      BY <2>1
    <3> QED BY <3>1, <3>2, AppendProperties
  <2>3. ToSet(t) = ToSet(s) \cup {h}
    <3>1. \A i : i \in 1 .. Len(s) + 1 <=> i \in 1 .. Len(s) \/ i = Len(s) + 1
      BY <2>1
    <3>2. \A i \in 1 .. Len(s) : i # Len(s) + 1
      BY <2>1
    <3>3. \A i \in DOMAIN t : t[i] \in ToSet(s) \cup {h}
      BY <2>1, <2>2, <3>1 DEF ToSet
    <3>4. \A i \in DOMAIN s : s[i] \in ToSet(t)
      BY <2>1, <2>2, <3>1, <3>2 DEF ToSet
    <3>5. h \in ToSet(t)
      <4>1. Len(s) + 1 \in DOMAIN t /\ t[Len(s) + 1] = h
        BY <2>1, <2>2
      <4> QED BY <4>1 DEF ToSet
    <3> QED BY <3>3, <3>4, <3>5 DEF ToSet
  <2>4. s # <<>> => Head(t) = Head(s)
    BY <1>3, <2>1, <2>2
  <2>5. s = <<>> => Head(t) = h
    BY <2>1, <2>2
  <2> QED BY <2>2, <2>3, <2>4, <2>5
<1>5. Gapless(t)
  <2>1. CASE s = <<>>
    <3>1. ToSet(s) = {}
      BY <2>1 DEF ToSet
    <3>2. h .. h = {h}
      BY <1>3
    <3> QED BY <1>1, <1>3, <1>4, <2>1, <3>1, <3>2 DEF Gapless
  <2>2. CASE s # <<>>
    <3>1. PICK y \in ToSet(s) : y <= h + 1
      BY <1>3, <2>2 DEF Reach
    <3>2. y \in 1 .. H /\ y .. Head(s) \subseteq ToSet(s)
      BY <1>1, <1>3 DEF Gapless
    <3>3. Head(s) \in Nat
      BY <1>3, <2>2
    <3>4. ASSUME NEW x \in h .. Head(s) PROVE x = h \/ x \in y .. Head(s)
      BY <1>3, <3>1, <3>2, <3>3
    <3>5. h .. Head(t) \subseteq ToSet(t)
      BY <1>4, <2>2, <3>2, <3>4
    <3>6. \A x \in ToSet(s) : x \in 1 .. H /\ x .. Head(t) \subseteq ToSet(t)
      BY <1>1, <1>3, <1>4, <2>2 DEF Gapless
    <3> QED BY <1>1, <1>3, <1>4, <3>5, <3>6 DEF Gapless
  <2> QED BY <2>1, <2>2
<1>6. h \in ToSet(t) /\ Reach(t, h)
  <2>1. h \in ToSet(t) /\ h <= h
    BY <1>3, <1>4
  <2> QED BY <2>1 DEF Reach
<1>7. ASSUME More(k) PROVE JobInv(k, t)
  <2>1. k.at >= 1 /\ k.at + 1 = h /\ (k.page >= 1 => k.at <= k.asof)
    BY <1>2, <1>3, <1>7 DEF More
  <2>2. InPages(k, t)
    BY <1>2, <1>3, <1>6, <2>1 DEF InPages
  <2> QED BY <1>1, <1>2, <1>3, <1>7, <2>1, <2>2 DEF JobInv
<1>8. ASSUME ~More(k) PROVE AnswerInv(Told(k, TRUE), t, TRUE)
  <2> DEFINE a == Told(k, TRUE)
  <2>1. a.op = "page" /\ a.asof = j.asof /\ a.num = j.num /\ a.page = j.page
    BY <1>2 DEF Told
  <2> HIDE DEF a
  <2>2. h = j.to
    <3>1. ~(h - 1 >= j.to)
      BY <1>2, <1>8 DEF More
    <3>2. h \in Int /\ j.to \in Int /\ h >= j.to
      BY <1>3
    <3> QED BY <3>1, <3>2
  <2>3. Reach(t, 1) \/ Reach(t, a.asof - a.page * a.num + 1)
    <3>1. h <= 1 \/ h <= a.asof - a.page * a.num + 1
      BY <1>3, <2>1, <2>2
    <3> QED BY <1>6, <3>1 DEF Reach
  <2>4. AnswerInv(a, t, TRUE)
    BY <1>1, <1>3, <2>1, <2>3 DEF AnswerInv, PageAnswer
  <2> QED BY <2>4 DEF a
<1> QED BY <1>4, <1>5, <1>7, <1>8 DEF GoesOn
LEMMA ReadBlockGoes ==
  ASSUME Chained, Indexed, ReadersTyped, NEW r \in Readers, ReaderInv(r), ReadBlock(r)
  PROVE  Goes(r)
<1>1. PICK j, a, s : j = job[r] /\ a = answer[r] /\ s = shown[r]
  OBVIOUS
<1>2. /\ j # Idle /\ j.hash # NotExist /\ JobInv(j, s) /\ s \in Seq(Nat) /\ Gapless(s)
  BY <1>1 DEF ReadBlock, ReaderInv, Fine
<1>3. PICK b : b = BlockAt(j.at)
  OBVIOUS
<1>4. j.at \in 1 .. Height /\ j.hash = db[HashKey(j.at)] /\ BlockKey(j.hash) \in DOMAIN db /\ db[BlockKey(j.hash)] = b
  <2>1. j.at \in Int /\ j.at >= 1 /\ j.at <= Height /\ j.hash = db[HashKey(j.at)] /\ Height \in Nat
    BY <1>2 DEF JobInv, Jobs, Chained
  <2>2. j.at \in 1 .. Height
    BY <2>1
  <2> QED BY <1>3, <2>1, <2>2 DEF Chained, BlockAt, BlockKey
<1>5. PICK k : k = After(j, b)
  OBVIOUS
<1>6. Reads(j, s, b, k)
  BY <1>2, <1>3, <1>4, <1>5 DEF Reads
<1>7. PICK t : t = IF j.op = "page" THEN Append(s, j.at) ELSE s
  OBVIOUS
<1>8. Continue(r, k) /\ shown' = [shown EXCEPT ![r] = t]
  BY <1>1, <1>4, <1>5, <1>7 DEF ReadBlock, After, BlockKey
<1>9. Shows(r, t)
  BY <1>8 DEF Shows, ReadersTyped
<1>10. GoesOn(k, t) /\ t \in Seq(Nat) /\ Gapless(t)
  <2>1. CASE j.op = "page"
    BY <1>6, <1>7, <2>1, PageReads
  <2>2. CASE j.op # "page"
    <3>1. j.op \in {"latest", "block", "rpcblock", "section"}
      BY <1>2, <2>2 DEF JobInv, Jobs
    <3>2. t = s
      BY <1>7, <2>2
    <3> QED BY <1>2, <1>6, <3>1, <3>2, LatestReads, ByNumReads, SectionReads
  <2> QED BY <2>1, <2>2
<1>11. \/ More(k) /\ Turns(r, k, a, t)
       \/ ~More(k) /\ Turns(r, Idle, Told(k, TRUE), t)
  BY <1>1, <1>8, <1>9, Continues
<1>12. k # Idle
  <2>1. k \in Jobs
    BY <1>6, AfterIs
  <2> QED BY <2>1, ChainAssumption
<1>13. ASSUME More(k) PROVE Fine(k, a, t)
  <2>1. a # Idle => AnswerInv(a, t, FALSE)
    BY <1>1, <1>2 DEF ReaderInv, Fine, AnswerInv
  <2> QED BY <1>10, <1>12, <1>13, <2>1 DEF Fine, GoesOn
<1>14. ASSUME ~More(k) PROVE Fine(Idle, Told(k, TRUE), t)
  BY <1>10, <1>14 DEF Fine, GoesOn
<1> QED BY <1>11, <1>13, <1>14 DEF Goes

---------------------------------------------------------------------------
(* The invariant, and what follows from it.                                *)

\* Nothing of the chain changes.
LEMMA ChainStays ==
  ASSUME HasChain, UNCHANGED <<db, made, packed>>
  PROVE  Chained' /\ Indexed' /\ Packs' /\ Grows
<1>1. Height' = Height /\ \A h : BlockAt(h)' = BlockAt(h)
  BY DEF Height, BlockAt
<1>2. Chained /\ Indexed /\ Packs
  BY DEF HasChain
<1>3. Chained'
  BY <1>1, <1>2 DEF Chained
<1>4. Indexed'
  BY <1>1, <1>2 DEF Indexed, Recorded
<1>5. Packs'
  BY <1>1, <1>2 DEF Packs, OnChain
<1>6. Grows
  BY <1>1, <1>2 DEF Grows, Chained
<1> QED BY <1>3, <1>4, <1>5, <1>6

\* A step of a reader changes nothing else.
LEMMA ReadingKeeps ==
  ASSUME ReadersTyped, HasChain, NEW r \in Readers, Goes(r), UNCHANGED <<made, packed, vars>>
  PROVE  ReadersTyped' /\ HasChain'
<1>1. UNCHANGED <<db, made, packed>>
  BY DEF vars
<1>2. PICK j, a, s : Turns(r, j, a, s) /\ Fine(j, a, s)
  BY DEF Goes
<1>3. ReadersTyped' /\ \A q \in Readers : ReaderInv(q)'
  BY <1>1, <1>2, ReaderStep DEF HasChain
<1>4. Chained' /\ Indexed' /\ Packs'
  BY <1>1, ChainStays
<1> QED BY <1>3, <1>4 DEF HasChain

LEMMA ServingKeeps ==
  ASSUME ReadersTyped, HasChain, Serving
  PROVE  ReadersTyped' /\ HasChain'
<1>1. ASSUME NEW txs \in SUBSET Txs, NewBlock(txs) PROVE ReadersTyped' /\ HasChain'
  <2>1. UNCHANGED readers
    BY <1>1 DEF NewBlock
  <2>2. PICK H : H = Height
    OBVIOUS
  <2>3. Chained' /\ Indexed' /\ Packs' /\ Grows
    BY <1>1, <2>2, NewBlockKeeps DEF HasChain
  <2>4. \A r \in Readers : ReaderInv(r)'
    BY <2>1, <2>3, ReadersKept DEF HasChain
  <2> QED BY <2>1, <2>3, <2>4 DEF HasChain, ReadersTyped, readers
<1>2. ASSUME NEW b \in packed, AddBlock(b) PROVE ReadersTyped' /\ HasChain'
  <2>1. UNCHANGED readers
    BY <1>2 DEF AddBlock, Write
  <2>2. PICK H : H = Height
    OBVIOUS
  <2>3. Chained' /\ Indexed' /\ Packs' /\ Grows
    BY <1>2, <2>2, AddChained, AddIndexed, AddPacks DEF HasChain
  <2>4. \A r \in Readers : ReaderInv(r)'
    BY <2>1, <2>3, ReadersKept DEF HasChain
  <2> QED BY <2>1, <2>3, <2>4 DEF HasChain, ReadersTyped, readers
<1>3. ASSUME NEW r \in Readers, GetBlock_FY(r) PROVE ReadersTyped' /\ HasChain'
  <2>1. Goes(r)
    BY <1>3, LatestGoes DEF HasChain
  <2>2. UNCHANGED <<made, packed, vars>>
    BY <1>3 DEF GetBlock_FY, Asks
  <2> QED BY <2>1, <2>2, ReadingKeeps
<1>4. ASSUME NEW r \in Readers, TurnPage(r) PROVE ReadersTyped' /\ HasChain'
  <2>1. Goes(r)
    BY <1>4, PageGoes DEF HasChain
  <2>2. UNCHANGED <<made, packed, vars>>
    BY <1>4 DEF TurnPage, GetBlockbyNum_FY, Asks
  <2> QED BY <2>1, <2>2, ReadingKeeps
<1>5. ASSUME NEW r \in Readers, ReadHash(r) PROVE ReadersTyped' /\ HasChain'
  <2>1. Goes(r)
    BY <1>5, ReadHashGoes DEF HasChain
  <2>2. UNCHANGED <<made, packed, vars>>
    BY <1>5 DEF ReadHash
  <2> QED BY <2>1, <2>2, ReadingKeeps
<1>6. ASSUME NEW r \in Readers, ReadBlock(r) PROVE ReadersTyped' /\ HasChain'
  <2>1. Goes(r)
    BY <1>6, ReadBlockGoes DEF HasChain
  <2>2. UNCHANGED <<made, packed, vars>>
    BY <1>6 DEF ReadBlock
  <2> QED BY <2>1, <2>2, ReadingKeeps
<1>7. ASSUME NEW r \in Readers, NEW h \in Heights, GetBlockbyNum(r, h) \/ GetBlockByNum(r, h)
      PROVE  ReadersTyped' /\ HasChain'
  <2>1. Goes(r)
    BY <1>7, ByNumGoes DEF HasChain
  <2>2. UNCHANGED <<made, packed, vars>>
    BY <1>7 DEF GetBlockbyNum, GetBlockByNum, Asks
  <2> QED BY <2>1, <2>2, ReadingKeeps
<1>8. ASSUME NEW r \in Readers, NEW h \in Heights, NEW last \in Heights, GetBlockSection(r, h, last)
      PROVE  ReadersTyped' /\ HasChain'
  <2>1. Goes(r)
    BY <1>8, SectionGoes DEF HasChain
  <2>2. UNCHANGED <<made, packed, vars>>
    BY <1>8 DEF GetBlockSection, Asks
  <2> QED BY <2>1, <2>2, ReadingKeeps
<1> QED BY <1>1, <1>2, <1>3, <1>4, <1>5, <1>6, <1>7, <1>8 DEF Serving

\* The invariant of the chain and of those who read it: the chain holds what
\* setBlockdata and setTxbyaddr write (blockchain.go), and every handler has
\* in hand what is true of the chain it has seen.
THEOREM ChainInvCorrect == ChainSpec => []ChainInv
<1>1. ASSUME ChainInit PROVE ChainInv
  <2>1. /\ db = Nothing /\ made = 0 /\ packed = {}
        /\ job = [r \in Readers |-> Idle] /\ answer = [r \in Readers |-> Idle]
        /\ shown = [r \in Readers |-> <<>>]
    BY <1>1 DEF ChainInit, Init, ChainStart
  <2>2. NoChain /\ ReadersTyped
    BY <2>1 DEF NoChain, ReadersTyped
  <2> QED BY <2>1, <2>2 DEF ChainInv
<1>2. ASSUME ChainInv, [ChainNext]_<<vars, cvars>> PROVE ChainInv'
  <2>1. ASSUME Chained' PROVE db' # Nothing
    <3>1. HeightKey \in DOMAIN db'
      BY <2>1 DEF Chained
    <3> QED BY <3>1 DEF Nothing
  <2>2. CASE db = Nothing /\ Genesis
    <3>1. NoChain /\ ReadersTyped
      BY <1>2, <2>2 DEF ChainInv
    <3>2. Chained' /\ Indexed' /\ Packs' /\ UNCHANGED readers
      BY <2>2, <3>1, GenesisChained
    <3>3. UNCHANGED <<job, answer, shown>>
      BY <3>2 DEF readers
    <3>4. ASSUME NEW r \in Readers PROVE ReaderInv(r)'
      <4>1. job'[r] = Idle /\ answer'[r] = Idle /\ shown'[r] = <<>>
        BY <3>1, <3>3 DEF NoChain
      <4>2. ToSet(<<>>) = {} /\ <<>> \in Seq(Nat)
        BY DEF ToSet
      <4> QED BY <4>1, <4>2 DEF ReaderInv, Fine, Gapless
    <3>5. ReadersTyped'
      BY <3>1, <3>3 DEF ReadersTyped
    <3> QED BY <2>1, <3>2, <3>4, <3>5 DEF ChainInv, HasChain
  <2>3. CASE db # Nothing /\ Serving
    <3>1. HasChain /\ ReadersTyped
      BY <1>2, <2>3 DEF ChainInv
    <3>2. ReadersTyped' /\ HasChain'
      BY <2>3, <3>1, ServingKeeps
    <3> QED BY <2>1, <3>2 DEF ChainInv, HasChain
  <2>4. CASE UNCHANGED <<vars, cvars>>
    <3>1. UNCHANGED <<db, made, packed, job, answer, shown>>
      BY <2>4 DEF vars, cvars
    <3>2. ReadersTyped' <=> ReadersTyped
      BY <3>1 DEF ReadersTyped
    <3>3. NoChain' <=> NoChain
      BY <3>1 DEF NoChain
    <3>4. ASSUME HasChain PROVE HasChain'
      <4>1. Chained' /\ Indexed' /\ Packs' /\ Grows
        BY <3>1, <3>4, ChainStays
      <4>2. \A r \in Readers : ReaderInv(r)'
        BY <2>4, <3>4, <4>1, ReadersKept DEF HasChain, cvars, readers
      <4> QED BY <4>1, <4>2 DEF HasChain
    <3> QED BY <1>2, <3>1, <3>2, <3>3, <3>4 DEF ChainInv
  <2> QED BY <1>2, <2>2, <2>3, <2>4 DEF ChainNext
<1> QED BY <1>1, <1>2, PTL DEF ChainSpec
\* The explorer is shown the newest block with transactions there was when it
\* asked (server.go:149-187).
THEOREM ExplorerShowsLatestCorrect == ChainSpec => []ExplorerShowsLatest
<1>1. ASSUME ChainInv PROVE ExplorerShowsLatest
  <2> SUFFICES ASSUME NEW r \in Readers, NEW a, a = answer[r], a # Idle, a.op = "latest",
                      NEW h, h = IF a.found = <<>> THEN 0 ELSE a.found[1].height
               PROVE  /\ a.ok
                      /\ h # 0 => /\ BlockAt(h).txs # <<>>
                                  /\ a.found[1].hash = BlockAt(h).hash
                                  /\ a.found[1].txs = BlockAt(h).txs
                      /\ \A x \in h + 1 .. a.asof : BlockAt(x).txs = <<>>
    BY DEF ExplorerShowsLatest
  <2>1. LatestAnswer(a) /\ a.asof \in Nat
    BY <1>1 DEF ChainInv, NoChain, HasChain, ReaderInv, Fine, AnswerInv
  <2>2. CASE a.found = <<>> /\ Bare(1, a.asof)
    BY <2>1, <2>2 DEF Bare, LatestAnswer
  <2>3. ASSUME NEW g \in 1 .. a.asof, a.found # <<>>, a.found[1].height = g,
               a.found[1].hash = BlockAt(g).hash, a.found[1].txs = BlockAt(g).txs,
               BlockAt(g).txs # <<>>, Bare(g + 1, a.asof)
        PROVE  h = g
    BY <2>3
  <2> QED BY <2>1, <2>2, <2>3 DEF LatestAnswer, Bare
<1> QED BY <1>1, ChainInvCorrect, PTL

\* Turning the pages of a growing chain leaves out no block (server.go:735-789).
THEOREM PagesLeaveNoGapCorrect == ChainSpec => []PagesLeaveNoGap
<1>1. ASSUME ChainInv PROVE PagesLeaveNoGap
  <2> SUFFICES ASSUME NEW r \in Readers, NEW s, s = shown[r], s # <<>>
               PROVE  \A h \in Min(ToSet(s)) .. Head(s) : h \in ToSet(s)
    BY DEF PagesLeaveNoGap
  <2>1. s \in Seq(Nat) /\ Gapless(s)
    BY <1>1 DEF ChainInv, NoChain, HasChain, ReaderInv, Fine
  <2>2. ToSet(s) \subseteq Nat /\ ToSet(s) # {}
    <3>1. 1 \in DOMAIN s
      BY <2>1
    <3> QED BY <2>1, <3>1, Reaches DEF ToSet
  <2>3. Min(ToSet(s)) \in ToSet(s)
    <3>1. \E x \in ToSet(s) : \A y \in ToSet(s) : x <= y
      BY <2>2, Least
    <3> QED BY <3>1 DEF Min
  <2> QED BY <2>1, <2>3 DEF Gapless
<1> QED BY <1>1, ChainInvCorrect, PTL

\* The blocks answered for a range are a chain (blockchain.go:961-987), and a
\* range that is on the chain is not refused.
THEOREM SectionsAreChainedCorrect == ChainSpec => []SectionsAreChained
<1>1. ASSUME ChainInv PROVE SectionsAreChained
  <2> SUFFICES ASSUME NEW r \in Readers, NEW a, a = answer[r], a # Idle, a.op = "section"
               PROVE  SectionAnswer(a)
    BY DEF SectionsAreChained, SectionAnswer
  <2> QED BY <1>1 DEF ChainInv, NoChain, HasChain, ReaderInv, Fine, AnswerInv
<1> QED BY <1>1, ChainInvCorrect, PTL

\* Wherever a transaction is looked up, it is the one of the block, with the
\* height of the block (blockchain.go:139-146, 289-367).
THEOREM TxIndexesAgreeCorrect == ChainSpec => []TxIndexesAgree
<1>1. ASSUME ChainInv PROVE TxIndexesAgree
  <2> SUFFICES ASSUME HeightKey \in DOMAIN db, NEW h \in 1 .. Height, NEW b, b = BlockAt(h),
                      NEW i \in DOMAIN b.txs, NEW d, d = b.txs[i]
               PROVE  /\ d.number = h
                      /\ d = GetBlockbyHash(b.hash).txs[i]
                      /\ d = GetTransactionbyhash(d.tx)
                      /\ GetTransactionHeight(d.tx) = h
                      /\ GetTxByHash(d.tx) = RpcBlockByHash(b.hash).txs[i]
                      /\ \A a \in {Sender[d.tx], Receiver[d.tx]} :
                            /\ d \in GetTransactionbyAddr(a) /\ GetTxByHash(d.tx) \in GetTxsByAddr(a)
                            /\ \A e \in GetTransactionbyAddr(a) : e.number \in 1 .. Height
    BY DEF TxIndexesAgree, GetMaxBlockNum, GetMaxBlockHeight
  <2>1. HasChain
    BY <1>1 DEF ChainInv, Nothing
  <2>2. Recorded(h, d)
    BY <2>1 DEF HasChain, Indexed
  <2>3. GetBlockByHash(b.hash) = b
    BY <2>1 DEF HasChain, Chained, GetBlockByHash, Stored, BlockAt, BlockKey
  <2>4. GetBlockbyHash(b.hash) = b /\ RpcBlockByHash(b.hash).txs[i] = Unnumbered(d)
    <3>1. Shown("block", b) = b
      BY DEF Shown
    <3>2. Shown("rpcblock", b) = [b EXCEPT !.txs = [k \in DOMAIN @ |-> Unnumbered(@[k])]]
      BY DEF Shown
    <3>3. b \in Block
      BY <2>1 DEF HasChain, Chained
    <3>4. Shown("rpcblock", b).txs = [k \in DOMAIN b.txs |-> Unnumbered(b.txs[k])]
      BY <3>2, <3>3 DEF Block
    <3> QED BY <2>3, <3>1, <3>4 DEF GetBlockbyHash, RpcBlockByHash
  <2>5. GetTransaction(d.tx) = d /\ GetTransactionHeight(d.tx) = h /\ GetTxByHash(d.tx) = Unnumbered(d)
    BY <2>2 DEF Recorded, GetTransaction, GetTransactionHeight, GetTxByHash, Stored, TxKey, TxHeightKey
  <2>6. ASSUME NEW a
        PROVE  GetTransactionByAddr(a) = {db[key] : key \in EntriesOf(db, "m", Address(a))}
    <3> DEFINE keys == EntriesOf(db, "m", Address(a))
               pairs == {<<key[3], db[key]>> : key \in keys}
    <3>1. GetTransactionByAddr(a) = {kv[2] : kv \in pairs}
      BY DEF GetTransactionByAddr, mkvs, Answer, Effect
    <3> HIDE DEF keys
    <3>2. ASSUME NEW key \in keys PROVE db[key] \in {kv[2] : kv \in pairs}
      <4>1. <<key[3], db[key]>> \in pairs /\ <<key[3], db[key]>>[2] = db[key]
        OBVIOUS
      <4> HIDE DEF pairs
      <4> QED BY <4>1
    <3>3. ASSUME NEW kv \in pairs PROVE kv[2] \in {db[key] : key \in keys}
      OBVIOUS
    <3> HIDE DEF pairs
    <3> QED BY <3>1, <3>2, <3>3 DEF keys
  <2>7. ASSUME NEW a \in {Sender[d.tx], Receiver[d.tx]} PROVE d \in GetTransactionByAddr(a)
    <3>1. AddressKey(a, d.tx) \in DOMAIN db /\ db[AddressKey(a, d.tx)] = d
      BY <2>2 DEF Recorded
    <3>2. AddressKey(a, d.tx) \in EntriesOf(db, "m", Address(a))
      BY <3>1, KeyParts DEF EntriesOf
    <3> QED BY <2>6, <3>1, <3>2
  <2>8. ASSUME NEW a, NEW e \in GetTransactionByAddr(a) PROVE e.number \in 1 .. Height
    <3>1. PICK key \in EntriesOf(db, "m", Address(a)) : e = db[key]
      BY <2>6, <2>8
    <3>2. key \in DOMAIN db /\ key[1] = "m" /\ key[2][1] = "addr"
      BY <3>1 DEF EntriesOf, Address
    <3> QED BY <2>1, <3>1, <3>2 DEF HasChain, Indexed
  <2> QED BY <2>2, <2>4, <2>5, <2>7, <2>8
        DEF Recorded, GetTransactionbyhash, GetTransactionbyAddr, GetTxsByAddr, GetTxByHash
<1> QED BY <1>1, ChainInvCorrect, PTL
==============================================================================
