--------------------------- MODULE AccountsProofs ---------------------------
(***************************************************************************)
(* Token transfers, locks, balances and nonces of nodes, for any number of *)
(* nodes, clients, addresses and transactions.                             *)
(*                                                                         *)
(* Locks: a request that is about to write has a value for the lock as it  *)
(* is, or it has a conflict.                                               *)
(*                                                                         *)
(* Nonces: they follow from the height alone.  A node takes the first      *)
(* block of each height, since it has all heights of the entries it has    *)
(* handled; and where a block is agreed on for the first time, no node and *)
(* no later block is at its height yet.                                    *)
(*                                                                         *)
(* Money: the balances that a block was packed from are those of a height, *)
(* and every data base of that height has them.                            *)
(***************************************************************************)
EXTENDS Accounts, Inductions, FiniteSetTheorems, TLAPS

---------------------------------------------------------------------------
(***************************************************************************)
(* Token scripts.                                                          *)
(***************************************************************************)

\* The remainder of a division is unique (the width of uint64).
LEMMA RemainderUnique ==
  ASSUME NEW z \in Int, NEW k \in Int, NEW m \in Nat \ {0}, NEW s \in 0 .. m - 1,
         z = (m * k) + s
  PROVE  z % m = s
<1> DEFINE p == z \div m
           u == z % m
<1>1. z = (m * p) + u /\ p \in Int /\ u \in 0 .. m - 1
  OBVIOUS
<1> HIDE DEF p, u
<1>2. m * (k - p) = u - s
  BY <1>1
<1>3. CASE k - p >= 1
  <2>1. m * (k - p) >= m
    BY <1>3, <1>1
  <2> QED BY <2>1, <1>1, <1>2
<1>4. CASE k - p <= -1
  <2>1. m * (k - p) <= -m
    BY <1>4, <1>1
  <2> QED BY <2>1, <1>1, <1>2
<1>5. CASE k = p
  BY <1>5, <1>1 DEF u
<1> QED BY <1>1, <1>3, <1>4, <1>5

\* deal2 moves tokens: what the sender loses the receiver gets, modulo the
\* width, whatever the script wrote before; nothing else is written, and the
\* sender's balance does not wrap.  Receiver and sender must differ: both
\* balances are read before either is written.
THEOREM TransferConserves ==
  ASSUME NEW db, NEW mp, NEW executor, NEW sc,
         sc.name = "transfer", sc.addr # executor, sc.amount \in Nat,
         Amount(db, mp, sc.id, executor) \in 0 .. Modulus - 1,
         Amount(db, mp, sc.id, sc.addr) \in 0 .. Modulus - 1,
         Permitted(db, mp, executor, sc)
  PROVE LET w == Writes(db, mp, executor, sc)
            sender == BalanceKey(sc.id, executor)
            receiver == BalanceKey(sc.id, sc.addr)
        IN /\ DOMAIN w = {sender, receiver}
           /\ w[sender] \in 0 .. Modulus - 1 /\ w[receiver] \in 0 .. Modulus - 1
           /\ w[sender] = Amount(db, mp, sc.id, executor) - sc.amount
           /\ (w[sender] + w[receiver]) % Modulus
              = (Amount(db, mp, sc.id, executor) + Amount(db, mp, sc.id, sc.addr)) % Modulus
<1> DEFINE from == Amount(db, mp, sc.id, executor)
           to == Amount(db, mp, sc.id, sc.addr)
           amount == sc.amount
           w == Writes(db, mp, executor, sc)
           sender == BalanceKey(sc.id, executor)
           receiver == BalanceKey(sc.id, sc.addr)
<1>1. sender # receiver
  BY DEF BalanceKey
<1>2. /\ from \in Nat /\ to \in Nat /\ amount \in Nat /\ amount <= from
      /\ from < Modulus /\ Modulus \in Nat \ {0}
  <2>1. from >= amount
    BY DEF Permitted
  <2> QED BY <2>1, ModulusAssumption
<1>3. /\ DOMAIN w = {sender, receiver}
      /\ w[sender] = from - amount
      /\ w[receiver] = (to + amount) % Modulus
  <2>1. w = Over(Entry(receiver, (to + amount) % Modulus), Entry(sender, from - amount))
    BY DEF Writes, TransferWrites
  <2> HIDE DEF w, from, to, amount, sender, receiver
  <2> QED BY <2>1, <1>1 DEF Over, Entry
<1> HIDE DEF w, from, to, amount, sender, receiver
<1>4. ((from - amount) + ((to + amount) % Modulus)) % Modulus = (from + to) % Modulus
  <2> DEFINE r == (to + amount) % Modulus
             q == (to + amount) \div Modulus
             s == (from + to) % Modulus
             t == (from + to) \div Modulus
             z == (from - amount) + r
             k == t - q
  <2>1. to + amount = (Modulus * q) + r /\ q \in Int /\ r \in 0 .. Modulus - 1
    BY <1>2
  <2>2. from + to = (Modulus * t) + s /\ t \in Int /\ s \in 0 .. Modulus - 1
    BY <1>2
  <2> HIDE DEF q, r, s, t
  <2>3. z \in Int /\ k \in Int /\ z = (Modulus * k) + s
    BY <1>2, <2>1, <2>2
  <2> HIDE DEF z, k
  <2>4. z % Modulus = s
    BY <1>2, <2>2, <2>3, RemainderUnique, Zenon
  <2> QED BY <2>4 DEF z, r, s
<1>5. w[sender] \in 0 .. Modulus - 1 /\ w[receiver] \in 0 .. Modulus - 1
  BY <1>2, <1>3
<1>6. /\ DOMAIN w = {sender, receiver}
      /\ w[sender] \in 0 .. Modulus - 1 /\ w[receiver] \in 0 .. Modulus - 1
      /\ w[sender] = from - amount
      /\ (w[sender] + w[receiver]) % Modulus = (from + to) % Modulus
  BY <1>3, <1>4, <1>5
<1> QED BY <1>6 DEF w, from, to, amount, sender, receiver

---------------------------------------------------------------------------
(***************************************************************************)
(* Locks.                                                                  *)
(***************************************************************************)

\* What c makes of a lock of locked.
Granted(c, locked, value) ==
  IF Request[c].kind = "lock" THEN value = Plus(locked, Request[c].amount)
  ELSE Request[c].amount <= locked /\ value = Minus(locked, Request[c].amount)

\* A request's record, and its value while it is about to be written.
Prepared(c, r, locked) ==
  /\ r = [stage |-> r.stage, balance |-> r.balance, value |-> r.value, conflict |-> r.conflict]
  /\ r.stage = "write" /\ ~r.conflict => Granted(c, locked, r.value)

LockInv ==
  /\ lock \in [Node -> [Addr -> 0 .. Modulus - 1]]
  /\ DOMAIN request = Client
  /\ \A c \in Client : Prepared(c, request[c], lock[Request[c].node][Request[c].addr])

\* The body of GrantsAreExact.
Exact ==
  \A n \in Node, a \in Addr : lock'[n][a] # lock[n][a] =>
    \E c \in Client :
      /\ Request[c].node = n /\ Request[c].addr = a
      /\ request[c].stage = "write" /\ request'[c].stage = "done"
      /\ IF Request[c].kind = "lock"
         THEN lock'[n][a] = Plus(lock[n][a], Request[c].amount)
         ELSE /\ Request[c].amount <= lock[n][a]
              /\ lock'[n][a] = lock[n][a] - Request[c].amount

\* Clients ask for locks of nodes, by amounts of the width.
LEMMA RequestType ==
  ASSUME NEW c \in Client
  PROVE  /\ Request[c].node \in Node /\ Request[c].addr \in Addr
         /\ Request[c].amount \in 0 .. Modulus - 1
         /\ Request[c].kind \in {"lock", "unlock"}
  BY AccountsAssumption

\* A difference that does not wrap (blockchain.go:823).
LEMMA MinusIsExact ==
  ASSUME NEW x \in 0 .. Modulus - 1, NEW y \in 0 .. Modulus - 1, y <= x
  PROVE  Minus(x, y) = x - y
<1>1. /\ x + Modulus - y \in Int /\ x - y \in 0 .. Modulus - 1 /\ Modulus \in Nat \ {0}
      /\ x + Modulus - y = (Modulus * 1) + (x - y)
  BY ModulusAssumption
<1> DEFINE z == x + Modulus - y
           s == x - y
<1> HIDE DEF z, s
<1>2. z % Modulus = s
  BY <1>1, RemainderUnique DEF z, s
<1> QED BY <1>2 DEF Minus, z, s

\* What is granted is of the width.
LEMMA GrantedType ==
  ASSUME NEW c \in Client, NEW locked \in 0 .. Modulus - 1, NEW value,
         Granted(c, locked, value)
  PROVE  value \in 0 .. Modulus - 1
<1>1. Request[c].amount \in 0 .. Modulus - 1 /\ Modulus \in Nat \ {0}
  BY RequestType, ModulusAssumption
<1>2. \A x \in Nat : x % Modulus \in 0 .. Modulus - 1
  BY <1>1
<1>3. /\ locked + Request[c].amount \in Nat
      /\ locked + Modulus - Request[c].amount \in Nat
  BY <1>1
<1> QED BY <1>2, <1>3 DEF Granted, Plus, Minus

\* Locks and requests at the start (blockchain.go:784).
LEMMA LockInitially == Init => LockInv
  BY AccountsAssumption DEF Init, LockInv, Prepared, Closed

\* Steps that leave locks alone and end requests at most.
LEMMA LocksKept ==
  ASSUME LockInv, UNCHANGED lock, DOMAIN request' = Client,
         \A c \in Client : \/ request'[c] = request[c]
                           \/ request'[c] = Closed("failed")
  PROVE  LockInv' /\ Exact
<1>1. \A c \in Client : Prepared(c, request'[c], lock[Request[c].node][Request[c].addr])
  BY DEF LockInv, Prepared, Closed
<1> QED BY <1>1 DEF LockInv, Exact

\* A request that opens its badger transaction has no conflict yet.
LEMMA OpenRequestLocks ==
  ASSUME LockInv, NEW c \in Client, OpenRequest(c)
  PROVE  LockInv' /\ Exact
<1> DEFINE r == request[c]
           b == IF Request[c].kind = "lock" THEN balance[Request[c].node][Request[c].addr] ELSE 0
<1>1. UNCHANGED lock /\ DOMAIN request' = Client
  BY DEF OpenRequest, LockInv, chain
<1>2. /\ \A d \in Client \ {c} : request'[d] = request[d]
      /\ request'[c] = [r EXCEPT !.stage = "read", !.balance = b]
  BY DEF OpenRequest, LockInv
<1>3. r = [stage |-> r.stage, balance |-> r.balance, value |-> r.value, conflict |-> r.conflict]
  BY DEF LockInv, Prepared
<1> HIDE DEF r, b
<1>4. request'[c] = [stage |-> "read", balance |-> b, value |-> r.value, conflict |-> r.conflict]
  BY <1>2, <1>3
<1>5. \A l : Prepared(c, request'[c], l)
  BY <1>4 DEF Prepared
<1> QED BY <1>1, <1>2, <1>5 DEF LockInv, Exact

\* CheckLockBalance computes the value from the lock as it is.
LEMMA CheckRequestLocks ==
  ASSUME LockInv, NEW c \in Client, CheckRequest(c)
  PROVE  LockInv' /\ Exact
<1> DEFINE locked == lock[Request[c].node][Request[c].addr]
           amount == Request[c].amount
           value == IF Request[c].kind = "lock" THEN Plus(locked, amount)
                    ELSE Minus(locked, amount)
<1>1. UNCHANGED lock /\ DOMAIN request' = Client
  BY DEF CheckRequest, LockInv, chain
<1>2. \A d \in Client \ {c} : request'[d] = request[d]
  BY DEF CheckRequest, LockInv
<1>3. Prepared(c, request'[c], locked)
  <2>1. \/ request'[c] = Closed("failed")
        \/ /\ request'[c] = [request[c] EXCEPT !.stage = "write", !.balance = 0, !.value = value]
           /\ Request[c].kind # "lock" => amount <= locked
    BY DEF CheckRequest, LockInv
  <2>2. CASE request'[c] = Closed("failed")
    BY <2>2 DEF Prepared, Closed
  <2>3. CASE /\ request'[c] = [request[c] EXCEPT !.stage = "write", !.balance = 0, !.value = value]
             /\ Request[c].kind # "lock" => amount <= locked
    <3> DEFINE r == request[c]
               v == value
    <3>1. r = [stage |-> r.stage, balance |-> r.balance, value |-> r.value, conflict |-> r.conflict]
      BY DEF LockInv, Prepared
    <3>2. Granted(c, locked, v)
      BY <2>3 DEF Granted
    <3> HIDE DEF r, v
    <3>3. request'[c] = [r EXCEPT !.stage = "write", !.balance = 0, !.value = v]
      BY <2>3 DEF r, v
    <3>4. request'[c] = [stage |-> "write", balance |-> 0, value |-> v, conflict |-> r.conflict]
      BY <3>1, <3>3
    <3> HIDE DEF locked
    <3> QED BY <3>2, <3>4 DEF Prepared
  <2> QED BY <2>1, <2>2, <2>3
<1>4. \A d \in Client : Prepared(d, request'[d], lock[Request[d].node][Request[d].addr])
  BY <1>2, <1>3 DEF LockInv
<1> QED BY <1>1, <1>4 DEF LockInv, Exact

\* Only the commit without a conflict writes a lock, and it marks all others
\* that want to write it.
LEMMA CommitRequestLocks ==
  ASSUME LockInv, NEW c \in Client, CommitRequest(c)
  PROVE  LockInv' /\ Exact
<1> DEFINE n == Request[c].node
           a == Request[c].addr
           amount == Request[c].amount
           value == request[c].value
<1>1. n \in Node /\ a \in Addr /\ amount \in 0 .. Modulus - 1
  BY RequestType
<1>2. Granted(c, lock[n][a], value) /\ lock[n][a] \in 0 .. Modulus - 1
  BY <1>1 DEF CommitRequest, LockInv, Prepared
<1>3. value \in 0 .. Modulus - 1
  BY <1>2, GrantedType
<1>4. /\ lock' \in [Node -> [Addr -> 0 .. Modulus - 1]]
      /\ lock'[n][a] = value
      /\ \A m \in Node, b \in Addr : <<m, b>> # <<n, a>> => lock'[m][b] = lock[m][b]
  <2>1. lock' = [lock EXCEPT ![n][a] = value]
    BY DEF CommitRequest
  <2> HIDE DEF n, a, value
  <2> QED BY <2>1, <1>1, <1>3 DEF LockInv
<1>5. /\ DOMAIN request' = Client /\ request'[c] = Closed("done")
      /\ \A d \in Client \ {c} :
           request'[d] = IF SameLock(c, d) /\ request[d].stage \in {"read", "write"}
                         THEN [request[d] EXCEPT !.conflict = TRUE] ELSE request[d]
  BY DEF CommitRequest
<1>6. ASSUME NEW d \in Client
      PROVE  Prepared(d, request'[d], lock'[Request[d].node][Request[d].addr])
  <2>1. CASE d = c
    BY <2>1, <1>5 DEF Prepared, Closed
  <2>2. CASE d # c /\ SameLock(c, d)
    <3> DEFINE r == request[d]
    <3>1. r = [stage |-> r.stage, balance |-> r.balance, value |-> r.value, conflict |-> r.conflict]
      BY DEF LockInv, Prepared
    <3>2. request'[d] = IF r.stage \in {"read", "write"}
                        THEN [r EXCEPT !.conflict = TRUE] ELSE r
      BY <2>2, <1>5
    <3> HIDE DEF r
    <3>3. CASE r.stage \in {"read", "write"}
      <4>1. request'[d] = [stage |-> r.stage, balance |-> r.balance, value |-> r.value,
                           conflict |-> TRUE]
        BY <3>1, <3>2, <3>3
      <4> QED BY <4>1 DEF Prepared
    <3>4. CASE r.stage \notin {"read", "write"}
      BY <3>1, <3>2, <3>4 DEF Prepared
    <3> QED BY <3>3, <3>4
  <2>3. CASE d # c /\ ~SameLock(c, d)
    <3>1. request'[d] = request[d]
      BY <2>3, <1>5
    <3>2. lock'[Request[d].node][Request[d].addr] = lock[Request[d].node][Request[d].addr]
      BY <2>3, <1>4, RequestType DEF SameLock
    <3> QED BY <3>1, <3>2 DEF LockInv
  <2> QED BY <2>1, <2>2, <2>3
<1>7. LockInv'
  BY <1>4, <1>5, <1>6 DEF LockInv
<1>8. IF Request[c].kind = "lock" THEN lock'[n][a] = Plus(lock[n][a], amount)
      ELSE amount <= lock[n][a] /\ lock'[n][a] = lock[n][a] - amount
  BY <1>1, <1>2, <1>4, MinusIsExact DEF Granted
<1>9. request[c].stage = "write" /\ request'[c].stage = "done"
  BY <1>5 DEF CommitRequest, Closed
<1>10. Exact
  BY <1>4, <1>8, <1>9 DEF Exact
<1> QED BY <1>7, <1>10

\* Ending a process fails its requests.
LEMMA EndProcessLocks ==
  ASSUME LockInv, NEW n \in Node, EndProcess(n)
  PROVE  LockInv' /\ Exact
<1>1. UNCHANGED lock /\ DOMAIN request' = Client
  BY DEF EndProcess, chain
<1>2. \A c \in Client : request'[c] = request[c] \/ request'[c] = Closed("failed")
  BY DEF EndProcess
<1> QED BY <1>1, <1>2, LocksKept

\* No action breaks the invariant, and locks change by exact amounts.
LEMMA LockInductive ==
  ASSUME LockInv, [Next]_vars
  PROVE  LockInv' /\ Exact
<1>1. CASE UNCHANGED <<lock, request>>
  BY <1>1, LocksKept DEF LockInv
<1>2. ASSUME NEW n \in Node,
             \/ Pendings(n) \/ NewBlock(n) \/ Propose(n) \/ Discard(n)
             \/ SkipStaleBlock(n) \/ AcceptBlock(n) \/ FlushScript(n) \/ CommitBlock(n)
      PROVE  UNCHANGED <<lock, request>>
  BY <1>2 DEF Pendings, NewBlock, Propose, Discard, SkipStaleBlock, AcceptBlock, FlushScript,
              CommitBlock, chain
<1>3. ASSUME NEW n \in Node, RefuseBlock(n) \/ Crash(n)
      PROVE  LockInv' /\ Exact
  BY <1>3, EndProcessLocks DEF RefuseBlock, Crash
<1>4. ASSUME NEW c \in Client, FailRequest(c)
      PROVE  LockInv' /\ Exact
  <2>1. UNCHANGED lock /\ DOMAIN request' = Client
    BY <1>4 DEF FailRequest, chain, LockInv
  <2>2. \A d \in Client : request'[d] = request[d] \/ request'[d] = Closed("failed")
    BY <1>4 DEF FailRequest, LockInv
  <2> QED BY <2>1, <2>2, LocksKept
<1>5. CASE Next
  <2>1. \/ UNCHANGED <<lock, request>>
        \/ \E n \in Node : RefuseBlock(n) \/ Crash(n)
        \/ \E c \in Client :
             OpenRequest(c) \/ CheckRequest(c) \/ CommitRequest(c) \/ FailRequest(c)
    BY <1>2, <1>5 DEF Next
  <2> QED BY <2>1, <1>1, <1>3, <1>4, OpenRequestLocks, CheckRequestLocks, CommitRequestLocks
<1>6. CASE UNCHANGED vars
  BY <1>6, <1>1 DEF vars, chain
<1> QED BY <1>5, <1>6

\* A request about to write has a value for the lock as it is, or a conflict
\* (LockBalance, Unlockbalance, SetLockBalance).
THEOREM LockInvCorrect == Spec => []LockInv
  BY LockInitially, LockInductive, PTL DEF Spec

\* Locks change by exactly what was granted, whatever requests run at the same
\* time (LockBalance, Unlockbalance, SetLockBalance).
THEOREM GrantsAreExactCorrect == Spec => GrantsAreExact
<1>1. LockInv /\ [Next]_vars => [Exact]_vars
  BY LockInductive
<1> QED BY <1>1, LockInvCorrect, PTL DEF Spec, GrantsAreExact, Exact

\* What a request adds to a lock when it is granted, and the most it adds.
Change == [c \in Client |-> IF Request[c].kind = "lock" THEN Request[c].amount
                            ELSE -Request[c].amount]
Most == [c \in Client |-> IF Request[c].kind = "lock" THEN Request[c].amount ELSE 0]

\* The requests for a lock, and those that were granted.
Asked(n, a) == {c \in Client : Request[c].node = n /\ Request[c].addr = a}
Done(n, a) == {c \in Asked(n, a) : request[c].stage = "done"}

\* All that is ever asked to be locked of one balance fits the width of uint64.
LocksFit == \A n \in Node, a \in Addr :
              StartLock[n][a] + SumFunctionOnSet(Most, Asked(n, a)) < Modulus

\* Locks are the sums of what was granted, with the sums at hand.
AddUp(g) == \A n \in Node, a \in Addr : lock[n][a] = StartLock[n][a] + g[Done(n, a)]

\* The sums are those that LocksAddUp speaks of.
LEMMA SumOfChanges ==
  ASSUME IsFiniteSet(Client), NEW g, SumsUp(g, Change, Client), AddUp(g)
  PROVE  LocksAddUp
<1> SUFFICES ASSUME NEW n \in Node, NEW a \in Addr
             PROVE  LET granted == {c \in Client : /\ request[c].stage = "done"
                                                   /\ Request[c].node = n /\ Request[c].addr = a}
                        Of(c) == IF Request[c].kind = "lock" THEN Request[c].amount
                                 ELSE -Request[c].amount
                    IN lock[n][a] = StartLock[n][a] + MapThenSumSet(Of, granted)
  BY DEF LocksAddUp
<1> DEFINE granted == {c \in Client : /\ request[c].stage = "done"
                                      /\ Request[c].node = n /\ Request[c].addr = a}
           Of(c) == IF Request[c].kind = "lock" THEN Request[c].amount ELSE -Request[c].amount
           P(e) == e = [s \in SUBSET granted |->
                          IF s = {} THEN 0
                          ELSE LET x == CHOOSE x \in s : TRUE IN Of(x) + e[s \ {x}]]
           e0 == CHOOSE e : P(e)
<1>1. MapThenSumSet(Of, granted) = e0[granted]
  BY DEF MapThenSumSet, MapThenFoldSet
<1>2. granted = Done(n, a) /\ granted \in SUBSET Client
  BY DEF Done, Asked
<1>3. \A x \in granted : Change[x] = Of(x) /\ Change[x] \in Int
  BY RequestType DEF Change
<1>4. IsFiniteSet(granted)
  BY <1>2, FS_Subset
<1> HIDE DEF granted, Of
<1>5. PICK e \in [SUBSET granted -> Int] : Adds(e, Change, granted)
  BY <1>3, <1>4, AddsExists
<1>6. P(e)
  BY <1>3, <1>5 DEF Adds, Chosen
<1>7. P(e0)
  <2> HIDE DEF P
  <2> QED BY <1>6, Zenon
<1> HIDE DEF e0
<1>8. Adds(e0, Change, granted)
  BY <1>3, <1>7 DEF Adds, Chosen
<1>9. e0[granted] = g[granted]
  BY <1>2, <1>8, SumIsUnique
<1>10. lock[n][a] = StartLock[n][a] + MapThenSumSet(Of, granted)
  BY <1>1, <1>2, <1>9 DEF AddUp
<1> QED BY <1>10 DEF granted, Of

\* At the start nothing is granted (blockchain.go:784).
LEMMA AddUpInitially ==
  ASSUME NEW g, SumsUp(g, Change, Client), Init
  PROVE  AddUp(g)
<1> SUFFICES ASSUME NEW n \in Node, NEW a \in Addr
             PROVE  lock[n][a] = StartLock[n][a] + g[Done(n, a)]
  BY DEF AddUp
<1>1. Done(n, a) = {}
  BY DEF Done, Asked, Init, Closed
<1>2. g[{}] = 0 /\ lock[n][a] \in Int /\ lock = StartLock
  BY AccountsAssumption DEF SumsUp, Init
<1> QED BY <1>1, <1>2

\* Steps that leave locks alone and grant nothing.
LEMMA AddUpKept ==
  ASSUME NEW g, AddUp(g), UNCHANGED lock,
         \A c \in Client : request'[c].stage = "done" <=> request[c].stage = "done"
  PROVE  AddUp(g)'
<1>1. ASSUME NEW n, NEW a PROVE Done(n, a)' = Done(n, a)
  BY DEF Done, Asked
<1> QED BY <1>1 DEF AddUp

\* A grant does not wrap around (blockchain.go:797).
LEMMA GrantFits ==
  ASSUME IsFiniteSet(Client), LocksFit, NEW g, SumsUp(g, Change, Client),
         NEW c \in Client, NEW n, NEW a, n = Request[c].node, a = Request[c].addr,
         NEW done \in SUBSET Asked(n, a), c \notin done, Request[c].kind = "lock"
  PROVE  StartLock[n][a] + g[done] + Request[c].amount < Modulus
<1>1. \A x \in Client : Change[x] \in Int /\ Most[x] \in Nat /\ Change[x] <= Most[x]
  BY RequestType DEF Change, Most
<1>2. PICK e : SumsUp(e, Most, Client)
  BY <1>1, SumsExist
<1>3. n \in Node /\ a \in Addr /\ StartLock[n][a] \in Nat /\ Modulus \in Nat
  BY RequestType, AccountsAssumption, ModulusAssumption
<1>4. Asked(n, a) \in SUBSET Client /\ done \cup {c} \in SUBSET Asked(n, a)
  BY DEF Asked
<1>5. SumFunctionOnSet(Most, Asked(n, a)) = e[Asked(n, a)]
  BY <1>1, <1>2, <1>4, SumOnSet
<1>6. g[done \cup {c}] <= e[Asked(n, a)]
  BY <1>1, <1>2, <1>4, SumsGrow
<1>7. g[done \cup {c}] = Change[c] + g[done]
  <2>1. (done \cup {c}) \ {c} = done /\ done \cup {c} \in SUBSET Client
    BY <1>4
  <2> QED BY <2>1 DEF SumsUp
<1>8. /\ g[done \cup {c}] \in Int /\ e[Asked(n, a)] \in Int /\ g[done] \in Int
      /\ Change[c] = Request[c].amount /\ Request[c].amount \in Int
  BY <1>2, <1>4, RequestType DEF SumsUp, Change
<1>9. StartLock[n][a] + e[Asked(n, a)] < Modulus
  BY <1>3, <1>5 DEF LocksFit
<1> DEFINE x == g[done]
           y == e[Asked(n, a)]
           s == StartLock[n][a]
           m == Request[c].amount
<1>10. m + x <= y /\ s + y < Modulus /\ x \in Int /\ y \in Int /\ s \in Int /\ m \in Int
  BY <1>3, <1>6, <1>7, <1>8, <1>9
<1> HIDE DEF x, y, s, m
<1>11. s + x + m < Modulus
  BY <1>3, <1>10
<1> QED BY <1>11 DEF s, x, m

\* The commit of a request adds what it was granted, and only that.
LEMMA AddUpCommit ==
  ASSUME IsFiniteSet(Client), LocksFit, NEW g, SumsUp(g, Change, Client), AddUp(g), LockInv,
         NEW c \in Client, CommitRequest(c)
  PROVE  AddUp(g)'
<1> DEFINE n == Request[c].node
           a == Request[c].addr
           amount == Request[c].amount
           value == request[c].value
<1>1. n \in Node /\ a \in Addr /\ amount \in 0 .. Modulus - 1 /\ Modulus \in Nat \ {0}
  BY RequestType, ModulusAssumption
<1>2. Granted(c, lock[n][a], value) /\ lock[n][a] \in 0 .. Modulus - 1
  BY <1>1 DEF CommitRequest, LockInv, Prepared
<1>3. /\ lock'[n][a] = value
      /\ \A m \in Node, b \in Addr : <<m, b>> # <<n, a>> => lock'[m][b] = lock[m][b]
  <2>1. lock' = [lock EXCEPT ![n][a] = value]
    BY DEF CommitRequest
  <2> HIDE DEF n, a, value
  <2> QED BY <2>1, <1>1 DEF LockInv
<1>4. /\ request[c].stage # "done" /\ request'[c].stage = "done"
      /\ \A d \in Client \ {c} : request'[d].stage = "done" <=> request[d].stage = "done"
  <2>1. ASSUME NEW d \in Client \ {c}
        PROVE  request'[d].stage = "done" <=> request[d].stage = "done"
    <3> DEFINE r == request[d]
    <3>1. r = [stage |-> r.stage, balance |-> r.balance, value |-> r.value, conflict |-> r.conflict]
      BY DEF LockInv, Prepared
    <3>2. \/ request'[d] = [r EXCEPT !.conflict = TRUE]
          \/ request'[d] = r
      BY DEF CommitRequest
    <3> HIDE DEF r
    <3>3. request'[d].stage = r.stage
      BY <3>1, <3>2
    <3> QED BY <3>3 DEF r
  <2>2. request[c].stage = "write" /\ request'[c] = Closed("done")
    BY DEF CommitRequest
  <2> QED BY <2>1, <2>2 DEF Closed
<1>5. /\ c \notin Done(n, a) /\ Done(n, a) \in SUBSET Asked(n, a) /\ Done(n, a) \in SUBSET Client
      /\ Done(n, a)' = Done(n, a) \cup {c} /\ Done(n, a) \cup {c} \in SUBSET Client
  BY <1>4 DEF Done, Asked
<1>6. \A m \in Node, b \in Addr : <<m, b>> # <<n, a>> => Done(m, b)' = Done(m, b)
  BY <1>4 DEF Done, Asked
<1> DEFINE x == g[Done(n, a)]
           s == StartLock[n][a]
<1>7. g[Done(n, a) \cup {c}] = Change[c] + x /\ x \in Int
  <2>1. (Done(n, a) \cup {c}) \ {c} = Done(n, a)
    BY <1>5
  <2> QED BY <1>5, <2>1 DEF SumsUp
<1>8. lock[n][a] = s + x /\ s \in Int
  BY <1>1, AccountsAssumption DEF AddUp
<1>9. value = s + (Change[c] + x)
  <2>1. CASE Request[c].kind = "lock"
    <3>1. s + x + amount < Modulus
      BY <1>5, <2>1, GrantFits
    <3>2. value = Plus(s + x, amount) /\ s + x \in 0 .. Modulus - 1 /\ Change[c] = amount
      BY <1>2, <1>8, <2>1 DEF Granted, Change
    <3> HIDE DEF s, x, amount, value
    <3> DEFINE z == s + x + amount
    <3>3. z \in 0 .. Modulus - 1 /\ z = (Modulus * 0) + z
      BY <1>1, <3>1, <3>2
    <3>4. (s + x) + amount = z /\ s + (amount + x) = z
      BY <1>7, <1>8, <1>1
    <3> HIDE DEF z
    <3>5. z % Modulus = z
      BY <1>1, <3>3, RemainderUnique
    <3> QED BY <3>2, <3>4, <3>5 DEF Plus
  <2>2. CASE Request[c].kind # "lock"
    <3>1. value = (s + x) - amount /\ Change[c] = -amount
      BY <1>1, <1>2, <1>8, <2>2, MinusIsExact DEF Granted, Change
    <3> HIDE DEF s, x, amount, value
    <3> QED BY <3>1, <1>1, <1>7, <1>8
  <2> QED BY <2>1, <2>2
<1>10. lock'[n][a] = StartLock[n][a] + g[Done(n, a)']
  BY <1>3, <1>5, <1>7, <1>9
<1>11. ASSUME NEW m \in Node, NEW b \in Addr
       PROVE  lock'[m][b] = StartLock[m][b] + g[Done(m, b)']
  <2>1. CASE m = n /\ b = a
    BY <2>1, <1>10
  <2>2. CASE <<m, b>> # <<n, a>>
    BY <2>2, <1>3, <1>6 DEF AddUp
  <2> QED BY <2>1, <2>2
<1> QED BY <1>11 DEF AddUp

\* No action breaks the sums.
LEMMA AddUpInductive ==
  ASSUME IsFiniteSet(Client), LocksFit, NEW g, SumsUp(g, Change, Client), AddUp(g), LockInv,
         [Next]_vars
  PROVE  AddUp(g)'
<1>1. CASE UNCHANGED <<lock, request>>
  BY <1>1, AddUpKept
<1>2. ASSUME NEW n \in Node,
             \/ Pendings(n) \/ NewBlock(n) \/ Propose(n) \/ Discard(n)
             \/ SkipStaleBlock(n) \/ AcceptBlock(n) \/ FlushScript(n) \/ CommitBlock(n)
      PROVE  UNCHANGED <<lock, request>>
  BY <1>2 DEF Pendings, NewBlock, Propose, Discard, SkipStaleBlock, AcceptBlock, FlushScript,
              CommitBlock, chain
<1>3. ASSUME NEW n \in Node, RefuseBlock(n) \/ Crash(n)
      PROVE  AddUp(g)'
  <2>1. EndProcess(n)
    BY <1>3 DEF RefuseBlock, Crash
  <2>2. UNCHANGED lock
    BY <2>1 DEF EndProcess, chain
  <2>3. ASSUME NEW c \in Client
        PROVE  request'[c].stage = "done" <=> request[c].stage = "done"
    BY <2>1 DEF EndProcess, Closed
  <2> QED BY <2>2, <2>3, AddUpKept
<1>4. ASSUME NEW c \in Client, OpenRequest(c) \/ CheckRequest(c) \/ FailRequest(c)
      PROVE  AddUp(g)'
  <2>1. UNCHANGED lock /\ DOMAIN request = Client
    BY <1>4 DEF OpenRequest, CheckRequest, FailRequest, chain, LockInv
  <2> DEFINE r == request[c]
  <2>2. r = [stage |-> r.stage, balance |-> r.balance, value |-> r.value, conflict |-> r.conflict]
    BY DEF LockInv, Prepared
  <2>3. /\ r.stage # "done" /\ request'[c].stage # "done"
        /\ \A d \in Client \ {c} : request'[d] = request[d]
    <3>1. CASE OpenRequest(c)
      <4>1. PICK b : request' = [request EXCEPT ![c] = [r EXCEPT !.stage = "read", !.balance = b]]
        BY <3>1 DEF OpenRequest
      <4>2. r.stage = "new"
        BY <3>1 DEF OpenRequest
      <4> HIDE DEF r
      <4>3. request'[c].stage = "read"
        BY <2>1, <2>2, <4>1
      <4> QED BY <2>1, <4>1, <4>2, <4>3
    <3>2. CASE CheckRequest(c)
      <4>1. PICK w : /\ request' = [request EXCEPT ![c] = w]
                     /\ w = Closed("failed") \/ \E v : w = [r EXCEPT !.stage = "write",
                                                             !.balance = 0, !.value = v]
        BY <3>2 DEF CheckRequest
      <4>2. r.stage = "read"
        BY <3>2 DEF CheckRequest
      <4> HIDE DEF r
      <4>3. w.stage # "done"
        <5>1. w = Closed("failed") => w.stage = "failed"
          BY DEF Closed
        <5>2. ASSUME NEW v, w = [r EXCEPT !.stage = "write", !.balance = 0, !.value = v]
              PROVE  w.stage = "write"
          BY <2>2, <5>2
        <5> QED BY <4>1, <5>1, <5>2
      <4> QED BY <2>1, <4>1, <4>2, <4>3
    <3>3. CASE FailRequest(c)
      <4>1. request' = [request EXCEPT ![c] = Closed("failed")] /\ r.stage = "write"
        BY <3>3 DEF FailRequest
      <4> HIDE DEF r
      <4> QED BY <2>1, <4>1 DEF Closed
    <3> QED BY <1>4, <3>1, <3>2, <3>3
  <2>4. \A d \in Client : request'[d].stage = "done" <=> request[d].stage = "done"
    BY <2>3
  <2> QED BY <2>1, <2>4, AddUpKept
<1>5. CASE Next
  <2>1. \/ UNCHANGED <<lock, request>>
        \/ \E n \in Node : RefuseBlock(n) \/ Crash(n)
        \/ \E c \in Client :
             OpenRequest(c) \/ CheckRequest(c) \/ CommitRequest(c) \/ FailRequest(c)
    BY <1>2, <1>5 DEF Next
  <2> QED BY <2>1, <1>1, <1>3, <1>4, AddUpCommit
<1>6. CASE UNCHANGED vars
  BY <1>6, <1>1 DEF vars, chain
<1> QED BY <1>5, <1>6

\* What is locked is the sum of what was granted: concurrent requests lose no
\* update of each other (LockBalance, Unlockbalance, SetLockBalance).  The
\* sums of finitely many clients are meant, and that they fit the width:
\* LockBalance adds before it compares.
THEOREM LocksAddUpCorrect ==
  ASSUME IsFiniteSet(Client), LocksFit
  PROVE  Spec => []LocksAddUp
<1>1. \A c \in Client : Change[c] \in Int
  BY RequestType DEF Change
<1>2. PICK g : SumsUp(g, Change, Client)
  BY <1>1, SumsExist
<1>3. Init => AddUp(g)
  BY <1>2, AddUpInitially
<1>4. AddUp(g) /\ LockInv /\ [Next]_vars => AddUp(g)'
  BY <1>2, AddUpInductive
<1>5. AddUp(g) => LocksAddUp
  BY <1>2, SumOfChanges
<1> QED BY <1>3, <1>4, <1>5, LockInvCorrect, PTL DEF Spec

---------------------------------------------------------------------------
(***************************************************************************)
(* Nonces.                                                                 *)
(***************************************************************************)

LogType == /\ \E S : log \in Seq(S)
           /\ \A i \in 1 .. Len(log) : log[i].height \in Nat \ {0}

\* A block's height is reached one by one in the log.
NoHeightMissing ==
  \A i \in 1 .. Len(log) : \A h \in 1 .. log[i].height :
    \E j \in 1 .. i : log[j].height = h

\* A node has the heights of what it has handled, all agreed on; what AddBlock
\* is writing is the next height, and what is packed is at most that.
NodeInv(n) ==
  /\ applied[n] \in 0 .. Len(log) /\ height[n] \in Nat
  /\ \A j \in 1 .. applied[n] : log[j].height <= height[n]
  /\ \A h \in 1 .. height[n] : \E i \in 1 .. Len(log) : log[i].height = h
  /\ flushing[n] # 0 => applied[n] < Len(log) /\ NextBlock(n).height = height[n] + 1
  /\ packing[n].stage = "packed" =>
       /\ packing[n].block.height \in Nat \ {0}
       /\ packing[n].block.height <= height[n] + 1

OrderInv ==
  /\ LogType /\ NoHeightMissing
  /\ DOMAIN applied = Node /\ DOMAIN height = Node /\ DOMAIN flushing = Node
  /\ DOMAIN packing = Node /\ DOMAIN nonce = Node
  /\ \A n \in Node : NodeInv(n)

\* The first block of its height.
IsFirst(i) == \A j \in 1 .. i - 1 : log[j].height # log[i].height

\* at[h] is what a data base of height h has.
FollowsLog(at) ==
  /\ DOMAIN at = Nat
  /\ \A i \in 1 .. Len(log) : IsFirst(i) =>
       at[log[i].height] = SetNonces(at[log[i].height - 1], log[i].txs)
  /\ \A n \in Node : nonce[n] = at[height[n]]

NonceInv == OrderInv /\ \E at : FollowsLog(at)

\* Data bases begin empty (blockchain.go:52).
LEMMA NonceInitially == Init => NonceInv
<1> SUFFICES ASSUME Init PROVE NonceInv
  OBVIOUS
<1>1. log = <<>> /\ log \in Seq({}) /\ Len(log) = 0
  BY DEF Init
<1>2. OrderInv
  <2>1. LogType /\ NoHeightMissing
    BY <1>1 DEF LogType, NoHeightMissing
  <2>2. ASSUME NEW n \in Node PROVE NodeInv(n)
    BY <1>1 DEF Init, NodeInv, Idle
  <2> QED BY <2>1, <2>2 DEF Init, OrderInv
<1>3. FollowsLog([h \in Nat |-> [a \in Addr |-> 1]])
  BY <1>1 DEF Init, FollowsLog
<1> QED BY <1>2, <1>3 DEF NonceInv

\* Steps that leave log and data bases alone.
LEMMA FollowsKept ==
  ASSUME NEW at, FollowsLog(at), UNCHANGED <<log, height, nonce>>
  PROVE  FollowsLog(at)'
  BY DEF FollowsLog, IsFirst

\* The invariant looks at nothing else.
LEMMA NoncesKept ==
  ASSUME NonceInv, UNCHANGED <<log, height, nonce>>, OrderInv'
  PROVE  NonceInv'
<1>1. PICK at : FollowsLog(at)
  BY DEF NonceInv
<1> QED BY <1>1, FollowsKept DEF NonceInv

\* Steps of one node that leave log and data bases alone.
LEMMA OneNodeOrder ==
  ASSUME OrderInv, NEW n \in Node, UNCHANGED <<log, height, nonce>>,
         DOMAIN applied' = Node, DOMAIN flushing' = Node, DOMAIN packing' = Node,
         \A m \in Node \ {n} : /\ applied'[m] = applied[m] /\ flushing'[m] = flushing[m]
                               /\ packing'[m] = packing[m],
         NodeInv(n)'
  PROVE  OrderInv'
<1>1. ASSUME NEW m \in Node PROVE NodeInv(m)'
  <2>1. CASE m = n
    BY <2>1
  <2>2. CASE m # n
    BY <2>2 DEF OrderInv, NodeInv, NextBlock
  <2> QED BY <2>1, <2>2
<1>2. LogType' /\ NoHeightMissing'
  BY DEF OrderInv, LogType, NoHeightMissing
<1> QED BY <1>1, <1>2 DEF OrderInv

\* Packing a block writes no data base.
LEMMA PackingOrder ==
  ASSUME NonceInv, NEW n \in Node, Pendings(n) \/ NewBlock(n) \/ Discard(n)
  PROVE  NonceInv'
<1>1. UNCHANGED <<log, height, nonce, applied, flushing>>
  BY DEF Pendings, NewBlock, Discard, chain
<1>2. PICK r : packing' = [packing EXCEPT ![n] = r] /\ (r.stage = "packed" => NewBlock(n))
  BY DEF Pendings, NewBlock, Discard, Idle
<1>3. NodeInv(n)'
  <2>1. packing'[n] = r
    BY <1>2 DEF NonceInv, OrderInv
  <2>2. r.stage = "packed" => r.block.height = height[n] + 1
    <3>1. NewBlock(n) => r.block.height = height[n] + 1
      BY <2>1 DEF NewBlock, NonceInv, OrderInv
    <3> QED BY <3>1, <1>2
  <2>3. NodeInv(n) /\ height[n] \in Nat
    BY DEF NonceInv, OrderInv, NodeInv
  <2>4. packing'[n].stage = "packed" =>
          /\ packing'[n].block.height \in Nat \ {0}
          /\ packing'[n].block.height <= height[n] + 1
    BY <2>1, <2>2, <2>3
  <2> QED BY <1>1, <2>3, <2>4 DEF NodeInv, NextBlock
<1>4. OrderInv'
  BY <1>1, <1>2, <1>3, OneNodeOrder DEF NonceInv, OrderInv
<1> QED BY <1>1, <1>4, NoncesKept

\* Skipping a stale block, beginning a block, flushing a script, ending.
LEMMA HandlingOrder ==
  ASSUME NonceInv, NEW n \in Node,
         \/ SkipStaleBlock(n) \/ AcceptBlock(n) \/ FlushScript(n) \/ EndProcess(n)
  PROVE  NonceInv'
<1>1. UNCHANGED <<log, height, nonce>>
  BY DEF SkipStaleBlock, AcceptBlock, FlushScript, EndProcess, chain
<1>2. /\ DOMAIN applied' = Node /\ DOMAIN flushing' = Node /\ DOMAIN packing' = Node
      /\ \A m \in Node \ {n} : /\ applied'[m] = applied[m] /\ flushing'[m] = flushing[m]
                               /\ packing'[m] = packing[m]
  BY DEF SkipStaleBlock, AcceptBlock, FlushScript, EndProcess, NonceInv, OrderInv
<1>3. NodeInv(n)'
  <2>1. NodeInv(n) /\ Len(log) \in Nat /\ \A i \in 1 .. Len(log) : log[i].height \in Nat
    BY DEF NonceInv, OrderInv, LogType
  <2>2. /\ DOMAIN applied = Node /\ DOMAIN flushing = Node /\ DOMAIN packing = Node
        /\ applied[n] \in 0 .. Len(log) /\ height[n] \in Nat
        /\ \A j \in 1 .. applied[n] : log[j].height <= height[n]
    BY <2>1 DEF NonceInv, OrderInv, NodeInv
  <2>3. CASE SkipStaleBlock(n)
    <3>1. /\ applied'[n] = applied[n] + 1 /\ applied[n] < Len(log) /\ flushing[n] = 0
          /\ log[applied[n] + 1].height <= height[n]
          /\ UNCHANGED <<flushing, packing>>
      BY <2>2, <2>3 DEF SkipStaleBlock, HasBlock, NextBlock
    <3>2. applied'[n] \in 0 .. Len(log)
      BY <2>1, <2>2, <3>1
    <3>3. ASSUME NEW j \in 1 .. applied'[n] PROVE log[j].height <= height[n]
      <4>1. j \in 1 .. applied[n] \/ j = applied[n] + 1
        BY <2>2, <3>1
      <4> QED BY <4>1, <2>2, <3>1
    <3> QED BY <1>1, <2>1, <3>1, <3>2, <3>3 DEF NodeInv, NextBlock
  <2>4. CASE AcceptBlock(n)
    BY <1>1, <2>1, <2>2, <2>4 DEF AcceptBlock, Acceptable, HasBlock, NodeInv, NextBlock
  <2>5. CASE FlushScript(n)
    BY <1>1, <2>1, <2>2, <2>5 DEF FlushScript, NodeInv, NextBlock
  <2>6. CASE EndProcess(n)
    <3>1. PICK k \in 0 .. applied[n] : applied'[n] = k
      BY <2>2, <2>6 DEF EndProcess
    <3>2. flushing'[n] = 0 /\ packing'[n] = Idle /\ Idle.stage # "packed"
      BY <2>2, <2>6 DEF EndProcess, Idle
    <3>3. applied'[n] \in 0 .. Len(log) /\ \A j \in 1 .. applied'[n] : log[j].height <= height[n]
      BY <2>1, <2>2, <3>1
    <3> QED BY <1>1, <2>1, <3>2, <3>3 DEF NodeInv, NextBlock
  <2> QED BY <2>3, <2>4, <2>5, <2>6
<1>4. OrderInv'
  BY <1>1, <1>2, <1>3, OneNodeOrder DEF NonceInv
<1> QED BY <1>1, <1>4, NoncesKept

\* AddBlock commits the first block of the next height.
LEMMA CommitsNext ==
  ASSUME OrderInv, NEW n \in Node, CommitBlock(n)
  PROVE  LET k == applied[n] + 1
             h == height[n] + 1
         IN /\ applied[n] \in Nat /\ height[n] \in Nat /\ Len(log) \in Nat
            /\ k \in 1 .. Len(log) /\ log[k].height = h
            /\ \A j \in 1 .. k - 1 : log[j].height \in Nat /\ log[j].height < h
<1> DEFINE k == applied[n] + 1
           h == height[n] + 1
<1>1. Len(log) \in Nat
  BY DEF OrderInv, LogType
<1>2. NodeInv(n) /\ flushing[n] # 0
  BY DEF OrderInv, CommitBlock
<1>3. \A j \in 1 .. Len(log) : log[j].height \in Nat
  BY DEF OrderInv, LogType
<1>4. applied[n] \in Nat /\ applied[n] < Len(log) /\ height[n] \in Nat
  BY <1>1, <1>2 DEF NodeInv
<1>5. log[applied[n] + 1].height = height[n] + 1
  BY <1>2 DEF NodeInv, NextBlock
<1>6. \A j \in 1 .. applied[n] : log[j].height \in Nat /\ log[j].height <= height[n]
  BY <1>1, <1>2, <1>3, <1>4 DEF NodeInv
<1>7. k \in 1 .. Len(log) /\ 1 .. k - 1 = 1 .. applied[n]
  BY <1>1, <1>4
<1>8. ASSUME NEW j \in 1 .. k - 1 PROVE log[j].height \in Nat /\ log[j].height < h
  <2>1. log[j].height \in Nat /\ log[j].height <= height[n]
    BY <1>6, <1>7
  <2> QED BY <1>4, <2>1
<1> QED BY <1>1, <1>4, <1>5, <1>7, <1>8

\* A height that no block has is above all blocks and data bases.
LEMMA NewHeight ==
  ASSUME OrderInv, NEW h \in Nat \ {0}, \A j \in 1 .. Len(log) : log[j].height # h
  PROVE  /\ \A i \in 1 .. Len(log) : log[i].height \in Nat /\ log[i].height < h
         /\ \A m \in Node : height[m] \in Nat /\ height[m] < h
<1>1. ASSUME NEW i \in 1 .. Len(log) PROVE log[i].height \in Nat /\ log[i].height < h
  <2>1. log[i].height \in Nat
    BY DEF OrderInv, LogType
  <2>2. ~(h \in 1 .. log[i].height)
    <3> SUFFICES ASSUME h \in 1 .. log[i].height PROVE FALSE
      OBVIOUS
    <3>1. PICK j \in 1 .. i : log[j].height = h
      BY DEF OrderInv, NoHeightMissing
    <3>2. Len(log) \in Nat
      BY DEF OrderInv, LogType
    <3> QED BY <3>1, <3>2
  <2> QED BY <2>1, <2>2
<1>2. ASSUME NEW m \in Node PROVE height[m] \in Nat /\ height[m] < h
  <2>1. height[m] \in Nat /\ \A g \in 1 .. height[m] : \E i \in 1 .. Len(log) : log[i].height = g
    BY DEF OrderInv, NodeInv
  <2>2. ~(h \in 1 .. height[m])
    BY <2>1
  <2> QED BY <2>1, <2>2
<1> QED BY <1>1, <1>2

\* AddBlock commits: the block is the first of its height, since all handled
\* before are lower.
LEMMA CommitFollows ==
  ASSUME OrderInv, NEW n \in Node, CommitBlock(n), NEW at, FollowsLog(at)
  PROVE  FollowsLog(at)'
<1> DEFINE k == applied[n] + 1
           h == height[n] + 1
<1>1. /\ height[n] \in Nat /\ k \in 1 .. Len(log) /\ log[k].height = h
      /\ \A j \in 1 .. k - 1 : log[j].height \in Nat /\ log[j].height < h
  BY CommitsNext
<1>2. /\ UNCHANGED log
      /\ height' = [height EXCEPT ![n] = h]
      /\ nonce' = [nonce EXCEPT ![n] = SetNonces(nonce[n], log[k].txs)]
  BY DEF CommitBlock, NextBlock
<1>3. at[h] = SetNonces(at[height[n]], log[k].txs)
  <2>1. IsFirst(k)
    BY <1>1 DEF IsFirst
  <2>2. at[log[k].height] = SetNonces(at[log[k].height - 1], log[k].txs)
    BY <1>1, <2>1 DEF FollowsLog
  <2>3. log[k].height = h /\ h - 1 = height[n]
    BY <1>1
  <2> QED BY <2>2, <2>3
<1>4. \A m \in Node : nonce'[m] = at[height'[m]]
  BY <1>2, <1>3 DEF FollowsLog, OrderInv
<1> QED BY <1>2, <1>4 DEF FollowsLog, IsFirst

\* The first block of a height gives the nonces of that height (blockchain.go:279).
LEMMA CommitBlockOrder ==
  ASSUME NonceInv, NEW n \in Node, CommitBlock(n)
  PROVE  NonceInv'
<1> DEFINE k == applied[n] + 1
           h == height[n] + 1
<1>1. /\ applied[n] \in Nat /\ height[n] \in Nat /\ Len(log) \in Nat
      /\ k \in 1 .. Len(log) /\ log[k].height = h
      /\ \A j \in 1 .. k - 1 : log[j].height \in Nat /\ log[j].height < h
  BY CommitsNext DEF NonceInv
<1>2. /\ UNCHANGED <<log, packing>>
      /\ applied' = [applied EXCEPT ![n] = k] /\ height' = [height EXCEPT ![n] = h]
      /\ flushing' = [flushing EXCEPT ![n] = 0]
      /\ nonce' = [nonce EXCEPT ![n] = SetNonces(nonce[n], log[k].txs)]
  BY DEF CommitBlock, NextBlock
<1>3. ASSUME NEW m \in Node PROVE NodeInv(m)'
  <2>1. NodeInv(m) /\ DOMAIN applied = Node /\ DOMAIN height = Node /\ DOMAIN flushing = Node
    BY DEF NonceInv, OrderInv
  <2>2. CASE m # n
    BY <2>1, <2>2, <1>2 DEF NodeInv, NextBlock
  <2>3. CASE m = n
    <3>1. applied'[n] = k /\ height'[n] = h /\ flushing'[n] = 0
      BY <1>2, <2>1
    <3>2. ASSUME NEW j \in 1 .. k PROVE log[j].height <= h
      <4>1. CASE j = k
        BY <1>1, <4>1
      <4>2. CASE j \in 1 .. k - 1
        BY <1>1, <4>2
      <4> QED BY <1>1, <4>1, <4>2
    <3>3. ASSUME NEW g \in 1 .. h PROVE \E i \in 1 .. Len(log) : log[i].height = g
      <4>1. CASE g = h
        BY <4>1, <1>1
      <4>2. CASE g # h
        <5>1. g \in 1 .. height[n]
          BY <4>2, <1>1
        <5>2. \A x \in 1 .. height[n] : \E i \in 1 .. Len(log) : log[i].height = x
          BY <2>1, <2>3 DEF NodeInv
        <5> QED BY <5>1, <5>2
      <4> QED BY <4>1, <4>2
    <3>4. packing[n].stage = "packed" =>
            /\ packing[n].block.height \in Nat \ {0}
            /\ packing[n].block.height <= h + 1
      BY <1>1, <2>1, <2>3 DEF NodeInv
    <3> HIDE DEF k, h
    <3> QED BY <1>1, <1>2, <2>3, <3>1, <3>2, <3>3, <3>4 DEF NodeInv, k, h
  <2> QED BY <2>2, <2>3
<1>4. OrderInv'
  <2>1. LogType' /\ NoHeightMissing'
    BY <1>2 DEF NonceInv, OrderInv, LogType, NoHeightMissing
  <2> QED BY <2>1, <1>2, <1>3 DEF NonceInv, OrderInv
<1>5. PICK at : FollowsLog(at)
  BY DEF NonceInv
<1>6. FollowsLog(at)'
  BY <1>5, CommitFollows DEF NonceInv
<1> QED BY <1>4, <1>6 DEF NonceInv

\* What is agreed on for the heights that data bases have.
Reached(h) == h \in Nat /\ \E m \in Node : h <= height[m]
Extends(next, at) == \A h : Reached(h) => next[h] = at[h]

\* A proposal is a repetition, or the first block of a height where no data
\* base and no later block is.
LEMMA ProposeFollows ==
  ASSUME OrderInv, NEW n \in Node, Propose(n), NEW at, FollowsLog(at)
  PROVE  \E next : Extends(next, at) /\ FollowsLog(next)'
<1>1. PICK S : log \in Seq(S)
  BY DEF OrderInv, LogType
<1>b. PICK b : b = packing[n].block
  OBVIOUS
<1>l. PICK l \in Nat : l = Len(log)
  BY <1>1
<1>2. /\ log' = Append(log, b) /\ UNCHANGED <<height, nonce>>
      /\ b.height \in Nat \ {0}
  BY <1>b DEF Propose, chain, OrderInv, NodeInv
<1>3. Len(log') = l + 1 /\ log'[l + 1] = b /\ \A i \in 1 .. l : log'[i] = log[i]
  <2>1. log \in Seq(S \cup {b}) /\ b \in S \cup {b}
    BY <1>1
  <2> QED BY <1>l, <1>2, <2>1
<1>4. \A i \in 1 .. l : log[i].height \in Nat \ {0}
  BY <1>l DEF OrderInv, LogType
<1>5. \A i \in 1 .. l : IsFirst(i)' <=> IsFirst(i)
  BY <1>3 DEF IsFirst
<1>6. CASE \E j \in 1 .. l : log[j].height = b.height
  <2>1. ~IsFirst(l + 1)'
    BY <1>3, <1>6 DEF IsFirst
  <2>2. ASSUME NEW i \in 1 .. l + 1, IsFirst(i)'
        PROVE  at[log'[i].height] = SetNonces(at[log'[i].height - 1], log'[i].txs)
    <3>1. i \in 1 .. l /\ IsFirst(i)
      BY <1>5, <2>1, <2>2
    <3> QED BY <1>l, <1>3, <3>1 DEF FollowsLog
  <2>3. FollowsLog(at)'
    BY <1>2, <1>3, <2>2 DEF FollowsLog
  <2> QED BY <2>3 DEF Extends
<1>7. CASE \A j \in 1 .. l : log[j].height # b.height
  <2> DEFINE h == b.height
             next == [at EXCEPT ![h] = SetNonces(at[h - 1], b.txs)]
  <2>1. h \in Nat /\ h - 1 \in Nat /\ h - 1 # h /\ DOMAIN at = Nat
    BY <1>2 DEF FollowsLog
  <2>2. /\ DOMAIN next = Nat /\ next[h] = SetNonces(at[h - 1], b.txs)
        /\ \A g \in Nat \ {h} : next[g] = at[g]
    BY <2>1
  <2>3. /\ \A i \in 1 .. l : log[i].height \in Nat /\ log[i].height < h
        /\ \A m \in Node : height[m] \in Nat /\ height[m] < h
    BY <1>l, <1>2, <1>7, NewHeight
  <2> HIDE DEF next
  <2>4. ASSUME NEW i \in 1 .. l + 1, IsFirst(i)'
        PROVE  next[log'[i].height] = SetNonces(next[log'[i].height - 1], log'[i].txs)
    <3>1. CASE i = l + 1
      BY <1>3, <2>1, <2>2, <3>1
    <3>2. CASE i \in 1 .. l
      <4>1. log'[i] = log[i] /\ IsFirst(i)
        BY <1>3, <1>5, <2>4, <3>2
      <4>2. at[log[i].height] = SetNonces(at[log[i].height - 1], log[i].txs)
        BY <1>l, <3>2, <4>1 DEF FollowsLog
      <4>3. log[i].height \in Nat \ {h} /\ log[i].height - 1 \in Nat \ {h}
        BY <1>4, <2>1, <2>3, <3>2
      <4> QED BY <2>2, <4>1, <4>2, <4>3
    <3> QED BY <3>1, <3>2
  <2>5. \A g : Reached(g) => next[g] = at[g]
    <3> TAKE g
    <3> HAVE Reached(g)
    <3>1. g \in Nat \ {h}
      BY <2>1, <2>3 DEF Reached
    <3> QED BY <2>2, <3>1
  <2>6. \A m \in Node : nonce'[m] = next[height'[m]]
    <3> TAKE m \in Node
    <3>1. next[height[m]] = at[height[m]]
      BY <2>2, <2>3
    <3> QED BY <1>2, <3>1 DEF FollowsLog
  <2>7. FollowsLog(next)'
    BY <1>3, <2>2, <2>4, <2>6 DEF FollowsLog
  <2> QED BY <2>5, <2>7 DEF Extends
<1> QED BY <1>6, <1>7

\* A proposal is at the height after the packer's at most.
LEMMA ProposeOrder ==
  ASSUME NonceInv, NEW n \in Node, Propose(n)
  PROVE  NonceInv'
<1>1. PICK S : log \in Seq(S)
  BY DEF NonceInv, OrderInv, LogType
<1>b. PICK b : b = packing[n].block
  OBVIOUS
<1>l. PICK l \in Nat : l = Len(log)
  BY <1>1
<1>2. /\ log' = Append(log, b) /\ log \in Seq(S \cup {b}) /\ b \in S \cup {b}
      /\ UNCHANGED <<applied, height, nonce, flushing>>
      /\ packing' = [packing EXCEPT ![n] = Idle]
  BY <1>1, <1>b DEF Propose, chain
<1>3. /\ l \in Nat /\ Len(log') = l + 1 /\ log'[l + 1] = b
      /\ \A i \in 1 .. l : log'[i] = log[i]
      /\ log' \in Seq(S \cup {b})
  BY <1>2, <1>l
<1>4. height[n] \in Nat /\ b.height = height[n] + 1
  BY <1>b DEF Propose, NonceInv, OrderInv, NodeInv
<1>5. \A h \in 1 .. height[n] : \E i \in 1 .. l : log[i].height = h
  BY <1>l DEF NonceInv, OrderInv, NodeInv
<1>6. \A i \in 1 .. l : log[i].height \in Nat \ {0}
  BY <1>l DEF NonceInv, OrderInv, LogType
<1>7. NoHeightMissing
  BY DEF NonceInv, OrderInv
<1>8. LogType'
  <2>1. \A i \in 1 .. l + 1 : log'[i].height \in Nat \ {0}
    BY <1>3, <1>4, <1>6
  <2> QED BY <1>3, <2>1 DEF LogType
<1>9. NoHeightMissing'
  <2> SUFFICES ASSUME NEW i \in 1 .. l + 1, NEW h \in 1 .. log'[i].height
               PROVE  \E j \in 1 .. i : log'[j].height = h
    BY <1>3 DEF NoHeightMissing
  <2>1. CASE i \in 1 .. l
    <3>1. \E j \in 1 .. i : log[j].height = h
      BY <1>l, <1>3, <1>7, <2>1 DEF NoHeightMissing
    <3> QED BY <3>1, <1>3, <2>1
  <2>2. CASE i = l + 1 /\ h = b.height
    BY <2>2, <1>3
  <2>3. CASE i = l + 1 /\ h # b.height
    <3>1. h \in 1 .. height[n]
      BY <2>3, <1>3, <1>4
    <3> QED BY <3>1, <1>3, <1>5, <2>3
  <2> QED BY <2>1, <2>2, <2>3, <1>3
<1>10. ASSUME NEW m \in Node PROVE NodeInv(m)'
  <2>1. NodeInv(m) /\ DOMAIN packing = Node
    BY DEF NonceInv, OrderInv
  <2>2. packing'[m] = packing[m] \/ packing'[m] = Idle
    BY <1>2, <2>1
  <2>3. Idle.stage # "packed"
    BY DEF Idle
  <2>4. applied[m] \in 0 .. l
    BY <1>l, <2>1 DEF NodeInv
  <2>5. /\ \A j \in 1 .. applied[m] : log'[j].height <= height[m]
        /\ \A h \in 1 .. height[m] : \E i \in 1 .. l + 1 : log'[i].height = h
    BY <1>l, <2>1, <2>4, <1>3 DEF NodeInv
  <2>6. flushing[m] # 0 => applied[m] < l + 1 /\ log'[applied[m] + 1].height = height[m] + 1
    BY <1>l, <2>1, <2>4, <1>3 DEF NodeInv, NextBlock
  <2>7. packing'[m].stage = "packed" =>
          /\ packing'[m].block.height \in Nat \ {0}
          /\ packing'[m].block.height <= height[m] + 1
    BY <2>1, <2>2, <2>3 DEF NodeInv
  <2> QED BY <1>2, <1>3, <2>1, <2>4, <2>5, <2>6, <2>7 DEF NodeInv, NextBlock
<1>11. OrderInv'
  BY <1>2, <1>8, <1>9, <1>10 DEF NonceInv, OrderInv
<1>12. PICK at : FollowsLog(at)
  BY DEF NonceInv
<1>13. PICK next : Extends(next, at) /\ FollowsLog(next)'
  BY <1>12, ProposeFollows DEF NonceInv
<1> QED BY <1>11, <1>13 DEF NonceInv

\* No action breaks the invariant of nonces.
LEMMA NonceInductive == NonceInv /\ [Next]_vars => NonceInv'
<1> SUFFICES ASSUME NonceInv, [Next]_vars PROVE NonceInv'
  OBVIOUS
<1>1. CASE UNCHANGED <<log, applied, height, nonce, flushing, packing>>
  <2>1. OrderInv'
    BY <1>1 DEF NonceInv, OrderInv, LogType, NoHeightMissing, NodeInv, NextBlock
  <2> QED BY <2>1, <1>1, NoncesKept
<1>2. ASSUME NEW c \in Client,
             OpenRequest(c) \/ CheckRequest(c) \/ CommitRequest(c) \/ FailRequest(c)
      PROVE  UNCHANGED <<log, applied, height, nonce, flushing, packing>>
  BY <1>2 DEF OpenRequest, CheckRequest, CommitRequest, FailRequest, chain
<1>3. ASSUME NEW n \in Node, RefuseBlock(n) \/ Crash(n)
      PROVE  NonceInv'
  BY <1>3, HandlingOrder DEF RefuseBlock, Crash
<1>4. CASE Next
  BY <1>1, <1>2, <1>3, <1>4, PackingOrder, HandlingOrder, CommitBlockOrder, ProposeOrder DEF Next
<1>5. CASE UNCHANGED vars
  BY <1>1, <1>5 DEF vars, chain
<1> QED BY <1>4, <1>5

\* Data bases of one height have the same nonces, whatever was packed, refused
\* or replayed (commitEntries, AddBlock, set_nonce).
THEOREM NoncesAgreeCorrect == Spec => []NoncesAgree
<1>1. NonceInv => NoncesAgree
  BY DEF NonceInv, FollowsLog, NoncesAgree
<1> QED BY <1>1, NonceInitially, NonceInductive, PTL DEF Spec

---------------------------------------------------------------------------
(***************************************************************************)
(* The types of the state, the balances of nodes and the order of nonces.  *)
(***************************************************************************)

Width == 0 .. Modulus - 1
Balances == [Addr -> Width]
Nonces == [Addr -> Nat]

IsPayment(p) == p.to \in Addr /\ p.amount \in Nat
IsTransaction(tx) ==
  /\ tx.from \in Addr /\ tx.to \in Addr /\ tx.order \in Addr \cup {NoAddr}
  /\ tx.amount \in Width /\ tx.fee \in Width /\ tx.nonce \in Nat

\* What one payment and one transaction do (setMinerAccount, set_nonce).
PayOne(bal, p) == [bal EXCEPT ![p.to] = Plus(@, p.amount)]
SetNonce(non, tx) == [non EXCEPT ![tx.from] = tx.nonce + 1]

\* The transactions of a block, on node n (setMinerFee, setAccount).
ExecuteAll(n, bal, txs) == FoldLeft(LAMBDA b, tx : Execute(n, b, tx), bal, txs)

---------------------------------------------------------------------------
(***************************************************************************)
(* The folds over a block's transactions, as sequences of results.         *)
(***************************************************************************)

\* Sums and differences are of the width of uint64.
LEMMA WidthType ==
  ASSUME NEW x \in Width
  PROVE  /\ \A y \in Nat : Plus(x, y) \in Width
         /\ \A y \in Width : Minus(x, y) \in Width
<1>1. Modulus \in Nat \ {0} /\ x \in Nat
  BY ModulusAssumption DEF Width
<1>2. \A z \in Nat : z % Modulus \in Width
  BY <1>1 DEF Width
<1>3. \A y \in Nat : x + y \in Nat
  BY <1>1
<1>4. \A y \in Width : x + Modulus - y \in Nat
  BY <1>1 DEF Width
<1> QED BY <1>2, <1>3, <1>4 DEF Plus, Minus

\* What single steps make of balances and nonces.
LEMMA PayOneType ==
  ASSUME NEW bal \in Balances, NEW p, IsPayment(p)
  PROVE  PayOne(bal, p) \in Balances
<1>1. p.to \in Addr /\ Plus(bal[p.to], p.amount) \in Width
  BY WidthType DEF IsPayment, Balances
<1> QED BY <1>1 DEF PayOne, Balances

\* A payment leaves balances (setAccount).
LEMMA SetAccountType ==
  ASSUME NEW bal \in Balances, NEW tx, IsTransaction(tx)
  PROVE  SetAccount(bal, tx) \in Balances
<1>1. /\ tx.from \in Addr /\ tx.to \in Addr /\ tx.amount \in Width /\ tx.fee \in Width
      /\ tx.amount \in Nat
  BY DEF IsTransaction, Width
<1>2. Minus(Minus(bal[tx.from], tx.amount), tx.fee) \in Width
  <2>1. Minus(bal[tx.from], tx.amount) \in Width
    BY <1>1, WidthType DEF Balances
  <2> QED BY <1>1, <2>1, WidthType
<1>3. Plus(bal[tx.to], tx.amount) \in Width
  BY <1>1, WidthType DEF Balances
<1> QED BY <1>1, <1>2, <1>3 DEF SetAccount, Balances

\* Fee and payment of a transaction leave balances.
LEMMA ExecuteType ==
  ASSUME NEW n \in Node, NEW bal \in Balances, NEW tx, IsTransaction(tx)
  PROVE  Execute(n, bal, tx) \in Balances
<1>1. Miner[n] \in Addr /\ tx.fee \in Nat
  BY AccountsAssumption DEF IsTransaction, Width
<1>2. SetMinerFee(bal, Miner[n], tx.fee) \in Balances
  <2>1. Plus(bal[Miner[n]], tx.fee) \in Width
    BY <1>1, WidthType DEF Balances
  <2> QED BY <1>1, <2>1 DEF SetMinerFee, Balances
<1>3. CASE tx.script = <<>>
  BY <1>3, SetAccountType DEF Execute
<1>4. CASE tx.script # <<>>
  BY <1>2, <1>4, SetAccountType DEF Execute
<1> QED BY <1>3, <1>4

\* A transaction's nonce is taken (set_nonce).
LEMMA SetNonceType ==
  ASSUME NEW non \in Nonces, NEW tx, IsTransaction(tx)
  PROVE  SetNonce(non, tx) \in Nonces
  BY DEF SetNonce, Nonces, IsTransaction

\* The payments of a block (setMinerAccount).
Pays(h, n, bal, ps) ==
  /\ h \in [0 .. n -> Balances] /\ h[0] = bal /\ h[n] = Pay(bal, ps)
  /\ \A k \in 1 .. n : h[k] = PayOne(h[k - 1], ps[k])

\* The payments of a block, one by one.
LEMMA PayFold ==
  ASSUME NEW n \in Nat, NEW ps, DOMAIN ps = 1 .. n, \A i \in 1 .. n : IsPayment(ps[i]),
         NEW bal \in Balances
  PROVE  \E h : Pays(h, n, bal, ps)
<1> DEFINE P(g) == g = [s \in SUBSET DOMAIN ps |->
                          IF s = {} THEN bal
                          ELSE LET x == Max(s) IN PayOne(g[s \ {x}], ps[x])]
           g0 == CHOOSE g : P(g)
           F == [p \in (1 .. n) \X Balances |-> PayOne(p[2], ps[p[1]])]
<1>1. \A x \in Balances, i \in 1 .. n : PayOne(x, ps[i]) \in Balances
  BY PayOneType
<1>2. Pay(bal, ps) = g0[1 .. n]
  BY DEF Pay, FoldLeft, MapThenFoldSet, PayOne
<1>3. F \in [(1 .. n) \X Balances -> Balances]
  BY <1>1
<1>4. PICK g : Folds(g, n, Balances, bal, F)
  <2> HIDE DEF F
  <2> QED BY <1>3, FoldExists
<1>5. P(g)
  <2>1. ASSUME NEW s \in SUBSET (1 .. n), s # {}
        PROVE  F[<<Max(s), g[s \ {Max(s)}]>>] = PayOne(g[s \ {Max(s)}], ps[Max(s)])
    <3>1. Max(s) \in 1 .. n /\ g[s \ {Max(s)}] \in Balances
      BY <1>4, <2>1, MaxOfInterval DEF Folds
    <3> QED BY <3>1
  <2> HIDE DEF F
  <2> QED BY <1>4, <2>1 DEF Folds
<1>6. P(g0)
  <2> HIDE DEF P
  <2> QED BY <1>5, Zenon
<1> HIDE DEF g0
<1>7. Steps(g0, n, Balances, bal, F)
  BY <1>6, MaxOfInterval DEF Steps
<1>8. PICK h : Results(h, n, Balances, bal, F, g0[1 .. n])
  <2> HIDE DEF F
  <2> QED BY <1>3, <1>7, FoldResults
<1>9. ASSUME NEW k \in 1 .. n PROVE h[k] = PayOne(h[k - 1], ps[k])
  <2>1. h[k - 1] \in Balances
    BY <1>8 DEF Results
  <2> QED BY <1>8, <2>1 DEF Results
<1> HIDE DEF F
<1>10. Pays(h, n, bal, ps)
  BY <1>2, <1>8, <1>9 DEF Results, Pays
<1> QED BY <1>10

\* The transactions of a block on node m (setMinerFee, setAccount).
Executes(h, n, m, bal, txs) ==
  /\ h \in [0 .. n -> Balances] /\ h[0] = bal /\ h[n] = ExecuteAll(m, bal, txs)
  /\ \A k \in 1 .. n : h[k] = Execute(m, h[k - 1], txs[k])

\* The transactions of a block on a node, one by one.
LEMMA ExecuteFold ==
  ASSUME NEW n \in Nat, NEW txs, DOMAIN txs = 1 .. n, \A i \in 1 .. n : IsTransaction(txs[i]),
         NEW m \in Node,
         NEW bal \in Balances
  PROVE  \E h : Executes(h, n, m, bal, txs)
<1> DEFINE P(g) == g = [s \in SUBSET DOMAIN txs |->
                          IF s = {} THEN bal
                          ELSE LET x == Max(s) IN Execute(m, g[s \ {x}], txs[x])]
           g0 == CHOOSE g : P(g)
           F == [p \in (1 .. n) \X Balances |-> Execute(m, p[2], txs[p[1]])]
<1>1. \A x \in Balances, i \in 1 .. n : Execute(m, x, txs[i]) \in Balances
  BY ExecuteType
<1>2. ExecuteAll(m, bal, txs) = g0[1 .. n]
  BY DEF ExecuteAll, FoldLeft, MapThenFoldSet
<1>3. F \in [(1 .. n) \X Balances -> Balances]
  BY <1>1
<1>4. PICK g : Folds(g, n, Balances, bal, F)
  <2> HIDE DEF F
  <2> QED BY <1>3, FoldExists
<1>5. P(g)
  <2>1. ASSUME NEW s \in SUBSET (1 .. n), s # {}
        PROVE  F[<<Max(s), g[s \ {Max(s)}]>>] = Execute(m, g[s \ {Max(s)}], txs[Max(s)])
    <3>1. Max(s) \in 1 .. n /\ g[s \ {Max(s)}] \in Balances
      BY <1>4, <2>1, MaxOfInterval DEF Folds
    <3> QED BY <3>1
  <2> HIDE DEF F
  <2> QED BY <1>4, <2>1 DEF Folds
<1>6. P(g0)
  <2> HIDE DEF P
  <2> QED BY <1>5, Zenon
<1> HIDE DEF g0
<1>7. Steps(g0, n, Balances, bal, F)
  BY <1>6, MaxOfInterval DEF Steps
<1>8. PICK h : Results(h, n, Balances, bal, F, g0[1 .. n])
  <2> HIDE DEF F
  <2> QED BY <1>3, <1>7, FoldResults
<1>9. ASSUME NEW k \in 1 .. n PROVE h[k] = Execute(m, h[k - 1], txs[k])
  <2>1. h[k - 1] \in Balances
    BY <1>8 DEF Results
  <2> QED BY <1>8, <2>1 DEF Results
<1> HIDE DEF F
<1>10. Executes(h, n, m, bal, txs)
  BY <1>2, <1>8, <1>9 DEF Results, Executes
<1> QED BY <1>10

\* The nonces of a block (set_nonce).
SetsNonces(h, n, non, txs) ==
  /\ h \in [0 .. n -> Nonces] /\ h[0] = non /\ h[n] = SetNonces(non, txs)
  /\ \A k \in 1 .. n : h[k] = SetNonce(h[k - 1], txs[k])

\* The nonces of a block, one by one.
LEMMA SetNoncesFold ==
  ASSUME NEW n \in Nat, NEW txs, DOMAIN txs = 1 .. n, \A i \in 1 .. n : IsTransaction(txs[i]),
         NEW non \in Nonces
  PROVE  \E h : SetsNonces(h, n, non, txs)
<1> DEFINE P(g) == g = [s \in SUBSET DOMAIN txs |->
                          IF s = {} THEN non
                          ELSE LET x == Max(s) IN SetNonce(g[s \ {x}], txs[x])]
           g0 == CHOOSE g : P(g)
           F == [p \in (1 .. n) \X Nonces |-> SetNonce(p[2], txs[p[1]])]
<1>1. \A x \in Nonces, i \in 1 .. n : SetNonce(x, txs[i]) \in Nonces
  BY SetNonceType
<1>2. SetNonces(non, txs) = g0[1 .. n]
  BY DEF SetNonces, FoldLeft, MapThenFoldSet, SetNonce
<1>3. F \in [(1 .. n) \X Nonces -> Nonces]
  BY <1>1
<1>4. PICK g : Folds(g, n, Nonces, non, F)
  <2> HIDE DEF F
  <2> QED BY <1>3, FoldExists
<1>5. P(g)
  <2>1. ASSUME NEW s \in SUBSET (1 .. n), s # {}
        PROVE  F[<<Max(s), g[s \ {Max(s)}]>>] = SetNonce(g[s \ {Max(s)}], txs[Max(s)])
    <3>1. Max(s) \in 1 .. n /\ g[s \ {Max(s)}] \in Nonces
      BY <1>4, <2>1, MaxOfInterval DEF Folds
    <3> QED BY <3>1
  <2> HIDE DEF F
  <2> QED BY <1>4, <2>1 DEF Folds
<1>6. P(g0)
  <2> HIDE DEF P
  <2> QED BY <1>5, Zenon
<1> HIDE DEF g0
<1>7. Steps(g0, n, Nonces, non, F)
  BY <1>6, MaxOfInterval DEF Steps
<1>8. PICK h : Results(h, n, Nonces, non, F, g0[1 .. n])
  <2> HIDE DEF F
  <2> QED BY <1>3, <1>7, FoldResults
<1>9. ASSUME NEW k \in 1 .. n PROVE h[k] = SetNonce(h[k - 1], txs[k])
  <2>1. h[k - 1] \in Nonces
    BY <1>8 DEF Results
  <2> QED BY <1>8, <2>1 DEF Results
<1> HIDE DEF F
<1>10. SetsNonces(h, n, non, txs)
  BY <1>2, <1>8, <1>9 DEF Results, SetsNonces
<1> QED BY <1>10

AddOrder(signers, tx) ==
  IF tx.order = NoAddr THEN signers ELSE Append(signers, tx.order)

\* The signer of an order is an address.
LEMMA OrderType ==
  ASSUME NEW signers \in Seq(Addr), NEW tx, IsTransaction(tx)
  PROVE  AddOrder(signers, tx) \in Seq(Addr)
  BY DEF AddOrder, IsTransaction

\* Who signed the orders of a block.
Collects(h, n, none, txs) ==
  /\ h \in [0 .. n -> Seq(Addr)] /\ h[0] = none /\ h[n] = FoldLeft(AddOrder, none, txs)
  /\ \A k \in 1 .. n : h[k] = AddOrder(h[k - 1], txs[k])

\* The orders of a block, one by one (Distr).
LEMMA OrdersFold ==
  ASSUME NEW n \in Nat, NEW txs, DOMAIN txs = 1 .. n, \A i \in 1 .. n : IsTransaction(txs[i]),
         NEW none \in Seq(Addr)
  PROVE  \E h : Collects(h, n, none, txs)
<1> DEFINE P(g) == g = [s \in SUBSET DOMAIN txs |->
                          IF s = {} THEN none
                          ELSE LET x == Max(s) IN AddOrder(g[s \ {x}], txs[x])]
           g0 == CHOOSE g : P(g)
           F == [p \in (1 .. n) \X Seq(Addr) |-> AddOrder(p[2], txs[p[1]])]
<1>1. \A x \in Seq(Addr), i \in 1 .. n : AddOrder(x, txs[i]) \in Seq(Addr)
  BY OrderType
<1>2. FoldLeft(AddOrder, none, txs) = g0[1 .. n]
  BY DEF FoldLeft, MapThenFoldSet
<1>3. F \in [(1 .. n) \X Seq(Addr) -> Seq(Addr)]
  BY <1>1
<1>4. PICK g : Folds(g, n, Seq(Addr), none, F)
  <2> HIDE DEF F
  <2> QED BY <1>3, FoldExists
<1>5. P(g)
  <2>1. ASSUME NEW s \in SUBSET (1 .. n), s # {}
        PROVE  F[<<Max(s), g[s \ {Max(s)}]>>] = AddOrder(g[s \ {Max(s)}], txs[Max(s)])
    <3>1. Max(s) \in 1 .. n /\ g[s \ {Max(s)}] \in Seq(Addr)
      BY <1>4, <2>1, MaxOfInterval DEF Folds
    <3> QED BY <3>1
  <2> HIDE DEF F
  <2> QED BY <1>4, <2>1 DEF Folds
<1>6. P(g0)
  <2> HIDE DEF P
  <2> QED BY <1>5, Zenon
<1> HIDE DEF g0
<1>7. Steps(g0, n, Seq(Addr), none, F)
  BY <1>6, MaxOfInterval DEF Steps
<1>8. PICK h : Results(h, n, Seq(Addr), none, F, g0[1 .. n])
  <2> HIDE DEF F
  <2> QED BY <1>3, <1>7, FoldResults
<1>9. ASSUME NEW k \in 1 .. n PROVE h[k] = AddOrder(h[k - 1], txs[k])
  <2>1. h[k - 1] \in Seq(Addr)
    BY <1>8 DEF Results
  <2> QED BY <1>8, <2>1 DEF Results
<1> HIDE DEF F
<1>10. Collects(h, n, none, txs)
  BY <1>2, <1>8, <1>9 DEF Results, Collects
<1> QED BY <1>10

---------------------------------------------------------------------------
(***************************************************************************)
(* Types of blocks and what they pay.                                      *)
(***************************************************************************)

Transactions(txs) ==
  \E n \in 0 .. BlockLimit :
    /\ DOMAIN txs = 1 .. n /\ Len(txs) = n
    /\ \A i \in 1 .. n : IsTransaction(txs[i])
Payments(ps) == \E n \in Nat : DOMAIN ps = 1 .. n /\ \A i \in 1 .. n : IsPayment(ps[i])
IsBlock(b) == Transactions(b.txs) /\ Payments(b.first)

\* The signers of a block's orders are addresses.
LEMMA OrdersType ==
  ASSUME NEW txs, Transactions(txs)
  PROVE  Orders(txs) \in Seq(Addr)
<1>1. PICK n \in 0 .. BlockLimit : DOMAIN txs = 1 .. n /\ \A i \in 1 .. n : IsTransaction(txs[i])
  BY DEF Transactions
<1>2. n \in Nat /\ <<>> \in Seq(Addr)
  BY AccountsAssumption
<1>3. PICK h : Collects(h, n, <<>>, txs)
  BY <1>1, <1>2, OrdersFold
<1>4. Orders(txs) = FoldLeft(AddOrder, <<>>, txs)
  BY DEF Orders, AddOrder, FoldLeft, MapThenFoldSet
<1> QED BY <1>2, <1>3, <1>4 DEF Collects

\* The reward is a number at every height.
LEMMA RewardType == \A x \in Nat : RewardAfter[x] \in Nat
<1> DEFINE P(g) == g = [x \in Nat |-> IF x = 0 THEN Total ELSE (g[x - 1] * 8) \div 10]
           F == [p \in Nat \X Nat |-> (p[2] * 8) \div 10]
           T(n) == {k \in 0 .. n : RewardAfter[k] \in Nat}
<1>1. Total \in Nat /\ F \in [Nat \X Nat -> Nat]
  <2>1. \A y \in Nat : (y * 8) \div 10 \in Nat
    OBVIOUS
  <2> QED BY <2>1, AccountsAssumption
<1>2. PICK g : Recurses(g, Nat, Total, F)
  <2> HIDE DEF F
  <2> QED BY <1>1, RecursionExists
<1>3. P(g)
  <2>1. \A k \in Nat : k # 0 => k - 1 \in Nat
    OBVIOUS
  <2>2. g \in [Nat -> Nat] /\ g = [k \in Nat |-> IF k = 0 THEN Total ELSE F[<<k, g[k - 1]>>]]
    BY <1>2 DEF Recurses
  <2> QED BY <2>1, <2>2
<1>4. P(RewardAfter)
  <2>1. P(CHOOSE r : P(r))
    <3> HIDE DEF P
    <3> QED BY <1>3, Zenon
  <2> QED BY <2>1 DEF RewardAfter
<1>5. ASSUME NEW n \in Nat PROVE RewardAfter[n] \in Nat
  <2>1. 0 \in T(n)
    BY <1>1, <1>4
  <2>2. ASSUME NEW k \in 0 .. n - 1, k \in T(n) PROVE k + 1 \in T(n)
    <3>1. RewardAfter[k + 1] = (RewardAfter[k] * 8) \div 10 /\ RewardAfter[k] \in Nat
      BY <1>4, <2>2
    <3> QED BY <3>1
  <2>3. 0 .. n \subseteq T(n)
    <3> HIDE DEF T
    <3> QED BY <2>1, <2>2, Induction
  <2> QED BY <2>3
<1> QED BY <1>5

\* Distr pays numbers to addresses.
LEMMA DistrType ==
  ASSUME NEW txs, Transactions(txs), NEW miner \in Addr, NEW h \in Nat
  PROVE  Payments(Distr(txs, miner, h))
<1> DEFINE reward == RewardAfter[h \div Period]
           orders == Orders(txs)
           share == (reward \div 10) \div Len(orders)
           P == [to : Addr, amount : Nat]
           shares == [i \in DOMAIN orders |-> [to |-> orders[i], amount |-> share]]
           first == IF orders = <<>> THEN <<[to |-> Ds, amount |-> (reward * 2) \div 10]>>
                    ELSE Append(shares, [to |-> Ds, amount |-> reward \div 10])
           rest == <<[to |-> miner, amount |-> (reward * 4) \div 10],
                     [to |-> Cm, amount |-> (reward * 4) \div 10]>>
<1>1. reward \in Nat
  <2>1. h \div Period \in Nat
    <3>1. \A x \in Nat, y \in Nat \ {0} : x \div y \in Nat
      OBVIOUS
    <3> QED BY <3>1, AccountsAssumption
  <2> QED BY <2>1, RewardType
<1>2. orders \in Seq(Addr)
  BY OrdersType
<1>3. Ds \in Addr /\ Cm \in Addr
  BY AccountsAssumption
<1>d. Distr(txs, miner, h) = first \o rest
  BY DEF Distr
<1> HIDE DEF reward, orders
<1>4. (reward * 2) \div 10 \in Nat /\ reward \div 10 \in Nat /\ (reward * 4) \div 10 \in Nat
  BY <1>1
<1>5. orders # <<>> => share \in Nat
  <2> SUFFICES ASSUME orders # <<>> PROVE share \in Nat
    OBVIOUS
  <2>1. Len(orders) \in Nat \ {0}
    BY <1>2
  <2>2. \A x \in Nat, y \in Nat \ {0} : x \div y \in Nat
    OBVIOUS
  <2> QED BY <1>4, <2>1, <2>2
<1>6. orders # <<>> => shares \in Seq(P)
  <2> SUFFICES ASSUME orders # <<>> PROVE shares \in Seq(P)
    OBVIOUS
  <2>1. PICK m \in Nat : DOMAIN orders = 1 .. m /\ \A i \in 1 .. m : orders[i] \in Addr
    BY <1>2
  <2> HIDE DEF share
  <2>2. shares \in [1 .. m -> P]
    BY <1>5, <2>1
  <2> HIDE DEF shares, P
  <2> QED BY <2>2
<1>7. first \in Seq(P)
  <2>1. CASE orders = <<>>
    BY <1>3, <1>4, <2>1
  <2>2. CASE orders # <<>>
    <3> HIDE DEF shares
    <3> QED BY <1>3, <1>4, <1>6, <2>2
  <2> QED BY <2>1, <2>2
<1>8. rest \in Seq(P)
  BY <1>3, <1>4
<1>9. first \o rest \in Seq(P)
  <2> HIDE DEF first, rest
  <2> QED BY <1>7, <1>8
<1> DEFINE d == first \o rest
<1> HIDE DEF d, P
<1>10. /\ Len(d) \in Nat /\ DOMAIN d = 1 .. Len(d)
       /\ \A i \in 1 .. Len(d) : d[i] \in P
  BY <1>9 DEF d
<1>11. \A i \in 1 .. Len(d) : IsPayment(d[i])
  BY <1>10 DEF IsPayment, P
<1> QED BY <1>10, <1>11, <1>d DEF Payments, d

---------------------------------------------------------------------------
(***************************************************************************)
(* What blocks do to the balances of other addresses than the nodes' own.  *)
(***************************************************************************)

Public == Addr \ {Miner[k] : k \in Node}
Same(x, y) == \A a \in Public : x[a] = y[a]

\* Steps look at the balances that they change only.
LEMMA StepsAgree ==
  ASSUME NEW x \in Balances, NEW y \in Balances, Same(x, y)
  PROVE  /\ \A p : IsPayment(p) => Same(PayOne(x, p), PayOne(y, p))
         /\ \A n, m \in Node : \A tx :
              IsTransaction(tx) => Same(Execute(n, x, tx), Execute(m, y, tx))
<1>1. ASSUME NEW p, IsPayment(p) PROVE Same(PayOne(x, p), PayOne(y, p))
  BY DEF Same, PayOne, Balances, Public
<1>2. ASSUME NEW n \in Node, NEW m \in Node, NEW tx, IsTransaction(tx)
      PROVE  Same(Execute(n, x, tx), Execute(m, y, tx))
  <2> DEFINE u == IF tx.script = <<>> THEN x ELSE SetMinerFee(x, Miner[n], tx.fee)
             v == IF tx.script = <<>> THEN y ELSE SetMinerFee(y, Miner[m], tx.fee)
  <2>1. DOMAIN u = Addr /\ DOMAIN v = Addr /\ \A a \in Public : u[a] = x[a] /\ v[a] = y[a]
    BY DEF SetMinerFee, Balances, Public
  <2> HIDE DEF u, v
  <2>2. Same(SetAccount(u, tx), SetAccount(v, tx))
    BY <2>1 DEF Same, SetAccount, Public
  <2> QED BY <2>2 DEF Execute, u, v
<1> QED BY <1>1, <1>2

\* The rewards of a block are the same on all nodes.
LEMMA PayAgrees ==
  ASSUME NEW n \in Nat, NEW ps, DOMAIN ps = 1 .. n, \A i \in 1 .. n : IsPayment(ps[i]),
         NEW x \in Balances, NEW y \in Balances, Same(x, y)
  PROVE  Pay(x, ps) \in Balances /\ Pay(y, ps) \in Balances /\ Same(Pay(x, ps), Pay(y, ps))
<1>1. PICK f : Pays(f, n, x, ps)
  BY PayFold
<1>2. PICK g : Pays(g, n, y, ps)
  BY PayFold
<1> DEFINE T == {k \in 0 .. n : Same(f[k], g[k])}
<1>3. 0 \in T
  BY <1>1, <1>2 DEF Pays
<1>4. ASSUME NEW k \in 0 .. n - 1, k \in T PROVE k + 1 \in T
  <2>1. k + 1 \in 1 .. n /\ (k + 1) - 1 = k /\ f[k] \in Balances /\ g[k] \in Balances
    BY <1>1, <1>2 DEF Pays
  <2>2. f[k + 1] = PayOne(f[k], ps[k + 1]) /\ g[k + 1] = PayOne(g[k], ps[k + 1])
    BY <1>1, <1>2, <2>1 DEF Pays
  <2>3. Same(f[k + 1], g[k + 1])
    BY <1>4, <2>1, <2>2, StepsAgree
  <2> QED BY <2>1, <2>3
<1>5. n \in T
  <2> HIDE DEF T
  <2>1. 0 .. n \subseteq T
    BY <1>3, <1>4, Induction
  <2> QED BY <2>1
<1> QED BY <1>1, <1>2, <1>5 DEF Pays

\* Its transactions differ in the nodes' own addresses only.
LEMMA ExecuteAgrees ==
  ASSUME NEW n \in Nat, NEW txs, DOMAIN txs = 1 .. n, \A i \in 1 .. n : IsTransaction(txs[i]),
         NEW x \in Balances, NEW y \in Balances, Same(x, y), NEW m \in Node, NEW o \in Node
  PROVE  /\ ExecuteAll(m, x, txs) \in Balances /\ ExecuteAll(o, y, txs) \in Balances
         /\ Same(ExecuteAll(m, x, txs), ExecuteAll(o, y, txs))
<1>1. PICK f : Executes(f, n, m, x, txs)
  BY ExecuteFold
<1>2. PICK g : Executes(g, n, o, y, txs)
  BY ExecuteFold
<1> DEFINE T == {k \in 0 .. n : Same(f[k], g[k])}
<1>3. 0 \in T
  BY <1>1, <1>2 DEF Executes
<1>4. ASSUME NEW k \in 0 .. n - 1, k \in T PROVE k + 1 \in T
  <2>1. k + 1 \in 1 .. n /\ (k + 1) - 1 = k /\ f[k] \in Balances /\ g[k] \in Balances
    BY <1>1, <1>2 DEF Executes
  <2>2. f[k + 1] = Execute(m, f[k], txs[k + 1]) /\ g[k + 1] = Execute(o, g[k], txs[k + 1])
    BY <1>1, <1>2, <2>1 DEF Executes
  <2>3. Same(f[k + 1], g[k + 1])
    BY <1>4, <2>1, <2>2, StepsAgree
  <2> QED BY <2>1, <2>3
<1>5. n \in T
  <2> HIDE DEF T
  <2>1. 0 .. n \subseteq T
    BY <1>3, <1>4, Induction
  <2> QED BY <2>1
<1> QED BY <1>1, <1>2, <1>5 DEF Executes

\* Balances after a block, on node n (AddBlock).
After(n, bal, b) == ExecuteAll(n, Pay(bal, b.first), b.txs)

\* A block does the same on all nodes but for their own addresses.
LEMMA BlockAgrees ==
  ASSUME NEW b, IsBlock(b), NEW x \in Balances, NEW y \in Balances, Same(x, y),
         NEW m \in Node, NEW o \in Node
  PROVE  /\ After(m, x, b) \in Balances /\ After(o, y, b) \in Balances
         /\ Same(After(m, x, b), After(o, y, b))
<1>1. /\ Pay(x, b.first) \in Balances /\ Pay(y, b.first) \in Balances
      /\ Same(Pay(x, b.first), Pay(y, b.first))
  <2>1. PICK n \in Nat : DOMAIN b.first = 1 .. n /\ \A i \in 1 .. n : IsPayment(b.first[i])
    BY DEF IsBlock, Payments
  <2> QED BY <2>1, PayAgrees
<1>2. PICK n \in 0 .. BlockLimit :
        DOMAIN b.txs = 1 .. n /\ \A i \in 1 .. n : IsTransaction(b.txs[i])
  BY DEF IsBlock, Transactions
<1>3. n \in Nat
  BY <1>2, AccountsAssumption
<1> QED BY <1>1, <1>2, <1>3, ExecuteAgrees DEF After

---------------------------------------------------------------------------
(***************************************************************************)
(* The types of all variables, and of the blocks on their way.             *)
(***************************************************************************)

\* What a node is about to propose, and where AddBlock is.
Packs(r) ==
  /\ r.stage \in {"idle", "pending", "packed"}
  /\ r.stage = "pending" => Transactions(r.txs)
  /\ r.stage = "packed" => IsBlock(r.block)

LedgerType ==
  /\ balance \in [Node -> Balances] /\ nonce \in [Node -> Nonces]
  /\ Len(log) <= MaxLog
  /\ \A i \in 1 .. Len(log) : IsBlock(log[i]) /\ log[i].height <= i
  /\ \A n \in Node : Packs(packing[n]) /\ flushing[n] \in 0 .. BlockLimit + 1
  /\ \A c \in Client : request[c].stage \in {"new", "read", "write", "done", "failed"}

\* The least of some numbers.
LEMMA MinType ==
  ASSUME NEW S, S \subseteq Nat, S # {}
  PROVE  Min(S) \in S
<1>1. \E x \in S : \A y \in S : x <= y
  BY Least
<1> QED BY <1>1 DEF Min

\* AddBlock goes to a later script of the block, or past the last.
LEMMA NextScriptType ==
  ASSUME NEW txs, Transactions(txs), NEW i \in Nat \ {0}
  PROVE  NextScript(txs, i) \in 1 .. BlockLimit + 1
<1>1. PICK n \in 0 .. BlockLimit : Len(txs) = n
  BY DEF Transactions
<1> DEFINE S == {j \in i .. n : txs[j].script # <<>>} \cup {n + 1}
<1>2. S \subseteq 1 .. BlockLimit + 1 /\ S # {} /\ S \subseteq Nat
  BY AccountsAssumption
<1>3. Min(S) \in S
  <2> HIDE DEF S
  <2> QED BY <1>2, MinType
<1>4. NextScript(txs, i) = Min(S)
  BY <1>1 DEF NextScript
<1> HIDE DEF S
<1> QED BY <1>2, <1>3, <1>4

\* Nodes start with an empty log.
LEMMA LedgerTypeInitially == Init => LedgerType
<1> SUFFICES ASSUME Init PROVE LedgerType
  OBVIOUS
<1>1. balance \in [Node -> Balances] /\ nonce \in [Node -> Nonces]
  BY AccountsAssumption DEF Init, Balances, Width, Nonces
<1>2. Len(log) = 0 /\ 0 <= MaxLog /\ 0 \in 0 .. BlockLimit + 1
  BY AccountsAssumption DEF Init
<1> QED BY <1>1, <1>2 DEF Init, LedgerType, Packs, Idle, Closed

\* Steps of one node that leave log and data bases alone.
LEMMA LedgerTypeKept ==
  ASSUME LedgerType, NEW n \in Node, UNCHANGED <<log, balance, nonce>>,
         \A m \in Node \ {n} : packing'[m] = packing[m] /\ flushing'[m] = flushing[m],
         Packs(packing'[n]), flushing'[n] \in 0 .. BlockLimit + 1,
         \A c \in Client : request'[c] = request[c] \/ request'[c] = Closed("failed")
  PROVE  LedgerType'
<1>1. \A m \in Node : Packs(packing'[m]) /\ flushing'[m] \in 0 .. BlockLimit + 1
  BY DEF LedgerType
<1>2. \A c \in Client : request'[c].stage \in {"new", "read", "write", "done", "failed"}
  BY DEF LedgerType, Closed
<1> QED BY <1>1, <1>2 DEF LedgerType

\* Pendings and NewBlock make a well-typed block.
LEMMA PackingType ==
  ASSUME OrderInv, LedgerType, NEW n \in Node, Pendings(n) \/ NewBlock(n) \/ Discard(n)
  PROVE  LedgerType'
<1>1. /\ UNCHANGED <<log, balance, nonce, flushing, request>>
      /\ DOMAIN packing = Node /\ height[n] \in Nat
  BY DEF Pendings, NewBlock, Discard, chain, OrderInv, NodeInv
<1>2. \A m \in Node \ {n} : packing'[m] = packing[m]
  BY <1>1 DEF Pendings, NewBlock, Discard
<1>3. Packs(packing'[n])
  <2>1. CASE Pendings(n)
    <3>1. PICK txs \in BoundedSeq(Pool, BlockLimit) :
            packing'[n] = [stage |-> "pending", seen |-> height[n],
                           txs |-> [i \in DOMAIN txs |-> WithRoot(n, txs[i])]]
      BY <2>1, <1>1 DEF Pendings
    <3>2. PICK k \in 0 .. BlockLimit : txs \in [1 .. k -> Pool]
      BY DEF BoundedSeq, SeqOf
    <3> DEFINE t == [i \in DOMAIN txs |-> WithRoot(n, txs[i])]
    <3>3. DOMAIN t = 1 .. k /\ Len(t) = k
      BY <3>2, AccountsAssumption
    <3>4. ASSUME NEW i \in 1 .. k PROVE IsTransaction(t[i])
      <4>1. txs[i] \in Txs
        BY <3>2 DEF Pool
      <4> DEFINE tx == txs[i]
      <4>2. /\ {"from", "to", "amount", "fee", "nonce", "order"} \subseteq DOMAIN tx
            /\ IsTransaction(tx)
        BY <4>1, AccountsAssumption DEF IsTransaction, Width
      <4>3. t[i] = WithRoot(n, tx)
        BY <3>2
      <4> HIDE DEF tx, t
      <4>4. IsTransaction(WithRoot(n, tx))
        <5> DEFINE root == Root(New(cdb[n], tx.script, tx.from))
        <5>1. WithRoot(n, tx) = [tx EXCEPT !.root = root]
          BY DEF WithRoot
        <5> HIDE DEF root
        <5> QED BY <4>2, <5>1 DEF IsTransaction
      <4> QED BY <4>3, <4>4
    <3> HIDE DEF t
    <3>5. Transactions(t)
      BY <3>3, <3>4 DEF Transactions
    <3> QED BY <3>1, <3>5 DEF Packs, t
  <2>2. CASE NewBlock(n)
    <3> DEFINE txs == packing[n].txs
               h == height[n] + 1
               b == [height |-> h, txs |-> txs, miner |-> Miner[n],
                     first |-> Distr(txs, Miner[n], h), seen |-> packing[n].seen]
    <3>1. packing'[n] = [stage |-> "packed", block |-> b]
      BY <1>1, <2>2 DEF NewBlock
    <3>2. Transactions(txs)
      BY <2>2 DEF NewBlock, LedgerType, Packs
    <3>3. h \in Nat /\ Miner[n] \in Addr
      BY <1>1, AccountsAssumption
    <3> HIDE DEF h, txs
    <3>4. IsBlock(b)
      BY <3>2, <3>3, DistrType DEF IsBlock
    <3> HIDE DEF b
    <3> QED BY <3>1, <3>4 DEF Packs
  <2>3. CASE Discard(n)
    BY <2>3, <1>1 DEF Discard, Packs, Idle
  <2> QED BY <2>1, <2>2, <2>3
<1>4. flushing'[n] \in 0 .. BlockLimit + 1
  BY <1>1 DEF LedgerType
<1> QED BY <1>1, <1>2, <1>3, <1>4, LedgerTypeKept

\* Handling an entry up to the commit changes counters only.
LEMMA HandlingType ==
  ASSUME OrderInv, LedgerType, NEW n \in Node,
         \/ SkipStaleBlock(n) \/ AcceptBlock(n) \/ FlushScript(n) \/ EndProcess(n)
  PROVE  LedgerType'
<1>1. /\ UNCHANGED <<log, balance, nonce>>
      /\ DOMAIN packing = Node /\ DOMAIN flushing = Node
      /\ applied[n] \in 0 .. Len(log) /\ Len(log) \in Nat
      /\ Packs(packing[n]) /\ flushing[n] \in 0 .. BlockLimit + 1
      /\ BlockLimit \in Nat
  <2>1. UNCHANGED <<log, balance, nonce>>
    BY DEF SkipStaleBlock, AcceptBlock, FlushScript, EndProcess, chain
  <2>2. /\ DOMAIN packing = Node /\ DOMAIN flushing = Node
        /\ applied[n] \in 0 .. Len(log) /\ Len(log) \in Nat
    BY DEF OrderInv, NodeInv, LogType
  <2>3. Packs(packing[n]) /\ flushing[n] \in 0 .. BlockLimit + 1 /\ BlockLimit \in Nat
    BY AccountsAssumption DEF LedgerType
  <2> QED BY <2>1, <2>2, <2>3
<1>2. \A m \in Node \ {n} : packing'[m] = packing[m] /\ flushing'[m] = flushing[m]
  BY <1>1 DEF SkipStaleBlock, AcceptBlock, FlushScript, EndProcess
<1>3. \A c \in Client : request'[c] = request[c] \/ request'[c] = Closed("failed")
  BY DEF SkipStaleBlock, AcceptBlock, FlushScript, EndProcess
<1>4. Packs(packing'[n])
  BY <1>1 DEF SkipStaleBlock, AcceptBlock, FlushScript, EndProcess, Packs, Idle
<1>5. flushing'[n] \in 0 .. BlockLimit + 1
  <2>1. CASE SkipStaleBlock(n) \/ EndProcess(n)
    BY <1>1, <2>1 DEF SkipStaleBlock, EndProcess
  <2>2. CASE AcceptBlock(n)
    <3>1. Transactions(NextBlock(n).txs)
      BY <1>1, <2>2 DEF AcceptBlock, HasBlock, NextBlock, LedgerType, IsBlock
    <3>2. flushing'[n] = NextScript(NextBlock(n).txs, 1)
      BY <1>1, <2>2 DEF AcceptBlock
    <3> QED BY <1>1, <3>1, <3>2, NextScriptType
  <2>3. CASE FlushScript(n)
    <3>1. flushing[n] # 0 /\ applied[n] < Len(log)
      BY <2>3 DEF FlushScript, OrderInv, NodeInv
    <3>2. Transactions(NextBlock(n).txs)
      <4>1. applied[n] + 1 \in 1 .. Len(log)
        BY <1>1, <3>1
      <4> QED BY <4>1 DEF NextBlock, LedgerType, IsBlock
    <3>3. flushing'[n] = NextScript(NextBlock(n).txs, flushing[n] + 1)
      BY <1>1, <2>3 DEF FlushScript
    <3>4. flushing[n] + 1 \in Nat \ {0}
      BY <1>1
    <3>5. NextScript(NextBlock(n).txs, flushing[n] + 1) \in 1 .. BlockLimit + 1
      BY <3>2, <3>4, NextScriptType
    <3> QED BY <1>1, <3>3, <3>5
  <2> QED BY <2>1, <2>2, <2>3
<1> QED BY <1>1, <1>2, <1>3, <1>4, <1>5, LedgerTypeKept

\* The log takes a block of its next height at most (node.go:747).
LEMMA ProposeType ==
  ASSUME OrderInv, LedgerType, NEW n \in Node, Propose(n)
  PROVE  LedgerType'
<1>1. PICK S : log \in Seq(S)
  BY DEF OrderInv, LogType
<1>l. PICK l \in Nat : l = Len(log)
  BY <1>1
<1>b. PICK b : b = packing[n].block
  OBVIOUS
<1>2. /\ log' = Append(log, b) /\ l < MaxLog
      /\ UNCHANGED <<balance, nonce, flushing, request>>
      /\ packing' = [packing EXCEPT ![n] = Idle]
      /\ IsBlock(b) /\ b.height \in Nat /\ b.height <= height[n] + 1 /\ height[n] \in Nat
  BY <1>b, <1>l DEF Propose, chain, LedgerType, Packs, OrderInv, NodeInv
<1>3. Len(log') = l + 1 /\ log'[l + 1] = b /\ \A i \in 1 .. l : log'[i] = log[i]
  <2>1. log \in Seq(S \cup {b}) /\ b \in S \cup {b}
    BY <1>1
  <2> QED BY <1>l, <1>2, <2>1
<1>4. \A i \in 1 .. l : IsBlock(log[i]) /\ log[i].height <= i /\ log[i].height \in Nat
  BY <1>l DEF LedgerType, OrderInv, LogType
<1>5. height[n] <= l
  <2>1. CASE height[n] = 0
    BY <2>1
  <2>2. CASE height[n] # 0
    <3>1. height[n] \in 1 .. height[n]
      BY <1>2, <2>2
    <3>2. PICK i \in 1 .. l : log[i].height = height[n]
      BY <1>l, <3>1 DEF OrderInv, NodeInv
    <3> QED BY <1>2, <1>4, <3>2
  <2> QED BY <2>1, <2>2
<1>6. \A i \in 1 .. l + 1 : IsBlock(log'[i]) /\ log'[i].height <= i
  <2> TAKE i \in 1 .. l + 1
  <2>1. CASE i = l + 1
    BY <1>2, <1>3, <1>5, <2>1
  <2>2. CASE i \in 1 .. l
    BY <1>3, <1>4, <2>2
  <2> QED BY <2>1, <2>2
<1>7. \A m \in Node : Packs(packing'[m])
  <2>1. \A m \in Node : packing'[m] = packing[m] \/ packing'[m] = Idle
    BY <1>2 DEF OrderInv
  <2> QED BY <2>1 DEF LedgerType, Packs, Idle
<1>8. l + 1 <= MaxLog
  BY <1>2, AccountsAssumption
<1> QED BY <1>2, <1>3, <1>6, <1>7, <1>8 DEF LedgerType

\* AddBlock leaves balances and nonces well-typed.
LEMMA CommitType ==
  ASSUME OrderInv, LedgerType, NEW n \in Node, CommitBlock(n)
  PROVE  LedgerType'
<1> DEFINE b == log[applied[n] + 1]
<1>1. /\ UNCHANGED <<log, packing, request>>
      /\ balance' = [balance EXCEPT ![n] = After(n, balance[n], b)]
      /\ nonce' = [nonce EXCEPT ![n] = SetNonces(nonce[n], b.txs)]
      /\ flushing' = [flushing EXCEPT ![n] = 0]
  BY DEF CommitBlock, NextBlock, After, ExecuteAll
<1>2. IsBlock(b)
  BY CommitsNext DEF LedgerType
<1> HIDE DEF b
<1>3. balance[n] \in Balances /\ nonce[n] \in Nonces
  BY DEF LedgerType
<1>4. After(n, balance[n], b) \in Balances
  BY <1>2, <1>3, BlockAgrees DEF Same
<1>5. SetNonces(nonce[n], b.txs) \in Nonces
  <2>1. PICK k \in 0 .. BlockLimit :
          DOMAIN b.txs = 1 .. k /\ \A i \in 1 .. k : IsTransaction(b.txs[i])
    BY <1>2 DEF IsBlock, Transactions
  <2>2. k \in Nat
    BY AccountsAssumption
  <2>3. PICK h : SetsNonces(h, k, nonce[n], b.txs)
    BY <1>3, <2>1, <2>2, SetNoncesFold
  <2> QED BY <2>2, <2>3 DEF SetsNonces
<1>6. balance' \in [Node -> Balances] /\ nonce' \in [Node -> Nonces]
  BY <1>1, <1>4, <1>5 DEF LedgerType
<1>7. ASSUME NEW m \in Node PROVE flushing'[m] \in 0 .. BlockLimit + 1
  <2>1. DOMAIN flushing = Node
    BY DEF OrderInv
  <2>2. flushing'[m] = 0 \/ flushing'[m] = flushing[m]
    BY <1>1, <2>1
  <2>3. BlockLimit \in Nat /\ flushing[m] \in 0 .. BlockLimit + 1
    BY AccountsAssumption DEF LedgerType
  <2> QED BY <2>2, <2>3
<1> QED BY <1>1, <1>6, <1>7 DEF LedgerType

\* Requests of clients leave everything else alone.
LEMMA RequestLedgerType ==
  ASSUME LockInv, LedgerType, NEW c \in Client,
         OpenRequest(c) \/ CheckRequest(c) \/ CommitRequest(c) \/ FailRequest(c)
  PROVE  LedgerType'
<1>1. UNCHANGED <<log, balance, nonce, packing, flushing>>
  BY DEF OpenRequest, CheckRequest, CommitRequest, FailRequest, chain
<1>2. ASSUME NEW d \in Client
      PROVE  request'[d].stage \in {"new", "read", "write", "done", "failed"}
  <2> DEFINE r == request[d]
  <2>1. /\ r.stage \in {"new", "read", "write", "done", "failed"}
        /\ r = [stage |-> r.stage, balance |-> r.balance,
                value |-> r.value, conflict |-> r.conflict]
        /\ DOMAIN request = Client
    BY DEF LedgerType, LockInv, Prepared
  <2>2. CASE OpenRequest(c)
    <3> DEFINE n == Request[c].node
               v == IF Request[c].kind = "lock" THEN balance[n][Request[c].addr] ELSE 0
    <3>1. request'[d] = r \/ request'[d] = [r EXCEPT !.stage = "read", !.balance = v]
      BY <2>1, <2>2 DEF OpenRequest
    <3> HIDE DEF r, v
    <3> QED BY <2>1, <3>1
  <2>3. CASE CheckRequest(c)
    <3>1. PICK v : \/ request'[d] = r
                   \/ request'[d] = Closed("failed")
                   \/ request'[d] = [r EXCEPT !.stage = "write", !.balance = 0, !.value = v]
      BY <2>1, <2>3 DEF CheckRequest
    <3> HIDE DEF r
    <3>2. CASE request'[d] = [r EXCEPT !.stage = "write", !.balance = 0, !.value = v]
      <4>1. request'[d].stage = "write"
        BY <2>1, <3>2
      <4> QED BY <4>1
    <3> QED BY <2>1, <3>1, <3>2 DEF Closed, r
  <2>4. CASE CommitRequest(c)
    <3>1. \/ request'[d] = r
          \/ request'[d] = Closed("done")
          \/ request'[d] = [r EXCEPT !.conflict = TRUE]
      BY <2>1, <2>4 DEF CommitRequest
    <3> HIDE DEF r
    <3> QED BY <2>1, <3>1 DEF Closed
  <2>5. CASE FailRequest(c)
    BY <2>1, <2>5 DEF FailRequest, Closed
  <2> QED BY <2>2, <2>3, <2>4, <2>5
<1> QED BY <1>1, <1>2 DEF LedgerType

\* No action breaks the types.
LEMMA LedgerTypeInductive ==
  ASSUME LockInv, OrderInv, LedgerType, [Next]_vars
  PROVE  LedgerType'
<1>1. ASSUME NEW n \in Node, RefuseBlock(n) \/ Crash(n)
      PROVE  LedgerType'
  BY <1>1, HandlingType DEF RefuseBlock, Crash
<1>2. CASE Next
  BY <1>1, <1>2, PackingType, HandlingType, CommitType, ProposeType, RequestLedgerType DEF Next
<1>3. CASE UNCHANGED vars
  BY <1>3 DEF vars, chain, LedgerType
<1> QED BY <1>2, <1>3

\* How far nodes are.
Counts == applied \in [Node -> Nat] /\ height \in [Node -> Nat]

\* Heights and counts of handled entries stay numbers.
LEMMA CountsInductive ==
  ASSUME Counts, [Next]_vars
  PROVE  Counts'
<1>1. ASSUME NEW n \in Node, NEW k \in Nat, applied' = [applied EXCEPT ![n] = k]
      PROVE  applied' \in [Node -> Nat]
  BY <1>1 DEF Counts
<1>2. ASSUME NEW n \in Node, EndProcess(n)
      PROVE  Counts'
  <2>1. PICK k \in 0 .. applied[n] : applied' = [applied EXCEPT ![n] = k]
    BY <1>2 DEF EndProcess
  <2>2. k \in Nat
    BY DEF Counts
  <2> QED BY <1>1, <1>2, <2>1, <2>2 DEF Counts, EndProcess, chain
<1>3. ASSUME NEW n \in Node, SkipStaleBlock(n) \/ CommitBlock(n)
      PROVE  Counts'
  <2>1. applied[n] + 1 \in Nat /\ height[n] + 1 \in Nat
    BY DEF Counts
  <2> QED BY <1>1, <1>3, <2>1 DEF Counts, SkipStaleBlock, CommitBlock, chain
<1>4. ASSUME NEW n \in Node,
             \/ Pendings(n) \/ NewBlock(n) \/ Propose(n)
             \/ Discard(n) \/ AcceptBlock(n) \/ FlushScript(n)
      PROVE  UNCHANGED <<applied, height>>
  BY <1>4 DEF Pendings, NewBlock, Propose, Discard, AcceptBlock, FlushScript, chain
<1>5. ASSUME NEW c \in Client,
             OpenRequest(c) \/ CheckRequest(c) \/ CommitRequest(c) \/ FailRequest(c)
      PROVE  UNCHANGED <<applied, height>>
  BY <1>5 DEF OpenRequest, CheckRequest, CommitRequest, FailRequest, chain
<1>6. CASE Next
  <2>1. \/ UNCHANGED <<applied, height>>
        \/ \E n \in Node : EndProcess(n) \/ SkipStaleBlock(n) \/ CommitBlock(n)
    BY <1>4, <1>5, <1>6 DEF Next, RefuseBlock, Crash
  <2> QED BY <1>2, <1>3, <2>1 DEF Counts
<1> QED BY <1>6 DEF vars, chain, Counts

\* What is said of nodes, locks and the order of blocks.
AccountsInv == LockInv /\ NonceInv /\ LedgerType /\ Counts

\* All of the above holds in every state.
LEMMA AccountsInvCorrect == Spec => []AccountsInv
<1>1. Init => AccountsInv
  <2>1. Init => Counts
    BY DEF Init, Counts
  <2> QED BY <2>1, LockInitially, NonceInitially, LedgerTypeInitially DEF AccountsInv
<1>2. AccountsInv /\ [Next]_vars => AccountsInv'
  BY LockInductive, NonceInductive, LedgerTypeInductive, CountsInductive DEF AccountsInv, NonceInv
<1> QED BY <1>1, <1>2, PTL DEF Spec

\* Balances and locks are of the width, a node is never past the log, AddBlock
\* stays within the block (AddBlock, packBlock, SetLockBalance).
THEOREM TypeOKCorrect == Spec => []TypeOK
<1>1. ASSUME AccountsInv PROVE TypeOK
  <2>1. OrderInv /\ LockInv /\ LedgerType /\ Counts
    BY <1>1 DEF AccountsInv, NonceInv
  <2>2. applied \in [Node -> 0 .. Len(log)]
    BY <2>1 DEF Counts, OrderInv, NodeInv
  <2>3. ASSUME NEW n \in Node PROVE height[n] \in 0 .. MaxLog
    <3>1. height[n] \in Nat /\ \A h \in 1 .. height[n] : \E i \in 1 .. Len(log) : log[i].height = h
      BY <2>1 DEF OrderInv, NodeInv
    <3>2. Len(log) \in Nat /\ Len(log) <= MaxLog /\ MaxLog \in Nat
      BY <2>1, AccountsAssumption DEF OrderInv, LogType, LedgerType
    <3>3. CASE height[n] = 0
      BY <3>2, <3>3
    <3>4. CASE height[n] # 0
      <4>1. PICK i \in 1 .. Len(log) : log[i].height = height[n]
        BY <3>1, <3>4
      <4>2. height[n] <= i
        BY <2>1, <4>1 DEF LedgerType
      <4> QED BY <3>1, <3>2, <4>2
    <3> QED BY <3>3, <3>4
  <2>4. height \in [Node -> 0 .. MaxLog]
    BY <2>1, <2>3 DEF Counts
  <2> QED BY <2>1, <2>2, <2>4 DEF LockInv, LedgerType, Balances, Width, Nonces, Packs, TypeOK
<1> QED BY <1>1, AccountsInvCorrect, PTL

---------------------------------------------------------------------------
(***************************************************************************)
(* Balances follow from the height, except for the nodes' own addresses.   *)
(***************************************************************************)

\* at[h] is what a data base of height h has for the other addresses.
FollowsBlocks(at) ==
  /\ at \in [Nat -> Balances]
  /\ \A i \in 1 .. Len(log) : IsFirst(i) =>
       \A n \in Node : Same(After(n, at[log[i].height - 1], log[i]), at[log[i].height])
  /\ \A n \in Node : Same(balance[n], at[height[n]])

BalanceInv == \E at : FollowsBlocks(at)

\* Data bases begin with the same balances (blockchain.go:52).
LEMMA BalancesInitially == Init => BalanceInv
<1> SUFFICES ASSUME Init PROVE BalanceInv
  OBVIOUS
<1> DEFINE at == [h \in Nat |-> StartBalance]
<1>1. at \in [Nat -> Balances]
  BY AccountsAssumption DEF Balances, Width
<1>2. Len(log) = 0 /\ \A n \in Node : height[n] = 0 /\ balance[n] = StartBalance
  BY DEF Init
<1>3. FollowsBlocks(at)
  BY <1>1, <1>2 DEF FollowsBlocks, Same
<1> HIDE DEF at
<1> QED BY <1>3 DEF BalanceInv

\* The invariant looks at nothing else.
LEMMA BalancesKept ==
  ASSUME NEW at, FollowsBlocks(at), UNCHANGED <<log, height, balance>>
  PROVE  FollowsBlocks(at)'
  BY DEF FollowsBlocks, IsFirst

\* A commit makes what the block's height has, on any node.
LEMMA CommitBalances ==
  ASSUME OrderInv, LedgerType, NEW at, FollowsBlocks(at), NEW n \in Node, CommitBlock(n)
  PROVE  FollowsBlocks(at)'
<1> DEFINE k == applied[n] + 1
           h == height[n] + 1
           b == log[k]
<1>1. FollowsBlocks(at)
  OBVIOUS
<1>2. /\ height[n] \in Nat /\ k \in 1 .. Len(log) /\ b.height = h /\ IsFirst(k)
      /\ IsBlock(b) /\ Len(log) \in Nat
  <2>1. /\ height[n] \in Nat /\ Len(log) \in Nat
        /\ k \in 1 .. Len(log) /\ log[k].height = h
        /\ \A j \in 1 .. k - 1 : log[j].height \in Nat /\ log[j].height < h
    BY CommitsNext
  <2> QED BY <2>1 DEF IsFirst, LedgerType
<1>3. /\ UNCHANGED log
      /\ height' = [height EXCEPT ![n] = h]
      /\ balance' = [balance EXCEPT ![n] = After(n, balance[n], b)]
  BY DEF CommitBlock, NextBlock, After, ExecuteAll
<1> HIDE DEF k, b
<1>4. Same(After(n, at[height[n]], b), at[h])
  <2>1. b = log[k] /\ h - 1 = height[n]
    BY <1>2 DEF b
  <2> QED BY <1>1, <1>2, <2>1 DEF FollowsBlocks
<1>5. Same(After(n, balance[n], b), After(n, at[height[n]], b))
  <2>1. /\ balance[n] \in Balances /\ at[height[n]] \in Balances
        /\ Same(balance[n], at[height[n]])
    BY <1>1, <1>2 DEF LedgerType, FollowsBlocks
  <2> QED BY <1>2, <2>1, BlockAgrees
<1>6. ASSUME NEW m \in Node PROVE Same(balance'[m], at[height'[m]])
  <2>1. DOMAIN height = Node /\ DOMAIN balance = Node
    BY DEF OrderInv, LedgerType
  <2>2. CASE m = n
    BY <1>3, <1>4, <1>5, <2>1, <2>2 DEF Same
  <2>3. CASE m # n
    BY <1>1, <1>3, <2>1, <2>3 DEF FollowsBlocks
  <2> QED BY <2>2, <2>3
<1>7. FollowsBlocks(at)'
  BY <1>1, <1>3, <1>6 DEF FollowsBlocks, IsFirst
<1> QED BY <1>7

\* A proposal is a repetition, or decides the balances of a new height.
LEMMA ProposeBalances ==
  ASSUME OrderInv, LedgerType, NEW at, FollowsBlocks(at), NEW n \in Node, Propose(n)
  PROVE  \E next : Extends(next, at) /\ FollowsBlocks(next)'
<1>1. PICK S : log \in Seq(S)
  BY DEF OrderInv, LogType
<1>b. PICK b : b = packing[n].block
  OBVIOUS
<1>l. PICK l \in Nat : l = Len(log)
  BY <1>1
<1>2. /\ log' = Append(log, b) /\ UNCHANGED <<height, balance>>
      /\ IsBlock(b) /\ b.height \in Nat \ {0}
  BY <1>b DEF Propose, chain, LedgerType, Packs, OrderInv, NodeInv
<1>3. Len(log') = l + 1 /\ log'[l + 1] = b /\ \A i \in 1 .. l : log'[i] = log[i]
  <2>1. log \in Seq(S \cup {b}) /\ b \in S \cup {b}
    BY <1>1
  <2> QED BY <1>l, <1>2, <2>1
<1>4. FollowsBlocks(at)
  OBVIOUS
<1>5. \A i \in 1 .. l : IsFirst(i)' <=> IsFirst(i)
  BY <1>3 DEF IsFirst
<1>6. CASE \E j \in 1 .. l : log[j].height = b.height
  <2>1. ~IsFirst(l + 1)'
    BY <1>3, <1>6 DEF IsFirst
  <2>2. ASSUME NEW i \in 1 .. l + 1, IsFirst(i)'
        PROVE  i \in 1 .. l /\ IsFirst(i)
    BY <1>5, <2>1, <2>2
  <2>3. \A i \in 1 .. Len(log') : IsFirst(i)' =>
          \A m \in Node : Same(After(m, at[log'[i].height - 1], log'[i]), at[log'[i].height])
    BY <1>l, <1>3, <1>4, <2>2 DEF FollowsBlocks
  <2>4. FollowsBlocks(at)'
    BY <1>2, <1>4, <2>3 DEF FollowsBlocks
  <2> QED BY <2>4 DEF Extends
<1>7. CASE \A j \in 1 .. l : log[j].height # b.height
  <2> DEFINE h == b.height
             next == [at EXCEPT ![h] = After(n, at[h - 1], b)]
  <2>1. h \in Nat \ {0} /\ h - 1 \in Nat /\ h - 1 # h /\ at \in [Nat -> Balances]
    BY <1>2, <1>4 DEF FollowsBlocks
  <2>2. \A m \in Node : /\ After(m, at[h - 1], b) \in Balances
                        /\ Same(After(m, at[h - 1], b), After(n, at[h - 1], b))
    BY <1>2, <2>1, BlockAgrees DEF Same
  <2>3. /\ next \in [Nat -> Balances] /\ next[h] = After(n, at[h - 1], b)
        /\ \A g \in Nat \ {h} : next[g] = at[g]
    BY <2>1, <2>2
  <2>4. /\ \A i \in 1 .. l : log[i].height \in Nat /\ log[i].height < h
        /\ \A m \in Node : height[m] \in Nat /\ height[m] < h
    BY <1>l, <1>2, <1>7, NewHeight
  <2> HIDE DEF next
  <2>5. ASSUME NEW i \in 1 .. l + 1, IsFirst(i)', NEW m \in Node
        PROVE  Same(After(m, next[log'[i].height - 1], log'[i]), next[log'[i].height])
    <3>1. CASE i = l + 1
      <4>1. log'[i] = b /\ next[h - 1] = at[h - 1]
        BY <1>3, <2>1, <2>3, <3>1
      <4> QED BY <2>2, <2>3, <4>1
    <3>2. CASE i \in 1 .. l
      <4>1. log'[i] = log[i] /\ IsFirst(i)
        BY <1>3, <1>5, <2>5, <3>2
      <4>2. Same(After(m, at[log[i].height - 1], log[i]), at[log[i].height])
        BY <1>l, <1>4, <3>2, <4>1 DEF FollowsBlocks
      <4>3. log[i].height \in Nat \ {h} /\ log[i].height - 1 \in Nat \ {h}
        <5>1. log[i].height \in Nat \ {0}
          BY <1>l, <3>2 DEF OrderInv, LogType
        <5> QED BY <2>1, <2>4, <3>2, <5>1
      <4> QED BY <2>3, <4>1, <4>2, <4>3
    <3> QED BY <3>1, <3>2
  <2>6. \A m \in Node : Same(balance'[m], next[height'[m]])
    <3> TAKE m \in Node
    <3>1. next[height[m]] = at[height[m]]
      BY <2>3, <2>4
    <3> QED BY <1>2, <1>4, <3>1 DEF FollowsBlocks
  <2>7. FollowsBlocks(next)'
    BY <1>3, <2>3, <2>5, <2>6 DEF FollowsBlocks
  <2>8. \A g : Reached(g) => next[g] = at[g]
    <3> TAKE g
    <3> HAVE Reached(g)
    <3>1. g \in Nat \ {h}
      BY <2>1, <2>4 DEF Reached
    <3> QED BY <2>3, <3>1
  <2> QED BY <2>7, <2>8 DEF Extends
<1> QED BY <1>l, <1>6, <1>7

\* No action breaks the invariant of balances.
LEMMA BalanceInductive ==
  ASSUME OrderInv, LedgerType, BalanceInv, [Next]_vars
  PROVE  BalanceInv'
<1>1. ASSUME NEW n \in Node,
             \/ Pendings(n) \/ NewBlock(n) \/ Discard(n) \/ SkipStaleBlock(n) \/ AcceptBlock(n)
             \/ FlushScript(n) \/ RefuseBlock(n) \/ Crash(n)
      PROVE  UNCHANGED <<log, height, balance>>
  BY <1>1 DEF Pendings, NewBlock, Discard, SkipStaleBlock, AcceptBlock, FlushScript, RefuseBlock,
              Crash, EndProcess, chain
<1>2. ASSUME NEW c \in Client,
             OpenRequest(c) \/ CheckRequest(c) \/ CommitRequest(c) \/ FailRequest(c)
      PROVE  UNCHANGED <<log, height, balance>>
  BY <1>2 DEF OpenRequest, CheckRequest, CommitRequest, FailRequest, chain
<1>b. PICK at : FollowsBlocks(at)
  BY DEF BalanceInv
<1>3. CASE Next
  <2>1. \/ UNCHANGED <<log, height, balance>>
        \/ \E n \in Node : CommitBlock(n) \/ Propose(n)
    BY <1>1, <1>2, <1>3 DEF Next
  <2>2. \E next : FollowsBlocks(next)'
    BY <1>b, <2>1, BalancesKept, CommitBalances, ProposeBalances
  <2> QED BY <2>2 DEF BalanceInv
<1>4. CASE UNCHANGED vars
  <2>1. FollowsBlocks(at)'
    BY <1>4, <1>b, BalancesKept DEF vars, chain
  <2> QED BY <2>1 DEF BalanceInv
<1> QED BY <1>3, <1>4

\* Data bases of one height have the same balances except for the nodes' own
\* addresses, whatever was packed, refused or replayed (AddBlock, setAccount,
\* setMinerAccount, setMinerFee).
THEOREM BalancesAgreeCorrect == Spec => []BalancesAgree
<1>1. AccountsInv /\ BalanceInv => BalancesAgree
  BY DEF BalanceInv, FollowsBlocks, Same, Public, BalancesAgree
<1>2. Init => BalanceInv
  BY BalancesInitially
<1>3. AccountsInv /\ BalanceInv /\ [Next]_vars => BalanceInv'
  BY BalanceInductive DEF AccountsInv, NonceInv
<1> QED BY <1>1, <1>2, <1>3, AccountsInvCorrect, PTL DEF Spec

---------------------------------------------------------------------------
(***************************************************************************)
(* The order of nonces.                                                    *)
(*                                                                         *)
(* A block is packed for the nonces of some height, which need not be that *)
(* of the data base it is committed to.  Within the block the nonces of a  *)
(* sender rise, and the check at the commit asks that none is less than    *)
(* the data base's: so they go on from what the chain has had.             *)
(***************************************************************************)

\* The nonces of each sender rise (Pendings).
Rises(txs) ==
  \A j, k \in DOMAIN txs : j < k /\ txs[j].from = txs[k].from => txs[j].nonce < txs[k].nonce

\* What a block does to the nonces of an address: its transactions begin where
\* the nonce was, rise, and leave the number after the last.
Takes(base, after, txs) ==
  \A a \in Addr :
    /\ base[a] <= after[a]
    /\ \A j \in DOMAIN txs : txs[j].from = a =>
         base[a] <= txs[j].nonce /\ txs[j].nonce < after[a]
    /\ after[a] = base[a] \/ \E j \in DOMAIN txs : txs[j].from = a /\ txs[j].nonce + 1 = after[a]
    /\ \A j, k \in DOMAIN txs : j < k /\ txs[j].from = a /\ txs[k].from = a =>
         txs[j].nonce < txs[k].nonce

\* Rising nonces that pass the check are taken so (verify, set_nonce).
LEMMA RiseTakes ==
  ASSUME NEW n \in Nat, NEW txs, DOMAIN txs = 1 .. n, \A i \in 1 .. n : IsTransaction(txs[i]),
         NEW base \in Nonces, Rises(txs), \A i \in 1 .. n : base[txs[i].from] <= txs[i].nonce
  PROVE  SetNonces(base, txs) \in Nonces /\ Takes(base, SetNonces(base, txs), txs)
<1>1. PICK h : SetsNonces(h, n, base, txs)
  BY SetNoncesFold
<1>0. SetNonces(base, txs) \in Nonces /\ h[n] = SetNonces(base, txs) /\ h[0] = base
  BY <1>1 DEF SetsNonces
<1> DEFINE Ended(k, a) == \E j \in 1 .. k : txs[j].from = a /\ txs[j].nonce + 1 = h[k][a]
           T == {k \in 0 .. n : \A a \in Addr :
                   /\ base[a] <= h[k][a]
                   /\ \A j \in 1 .. k : txs[j].from = a => txs[j].nonce < h[k][a]
                   /\ h[k][a] = base[a] \/ Ended(k, a)}
<1>2. 0 \in T
  BY <1>0 DEF Nonces
<1>3. ASSUME NEW k \in 0 .. n - 1, k \in T PROVE k + 1 \in T
  <2> SUFFICES ASSUME NEW a \in Addr
               PROVE  /\ base[a] <= h[k + 1][a]
                      /\ \A j \in 1 .. k + 1 : txs[j].from = a => txs[j].nonce < h[k + 1][a]
                      /\ h[k + 1][a] = base[a] \/ Ended(k + 1, a)
    OBVIOUS
  <2>1. k + 1 \in 1 .. n /\ (k + 1) - 1 = k /\ h[k] \in Nonces /\ k \in Nat
    BY <1>1 DEF SetsNonces
  <2>2. h[k + 1] = [h[k] EXCEPT ![txs[k + 1].from] = txs[k + 1].nonce + 1]
    BY <1>1, <2>1 DEF SetsNonces, SetNonce
  <2>3. base[a] \in Nat /\ h[k][a] \in Nat /\ \A j \in 1 .. n : txs[j].nonce \in Nat
    BY <2>1 DEF Nonces, IsTransaction
  <2>4. /\ base[a] <= h[k][a]
        /\ \A j \in 1 .. k : txs[j].from = a => txs[j].nonce < h[k][a]
        /\ h[k][a] = base[a] \/ Ended(k, a)
    BY <1>3
  <2>5. CASE txs[k + 1].from = a
    <3>1. h[k + 1][a] = txs[k + 1].nonce + 1
      BY <2>1, <2>2, <2>5 DEF Nonces
    <3>2. base[a] <= txs[k + 1].nonce
      BY <2>1, <2>5
    <3>3. ASSUME NEW j \in 1 .. k + 1, txs[j].from = a PROVE txs[j].nonce < h[k + 1][a]
      <4>1. CASE j = k + 1
        BY <2>1, <2>3, <3>1, <4>1
      <4>2. CASE j # k + 1
        <5>1. j \in 1 .. n /\ j < k + 1
          BY <2>1, <4>2
        <5>2. txs[j].nonce < txs[k + 1].nonce
          BY <2>1, <2>5, <3>3, <5>1 DEF Rises
        <5> QED BY <2>1, <2>3, <3>1, <5>1, <5>2
      <4> QED BY <4>1, <4>2
    <3>4. Ended(k + 1, a)
      <4>1. k + 1 \in 1 .. k + 1
        BY <2>1
      <4> QED BY <2>5, <3>1, <4>1
    <3>5. base[a] <= h[k + 1][a]
      BY <2>1, <2>3, <3>1, <3>2
    <3> HIDE DEF Ended
    <3> QED BY <3>3, <3>4, <3>5
  <2>6. CASE txs[k + 1].from # a
    <3>1. h[k + 1][a] = h[k][a]
      BY <2>1, <2>2, <2>6 DEF Nonces
    <3>2. \A j \in 1 .. k + 1 : txs[j].from = a => j \in 1 .. k
      BY <2>1, <2>6
    <3>3. \A j \in 1 .. k : j \in 1 .. k + 1
      BY <2>1
    <3>4. h[k + 1][a] = base[a] \/ Ended(k + 1, a)
      BY <2>4, <3>1, <3>3
    <3> HIDE DEF Ended
    <3> QED BY <2>4, <3>1, <3>2, <3>4
  <2> QED BY <2>5, <2>6
<1>4. n \in T
  <2> HIDE DEF T
  <2>1. 0 .. n \subseteq T
    BY <1>2, <1>3, Induction
  <2> QED BY <2>1
<1>5. ASSUME NEW a \in Addr
      PROVE  /\ base[a] <= h[n][a]
             /\ \A j \in 1 .. n : txs[j].from = a => txs[j].nonce < h[n][a]
             /\ h[n][a] = base[a] \/ Ended(n, a)
  BY <1>4
<1> HIDE DEF T
<1>6. Takes(base, h[n], txs)
  BY <1>5 DEF Takes, Rises
<1> QED BY <1>0, <1>6

---------------------------------------------------------------------------
(***************************************************************************)
(* Where blocks come from.                                                 *)
(***************************************************************************)

\* Nonces of the heights that data bases have, and the log's blocks.
ChainRuns(at) ==
  /\ \A a \in Addr : at[0][a] = 1
  /\ \A h : Reached(h) => at[h] \in Nonces
  /\ \A g \in Nat : \A h : g <= h /\ Reached(h) => \A a \in Addr : at[g][a] <= at[h][a]
  /\ \A i \in 1 .. Len(log) : Rises(log[i].txs)
  /\ \A i \in 1 .. Len(log) : IsFirst(i) /\ Reached(log[i].height) =>
       Takes(at[log[i].height - 1], at[log[i].height], log[i].txs)

\* Blocks that a node packs, and the one that has passed its checks.
NodeRuns(at, n) ==
  /\ packing[n].stage = "pending" => Rises(packing[n].txs)
  /\ packing[n].stage = "packed" => Rises(packing[n].block.txs)
  /\ flushing[n] # 0 =>
       \A i \in DOMAIN NextBlock(n).txs :
         nonce[n][NextBlock(n).txs[i].from] <= NextBlock(n).txs[i].nonce

Sequenced(at) == FollowsLog(at) /\ ChainRuns(at) /\ \A n \in Node : NodeRuns(at, n)
SequenceInv == \E at : Sequenced(at)

\* All of what is said of the data bases but for balances.
DataInv == OrderInv /\ LedgerType

\* Nonces begin with 1 (blockchain.go:52).
LEMMA SequenceInitially == Init => SequenceInv
<1> SUFFICES ASSUME Init PROVE SequenceInv
  OBVIOUS
<1> DEFINE at == [h \in Nat |-> [a \in Addr |-> 1]]
<1>1. Len(log) = 0 /\ \A h : Reached(h) => h \in Nat
  BY DEF Init, Reached
<1>2. FollowsLog(at)
  BY <1>1 DEF Init, FollowsLog
<1>3. ChainRuns(at)
  <2>1. \A h \in Nat : at[h] \in Nonces
    BY DEF Nonces
  <2>2. \A h \in Nat : \A a \in Addr : at[h][a] = 1
    OBVIOUS
  <2> HIDE DEF at
  <2> QED BY <1>1, <2>1, <2>2 DEF ChainRuns
<1>4. \A n \in Node : NodeRuns(at, n)
  BY DEF Init, NodeRuns, Idle
<1> HIDE DEF at
<1> QED BY <1>2, <1>3, <1>4 DEF SequenceInv, Sequenced

\* Steps of one node that leave log and data bases alone.
LEMMA SequenceKept ==
  ASSUME NEW at, Sequenced(at), NEW n \in Node, UNCHANGED <<log, height, nonce>>,
         \A m \in Node \ {n} : /\ applied'[m] = applied[m] /\ flushing'[m] = flushing[m]
                               /\ packing'[m] = packing[m],
         NodeRuns(at, n)'
  PROVE  Sequenced(at)'
<1>1. \A h : Reached(h)' <=> Reached(h)
  BY DEF Reached
<1>3. ChainRuns(at)'
  BY <1>1 DEF Sequenced, ChainRuns, IsFirst
<1>4. ASSUME NEW m \in Node \ {n} PROVE NodeRuns(at, m)'
  BY DEF Sequenced, NodeRuns, NextBlock
<1>5. FollowsLog(at)'
  BY FollowsKept DEF Sequenced
<1> QED BY <1>3, <1>4, <1>5 DEF Sequenced

\* What two transactions share that differ in the root only.
Alike(t, tx) ==
  /\ t.from = tx.from /\ t.to = tx.to /\ t.amount = tx.amount /\ t.fee = tx.fee
  /\ t.nonce = tx.nonce /\ t.script = tx.script

\* But for the root, Pendings leaves the transactions of the pool as they are.
LEMMA PendingsTakes ==
  ASSUME DataInv, NEW n \in Node, Pendings(n)
  PROVE  \E t, txs, k :
           /\ packing'[n] = [stage |-> "pending", seen |-> height[n], txs |-> t]
           /\ k \in Nat /\ DOMAIN t = 1 .. k /\ DOMAIN txs = 1 .. k
           /\ Selectable(n, txs)
           /\ \A i \in 1 .. k : txs[i] \in Txs /\ Alike(t[i], txs[i])
<1>2. DOMAIN packing = Node /\ BlockLimit \in Nat
  BY AccountsAssumption DEF DataInv, OrderInv
<1>3. PICK txs \in BoundedSeq(Pool, BlockLimit) :
        /\ Selectable(n, txs)
        /\ packing'[n] = [stage |-> "pending", seen |-> height[n],
                          txs |-> [i \in DOMAIN txs |-> WithRoot(n, txs[i])]]
  BY <1>2 DEF Pendings
<1>4. PICK k \in 0 .. BlockLimit : txs \in [1 .. k -> Pool]
  BY DEF BoundedSeq, SeqOf
<1>t. PICK t : t = [i \in DOMAIN txs |-> WithRoot(n, txs[i])]
  OBVIOUS
<1>5. DOMAIN t = 1 .. k /\ DOMAIN txs = 1 .. k /\ k \in Nat
  BY <1>2, <1>4, <1>t
<1>6. ASSUME NEW i \in 1 .. k
      PROVE  txs[i] \in Txs /\ Alike(t[i], txs[i])
  <2> DEFINE tx == txs[i]
             root == Root(New(cdb[n], tx.script, tx.from))
  <2>1. tx \in Txs
    BY <1>4 DEF Pool
  <2>2. {"from", "to", "amount", "fee", "nonce", "script"} \subseteq DOMAIN tx
    BY <2>1, AccountsAssumption
  <2>3. t[i] = [tx EXCEPT !.root = root]
    BY <1>5, <1>t DEF WithRoot
  <2> HIDE DEF tx, root
  <2>4. Alike(t[i], tx)
    BY <2>2, <2>3 DEF Alike
  <2> QED BY <2>1, <2>4 DEF tx
<1>9. packing'[n] = [stage |-> "pending", seen |-> height[n], txs |-> t]
  BY <1>3, <1>t
<1> QED BY <1>3, <1>5, <1>6, <1>9

\* What Pendings takes has rising nonces.
LEMMA PendingsRises ==
  ASSUME DataInv, NEW n \in Node, Pendings(n)
  PROVE  packing'[n].stage = "pending" /\ Rises(packing'[n].txs)
<1>1. PICK t, txs, k :
        /\ packing'[n] = [stage |-> "pending", seen |-> height[n], txs |-> t]
        /\ k \in Nat /\ DOMAIN t = 1 .. k /\ DOMAIN txs = 1 .. k
        /\ Selectable(n, txs)
        /\ \A i \in 1 .. k : txs[i] \in Txs /\ Alike(t[i], txs[i])
  BY PendingsTakes
<1>2. ASSUME NEW i \in 1 .. k, NEW j \in 1 .. k, i < j, t[i].from = t[j].from
      PROVE  t[i].nonce < t[j].nonce
  <2>1. txs[i].from = txs[j].from
    BY <1>1, <1>2 DEF Alike
  <2>2. i \in Before(txs, j)
    BY <1>1, <1>2, <2>1 DEF Before
  <2>3. txs[i].nonce < txs[j].nonce
    BY <1>1, <2>2 DEF Selectable
  <2> QED BY <1>1, <2>3 DEF Alike
<1>3. packing'[n].stage = "pending" /\ packing'[n].txs = t
  BY <1>1
<1> QED BY <1>1, <1>2, <1>3 DEF Rises

\* What is pending rises.
LEMMA PendingsSequence ==
  ASSUME DataInv, NEW at, Sequenced(at), NEW n \in Node, Pendings(n)
  PROVE  Sequenced(at)'
<1>1. Sequenced(at)
  OBVIOUS
<1>2. /\ DOMAIN packing = Node
      /\ UNCHANGED <<log, height, nonce, applied, flushing>> /\ flushing[n] = 0
      /\ \A m \in Node \ {n} : packing'[m] = packing[m]
  BY DEF DataInv, OrderInv, NodeInv, Pendings, chain
<1>3. packing'[n].stage = "pending" /\ Rises(packing'[n].txs)
  BY PendingsRises
<1>5. NodeRuns(at, n)'
  BY <1>2, <1>3 DEF NodeRuns
<1> QED BY <1>1, <1>2, <1>5, SequenceKept

\* Steps that only pass a block on.
LEMMA HandlingSequence ==
  ASSUME DataInv, NEW at, Sequenced(at), NEW n \in Node,
         \/ NewBlock(n) \/ Discard(n)
         \/ SkipStaleBlock(n) \/ AcceptBlock(n) \/ FlushScript(n) \/ EndProcess(n)
  PROVE  Sequenced(at)'
<1>1. Sequenced(at)
  OBVIOUS
<1>2. /\ DOMAIN packing = Node /\ DOMAIN flushing = Node /\ DOMAIN applied = Node
      /\ UNCHANGED <<log, height, nonce>> /\ height[n] \in Nat
  BY DEF DataInv, OrderInv, NodeInv, NewBlock, Discard, SkipStaleBlock, AcceptBlock, FlushScript,
         EndProcess, chain
<1>3. \A m \in Node \ {n} : /\ applied'[m] = applied[m] /\ flushing'[m] = flushing[m]
                            /\ packing'[m] = packing[m]
  BY <1>2 DEF NewBlock, Discard, SkipStaleBlock, AcceptBlock, FlushScript, EndProcess
<1>5. NodeRuns(at, n)
  BY <1>1 DEF Sequenced
<1>6. NodeRuns(at, n)'
  <2>1. CASE NewBlock(n)
    <3>t. PICK txs : txs = packing[n].txs
      OBVIOUS
    <3>1. /\ packing[n].stage = "pending" /\ flushing'[n] = 0
          /\ packing'[n].stage = "packed" /\ packing'[n].block.txs = txs
      BY <1>2, <2>1, <3>t DEF NewBlock
    <3>2. Rises(txs)
      BY <1>5, <3>1, <3>t DEF NodeRuns
    <3> QED BY <3>1, <3>2 DEF NodeRuns
  <2>2. CASE Discard(n) \/ EndProcess(n)
    <3>1. /\ packing'[n] = Idle
          /\ Discard(n) => UNCHANGED <<flushing, applied>>
          /\ EndProcess(n) => flushing'[n] = 0
      BY <1>2, <2>2 DEF Discard, EndProcess
    <3> QED BY <1>2, <1>5, <2>2, <3>1 DEF NodeRuns, Idle, NextBlock
  <2>3. CASE SkipStaleBlock(n)
    <3>1. UNCHANGED <<packing, flushing>> /\ flushing[n] = 0
      BY <2>3 DEF SkipStaleBlock, HasBlock
    <3> QED BY <1>2, <1>5, <3>1 DEF NodeRuns
  <2>4. CASE AcceptBlock(n)
    <3>1. UNCHANGED <<packing, applied>>
      BY <2>4 DEF AcceptBlock
    <3>2. \A i \in DOMAIN NextBlock(n).txs :
            nonce[n][NextBlock(n).txs[i].from] <= NextBlock(n).txs[i].nonce
      BY <2>4 DEF AcceptBlock, Acceptable, Verify
    <3> QED BY <1>2, <1>5, <3>1, <3>2 DEF NodeRuns, NextBlock
  <2>5. CASE FlushScript(n)
    <3>1. UNCHANGED <<packing, applied>> /\ flushing[n] # 0
      BY <2>5 DEF FlushScript
    <3> QED BY <1>2, <1>5, <3>1 DEF NodeRuns, NextBlock
  <2> QED BY <2>1, <2>2, <2>3, <2>4, <2>5
<1> QED BY <1>1, <1>2, <1>3, <1>6, SequenceKept

\* A commit takes the block's nonces.
LEMMA CommitSequence ==
  ASSUME DataInv, NEW at, Sequenced(at), NEW n \in Node, CommitBlock(n)
  PROVE  Sequenced(at)'
<1>1. Sequenced(at)
  OBVIOUS
<1>k. PICK k : k = applied[n] + 1
  OBVIOUS
<1>h. PICK h : h = height[n] + 1
  OBVIOUS
<1>t. PICK txs : txs = log[k].txs
  OBVIOUS
<1>2. /\ height[n] \in Nat /\ h \in Nat /\ h - 1 = height[n] /\ Len(log) \in Nat
      /\ k \in 1 .. Len(log) /\ log[k].height = h /\ IsFirst(k)
      /\ \A i \in 1 .. Len(log) : log[i].height \in Nat \ {0}
  <2>1. /\ height[n] \in Nat /\ Len(log) \in Nat
        /\ k \in 1 .. Len(log) /\ log[k].height = h
        /\ \A j \in 1 .. k - 1 : log[j].height \in Nat /\ log[j].height < h
    BY <1>k, <1>h, CommitsNext DEF DataInv
  <2> QED BY <1>h, <2>1 DEF IsFirst, DataInv, OrderInv, LogType
<1>3. /\ UNCHANGED <<log, packing>> /\ flushing[n] # 0
      /\ height' = [height EXCEPT ![n] = h]
      /\ applied' = [applied EXCEPT ![n] = k]
      /\ flushing' = [flushing EXCEPT ![n] = 0]
      /\ nonce' = [nonce EXCEPT ![n] = SetNonces(nonce[n], txs)]
  BY <1>k, <1>h, <1>t DEF CommitBlock, NextBlock
<1>4. PICK l \in Nat : DOMAIN txs = 1 .. l /\ \A i \in 1 .. l : IsTransaction(txs[i])
  <2>1. PICK l \in 0 .. BlockLimit :
          DOMAIN txs = 1 .. l /\ \A i \in 1 .. l : IsTransaction(txs[i])
    BY <1>2, <1>t DEF DataInv, LedgerType, IsBlock, Transactions
  <2>2. l \in Nat
    BY AccountsAssumption
  <2> QED BY <2>1, <2>2
<1>5. /\ Reached(height[n]) /\ at[height[n]] = nonce[n] /\ nonce[n] \in Nonces
      /\ at[h] = SetNonces(nonce[n], txs)
  <2>1. Reached(height[n]) /\ at[height[n]] = nonce[n]
    BY <1>1, <1>2 DEF Sequenced, FollowsLog, Reached
  <2>2. at[log[k].height] = SetNonces(at[log[k].height - 1], log[k].txs)
    BY <1>1, <1>2 DEF Sequenced, FollowsLog
  <2>3. at[h] = SetNonces(at[height[n]], txs)
    BY <1>2, <1>t, <2>2
  <2> QED BY <2>1, <2>3 DEF DataInv, LedgerType
<1>6. Rises(txs) /\ \A i \in 1 .. l : nonce[n][txs[i].from] <= txs[i].nonce
  <2>1. Rises(txs)
    BY <1>1, <1>2, <1>t DEF Sequenced, ChainRuns
  <2>2. \A i \in 1 .. l : nonce[n][txs[i].from] <= txs[i].nonce
    BY <1>1, <1>3, <1>4, <1>k, <1>t DEF Sequenced, NodeRuns, NextBlock
  <2> QED BY <2>1, <2>2
<1>7. at[h] \in Nonces /\ Takes(nonce[n], at[h], txs)
  BY <1>4, <1>5, <1>6, RiseTakes
<1>8. /\ \A g : Reached(g) => Reached(g)'
      /\ \A g : Reached(g)' => Reached(g) \/ g = h
  <2>0. DOMAIN height = Node /\ \A m \in Node : height[m] \in Nat
    BY DEF DataInv, OrderInv, NodeInv
  <2>1. ASSUME NEW g, Reached(g) PROVE Reached(g)'
    <3>1. PICK m \in Node : g \in Nat /\ g <= height[m]
      BY <2>1 DEF Reached
    <3>2. height[m] <= height'[m]
      BY <1>2, <1>3, <1>h, <2>0
    <3> QED BY <1>2, <1>3, <2>0, <3>1, <3>2 DEF Reached
  <2>2. ASSUME NEW g, Reached(g)', ~Reached(g) PROVE g = h
    <3>1. PICK m \in Node : g \in Nat /\ g <= height'[m]
      BY <2>2 DEF Reached
    <3>2. ~(g <= height[m]) /\ ~(g <= height[n])
      BY <2>2, <3>1 DEF Reached
    <3>3. m = n /\ g <= h
      BY <1>2, <1>3, <2>0, <3>1, <3>2
    <3> QED BY <1>2, <1>h, <3>1, <3>2, <3>3
  <2> QED BY <2>1, <2>2
<1>10. ChainRuns(at)'
  <2>1. \A a \in Addr : at[0][a] = 1
    BY <1>1 DEF Sequenced, ChainRuns
  <2>2. \A g : Reached(g)' => at[g] \in Nonces
    BY <1>1, <1>7, <1>8 DEF Sequenced, ChainRuns
  <2>3. ASSUME NEW g \in Nat, NEW x, g <= x, Reached(x)', NEW a \in Addr
        PROVE  at[g][a] <= at[x][a]
    <3>1. CASE Reached(x)
      BY <1>1, <2>3, <3>1 DEF Sequenced, ChainRuns
    <3>2. CASE x = h /\ g = h
      <4>1. at[h][a] \in Nat
        BY <1>7 DEF Nonces
      <4> QED BY <3>2, <4>1
    <3>3. CASE x = h /\ g # h
      <4>1. g <= height[n] /\ Reached(g)
        BY <1>2, <1>h, <2>3, <3>3 DEF Reached
      <4>2. at[g][a] <= nonce[n][a] /\ at[g] \in Nonces
        BY <1>1, <1>5, <4>1 DEF Sequenced, ChainRuns
      <4>3. nonce[n][a] <= at[h][a]
        BY <1>7 DEF Takes
      <4>4. at[g][a] \in Nat /\ nonce[n][a] \in Nat /\ at[h][a] \in Nat
        BY <1>5, <1>7, <4>2 DEF Nonces
      <4> QED BY <3>3, <4>2, <4>3, <4>4
    <3> QED BY <1>8, <2>3, <3>1, <3>2, <3>3
  <2>4. \A i \in 1 .. Len(log) : Rises(log[i].txs)
    BY <1>1 DEF Sequenced, ChainRuns
  <2>5. ASSUME NEW i \in 1 .. Len(log), IsFirst(i), Reached(log[i].height)'
        PROVE  Takes(at[log[i].height - 1], at[log[i].height], log[i].txs)
    <3>1. CASE Reached(log[i].height)
      BY <1>1, <2>5, <3>1 DEF Sequenced, ChainRuns
    <3>2. CASE log[i].height = h
      <4>1. i = k
        BY <1>2, <2>5, <3>2 DEF IsFirst
      <4> QED BY <1>2, <1>5, <1>7, <1>t, <4>1
    <3> QED BY <1>3, <1>8, <2>5, <3>1, <3>2
  <2>6. \A i \in 1 .. Len(log) : IsFirst(i)' <=> IsFirst(i)
    BY <1>3 DEF IsFirst
  <2> QED BY <1>3, <2>1, <2>2, <2>3, <2>4, <2>5, <2>6 DEF ChainRuns
<1>11. ASSUME NEW m \in Node PROVE NodeRuns(at, m)'
  <2>1. /\ NodeRuns(at, m) /\ DOMAIN height = Node /\ DOMAIN flushing = Node
        /\ DOMAIN applied = Node /\ DOMAIN nonce = Node
    BY <1>1 DEF Sequenced, DataInv, OrderInv
  <2>2. packing[m].stage = "pending" => Rises(packing[m].txs)
    BY <2>1 DEF NodeRuns
  <2>3. packing[m].stage = "packed" => Rises(packing[m].block.txs)
    BY <2>1 DEF NodeRuns
  <2>4. flushing'[m] # 0 =>
          \A i \in DOMAIN NextBlock(m)'.txs :
            nonce'[m][NextBlock(m)'.txs[i].from] <= NextBlock(m)'.txs[i].nonce
    <3>1. CASE m = n
      BY <1>3, <2>1, <3>1
    <3>2. CASE m # n
      <4>1. NextBlock(m)' = NextBlock(m) /\ nonce'[m] = nonce[m] /\ flushing'[m] = flushing[m]
        BY <1>3, <2>1, <3>2 DEF NextBlock
      <4> QED BY <2>1, <4>1 DEF NodeRuns
    <3> QED BY <3>1, <3>2
  <2> QED BY <1>3, <2>2, <2>3, <2>4 DEF NodeRuns
<1>12. FollowsLog(at)'
  BY <1>1, CommitFollows DEF Sequenced, DataInv
<1> QED BY <1>10, <1>11, <1>12 DEF Sequenced

\* A proposal adds a block that no data base has.
LEMMA ProposeSequence ==
  ASSUME DataInv, NEW at, Sequenced(at), NEW n \in Node, Propose(n)
  PROVE  \E next : Extends(next, at) /\ Sequenced(next)'
<1>1. Sequenced(at)
  OBVIOUS
<1>2. PICK next : Extends(next, at) /\ FollowsLog(next)'
  BY <1>1, ProposeFollows DEF Sequenced, DataInv
<1>3. PICK S : log \in Seq(S)
  BY DEF DataInv, OrderInv, LogType
<1>b. PICK b : b = packing[n].block
  OBVIOUS
<1>l. PICK l \in Nat : l = Len(log)
  BY <1>3
<1>4. /\ log' = Append(log, b) /\ UNCHANGED <<height, nonce, applied, flushing>>
      /\ packing' = [packing EXCEPT ![n] = Idle]
      /\ packing[n].stage = "packed" /\ b.height \in Nat \ {0}
      /\ Rises(b.txs)
  BY <1>1, <1>b DEF Propose, chain, DataInv, OrderInv, NodeInv, Sequenced, NodeRuns
<1>5. Len(log') = l + 1 /\ log'[l + 1] = b /\ \A i \in 1 .. l : log'[i] = log[i]
  <2>1. log \in Seq(S \cup {b}) /\ b \in S \cup {b}
    BY <1>3
  <2> QED BY <1>l, <1>4, <2>1
<1>6. \A h : Reached(h)' <=> Reached(h)
  BY <1>4 DEF Reached
<1>8. \A g, h : g \in Nat /\ g <= h /\ Reached(h) => Reached(g)
  <2> TAKE g, h
  <2> HAVE g \in Nat /\ g <= h /\ Reached(h)
  <2>1. PICK m \in Node : h \in Nat /\ h <= height[m]
    BY DEF Reached
  <2>2. height[m] \in Nat
    BY DEF DataInv, OrderInv, NodeInv
  <2>3. g <= height[m]
    BY <2>1, <2>2
  <2> QED BY <2>3 DEF Reached
<1>9. ChainRuns(next)'
  <2>1. \A a \in Addr : next[0][a] = 1
    <3>1. height[n] \in Nat
      BY DEF DataInv, OrderInv, NodeInv
    <3>2. Reached(0)
      BY <3>1 DEF Reached
    <3> QED BY <1>1, <1>2, <3>2 DEF Extends, Sequenced, ChainRuns
  <2>2. \A h : Reached(h)' => next[h] \in Nonces
    BY <1>1, <1>2, <1>6 DEF Extends, Sequenced, ChainRuns
  <2>3. ASSUME NEW g \in Nat, NEW h, g <= h, Reached(h)', NEW a \in Addr
        PROVE  next[g][a] <= next[h][a]
    <3>1. Reached(g) /\ Reached(h)
      BY <1>6, <1>8, <2>3
    <3>2. next[g] = at[g] /\ next[h] = at[h]
      BY <1>2, <3>1 DEF Extends
    <3> QED BY <1>1, <2>3, <3>1, <3>2 DEF Sequenced, ChainRuns
  <2>4. ASSUME NEW i \in 1 .. l + 1 PROVE Rises(log'[i].txs)
    <3>1. CASE i = l + 1
      BY <1>4, <1>5, <3>1
    <3>2. CASE i \in 1 .. l
      BY <1>1, <1>5, <1>l, <3>2 DEF Sequenced, ChainRuns
    <3> QED BY <3>1, <3>2
  <2>5. ASSUME NEW i \in 1 .. l + 1, IsFirst(i)', Reached(log'[i].height)
        PROVE  Takes(next[log'[i].height - 1], next[log'[i].height], log'[i].txs)
    <3>1. CASE i = l + 1
      <4>1. \A j \in 1 .. l : log[j].height # b.height
        BY <1>5, <2>5, <3>1 DEF IsFirst
      <4>2. \A m \in Node : height[m] \in Nat /\ height[m] < b.height
        BY <1>4, <1>l, <4>1, NewHeight DEF DataInv
      <4>3. ~Reached(b.height)
        BY <1>4, <4>2 DEF Reached
      <4> QED BY <1>5, <2>5, <3>1, <4>3
    <3>2. CASE i \in 1 .. l
      <4> DEFINE h == log[i].height
      <4>1. log'[i] = log[i] /\ IsFirst(i) /\ Reached(h) /\ h \in Nat \ {0}
        <5>1. log'[i] = log[i] /\ h \in Nat \ {0}
          BY <1>5, <1>l, <3>2 DEF DataInv, OrderInv, LogType
        <5>2. IsFirst(i)
          BY <1>5, <2>5, <3>2 DEF IsFirst
        <5> QED BY <2>5, <5>1, <5>2
      <4>2. Reached(h - 1)
        <5>1. h - 1 \in Nat /\ h - 1 <= h
          BY <4>1
        <5> HIDE DEF h
        <5> QED BY <1>8, <4>1, <5>1
      <4>3. next[h] = at[h] /\ next[h - 1] = at[h - 1]
        BY <1>2, <4>1, <4>2 DEF Extends
      <4> QED BY <1>1, <1>l, <3>2, <4>1, <4>3 DEF Sequenced, ChainRuns
    <3> QED BY <3>1, <3>2
  <2>6. \A i \in 1 .. l + 1 : IsFirst(i)' /\ (\E m \in Node : log'[i].height <= height'[m]) =>
          Takes(next[log'[i].height - 1], next[log'[i].height], log'[i].txs)
    <3> TAKE i \in 1 .. l + 1
    <3> HAVE IsFirst(i)' /\ (\E m \in Node : log'[i].height <= height'[m])
    <3>1. log'[i].height \in Nat
      <4>1. i = l + 1 \/ i \in 1 .. l
        OBVIOUS
      <4> QED BY <1>4, <1>5, <1>l, <4>1 DEF DataInv, OrderInv, LogType
    <3>2. Reached(log'[i].height)
      BY <1>4, <3>1 DEF Reached
    <3> QED BY <2>5, <3>2
  <2>7. \A i \in 1 .. Len(log') : IsFirst(i)' /\ Reached(log[i].height)' =>
          Takes(next[log'[i].height - 1], next[log'[i].height], log'[i].txs)
    BY <1>5, <2>6 DEF Reached
  <2> QED BY <1>5, <2>1, <2>2, <2>3, <2>4, <2>7 DEF ChainRuns
<1>10. ASSUME NEW m \in Node PROVE NodeRuns(next, m)'
  <2>1. NodeRuns(at, m) /\ DOMAIN packing = Node
    BY <1>1 DEF Sequenced, DataInv, OrderInv
  <2>2. packing'[m] = packing[m] \/ packing'[m] = Idle
    BY <1>4, <2>1
  <2>3. packing'[m].stage = "pending" => Rises(packing'[m].txs)
    BY <2>1, <2>2 DEF NodeRuns, Idle
  <2>4. packing'[m].stage = "packed" => Rises(packing'[m].block.txs)
    BY <2>1, <2>2 DEF NodeRuns, Idle
  <2>5. flushing[m] # 0 => NextBlock(m)' = NextBlock(m)
    <3>1. flushing[m] # 0 => applied[m] \in 0 .. l /\ applied[m] < l
      BY <1>l DEF DataInv, OrderInv, NodeInv
    <3> QED BY <1>4, <1>5, <3>1 DEF NextBlock
  <2> QED BY <1>4, <2>1, <2>3, <2>4, <2>5 DEF NodeRuns
<1>11. Sequenced(next)'
  BY <1>2, <1>9, <1>10 DEF Sequenced
<1> QED BY <1>2, <1>11

\* The order looks at nothing else.
LEMMA SequenceUnmoved ==
  ASSUME NEW at, Sequenced(at),
         UNCHANGED <<log, applied, height, nonce, flushing, packing>>
  PROVE  Sequenced(at)'
<1>1. FollowsLog(at)'
  BY FollowsKept DEF Sequenced
<1>2. ChainRuns(at)' /\ \A n \in Node : NodeRuns(at, n)'
  BY DEF Sequenced, ChainRuns, NodeRuns, Reached, IsFirst, NextBlock
<1> QED BY <1>1, <1>2 DEF Sequenced

\* No action breaks the order of nonces.
LEMMA SequenceInductive ==
  ASSUME DataInv, SequenceInv, [Next]_vars
  PROVE  SequenceInv'
<1>0. PICK at : Sequenced(at)
  BY DEF SequenceInv
<1>1. CASE UNCHANGED <<log, applied, height, nonce, flushing, packing>>
  BY <1>0, <1>1, SequenceUnmoved DEF SequenceInv
<1>2. ASSUME NEW c \in Client,
             OpenRequest(c) \/ CheckRequest(c) \/ CommitRequest(c) \/ FailRequest(c)
      PROVE  UNCHANGED <<log, applied, height, nonce, flushing, packing>>
  BY <1>2 DEF OpenRequest, CheckRequest, CommitRequest, FailRequest, chain
<1>3. ASSUME NEW n \in Node
      PROVE  /\ Pendings(n) => Sequenced(at)'
             /\ NewBlock(n) \/ Discard(n) \/ SkipStaleBlock(n) \/ AcceptBlock(n)
                \/ FlushScript(n) \/ EndProcess(n) => Sequenced(at)'
             /\ CommitBlock(n) => Sequenced(at)'
             /\ Propose(n) => \E next : Sequenced(next)'
  BY <1>0, PendingsSequence, HandlingSequence, CommitSequence, ProposeSequence
<1>4. CASE Next
  <2>1. \/ UNCHANGED <<log, applied, height, nonce, flushing, packing>>
        \/ \E next : Sequenced(next)'
    BY <1>2, <1>3, <1>4 DEF Next, RefuseBlock, Crash
  <2> QED BY <1>1, <2>1 DEF SequenceInv
<1>5. CASE UNCHANGED vars
  BY <1>1, <1>5 DEF vars, chain
<1> QED BY <1>4, <1>5

---------------------------------------------------------------------------
(***************************************************************************)
(* What the chains of nodes hold.                                          *)
(***************************************************************************)

\* The blocks of a node's chain: one for each height, all of them taken by
\* data bases.
LEMMA ChainBlocks ==
  ASSUME DataInv, NEW n \in Node
  PROVE  /\ DOMAIN log = 1 .. Len(log) /\ Len(log) \in Nat /\ height[n] \in Nat
         /\ \A i \in ChainOf(n) :
              /\ i \in 1 .. Len(log) /\ IsFirst(i) /\ Reached(log[i].height)
              /\ log[i].height \in 1 .. height[n]
         /\ \A h \in 1 .. height[n] : \E i \in ChainOf(n) : log[i].height = h
         /\ \A i, j \in ChainOf(n) : i < j => log[i].height < log[j].height
<1>1. DOMAIN log = 1 .. Len(log) /\ Len(log) \in Nat
  BY DEF DataInv, OrderInv, LogType
<1>2. /\ height[n] \in Nat /\ NoHeightMissing
      /\ \A i \in 1 .. Len(log) : log[i].height \in Nat \ {0}
      /\ \A h \in 1 .. height[n] : \E i \in 1 .. Len(log) : log[i].height = h
  BY DEF DataInv, OrderInv, NodeInv, LogType
<1>3. ASSUME NEW i \in ChainOf(n)
      PROVE  /\ i \in 1 .. Len(log) /\ IsFirst(i) /\ Reached(log[i].height)
             /\ log[i].height \in 1 .. height[n]
  <2>1. i \in 1 .. Len(log) /\ IsFirst(i) /\ log[i].height <= height[n]
    BY <1>1 DEF ChainOf, IsFirst
  <2>2. log[i].height \in Nat \ {0}
    BY <1>2, <2>1
  <2> QED BY <1>2, <2>1, <2>2 DEF Reached
<1>4. ASSUME NEW h \in 1 .. height[n]
      PROVE  \E i \in ChainOf(n) : log[i].height = h
  <2> DEFINE S == {i \in 1 .. Len(log) : log[i].height = h}
  <2>1. PICK i \in S : \A j \in S : i <= j
    <3>1. S \subseteq Nat /\ S # {}
      BY <1>2
    <3> HIDE DEF S
    <3> QED BY <3>1, Least
  <2>2. \A j \in 1 .. i - 1 : log[j].height # h
    <3> TAKE j \in 1 .. i - 1
    <3>1. j \in 1 .. Len(log) /\ ~(i <= j)
      BY <1>1, <2>1
    <3> QED BY <2>1, <3>1
  <2>3. i \in ChainOf(n)
    BY <1>1, <1>2, <2>1, <2>2 DEF ChainOf
  <2> QED BY <2>1, <2>3
<1>5. ASSUME NEW i \in ChainOf(n), NEW j \in ChainOf(n), i < j
      PROVE  log[i].height < log[j].height
  <2>1. /\ i \in 1 .. Len(log) /\ j \in 1 .. Len(log) /\ IsFirst(j)
        /\ log[i].height \in Nat /\ log[j].height \in Nat \ {0}
    BY <1>2, <1>3
  <2>2. \A x \in 1 .. i : log[x].height # log[j].height
    BY <1>1, <1>5, <2>1 DEF IsFirst
  <2>3. ~(log[j].height \in 1 .. log[i].height)
    <3>1. \A h \in 1 .. log[i].height : \E x \in 1 .. i : log[x].height = h
      BY <1>2, <2>1 DEF NoHeightMissing
    <3> QED BY <2>2, <3>1
  <2> QED BY <2>1, <2>3
<1> QED BY <1>1, <1>2, <1>3, <1>4, <1>5

\* The chain takes the transactions of an address in the order of their nonces,
\* none twice, and the data base knows the nonce after the last (Pendings,
\* verify, set_nonce).
THEOREM NoncesInOrderCorrect == Spec => []NoncesInOrder
<1>1. ASSUME DataInv, SequenceInv PROVE NoncesInOrder
  <2> SUFFICES ASSUME NEW n \in Node, NEW a \in Addr
               PROVE  /\ \A p, q \in SentBy(n, a) : Precedes(p, q) => NonceAt(p) < NonceAt(q)
                      /\ \A p \in SentBy(n, a) : 0 < NonceAt(p) /\ NonceAt(p) < nonce[n][a]
                      /\ nonce[n][a] - 1 = 0 \/ \E p \in SentBy(n, a) : NonceAt(p) = nonce[n][a] - 1
    BY DEF NoncesInOrder
  <2> USE <1>1
  <2>1. PICK at : Sequenced(at)
    BY DEF SequenceInv
  <2>2. PICK H \in Nat : H = height[n] /\ nonce[n] = at[H]
    BY <2>1, ChainBlocks DEF Sequenced, FollowsLog
  <2>3. \A h \in 0 .. H : Reached(h) /\ at[h][a] \in Nat
    <3> TAKE h \in 0 .. H
    <3>1. Reached(h)
      BY <2>2 DEF Reached
    <3> QED BY <2>1, <3>1 DEF Sequenced, ChainRuns, Nonces
  <2>4. at[0][a] = 1 /\ \A h \in 0 .. H : \A g \in 0 .. h : at[g][a] <= at[h][a]
    BY <2>1, <2>3 DEF Sequenced, ChainRuns
  <2>5. ASSUME NEW i \in ChainOf(n)
        PROVE  /\ log[i].height \in 1 .. H
               /\ Takes(at[log[i].height - 1], at[log[i].height], log[i].txs)
    BY <2>1, <2>2, ChainBlocks DEF Sequenced, ChainRuns
  <2>6. \A p : p \in SentBy(n, a) <=>
          \E i \in ChainOf(n) : \E j \in DOMAIN log[i].txs : p = <<i, j>> /\ log[i].txs[j].from = a
    BY DEF SentBy
  <2>7. \A i \in ChainOf(n) : Transactions(log[i].txs)
    BY ChainBlocks DEF DataInv, LedgerType, IsBlock
  \* A position's nonce is one of those that its block takes.
  <2>8. ASSUME NEW p \in SentBy(n, a)
        PROVE  /\ p[1] \in ChainOf(n) /\ p[2] \in DOMAIN log[p[1]].txs
               /\ log[p[1]].txs[p[2]].from = a /\ NonceAt(p) \in Nat
               /\ at[log[p[1]].height - 1][a] <= NonceAt(p)
               /\ NonceAt(p) < at[log[p[1]].height][a]
    <3>0. PICK i \in ChainOf(n) :
            \E j \in DOMAIN log[i].txs : p = <<i, j>> /\ log[i].txs[j].from = a
      BY <2>6
    <3>1. PICK j \in DOMAIN log[i].txs : p = <<i, j>> /\ log[i].txs[j].from = a
      BY <3>0
    <3>2. NonceAt(p) = log[i].txs[j].nonce
      BY <3>1 DEF NonceAt
    <3>3. log[i].txs[j].nonce \in Nat
      BY <2>7 DEF Transactions, IsTransaction
    <3>4. /\ at[log[i].height - 1][a] <= log[i].txs[j].nonce
          /\ log[i].txs[j].nonce < at[log[i].height][a]
      BY <2>5, <3>1 DEF Takes
    <3> QED BY <3>1, <3>2, <3>3, <3>4
  <2>9. ASSUME NEW p \in SentBy(n, a)
        PROVE  0 < NonceAt(p) /\ NonceAt(p) < nonce[n][a]
    <3> DEFINE h == log[p[1]].height
    <3>1. h \in 1 .. H /\ h - 1 \in 0 .. H /\ h \in 0 .. H /\ 0 \in 0 .. h - 1 /\ H \in 0 .. H
      BY <2>5, <2>8
    <3>2. at[h - 1][a] <= NonceAt(p) /\ NonceAt(p) < at[h][a] /\ NonceAt(p) \in Nat
      BY <2>8
    <3> HIDE DEF h
    <3>3. 1 <= at[h - 1][a] /\ at[h][a] <= at[H][a]
      BY <2>4, <3>1
    <3>4. at[h - 1][a] \in Nat /\ at[h][a] \in Nat /\ at[H][a] \in Nat
      BY <2>3, <3>1
    <3> QED BY <2>2, <3>2, <3>3, <3>4
  \* The last block that moved the nonce has the transaction before it.
  <2>10. ASSUME nonce[n][a] - 1 # 0
         PROVE  \E p \in SentBy(n, a) : NonceAt(p) = nonce[n][a] - 1
    <3> DEFINE S == {h \in 0 .. H : at[h][a] = at[H][a]}
    <3>1. PICK h \in S : \A g \in S : h <= g
      <4>1. S \subseteq Nat /\ H \in S
        BY <2>2
      <4> HIDE DEF S
      <4> QED BY <4>1, Least
    <3>2. h \in 1 .. H /\ h - 1 \in 0 .. H /\ ~(h - 1 \in S) /\ at[h][a] = at[H][a]
      <4>1. h # 0
        BY <2>2, <2>4, <2>10, <3>1
      <4> QED BY <2>2, <3>1, <4>1
    <3>3. at[h - 1][a] # at[h][a] /\ at[h][a] = nonce[n][a]
      BY <2>2, <3>2
    <3>5. PICK i \in ChainOf(n) : log[i].height = h
      BY <2>2, <3>2, ChainBlocks
    <3>6. PICK j \in DOMAIN log[i].txs : log[i].txs[j].from = a /\ log[i].txs[j].nonce + 1 = at[h][a]
      <4>1. Takes(at[h - 1], at[h], log[i].txs)
        BY <2>5, <3>5
      <4> HIDE DEF S
      <4> QED BY <3>3, <4>1 DEF Takes
    <3>7. <<i, j>> \in SentBy(n, a) /\ NonceAt(<<i, j>>) = log[i].txs[j].nonce
      BY <2>6, <3>6 DEF NonceAt
    <3>8. NonceAt(<<i, j>>) \in Nat
      BY <2>8, <3>7
    <3> QED BY <3>3, <3>6, <3>7, <3>8
  <2>11. ASSUME NEW p \in SentBy(n, a), NEW q \in SentBy(n, a), Precedes(p, q)
         PROVE  NonceAt(p) < NonceAt(q)
    <3>1. CASE p[1] = q[1] /\ p[2] < q[2]
      <4>1. Takes(at[log[p[1]].height - 1], at[log[p[1]].height], log[p[1]].txs)
        BY <2>5, <2>8
      <4> QED BY <2>8, <3>1, <4>1 DEF Takes, NonceAt
    <3>2. CASE p[1] < q[1]
      <4> DEFINE g == log[p[1]].height
                 h == log[q[1]].height
      <4>1. g < h /\ g \in 1 .. H /\ h \in 1 .. H
        BY <2>5, <2>8, <3>2, ChainBlocks
      <4>2. NonceAt(p) < at[g][a] /\ at[h - 1][a] <= NonceAt(q)
        BY <2>8
      <4>3. NonceAt(p) \in Nat /\ NonceAt(q) \in Nat
        BY <2>8
      <4> HIDE DEF g, h
      <4>4. g \in 0 .. h - 1 /\ h - 1 \in 0 .. H /\ g \in 0 .. H
        BY <4>1
      <4>5. at[g][a] <= at[h - 1][a] /\ at[g][a] \in Nat /\ at[h - 1][a] \in Nat
        BY <2>3, <2>4, <4>4
      <4> QED BY <4>2, <4>3, <4>5
    <3> QED BY <2>11, <3>1, <3>2 DEF Precedes
  <2> QED BY <2>9, <2>10, <2>11
<1>2. Init => SequenceInv
  BY SequenceInitially
<1>3. AccountsInv /\ SequenceInv /\ [Next]_vars => SequenceInv'
  BY SequenceInductive DEF AccountsInv, NonceInv, DataInv
<1>4. AccountsInv => DataInv
  BY DEF AccountsInv, NonceInv, DataInv
<1> QED BY <1>1, <1>2, <1>3, <1>4, AccountsInvCorrect, PTL DEF Spec
---------------------------------------------------------------------------
(***************************************************************************)
(* What senders have.  Pendings keeps a running balance of a sender in an  *)
(* int64.  It never gets past the least one, so it is exact; and it is at  *)
(* most the balance, of which it takes the lock.  Data bases of the height *)
(* it was read at have the same balances, whoever commits the block.       *)
(***************************************************************************)

\* What transactions take of the balance that Pendings keeps.
Costs(n, txs) == [i \in 1 .. n |-> Spends(txs[i])]

\* The places of a sender in the first k transactions.
From(txs, k, a) == {j \in 1 .. k : txs[j].from = a}

\* The positions of a block are finitely many.
LEMMA UpToIsFinite ==
  ASSUME NEW n \in Nat
  PROVE  IsFiniteSet(1 .. n)
<1>1. 1 \in Int /\ n \in Int
  OBVIOUS
<1> QED BY <1>1, FS_Interval

\* They are numbers, of transactions as they are formed.
LEMMA CostsAre ==
  ASSUME NEW n \in Nat, NEW txs, \A i \in 1 .. n : IsTransaction(txs[i])
  PROVE  \A i \in 1 .. n : /\ Costs(n, txs)[i] = Spends(txs[i])
                            /\ Costs(n, txs)[i] \in Int /\ Spends(txs[i]) \in Int
<1>1. \A i \in 1 .. n : txs[i].amount \in Nat /\ txs[i].fee \in Nat
  BY ModulusAssumption DEF IsTransaction, Width
<1>2. \A i \in 1 .. n : Spends(txs[i]) \in Int
  BY <1>1 DEF Spends
<1> QED BY <1>2 DEF Costs

\* Pendings' sums, as sums over the block.
LEMMA SpentIs ==
  ASSUME NEW n \in Nat, NEW txs, DOMAIN txs = 1 .. n, \A i \in 1 .. n : IsTransaction(txs[i]),
         NEW g, SumsUp(g, Costs(n, txs), 1 .. n), NEW i \in 1 .. n
  PROVE  /\ SpentBefore(txs, i) = g[Before(txs, i)] /\ SpentBefore(txs, i) \in Int
         /\ Before(txs, i) = From(txs, i - 1, txs[i].from)
<1> DEFINE C == Before(txs, i)
           P(e) == e = [s \in SUBSET C |->
                          IF s = {} THEN 0
                          ELSE LET x == CHOOSE x \in s : TRUE
                               IN Spends(txs[x]) + e[s \ {x}]]
           e0 == CHOOSE e : P(e)
           f == Costs(n, txs)
<1>1. SpentBefore(txs, i) = e0[C]
  BY DEF SpentBefore, MapThenSumSet, MapThenFoldSet
<1>2. C \in SUBSET (1 .. n) /\ IsFiniteSet(1 .. n)
  <2>1. IsFiniteSet(1 .. n)
    BY UpToIsFinite
  <2> QED BY <2>1 DEF Before
<1>3. \A x \in 1 .. n : f[x] \in Int /\ f[x] = Spends(txs[x])
  BY CostsAre
<1>4. IsFiniteSet(C)
  BY <1>2, FS_Subset
<1>5. C = From(txs, i - 1, txs[i].from)
  BY DEF Before, From
<1> HIDE DEF C, f
<1>6. PICK e \in [SUBSET C -> Int] : Adds(e, f, C)
  BY <1>2, <1>3, <1>4, AddsExists
<1>7. P(e)
  BY <1>2, <1>3, <1>6 DEF Adds, Chosen
<1>8. P(e0)
  <2> HIDE DEF P
  <2> QED BY <1>7, Zenon
<1> HIDE DEF e0
<1>9. Adds(e0, f, C)
  BY <1>2, <1>3, <1>8 DEF Adds, Chosen
<1>10. e0[C] = g[C] /\ g[C] \in Int
  <2>1. PICK S, c, ff, ee : S = 1 .. n /\ c = C /\ ff = f /\ ee = e0
    OBVIOUS
  <2>2. IsFiniteSet(S) /\ SumsUp(g, ff, S) /\ c \in SUBSET S /\ Adds(ee, ff, c)
    BY <1>2, <1>9, <2>1 DEF f
  <2>3. ee[c] = g[c]
    <3>1. PICK d : d = ff
      OBVIOUS
    <3>2. Adds(ee, d, c) /\ \A x \in c : d[x] = ff[x]
      BY <2>2, <3>1
    <3> QED BY <2>2, <3>2, SumIsUnique
  <2>4. g[c] \in Int
    BY <2>2 DEF SumsUp
  <2> QED BY <2>1, <2>3, <2>4
<1> QED BY <1>1, <1>5, <1>10 DEF C

\* The sum of a sender, from one place to the next.
LEMMA SpentStep ==
  ASSUME NEW n \in Nat, NEW txs, DOMAIN txs = 1 .. n, \A i \in 1 .. n : IsTransaction(txs[i]),
         NEW g, SumsUp(g, Costs(n, txs), 1 .. n), NEW k \in 0 .. n - 1, NEW a \in Addr
  PROVE  /\ k + 1 \in 1 .. n /\ txs[k + 1].from \in Addr
         /\ SpentBefore(txs, k + 1) = g[From(txs, k, txs[k + 1].from)]
         /\ g[From(txs, k, a)] \in Int /\ g[From(txs, k + 1, a)] \in Int
         /\ a # txs[k + 1].from => g[From(txs, k + 1, a)] = g[From(txs, k, a)]
         /\ a = txs[k + 1].from => g[From(txs, k + 1, a)] = Spends(txs[k + 1]) + g[From(txs, k, a)]
<1>1. k + 1 \in 1 .. n /\ (k + 1) - 1 = k /\ k \in 0 .. n /\ k + 1 \in 0 .. n
  OBVIOUS
<1>2. PICK tx : tx = txs[k + 1]
  OBVIOUS
<1>3. IsTransaction(tx) /\ tx.from \in Addr
  BY <1>1, <1>2 DEF IsTransaction
<1>4. SpentBefore(txs, k + 1) = g[From(txs, k, tx.from)]
  <2>1. /\ SpentBefore(txs, k + 1) = g[Before(txs, k + 1)]
        /\ Before(txs, k + 1) = From(txs, (k + 1) - 1, txs[k + 1].from)
    BY <1>1, SpentIs
  <2> QED BY <1>1, <1>2, <2>1
<1>5. From(txs, k, a) \in SUBSET (1 .. n) /\ From(txs, k + 1, a) \in SUBSET (1 .. n)
  BY <1>1 DEF From
<1>6. g[From(txs, k, a)] \in Int /\ g[From(txs, k + 1, a)] \in Int
  BY <1>5 DEF SumsUp
<1>7. CASE a # tx.from
  <2>1. From(txs, k + 1, a) = From(txs, k, a)
    BY <1>1, <1>2, <1>7 DEF From
  <2> QED BY <1>1, <1>2, <1>3, <1>4, <1>6, <1>7, <2>1
<1>8. CASE a = tx.from
  <2>1. k + 1 \in From(txs, k + 1, a) /\ From(txs, k + 1, a) \ {k + 1} = From(txs, k, a)
    BY <1>1, <1>2, <1>8 DEF From
  <2>2. Costs(n, txs)[k + 1] = Spends(tx)
    BY <1>1, <1>2, CostsAre
  <2>3. g[From(txs, k + 1, a)] = Spends(tx) + g[From(txs, k, a)]
    BY <1>5, <2>1, <2>2 DEF SumsUp
  <2> QED BY <1>1, <1>2, <1>3, <1>4, <1>6, <1>8, <2>3
<1> QED BY <1>7, <1>8

\* r has what each sender has spent after each place.
Running(r, n, txs) ==
  /\ r \in [0 .. n -> [Addr -> Int]] /\ \A a \in Addr : r[0][a] = 0
  /\ \A k \in 0 .. n - 1 :
       /\ SpentBefore(txs, k + 1) = r[k][txs[k + 1].from]
       /\ \A a \in Addr : /\ a # txs[k + 1].from => r[k + 1][a] = r[k][a]
                          /\ a = txs[k + 1].from => r[k + 1][a] = Spends(txs[k + 1]) + r[k][a]

\* There are such sums.
LEMMA RunningExists ==
  ASSUME NEW n \in Nat, NEW txs, DOMAIN txs = 1 .. n, \A i \in 1 .. n : IsTransaction(txs[i])
  PROVE  \E r : Running(r, n, txs)
<1>1. PICK g : SumsUp(g, Costs(n, txs), 1 .. n)
  <2>1. \A i \in 1 .. n : Costs(n, txs)[i] \in Int
    BY CostsAre
  <2>2. IsFiniteSet(1 .. n)
    BY UpToIsFinite
  <2> QED BY <2>1, <2>2, SumsExist
<1>2. PICK r : r = [k \in 0 .. n |-> [a \in Addr |-> g[From(txs, k, a)]]]
  OBVIOUS
<1>3. \A k \in 0 .. n, a \in Addr : r[k][a] = g[From(txs, k, a)] /\ g[From(txs, k, a)] \in Int
  <2>1. ASSUME NEW k \in 0 .. n, NEW a \in Addr PROVE From(txs, k, a) \in SUBSET (1 .. n)
    BY DEF From
  <2> QED BY <1>1, <1>2, <2>1 DEF SumsUp
<1>4. r \in [0 .. n -> [Addr -> Int]]
  BY <1>2, <1>3
<1>5. \A a \in Addr : r[0][a] = 0
  <2> TAKE a \in Addr
  <2>1. From(txs, 0, a) = {} /\ g[{}] = 0 /\ 0 \in 0 .. n
    BY <1>1 DEF From, SumsUp
  <2> QED BY <1>3, <2>1
<1>6. ASSUME NEW k \in 0 .. n - 1
      PROVE  /\ SpentBefore(txs, k + 1) = r[k][txs[k + 1].from]
             /\ \A a \in Addr :
                  /\ a # txs[k + 1].from => r[k + 1][a] = r[k][a]
                  /\ a = txs[k + 1].from => r[k + 1][a] = Spends(txs[k + 1]) + r[k][a]
  <2>1. k \in 0 .. n /\ k + 1 \in 0 .. n /\ k + 1 \in 1 .. n
    OBVIOUS
  <2>2. txs[k + 1].from \in Addr
    BY <2>1 DEF IsTransaction
  <2>3. \A a \in Addr :
          /\ SpentBefore(txs, k + 1) = g[From(txs, k, txs[k + 1].from)]
          /\ a # txs[k + 1].from => g[From(txs, k + 1, a)] = g[From(txs, k, a)]
          /\ a = txs[k + 1].from => g[From(txs, k + 1, a)] = Spends(txs[k + 1]) + g[From(txs, k, a)]
    BY <1>1, SpentStep
  <2> QED BY <1>3, <2>1, <2>2, <2>3
<1> QED BY <1>4, <1>5, <1>6 DEF Running

\* Transactions that are alike take the same.
LEMMA SpentAlike ==
  ASSUME NEW n \in Nat, NEW t, NEW txs, DOMAIN t = 1 .. n, DOMAIN txs = 1 .. n,
         \A i \in 1 .. n : IsTransaction(t[i]) /\ IsTransaction(txs[i]) /\ Alike(t[i], txs[i]),
         NEW i \in 1 .. n
  PROVE  SpentBefore(t, i) = SpentBefore(txs, i)
<1>1. Costs(n, t) = Costs(n, txs)
  BY DEF Costs, Spends, Alike
<1>2. PICK g : SumsUp(g, Costs(n, t), 1 .. n)
  <2>1. \A j \in 1 .. n : Costs(n, t)[j] \in Int
    BY CostsAre
  <2>2. IsFiniteSet(1 .. n)
    BY UpToIsFinite
  <2> QED BY <2>1, <2>2, SumsExist
<1>3. SpentBefore(t, i) = g[Before(t, i)]
  BY <1>2, SpentIs
<1>4. SpentBefore(txs, i) = g[Before(txs, i)]
  <2>1. SumsUp(g, Costs(n, txs), 1 .. n)
    BY <1>1, <1>2
  <2> QED BY <2>1, SpentIs
<1>5. Before(t, i) = Before(txs, i)
  <2>1. 1 .. i - 1 \subseteq 1 .. n
    OBVIOUS
  <2>2. \A j \in 1 .. n : t[j].from = txs[j].from
    BY DEF Alike
  <2> QED BY <2>1, <2>2 DEF Before
<1> QED BY <1>3, <1>4, <1>5

\* An int64 that has not gone past its ends is exact.
LEMMA SignedExact ==
  ASSUME NEW x \in Int, 0 <= 2 * x + Modulus, 2 * x < Modulus
  PROVE  Signed(x % Modulus) = x
<1>0. Modulus \in Nat \ {0}
  BY ModulusAssumption
<1>1. CASE 0 <= x
  <2>1. x \in 0 .. Modulus - 1 /\ x = (Modulus * 0) + x
    BY <1>0, <1>1
  <2>2. x % Modulus = x
    BY <1>0, <2>1, RemainderUnique
  <2> QED BY <1>0, <2>2 DEF Signed
<1>2. CASE x < 0
  <2> DEFINE y == x + Modulus
  <2>1. y \in 0 .. Modulus - 1 /\ x = (Modulus * (-1)) + y /\ -1 \in Int
    BY <1>0, <1>2
  <2>2. 2 * y >= Modulus /\ y - Modulus = x
    BY <1>0, <1>2
  <2> HIDE DEF y
  <2>3. x % Modulus = y
    BY <1>0, <2>1, RemainderUnique
  <2> QED BY <2>2, <2>3 DEF Signed
<1> QED BY <1>1, <1>2

\* The int64 of a number of the width.
LEMMA SignedType ==
  ASSUME NEW x \in Width
  PROVE  Signed(x) \in Int /\ 0 <= 2 * Signed(x) + Modulus /\ 2 * Signed(x) < Modulus
<1>0. Modulus \in Nat \ {0} /\ x \in Nat /\ x < Modulus
  BY ModulusAssumption DEF Width
<1>1. CASE 2 * x >= Modulus
  <2>1. Signed(x) = x - Modulus
    BY <1>1 DEF Signed
  <2> QED BY <1>0, <1>1, <2>1
<1>2. CASE ~(2 * x >= Modulus)
  <2>1. Signed(x) = x
    BY <1>2 DEF Signed
  <2> QED BY <1>0, <1>2, <2>1
<1> QED BY <1>1, <1>2

\* An available balance is not more than the balance.
LEMMA AvailableLeast ==
  ASSUME NEW x \in Width, NEW l \in Width, 2 * l <= Modulus
  PROVE  Signed(Minus(x, l)) \in Int /\ Signed(Minus(x, l)) <= x
<1>0. Modulus \in Nat \ {0} /\ x \in Nat /\ l \in Nat /\ x < Modulus
  BY ModulusAssumption DEF Width
<1>1. CASE l <= x
  <2>1. Minus(x, l) = x - l
    BY <1>1, MinusIsExact DEF Width
  <2> QED BY <1>0, <1>1, <2>1 DEF Signed
<1>2. CASE x < l
  <2> DEFINE v == x + Modulus - l
  <2>1. v \in 0 .. Modulus - 1 /\ v = (Modulus * 0) + v /\ 2 * v >= Modulus /\ v \in Int
    BY <1>0, <1>2
  <2>2. Minus(x, l) = v
    <3>1. x + Modulus - l = v
      OBVIOUS
    <3> HIDE DEF v
    <3>2. v % Modulus = v
      BY <1>0, <2>1, RemainderUnique
    <3> QED BY <3>1, <3>2 DEF Minus
  <2>3. v - Modulus <= x
    BY <1>0, <1>2
  <2> HIDE DEF v
  <2> QED BY <1>0, <2>1, <2>2, <2>3 DEF Signed
<1> QED BY <1>0, <1>1, <1>2

\* Senders have what Pendings counts for them, one transaction after the other.
Affords(bal, txs) ==
  \A i \in DOMAIN txs : txs[i].from \in Public =>
    SpentBefore(txs, i) + txs[i].amount <= bal[txs[i].from]

\* A running balance that is within the int64, and covers an amount, is within
\* it after the transaction.
LEMMA BalanceStep ==
  ASSUME NEW x \in Int, 0 <= 2 * x + Modulus, 2 * x < Modulus,
         NEW tx, IsTransaction(tx), 2 * tx.amount < Modulus, 2 * tx.fee < Modulus,
         Signed(x % Modulus) >= Signed(tx.amount)
  PROVE  /\ tx.amount \in Nat /\ tx.amount <= x /\ Spends(tx) \in Int
         /\ 0 <= 2 * (x - Spends(tx)) + Modulus /\ 2 * (x - Spends(tx)) < Modulus
<1>1. Modulus \in Nat /\ tx.amount \in Nat /\ tx.fee \in Nat
  BY ModulusAssumption DEF IsTransaction, Width
<1>2. Signed(x % Modulus) = x
  BY SignedExact
<1>3. Signed(tx.amount) = tx.amount
  <2>1. ~(2 * tx.amount >= Modulus)
    BY <1>1
  <2> QED BY <2>1 DEF Signed
<1>4. tx.amount <= x
  BY <1>1, <1>2, <1>3
<1>5. PICK m, f, c : m = tx.amount /\ f = tx.fee /\ c = Spends(tx)
  OBVIOUS
<1>6. c \in Int /\ 0 <= c /\ c <= m + f
  <2>1. CASE tx.script = <<>>
    BY <1>1, <1>5, <2>1 DEF Spends
  <2>2. CASE tx.script # <<>>
    BY <1>1, <1>5, <2>2 DEF Spends
  <2> QED BY <2>1, <2>2
<1>7. /\ m \in Nat /\ f \in Nat /\ Modulus \in Nat /\ 2 * f < Modulus /\ m <= x
  BY <1>1, <1>4, <1>5
<1>8. 0 <= 2 * (x - c) + Modulus /\ 2 * (x - c) < Modulus
  BY <1>6, <1>7
<1> QED BY <1>1, <1>4, <1>5, <1>6, <1>8

\* A running balance that covers each amount covers all of them.
LEMMA RunningBalance ==
  ASSUME NEW n \in Nat, NEW txs, DOMAIN txs = 1 .. n, \A i \in 1 .. n : IsTransaction(txs[i]),
         \A i \in 1 .. n : 2 * txs[i].amount < Modulus /\ 2 * txs[i].fee < Modulus,
         NEW S, \A a \in Addr : S[a] \in Int /\ 0 <= 2 * S[a] + Modulus /\ 2 * S[a] < Modulus,
         \A i \in 1 .. n :
           Signed((S[txs[i].from] - SpentBefore(txs, i)) % Modulus) >= Signed(txs[i].amount)
  PROVE  \A i \in 1 .. n : SpentBefore(txs, i) \in Int
                           /\ SpentBefore(txs, i) + txs[i].amount <= S[txs[i].from]
<1>1. PICK r : Running(r, n, txs)
  BY RunningExists
<1> DEFINE Within(x) == 0 <= 2 * x + Modulus /\ 2 * x < Modulus
           T == {k \in 0 .. n : \A a \in Addr : Within(S[a] - r[k][a])}
\* A step: what is left is exact, so it covers the amount.
<1>2. ASSUME NEW k \in 0 .. n - 1, k \in T, NEW a \in Addr
      PROVE  /\ Within(S[a] - r[k + 1][a])
             /\ k + 1 \in 1 .. n
             /\ a = txs[k + 1].from => /\ SpentBefore(txs, k + 1) \in Int
                                       /\ SpentBefore(txs, k + 1) + txs[k + 1].amount <= S[a]
  <2>0. PICK tx, s, v, v1, w : /\ tx = txs[k + 1] /\ s = S[a] /\ v = r[k][a]
                               /\ v1 = r[k + 1][a] /\ w = SpentBefore(txs, k + 1)
    OBVIOUS
  <2>1. /\ k + 1 \in 1 .. n /\ v \in Int /\ v1 \in Int
        /\ a # tx.from => v1 = v
        /\ a = tx.from => v1 = Spends(tx) + v /\ w = v
    <3>1. k + 1 \in 1 .. n /\ k \in 0 .. n /\ k + 1 \in 0 .. n
      OBVIOUS
    <3> HIDE DEF T, Within
    <3> QED BY <1>1, <2>0, <3>1 DEF Running
  <2>2. s \in Int /\ Within(s - v) /\ s - v \in Int
    BY <1>2, <2>0, <2>1
  <2>3. CASE a # tx.from
    <3>1. v1 = v
      BY <2>1, <2>3
    <3> HIDE DEF T, Within
    <3> QED BY <2>0, <2>1, <2>2, <2>3, <3>1
  <2>4. CASE a = tx.from
    <3>1. v1 = Spends(tx) + v /\ w = v
      BY <2>1, <2>4
    <3>2. PICK x : x = s - v
      OBVIOUS
    <3>3. /\ IsTransaction(tx) /\ 2 * tx.amount < Modulus /\ 2 * tx.fee < Modulus
          /\ Signed(x % Modulus) >= Signed(tx.amount)
      <4> HIDE DEF T, Within
      <4> QED BY <2>0, <2>1, <2>4, <3>1, <3>2
    <3>4. x \in Int /\ 0 <= 2 * x + Modulus /\ 2 * x < Modulus
      BY <2>2, <3>2
    <3>5. /\ tx.amount \in Nat /\ tx.amount <= x /\ Spends(tx) \in Int
          /\ Within(x - Spends(tx))
      BY <3>3, <3>4, BalanceStep
    <3> HIDE DEF T, Within
    <3>6. s - v1 = x - Spends(tx) /\ w \in Int /\ w + tx.amount <= s
      BY <2>1, <2>2, <3>1, <3>2, <3>5
    <3> QED BY <2>0, <2>1, <3>5, <3>6
  <2> HIDE DEF T, Within
  <2> QED BY <2>3, <2>4
<1>3. 0 \in T
  <2> SUFFICES ASSUME NEW a \in Addr PROVE Within(S[a] - r[0][a])
    OBVIOUS
  <2>1. r[0][a] = 0 /\ S[a] \in Int /\ Within(S[a])
    BY <1>1 DEF Running
  <2>2. S[a] - r[0][a] = S[a]
    BY <2>1
  <2> HIDE DEF Within
  <2> QED BY <2>1, <2>2
<1>4. 0 .. n \subseteq T
  <2>1. ASSUME NEW k \in 0 .. n - 1, k \in T PROVE k + 1 \in T
    <3>1. k + 1 \in 0 .. n
      OBVIOUS
    <3> HIDE DEF Within
    <3> QED BY <1>2, <2>1, <3>1
  <2> HIDE DEF T
  <2> QED BY <1>3, <2>1, Induction
<1> TAKE i \in 1 .. n
<1>5. PICK k \in 0 .. n - 1 : i = k + 1
  <2>1. i - 1 \in 0 .. n - 1 /\ i = (i - 1) + 1
    OBVIOUS
  <2> QED BY <2>1
<1>6. k \in T
  <2>1. k \in 0 .. n
    OBVIOUS
  <2> HIDE DEF T
  <2> QED BY <1>4, <2>1
<1>7. txs[i].from \in Addr
  BY DEF IsTransaction
<1> HIDE DEF T, Within
<1> QED BY <1>2, <1>5, <1>6, <1>7

\* Transactions that their senders had money for in the data bases of height g.
PaidFor(bt, g, txs) == Reached(g) /\ Affords(bt[g], txs)

\* All blocks, and those a node is making, could be paid at the height Pendings
\* has seen.  bt has the balances of each height.
Payable(bt) ==
  /\ \A i \in 1 .. Len(log) : PaidFor(bt, log[i].seen, log[i].txs)
  /\ \A n \in Node :
       /\ packing[n].stage = "pending" => PaidFor(bt, packing[n].seen, packing[n].txs)
       /\ packing[n].stage = "packed" => PaidFor(bt, packing[n].block.seen, packing[n].block.txs)

PayInv == \E bt : FollowsBlocks(bt) /\ Payable(bt)

\* Locks fit the signed numbers Pendings compares (int64).
LocksAreSigned == \A n \in Node, a \in Addr : 2 * lock[n][a] <= Modulus

\* And so do amounts and fees.
AmountsAreSigned == \A tx \in Txs : 2 * tx.amount < Modulus /\ 2 * tx.fee < Modulus

\* What a node packs can be paid at its height.
LEMMA PendingsPays ==
  ASSUME DataInv, LockInv, LocksAreSigned, AmountsAreSigned, NEW n \in Node, Pendings(n),
         NEW bt, FollowsBlocks(bt)
  PROVE  /\ packing'[n].stage = "pending" /\ packing'[n].seen = height[n]
         /\ PaidFor(bt, packing'[n].seen, packing'[n].txs)
<1>1. PICK t, txs, k :
        /\ packing'[n] = [stage |-> "pending", seen |-> height[n], txs |-> t]
        /\ k \in Nat /\ DOMAIN t = 1 .. k /\ DOMAIN txs = 1 .. k
        /\ Selectable(n, txs)
        /\ \A i \in 1 .. k : txs[i] \in Txs /\ Alike(t[i], txs[i])
  BY PendingsTakes
<1>2. \A i \in 1 .. k : IsTransaction(txs[i])
  BY <1>1, AccountsAssumption DEF IsTransaction, Width
<1>3. \A i \in 1 .. k : IsTransaction(t[i])
  <2>1. Packs(packing'[n])
    <3>1. LedgerType'
      BY PackingType DEF DataInv
    <3> QED BY <3>1 DEF LedgerType
  <2>2. Transactions(t)
    BY <1>1, <2>1 DEF Packs
  <2> QED BY <1>1, <2>2 DEF Transactions
<1>4. height[n] \in Nat /\ Reached(height[n])
  BY DEF DataInv, OrderInv, NodeInv, Reached
<1>5. Same(balance[n], bt[height[n]])
  BY DEF FollowsBlocks
<1>6. PICK S : S = [a \in Addr |-> Signed(Available(n, a))]
  OBVIOUS
<1>7. ASSUME NEW a \in Addr
      PROVE  /\ S[a] \in Int /\ 0 <= 2 * S[a] + Modulus /\ 2 * S[a] < Modulus
             /\ S[a] <= balance[n][a] /\ balance[n][a] \in Int
  <2>1. balance[n][a] \in Width /\ lock[n][a] \in Width /\ 2 * lock[n][a] <= Modulus
    BY DEF DataInv, LedgerType, Balances, LockInv, Width, LocksAreSigned
  <2>2. PICK x, l : x = balance[n][a] /\ l = lock[n][a]
    OBVIOUS
  <2>3. S[a] = Signed(Minus(x, l))
    BY <1>6, <2>2 DEF Available
  <2>4. Minus(x, l) \in Width
    BY <2>1, <2>2, WidthType DEF Minus
  <2>5. Signed(Minus(x, l)) <= x
    BY <2>1, <2>2, AvailableLeast
  <2> QED BY <2>1, <2>2, <2>3, <2>4, <2>5, SignedType, ModulusAssumption DEF Width
<1>8. ASSUME NEW i \in 1 .. k
      PROVE  /\ 2 * txs[i].amount < Modulus /\ 2 * txs[i].fee < Modulus
             /\ Signed((S[txs[i].from] - SpentBefore(txs, i)) % Modulus) >= Signed(txs[i].amount)
  <2>1. 2 * txs[i].amount < Modulus /\ 2 * txs[i].fee < Modulus
    BY <1>1 DEF AmountsAreSigned
  <2>2. S[txs[i].from] = Signed(Available(n, txs[i].from))
    BY <1>2, <1>6 DEF IsTransaction
  <2>3. i \in DOMAIN txs
    BY <1>1
  <2>4. Signed((Signed(Available(n, txs[i].from)) - SpentBefore(txs, i)) % Modulus)
          >= Signed(txs[i].amount)
    BY <1>1, <2>3 DEF Selectable
  <2> QED BY <2>1, <2>2, <2>4
<1>9. \A i \in 1 .. k : SpentBefore(txs, i) \in Int
                        /\ SpentBefore(txs, i) + txs[i].amount <= S[txs[i].from]
  BY <1>1, <1>2, <1>7, <1>8, RunningBalance
<1>10. ASSUME NEW i \in 1 .. k, t[i].from \in Public
       PROVE  SpentBefore(t, i) + t[i].amount <= bt[height[n]][t[i].from]
  <2>1. SpentBefore(t, i) = SpentBefore(txs, i)
    BY <1>1, <1>2, <1>3, SpentAlike
  <2>2. t[i].from = txs[i].from /\ t[i].amount = txs[i].amount /\ t[i].from \in Addr
    BY <1>1, <1>3 DEF Alike, IsTransaction
  <2>3. balance[n][t[i].from] = bt[height[n]][t[i].from]
    BY <1>5, <1>10 DEF Same
  <2>4. PICK x, s, v, m : /\ x = balance[n][t[i].from] /\ s = S[t[i].from]
                          /\ v = SpentBefore(t, i) /\ m = t[i].amount
    OBVIOUS
  <2>5. v \in Int /\ v + m <= s /\ s <= x /\ s \in Int /\ x \in Int /\ m \in Int
    <3>1. m \in Int
      BY <1>3, <2>4, ModulusAssumption DEF IsTransaction, Width
    <3> QED BY <1>7, <1>9, <2>1, <2>2, <2>4, <3>1
  <2>6. v + m <= x
    BY <2>5
  <2> QED BY <2>3, <2>4, <2>6
<1>11. Affords(bt[height[n]], t)
  BY <1>1, <1>10 DEF Affords
<1>12. /\ packing'[n].stage = "pending" /\ packing'[n].seen = height[n] /\ packing'[n].txs = t
  BY <1>1
<1> QED BY <1>4, <1>11, <1>12 DEF PaidFor

\* Steps that leave log and heights alone.
LEMMA PayableKept ==
  ASSUME NEW bt, Payable(bt), UNCHANGED <<log, height>>,
         \A n \in Node :
           /\ packing'[n].stage = "pending" => PaidFor(bt, packing'[n].seen, packing'[n].txs)
           /\ packing'[n].stage = "packed" =>
                PaidFor(bt, packing'[n].block.seen, packing'[n].block.txs)
  PROVE  Payable(bt)'
<1>1. \A h : Reached(h)' <=> Reached(h)
  BY DEF Reached
<1>2. \A g, txs : PaidFor(bt, g, txs)' <=> PaidFor(bt, g, txs)
  BY <1>1 DEF PaidFor
<1> QED BY <1>2 DEF Payable

\* A commit reaches more heights, and changes no block.
LEMMA CommitPayable ==
  ASSUME DataInv, NEW n \in Node, CommitBlock(n), NEW bt, Payable(bt)
  PROVE  Payable(bt)'
<1>1. UNCHANGED <<log, packing>>
  BY DEF CommitBlock
<1>2. ASSUME NEW h, Reached(h) PROVE Reached(h)'
  <2>1. PICK m \in Node : h \in Nat /\ h <= height[m]
    BY <1>2 DEF Reached
  <2>2. height[m] \in Nat /\ (height'[m] = height[m] \/ height'[m] = height[m] + 1)
    BY DEF CommitBlock, DataInv, OrderInv, NodeInv
  <2>3. h <= height'[m]
    BY <2>1, <2>2
  <2> QED BY <2>1, <2>3 DEF Reached
<1>3. \A g, txs : PaidFor(bt, g, txs) => PaidFor(bt, g, txs)'
  BY <1>2 DEF PaidFor
<1> QED BY <1>1, <1>3 DEF Payable

\* A proposal passes a block on, and changes the balances of no height reached.
LEMMA ProposePayable ==
  ASSUME DataInv, NEW n \in Node, Propose(n), NEW bt, Payable(bt), NEW bs, Extends(bs, bt)
  PROVE  Payable(bs)'
<1>1. PICK S : log \in Seq(S)
  BY DEF DataInv, OrderInv, LogType
<1>b. PICK b : b = packing[n].block
  OBVIOUS
<1>l. PICK l \in Nat : l = Len(log)
  BY <1>1
<1>2. /\ log' = Append(log, b) /\ UNCHANGED height
      /\ packing' = [packing EXCEPT ![n] = Idle] /\ DOMAIN packing = Node
      /\ PaidFor(bt, b.seen, b.txs)
  BY <1>b DEF Propose, chain, Payable, DataInv, OrderInv
<1>3. Len(log') = l + 1 /\ log'[l + 1] = b /\ \A i \in 1 .. l : log'[i] = log[i]
  <2>1. log \in Seq(S \cup {b}) /\ b \in S \cup {b}
    BY <1>1
  <2> QED BY <1>l, <1>2, <2>1
<1> DEFINE Paid(g, txs) == Reached(g) /\ Affords(bs[g], txs)
<1>4. \A g, txs : PaidFor(bt, g, txs) => Paid(g, txs)
  BY DEF PaidFor, Extends
<1>5. ASSUME NEW i \in 1 .. l + 1 PROVE Paid(log'[i].seen, log'[i].txs)
  <2> HIDE DEF Paid
  <2>1. CASE i = l + 1
    BY <1>2, <1>3, <1>4, <2>1
  <2>2. CASE i \in 1 .. l
    BY <1>3, <1>4, <1>l, <2>2 DEF Payable
  <2>3. i = l + 1 \/ i \in 1 .. l
    OBVIOUS
  <2> QED BY <2>1, <2>2, <2>3
<1>6. ASSUME NEW m \in Node
      PROVE  /\ packing'[m].stage = "pending" => Paid(packing'[m].seen, packing'[m].txs)
             /\ packing'[m].stage = "packed" => Paid(packing'[m].block.seen, packing'[m].block.txs)
  <2> HIDE DEF Paid
  <2>1. CASE packing'[m] = packing[m]
    BY <1>4, <2>1 DEF Payable
  <2>2. CASE packing'[m] = Idle
    BY <2>2 DEF Idle
  <2> QED BY <1>2, <2>1, <2>2
<1> QED BY <1>2, <1>3, <1>5, <1>6 DEF Payable, PaidFor, Reached

\* No step makes a block that could not be paid.
LEMMA PayInductive ==
  ASSUME DataInv, LockInv, LocksAreSigned, AmountsAreSigned, PayInv, [Next]_vars
  PROVE  PayInv'
<1>0. PICK bt : FollowsBlocks(bt) /\ Payable(bt)
  BY DEF PayInv
<1>d. OrderInv /\ LedgerType /\ DOMAIN packing = Node
  BY DEF DataInv, OrderInv
<1>p. \A n \in Node :
        /\ packing[n].stage = "pending" => PaidFor(bt, packing[n].seen, packing[n].txs)
        /\ packing[n].stage = "packed" => PaidFor(bt, packing[n].block.seen, packing[n].block.txs)
  BY <1>0 DEF Payable
<1>1. ASSUME UNCHANGED <<log, height, balance>>,
             \A n \in Node :
               /\ packing'[n].stage = "pending" => PaidFor(bt, packing'[n].seen, packing'[n].txs)
               /\ packing'[n].stage = "packed" =>
                    PaidFor(bt, packing'[n].block.seen, packing'[n].block.txs)
      PROVE  PayInv'
  <2>1. FollowsBlocks(bt)'
    BY <1>0, <1>1, BalancesKept
  <2>2. Payable(bt)'
    BY <1>0, <1>1, PayableKept
  <2> QED BY <2>1, <2>2 DEF PayInv
<1>2. CASE UNCHANGED <<log, height, balance, packing>>
  BY <1>1, <1>2, <1>p
<1>3. ASSUME NEW c \in Client,
             OpenRequest(c) \/ CheckRequest(c) \/ CommitRequest(c) \/ FailRequest(c)
      PROVE  UNCHANGED <<log, height, balance, packing>>
  BY <1>3 DEF OpenRequest, CheckRequest, CommitRequest, FailRequest, chain
<1>4. ASSUME NEW n \in Node, SkipStaleBlock(n) \/ AcceptBlock(n) \/ FlushScript(n)
      PROVE  UNCHANGED <<log, height, balance, packing>>
  BY <1>4 DEF SkipStaleBlock, AcceptBlock, FlushScript, chain
<1>5. ASSUME NEW n \in Node, Pendings(n) PROVE PayInv'
  <2>1. /\ UNCHANGED <<log, height, balance>>
        /\ \A m \in Node \ {n} : packing'[m] = packing[m]
    BY <1>5, <1>d DEF Pendings, chain
  <2>2. /\ packing'[n].stage = "pending" /\ PaidFor(bt, packing'[n].seen, packing'[n].txs)
    BY <1>0, <1>5, PendingsPays
  <2> QED BY <1>1, <1>p, <2>1, <2>2
<1>6. ASSUME NEW n \in Node, NewBlock(n) PROVE PayInv'
  <2>1. /\ UNCHANGED <<log, height, balance>>
        /\ \A m \in Node \ {n} : packing'[m] = packing[m]
    BY <1>6, <1>d DEF NewBlock, chain
  <2>2. PICK txs, g : txs = packing[n].txs /\ g = packing[n].seen
    OBVIOUS
  <2>3. /\ packing[n].stage = "pending" /\ packing'[n].stage = "packed"
        /\ packing'[n].block.seen = g /\ packing'[n].block.txs = txs
    BY <1>6, <1>d, <2>2 DEF NewBlock
  <2> QED BY <1>1, <1>p, <2>1, <2>2, <2>3
<1>7. ASSUME NEW n \in Node, Discard(n) \/ EndProcess(n) PROVE PayInv'
  <2>1. /\ UNCHANGED <<log, height, balance>> /\ packing' = [packing EXCEPT ![n] = Idle]
    BY <1>7 DEF Discard, EndProcess, chain
  <2>2. \A m \in Node : packing'[m] = packing[m] \/ packing'[m].stage = "idle"
    BY <1>d, <2>1 DEF Idle
  <2> QED BY <1>1, <1>p, <2>1, <2>2
<1>8. ASSUME NEW n \in Node, CommitBlock(n) PROVE PayInv'
  BY <1>0, <1>8, <1>d, CommitBalances, CommitPayable DEF PayInv
<1>9. ASSUME NEW n \in Node, Propose(n) PROVE PayInv'
  <2>1. PICK bs : Extends(bs, bt) /\ FollowsBlocks(bs)'
    BY <1>0, <1>9, <1>d, ProposeBalances
  <2>2. Payable(bs)'
    BY <1>0, <1>9, <2>1, ProposePayable
  <2> QED BY <2>1, <2>2 DEF PayInv
<1>10. CASE Next
  BY <1>2, <1>3, <1>4, <1>5, <1>6, <1>7, <1>8, <1>9, <1>10 DEF Next, RefuseBlock, Crash
<1>11. CASE UNCHANGED vars
  BY <1>2, <1>11 DEF vars, chain
<1> QED BY <1>10, <1>11

\* The senders of a block that was packed from the data of the height below its
\* own have what its transactions come to, on every node that accepts it, as
\* long as locks, amounts and fees fit the signed numbers Pendings compares
\* (Pendings, verify, setAccount).
THEOREM AmountsAreCoveredCorrect ==
  ASSUME AmountsAreSigned
  PROVE  Spec /\ []LocksAreSigned => []AmountsAreCovered
<1>1. ASSUME Init PROVE PayInv
  <2>1. PICK bt : FollowsBlocks(bt)
    BY <1>1, BalancesInitially DEF BalanceInv
  <2>2. Len(log) = 0 /\ \A n \in Node : packing[n].stage = "idle"
    BY <1>1 DEF Init, Idle
  <2>3. Payable(bt)
    BY <2>2 DEF Payable
  <2> QED BY <2>1, <2>3 DEF PayInv
<1>2. AccountsInv /\ LocksAreSigned /\ PayInv /\ [Next]_vars => PayInv'
  BY PayInductive DEF AccountsInv, NonceInv, DataInv
<1>3. ASSUME AccountsInv, PayInv PROVE AmountsAreCovered
  <2> SUFFICES ASSUME NEW n \in Node, flushing[n] # 0, NextBlock(n).seen = height[n],
                      NEW i \in DOMAIN NextBlock(n).txs, NextBlock(n).txs[i].from \notin {Miner[k] : k \in Node}
               PROVE  SpentBefore(NextBlock(n).txs, i) + NextBlock(n).txs[i].amount
                        <= balance[n][NextBlock(n).txs[i].from]
    BY DEF AmountsAreCovered
  <2>1. PICK bt : FollowsBlocks(bt) /\ Payable(bt)
    BY <1>3 DEF PayInv
  <2>2. PICK k : k = applied[n] + 1
    OBVIOUS
  <2>3. k \in 1 .. Len(log)
    BY <1>3, <2>2 DEF AccountsInv, NonceInv, OrderInv, NodeInv, LogType
  <2>4. PICK b : b = log[k]
    OBVIOUS
  <2>5. b = NextBlock(n)
    BY <2>2, <2>4 DEF NextBlock
  <2>6. Affords(bt[height[n]], b.txs)
    BY <2>1, <2>3, <2>4, <2>5 DEF Payable, PaidFor
  <2>7. b.txs[i].from \in Public
    <3>1. IsBlock(b)
      BY <1>3, <2>3, <2>4 DEF AccountsInv, LedgerType
    <3>2. IsTransaction(b.txs[i])
      BY <2>5, <3>1 DEF IsBlock, Transactions
    <3> QED BY <2>5, <3>2 DEF IsTransaction, Public
  <2>8. balance[n][b.txs[i].from] = bt[height[n]][b.txs[i].from]
    BY <2>1, <2>7 DEF FollowsBlocks, Same
  <2>9. SpentBefore(b.txs, i) + b.txs[i].amount <= bt[height[n]][b.txs[i].from]
    BY <2>5, <2>6, <2>7 DEF Affords
  <2> QED BY <2>5, <2>8, <2>9
<1> QED BY <1>1, <1>2, <1>3, AccountsInvCorrect, PTL DEF Spec

---------------------------------------------------------------------------
(***************************************************************************)
(* The supply of money.  Sums of balances are exact as long as no          *)
(* subtraction and no addition wraps.  No addition wraps while all money   *)
(* fits the width, and no subtraction when the senders of a block have     *)
(* what it costs them.                                                     *)
(***************************************************************************)

\* A number of a function of numbers is at most their sum.
LEMMA AtMostSum ==
  ASSUME NEW S, IsFiniteSet(S), NEW f \in [S -> Nat], NEW x \in S
  PROVE  SumFunction(f) \in Nat /\ f[x] <= SumFunction(f)
<1>1. \A y \in S : f[y] \in Int /\ f[y] \in Nat /\ f[y] <= f[y]
  OBVIOUS
<1>2. PICK g : SumsUp(g, f, S)
  BY <1>1, SumsExist
<1>3. SumFunction(f) = g[S]
  <2>1. DOMAIN f = S
    OBVIOUS
  <2> QED BY <1>1, <1>2, <2>1, SumOnSet DEF SumFunction
<1>4. g[{x}] = f[x]
  <2>1. {x} \ {x} = {} /\ {x} \in SUBSET S
    OBVIOUS
  <2>2. g[{x}] = f[x] + g[{}] /\ g[{}] = 0
    BY <1>2, <2>1 DEF SumsUp
  <2> QED BY <1>1, <2>2
<1>5. g[{x}] <= g[S]
  BY <1>1, <1>2, SumsGrow
<1>6. g[S] \in Int /\ f[x] \in Nat
  BY <1>2 DEF SumsUp
<1> QED BY <1>3, <1>4, <1>5, <1>6

\* Numbers that never fall.
LEMMA NeverFall ==
  ASSUME NEW n \in Nat, NEW f \in [0 .. n -> Int], \A k \in 1 .. n : f[k - 1] <= f[k]
  PROVE  \A k \in 0 .. n : f[k] <= f[n]
<1> DEFINE T == {d \in 0 .. n : f[n - d] <= f[n]}
<1>1. 0 \in T
  OBVIOUS
<1>2. ASSUME NEW d \in 0 .. n - 1, d \in T PROVE d + 1 \in T
  <2>1. n - d \in 1 .. n /\ (n - d) - 1 = n - (d + 1) /\ n - (d + 1) \in 0 .. n /\ n \in 0 .. n
    OBVIOUS
  <2>2. f[n - (d + 1)] <= f[n - d]
    BY <2>1
  <2>3. f[n - (d + 1)] \in Int /\ f[n - d] \in Int /\ f[n] \in Int /\ f[n - d] <= f[n]
    BY <1>2, <2>1
  <2> QED BY <2>2, <2>3
<1>3. 0 .. n \subseteq T
  <2> HIDE DEF T
  <2> QED BY <1>1, <1>2, Induction
<1> TAKE k \in 0 .. n
<1>4. PICK d \in 0 .. n : d = n - k
  OBVIOUS
<1>5. d \in T /\ n - d = k
  <2> HIDE DEF T
  <2> QED BY <1>3, <1>4
<1> QED BY <1>5

\* Balances come to a number.
LEMMA SumsAreNumbers ==
  ASSUME IsFiniteSet(Addr), NEW bal \in Balances
  PROVE  SumFunction(bal) \in Nat /\ SumFunction(bal) \in Int
<1>1. bal \in [Addr -> Nat]
  BY ModulusAssumption DEF Balances, Width
<1>2. Ds \in Addr
  BY AccountsAssumption
<1>3. SumFunction(bal) \in Nat
  BY <1>1, <1>2, AtMostSum
<1> QED BY <1>3

\* A sum that stays within the width, added to one balance (Plus).
LEMMA AddExact ==
  ASSUME IsFiniteSet(Addr), NEW bal \in Balances, NEW x \in Addr, NEW v \in Nat,
         SumFunction(bal) + v < Modulus
  PROVE  LET e == [bal EXCEPT ![x] = Plus(@, v)]
         IN /\ e \in Balances /\ SumFunction(e) = SumFunction(bal) + v
            /\ \A a \in Addr : bal[a] \in Nat /\ e[a] \in Nat /\ bal[a] <= e[a]
            /\ \A a \in Addr \ {x} : e[a] = bal[a]
<1> DEFINE w == bal[x] + v
           e == [bal EXCEPT ![x] = w]
<1>0. Modulus \in Nat \ {0}
  BY ModulusAssumption
<1>1. bal \in [Addr -> Nat] /\ bal \in [Addr -> Int]
  BY <1>0 DEF Balances, Width
<1>2. bal[x] \in Nat /\ SumFunction(bal) \in Nat /\ bal[x] <= SumFunction(bal)
  BY <1>1, AtMostSum
<1>3. w \in 0 .. Modulus - 1 /\ w = (Modulus * 0) + w
  BY <1>0, <1>2
<1>4. Plus(bal[x], v) = w
  <2>1. bal[x] + v = w
    OBVIOUS
  <2> HIDE DEF w
  <2>2. w % Modulus = w
    BY <1>0, <1>3, RemainderUnique
  <2> QED BY <2>1, <2>2 DEF Plus
<1>5. w \in Int /\ w = bal[x] + v /\ bal[x] <= w
  BY <1>2
<1> HIDE DEF w
<1>6. SumFunction(e) = SumFunction(bal) - bal[x] + w
  BY <1>1, <1>5, SumAfterChange
<1>7. SumFunction(e) = SumFunction(bal) + v
  <2> HIDE DEF e
  <2> QED BY <1>2, <1>5, <1>6
<1>8. e \in Balances
  BY <1>3 DEF Balances, Width
<1>9. ASSUME NEW a \in Addr PROVE bal[a] \in Nat /\ e[a] \in Nat /\ bal[a] <= e[a]
  BY <1>1, <1>3, <1>5
<1>10. \A a \in Addr \ {x} : e[a] = bal[a]
  BY <1>1
<1>11. [bal EXCEPT ![x] = Plus(@, v)] = e
  BY <1>4
<1> HIDE DEF e
<1> QED BY <1>7, <1>8, <1>9, <1>10, <1>11

\* A transaction that its sender can pay moves money and fee, and neither
\* makes nor loses any, unless it has a fee and no script (setMinerFee,
\* setAccount).
LEMMA ExecuteExact ==
  ASSUME IsFiniteSet(Addr), NEW n \in Node, NEW bal \in Balances, NEW tx, IsTransaction(tx),
         tx.from \in Public, tx.from # tx.to, tx.amount + tx.fee <= bal[tx.from],
         tx.script = <<>> => tx.fee = 0,
         SumFunction(bal) < Modulus
  PROVE  LET e == Execute(n, bal, tx)
         IN /\ SumFunction(e) = SumFunction(bal)
            /\ e[tx.from] = bal[tx.from] - (tx.amount + tx.fee)
            /\ \A a \in Addr \ {tx.from} : bal[a] <= e[a]
<1> DEFINE from == tx.from
           to == tx.to
           amount == tx.amount
           fee == tx.fee
           miner == Miner[n]
           left == bal[from] - (amount + fee)
           s == [bal EXCEPT ![from] = left]
           t == [s EXCEPT ![miner] = Plus(@, fee)]
           u == [t EXCEPT ![to] = Plus(@, amount)]
           e == Execute(n, bal, tx)
<1>1. /\ from \in Addr /\ to \in Addr /\ miner \in Addr /\ from # miner /\ from # to
      /\ amount \in Width /\ fee \in Width /\ amount \in Nat /\ fee \in Nat
      /\ Modulus \in Nat \ {0}
  BY AccountsAssumption, ModulusAssumption DEF IsTransaction, Width, Public
<1>2. bal \in [Addr -> Int] /\ bal[from] \in Width /\ bal[from] \in Nat /\ \A a \in Addr : bal[a] \in Nat
  BY <1>1 DEF Balances, Width
<1>3. /\ left \in Width /\ left \in Int /\ left = bal[from] - (amount + fee)
      /\ Minus(Minus(bal[from], amount), fee) = left
  <2>1. amount <= bal[from] /\ bal[from] - amount \in Width /\ fee <= bal[from] - amount
    BY <1>1, <1>2 DEF Width
  <2>2. Minus(bal[from], amount) = bal[from] - amount
    BY <1>1, <1>2, <2>1, MinusIsExact DEF Width
  <2>3. Minus(bal[from] - amount, fee) = (bal[from] - amount) - fee
    BY <1>1, <2>1, MinusIsExact DEF Width
  <2>4. left = (bal[from] - amount) - fee /\ left \in Width
    BY <1>1, <1>2 DEF Width
  <2> QED BY <1>1, <1>2, <2>2, <2>3, <2>4
<1> HIDE DEF left, amount, fee, from, to, miner
<1>4. /\ s \in Balances /\ s[from] = left /\ \A a \in Addr \ {from} : s[a] = bal[a]
      /\ SumFunction(s) = SumFunction(bal) - (amount + fee)
      /\ SumFunction(bal) \in Int
  <2>1. s \in Balances /\ s[from] = left /\ \A a \in Addr \ {from} : s[a] = bal[a]
    BY <1>1, <1>3 DEF Balances
  <2>2. SumFunction(s) = SumFunction(bal) - bal[from] + left /\ SumFunction(bal) \in Int
    BY <1>1, <1>2, <1>3, SumAfterChange
  <2> HIDE DEF s
  <2>3. SumFunction(s) = SumFunction(bal) - (amount + fee)
    BY <1>1, <1>2, <1>3, <2>2
  <2> QED BY <2>1, <2>2, <2>3
<1> HIDE DEF s
<1>5. /\ t \in Balances /\ SumFunction(t) = SumFunction(s) + fee
      /\ \A a \in Addr : s[a] \in Nat /\ t[a] \in Nat /\ s[a] <= t[a]
      /\ \A a \in Addr \ {miner} : t[a] = s[a]
  <2>1. SumFunction(s) + fee < Modulus
    BY <1>1, <1>4
  <2> QED BY <1>1, <1>4, <2>1, AddExact
<1>6. /\ u \in Balances /\ SumFunction(u) = SumFunction(t) + amount
      /\ \A a \in Addr : t[a] \in Nat /\ u[a] \in Nat /\ t[a] <= u[a]
      /\ \A a \in Addr \ {to} : u[a] = t[a]
  <2>1. SumFunction(t) + amount < Modulus
    BY <1>1, <1>4, <1>5
  <2> HIDE DEF t
  <2> QED BY <1>1, <1>5, <2>1, AddExact
<1>7. e = u
  <2> DEFINE m == [bal EXCEPT ![miner] = Plus(@, fee)]
  <2>0. (IF tx.script = <<>> THEN bal ELSE SetMinerFee(bal, Miner[n], tx.fee)) = m
    <3>1. CASE tx.script # <<>>
      BY <3>1 DEF SetMinerFee, fee, miner
    <3>2. CASE tx.script = <<>>
      <4>1. fee = 0
        BY <3>2 DEF fee
      <4>2. bal[miner] \in 0 .. Modulus - 1 /\ bal[miner] + 0 = bal[miner]
            /\ bal[miner] = (Modulus * 0) + bal[miner] /\ bal[miner] \in Int
        BY <1>1 DEF Balances, Width
      <4>3. Plus(bal[miner], fee) = bal[miner]
        BY <1>1, <4>1, <4>2, RemainderUnique DEF Plus
      <4>4. m = bal
        BY <4>3 DEF Balances
      <4> QED BY <3>2, <4>4
    <3> QED BY <3>1, <3>2
  <2>1. e = [m EXCEPT ![from] = Minus(Minus(@, amount), fee), ![to] = Plus(m[to], amount)]
    <3> HIDE DEF m
    <3> QED BY <2>0 DEF Execute, SetAccount, from, to, amount, fee
  <2>2. DOMAIN bal = Addr /\ m \in Balances
    BY <1>1, <1>2, WidthType DEF Balances
  <2>3. m[from] = bal[from] /\ \A a \in Addr \ {from} : m[a] = t[a]
    BY <1>1, <1>4, <2>2 DEF s
  <2> HIDE DEF m, t
  <2>4. e[from] = left /\ e[to] = Plus(t[to], amount)
    BY <1>1, <1>3, <2>1, <2>2, <2>3 DEF Balances
  <2>5. \A a \in Addr \ {from, to} : e[a] = t[a]
    BY <1>1, <2>1, <2>2, <2>3 DEF Balances
  <2>6. e = [a \in Addr |-> e[a]]
    BY <2>1, <2>2 DEF Balances
  <2>7. u = [a \in Addr |-> u[a]] /\ u[to] = Plus(t[to], amount)
    BY <1>1, <1>5 DEF Balances
  <2>8. t[from] = left
    BY <1>1, <1>4, <1>5
  <2> HIDE DEF e, u
  <2>9. \A a \in Addr : e[a] = u[a]
    BY <1>1, <1>6, <2>4, <2>5, <2>7, <2>8
  <2> QED BY <2>6, <2>7, <2>9
<1> HIDE DEF e, t, u
<1>8. SumFunction(e) = SumFunction(bal)
  BY <1>1, <1>4, <1>5, <1>6, <1>7
<1>9. e[from] = left
  BY <1>1, <1>4, <1>5, <1>6, <1>7
<1>10. ASSUME NEW a \in Addr \ {from} PROVE bal[a] <= e[a]
  <2>1. s[a] = bal[a] /\ s[a] <= t[a] /\ t[a] <= u[a] /\ s[a] \in Nat /\ t[a] \in Nat /\ u[a] \in Nat
    BY <1>4, <1>5, <1>6
  <2> QED BY <1>7, <2>1
<1> QED BY <1>3, <1>8, <1>9, <1>10 DEF e, from, amount, fee

---------------------------------------------------------------------------

\* What payments come to.
Reward(payments) == FoldLeft(LAMBDA sum, p : sum + p.amount, 0, payments)

\* The payments of a block, added up one by one.
Earns(h, n, ps) ==
  /\ h \in [0 .. n -> Nat] /\ h[0] = 0 /\ h[n] = Reward(ps)
  /\ \A k \in 1 .. n : h[k] = h[k - 1] + ps[k].amount

\* The sum is one of numbers, each at most the whole.
LEMMA RewardFold ==
  ASSUME NEW n \in Nat, NEW ps, DOMAIN ps = 1 .. n, \A i \in 1 .. n : IsPayment(ps[i])
  PROVE  \E h : Earns(h, n, ps)
<1> DEFINE P(g) == g = [s \in SUBSET DOMAIN ps |->
                          IF s = {} THEN 0
                          ELSE LET x == Max(s) IN g[s \ {x}] + ps[x].amount]
           g0 == CHOOSE g : P(g)
           F == [p \in (1 .. n) \X Nat |-> p[2] + ps[p[1]].amount]
<1>1. \A x \in Nat, i \in 1 .. n : x + ps[i].amount \in Nat
  BY DEF IsPayment
<1>2. Reward(ps) = g0[1 .. n]
  BY DEF Reward, FoldLeft, MapThenFoldSet
<1>3. F \in [(1 .. n) \X Nat -> Nat]
  BY <1>1
<1>4. PICK g : Folds(g, n, Nat, 0, F)
  <2> HIDE DEF F
  <2> QED BY <1>3, FoldExists
<1>5. P(g)
  <2>1. ASSUME NEW s \in SUBSET (1 .. n), s # {}
        PROVE  F[<<Max(s), g[s \ {Max(s)}]>>] = g[s \ {Max(s)}] + ps[Max(s)].amount
    <3>1. Max(s) \in 1 .. n /\ g[s \ {Max(s)}] \in Nat
      BY <1>4, <2>1, MaxOfInterval DEF Folds
    <3> QED BY <3>1
  <2> HIDE DEF F
  <2> QED BY <1>4, <2>1 DEF Folds
<1>6. P(g0)
  <2> HIDE DEF P
  <2> QED BY <1>5, Zenon
<1> HIDE DEF g0
<1>7. Steps(g0, n, Nat, 0, F)
  BY <1>6, MaxOfInterval DEF Steps
<1>8. PICK h : Results(h, n, Nat, 0, F, g0[1 .. n])
  <2> HIDE DEF F
  <2> QED BY <1>3, <1>7, FoldResults
<1>9. ASSUME NEW k \in 1 .. n PROVE h[k] = h[k - 1] + ps[k].amount
  <2>1. h[k - 1] \in Nat
    BY <1>8 DEF Results
  <2> QED BY <1>8, <2>1 DEF Results
<1> HIDE DEF F
<1>10. Earns(h, n, ps)
  BY <1>2, <1>8, <1>9 DEF Results, Earns
<1> QED BY <1>10

\* Payments that fit the width are added to the money there is, and take
\* nothing from anybody (setMinerAccount).
LEMMA PayExact ==
  ASSUME IsFiniteSet(Addr), NEW ps, Payments(ps), NEW bal \in Balances,
         SumFunction(bal) + Reward(ps) < Modulus
  PROVE  /\ Pay(bal, ps) \in Balances /\ Reward(ps) \in Nat
         /\ SumFunction(Pay(bal, ps)) = SumFunction(bal) + Reward(ps)
         /\ \A a \in Addr : bal[a] <= Pay(bal, ps)[a]
<1>1. PICK n \in Nat : DOMAIN ps = 1 .. n /\ \A i \in 1 .. n : IsPayment(ps[i])
  BY DEF Payments
<1>2. PICK h : Pays(h, n, bal, ps)
  BY <1>1, PayFold
<1>3. PICK r : Earns(r, n, ps)
  BY <1>1, RewardFold
<1> DEFINE T == {k \in 0 .. n : /\ SumFunction(h[k]) = SumFunction(bal) + r[k]
                                /\ \A a \in Addr : bal[a] <= h[k][a]}
<1>4. /\ bal \in [Addr -> Nat] /\ SumFunction(bal) \in Nat /\ Modulus \in Nat \ {0}
      /\ \A k \in 0 .. n : h[k] \in Balances /\ h[k] \in [Addr -> Nat] /\ r[k] \in Nat
  <2>1. Modulus \in Nat \ {0}
    BY ModulusAssumption
  <2>2. \A x \in Balances : x \in [Addr -> Nat]
    BY <2>1 DEF Balances, Width
  <2>3. SumFunction(bal) \in Nat
    BY SumsAreNumbers
  <2> QED BY <1>2, <1>3, <2>1, <2>2, <2>3 DEF Pays, Earns
<1>5. \A k \in 0 .. n : r[k] <= r[n]
  <2>1. r \in [0 .. n -> Int] /\ \A k \in 1 .. n : r[k - 1] <= r[k]
    <3>1. ASSUME NEW k \in 1 .. n PROVE r[k - 1] <= r[k]
      <4>1. k - 1 \in 0 .. n
        OBVIOUS
      <4>2. r[k] = r[k - 1] + ps[k].amount /\ r[k - 1] \in Nat
        BY <1>3, <4>1 DEF Earns
      <4>3. ps[k].amount \in Nat
        BY <1>1 DEF IsPayment
      <4> QED BY <4>2, <4>3
    <3> QED BY <1>3, <3>1 DEF Earns
  <2> QED BY <2>1, NeverFall
<1>6. 0 \in T
  <2>1. h[0] = bal /\ r[0] = 0
    BY <1>2, <1>3 DEF Pays, Earns
  <2> QED BY <1>4, <2>1
<1>7. ASSUME NEW k \in 0 .. n - 1, k \in T PROVE k + 1 \in T
  <2> DEFINE p == ps[k + 1]
             v == p.amount
             x == p.to
  <2>1. k + 1 \in 1 .. n /\ k + 1 \in 0 .. n /\ (k + 1) - 1 = k /\ k \in 0 .. n
    OBVIOUS
  <2>2. /\ h[k + 1] = [h[k] EXCEPT ![x] = Plus(@, v)] /\ r[k + 1] = r[k] + v
        /\ x \in Addr /\ v \in Nat
    BY <1>1, <1>2, <1>3, <2>1 DEF Pays, Earns, PayOne, IsPayment
  <2>3. SumFunction(h[k]) = SumFunction(bal) + r[k] /\ \A a \in Addr : bal[a] <= h[k][a]
    BY <1>7
  <2>4. r[k + 1] <= r[n] /\ r[n] = Reward(ps) /\ r[k] \in Nat /\ r[k + 1] \in Nat /\ r[n] \in Nat
    BY <1>3, <1>4, <1>5, <2>1 DEF Earns
  <2>5. SumFunction(h[k]) + v < Modulus
    <3> DEFINE x1 == SumFunction(h[k])
               x2 == SumFunction(bal)
    <3>1. x1 = x2 + r[k] /\ x2 \in Nat /\ x2 + r[n] < Modulus
      BY <1>4, <2>3, <2>4
    <3> HIDE DEF x1, x2, v
    <3>2. x1 + v < Modulus
      BY <1>4, <2>2, <2>4, <3>1
    <3> QED BY <3>2 DEF x1
  <2> HIDE DEF v, x, p
  <2>6. /\ SumFunction(h[k + 1]) = SumFunction(h[k]) + v
        /\ \A a \in Addr : h[k][a] \in Nat /\ h[k + 1][a] \in Nat /\ h[k][a] <= h[k + 1][a]
    BY <1>4, <2>1, <2>2, <2>5, AddExact
  <2>7. SumFunction(h[k + 1]) = SumFunction(bal) + r[k + 1]
    BY <1>4, <2>2, <2>3, <2>4, <2>6
  <2>8. \A a \in Addr : bal[a] <= h[k + 1][a]
    <3> TAKE a \in Addr
    <3>1. bal[a] \in Nat /\ bal[a] <= h[k][a] /\ h[k][a] \in Nat /\ h[k + 1][a] \in Nat
          /\ h[k][a] <= h[k + 1][a]
      BY <1>4, <2>3, <2>6
    <3> QED BY <3>1
  <2> QED BY <2>1, <2>7, <2>8
<1>8. 0 .. n \subseteq T
  <2> HIDE DEF T
  <2> QED BY <1>6, <1>7, Induction
<1>9. n \in T /\ h[n] = Pay(bal, ps) /\ r[n] = Reward(ps) /\ n \in 0 .. n
  BY <1>2, <1>3, <1>8 DEF Pays, Earns
<1> QED BY <1>4, <1>9

---------------------------------------------------------------------------

\* The senders of a block are not the nodes themselves, and each can pay its
\* amounts and fees from bal, one transaction after the other.
Covers(bal, txs) ==
  \A i \in DOMAIN txs :
    /\ txs[i].from \in Public /\ txs[i].from # txs[i].to
    /\ txs[i].script = <<>> => txs[i].fee = 0
    /\ bal[txs[i].from] - SpentBefore(txs, i) >= txs[i].amount + txs[i].fee

\* Who can pay from less can pay from more.
LEMMA CoversMore ==
  ASSUME NEW n \in Nat, NEW txs, DOMAIN txs = 1 .. n, \A i \in 1 .. n : IsTransaction(txs[i]),
         NEW x \in Balances, NEW y \in Balances, Covers(x, txs),
         \A i \in 1 .. n : x[txs[i].from] <= y[txs[i].from]
  PROVE  Covers(y, txs)
<1>1. PICK g : SumsUp(g, Costs(n, txs), 1 .. n)
  <2>1. \A i \in 1 .. n : Costs(n, txs)[i] \in Int
    BY CostsAre
  <2>2. IsFiniteSet(1 .. n)
    BY UpToIsFinite
  <2> QED BY <2>1, <2>2, SumsExist
<1> SUFFICES ASSUME NEW i \in 1 .. n
             PROVE  y[txs[i].from] - SpentBefore(txs, i) >= txs[i].amount + txs[i].fee
  BY DEF Covers
<1> DEFINE u == x[txs[i].from]
           v == y[txs[i].from]
           w == SpentBefore(txs, i)
           z == txs[i].amount + txs[i].fee
<1>2. u \in Int /\ v \in Int /\ w \in Int /\ z \in Int
  <2>1. txs[i].from \in Addr /\ z \in Int
    BY ModulusAssumption DEF IsTransaction, Width
  <2>2. w \in Int
    BY <1>1, SpentIs
  <2> QED BY <2>1, <2>2, ModulusAssumption DEF Balances, Width
<1>3. u - w >= z /\ u <= v
  BY DEF Covers
<1> HIDE DEF u, v, w, z
<1>4. v - w >= z
  BY <1>2, <1>3
<1> QED BY <1>4 DEF v, w, z

\* The transactions of a block that their senders can pay make and lose no
\* money.
LEMMA ExecuteAllExact ==
  ASSUME IsFiniteSet(Addr), NEW n \in Nat, NEW txs, DOMAIN txs = 1 .. n,
         \A i \in 1 .. n : IsTransaction(txs[i]),
         NEW m \in Node, NEW bal \in Balances, Covers(bal, txs), SumFunction(bal) < Modulus
  PROVE  /\ ExecuteAll(m, bal, txs) \in Balances
         /\ SumFunction(ExecuteAll(m, bal, txs)) = SumFunction(bal)
<1>1. PICK h : Executes(h, n, m, bal, txs)
  BY ExecuteFold
<1>2. ASSUME NEW i \in 1 .. n
      PROVE  Costs(n, txs)[i] \in Int /\ Costs(n, txs)[i] = txs[i].amount + txs[i].fee
  <2>1. Costs(n, txs)[i] \in Int /\ Costs(n, txs)[i] = Spends(txs[i])
    BY CostsAre
  <2>2. txs[i].amount \in Int /\ (txs[i].script = <<>> => txs[i].fee = 0)
    BY ModulusAssumption DEF IsTransaction, Width, Covers
  <2>3. Spends(txs[i]) = txs[i].amount + txs[i].fee
    <3>1. CASE txs[i].script = <<>>
      BY <2>2, <3>1 DEF Spends
    <3>2. CASE txs[i].script # <<>>
      BY <3>2 DEF Spends
    <3> QED BY <3>1, <3>2
  <2> QED BY <2>1, <2>3
<1>3. PICK g : SumsUp(g, Costs(n, txs), 1 .. n)
  <2>1. IsFiniteSet(1 .. n)
    BY UpToIsFinite
  <2> QED BY <1>2, <2>1, SumsExist
<1> DEFINE T == {k \in 0 .. n : /\ SumFunction(h[k]) = SumFunction(bal)
                                /\ \A a \in Addr : bal[a] - g[From(txs, k, a)] <= h[k][a]}
<1>4. /\ Modulus \in Nat \ {0} /\ \A x \in Balances, a \in Addr : x[a] \in Int
      /\ \A k \in 0 .. n : h[k] \in Balances
  BY <1>1, ModulusAssumption DEF Balances, Width, Executes
<1>5. \A k \in 0 .. n, a \in Addr : From(txs, k, a) \in SUBSET (1 .. n) /\ g[From(txs, k, a)] \in Int
  <2>1. ASSUME NEW k \in 0 .. n, NEW a \in Addr PROVE From(txs, k, a) \in SUBSET (1 .. n)
    BY DEF From
  <2> QED BY <1>3, <2>1 DEF SumsUp
<1>6. 0 \in T
  <2>1. ASSUME NEW a \in Addr PROVE bal[a] - g[From(txs, 0, a)] <= h[0][a]
    <3>1. From(txs, 0, a) = {}
      BY DEF From
    <3>2. g[{}] = 0 /\ h[0] = bal /\ bal[a] \in Int
      BY <1>1, <1>3, <1>4 DEF SumsUp, Executes
    <3>3. g[From(txs, 0, a)] = 0
      BY <3>1, <3>2
    <3> DEFINE u == bal[a]
               v == g[From(txs, 0, a)]
               w == h[0][a]
    <3>4. u \in Int /\ v = 0 /\ w = u
      BY <3>2, <3>3
    <3> HIDE DEF u, v, w
    <3>5. u - v <= w
      BY <3>4
    <3> QED BY <3>5 DEF u, v, w
  <2> QED BY <1>1, <2>1 DEF Executes
<1>7. ASSUME NEW k \in 0 .. n - 1, k \in T PROVE k + 1 \in T
  <2>x. PICK tx : tx = txs[k + 1]
    OBVIOUS
  <2>c. PICK c : c = tx.amount + tx.fee
    OBVIOUS
  <2>1. k + 1 \in 1 .. n /\ k + 1 \in 0 .. n /\ (k + 1) - 1 = k /\ k \in 0 .. n
    OBVIOUS
  <2>2. /\ h[k + 1] = Execute(m, h[k], tx) /\ IsTransaction(tx) /\ tx.from \in Addr
        /\ tx.from \in Public /\ tx.from # tx.to /\ c \in Int
        /\ (tx.script = <<>> => tx.fee = 0)
        /\ Costs(n, txs)[k + 1] = c
    BY <1>1, <1>2, <2>1, <2>x, <2>c DEF Executes, Covers, IsTransaction, Width
  <2>3. c <= h[k][tx.from]
    <3> DEFINE spent == g[From(txs, k, tx.from)]
    <3>1. SpentBefore(txs, k + 1) = spent
      <4>1. /\ SpentBefore(txs, k + 1) = g[Before(txs, k + 1)]
            /\ Before(txs, k + 1) = From(txs, (k + 1) - 1, txs[k + 1].from)
        BY <1>3, <2>1, SpentIs
      <4> QED BY <2>1, <2>x, <4>1
    <3>2. bal[tx.from] - spent >= c
      BY <2>1, <2>x, <2>c, <3>1 DEF Covers
    <3>3. bal[tx.from] - spent <= h[k][tx.from] /\ h[k][tx.from] \in Int /\ bal[tx.from] \in Int
          /\ spent \in Int
      BY <1>4, <1>5, <1>7, <2>1, <2>2
    <3> HIDE DEF spent
    <3> QED BY <2>2, <3>2, <3>3
  <2>4. SumFunction(h[k]) = SumFunction(bal) /\ h[k] \in Balances
    BY <1>4, <1>7, <2>1
  <2>5. /\ SumFunction(h[k + 1]) = SumFunction(h[k])
        /\ h[k + 1][tx.from] = h[k][tx.from] - c
        /\ \A a \in Addr \ {tx.from} : h[k][a] <= h[k + 1][a]
    BY <2>2, <2>3, <2>4, <2>c, ExecuteExact
  <2>6. ASSUME NEW a \in Addr
        PROVE  bal[a] - g[From(txs, k + 1, a)] <= h[k + 1][a]
    <3>1. /\ bal[a] \in Int /\ h[k][a] \in Int /\ h[k + 1][a] \in Int
          /\ g[From(txs, k, a)] \in Int /\ g[From(txs, k + 1, a)] \in Int
          /\ bal[a] - g[From(txs, k, a)] <= h[k][a]
      BY <1>4, <1>5, <1>7, <2>1
    <3>2. CASE a = tx.from
      <4>1. k + 1 \in From(txs, k + 1, a) /\ From(txs, k + 1, a) \ {k + 1} = From(txs, k, a)
        BY <2>1, <2>x, <3>2 DEF From
      <4>0. From(txs, k + 1, a) \in SUBSET (1 .. n)
        BY <1>5, <2>1
      <4>2. g[From(txs, k + 1, a)] = c + g[From(txs, k, a)]
        BY <1>3, <2>2, <4>0, <4>1 DEF SumsUp
      <4> DEFINE u == bal[a]
                 v == g[From(txs, k, a)]
                 v1 == g[From(txs, k + 1, a)]
                 w == h[k][a]
                 w1 == h[k + 1][a]
      <4>3. u \in Int /\ v \in Int /\ w \in Int /\ c \in Int
        BY <2>2, <3>1
      <4>4. v1 = c + v
        BY <4>2
      <4>5. w1 = w - c
        BY <2>5, <3>2
      <4>6. u - v <= w
        BY <3>1
      <4> HIDE DEF u, v, v1, w, w1
      <4>7. u - v1 <= w1
        BY <4>3, <4>4, <4>5, <4>6
      <4> QED BY <4>7 DEF u, v1, w1
    <3>3. CASE a # tx.from
      <4>1. From(txs, k + 1, a) = From(txs, k, a)
        BY <2>1, <2>x, <3>3 DEF From
      <4>2. h[k][a] <= h[k + 1][a]
        BY <2>5, <3>3
      <4> QED BY <3>1, <4>1, <4>2
    <3> QED BY <3>2, <3>3
  <2> QED BY <2>1, <2>4, <2>5, <2>6
<1>8. 0 .. n \subseteq T
  <2> HIDE DEF T
  <2> QED BY <1>6, <1>7, Induction
<1>9. n \in T /\ h[n] = ExecuteAll(m, bal, txs) /\ h[n] \in Balances
  BY <1>1, <1>4, <1>8 DEF Executes
<1> QED BY <1>9

\* A block whose senders can pay adds its rewards to the money there is.
LEMMA BlockExact ==
  ASSUME IsFiniteSet(Addr), NEW b, IsBlock(b), NEW m \in Node, NEW bal \in Balances,
         Covers(bal, b.txs), SumFunction(bal) + Reward(b.first) < Modulus
  PROVE  /\ After(m, bal, b) \in Balances
         /\ SumFunction(After(m, bal, b)) = SumFunction(bal) + Reward(b.first)
<1> DEFINE paid == Pay(bal, b.first)
           txs == b.txs
           e == ExecuteAll(m, paid, txs)
<1>1. PICK n \in Nat : DOMAIN txs = 1 .. n /\ \A i \in 1 .. n : IsTransaction(txs[i])
  <2>1. \A k \in 0 .. BlockLimit : k \in Nat
    BY AccountsAssumption
  <2> QED BY <2>1 DEF IsBlock, Transactions
<1>2. /\ paid \in Balances /\ \A a \in Addr : bal[a] <= paid[a]
      /\ SumFunction(paid) = SumFunction(bal) + Reward(b.first)
  BY PayExact DEF IsBlock
<1>3. Covers(paid, txs)
  <2>1. \A i \in 1 .. n : bal[txs[i].from] <= paid[txs[i].from]
    BY <1>1, <1>2 DEF IsTransaction
  <2> HIDE DEF paid
  <2> QED BY <1>1, <1>2, <2>1, CoversMore
<1>4. SumFunction(paid) < Modulus
  BY <1>2
<1> HIDE DEF paid, txs
<1>5. e \in Balances /\ SumFunction(e) = SumFunction(paid)
  BY <1>1, <1>2, <1>3, <1>4, ExecuteAllExact
<1>6. After(m, bal, b) = e
  BY DEF After, paid, txs
<1> QED BY <1>2, <1>5, <1>6

\* Payments come to a number.
LEMMA RewardsAreNumbers ==
  ASSUME NEW ps, Payments(ps)
  PROVE  Reward(ps) \in Nat
<1>1. PICK n \in Nat : DOMAIN ps = 1 .. n /\ \A i \in 1 .. n : IsPayment(ps[i])
  BY DEF Payments
<1>2. PICK r : Earns(r, n, ps)
  BY <1>1, RewardFold
<1> QED BY <1>2 DEF Earns

\* What the blocks C of a log pay out.
Issued(lg, C) ==
  MapThenSumSet(LAMBDA i : FoldLeft(LAMBDA sum, p : sum + p.amount, 0, lg[i].first), C)

\* f has what each of the blocks C pays out.
Rewards(f, lg, C) == \A i \in C : f[i] \in Int /\ f[i] = Reward(lg[i].first)

\* The same as a sum over the log's blocks.
LEMMA IssuedIs ==
  ASSUME NEW S, IsFiniteSet(S), NEW f, NEW g, SumsUp(g, f, S), NEW C \in SUBSET S, NEW lg,
         Rewards(f, lg, C)
  PROVE  Issued(lg, C) = g[C] /\ g[C] \in Int
<1> DEFINE Of(i) == FoldLeft(LAMBDA sum, p : sum + p.amount, 0, lg[i].first)
           P(e) == e = [s \in SUBSET C |->
                          IF s = {} THEN 0
                          ELSE LET x == CHOOSE x \in s : TRUE IN Of(x) + e[s \ {x}]]
           e0 == CHOOSE e : P(e)
<1>1. Issued(lg, C) = e0[C]
  BY DEF Issued, MapThenSumSet, MapThenFoldSet
<1>2. \A i \in C : f[i] \in Int /\ f[i] = Of(i)
  BY DEF Reward, Rewards
<1>3. IsFiniteSet(C)
  BY FS_Subset
<1> HIDE DEF Of
<1>4. PICK e \in [SUBSET C -> Int] : Adds(e, f, C)
  BY <1>2, <1>3, AddsExists
<1>5. P(e)
  BY <1>2, <1>4 DEF Adds, Chosen
<1>6. P(e0)
  <2> HIDE DEF P
  <2> QED BY <1>5, Zenon
<1> HIDE DEF e0
<1>7. Adds(e0, f, C)
  BY <1>2, <1>6 DEF Adds, Chosen
<1>8. e0[C] = g[C]
  <2>1. PICK d, ee : d = f /\ ee = e0
    OBVIOUS
  <2>2. Adds(ee, d, C) /\ \A x \in C : d[x] = f[x]
    BY <1>7, <2>1
  <2>3. ee[C] = g[C]
    BY <2>2, SumIsUnique
  <2> QED BY <2>1, <2>3
<1>9. g[C] \in Int
  BY DEF SumsUp
<1> QED BY <1>1, <1>8, <1>9

\* A chain that one more block is added to.
LEMMA IssuedMore ==
  ASSUME NEW n \in Nat, NEW lg, \A i \in 1 .. n : Payments(lg[i].first),
         NEW C \in SUBSET (1 .. n), NEW k \in 1 .. n, k \notin C
  PROVE  /\ Issued(lg, C) \in Int /\ Reward(lg[k].first) \in Int
         /\ Issued(lg, C \cup {k}) = Issued(lg, C) + Reward(lg[k].first)
<1> DEFINE f == [i \in 1 .. n |-> Reward(lg[i].first)]
<1>1. \A i \in 1 .. n : f[i] = Reward(lg[i].first) /\ f[i] \in Int
  <2>1. \A i \in 1 .. n : Reward(lg[i].first) \in Nat
    BY RewardsAreNumbers
  <2> QED BY <2>1
<1> HIDE DEF f
<1>3. IsFiniteSet(1 .. n)
  BY UpToIsFinite
<1>2. PICK g : SumsUp(g, f, 1 .. n)
  <2>1. \A i \in 1 .. n : f[i] \in Int
    BY <1>1
  <2> QED BY <1>3, <2>1, SumsExist
<1>4. PICK D : D = C \cup {k}
  OBVIOUS
<1>5. D \in SUBSET (1 .. n) /\ k \in D /\ D \ {k} = C
  BY <1>4
<1>6. \A E \in SUBSET (1 .. n) : Issued(lg, E) = g[E] /\ g[E] \in Int
  <2> TAKE E \in SUBSET (1 .. n)
  <2>1. Rewards(f, lg, E)
    BY <1>1 DEF Rewards
  <2>2. PICK S : S = 1 .. n
    OBVIOUS
  <2>3. IsFiniteSet(S) /\ SumsUp(g, f, S) /\ E \in SUBSET S
    BY <1>2, <1>3, <2>2
  <2> QED BY <2>1, <2>3, IssuedIs
<1>7. Issued(lg, D) = g[D] /\ Issued(lg, C) = g[C] /\ g[C] \in Int
  BY <1>5, <1>6
<1>8. g[D] = f[k] + g[C]
  BY <1>2, <1>5 DEF SumsUp
<1> QED BY <1>1, <1>4, <1>7, <1>8

\* Logs that agree on a chain.
LEMMA IssuedAlike ==
  ASSUME NEW n \in Nat, NEW lg, NEW mr, \A i \in 1 .. n : Payments(lg[i].first),
         NEW C \in SUBSET (1 .. n), \A i \in C : mr[i] = lg[i]
  PROVE  Issued(mr, C) = Issued(lg, C)
<1> DEFINE f == [i \in 1 .. n |-> Reward(lg[i].first)]
<1>1. \A i \in 1 .. n : f[i] = Reward(lg[i].first) /\ f[i] \in Int
  <2>1. \A i \in 1 .. n : Reward(lg[i].first) \in Nat
    BY RewardsAreNumbers
  <2> QED BY <2>1
<1>0. \A i \in C : f[i] = Reward(mr[i].first)
  <2> TAKE i \in C
  <2>1. mr[i] = lg[i] /\ i \in 1 .. n
    OBVIOUS
  <2> QED BY <1>1, <2>1
<1> HIDE DEF f
<1>3. IsFiniteSet(1 .. n)
  BY UpToIsFinite
<1>2. PICK g : SumsUp(g, f, 1 .. n)
  <2>1. \A i \in 1 .. n : f[i] \in Int
    BY <1>1
  <2> QED BY <1>3, <2>1, SumsExist
<1>4. PICK S : S = 1 .. n
  OBVIOUS
<1>5. IsFiniteSet(S) /\ SumsUp(g, f, S) /\ C \in SUBSET S
  BY <1>2, <1>3, <1>4
<1>6. Issued(lg, C) = g[C] /\ g[C] \in Int
  <2>1. Rewards(f, lg, C)
    BY <1>1 DEF Rewards
  <2> QED BY <1>5, <2>1, IssuedIs
<1>7. Issued(mr, C) = g[C] /\ g[C] \in Int
  <2>1. Rewards(f, mr, C)
    BY <1>0, <1>1 DEF Rewards
  <2> QED BY <1>5, <2>1, IssuedIs
<1> QED BY <1>6, <1>7

\* Without blocks nothing is paid out.
LEMMA NoneIssued == \A lg : Issued(lg, {}) = 0
<1> TAKE lg
<1>1. \A i \in {} : FALSE
  OBVIOUS
<1> DEFINE f == [i \in {} |-> 0]
<1>2. IsFiniteSet({})
  BY FS_EmptySet
<1>3. PICK g : SumsUp(g, f, {})
  <2>1. \A i \in {} : f[i] \in Int
    OBVIOUS
  <2> HIDE DEF f
  <2> QED BY <1>2, <2>1, SumsExist
<1> HIDE DEF f
<1>4. Issued(lg, {}) = g[{}]
  <2>1. Rewards(f, lg, {}) /\ {} \in SUBSET {}
    BY DEF Rewards
  <2> QED BY <1>2, <1>3, <2>1, IssuedIs
<1> QED BY <1>3, <1>4 DEF SumsUp

---------------------------------------------------------------------------

\* A block that is committed joins the node's chain, and no other.
LEMMA CommitChain ==
  ASSUME OrderInv, NEW n \in Node, CommitBlock(n)
  PROVE  /\ applied[n] + 1 \notin ChainOf(n)
         /\ ChainOf(n)' = ChainOf(n) \cup {applied[n] + 1}
         /\ \A m \in Node \ {n} : ChainOf(m)' = ChainOf(m)
<1> DEFINE k == applied[n] + 1
           h == height[n] + 1
<1>1. /\ height[n] \in Nat /\ k \in 1 .. Len(log) /\ log[k].height = h
      /\ \A j \in 1 .. k - 1 : log[j].height \in Nat /\ log[j].height < h
      /\ Len(log) \in Nat
  BY CommitsNext
<1>2. /\ UNCHANGED log /\ height' = [height EXCEPT ![n] = h] /\ DOMAIN height = Node
  BY DEF CommitBlock, OrderInv
<1>3. DOMAIN log = 1 .. Len(log) /\ \A i \in 1 .. Len(log) : log[i].height \in Nat
  BY DEF OrderInv, LogType
<1> HIDE DEF k, h
<1>4. h = height[n] + 1
  BY DEF h
<1>5. k \notin ChainOf(n)
  BY <1>1, <1>4 DEF ChainOf
<1>6. ASSUME NEW i, i \in ChainOf(n)' PROVE i \in ChainOf(n) \cup {k}
  <2>1. /\ i \in 1 .. Len(log) /\ log[i].height <= h
        /\ \A j \in 1 .. i - 1 : log[j].height # log[i].height
    BY <1>2, <1>3, <1>6 DEF ChainOf
  <2>2. CASE log[i].height <= height[n]
    BY <1>3, <2>1, <2>2 DEF ChainOf
  <2>3. CASE ~(log[i].height <= height[n])
    <3>1. log[i].height = h
      BY <1>1, <1>3, <1>4, <2>1, <2>3
    <3>2. ~(k \in 1 .. i - 1)
      BY <1>1, <2>1, <3>1
    <3>3. ~(i \in 1 .. k - 1)
      BY <1>1, <3>1
    <3> QED BY <1>1, <2>1, <3>2, <3>3
  <2> QED BY <2>2, <2>3
<1>7. ASSUME NEW i, i \in ChainOf(n) \cup {k} PROVE i \in ChainOf(n)'
  <2>1. height'[n] = h
    BY <1>2
  <2>2. CASE i \in ChainOf(n)
    <3>1. /\ i \in 1 .. Len(log) /\ log[i].height <= height[n]
          /\ \A j \in 1 .. i - 1 : log[j].height # log[i].height
      BY <1>3, <2>2 DEF ChainOf
    <3>2. log[i].height <= h
      BY <1>1, <1>3, <1>4, <3>1
    <3> QED BY <1>2, <1>3, <2>1, <3>1, <3>2 DEF ChainOf
  <2>3. CASE i = k
    <3>1. /\ k \in DOMAIN log /\ log[k].height <= h
          /\ \A j \in 1 .. k - 1 : log[j].height # log[k].height
      BY <1>1, <1>3, <1>4
    <3> QED BY <1>2, <2>1, <2>3, <3>1 DEF ChainOf
  <2> QED BY <1>7, <2>2, <2>3
<1>8. ASSUME NEW m \in Node \ {n} PROVE ChainOf(m)' = ChainOf(m)
  <2>1. height'[m] = height[m]
    BY <1>2
  <2> QED BY <1>2, <2>1 DEF ChainOf
<1>9. ChainOf(n)' = ChainOf(n) \cup {k}
  BY <1>6, <1>7
<1> QED BY <1>5, <1>8, <1>9 DEF k

\* A proposal is in no chain yet.
LEMMA ProposeChain ==
  ASSUME OrderInv, NEW n \in Node, Propose(n)
  PROVE  /\ \A i \in 1 .. Len(log) : log'[i] = log[i]
         /\ \A m \in Node : ChainOf(m)' = ChainOf(m)
<1>1. PICK S : log \in Seq(S)
  BY DEF OrderInv, LogType
<1>b. PICK b : b = packing[n].block
  OBVIOUS
<1>l. PICK l \in Nat : l = Len(log)
  BY <1>1
<1>2. log' = Append(log, b) /\ UNCHANGED height
  BY <1>b DEF Propose, chain
<1>3. /\ Len(log') = l + 1 /\ log'[l + 1] = b /\ \A i \in 1 .. l : log'[i] = log[i]
      /\ DOMAIN log' = 1 .. l + 1 /\ DOMAIN log = 1 .. l
  <2>1. log \in Seq(S \cup {b}) /\ b \in S \cup {b}
    BY <1>1
  <2> QED BY <1>l, <1>2, <2>1
<1>4. b.height \in Nat \ {0}
  BY <1>b DEF OrderInv, NodeInv, Propose
<1>5. ASSUME NEW m \in Node, NEW i, i \in ChainOf(m)' PROVE i \in ChainOf(m)
  <2>1. /\ i \in 1 .. l + 1 /\ log'[i].height <= height[m]
        /\ \A j \in 1 .. i - 1 : log'[j].height # log'[i].height
    BY <1>2, <1>3, <1>5 DEF ChainOf
  <2>2. i # l + 1
    <3> SUFFICES ASSUME i = l + 1 PROVE FALSE
      OBVIOUS
    <3>1. height[m] \in Nat /\ \A h \in 1 .. height[m] : \E j \in 1 .. l : log[j].height = h
      BY <1>l DEF OrderInv, NodeInv
    <3>2. b.height \in 1 .. height[m]
      BY <1>3, <1>4, <2>1, <3>1
    <3>3. PICK j \in 1 .. l : log[j].height = b.height
      BY <3>1, <3>2
    <3>4. j \in 1 .. i - 1 /\ log'[j].height = log'[i].height
      BY <1>3, <3>3
    <3> QED BY <2>1, <3>4
  <2>3. i \in 1 .. l
    BY <2>1, <2>2
  <2> QED BY <1>3, <2>1, <2>3 DEF ChainOf
<1>6. ASSUME NEW m \in Node, NEW i, i \in ChainOf(m) PROVE i \in ChainOf(m)'
  <2>1. /\ i \in 1 .. l /\ log[i].height <= height[m]
        /\ \A j \in 1 .. i - 1 : log[j].height # log[i].height
    BY <1>3, <1>6 DEF ChainOf
  <2>2. /\ i \in 1 .. l + 1 /\ log'[i].height <= height[m]
        /\ \A j \in 1 .. i - 1 : log'[j].height # log'[i].height
    BY <1>3, <2>1
  <2> QED BY <1>2, <1>3, <2>2 DEF ChainOf
<1>7. \A m \in Node : ChainOf(m)' = ChainOf(m)
  BY <1>5, <1>6
<1> QED BY <1>3, <1>7, <1>l

\* Transactions that clients have sent, but for the root.
Sent(txs) == \A i \in DOMAIN txs : \E tx \in Txs : Alike(txs[i], tx)

\* All blocks are made of these.
SentInv ==
  /\ \A i \in 1 .. Len(log) : Sent(log[i].txs)
  /\ \A n \in Node : /\ packing[n].stage = "pending" => Sent(packing[n].txs)
                     /\ packing[n].stage = "packed" => Sent(packing[n].block.txs)

\* What no step changes of a block.
LEMMA SentInductive ==
  ASSUME DataInv, SentInv, [Next]_vars
  PROVE  SentInv'
<1>d. DOMAIN packing = Node
  BY DEF DataInv, OrderInv
<1>1. CASE UNCHANGED <<log, packing>>
  BY <1>1 DEF SentInv
<1>2. ASSUME NEW c \in Client,
             OpenRequest(c) \/ CheckRequest(c) \/ CommitRequest(c) \/ FailRequest(c)
      PROVE  UNCHANGED <<log, packing>>
  BY <1>2 DEF OpenRequest, CheckRequest, CommitRequest, FailRequest
<1>3. ASSUME NEW n \in Node,
             SkipStaleBlock(n) \/ AcceptBlock(n) \/ FlushScript(n) \/ CommitBlock(n)
      PROVE  UNCHANGED <<log, packing>>
  BY <1>3 DEF SkipStaleBlock, AcceptBlock, FlushScript, CommitBlock
<1>4. ASSUME NEW n \in Node, Pendings(n) PROVE SentInv'
  <2>1. PICK t, txs, k :
          /\ packing'[n] = [stage |-> "pending", seen |-> height[n], txs |-> t]
          /\ k \in Nat /\ DOMAIN t = 1 .. k /\ DOMAIN txs = 1 .. k
          /\ Selectable(n, txs)
          /\ \A i \in 1 .. k : txs[i] \in Txs /\ Alike(t[i], txs[i])
    BY <1>4, PendingsTakes
  <2>2. packing'[n].stage = "pending" /\ packing'[n].txs = t /\ Sent(t)
    BY <2>1 DEF Sent
  <2>3. UNCHANGED log /\ \A m \in Node \ {n} : packing'[m] = packing[m]
    BY <1>4, <1>d DEF Pendings
  <2> QED BY <2>2, <2>3 DEF SentInv
<1>5. ASSUME NEW n \in Node, NewBlock(n) PROVE SentInv'
  <2>1. UNCHANGED log /\ \A m \in Node \ {n} : packing'[m] = packing[m]
    BY <1>5, <1>d DEF NewBlock
  <2>2. PICK txs : txs = packing[n].txs
    OBVIOUS
  <2>3. packing[n].stage = "pending" /\ packing'[n].stage = "packed" /\ packing'[n].block.txs = txs
    BY <1>5, <1>d, <2>2 DEF NewBlock
  <2> QED BY <2>1, <2>2, <2>3 DEF SentInv
<1>6. ASSUME NEW n \in Node, Discard(n) \/ EndProcess(n) PROVE SentInv'
  <2>1. UNCHANGED log /\ packing' = [packing EXCEPT ![n] = Idle]
    BY <1>6 DEF Discard, EndProcess
  <2>2. \A m \in Node : packing'[m] = packing[m] \/ packing'[m].stage = "idle"
    BY <1>d, <2>1 DEF Idle
  <2> QED BY <2>1, <2>2 DEF SentInv
<1>7. ASSUME NEW n \in Node, Propose(n) PROVE SentInv'
  <2>1. PICK S : log \in Seq(S)
    BY DEF DataInv, OrderInv, LogType
  <2>2. PICK b : b = packing[n].block
    OBVIOUS
  <2>3. /\ log' = Append(log, b) /\ packing' = [packing EXCEPT ![n] = Idle]
        /\ packing[n].stage = "packed"
    BY <1>7, <2>2 DEF Propose
  <2>4. Len(log') = Len(log) + 1 /\ log'[Len(log) + 1] = b /\ Len(log) \in Nat
        /\ \A i \in 1 .. Len(log) : log'[i] = log[i]
    <3>1. log \in Seq(S \cup {b}) /\ b \in S \cup {b}
      BY <2>1
    <3> QED BY <2>3, <3>1
  <2>5. \A i \in 1 .. Len(log') : i \in 1 .. Len(log) \/ i = Len(log) + 1
    BY <2>4
  <2>6. Sent(b.txs)
    BY <2>2, <2>3 DEF SentInv
  <2>7. \A m \in Node : packing'[m] = packing[m] \/ packing'[m].stage = "idle"
    BY <1>d, <2>3 DEF Idle
  <2>8. \A i \in 1 .. Len(log') : Sent(log'[i].txs)
    BY <2>4, <2>5, <2>6 DEF SentInv
  <2> QED BY <2>7, <2>8 DEF SentInv, Sent
<1>8. CASE Next
  BY <1>1, <1>2, <1>3, <1>4, <1>5, <1>6, <1>7, <1>8 DEF Next, RefuseBlock, Crash
<1>9. CASE UNCHANGED vars
  BY <1>1, <1>9 DEF vars
<1> QED BY <1>8, <1>9

\* The nodes' own addresses send nothing, and only scripts have fees.
FeesAreOfScripts == \A tx \in Txs : tx.from \in Public /\ (tx.script = <<>> => tx.fee = 0)

\* The senders of the blocks that are accepted have what these cost, the fees
\* as well.
CostsCovered ==
  \A n \in Node : flushing[n] # 0 =>
    LET txs == NextBlock(n).txs
    IN \A i \in DOMAIN txs :
         SpentBefore(txs, i) + txs[i].amount + txs[i].fee <= balance[n][txs[i].from]

\* The money of every data base fits the width (uint64).
MoneyFits ==
  \A n \in Node : SumFunction(StartBalance) + Issued(log, ChainOf(n)) < Modulus

\* The sums of SupplyConserved.
Conserved(n) ==
  SumFunction(balance[n]) = SumFunction(StartBalance) + Issued(log, ChainOf(n))

\* The supply, node by node.
LEMMA SupplyIs == SupplyConserved <=> \A n \in Node : Conserved(n)
  BY DEF SupplyConserved, Conserved, Issued

\* A block that is committed can be paid from the balances it finds.
LEMMA CommitCovers ==
  ASSUME DataInv, SentInv, FeesAreOfScripts, CostsCovered, NEW n \in Node, CommitBlock(n)
  PROVE  Covers(balance[n], log[applied[n] + 1].txs)
<1>1. applied[n] + 1 \in 1 .. Len(log)
  BY CommitsNext DEF DataInv
<1>2. PICK b : b = log[applied[n] + 1]
  OBVIOUS
<1>3. IsBlock(b) /\ Sent(b.txs) /\ balance[n] \in Balances
  BY <1>1, <1>2 DEF DataInv, LedgerType, SentInv
<1>4. PICK l \in Nat : DOMAIN b.txs = 1 .. l /\ \A i \in 1 .. l : IsTransaction(b.txs[i])
  <2>1. \A k \in 0 .. BlockLimit : k \in Nat
    BY AccountsAssumption
  <2> QED BY <1>3, <2>1 DEF IsBlock, Transactions
<1>5. PICK g : SumsUp(g, Costs(l, b.txs), 1 .. l)
  <2>1. \A i \in 1 .. l : Costs(l, b.txs)[i] \in Int
    BY <1>4, CostsAre
  <2>2. IsFiniteSet(1 .. l)
    BY UpToIsFinite
  <2> QED BY <2>1, <2>2, SumsExist
<1>6. ASSUME NEW i \in 1 .. l
      PROVE  /\ b.txs[i].from \in Public /\ b.txs[i].from # b.txs[i].to
             /\ b.txs[i].script = <<>> => b.txs[i].fee = 0
             /\ balance[n][b.txs[i].from] - SpentBefore(b.txs, i) >= b.txs[i].amount + b.txs[i].fee
  <2>1. PICK tx \in Txs : Alike(b.txs[i], tx)
    BY <1>3, <1>4 DEF Sent
  <2>2. /\ b.txs[i].from \in Public /\ b.txs[i].from # b.txs[i].to
        /\ b.txs[i].script = <<>> => b.txs[i].fee = 0
    BY <2>1, AccountsAssumption DEF Alike, FeesAreOfScripts
  <2>3. PICK x, v, m, f : /\ x = balance[n][b.txs[i].from] /\ v = SpentBefore(b.txs, i)
                          /\ m = b.txs[i].amount /\ f = b.txs[i].fee
    OBVIOUS
  <2>4. v + m + f <= x
    BY <1>2, <1>4, <2>3 DEF CostsCovered, CommitBlock, NextBlock
  <2>5. x \in Int /\ v \in Int /\ m \in Int /\ f \in Int
    <3>1. v \in Int
      BY <1>4, <1>5, <2>3, SpentIs
    <3>2. IsTransaction(b.txs[i])
      BY <1>4
    <3> QED BY <1>3, <2>3, <3>1, <3>2, ModulusAssumption DEF IsTransaction, Balances, Width
  <2>6. x - v >= m + f
    BY <2>4, <2>5
  <2> QED BY <2>2, <2>3, <2>6
<1>7. Covers(balance[n], b.txs)
  BY <1>4, <1>6 DEF Covers
<1> QED BY <1>2, <1>7

\* The commit of a block adds its rewards to the money there is.
LEMMA CommitMoney ==
  ASSUME IsFiniteSet(Addr), FeesAreOfScripts, DataInv, SentInv, CostsCovered,
         NEW n \in Node, CommitBlock(n), SupplyConserved, MoneyFits'
  PROVE  SupplyConserved'
<1>k. PICK k : k = applied[n] + 1
  OBVIOUS
<1>b. PICK b : b = log[k]
  OBVIOUS
<1>1. /\ UNCHANGED log /\ balance' = [balance EXCEPT ![n] = After(n, balance[n], b)]
      /\ DOMAIN balance = Node
  BY <1>k, <1>b DEF CommitBlock, NextBlock, After, ExecuteAll, DataInv, LedgerType
<1>2. Len(log) \in Nat /\ k \in 1 .. Len(log)
  BY <1>k, CommitsNext DEF DataInv
<1>3. IsBlock(b) /\ balance[n] \in Balances /\ \A i \in 1 .. Len(log) : Payments(log[i].first)
  BY <1>2, <1>b DEF DataInv, LedgerType, IsBlock
<1>4. Covers(balance[n], b.txs)
  BY <1>k, <1>b, CommitCovers
<1>5. /\ k \notin ChainOf(n) /\ ChainOf(n)' = ChainOf(n) \cup {k}
      /\ \A m \in Node \ {n} : ChainOf(m)' = ChainOf(m)
      /\ ChainOf(n) \in SUBSET (1 .. Len(log))
  <2>1. ChainOf(n) \subseteq DOMAIN log /\ DOMAIN log = 1 .. Len(log)
    <3>1. ChainOf(n) \subseteq DOMAIN log
      BY DEF ChainOf
    <3> QED BY <3>1, ChainBlocks
  <2>2. /\ k \notin ChainOf(n) /\ ChainOf(n)' = ChainOf(n) \cup {k}
        /\ \A m \in Node \ {n} : ChainOf(m)' = ChainOf(m)
    BY <1>k, CommitChain DEF DataInv
  <2> QED BY <2>1, <2>2
<1> DEFINE start == SumFunction(StartBalance)
           paid == Issued(log, ChainOf(n))
           reward == Reward(b.first)
           sum == SumFunction(balance[n])
<1>6. paid \in Int /\ reward \in Int /\ Issued(log, ChainOf(n) \cup {k}) = paid + reward
  <2>1. PICK C : C = ChainOf(n)
    OBVIOUS
  <2>2. C \in SUBSET (1 .. Len(log)) /\ k \notin C
    BY <1>5, <2>1
  <2>3. /\ Issued(log, C) \in Int /\ Reward(log[k].first) \in Int
        /\ Issued(log, C \cup {k}) = Issued(log, C) + Reward(log[k].first)
    BY <1>2, <1>3, <2>2, IssuedMore
  <2> QED BY <1>b, <2>1, <2>3
<1>7. Issued(log', ChainOf(n)') = paid + reward
  BY <1>1, <1>5, <1>6
<1>8. sum = start + paid
  BY SupplyIs DEF Conserved
<1>9. start \in Int
  <2>1. StartBalance \in Balances
    BY AccountsAssumption DEF Balances, Width
  <2> QED BY <2>1, SumsAreNumbers
<1>10. start + (paid + reward) < Modulus
  <2>1. start + Issued(log', ChainOf(n)') < Modulus
    BY DEF MoneyFits
  <2> HIDE DEF start, paid, reward
  <2> QED BY <1>7, <2>1
<1>11. sum + reward < Modulus
  <2> HIDE DEF start, paid, reward, sum
  <2> QED BY <1>6, <1>8, <1>9, <1>10, ModulusAssumption
<1>12. SumFunction(After(n, balance[n], b)) = sum + reward
  BY <1>3, <1>4, <1>11, BlockExact
<1>13. balance'[n] = After(n, balance[n], b)
  BY <1>1
<1>14. SupplyConserved'
  <2>1. ASSUME NEW m \in Node PROVE Conserved(m)'
    <3>1. CASE m = n
      <4>1. SumFunction(balance'[n]) = start + Issued(log', ChainOf(n)')
        <5>1. SumFunction(balance'[n]) = sum + reward
          BY <1>12, <1>13
        <5> HIDE DEF start, paid, reward, sum
        <5>2. sum + reward = start + (paid + reward)
          BY <1>6, <1>8, <1>9
        <5> QED BY <1>7, <5>1, <5>2
      <4> QED BY <3>1, <4>1 DEF Conserved
    <3>2. CASE m # n
      <4>1. balance'[m] = balance[m] /\ ChainOf(m)' = ChainOf(m)
        BY <1>1, <1>5, <3>2
      <4>2. Conserved(m)
        BY SupplyIs
      <4> QED BY <1>1, <4>1, <4>2 DEF Conserved
    <3> QED BY <3>1, <3>2
  <2> QED BY <2>1 DEF SupplyConserved, Conserved, Issued
<1> QED BY <1>14

\* A proposal changes no data base.
LEMMA ProposeMoney ==
  ASSUME DataInv, NEW n \in Node, Propose(n), SupplyConserved
  PROVE  SupplyConserved'
<1>1. /\ \A i \in 1 .. Len(log) : log'[i] = log[i]
      /\ \A m \in Node : ChainOf(m)' = ChainOf(m)
  BY ProposeChain DEF DataInv
<1>2. UNCHANGED balance
  BY DEF Propose, chain
<1>3. ASSUME NEW m \in Node PROVE Conserved(m)'
  <2>1. PICK C, l : C = ChainOf(m) /\ l = Len(log)
    OBVIOUS
  <2>2. l \in Nat /\ C \in SUBSET (1 .. l)
    <3>1. C \subseteq DOMAIN log
      BY <2>1 DEF ChainOf
    <3> QED BY <2>1, <3>1, ChainBlocks
  <2>3. \A i \in 1 .. l : Payments(log[i].first)
    BY <2>1 DEF DataInv, LedgerType, IsBlock
  <2>4. PICK lg, mr : lg = log /\ mr = log'
    OBVIOUS
  <2>5. /\ \A i \in 1 .. l : Payments(lg[i].first)
        /\ \A i \in C : mr[i] = lg[i]
    BY <1>1, <2>1, <2>2, <2>3, <2>4
  <2>6. Issued(mr, C) = Issued(lg, C)
    BY <2>2, <2>5, IssuedAlike
  <2>7. Issued(log', ChainOf(m)') = Issued(log, ChainOf(m))
    BY <1>1, <2>1, <2>4, <2>6
  <2>8. Conserved(m)
    BY SupplyIs
  <2> QED BY <1>2, <2>7, <2>8 DEF Conserved
<1> QED BY <1>3 DEF SupplyConserved, Conserved, Issued

\* A step that leaves log, heights and balances alone keeps the supply.
LEMMA SupplyKept ==
  ASSUME SupplyConserved, UNCHANGED <<log, height, balance>>
  PROVE  SupplyConserved'
<1>1. ASSUME NEW n \in Node PROVE Conserved(n)'
  <2>1. ChainOf(n)' = ChainOf(n)
    BY DEF ChainOf
  <2>2. Conserved(n)
    BY SupplyIs
  <2> QED BY <2>1, <2>2 DEF Conserved
<1> QED BY <1>1 DEF SupplyConserved, Conserved, Issued

\* Data bases begin with the same balances and no blocks.
LEMMA SupplyInitially ==
  ASSUME IsFiniteSet(Addr), Init
  PROVE  SupplyConserved
<1>1. log = <<>> /\ DOMAIN log = {} /\ \A n \in Node : height[n] = 0
  BY DEF Init
<1>2. ASSUME NEW n \in Node PROVE Conserved(n)
  <2>1. ChainOf(n) = {}
    BY <1>1 DEF ChainOf
  <2>2. balance[n] = StartBalance
    BY DEF Init
  <2>3. Issued(log, ChainOf(n)) = 0
    BY <2>1, NoneIssued
  <2>4. SumFunction(StartBalance) \in Int
    <3>1. StartBalance \in Balances
      BY AccountsAssumption DEF Balances, Width
    <3> QED BY <3>1, SumsAreNumbers
  <2> QED BY <2>2, <2>3, <2>4 DEF Conserved
<1> QED BY <1>2, SupplyIs

\* Only a commit moves money.
LEMMA SupplyInductive ==
  ASSUME IsFiniteSet(Addr), FeesAreOfScripts, DataInv, SentInv, CostsCovered,
         SupplyConserved, MoneyFits', [Next]_vars
  PROVE  SupplyConserved'
<1>1. ASSUME NEW n \in Node,
             \/ Pendings(n) \/ NewBlock(n) \/ Discard(n) \/ SkipStaleBlock(n) \/ AcceptBlock(n)
             \/ FlushScript(n) \/ RefuseBlock(n) \/ Crash(n)
      PROVE  UNCHANGED <<log, height, balance>>
  BY <1>1 DEF Pendings, NewBlock, Discard, SkipStaleBlock, AcceptBlock, FlushScript, RefuseBlock,
              Crash, EndProcess, chain
<1>2. ASSUME NEW c \in Client,
             OpenRequest(c) \/ CheckRequest(c) \/ CommitRequest(c) \/ FailRequest(c)
      PROVE  UNCHANGED <<log, height, balance>>
  BY <1>2 DEF OpenRequest, CheckRequest, CommitRequest, FailRequest, chain
<1>3. CASE UNCHANGED <<log, height, balance>>
  BY <1>3, SupplyKept
<1>4. ASSUME NEW n \in Node, CommitBlock(n) PROVE SupplyConserved'
  BY <1>4, CommitMoney
<1>5. ASSUME NEW n \in Node, Propose(n) PROVE SupplyConserved'
  BY <1>5, ProposeMoney
<1>6. CASE Next
  BY <1>1, <1>2, <1>3, <1>4, <1>5, <1>6 DEF Next
<1>7. CASE UNCHANGED vars
  BY <1>3, <1>7 DEF vars, chain
<1> QED BY <1>6, <1>7

\* All blocks are made of what clients have sent.
LEMMA SentInvCorrect == Spec => []SentInv
<1>1. Init => SentInv
  BY DEF Init, Idle, SentInv
<1>2. AccountsInv /\ SentInv /\ [Next]_vars => SentInv'
  BY SentInductive DEF AccountsInv, NonceInv, DataInv
<1> QED BY <1>1, <1>2, AccountsInvCorrect, PTL DEF Spec

\* A data base holds what it began with and the rewards of its blocks, for any
\* nodes and addresses, if the senders of the blocks that are accepted have what
\* these cost, only scripts have fees, all money fits the width, and the nodes'
\* own addresses send nothing (AddBlock, setAccount, setMinerAccount,
\* setMinerFee).
THEOREM SupplyConservedCorrect ==
  ASSUME IsFiniteSet(Addr), FeesAreOfScripts
  PROVE  Spec /\ []CostsCovered /\ []MoneyFits => []SupplyConserved
<1>1. Init => SupplyConserved
  BY SupplyInitially
<1>2. AccountsInv /\ SentInv /\ CostsCovered /\ SupplyConserved /\ MoneyFits' /\ [Next]_vars
        => SupplyConserved'
  BY SupplyInductive DEF AccountsInv, NonceInv, DataInv
<1> QED BY <1>1, <1>2, AccountsInvCorrect, SentInvCorrect, PTL DEF Spec

\* The data that a block was packed from is that of the height below its own,
\* when it is accepted.
DataIsFresh == \A n \in Node : flushing[n] # 0 => NextBlock(n).seen = height[n]

\* What Pendings and verify leave open: without fees, and as long as no block
\* comes between Pendings and NewBlock, the subtractions of setAccount do not
\* wrap and money is neither made nor lost.
THEOREM TransfersConserveSupply ==
  ASSUME IsFiniteSet(Addr), AmountsAreSigned, \A tx \in Txs : tx.from \in Public /\ tx.fee = 0
  PROVE  Spec /\ []LocksAreSigned /\ []DataIsFresh /\ []MoneyFits => []SupplyConserved
<1>1. FeesAreOfScripts
  BY DEF FeesAreOfScripts
<1>2. ASSUME AccountsInv, SentInv, AmountsAreCovered, DataIsFresh PROVE CostsCovered
  <2> SUFFICES ASSUME NEW n \in Node, flushing[n] # 0, NEW i \in DOMAIN NextBlock(n).txs
               PROVE  SpentBefore(NextBlock(n).txs, i) + NextBlock(n).txs[i].amount
                        + NextBlock(n).txs[i].fee <= balance[n][NextBlock(n).txs[i].from]
    BY DEF CostsCovered
  <2>1. PICK k, b : k = applied[n] + 1 /\ b = log[k]
    OBVIOUS
  <2>2. b = NextBlock(n) /\ k \in 1 .. Len(log)
    BY <1>2, <2>1 DEF AccountsInv, NonceInv, OrderInv, NodeInv, LogType, NextBlock
  <2>3. IsBlock(b) /\ Sent(b.txs)
    BY <1>2, <2>1, <2>2 DEF AccountsInv, LedgerType, SentInv
  <2>4. b.txs[i].from \in Public /\ b.txs[i].fee = 0
    <3>1. PICK tx \in Txs : Alike(b.txs[i], tx)
      BY <2>2, <2>3 DEF Sent
    <3> QED BY <3>1 DEF Alike
  <2>5. SpentBefore(b.txs, i) + b.txs[i].amount <= balance[n][b.txs[i].from]
    BY <1>2, <2>2, <2>4 DEF AmountsAreCovered, DataIsFresh, Public
  <2>6. PICK l \in Nat : DOMAIN b.txs = 1 .. l /\ \A j \in 1 .. l : IsTransaction(b.txs[j])
    <3>1. \A j \in 0 .. BlockLimit : j \in Nat
      BY AccountsAssumption
    <3> QED BY <2>3, <3>1 DEF IsBlock, Transactions
  <2>7. SpentBefore(b.txs, i) \in Int /\ b.txs[i].amount \in Int
    <3>1. \A j \in 1 .. l : Costs(l, b.txs)[j] \in Int
      BY <2>6, CostsAre
    <3>2. IsFiniteSet(1 .. l)
      BY UpToIsFinite
    <3>3. PICK g : SumsUp(g, Costs(l, b.txs), 1 .. l)
      BY <3>1, <3>2, SumsExist
    <3>4. i \in 1 .. l
      BY <2>2, <2>6
    <3>5. SpentBefore(b.txs, i) \in Int
      BY <2>6, <3>3, <3>4, SpentIs
    <3> QED BY <2>6, <3>4, <3>5, ModulusAssumption DEF IsTransaction, Width
  <2>8. PICK v, m : v = SpentBefore(b.txs, i) /\ m = b.txs[i].amount
    OBVIOUS
  <2>9. v + m + b.txs[i].fee = v + m
    BY <2>4, <2>7, <2>8
  <2> QED BY <2>2, <2>5, <2>8, <2>9
<1>3. Spec /\ []LocksAreSigned => []AmountsAreCovered
  BY AmountsAreCoveredCorrect
<1>4. Spec /\ []CostsCovered /\ []MoneyFits => []SupplyConserved
  BY <1>1, SupplyConservedCorrect
<1> QED BY <1>2, <1>3, <1>4, AccountsInvCorrect, SentInvCorrect, PTL
=============================================================================
