-------------------------------- MODULE Store --------------------------------
(***************************************************************************)
(* The key-value store of until/store/bg/bg.go: maps, sets, lists and      *)
(* scored sets laid out over the flat, ordered key space of badger, and    *)
(* used through transactions.  Badger itself is external: a transaction    *)
(* reads the snapshot taken when it begins plus its own writes, and its    *)
(* commit fails when a key it has read was committed by another one since. *)
(*                                                                         *)
(* A byte-string key is a tuple of its parts (encoders eMapKey, eListKey,  *)
(* ...), so names are taken not to contain another key's framing.  A       *)
(* method of store.DB is a transaction of a single operation.              *)
(***************************************************************************)
EXTENDS Integers, Sequences, SequencesExt, FiniteSets, FiniteSetsExt

CONSTANTS Clients,     \* goroutines that use the store
          Names,       \* names of keys, maps, sets and lists
          Values,      \* values and members
          Scores,      \* scores of the scored sets: an interval around 0
          Indexes,     \* indexes and ranges asked of a list
          NotExist, OutOfSize,  \* errors of until/store/types.go
          Gone,        \* the mark a delete leaves in a transaction
          MaxOps,      \* bound: operations in one transaction
          Budget       \* bound: operations of all transactions together

Errors == {NotExist, OutOfSize}
ScoreSpan == 2 * (1 + Max({IF s < 0 THEN -s ELSE s : s \in Scores}))

ASSUME StoreAssumption ==
    /\ Scores \subseteq Int /\ Indexes \subseteq Int /\ MaxOps \in Nat /\ Budget \in Nat
    /\ NotExist # OutOfSize /\ Values \cap Errors = {}
    /\ Gone \notin Values \cup Errors /\ Gone \notin Int \X Int

\* Errors are nothing that an operation returns without one.
ASSUME ErrorAssumption ==
    \A e \in Errors : e # "ok" /\ e \notin Int /\ \A S \in SUBSET Values : S # e

\* Scores fit the width of an int64; a delete is not a score or its empty value.
ASSUME ScoreAssumption ==
    /\ ScoreSpan \in Nat \ {0}
    /\ \A s \in Scores : -ScoreSpan < 2 * s /\ 2 * s < ScoreSpan
    /\ Gone # "" /\ Gone \notin Scores

VARIABLES db,         \* what is committed: a function from keys to values
          txn,        \* txn[c]: the transaction of client c, or NoTxn
          committed,  \* operations of the transaction committed last
          used        \* number of operations performed so far

vars == <<db, txn, committed, used>>

\* The client has no transaction open.  An open one is a record of other fields.
NoTxn == [open |-> FALSE]

---------------------------------------------------------------------------
(* Keys.  The score is written big-endian and unsigned: negative scores    *)
(* are ordered after the others.                                           *)

RawKey(k)       == <<"k", k>>
ListMetaKey(k)  == <<"l", k>>
ListKey(k, idx) == <<"l", k, idx>>
MapKey(m, k)    == <<"m", m, k>>
SetKey(k, v)    == <<"s", k, v>>
ZetKey(k, v)    == <<"z", k, v>>
ScoreRank(score)       == score % ScoreSpan
ZetScore(k, v, score)  == <<"sz", k, ScoreRank(score), v>>
DecodedScore(key)      == IF key[3] >= ScoreSpan \div 2 THEN key[3] - ScoreSpan ELSE key[3]

---------------------------------------------------------------------------
(* Transactions.                                                           *)

Nothing == [key \in {} |-> Gone]

\* The contents of base once the writes w are made.
Over(base, w) ==
    [key \in (DOMAIN base \cup DOMAIN w) \ {x \in DOMAIN w : w[x] = Gone} |->
        IF key \in DOMAIN w THEN w[key] ELSE base[key]]

Amend(w, more) ==
    [key \in DOMAIN w \cup DOMAIN more |->
        IF key \in DOMAIN more THEN more[key] ELSE w[key]]

View(c) == Over(txn[c].snap, txn[c].writes)

Stored(view, key) == IF key \in DOMAIN view THEN view[key] ELSE NotExist

Put(key, val) == [x \in {key} |-> val]
Delete(keys)  == [x \in keys |-> Gone]

\* What an operation reads, writes and returns.
Effect(reads, writes, ret) == [reads |-> reads, writes |-> writes, ret |-> ret]
Answer(reads, ret)         == Effect(reads, Nothing, ret)

Init ==
    /\ db = Nothing
    /\ txn = [c \in Clients |-> NoTxn]
    /\ committed = <<>>
    /\ used = 0

Begin(c) ==
    /\ txn[c] = NoTxn
    /\ used < Budget
    /\ txn' = [txn EXCEPT ![c] = [snap |-> db, reads |-> {}, writes |-> Nothing,
                                  stale |-> {}, log |-> <<>>]]
    /\ UNCHANGED <<db, committed, used>>

InTxn(c) == txn[c] # NoTxn /\ Len(txn[c].log) < MaxOps /\ used < Budget

\* Client c performs one operation in its transaction (InTxn holds).
Do(c, op, name, arg, effect) ==
    /\ txn' = [txn EXCEPT
                 ![c].reads  = @ \cup (effect.reads \ DOMAIN txn[c].writes),
                 ![c].writes = Amend(@, effect.writes),
                 ![c].log    = Append(@, [op |-> op, name |-> name, arg |-> arg,
                                          ret |-> effect.ret])]
    /\ used' = used + 1
    /\ UNCHANGED <<db, committed>>

\* A wrong form: the last commit wins.
ConflictNever(t) == FALSE

\* Badger keeps a transaction that writes from committing over a newer read.
Conflict(t) == t.writes # Nothing /\ t.reads \cap t.stale # {}

Commit(c) ==
    /\ txn[c] # NoTxn
    /\ ~Conflict(txn[c])
    /\ db' = Over(db, txn[c].writes)
    /\ txn' = [d \in Clients |->
                 IF d = c THEN NoTxn
                 ELSE IF txn[d] = NoTxn THEN NoTxn
                 ELSE [txn[d] EXCEPT !.stale = @ \cup DOMAIN txn[c].writes]]
    /\ committed' = txn[c].log
    /\ UNCHANGED used

\* Cancel, a method of store.DB that returns an error, or a refused commit.
Discard(c) ==
    /\ txn[c] # NoTxn
    /\ txn' = [txn EXCEPT ![c] = NoTxn]
    /\ UNCHANGED <<db, committed, used>>

---------------------------------------------------------------------------
(* Plain values.                                                           *)

set(k, v)    == Effect({}, Put(RawKey(k), v), "ok")
del(k)       == Effect({}, Delete({RawKey(k)}), "ok")
get(view, k) == Answer({RawKey(k)}, Stored(view, RawKey(k)))

(* Maps.  mclear hands badger the iterator's own key buffers, which badger *)
(* fills anew two items later: of more than two entries any may survive,   *)
(* the last two read excepted.                                             *)

EntriesOf(view, tag, m) == {key \in DOMAIN view : key[1] = tag /\ key[2] = m}
ClearedBy(keys, gone) == gone \subseteq keys /\ Cardinality(gone) >= Min({2, Cardinality(keys)})

mset(m, k, v)    == Effect({}, Put(MapKey(m, k), v), "ok")
mdel(m, k)       == Effect({}, Delete({MapKey(m, k)}), "ok")
mget(view, m, k) == Answer({MapKey(m, k)}, Stored(view, MapKey(m, k)))
mkvs(view, m)    == LET keys == EntriesOf(view, "m", m) IN
                    Answer(keys, {<<key[3], view[key]>> : key \in keys})
mclear(view, m, gone) ==
    Effect(EntriesOf(view, "m", m), Delete(gone), {key[3] : key \in gone})

(* Sets.                                                                   *)

sadd(k, v)        == Effect({}, Put(SetKey(k, v), ""), "ok")
sdel(k, v)        == Effect({}, Delete({SetKey(k, v)}), "ok")
selem(view, k, v) == Answer({SetKey(k, v)}, SetKey(k, v) \in DOMAIN view)
smembers(view, k) == LET keys == EntriesOf(view, "s", k) IN
                     Answer(keys, {key[3] : key \in keys})
sclear(view, k, gone) ==
    Effect(EntriesOf(view, "s", k), Delete(gone), {key[3] : key \in gone})

---------------------------------------------------------------------------
(* Lists: the elements start .. end-1, each under a key of its own.        *)

listStartEnd(view, k) ==
    IF ListMetaKey(k) \in DOMAIN view THEN view[ListMetaKey(k)] ELSE <<0, 0>>
Listed(view, k) == ListMetaKey(k) \in DOMAIN view

SetEnds(k, start, end) == Put(ListMetaKey(k), <<start, end>>)

llen(view, k) ==
    LET m == listStartEnd(view, k) IN Answer({ListMetaKey(k)}, m[2] - m[1])

lclear(view, k) ==
    LET m == listStartEnd(view, k) IN
    IF ~Listed(view, k) THEN Answer({ListMetaKey(k)}, NotExist)
    ELSE Effect({ListMetaKey(k)},
                Delete({ListKey(k, i) : i \in m[1] .. m[2] - 1} \cup {ListMetaKey(k)}), "ok")

\* A wrong form: the element overwrites the first one.
llpushOverFirst(view, k, v) ==
    LET m == listStartEnd(view, k) IN
    Effect({ListMetaKey(k)},
           Amend(Put(ListKey(k, m[1]), v), SetEnds(k, m[1] - 1, m[2])), m[2] - m[1] + 1)

llpush(view, k, v) ==
    LET m == listStartEnd(view, k) IN
    IF m[1] - 1 = m[2] THEN Answer({ListMetaKey(k)}, OutOfSize)
    ELSE Effect({ListMetaKey(k)},
                Amend(Put(ListKey(k, m[1] - 1), v), SetEnds(k, m[1] - 1, m[2])),
                m[2] - m[1] + 1)

lrpush(view, k, v) ==
    LET m == listStartEnd(view, k) IN
    IF m[1] = m[2] + 1 THEN Answer({ListMetaKey(k)}, OutOfSize)
    ELSE Effect({ListMetaKey(k)},
                Amend(Put(ListKey(k, m[2]), v), SetEnds(k, m[1], m[2] + 1)),
                m[2] - m[1] + 1)

\* Popping moves the end and leaves the element's key behind.
Pop(view, k, at, start, end) ==
    IF ~Listed(view, k) THEN Answer({ListMetaKey(k)}, NotExist)
    ELSE IF listStartEnd(view, k)[1] = listStartEnd(view, k)[2]
         THEN Answer({ListMetaKey(k)}, OutOfSize)
    ELSE IF ListKey(k, at) \notin DOMAIN view
         THEN Answer({ListMetaKey(k), ListKey(k, at)}, NotExist)
    ELSE Effect({ListMetaKey(k), ListKey(k, at)}, SetEnds(k, start, end),
                view[ListKey(k, at)])

llpop(view, k) == LET m == listStartEnd(view, k) IN Pop(view, k, m[1], m[1] + 1, m[2])
lrpop(view, k) == LET m == listStartEnd(view, k) IN Pop(view, k, m[2] - 1, m[1], m[2] - 1)

\* The key lset and lindex use for index idx: start is added a second time.
Located(m, idx) == (IF idx >= 0 THEN idx + m[1] ELSE idx + m[2]) + m[1]
InList(m, idx)  == Located(m, idx) - m[1] \in m[1] .. m[2] - 1

lset(view, k, idx, v) ==
    LET m == listStartEnd(view, k) IN
    IF ~Listed(view, k) THEN Answer({ListMetaKey(k)}, NotExist)
    ELSE IF ~InList(m, idx) THEN Answer({ListMetaKey(k)}, OutOfSize)
    ELSE Effect({ListMetaKey(k)}, Put(ListKey(k, Located(m, idx)), v),
                Located(m, idx) - m[1] + 1)

lindex(view, k, idx) ==
    LET m == listStartEnd(view, k) IN
    IF ~Listed(view, k) THEN Answer({ListMetaKey(k)}, NotExist)
    ELSE IF ~InList(m, idx) THEN Answer({ListMetaKey(k)}, "")
    ELSE Answer({ListMetaKey(k), ListKey(k, Located(m, idx))},
                Stored(view, ListKey(k, Located(m, idx))))

\* Both bounds included; an index whose key is missing is passed over.
lrange(view, k, from, to) ==
    LET m     == listStartEnd(view, k)
        start == Max({m[1], IF from < 0 THEN from + m[2] ELSE from + m[1]})
        end   == Min({m[2], IF to < 0 THEN to + m[2] ELSE to + m[1]})
        keys  == {i \in start .. end : ListKey(k, i) \in DOMAIN view}
    IN IF ~Listed(view, k) THEN Answer({ListMetaKey(k)}, NotExist)
       ELSE Answer({ListMetaKey(k)} \cup {ListKey(k, i) : i \in start .. end},
                   LET order == SetToSortSeq(keys, <)
                   IN [n \in DOMAIN order |-> view[ListKey(k, order[n])]])

---------------------------------------------------------------------------
(* Scored sets: the score under the member, the member under the score.    *)

ScoreKeysOf(view, k) == {key \in DOMAIN view : key[1] = "sz" /\ key[2] = k}

zadd(k, score, v) ==
    Effect({}, Amend(Put(ZetKey(k, v), score), Put(ZetScore(k, v, score), "")), "ok")

zdel(view, k, v) ==
    LET score == Stored(view, ZetKey(k, v)) IN
    IF score = NotExist THEN Answer({ZetKey(k, v)}, NotExist)
    ELSE Effect({ZetKey(k, v)}, Delete({ZetKey(k, v), ZetScore(k, v, score)}), "ok")

zscore(view, k, v) == Answer({ZetKey(k, v)}, Stored(view, ZetKey(k, v)))

zclear(view, k) ==
    LET keys == ScoreKeysOf(view, k) IN
    Effect(keys, Delete(keys \cup {ZetKey(k, key[4]) : key \in keys}),
           {key[4] : key \in keys})

\* A wrong form: the lower bound is left out.
zrangeOpen(view, k, lo, hi) ==
    LET seen == {key \in ScoreKeysOf(view, k) : key[3] > ScoreRank(lo) /\ DecodedScore(key) <= hi}
    IN Answer(seen, {key[4] : key \in seen})

\* Reads upwards from the rank of lo and stops at the first score above hi.
zrange(view, k, lo, hi) ==
    LET from == {key \in ScoreKeysOf(view, k) : key[3] >= ScoreRank(lo)}
        seen == {key \in from : \A x \in from :
                    DecodedScore(x) > hi => x[3] > key[3]}
    IN Answer(seen, {key[4] : key \in seen})

---------------------------------------------------------------------------
(* The methods of store.Transaction.                                       *)

Set(c, k, v) == Do(c, "set", k, v, set(k, v))
Del(c, k)    == Do(c, "del", k, "", del(k))
Get(c, k)    == Do(c, "get", k, "", get(View(c), k))

Mset(c, m, k, v) == Do(c, "mset", m, <<k, v>>, mset(m, k, v))
Mdel(c, m, k)    == Do(c, "mdel", m, k, mdel(m, k))
Mget(c, m, k)    == Do(c, "mget", m, k, mget(View(c), m, k))
Mkvs(c, m)       == Do(c, "mkvs", m, "", mkvs(View(c), m))
Mclear(c, m)     == \E gone \in SUBSET EntriesOf(View(c), "m", m) :
                       /\ ClearedBy(EntriesOf(View(c), "m", m), gone)
                       /\ Do(c, "mclear", m, "", mclear(View(c), m, gone))

Sadd(c, k, v)  == Do(c, "sadd", k, v, sadd(k, v))
Sdel(c, k, v)  == Do(c, "sdel", k, v, sdel(k, v))
Selem(c, k, v) == Do(c, "selem", k, v, selem(View(c), k, v))
Smembers(c, k) == Do(c, "smembers", k, "", smembers(View(c), k))
Sclear(c, k)   == \E gone \in SUBSET EntriesOf(View(c), "s", k) :
                     /\ ClearedBy(EntriesOf(View(c), "s", k), gone)
                     /\ Do(c, "sclear", k, "", sclear(View(c), k, gone))

Llen(c, k)          == Do(c, "llen", k, "", llen(View(c), k))
Lclear(c, k)        == Do(c, "lclear", k, "", lclear(View(c), k))
Llpush(c, k, v)     == Do(c, "llpush", k, v, llpush(View(c), k, v))
Lrpush(c, k, v)     == Do(c, "lrpush", k, v, lrpush(View(c), k, v))
Llpop(c, k)         == Do(c, "llpop", k, "", llpop(View(c), k))
Lrpop(c, k)         == Do(c, "lrpop", k, "", lrpop(View(c), k))
Lset(c, k, idx, v)  == Do(c, "lset", k, v, lset(View(c), k, idx, v))
Lindex(c, k, idx)   == Do(c, "lindex", k, idx, lindex(View(c), k, idx))
Lrange(c, k, i, j)  == Do(c, "lrange", k, <<i, j>>, lrange(View(c), k, i, j))

Zadd(c, k, score, v) == Do(c, "zadd", k, <<v, score>>, zadd(k, score, v))
Zdel(c, k, v)        == Do(c, "zdel", k, v, zdel(View(c), k, v))
Zscore(c, k, v)      == Do(c, "zscore", k, v, zscore(View(c), k, v))
Zclear(c, k)         == Do(c, "zclear", k, "", zclear(View(c), k))
Zrange(c, k, lo, hi) == Do(c, "zrange", k, <<lo, hi>>, zrange(View(c), k, lo, hi))

PlainOps(c, k) == Del(c, k) \/ Get(c, k) \/ \E v \in Values : Set(c, k, v)

MapOps(c, k) ==
    \/ Mkvs(c, k) \/ Mclear(c, k)
    \/ \E x \in Values : Mdel(c, k, x) \/ Mget(c, k, x) \/ \E v \in Values : Mset(c, k, x, v)

SetOps(c, k) ==
    \/ Smembers(c, k) \/ Sclear(c, k)
    \/ \E v \in Values : Sadd(c, k, v) \/ Sdel(c, k, v) \/ Selem(c, k, v)

ListOps(c, k) ==
    \/ Llen(c, k) \/ Lclear(c, k) \/ Llpop(c, k) \/ Lrpop(c, k)
    \/ \E v \in Values : Llpush(c, k, v) \/ Lrpush(c, k, v)
    \/ \E i \in Indexes : \/ Lindex(c, k, i)
                          \/ \E v \in Values : Lset(c, k, i, v)
                          \/ \E j \in Indexes : Lrange(c, k, i, j)

ScoreOps(c, k) ==
    \/ Zclear(c, k)
    \/ \E v \in Values : Zdel(c, k, v) \/ Zscore(c, k, v) \/ \E s \in Scores : Zadd(c, k, s, v)
    \/ \E lo, hi \in Scores : lo <= hi /\ Zrange(c, k, lo, hi)

Next == \E c \in Clients :
    \/ Begin(c) \/ Commit(c) \/ Discard(c)
    \/ /\ InTxn(c)
       /\ \E k \in Names : \/ PlainOps(c, k) \/ MapOps(c, k) \/ SetOps(c, k)
                           \/ ListOps(c, k) \/ ScoreOps(c, k)

Spec == Init /\ [][Next]_vars

---------------------------------------------------------------------------
(* What the store is seen to hold.                                         *)

ListOf(k) == LET m == listStartEnd(db, k) IN
             [i \in 1 .. m[2] - m[1] |-> Stored(db, ListKey(k, m[1] + i - 1))]

KeysTagged(tag) == {key \in DOMAIN db : key[1] = tag}

Promise == INSTANCE Collections WITH
    plain     <- {<<key[2], db[key]>> : key \in KeysTagged("k")},
    maps      <- {<<key[2], key[3], db[key]>> : key \in KeysTagged("m")},
    sets      <- {<<key[2], key[3]>> : key \in KeysTagged("s")},
    scores    <- {<<key[2], key[3], db[key]>> : key \in KeysTagged("z")},
    lists     <- [k \in Names |-> ListOf(k)],
    committed <- committed

\* Transactions of bg.go that write take effect in the order of their commits:
\* the layout over single keys (bg.go:394-897) and badger's conflict check
\* together never lose a push or pop an element twice, and a transaction that
\* writes has seen no outdated value in what it read under one key, in the
\* lengths and elements of pushes and pops, and in the entries and members
\* that mkvs, smembers, mclear and sclear returned.  What these four left out,
\* the answers of zrange, zclear, lindex and lrange, lset's position, and what
\* a transaction that only reads is answered are left open (Collections).
ImplementsCollections == Promise!Spec

\* Every element between start and end is stored, whatever pushes, pops, sets
\* and clears were under way at once (bg.go:493-655): a pop never finds its
\* element missing.
ListsAreWhole ==
    \A k \in Names :
        LET m == listStartEnd(db, k) IN
        /\ m[1] <= m[2]
        /\ \A i \in m[1] .. m[2] - 1 : ListKey(k, i) \in DOMAIN db

\* zrange finds every member whose score is within bounds that are not
\* negative (bg.go:758-780), also while zadd, zdel and zclear run concurrently
\* and after scores were changed; what it returns more is left open.
RangeFindsMembers ==
    \A k \in Names, lo, hi \in {s \in Scores : s >= 0} :
        \A key \in EntriesOf(db, "z", k) :
            db[key] \in lo .. hi => key[3] \in zrange(db, k, lo, hi).ret
==============================================================================
