---------------------------- MODULE Collections ----------------------------
(***************************************************************************)
(* What the key-value store promises (store.DB and store.Transaction of    *)
(* until/store/types.go): plain values, maps, sets, lists and scored sets  *)
(* that change only when a transaction commits, as if what it writes were  *)
(* written one operation after the other at that moment, by a transaction  *)
(* that had read the same.                                                 *)
(*                                                                         *)
(* This is weaker than serialisability.  Badger notes the keys that a      *)
(* transaction has read, not the gaps between them, so what a range read   *)
(* leaves out is open: an entry may have come before the commit.  What it  *)
(* returns is promised of maps and of sets.  Nothing is promised of the    *)
(* answers of zrange, zclear, lindex and lrange, nor of the position lset  *)
(* writes, which this module takes from its answer; lclear may fail.       *)
(*                                                                         *)
(* An operation is a record [op, name, arg, ret]: the function called, the *)
(* collection and the argument it was given, and what it returned.         *)
(***************************************************************************)
EXTENDS Sequences, SequencesExt, Integers

CONSTANTS NotExist,    \* store.NotExist
          OutOfSize    \* store.OutOfSize

VARIABLES plain,       \* plain: set of <<key, value>>
          maps,        \* maps: set of <<map, key, value>>
          sets,        \* sets: set of <<set, member>>
          scores,      \* scores: set of <<scored set, member, score>>
          lists,       \* lists[name]: sequence of values, first on the left
          committed    \* the operations of the last transaction that committed

cvars == <<plain, maps, sets, scores, lists, committed>>

Contents == [plain |-> plain, maps |-> maps, sets |-> sets,
             scores |-> scores, lists |-> lists]

Without(rel, name, members) ==
    {r \in rel : ~(r[1] = name /\ r[2] \in members)}

\* Operations that read one key; the others that only read look at a range.
PointReads == {"get", "mget", "selem", "zscore", "llen"}
RangeReads == {"mkvs", "smembers", "zrange", "lindex", "lrange"}

Failed(e) == e.ret \in {NotExist, OutOfSize}

\* An operation that has left everything as it was.
NoEffect(e) == \/ e.op \in PointReads \cup RangeReads
               \/ Failed(e)
               \/ e.op \in {"mclear", "sclear", "zclear"} /\ e.ret = {}

(***************************************************************************)
(* The contents after operation e.  mclear, sclear and zclear return the   *)
(* members they removed; lset returns the position it wrote.               *)
(***************************************************************************)
After(s, e) ==
    IF NoEffect(e) THEN s ELSE
    CASE e.op = "set"    -> [s EXCEPT !.plain = {r \in @ : r[1] # e.name}
                                                \cup {<<e.name, e.arg>>}]
      [] e.op = "del"    -> [s EXCEPT !.plain = {r \in @ : r[1] # e.name}]
      [] e.op = "mset"   -> [s EXCEPT !.maps = Without(@, e.name, {e.arg[1]})
                                               \cup {<<e.name>> \o e.arg}]
      [] e.op = "mdel"   -> [s EXCEPT !.maps = Without(@, e.name, {e.arg})]
      [] e.op = "mclear" -> [s EXCEPT !.maps = Without(@, e.name, e.ret)]
      [] e.op = "sadd"   -> [s EXCEPT !.sets = @ \cup {<<e.name, e.arg>>}]
      [] e.op = "sdel"   -> [s EXCEPT !.sets = @ \ {<<e.name, e.arg>>}]
      [] e.op = "sclear" -> [s EXCEPT !.sets = Without(@, e.name, e.ret)]
      [] e.op = "zadd"   -> [s EXCEPT !.scores = Without(@, e.name, {e.arg[1]})
                                                 \cup {<<e.name>> \o e.arg}]
      [] e.op = "zdel"   -> [s EXCEPT !.scores = Without(@, e.name, {e.arg})]
      [] e.op = "zclear" -> [s EXCEPT !.scores = Without(@, e.name, e.ret)]
      [] e.op = "llpush" -> [s EXCEPT !.lists[e.name] = <<e.arg>> \o @]
      [] e.op = "lrpush" -> [s EXCEPT !.lists[e.name] = Append(@, e.arg)]
      [] e.op = "llpop"  -> [s EXCEPT !.lists[e.name] = Tail(@)]
      [] e.op = "lrpop"  -> [s EXCEPT !.lists[e.name] = Front(@)]
      [] e.op = "lset"   -> [s EXCEPT !.lists[e.name] =
                               IF e.ret \in DOMAIN @ THEN [@ EXCEPT ![e.ret] = e.arg] ELSE @]
      [] e.op = "lclear" -> [s EXCEPT !.lists[e.name] = <<>>]

\* The value stored for a key of a relation, NotExist if there is none.
Lookup(rel, key) ==
    IF \E r \in rel : SubSeq(r, 1, Len(key)) = key
    THEN LET r == CHOOSE r \in rel : SubSeq(r, 1, Len(key)) = key IN r[Len(r)]
    ELSE NotExist

(***************************************************************************)
(* The answer of operation e is right for the contents s.  Every entry or  *)
(* member that mkvs, smembers, mclear and sclear return is there; there    *)
(* may be more.                                                            *)
(***************************************************************************)
Right(s, e) ==
    CASE e.op = "get"    -> e.ret = Lookup(s.plain, <<e.name>>)
      [] e.op = "mget"   -> e.ret = Lookup(s.maps, <<e.name, e.arg>>)
      [] e.op = "selem"  -> e.ret = (<<e.name, e.arg>> \in s.sets)
      [] e.op = "mkvs"   -> \A p \in e.ret : <<e.name, p[1], p[2]>> \in s.maps
      [] e.op = "mclear" -> \A x \in e.ret : \E r \in s.maps : r[1] = e.name /\ r[2] = x
      [] e.op \in {"smembers", "sclear"} -> \A x \in e.ret : <<e.name, x>> \in s.sets
      [] e.op = "zscore" -> e.ret = Lookup(s.scores, <<e.name, e.arg>>)
      [] e.op = "zdel"   -> Failed(e) <=> Lookup(s.scores, <<e.name, e.arg>>) = NotExist
      [] e.op = "llen"   -> e.ret = Len(s.lists[e.name])
      [] e.op \in {"llpush", "lrpush"} -> e.ret = Len(s.lists[e.name]) + 1
      [] e.op = "llpop"  -> IF s.lists[e.name] = <<>> THEN Failed(e)
                            ELSE e.ret = Head(s.lists[e.name])
      [] e.op = "lrpop"  -> IF s.lists[e.name] = <<>> THEN Failed(e)
                            ELSE e.ret = Last(s.lists[e.name])
      [] OTHER           -> TRUE

Init ==
    /\ plain = {} /\ maps = {} /\ sets = {} /\ scores = {}
    /\ \A n \in DOMAIN lists : lists[n] = <<>>
    /\ committed = <<>>

\* One more operation: its answer is right, and so were those before.
Go(so, e) ==
    IF so.right /\ Right(so.state, e)
    THEN [state |-> After(so.state, e), right |-> TRUE]
    ELSE [state |-> so.state, right |-> FALSE]

Replay(s, log) == FoldLeft(Go, [state |-> s, right |-> TRUE], log)

\* A transaction that changes something: what it was answered (Right) is current.
Update ==
    /\ Replay(Contents, committed').right
    /\ Contents' = Replay(Contents, committed').state

\* One that only reads may answer from an older state: nothing is asked of it.
ReadOnly ==
    /\ \A i \in DOMAIN committed' : NoEffect(committed'[i])
    /\ UNCHANGED Contents

Next == Update \/ ReadOnly

Spec == Init /\ [][Next]_cvars
=============================================================================
