----------------------------- MODULE StoreProofs -----------------------------
(***************************************************************************)
(* Lists of the store are whole, used as queues they serve each element    *)
(* once, scores are found and answers come in order, for any number of     *)
(* clients, names, values, operations and requests; and transactions keep  *)
(* the promise of Collections, the last section.                           *)
(*                                                                         *)
(* A list is spread over several keys, and badger's conflict check looks   *)
(* at single keys.  The argument: who changes what a list needs, that is   *)
(* its meta key, or deletes elements, has read the meta key before; and    *)
(* all who delete elements write the meta key.  So a transaction whose     *)
(* meta key is not stale at the commit finds every element it saw, and     *)
(* one that has not written the meta key takes nothing away.               *)
(***************************************************************************)
EXTENDS StoreServer, Inductions, SequenceTheorems, FiniteSetTheorems, TLAPS

\* The lists that a client sees, or that are committed, are whole.
Whole(view) ==
  \A k \in Names : ListMetaKey(k) \in DOMAIN view =>
    /\ view[ListMetaKey(k)] \in Int \X Int
    /\ view[ListMetaKey(k)][1] <= view[ListMetaKey(k)][2]
    /\ \A i \in view[ListMetaKey(k)][1] .. view[ListMetaKey(k)][2] - 1 :
         ListKey(k, i) \in DOMAIN view

\* ListElements are deleted with their list's meta key only, and that is written
\* after it was read.
ReadsFirst(reads, writes) ==
  \A k \in Names :
    \/ ListMetaKey(k) \in DOMAIN writes /\ ListMetaKey(k) \in reads
    \/ /\ ListMetaKey(k) \notin DOMAIN writes
       /\ \A i \in Int : ListKey(k, i) \in DOMAIN writes => writes[ListKey(k, i)] # Gone

\* Where no meta key has been committed since the snapshot, nothing that the
\* list needs is gone.
Current(t, base) ==
  \A k \in Names : ListMetaKey(k) \notin t.stale =>
    /\ ListMetaKey(k) \in DOMAIN base <=> ListMetaKey(k) \in DOMAIN t.snap
    /\ ListMetaKey(k) \in DOMAIN base => base[ListMetaKey(k)] = t.snap[ListMetaKey(k)]
    /\ \A i \in Int : ListKey(k, i) \in DOMAIN t.snap => ListKey(k, i) \in DOMAIN base

\* A transaction over the committed contents base.
Sound(t, base) ==
  /\ t = [snap |-> t.snap, reads |-> t.reads, writes |-> t.writes, stale |-> t.stale,
          log |-> t.log]
  /\ Whole(Over(t.snap, t.writes))
  /\ ReadsFirst(t.reads, t.writes)
  /\ Current(t, base)

StoreInv ==
  /\ DOMAIN txn = Clients
  /\ Whole(db)
  /\ \A c \in Clients : txn[c] # NoTxn => Sound(txn[c], db)

---------------------------------------------------------------------------
\* Writing twice is writing the amended map once (bg.go's transactions).
LEMMA OverAmend ==
  ASSUME NEW base, NEW w, NEW more
  PROVE  Over(base, Amend(w, more)) = Over(Over(base, w), more)
<1> DEFINE f == Over(base, Amend(w, more))
           g == Over(Over(base, w), more)
<1>1. DOMAIN f = DOMAIN g
  BY DEF Over, Amend
<1>2. \A key \in DOMAIN f : f[key] = g[key]
  BY DEF Over, Amend
<1>3. f = [key \in DOMAIN f |-> f[key]] /\ g = [key \in DOMAIN g |-> g[key]]
  BY DEF Over
<1> HIDE DEF f, g
<1>4. f = g
  BY <1>1, <1>2, <1>3
<1> QED BY <1>4 DEF f, g

\* Keys of different kinds and of different lists are different (bg.go:791-897).
LEMMA KeysDiffer ==
  ASSUME NEW k, NEW j, NEW i, NEW h
  PROVE  /\ ListMetaKey(k) # ListKey(j, i)
         /\ ListMetaKey(k) = ListMetaKey(j) => k = j
         /\ ListKey(k, i) = ListKey(j, h) => k = j /\ i = h
         /\ ListMetaKey(k)[1] = "l" /\ ListKey(k, i)[1] = "l"
<1>1. DOMAIN ListMetaKey(k) = 1 .. 2 /\ DOMAIN ListKey(j, i) = 1 .. 3
  BY DEF ListMetaKey, ListKey
<1>2. ListMetaKey(k) # ListKey(j, i)
  <2>1. 3 \in 1 .. 3 /\ 3 \notin 1 .. 2
    OBVIOUS
  <2> QED BY <1>1, <2>1
<1> QED BY <1>2 DEF ListMetaKey, ListKey

---------------------------------------------------------------------------
\* What an operation on a whole view may do.
Careful(view, e) == Whole(Over(view, e.writes)) /\ ReadsFirst(e.reads, e.writes)

\* Operations on other kinds of collections leave lists alone.
LEMMA OtherKinds ==
  ASSUME NEW view, Whole(view), NEW e, \A key \in DOMAIN e.writes : key[1] # "l"
  PROVE  Careful(view, e)
<1>1. \A k \in Names : /\ ListMetaKey(k) \notin DOMAIN e.writes
                       /\ \A i \in Int : ListKey(k, i) \notin DOMAIN e.writes
  BY KeysDiffer
<1>2. ReadsFirst(e.reads, e.writes)
  BY <1>1 DEF ReadsFirst
<1>3. \A k \in Names :
        /\ ListMetaKey(k) \in DOMAIN Over(view, e.writes) <=> ListMetaKey(k) \in DOMAIN view
        /\ ListMetaKey(k) \in DOMAIN view =>
             Over(view, e.writes)[ListMetaKey(k)] = view[ListMetaKey(k)]
        /\ \A i \in Int : ListKey(k, i) \in DOMAIN view =>
             ListKey(k, i) \in DOMAIN Over(view, e.writes)
  BY <1>1 DEF Over
<1>4. Whole(Over(view, e.writes))
  <2> SUFFICES ASSUME NEW k \in Names, ListMetaKey(k) \in DOMAIN view
               PROVE  \A i \in view[ListMetaKey(k)][1] .. view[ListMetaKey(k)][2] - 1 :
                        ListKey(k, i) \in DOMAIN Over(view, e.writes)
    BY <1>3 DEF Whole
  <2> QED BY <1>3 DEF Whole
<1> QED BY <1>2, <1>4 DEF Careful

\* What listStartEnd answers for a whole view (bg.go:791-799).
LEMMA EndsOf ==
  ASSUME NEW view, Whole(view), NEW k \in Names
  PROVE  /\ listStartEnd(view, k) \in Int \X Int
         /\ listStartEnd(view, k)[1] \in Int /\ listStartEnd(view, k)[2] \in Int
         /\ listStartEnd(view, k)[1] <= listStartEnd(view, k)[2]
         /\ \A i \in listStartEnd(view, k)[1] .. listStartEnd(view, k)[2] - 1 :
              ListKey(k, i) \in DOMAIN view
<1>1. CASE ListMetaKey(k) \in DOMAIN view
  BY <1>1 DEF Whole, listStartEnd
<1>2. CASE ListMetaKey(k) \notin DOMAIN view
  BY <1>2 DEF listStartEnd
<1> QED BY <1>1, <1>2

\* An operation that gives list k new ends, and elements to go with them.
LEMMA NewEnds ==
  ASSUME NEW view, Whole(view), NEW k \in Names, NEW e, NEW start \in Int, NEW end \in Int,
         start <= end,
         ListMetaKey(k) \in DOMAIN e.writes, e.writes[ListMetaKey(k)] = <<start, end>>,
         ListMetaKey(k) \in e.reads,
         \A key \in DOMAIN e.writes : e.writes[key] # Gone,
         \A j \in Names : ListMetaKey(j) \in DOMAIN e.writes => j = k,
         \A i \in start .. end - 1 : ListKey(k, i) \in DOMAIN view \cup DOMAIN e.writes
  PROVE  Careful(view, e)
<1> DEFINE new == Over(view, e.writes)
<1>1. DOMAIN new = DOMAIN view \cup DOMAIN e.writes
  BY DEF Over
<1>2. \A j \in Names \ {k} : ListMetaKey(j) \in DOMAIN new =>
        ListMetaKey(j) \in DOMAIN view /\ new[ListMetaKey(j)] = view[ListMetaKey(j)]
  BY <1>1 DEF Over
<1>3. ListMetaKey(k) \in DOMAIN new /\ new[ListMetaKey(k)] = <<start, end>>
  BY <1>1 DEF Over
<1> HIDE DEF new
<1>4. Whole(new)
  <2> SUFFICES ASSUME NEW j \in Names, ListMetaKey(j) \in DOMAIN new
               PROVE  /\ new[ListMetaKey(j)] \in Int \X Int
                      /\ new[ListMetaKey(j)][1] <= new[ListMetaKey(j)][2]
                      /\ \A i \in new[ListMetaKey(j)][1] .. new[ListMetaKey(j)][2] - 1 :
                           ListKey(j, i) \in DOMAIN new
    BY DEF Whole
  <2>1. CASE j = k
    BY <2>1, <1>1, <1>3
  <2>2. CASE j # k
    BY <2>2, <1>1, <1>2 DEF Whole
  <2> QED BY <2>1, <2>2
<1>5. ReadsFirst(e.reads, e.writes)
  BY DEF ReadsFirst
<1> QED BY <1>4, <1>5 DEF Careful, new

---------------------------------------------------------------------------
\* llpush and lrpush (bg.go:521-575).
LEMMA PushIsCareful ==
  ASSUME NEW view, Whole(view), NEW k \in Names, NEW v \in Values
  PROVE  Careful(view, llpush(view, k, v)) /\ Careful(view, lrpush(view, k, v))
<1> DEFINE m == listStartEnd(view, k)
<1>1. /\ m[1] \in Int /\ m[2] \in Int /\ m[1] <= m[2]
      /\ \A i \in m[1] .. m[2] - 1 : ListKey(k, i) \in DOMAIN view
  BY EndsOf
<1> HIDE DEF m
<1>2. v # Gone /\ \A x, y \in Int : <<x, y>> # Gone
  BY StoreAssumption
<1>3. ASSUME NEW at \in Int, NEW start \in Int, NEW end \in Int, NEW e, start <= end,
             at \in {m[1] - 1, m[2]}, m[1] \in start .. start + 1, m[2] \in end - 1 .. end,
             start = m[1] \/ at = start, end = m[2] \/ at = m[2],
             e.reads = {ListMetaKey(k)},
             e.writes = Amend(Put(ListKey(k, at), v), SetEnds(k, start, end))
      PROVE  Careful(view, e)
  <2>1. DOMAIN e.writes = {ListKey(k, at), ListMetaKey(k)}
    BY <1>3 DEF Amend, Put, SetEnds
  <2>2. e.writes[ListMetaKey(k)] = <<start, end>>
    BY <1>3 DEF Amend, Put, SetEnds
  <2>3. e.writes[ListKey(k, at)] = v
    BY <1>3, KeysDiffer DEF Amend, Put, SetEnds
  <2>4. \A key \in DOMAIN e.writes : e.writes[key] # Gone
    BY <1>2, <2>1, <2>2, <2>3
  <2>5. \A j \in Names : ListMetaKey(j) \in DOMAIN e.writes => j = k
    BY <2>1, KeysDiffer
  <2>6. \A i \in start .. end - 1 : ListKey(k, i) \in DOMAIN view \cup DOMAIN e.writes
    <3> SUFFICES ASSUME NEW i \in start .. end - 1
                 PROVE  i = at \/ i \in m[1] .. m[2] - 1
      BY <1>1, <2>1
    <3> QED BY <1>1, <1>3
  <2> QED BY <1>3, <2>1, <2>2, <2>4, <2>5, <2>6, NewEnds
<1>4. Careful(view, Answer({ListMetaKey(k)}, OutOfSize))
  BY OtherKinds DEF Answer, Effect, Nothing
<1>5. Careful(view, llpush(view, k, v))
  <2> DEFINE e == Effect({ListMetaKey(k)},
                         Amend(Put(ListKey(k, m[1] - 1), v), SetEnds(k, m[1] - 1, m[2])),
                         m[2] - m[1] + 1)
  <2>1. Careful(view, e)
    BY <1>1, <1>3 DEF Effect
  <2> HIDE DEF e
  <2> QED BY <1>4, <2>1 DEF llpush, m, e
<1>6. Careful(view, lrpush(view, k, v))
  <2> DEFINE e == Effect({ListMetaKey(k)},
                         Amend(Put(ListKey(k, m[2]), v), SetEnds(k, m[1], m[2] + 1)),
                         m[2] - m[1] + 1)
  <2>1. Careful(view, e)
    BY <1>1, <1>3 DEF Effect
  <2> HIDE DEF e
  <2> QED BY <1>4, <2>1 DEF lrpush, m, e
<1> QED BY <1>5, <1>6

\* llpop and lrpop (bg.go:540-593).
LEMMA PopIsCareful ==
  ASSUME NEW view, Whole(view), NEW k \in Names
  PROVE  Careful(view, llpop(view, k)) /\ Careful(view, lrpop(view, k))
<1> DEFINE m == listStartEnd(view, k)
<1>1. /\ m[1] \in Int /\ m[2] \in Int /\ m[1] <= m[2]
      /\ \A i \in m[1] .. m[2] - 1 : ListKey(k, i) \in DOMAIN view
  BY EndsOf
<1> HIDE DEF m
<1>2. ASSUME NEW at, NEW start \in Int, NEW end \in Int,
             start \in m[1] .. m[1] + 1, end \in m[2] - 1 .. m[2],
             m[1] # m[2] => start <= end
      PROVE  Careful(view, Pop(view, k, at, start, end))
  <2> DEFINE e == Pop(view, k, at, start, end)
  <2>1. CASE e.writes = Nothing
    BY <2>1, OtherKinds DEF Nothing
  <2>2. CASE m[1] # m[2] /\ e.reads = {ListMetaKey(k), ListKey(k, at)}
             /\ e.writes = SetEnds(k, start, end)
    <3> HIDE DEF e
    <3>1. DOMAIN e.writes = {ListMetaKey(k)} /\ e.writes[ListMetaKey(k)] = <<start, end>>
      BY <2>2 DEF SetEnds, Put
    <3>2. \A key \in DOMAIN e.writes : e.writes[key] # Gone
      BY <3>1, StoreAssumption
    <3>3. \A j \in Names : ListMetaKey(j) \in DOMAIN e.writes => j = k
      BY <3>1, KeysDiffer
    <3>4. \A i \in start .. end - 1 : ListKey(k, i) \in DOMAIN view \cup DOMAIN e.writes
      BY <1>1, <1>2
    <3>5. start <= end /\ ListMetaKey(k) \in e.reads
      BY <1>2, <2>2
    <3>6. Careful(view, e)
      BY <3>1, <3>2, <3>3, <3>4, <3>5, NewEnds
    <3> QED BY <3>6 DEF e
  <2>3. \/ e.writes = Nothing
        \/ /\ m[1] # m[2] /\ e.reads = {ListMetaKey(k), ListKey(k, at)}
           /\ e.writes = SetEnds(k, start, end)
    BY DEF Pop, Answer, Effect, m
  <2> QED BY <2>1, <2>2, <2>3
<1>3. Careful(view, llpop(view, k))
  BY <1>1, <1>2 DEF llpop, m
<1>4. Careful(view, lrpop(view, k))
  BY <1>1, <1>2 DEF lrpop, m
<1> QED BY <1>3, <1>4

\* lclear (bg.go:508-519): the meta key goes with the elements.
LEMMA ClearIsCareful ==
  ASSUME NEW view, Whole(view), NEW k \in Names
  PROVE  Careful(view, lclear(view, k))
<1> DEFINE m == listStartEnd(view, k)
           keys == {ListKey(k, i) : i \in m[1] .. m[2] - 1} \cup {ListMetaKey(k)}
           e == Effect({ListMetaKey(k)}, Delete(keys), "ok")
           new == Over(view, e.writes)
<1>1. DOMAIN new = DOMAIN view \ keys
  BY DEF Over, Effect, Delete
<1>2. \A key \in DOMAIN new : new[key] = view[key]
  BY DEF Over, Effect, Delete
<1>3. \A j \in Names : ListMetaKey(j) \in keys => j = k
  BY KeysDiffer
<1>4. \A j \in Names, i \in Int : ListKey(j, i) \in keys => j = k
  BY KeysDiffer
<1>5. ListMetaKey(k) \in keys
  OBVIOUS
<1> HIDE DEF new, keys
<1>6. Whole(new)
  <2> SUFFICES ASSUME NEW j \in Names, ListMetaKey(j) \in DOMAIN new
               PROVE  /\ new[ListMetaKey(j)] \in Int \X Int
                      /\ new[ListMetaKey(j)][1] <= new[ListMetaKey(j)][2]
                      /\ \A i \in new[ListMetaKey(j)][1] .. new[ListMetaKey(j)][2] - 1 :
                           ListKey(j, i) \in DOMAIN new
    BY DEF Whole
  <2>1. j # k /\ ListMetaKey(j) \in DOMAIN view /\ new[ListMetaKey(j)] = view[ListMetaKey(j)]
    BY <1>1, <1>2, <1>5
  <2>2. /\ view[ListMetaKey(j)] \in Int \X Int
        /\ view[ListMetaKey(j)][1] <= view[ListMetaKey(j)][2]
        /\ \A i \in view[ListMetaKey(j)][1] .. view[ListMetaKey(j)][2] - 1 :
             ListKey(j, i) \in DOMAIN view
    BY <2>1 DEF Whole
  <2>3. \A i \in Int : ListKey(j, i) \in DOMAIN view => ListKey(j, i) \in DOMAIN new
    BY <1>1, <1>4, <2>1
  <2> QED BY <2>1, <2>2, <2>3
<1>7. ReadsFirst(e.reads, e.writes)
  <2>1. e.reads = {ListMetaKey(k)} /\ DOMAIN e.writes = keys
    BY DEF Effect, Delete
  <2> HIDE DEF e
  <2> QED BY <2>1, <1>3, <1>4, <1>5 DEF ReadsFirst
<1>8. Careful(view, e)
  BY <1>6, <1>7 DEF Careful, new
<1>9. Careful(view, Answer({ListMetaKey(k)}, NotExist))
  BY OtherKinds DEF Answer, Effect, Nothing
<1> HIDE DEF e
<1> QED BY <1>8, <1>9 DEF lclear, e, keys, m

\* lset (bg.go:595-610): wherever it writes, it takes nothing away.
LEMMA SetIsCareful ==
  ASSUME NEW view, Whole(view), NEW k \in Names, NEW idx \in Int, NEW v \in Values
  PROVE  Careful(view, lset(view, k, idx, v))
<1> DEFINE e == lset(view, k, idx, v)
<1>1. CASE e.writes = Nothing
  BY <1>1, OtherKinds DEF Nothing
<1>2. ASSUME NEW at, e.writes = Put(ListKey(k, at), v)
      PROVE  Careful(view, e)
  <2> HIDE DEF e
  <2>1. DOMAIN e.writes = {ListKey(k, at)} /\ e.writes[ListKey(k, at)] # Gone
    BY <1>2, StoreAssumption DEF Put
  <2>2. \A j \in Names : ListMetaKey(j) \notin DOMAIN e.writes
    BY <2>1, KeysDiffer
  <2>3. ReadsFirst(e.reads, e.writes)
    BY <2>1, <2>2 DEF ReadsFirst
  <2>4. DOMAIN Over(view, e.writes) = DOMAIN view \cup {ListKey(k, at)}
    BY <2>1 DEF Over
  <2>5. \A j \in Names : ListMetaKey(j) \in DOMAIN Over(view, e.writes) =>
          /\ ListMetaKey(j) \in DOMAIN view
          /\ Over(view, e.writes)[ListMetaKey(j)] = view[ListMetaKey(j)]
    BY <2>2, <2>4 DEF Over
  <2>6. Whole(Over(view, e.writes))
    BY <2>4, <2>5 DEF Whole
  <2> QED BY <2>3, <2>6 DEF Careful
<1>3. e.writes = Nothing \/ \E at : e.writes = Put(ListKey(k, at), v)
  <2> DEFINE m == listStartEnd(view, k)
  <2>1. e.writes \in {Nothing, Put(ListKey(k, Located(m, idx)), v)}
    BY DEF lset, Answer, Effect
  <2> QED BY <2>1
<1> QED BY <1>1, <1>2, <1>3

---------------------------------------------------------------------------
\* A careful operation keeps its transaction sound (bg.go:280-394).
LEMMA DoKeeps ==
  ASSUME StoreInv, NEW c \in Clients, txn[c] # NoTxn,
         NEW op, NEW name, NEW arg, NEW e, Careful(View(c), e), Do(c, op, name, arg, e)
  PROVE  StoreInv'
<1> DEFINE t == txn[c]
           u == txn'[c]
<1>1. /\ DOMAIN txn' = Clients
      /\ \A d \in Clients \ {c} : txn'[d] = txn[d]
      /\ db' = db
  BY DEF StoreInv, Do
<1>2. Sound(t, db)
  BY DEF StoreInv
<1>3. u = [snap |-> t.snap, reads |-> t.reads \cup (e.reads \ DOMAIN t.writes),
           writes |-> Amend(t.writes, e.writes), stale |-> t.stale,
           log |-> Append(t.log, [op |-> op, name |-> name, arg |-> arg, ret |-> e.ret])]
  <2>1. u = [t EXCEPT !.reads = @ \cup (e.reads \ DOMAIN t.writes),
                      !.writes = Amend(@, e.writes),
                      !.log = Append(@, [op |-> op, name |-> name, arg |-> arg,
                                         ret |-> e.ret])]
    BY DEF StoreInv, Do
  <2>2. t = [snap |-> t.snap, reads |-> t.reads, writes |-> t.writes, stale |-> t.stale,
             log |-> t.log]
    BY <1>2 DEF Sound
  <2> HIDE DEF t, u
  <2> QED BY <2>1, <2>2
<1> HIDE DEF u
<1>4. Whole(Over(u.snap, u.writes))
  <2>1. Over(u.snap, u.writes) = Over(View(c), e.writes)
    BY <1>3, OverAmend DEF View
  <2> QED BY <2>1 DEF Careful
<1>5. ReadsFirst(u.reads, u.writes)
  <2>1. ReadsFirst(t.reads, t.writes) /\ ReadsFirst(e.reads, e.writes)
    BY <1>2 DEF Sound, Careful
  <2>2. u.reads = t.reads \cup (e.reads \ DOMAIN t.writes) /\ u.writes = Amend(t.writes, e.writes)
    BY <1>3
  <2> HIDE DEF t
  <2> QED BY <2>1, <2>2 DEF ReadsFirst, Amend
<1>6. Current(u, db)
  <2>1. u.snap = t.snap /\ u.stale = t.stale
    BY <1>3
  <2>2. Current(t, db)
    BY <1>2 DEF Sound
  <2> QED BY <2>1, <2>2 DEF Current
<1>7. Sound(u, db')
  BY <1>1, <1>3, <1>4, <1>5, <1>6 DEF Sound
<1>8. \A d \in Clients : txn'[d] # NoTxn => Sound(txn'[d], db')
  <2> SUFFICES ASSUME NEW d \in Clients, txn'[d] # NoTxn PROVE Sound(txn'[d], db')
    OBVIOUS
  <2>1. CASE d = c
    BY <2>1, <1>7 DEF u
  <2>2. CASE d # c
    BY <2>2, <1>1 DEF StoreInv
  <2> QED BY <2>1, <2>2
<1>9. Whole(db)'
  BY <1>1 DEF StoreInv, Whole
<1> QED BY <1>1, <1>8, <1>9 DEF StoreInv

\* A transaction that is not refused leaves the lists whole (bg.go:276-278).
LEMMA CommitIsWhole ==
  ASSUME Whole(db), NEW t, Sound(t, db), ~Conflict(t)
  PROVE  Whole(Over(db, t.writes))
<1> DEFINE new == Over(db, t.writes)
           view == Over(t.snap, t.writes)
<1> SUFFICES ASSUME NEW k \in Names, ListMetaKey(k) \in DOMAIN new
             PROVE  /\ new[ListMetaKey(k)] \in Int \X Int
                    /\ new[ListMetaKey(k)][1] <= new[ListMetaKey(k)][2]
                    /\ \A i \in new[ListMetaKey(k)][1] .. new[ListMetaKey(k)][2] - 1 :
                         ListKey(k, i) \in DOMAIN new
  BY DEF Whole
<1>1. CASE ListMetaKey(k) \in DOMAIN t.writes
  <2>1. ListMetaKey(k) \in t.reads
    BY <1>1 DEF Sound, ReadsFirst
  <2>2. t.writes # Nothing
    BY <1>1 DEF Nothing
  <2>3. ListMetaKey(k) \notin t.stale
    BY <2>1, <2>2 DEF Conflict
  <2>4. \A i \in Int : ListKey(k, i) \in DOMAIN t.snap => ListKey(k, i) \in DOMAIN db
    BY <2>3 DEF Sound, Current
  <2>5. ListMetaKey(k) \in DOMAIN view /\ new[ListMetaKey(k)] = view[ListMetaKey(k)]
    BY <1>1 DEF Over
  <2>6. \A i \in Int : ListKey(k, i) \in DOMAIN view => ListKey(k, i) \in DOMAIN new
    BY <2>4 DEF Over
  <2>7. /\ view[ListMetaKey(k)] \in Int \X Int
        /\ view[ListMetaKey(k)][1] <= view[ListMetaKey(k)][2]
        /\ \A i \in view[ListMetaKey(k)][1] .. view[ListMetaKey(k)][2] - 1 :
             ListKey(k, i) \in DOMAIN view
    BY <2>5 DEF Sound, Whole
  <2> HIDE DEF new, view
  <2> QED BY <2>5, <2>6, <2>7
<1>2. CASE ListMetaKey(k) \notin DOMAIN t.writes
  <2>1. ListMetaKey(k) \in DOMAIN db /\ new[ListMetaKey(k)] = db[ListMetaKey(k)]
    BY <1>2 DEF Over
  <2>2. \A i \in Int : ListKey(k, i) \in DOMAIN t.writes => t.writes[ListKey(k, i)] # Gone
    BY <1>2 DEF Sound, ReadsFirst
  <2>3. \A i \in Int : ListKey(k, i) \in DOMAIN db => ListKey(k, i) \in DOMAIN new
    BY <2>2 DEF Over
  <2>4. /\ db[ListMetaKey(k)] \in Int \X Int
        /\ db[ListMetaKey(k)][1] <= db[ListMetaKey(k)][2]
        /\ \A i \in db[ListMetaKey(k)][1] .. db[ListMetaKey(k)][2] - 1 :
             ListKey(k, i) \in DOMAIN db
    BY <2>1 DEF Whole
  <2> HIDE DEF new
  <2> QED BY <2>1, <2>3, <2>4
<1> QED BY <1>1, <1>2

\* The transactions still open see what they have seen, and know of the keys
\* that have changed.
LEMMA CommitKeepsOthers ==
  ASSUME NEW t, Sound(t, db), NEW u, Sound(u, db)
  PROVE  Sound([u EXCEPT !.stale = @ \cup DOMAIN t.writes], Over(db, t.writes))
<1> DEFINE new == Over(db, t.writes)
           w == [u EXCEPT !.stale = @ \cup DOMAIN t.writes]
<1>1. w = [snap |-> u.snap, reads |-> u.reads, writes |-> u.writes,
           stale |-> u.stale \cup DOMAIN t.writes, log |-> u.log]
  <2>1. u = [snap |-> u.snap, reads |-> u.reads, writes |-> u.writes, stale |-> u.stale,
             log |-> u.log]
    BY DEF Sound
  <2> QED BY <2>1
<1> HIDE DEF w
<1>2. Current(w, new)
  <2> SUFFICES ASSUME NEW k \in Names, ListMetaKey(k) \notin u.stale,
                      ListMetaKey(k) \notin DOMAIN t.writes
               PROVE  /\ ListMetaKey(k) \in DOMAIN new <=> ListMetaKey(k) \in DOMAIN u.snap
                      /\ ListMetaKey(k) \in DOMAIN new =>
                           new[ListMetaKey(k)] = u.snap[ListMetaKey(k)]
                      /\ \A i \in Int : ListKey(k, i) \in DOMAIN u.snap =>
                           ListKey(k, i) \in DOMAIN new
    BY <1>1 DEF Current
  <2>1. \A i \in Int : ListKey(k, i) \in DOMAIN t.writes => t.writes[ListKey(k, i)] # Gone
    BY DEF Sound, ReadsFirst
  <2>2. \A i \in Int : ListKey(k, i) \in DOMAIN db => ListKey(k, i) \in DOMAIN new
    BY <2>1 DEF Over
  <2>3. /\ ListMetaKey(k) \in DOMAIN new <=> ListMetaKey(k) \in DOMAIN db
        /\ ListMetaKey(k) \in DOMAIN new => new[ListMetaKey(k)] = db[ListMetaKey(k)]
    BY DEF Over
  <2> QED BY <2>2, <2>3 DEF Sound, Current
<1>3. Sound(w, new)
  BY <1>1, <1>2 DEF Sound
<1> QED BY <1>3 DEF w, new

\* A commit whose reads are all as they were keeps the lists whole.
LEMMA CommitKeeps ==
  ASSUME StoreInv, NEW c \in Clients, Commit(c)
  PROVE  StoreInv'
<1> DEFINE t == txn[c]
<1>1. /\ t # NoTxn /\ ~Conflict(t) /\ db' = Over(db, t.writes)
      /\ txn' = [d \in Clients |->
           IF d = c THEN NoTxn
           ELSE IF txn[d] = NoTxn THEN NoTxn
           ELSE [txn[d] EXCEPT !.stale = @ \cup DOMAIN t.writes]]
  BY DEF Commit
<1>2. Sound(t, db)
  BY <1>1 DEF StoreInv
<1>3. Whole(db')
  BY <1>1, <1>2, CommitIsWhole DEF StoreInv
<1>4. ASSUME NEW d \in Clients, txn'[d] # NoTxn
      PROVE  Sound(txn'[d], db')
  <2>1. txn[d] # NoTxn /\ txn'[d] = [txn[d] EXCEPT !.stale = @ \cup DOMAIN t.writes]
    BY <1>1, <1>4
  <2>2. Sound(txn[d], db)
    BY <2>1 DEF StoreInv
  <2> HIDE DEF t
  <2> QED BY <1>1, <1>2, <2>1, <2>2, CommitKeepsOthers
<1>5. DOMAIN txn' = Clients
  BY <1>1
<1> QED BY <1>3, <1>4, <1>5 DEF StoreInv, Whole

\* A new transaction sees what is committed.
LEMMA BeginKeeps ==
  ASSUME StoreInv, NEW c \in Clients, Begin(c)
  PROVE  StoreInv'
<1> DEFINE u == [snap |-> db, reads |-> {}, writes |-> Nothing, stale |-> {}, log |-> <<>>]
<1>1. DOMAIN txn' = Clients /\ db' = db /\ txn'[c] = u
      /\ \A d \in Clients \ {c} : txn'[d] = txn[d]
  BY DEF StoreInv, Begin
<1>2. \A k \in Names :
        /\ ListMetaKey(k) \in DOMAIN Over(db, Nothing) <=> ListMetaKey(k) \in DOMAIN db
        /\ ListMetaKey(k) \in DOMAIN db =>
             Over(db, Nothing)[ListMetaKey(k)] = db[ListMetaKey(k)]
        /\ \A i \in Int : ListKey(k, i) \in DOMAIN db =>
             ListKey(k, i) \in DOMAIN Over(db, Nothing)
  BY DEF Over, Nothing
<1>3. Whole(Over(db, Nothing))
  <2> SUFFICES ASSUME NEW k \in Names, ListMetaKey(k) \in DOMAIN db
               PROVE  \A i \in db[ListMetaKey(k)][1] .. db[ListMetaKey(k)][2] - 1 :
                        ListKey(k, i) \in DOMAIN Over(db, Nothing)
    BY <1>2 DEF StoreInv, Whole
  <2> QED BY <1>2 DEF StoreInv, Whole
<1>4. Sound(u, db)
  BY <1>3 DEF Sound, ReadsFirst, Current, Nothing
<1> HIDE DEF u
<1>5. \A d \in Clients : txn'[d] # NoTxn => Sound(txn'[d], db')
  BY <1>1, <1>4 DEF StoreInv
<1> QED BY <1>1, <1>5 DEF StoreInv, Whole

\* A discarded transaction leaves no trace.
LEMMA DiscardKeeps ==
  ASSUME StoreInv, NEW c \in Clients, Discard(c)
  PROVE  StoreInv'
<1>1. DOMAIN txn' = Clients /\ db' = db /\ txn'[c] = NoTxn
      /\ \A d \in Clients \ {c} : txn'[d] = txn[d]
  BY DEF StoreInv, Discard
<1>2. \A d \in Clients : txn'[d] # NoTxn => Sound(txn'[d], db')
  BY <1>1 DEF StoreInv
<1> QED BY <1>1, <1>2 DEF StoreInv, Whole

---------------------------------------------------------------------------
\* An operation of client c that touches no key of a list.
Elsewhere(c) ==
  \E op, name, arg, e : Do(c, op, name, arg, e) /\ \A key \in DOMAIN e.writes : key[1] # "l"

\* An operation that writes nothing.
LEMMA ReadsElsewhere ==
  ASSUME NEW c, NEW op, NEW name, NEW arg, NEW reads, NEW ret,
         Do(c, op, name, arg, Answer(reads, ret))
  PROVE  Elsewhere(c)
<1>1. \A key \in DOMAIN Answer(reads, ret).writes : key[1] # "l"
  BY DEF Answer, Effect, Nothing
<1> QED BY <1>1 DEF Elsewhere

\* An operation that deletes keys of other collections.
LEMMA DeletesElsewhere ==
  ASSUME NEW c, NEW op, NEW name, NEW arg, NEW reads, NEW gone, NEW ret,
         Do(c, op, name, arg, Effect(reads, Delete(gone), ret)),
         \A key \in gone : key[1] # "l"
  PROVE  Elsewhere(c)
<1>1. \A key \in DOMAIN Effect(reads, Delete(gone), ret).writes : key[1] # "l"
  BY DEF Effect, Delete
<1> QED BY <1>1 DEF Elsewhere

\* An operation that writes one key of another collection.
LEMMA PutsElsewhere ==
  ASSUME NEW c, NEW op, NEW name, NEW arg, NEW reads, NEW key, NEW val, NEW ret,
         Do(c, op, name, arg, Effect(reads, Put(key, val), ret)), key[1] # "l"
  PROVE  Elsewhere(c)
<1>1. \A x \in DOMAIN Effect(reads, Put(key, val), ret).writes : x[1] # "l"
  BY DEF Effect, Put
<1> QED BY <1>1 DEF Elsewhere

\* The operations on plain values, maps, sets and scored sets, and those that
\* only read a list, whatever their arguments.
LEMMA OtherOps ==
  ASSUME NEW c, NEW k, NEW x, NEW y,
         \/ Del(c, k) \/ Get(c, k) \/ Set(c, k, x)
         \/ Mkvs(c, k) \/ Mclear(c, k) \/ Mdel(c, k, x) \/ Mget(c, k, x) \/ Mset(c, k, x, y)
         \/ Smembers(c, k) \/ Sclear(c, k)
         \/ Sadd(c, k, x) \/ Sdel(c, k, x) \/ Selem(c, k, x)
         \/ Zclear(c, k) \/ Zdel(c, k, x) \/ Zscore(c, k, x)
         \/ Zadd(c, k, y, x) \/ Zrange(c, k, x, y)
         \/ Llen(c, k) \/ Lindex(c, k, x) \/ Lrange(c, k, x, y)
  PROVE  Elsewhere(c)
<1>1. \A j, v : RawKey(j)[1] # "l" /\ MapKey(j, v)[1] # "l" /\ SetKey(j, v)[1] # "l"
              /\ ZetKey(j, v)[1] # "l"
  BY DEF RawKey, MapKey, SetKey, ZetKey
<1>2. \A j, v, s : ZetScore(j, v, s)[1] # "l"
  BY DEF ZetScore
<1>3. CASE \/ Get(c, k) \/ Mkvs(c, k) \/ Mget(c, k, x) \/ Smembers(c, k) \/ Selem(c, k, x)
           \/ Zscore(c, k, x) \/ Zrange(c, k, x, y)
           \/ Llen(c, k) \/ Lindex(c, k, x) \/ Lrange(c, k, x, y)
  <2>1. CASE Get(c, k) \/ Mget(c, k, x) \/ Selem(c, k, x) \/ Zscore(c, k, x)
    BY <2>1, ReadsElsewhere DEF Get, get, Mget, mget, Selem, selem, Zscore, zscore
  <2>2. CASE Mkvs(c, k) \/ Smembers(c, k)
    BY <2>2, ReadsElsewhere DEF Mkvs, mkvs, Smembers, smembers
  <2>3. CASE Zrange(c, k, x, y)
    BY <2>3, ReadsElsewhere DEF Zrange, zrange
  <2>4. CASE Llen(c, k)
    BY <2>4, ReadsElsewhere DEF Llen, llen
  <2>5. CASE Lindex(c, k, x)
    <3>1. \E reads, ret : lindex(View(c), k, x) = Answer(reads, ret)
      BY DEF lindex
    <3> QED BY <2>5, <3>1, ReadsElsewhere DEF Lindex
  <2>6. CASE Lrange(c, k, x, y)
    <3>1. \E reads, ret : lrange(View(c), k, x, y) = Answer(reads, ret)
      BY DEF lrange
    <3> QED BY <2>6, <3>1, ReadsElsewhere DEF Lrange
  <2> QED BY <1>3, <2>1, <2>2, <2>3, <2>4, <2>5, <2>6
<1>4. CASE Del(c, k) \/ Mdel(c, k, x) \/ Sdel(c, k, x)
  <2>1. PICK op, name, arg, key :
          Do(c, op, name, arg, Effect({}, Delete({key}), "ok")) /\ key[1] # "l"
    BY <1>1, <1>4, Zenon DEF Del, del, Mdel, mdel, Sdel, sdel
  <2>2. \A x2 \in {key} : x2[1] # "l"
    BY <2>1
  <2> QED BY <2>1, <2>2, DeletesElsewhere
<1>5. CASE Set(c, k, x) \/ Mset(c, k, x, y) \/ Sadd(c, k, x)
  <2>1. PICK op, name, arg, key, val :
          Do(c, op, name, arg, Effect({}, Put(key, val), "ok")) /\ key[1] # "l"
    BY <1>1, <1>5, Zenon DEF Set, set, Mset, mset, Sadd, sadd
  <2> QED BY <2>1, PutsElsewhere
<1>6. CASE Mclear(c, k)
  <2>1. PICK gone \in SUBSET EntriesOf(View(c), "m", k) :
          Do(c, "mclear", k, "", mclear(View(c), k, gone))
    BY <1>6 DEF Mclear
  <2>2. \A key \in gone : key[1] # "l"
    BY DEF EntriesOf
  <2> QED BY <2>1, <2>2, DeletesElsewhere DEF mclear
<1>7. CASE Sclear(c, k)
  <2>1. PICK gone \in SUBSET EntriesOf(View(c), "s", k) :
          Do(c, "sclear", k, "", sclear(View(c), k, gone))
    BY <1>7 DEF Sclear
  <2>2. \A key \in gone : key[1] # "l"
    BY DEF EntriesOf
  <2> QED BY <2>1, <2>2, DeletesElsewhere DEF sclear
<1>8. CASE Zclear(c, k)
  <2> DEFINE keys == ScoreKeysOf(View(c), k)
             gone == keys \cup {ZetKey(k, key[4]) : key \in keys}
  <2>1. \A key \in gone : key[1] # "l"
    BY <1>1 DEF ScoreKeysOf
  <2>2. Do(c, "zclear", k, "", Effect(keys, Delete(gone), {key[4] : key \in keys}))
    BY <1>8 DEF Zclear, zclear
  <2> HIDE DEF gone, keys
  <2> QED BY <2>1, <2>2, DeletesElsewhere
<1>9. CASE Zdel(c, k, x)
  <2> DEFINE score == Stored(View(c), ZetKey(k, x))
  <2>1. CASE score = NotExist
    BY <1>9, <2>1, ReadsElsewhere DEF Zdel, zdel
  <2>2. CASE score # NotExist
    <3>1. Do(c, "zdel", k, x, Effect({ZetKey(k, x)},
                                     Delete({ZetKey(k, x), ZetScore(k, x, score)}), "ok"))
      BY <1>9, <2>2 DEF Zdel, zdel
    <3>2. \A key \in {ZetKey(k, x), ZetScore(k, x, score)} : key[1] # "l"
      BY <1>1, <1>2
    <3> QED BY <3>1, <3>2, DeletesElsewhere
  <2> QED BY <2>1, <2>2
<1>10. CASE Zadd(c, k, y, x)
  <2>1. DOMAIN zadd(k, y, x).writes = {ZetKey(k, x), ZetScore(k, x, y)}
    BY DEF zadd, Effect, Amend, Put
  <2>2. \A key \in DOMAIN zadd(k, y, x).writes : key[1] # "l"
    BY <2>1, <1>1, <1>2
  <2> QED BY <1>10, <2>2 DEF Zadd, Elsewhere
<1> QED BY <1>3, <1>4, <1>5, <1>6, <1>7, <1>8, <1>9, <1>10

\* Such an operation leaves the lists whole.
LEMMA OtherOpsKeep ==
  ASSUME StoreInv, NEW c \in Clients, txn[c] # NoTxn, Elsewhere(c)
  PROVE  StoreInv'
<1>1. Whole(View(c))
  BY DEF StoreInv, Sound, View
<1> QED BY <1>1, OtherKinds, DoKeeps DEF Elsewhere

\* The operations on lists read the meta key before they change ends or elements.
LEMMA ListOpsKeep ==
  ASSUME StoreInv, NEW c \in Clients, txn[c] # NoTxn, NEW k \in Names, ListOps(c, k)
  PROVE  StoreInv'
<1>1. Whole(View(c))
  BY DEF StoreInv, Sound, View
<1>3. CASE Llen(c, k)
  BY <1>3, OtherOps, OtherOpsKeep
<1>4. CASE Lclear(c, k)
  BY <1>4, <1>1, ClearIsCareful, DoKeeps DEF Lclear
<1>5. CASE Llpop(c, k) \/ Lrpop(c, k)
  BY <1>5, <1>1, PopIsCareful, DoKeeps DEF Llpop, Lrpop
<1>6. ASSUME NEW v \in Values, Llpush(c, k, v) \/ Lrpush(c, k, v) PROVE StoreInv'
  BY <1>6, <1>1, PushIsCareful, DoKeeps DEF Llpush, Lrpush
<1>7. ASSUME NEW i \in Indexes, NEW v \in Values, Lset(c, k, i, v) PROVE StoreInv'
  <2>1. i \in Int
    BY StoreAssumption
  <2> QED BY <1>7, <1>1, <2>1, SetIsCareful, DoKeeps DEF Lset
<1>8. ASSUME NEW i, NEW j, Lindex(c, k, i) \/ Lrange(c, k, i, j) PROVE StoreInv'
  BY <1>8, OtherOps, OtherOpsKeep
<1> QED BY <1>3, <1>4, <1>5, <1>6, <1>7, <1>8 DEF ListOps

---------------------------------------------------------------------------

\* No action breaks the invariant of lists.
LEMMA StoreInvInductive == StoreInv /\ [Next]_vars => StoreInv'
<1> SUFFICES ASSUME StoreInv, [Next]_vars PROVE StoreInv'
  OBVIOUS
<1>1. CASE UNCHANGED vars
  BY <1>1 DEF vars, StoreInv, Whole, Sound, Current
<1>2. ASSUME NEW c \in Clients, Begin(c) \/ Commit(c) \/ Discard(c) PROVE StoreInv'
  BY <1>2, BeginKeeps, CommitKeeps, DiscardKeeps
<1>3. ASSUME NEW c \in Clients, InTxn(c), NEW k \in Names,
             PlainOps(c, k) \/ MapOps(c, k) \/ SetOps(c, k) \/ ScoreOps(c, k)
      PROVE  StoreInv'
  <2>1. Elsewhere(c)
    <3>1. CASE PlainOps(c, k) \/ MapOps(c, k)
      BY <3>1, OtherOps DEF PlainOps, MapOps
    <3>2. CASE SetOps(c, k) \/ ScoreOps(c, k)
      BY <3>2, OtherOps DEF SetOps, ScoreOps
    <3> QED BY <1>3, <3>1, <3>2
  <2> QED BY <1>3, <2>1, OtherOpsKeep DEF InTxn
<1>4. ASSUME NEW c \in Clients, InTxn(c), NEW k \in Names, ListOps(c, k) PROVE StoreInv'
  BY <1>4, ListOpsKeep DEF InTxn
<1> QED BY <1>1, <1>2, <1>3, <1>4 DEF Next

\* Every view of the lists is whole, and what a transaction has written can be
\* committed unless badger refuses it (bg.go:266-394).
THEOREM StoreInvCorrect == Spec => []StoreInv
<1>1. Init => StoreInv
  BY DEF Init, StoreInv, Whole, Nothing
<1> QED BY <1>1, StoreInvInductive, PTL DEF Spec

\* Every element between a list's ends is stored, whatever transactions run
\* at the same time (bg.go:493-655).
THEOREM ListsAreWholeCorrect == Spec => []ListsAreWhole
<1>1. StoreInv => ListsAreWhole
  BY EndsOf DEF StoreInv, ListsAreWhole
<1> QED BY <1>1, StoreInvCorrect, PTL
---------------------------------------------------------------------------
(* Scored sets.  A member's score is kept under two keys, which are written *)
(* and deleted together, so here transactions need not even conflict.       *)

\* The score of a member is indexed, and ranks are within the width.
Indexed(view) ==
  /\ \A key \in DOMAIN view : key[1] = "z" =>
       /\ key = ZetKey(key[2], key[3])
       /\ view[key] \in Scores
       /\ ZetScore(key[2], key[3], view[key]) \in DOMAIN view
  /\ \A key \in DOMAIN view : key[1] = "sz" => key[3] \in 0 .. ScoreSpan - 1

\* Writes give a member its score with the index, and take the score with it.
InPairs(writes) ==
  /\ \A key \in DOMAIN writes : key[1] = "z" =>
       /\ key = ZetKey(key[2], key[3])
       /\ \/ writes[key] = Gone
          \/ /\ writes[key] \in Scores
             /\ ZetScore(key[2], key[3], writes[key]) \in DOMAIN writes
             /\ writes[ZetScore(key[2], key[3], writes[key])] # Gone
  /\ \A key \in DOMAIN writes : key[1] = "sz" =>
       /\ key[3] \in 0 .. ScoreSpan - 1
       /\ writes[key] = Gone => ZetKey(key[2], key[4]) \in DOMAIN writes

Paired(t) ==
  /\ t = [snap |-> t.snap, reads |-> t.reads, writes |-> t.writes, stale |-> t.stale,
          log |-> t.log]
  /\ Indexed(t.snap)
  /\ InPairs(t.writes)

ScoreInv ==
  /\ DOMAIN txn = Clients
  /\ Indexed(db)
  /\ \A c \in Clients : txn[c] # NoTxn => Paired(txn[c])

\* Parts of the keys of scored sets (bg.go:866-897).
LEMMA ScoreKeys ==
  ASSUME NEW k, NEW v, NEW s
  PROVE  /\ ZetKey(k, v)[1] = "z" /\ ZetKey(k, v)[2] = k /\ ZetKey(k, v)[3] = v
         /\ ZetScore(k, v, s)[1] = "sz" /\ ZetScore(k, v, s)[2] = k
         /\ ZetScore(k, v, s)[3] = s % ScoreSpan /\ ZetScore(k, v, s)[4] = v
  BY DEF ZetKey, ZetScore, ScoreRank

\* Ranks order the scores that are not negative, and set the others behind
\* them (bg.go:882-897).
LEMMA RankOf ==
  ASSUME NEW s \in Scores
  PROVE  s % ScoreSpan \in 0 .. ScoreSpan - 1 /\ (s >= 0 => s % ScoreSpan = s)
<1>1. s \in Int /\ ScoreSpan \in Nat \ {0} /\ 2 * s < ScoreSpan
  BY StoreAssumption, ScoreAssumption
<1> HIDE DEF ScoreSpan
<1>2. s % ScoreSpan \in 0 .. ScoreSpan - 1
  BY <1>1
<1>3. s >= 0 => s % ScoreSpan = s
  BY <1>1
<1> QED BY <1>2, <1>3

\* Writes in pairs keep scores and index together.
LEMMA OverIndexed ==
  ASSUME NEW base, Indexed(base), NEW w, InPairs(w)
  PROVE  Indexed(Over(base, w))
<1> DEFINE new == Over(base, w)
<1>1. ASSUME NEW key \in DOMAIN new, key[1] = "z"
      PROVE  /\ key = ZetKey(key[2], key[3])
             /\ new[key] \in Scores
             /\ ZetScore(key[2], key[3], new[key]) \in DOMAIN new
  <2>1. CASE key \in DOMAIN w
    <3>1. w[key] # Gone /\ new[key] = w[key]
      BY <2>1 DEF Over
    <3>2. /\ key = ZetKey(key[2], key[3]) /\ w[key] \in Scores
          /\ ZetScore(key[2], key[3], w[key]) \in DOMAIN w
          /\ w[ZetScore(key[2], key[3], w[key])] # Gone
      BY <1>1, <2>1, <3>1 DEF InPairs
    <3>3. ZetScore(key[2], key[3], w[key]) \in DOMAIN new
      BY <3>2 DEF Over
    <3> QED BY <3>1, <3>2, <3>3
  <2>2. CASE key \notin DOMAIN w
    <3> DEFINE score == ZetScore(key[2], key[3], base[key])
    <3>1. key \in DOMAIN base /\ new[key] = base[key]
      BY <2>2 DEF Over
    <3>2. key = ZetKey(key[2], key[3]) /\ base[key] \in Scores /\ score \in DOMAIN base
      BY <1>1, <3>1 DEF Indexed
    <3>3. score[1] = "sz" /\ score[2] = key[2] /\ score[4] = key[3]
      BY ScoreKeys
    <3> HIDE DEF score
    <3>4. score \in DOMAIN w => w[score] # Gone
      BY <2>2, <3>2, <3>3 DEF InPairs
    <3>5. score \in DOMAIN new
      BY <3>2, <3>4 DEF Over
    <3> QED BY <3>1, <3>2, <3>5 DEF score
  <2> QED BY <2>1, <2>2
<1>2. ASSUME NEW key \in DOMAIN new, key[1] = "sz"
      PROVE  key[3] \in 0 .. ScoreSpan - 1
  <2>1. key \in DOMAIN base \/ key \in DOMAIN w
    BY DEF Over
  <2> QED BY <1>2, <2>1 DEF Indexed, InPairs
<1> HIDE DEF new
<1>3. Indexed(new)
  BY <1>1, <1>2 DEF Indexed
<1> QED BY <1>3 DEF new

\* An operation without scores keeps the pairs.
LEMMA NoScores ==
  ASSUME NEW w, InPairs(w), NEW more, \A key \in DOMAIN more : key[1] \notin {"z", "sz"}
  PROVE  InPairs(Amend(w, more))
<1>1. /\ DOMAIN Amend(w, more) = DOMAIN w \cup DOMAIN more
      /\ \A key \in DOMAIN Amend(w, more) : key[1] \in {"z", "sz"} =>
           key \in DOMAIN w /\ Amend(w, more)[key] = w[key]
  BY DEF Amend
<1>2. \A k, v, s : ZetScore(k, v, s)[1] \in {"z", "sz"} /\ ZetKey(k, v)[1] \in {"z", "sz"}
  BY ScoreKeys
<1> DEFINE new == Amend(w, more)
<1> HIDE DEF new
<1>3. /\ DOMAIN new = DOMAIN w \cup DOMAIN more
      /\ \A key \in DOMAIN new : key[1] \in {"z", "sz"} => key \in DOMAIN w /\ new[key] = w[key]
  BY <1>1 DEF new
<1>4. ASSUME NEW key \in DOMAIN new, key[1] = "z"
      PROVE  /\ key = ZetKey(key[2], key[3])
             /\ \/ new[key] = Gone
                \/ /\ new[key] \in Scores
                   /\ ZetScore(key[2], key[3], new[key]) \in DOMAIN new
                   /\ new[ZetScore(key[2], key[3], new[key])] # Gone
  <2>1. key \in DOMAIN w /\ new[key] = w[key]
    BY <1>3, <1>4
  <2>2. /\ key = ZetKey(key[2], key[3])
        /\ \/ w[key] = Gone
           \/ /\ w[key] \in Scores
              /\ ZetScore(key[2], key[3], w[key]) \in DOMAIN w
              /\ w[ZetScore(key[2], key[3], w[key])] # Gone
    BY <1>4, <2>1 DEF InPairs
  <2> QED BY <1>2, <1>3, <2>1, <2>2
<1>5. ASSUME NEW key \in DOMAIN new, key[1] = "sz"
      PROVE  /\ key[3] \in 0 .. ScoreSpan - 1
             /\ new[key] = Gone => ZetKey(key[2], key[4]) \in DOMAIN new
  <2>1. key \in DOMAIN w /\ new[key] = w[key]
    BY <1>3, <1>5
  <2> QED BY <1>3, <1>5, <2>1 DEF InPairs
<1>6. InPairs(new)
  BY <1>4, <1>5 DEF InPairs
<1> QED BY <1>6 DEF new

\* zadd (bg.go:759-767).
LEMMA AddPairs ==
  ASSUME NEW w, InPairs(w), NEW k, NEW s \in Scores, NEW v
  PROVE  InPairs(Amend(w, zadd(k, s, v).writes))
<1> DEFINE new == Amend(w, zadd(k, s, v).writes)
           z == ZetKey(k, v)
           sz == ZetScore(k, v, s)
<1>1. /\ DOMAIN new = DOMAIN w \cup {z, sz}
      /\ new[z] = s /\ new[sz] = ""
      /\ \A key \in DOMAIN new \ {z, sz} : key \in DOMAIN w /\ new[key] = w[key]
  <2>1. z # sz
    BY ScoreKeys
  <2> QED BY <2>1 DEF zadd, Effect, Amend, Put
<1>2. /\ z[1] = "z" /\ z[2] = k /\ z[3] = v
      /\ sz[1] = "sz" /\ sz[3] \in 0 .. ScoreSpan - 1
  BY ScoreKeys, RankOf
<1>3. Gone # "" /\ s # Gone
  BY ScoreAssumption
<1> HIDE DEF new
<1>4. ASSUME NEW key \in DOMAIN new, key[1] = "z"
      PROVE  /\ key = ZetKey(key[2], key[3])
             /\ \/ new[key] = Gone
                \/ /\ new[key] \in Scores
                   /\ ZetScore(key[2], key[3], new[key]) \in DOMAIN new
                   /\ new[ZetScore(key[2], key[3], new[key])] # Gone
  <2>1. CASE key = z
    BY <2>1, <1>1, <1>2, <1>3
  <2>2. CASE key # z
    <3>1. key \in DOMAIN w /\ new[key] = w[key]
      BY <2>2, <1>1, <1>2, <1>4
    <3>2. /\ key = ZetKey(key[2], key[3])
          /\ \/ w[key] = Gone
             \/ /\ w[key] \in Scores
                /\ ZetScore(key[2], key[3], w[key]) \in DOMAIN w
                /\ w[ZetScore(key[2], key[3], w[key])] # Gone
      BY <1>4, <3>1 DEF InPairs
    <3>3. ZetScore(key[2], key[3], w[key])[1] = "sz"
      BY ScoreKeys
    <3> HIDE DEF z, sz
    <3> QED BY <1>1, <1>2, <1>3, <3>1, <3>2, <3>3
  <2> QED BY <2>1, <2>2
<1>5. ASSUME NEW key \in DOMAIN new, key[1] = "sz"
      PROVE  /\ key[3] \in 0 .. ScoreSpan - 1
             /\ new[key] = Gone => ZetKey(key[2], key[4]) \in DOMAIN new
  <2>1. CASE key = sz
    BY <2>1, <1>1, <1>2, <1>3
  <2>2. CASE key # sz
    <3>1. key \in DOMAIN w /\ new[key] = w[key]
      BY <2>2, <1>1, <1>2, <1>5
    <3> QED BY <1>1, <1>5, <3>1 DEF InPairs
  <2> QED BY <2>1, <2>2
<1>6. InPairs(new)
  BY <1>4, <1>5 DEF InPairs
<1> QED BY <1>6 DEF new

\* zdel and zclear (bg.go:712-748) delete keys of the index with the members'.
LEMMA DeletePairs ==
  ASSUME NEW w, InPairs(w), NEW gone,
         \A key \in gone : key[1] = "z" => key = ZetKey(key[2], key[3]),
         \A key \in gone : key[1] = "sz" =>
           key[3] \in 0 .. ScoreSpan - 1 /\ ZetKey(key[2], key[4]) \in gone
  PROVE  InPairs(Amend(w, Delete(gone)))
<1> DEFINE new == Amend(w, Delete(gone))
<1>1. /\ DOMAIN new = DOMAIN w \cup gone
      /\ \A key \in gone : new[key] = Gone
      /\ \A key \in DOMAIN new \ gone : key \in DOMAIN w /\ new[key] = w[key]
  BY DEF Amend, Delete
<1> HIDE DEF new
<1>2. ASSUME NEW key \in DOMAIN new, key[1] = "z"
      PROVE  /\ key = ZetKey(key[2], key[3])
             /\ \/ new[key] = Gone
                \/ /\ new[key] \in Scores
                   /\ ZetScore(key[2], key[3], new[key]) \in DOMAIN new
                   /\ new[ZetScore(key[2], key[3], new[key])] # Gone
  <2>1. CASE key \in gone
    BY <2>1, <1>1, <1>2
  <2>2. CASE key \notin gone
    <3> DEFINE score == ZetScore(key[2], key[3], w[key])
    <3>1. key \in DOMAIN w /\ new[key] = w[key]
      BY <2>2, <1>1
    <3>2. /\ key = ZetKey(key[2], key[3])
          /\ \/ w[key] = Gone
             \/ w[key] \in Scores /\ score \in DOMAIN w /\ w[score] # Gone
      BY <1>2, <3>1 DEF InPairs
    <3>3. score[1] = "sz" /\ score[2] = key[2] /\ score[4] = key[3]
      BY ScoreKeys
    <3> HIDE DEF score
    <3>4. score \notin gone
      BY <2>2, <3>2, <3>3
    <3>5. score \in DOMAIN w => score \in DOMAIN new /\ new[score] = w[score]
      BY <1>1, <3>4
    <3> QED BY <3>1, <3>2, <3>5 DEF score
  <2> QED BY <2>1, <2>2
<1>3. ASSUME NEW key \in DOMAIN new, key[1] = "sz"
      PROVE  /\ key[3] \in 0 .. ScoreSpan - 1
             /\ new[key] = Gone => ZetKey(key[2], key[4]) \in DOMAIN new
  <2>1. CASE key \in gone
    BY <2>1, <1>1, <1>3
  <2>2. CASE key \notin gone
    BY <2>2, <1>1, <1>3 DEF InPairs
  <2> QED BY <2>1, <2>2
<1>4. InPairs(new)
  BY <1>2, <1>3 DEF InPairs
<1> QED BY <1>4 DEF new

---------------------------------------------------------------------------

\* An operation that writes both keys of a score keeps them together.
LEMMA DoPaired ==
  ASSUME ScoreInv, NEW c \in Clients, txn[c] # NoTxn,
         NEW op, NEW name, NEW arg, NEW e, Do(c, op, name, arg, e),
         InPairs(Amend(txn[c].writes, e.writes))
  PROVE  ScoreInv'
<1> DEFINE t == txn[c]
           u == txn'[c]
<1>1. /\ DOMAIN txn' = Clients /\ db' = db
      /\ \A d \in Clients \ {c} : txn'[d] = txn[d]
  BY DEF ScoreInv, Do
<1>2. Paired(t)
  BY DEF ScoreInv
<1>3. u = [snap |-> t.snap, reads |-> t.reads \cup (e.reads \ DOMAIN t.writes),
           writes |-> Amend(t.writes, e.writes), stale |-> t.stale,
           log |-> Append(t.log, [op |-> op, name |-> name, arg |-> arg, ret |-> e.ret])]
  <2>1. u = [t EXCEPT !.reads = @ \cup (e.reads \ DOMAIN t.writes),
                      !.writes = Amend(@, e.writes),
                      !.log = Append(@, [op |-> op, name |-> name, arg |-> arg,
                                         ret |-> e.ret])]
    BY DEF ScoreInv, Do
  <2>2. t = [snap |-> t.snap, reads |-> t.reads, writes |-> t.writes, stale |-> t.stale,
             log |-> t.log]
    BY <1>2 DEF Paired
  <2> HIDE DEF t, u
  <2> QED BY <2>1, <2>2
<1> HIDE DEF u
<1>4. Paired(u)
  BY <1>2, <1>3 DEF Paired
<1>5. \A d \in Clients : txn'[d] # NoTxn => Paired(txn'[d])
  <2> SUFFICES ASSUME NEW d \in Clients, txn'[d] # NoTxn PROVE Paired(txn'[d])
    OBVIOUS
  <2>1. CASE d = c
    BY <2>1, <1>4 DEF u
  <2>2. CASE d # c
    BY <2>2, <1>1 DEF ScoreInv
  <2> QED BY <2>1, <2>2
<1> QED BY <1>1, <1>5 DEF ScoreInv, Indexed

\* Operations on other collections touch no key of a score.
LEMMA OtherOpsPaired ==
  ASSUME ScoreInv, NEW c \in Clients, txn[c] # NoTxn, NEW k,
         PlainOps(c, k) \/ MapOps(c, k) \/ SetOps(c, k) \/ ListOps(c, k)
  PROVE  ScoreInv'
<1>1. InPairs(txn[c].writes)
  BY DEF ScoreInv, Paired
<1>2. ASSUME NEW op, NEW name, NEW arg, NEW e, Do(c, op, name, arg, e),
             \A key \in DOMAIN e.writes : key[1] \notin {"z", "sz"}
      PROVE  ScoreInv'
  BY <1>1, <1>2, NoScores, DoPaired
<1>3. /\ \A j, v : /\ RawKey(j)[1] = "k" /\ MapKey(j, v)[1] = "m" /\ SetKey(j, v)[1] = "s"
                   /\ ListMetaKey(j)[1] = "l" /\ ListKey(j, v)[1] = "l"
      /\ "k" \notin {"z", "sz"} /\ "m" \notin {"z", "sz"} /\ "s" \notin {"z", "sz"}
      /\ "l" \notin {"z", "sz"}
  BY DEF RawKey, MapKey, SetKey, ListMetaKey, ListKey
<1>4. CASE PlainOps(c, k)
  <2>1. DOMAIN del(k).writes = {RawKey(k)} /\ DOMAIN get(View(c), k).writes = {}
    BY DEF del, get, Answer, Effect, Delete, Nothing
  <2>2. \A v : DOMAIN set(k, v).writes = {RawKey(k)}
    BY DEF set, Effect, Put
  <2>3. CASE Del(c, k)
    BY <2>1, <2>3, <1>2, <1>3 DEF Del
  <2>4. CASE Get(c, k)
    BY <2>1, <2>4, <1>2 DEF Get
  <2>5. ASSUME NEW v \in Values, Set(c, k, v) PROVE ScoreInv'
    BY <2>2, <2>5, <1>2, <1>3 DEF Set
  <2> QED BY <1>4, <2>3, <2>4, <2>5 DEF PlainOps
<1>5. CASE MapOps(c, k)
  <2>1. DOMAIN mkvs(View(c), k).writes = {} /\ \A x : DOMAIN mget(View(c), k, x).writes = {}
    BY DEF mkvs, mget, Answer, Effect, Nothing
  <2>2. \A x, v : DOMAIN mset(k, x, v).writes = {MapKey(k, x)}
    BY DEF mset, Effect, Put
  <2>3. \A x : DOMAIN mdel(k, x).writes = {MapKey(k, x)}
    BY DEF mdel, Effect, Delete
  <2>4. \A gone : DOMAIN mclear(View(c), k, gone).writes = gone
    BY DEF mclear, Effect, Delete
  <2>5. CASE Mkvs(c, k)
    BY <2>1, <2>5, <1>2 DEF Mkvs
  <2>6. CASE Mclear(c, k)
    <3>1. PICK gone \in SUBSET EntriesOf(View(c), "m", k) :
            Do(c, "mclear", k, "", mclear(View(c), k, gone))
      BY <2>6 DEF Mclear
    <3>2. \A key \in gone : key[1] = "m"
      BY DEF EntriesOf
    <3> QED BY <2>4, <3>1, <3>2, <1>2, <1>3
  <2>7. ASSUME NEW x \in Values, Mdel(c, k, x) \/ Mget(c, k, x) PROVE ScoreInv'
    <3>1. CASE Mdel(c, k, x)
      BY <2>3, <3>1, <1>2, <1>3 DEF Mdel
    <3>2. CASE Mget(c, k, x)
      BY <2>1, <3>2, <1>2 DEF Mget
    <3> QED BY <2>7, <3>1, <3>2
  <2>8. ASSUME NEW x \in Values, NEW v \in Values, Mset(c, k, x, v) PROVE ScoreInv'
    BY <2>2, <2>8, <1>2, <1>3 DEF Mset
  <2> QED BY <1>5, <2>5, <2>6, <2>7, <2>8 DEF MapOps
<1>6. CASE SetOps(c, k)
  <2>1. DOMAIN smembers(View(c), k).writes = {}
        /\ \A v : DOMAIN selem(View(c), k, v).writes = {}
    BY DEF smembers, selem, Answer, Effect, Nothing
  <2>2. \A v : DOMAIN sadd(k, v).writes = {SetKey(k, v)}
    BY DEF sadd, Effect, Put
  <2>3. \A v : DOMAIN sdel(k, v).writes = {SetKey(k, v)}
    BY DEF sdel, Effect, Delete
  <2>4. \A gone : DOMAIN sclear(View(c), k, gone).writes = gone
    BY DEF sclear, Effect, Delete
  <2>5. CASE Smembers(c, k)
    BY <2>1, <2>5, <1>2 DEF Smembers
  <2>6. CASE Sclear(c, k)
    <3>1. PICK gone \in SUBSET EntriesOf(View(c), "s", k) :
            Do(c, "sclear", k, "", sclear(View(c), k, gone))
      BY <2>6 DEF Sclear
    <3>2. \A key \in gone : key[1] = "s"
      BY DEF EntriesOf
    <3> QED BY <2>4, <3>1, <3>2, <1>2, <1>3
  <2>7. ASSUME NEW v \in Values, Sadd(c, k, v) PROVE ScoreInv'
    BY <2>2, <2>7, <1>2, <1>3 DEF Sadd
  <2>8. ASSUME NEW v \in Values, Sdel(c, k, v) PROVE ScoreInv'
    BY <2>3, <2>8, <1>2, <1>3 DEF Sdel
  <2>9. ASSUME NEW v \in Values, Selem(c, k, v) PROVE ScoreInv'
    BY <2>1, <2>9, <1>2 DEF Selem
  <2> QED BY <1>6, <2>5, <2>6, <2>7, <2>8, <2>9 DEF SetOps
<1>7. CASE ListOps(c, k)
  <2> DEFINE OfLists(keys) == \A key \in keys : key[1] = "l"
  <2>1. ASSUME NEW op, NEW name, NEW arg, NEW e, Do(c, op, name, arg, e),
               OfLists(DOMAIN e.writes)
        PROVE  ScoreInv'
    BY <2>1, <1>2, <1>3
  <2>2. OfLists(DOMAIN llen(View(c), k).writes)
    BY DEF llen, Answer, Effect, Nothing
  <2>3. OfLists(DOMAIN lclear(View(c), k).writes)
    <3> DEFINE m == listStartEnd(View(c), k)
               keys == {ListKey(k, i) : i \in m[1] .. m[2] - 1} \cup {ListMetaKey(k)}
    <3>1. lclear(View(c), k).writes \in {Nothing, Delete(keys)}
      BY DEF lclear, Answer, Effect
    <3>2. OfLists(keys) /\ DOMAIN Delete(keys) = keys /\ DOMAIN Nothing = {}
      BY <1>3 DEF Delete, Nothing
    <3> HIDE DEF keys
    <3> QED BY <3>1, <3>2
  <2>4. ASSUME NEW start, NEW end
        PROVE  OfLists(DOMAIN SetEnds(k, start, end)) /\ OfLists(DOMAIN Nothing)
    BY <1>3 DEF SetEnds, Put, Nothing
  <2>5. ASSUME NEW at, NEW start, NEW end
        PROVE  OfLists(DOMAIN Pop(View(c), k, at, start, end).writes)
    <3>1. Pop(View(c), k, at, start, end).writes \in {Nothing, SetEnds(k, start, end)}
      BY DEF Pop, Answer, Effect
    <3> QED BY <2>4, <3>1
  <2>6. ASSUME NEW at, NEW v, NEW start, NEW end
        PROVE  OfLists(DOMAIN Amend(Put(ListKey(k, at), v), SetEnds(k, start, end)))
    BY <1>3 DEF Amend, Put, SetEnds
  <2>7. ASSUME NEW v \in Values
        PROVE  /\ OfLists(DOMAIN llpush(View(c), k, v).writes)
               /\ OfLists(DOMAIN lrpush(View(c), k, v).writes)
    <3> DEFINE m == listStartEnd(View(c), k)
    <3>1. llpush(View(c), k, v).writes
            \in {Nothing, Amend(Put(ListKey(k, m[1] - 1), v), SetEnds(k, m[1] - 1, m[2]))}
      BY DEF llpush, Answer, Effect
    <3>2. lrpush(View(c), k, v).writes
            \in {Nothing, Amend(Put(ListKey(k, m[2]), v), SetEnds(k, m[1], m[2] + 1))}
      BY DEF lrpush, Answer, Effect
    <3> HIDE DEF m, OfLists
    <3> QED BY <2>4, <2>6, <3>1, <3>2
  <2>8. ASSUME NEW i \in Indexes, NEW v \in Values
        PROVE  OfLists(DOMAIN lset(View(c), k, i, v).writes)
    <3> DEFINE m == listStartEnd(View(c), k)
    <3>1. lset(View(c), k, i, v).writes \in {Nothing, Put(ListKey(k, Located(m, i)), v)}
      BY DEF lset, Answer, Effect
    <3>2. \A at : OfLists(DOMAIN Put(ListKey(k, at), v))
      BY <1>3 DEF Put
    <3> HIDE DEF m, OfLists
    <3> QED BY <2>4, <3>1, <3>2
  <2>9. ASSUME NEW i \in Indexes PROVE OfLists(DOMAIN lindex(View(c), k, i).writes)
    <3>1. lindex(View(c), k, i).writes = Nothing
      BY DEF lindex, Answer, Effect
    <3> QED BY <2>4, <3>1
  <2>10. ASSUME NEW i \in Indexes, NEW j \in Indexes
         PROVE  OfLists(DOMAIN lrange(View(c), k, i, j).writes)
    <3>1. lrange(View(c), k, i, j).writes = Nothing
      BY DEF lrange, Answer, Effect
    <3> QED BY <2>4, <3>1
  <2> HIDE DEF OfLists
  <2>11. CASE Llen(c, k) \/ Lclear(c, k) \/ Llpop(c, k) \/ Lrpop(c, k)
    BY <2>1, <2>2, <2>3, <2>5, <2>11 DEF Llen, Lclear, Llpop, Lrpop, llpop, lrpop
  <2>12. ASSUME NEW v \in Values, Llpush(c, k, v) \/ Lrpush(c, k, v) PROVE ScoreInv'
    BY <2>1, <2>7, <2>12 DEF Llpush, Lrpush
  <2>13. ASSUME NEW i \in Indexes, NEW v \in Values, Lset(c, k, i, v) PROVE ScoreInv'
    BY <2>1, <2>8, <2>13 DEF Lset
  <2>14. ASSUME NEW i \in Indexes, Lindex(c, k, i) PROVE ScoreInv'
    BY <2>1, <2>9, <2>14 DEF Lindex
  <2>15. ASSUME NEW i \in Indexes, NEW j \in Indexes, Lrange(c, k, i, j) PROVE ScoreInv'
    BY <2>1, <2>10, <2>15 DEF Lrange
  <2> QED BY <1>7, <2>11, <2>12, <2>13, <2>14, <2>15 DEF ListOps
<1> QED BY <1>4, <1>5, <1>6, <1>7

\* zadd, zincrby and zdel write or delete both keys of a score.
LEMMA ScoreOpsPaired ==
  ASSUME ScoreInv, NEW c \in Clients, txn[c] # NoTxn, NEW k, ScoreOps(c, k)
  PROVE  ScoreInv'
<1> DEFINE w == txn[c].writes
<1>1. InPairs(w) /\ Indexed(View(c))
  BY OverIndexed DEF ScoreInv, Paired, View
<1>2. ASSUME NEW op, NEW name, NEW arg, NEW e, Do(c, op, name, arg, e), e.writes = Nothing
      PROVE  ScoreInv'
  <2>1. \A key \in DOMAIN e.writes : key[1] \notin {"z", "sz"}
    BY <1>2 DEF Nothing
  <2> QED BY <1>1, <1>2, <2>1, NoScores, DoPaired
<1>3. ASSUME NEW op, NEW name, NEW arg, NEW reads, NEW gone, NEW ret,
             Do(c, op, name, arg, Effect(reads, Delete(gone), ret)),
             \A key \in gone : key[1] = "z" => key = ZetKey(key[2], key[3]),
             \A key \in gone : key[1] = "sz" =>
               key[3] \in 0 .. ScoreSpan - 1 /\ ZetKey(key[2], key[4]) \in gone
      PROVE  ScoreInv'
  <2>1. Effect(reads, Delete(gone), ret).writes = Delete(gone)
    BY DEF Effect
  <2>2. InPairs(Amend(w, Delete(gone)))
    BY <1>1, <1>3, DeletePairs
  <2> QED BY <1>3, <2>1, <2>2, DoPaired
<1>4. CASE Zclear(c, k)
  <2> DEFINE keys == ScoreKeysOf(View(c), k)
             gone == keys \cup {ZetKey(k, key[4]) : key \in keys}
  <2>1. Do(c, "zclear", k, "", Effect(keys, Delete(gone), {key[4] : key \in keys}))
    BY <1>4 DEF Zclear, zclear
  <2>2. \A key \in keys : key[1] = "sz" /\ key[2] = k /\ key[3] \in 0 .. ScoreSpan - 1
    BY <1>1 DEF ScoreKeysOf, Indexed
  <2>3. \A key \in gone : key[1] = "z" => key = ZetKey(key[2], key[3])
    BY <2>2, ScoreKeys
  <2>4. \A key \in gone : key[1] = "sz" =>
          key[3] \in 0 .. ScoreSpan - 1 /\ ZetKey(key[2], key[4]) \in gone
    BY <2>2, ScoreKeys
  <2> HIDE DEF keys, gone
  <2> QED BY <2>1, <2>3, <2>4, <1>3
<1>5. ASSUME NEW v \in Values, Zdel(c, k, v) PROVE ScoreInv'
  <2> DEFINE score == Stored(View(c), ZetKey(k, v))
             gone == {ZetKey(k, v), ZetScore(k, v, score)}
  <2>1. CASE zdel(View(c), k, v).writes = Nothing
    BY <2>1, <1>2, <1>5 DEF Zdel
  <2>2. CASE ZetKey(k, v) \in DOMAIN View(c) /\ zdel(View(c), k, v)
               = Effect({ZetKey(k, v)}, Delete(gone), "ok")
    <3>1. score \in Scores
      BY <2>2, <1>1, ScoreKeys DEF Indexed, Stored
    <3>2. score % ScoreSpan \in 0 .. ScoreSpan - 1
      BY <3>1, RankOf
    <3>3. \A key \in gone : key[1] = "z" => key = ZetKey(key[2], key[3])
      BY ScoreKeys
    <3>4. \A key \in gone : key[1] = "sz" =>
            key[3] \in 0 .. ScoreSpan - 1 /\ ZetKey(key[2], key[4]) \in gone
      BY <3>2, ScoreKeys
    <3>5. Do(c, "zdel", k, v, Effect({ZetKey(k, v)}, Delete(gone), "ok"))
      BY <2>2, <1>5 DEF Zdel
    <3> HIDE DEF gone
    <3> QED BY <3>3, <3>4, <3>5, <1>3
  <2>3. \/ zdel(View(c), k, v).writes = Nothing
        \/ ZetKey(k, v) \in DOMAIN View(c)
           /\ zdel(View(c), k, v) = Effect({ZetKey(k, v)}, Delete(gone), "ok")
    BY DEF zdel, Answer, Effect, Stored
  <2> QED BY <2>1, <2>2, <2>3
<1>6. ASSUME NEW v \in Values, Zscore(c, k, v) PROVE ScoreInv'
  <2>1. zscore(View(c), k, v).writes = Nothing
    BY DEF zscore, Answer, Effect
  <2> QED BY <1>2, <1>6, <2>1 DEF Zscore
<1>7. ASSUME NEW v \in Values, NEW s \in Scores, Zadd(c, k, s, v) PROVE ScoreInv'
  BY <1>1, <1>7, AddPairs, DoPaired DEF Zadd
<1>8. ASSUME NEW lo \in Scores, NEW hi \in Scores, Zrange(c, k, lo, hi) PROVE ScoreInv'
  <2>1. zrange(View(c), k, lo, hi).writes = Nothing
    BY DEF zrange, Answer, Effect
  <2> QED BY <1>2, <1>8, <2>1 DEF Zrange
<1> QED BY <1>4, <1>5, <1>6, <1>7, <1>8 DEF ScoreOps

\* No action breaks the invariant of scored sets.
LEMMA ScoreInvInductive == ScoreInv /\ [Next]_vars => ScoreInv'
<1> SUFFICES ASSUME ScoreInv, [Next]_vars PROVE ScoreInv'
  OBVIOUS
<1>1. CASE UNCHANGED vars
  BY <1>1 DEF vars, ScoreInv, Indexed, Paired
<1>2. ASSUME NEW c \in Clients, Begin(c) PROVE ScoreInv'
  <2> DEFINE u == [snap |-> db, reads |-> {}, writes |-> Nothing, stale |-> {}, log |-> <<>>]
  <2>1. DOMAIN txn' = Clients /\ db' = db /\ txn'[c] = u
        /\ \A d \in Clients \ {c} : txn'[d] = txn[d]
    BY <1>2 DEF ScoreInv, Begin
  <2>2. Paired(u)
    BY DEF ScoreInv, Paired, InPairs, Nothing
  <2> HIDE DEF u
  <2>3. \A d \in Clients : txn'[d] # NoTxn => Paired(txn'[d])
    BY <2>1, <2>2 DEF ScoreInv
  <2> QED BY <2>1, <2>3 DEF ScoreInv, Indexed
<1>3. ASSUME NEW c \in Clients, Commit(c) PROVE ScoreInv'
  <2> DEFINE t == txn[c]
  <2>1. /\ t # NoTxn /\ db' = Over(db, t.writes)
        /\ txn' = [d \in Clients |->
             IF d = c THEN NoTxn
             ELSE IF txn[d] = NoTxn THEN NoTxn
             ELSE [txn[d] EXCEPT !.stale = @ \cup DOMAIN t.writes]]
    BY <1>3 DEF Commit
  <2>2. Indexed(Over(db, t.writes))
    BY <2>1, OverIndexed DEF ScoreInv, Paired
  <2>3. Indexed(db)'
    BY <2>1, <2>2 DEF Indexed
  <2>4. ASSUME NEW d \in Clients, txn'[d] # NoTxn PROVE Paired(txn'[d])
    <3> DEFINE u == txn[d]
    <3>1. u # NoTxn /\ txn'[d] = [u EXCEPT !.stale = @ \cup DOMAIN t.writes]
      BY <2>1, <2>4
    <3>2. Paired(u)
      BY <3>1 DEF ScoreInv
    <3>3. u = [snap |-> u.snap, reads |-> u.reads, writes |-> u.writes, stale |-> u.stale,
               log |-> u.log]
      BY <3>2 DEF Paired
    <3> HIDE DEF u, t
    <3>4. txn'[d] = [snap |-> u.snap, reads |-> u.reads, writes |-> u.writes,
                     stale |-> u.stale \cup DOMAIN t.writes, log |-> u.log]
      BY <3>1, <3>3
    <3> QED BY <3>2, <3>4 DEF Paired
  <2>5. DOMAIN txn' = Clients
    BY <2>1
  <2> QED BY <2>3, <2>4, <2>5 DEF ScoreInv
<1>4. ASSUME NEW c \in Clients, Discard(c) PROVE ScoreInv'
  <2>1. DOMAIN txn' = Clients /\ db' = db /\ txn'[c] = NoTxn
        /\ \A d \in Clients \ {c} : txn'[d] = txn[d]
    BY <1>4 DEF ScoreInv, Discard
  <2>2. \A d \in Clients : txn'[d] # NoTxn => Paired(txn'[d])
    BY <2>1 DEF ScoreInv
  <2> QED BY <2>1, <2>2 DEF ScoreInv, Indexed
<1>5. ASSUME NEW c \in Clients, InTxn(c), NEW k \in Names,
             \/ PlainOps(c, k) \/ MapOps(c, k) \/ SetOps(c, k)
             \/ ListOps(c, k) \/ ScoreOps(c, k)
      PROVE  ScoreInv'
  BY <1>5, OtherOpsPaired, ScoreOpsPaired DEF InTxn
<1> QED BY <1>1, <1>2, <1>3, <1>4, <1>5 DEF Next

\* The two keys of every score are committed together (bg.go:712-789).
THEOREM ScoreInvCorrect == Spec => []ScoreInv
<1>1. Init => ScoreInv
  BY DEF Init, ScoreInv, Indexed, Nothing
<1> QED BY <1>1, ScoreInvInductive, PTL DEF Spec

\* zrange stops at the first score above its upper bound, and negative scores
\* come last: it does not stop before a member whose score is within bounds
\* that are not negative (bg.go:758-789).
THEOREM RangeFindsMembersCorrect == Spec => []RangeFindsMembers
<1>1. ASSUME Indexed(db), NEW k \in Names, NEW lo \in Scores, NEW hi \in Scores,
             lo >= 0, hi >= 0, NEW key \in EntriesOf(db, "z", k), db[key] \in lo .. hi
      PROVE  key[3] \in zrange(db, k, lo, hi).ret
  <2> DEFINE s == db[key]
             sz == ZetScore(k, key[3], s)
             from == {x \in ScoreKeysOf(db, k) : x[3] >= ScoreRank(lo)}
             seen == {x \in from : \A y \in from : DecodedScore(y) > hi => y[3] > x[3]}
  <2>1. key \in DOMAIN db /\ key[1] = "z" /\ key[2] = k
    BY DEF EntriesOf
  <2>2. s \in Scores /\ sz \in DOMAIN db
    BY <1>1, <2>1 DEF Indexed
  <2>3. s >= 0 /\ s >= lo /\ s <= hi /\ s \in Int /\ lo \in Int /\ hi \in Int
    BY <1>1, <2>2, StoreAssumption
  <2>4. ScoreRank(s) = s /\ ScoreRank(lo) = lo
    BY <1>1, <2>2, <2>3, RankOf DEF ScoreRank
  <2>5. sz[1] = "sz" /\ sz[2] = k /\ sz[3] = s /\ sz[4] = key[3]
    BY <2>4, ScoreKeys DEF ScoreRank
  <2> HIDE DEF sz
  <2>6. sz \in from
    BY <2>2, <2>3, <2>4, <2>5 DEF ScoreKeysOf
  <2>7. ASSUME NEW y \in from, DecodedScore(y) > hi PROVE y[3] > s
    <3>1. y[3] \in 0 .. ScoreSpan - 1
      BY <1>1 DEF ScoreKeysOf, Indexed
    <3>2. ScoreSpan \in Nat \ {0}
      BY ScoreAssumption
    <3>3. DecodedScore(y) = y[3] \/ DecodedScore(y) = y[3] - ScoreSpan
      BY DEF DecodedScore
    <3> HIDE DEF from, ScoreSpan
    <3> QED BY <2>3, <2>7, <3>1, <3>2, <3>3
  <2>8. sz \in seen
    BY <2>5, <2>6, <2>7
  <2>9. zrange(db, k, lo, hi).ret = {x[4] : x \in seen}
    BY DEF zrange, Answer, Effect
  <2> HIDE DEF seen
  <2> QED BY <2>5, <2>8, <2>9
<1>2. ScoreInv => RangeFindsMembers
  BY <1>1 DEF ScoreInv, RangeFindsMembers
<1> QED BY <1>2, ScoreInvCorrect, PTL
---------------------------------------------------------------------------
(* Connections.  A request that is answered has left the connection, and   *)
(* what is read next was sent behind it.                                   *)

\* Of what was sent, s, the last part, w, is still to be read; the answers r
\* and the request being served, v, are for requests of the part before.
Conn(s, w, r, v) ==
  /\ s \in Seq(Requests) /\ w \in Seq(Requests) /\ Len(w) <= Len(s)
  /\ \A i \in 1 .. Len(w) : w[i] = s[Len(s) - Len(w) + i]
  /\ \E T : r \in Seq(T)
  /\ \E at \in [1 .. Len(r) -> 1 .. Len(s) - Len(w)] :
       /\ \A i \in 1 .. Len(r) : r[i].req = s[at[i]] /\ \A j \in 1 .. i - 1 : at[j] < at[i]
       /\ v # NoRequest => \E q \in 1 .. Len(s) - Len(w) :
                             s[q] = v /\ \A i \in 1 .. Len(r) : at[i] < q

ConnInv ==
  /\ \A x \in {wire, serving, sent, replies} : DOMAIN x = Clients
  /\ \A c \in Clients : Conn(sent[c], wire[c], replies[c], serving[c])

\* A client sends.
LEMMA ConnSend ==
  ASSUME NEW s, NEW w, NEW r, NEW v, Conn(s, w, r, v), NEW q \in Requests
  PROVE  Conn(Append(s, q), Append(w, q), r, v)
<1> DEFINE s2 == Append(s, q)
           w2 == Append(w, q)
<1>1. s \in Seq(Requests) /\ w \in Seq(Requests) /\ Len(w) <= Len(s)
      /\ Len(s) \in Nat /\ Len(w) \in Nat
  BY LenProperties DEF Conn
<1>2. /\ s2 \in Seq(Requests) /\ Len(s2) = Len(s) + 1
      /\ \A i \in 1 .. Len(s) : s2[i] = s[i]
      /\ s2[Len(s) + 1] = q
  BY <1>1, AppendProperties
<1>3. /\ w2 \in Seq(Requests) /\ Len(w2) = Len(w) + 1
      /\ \A i \in 1 .. Len(w) : w2[i] = w[i]
      /\ w2[Len(w) + 1] = q
  BY <1>1, AppendProperties
<1> HIDE DEF s2, w2
<1>4. Len(s2) - Len(w2) = Len(s) - Len(w)
  BY <1>1, <1>2, <1>3
<1>5. ASSUME NEW i \in 1 .. Len(w2) PROVE w2[i] = s2[Len(s2) - Len(w2) + i]
  <2>1. CASE i = Len(w) + 1
    BY <2>1, <1>1, <1>2, <1>3, <1>4
  <2>2. CASE i # Len(w) + 1
    <3>1. i \in 1 .. Len(w) /\ Len(s) - Len(w) + i \in 1 .. Len(s)
      BY <2>2, <1>1, <1>3
    <3>2. w[i] = s[Len(s) - Len(w) + i]
      BY <3>1 DEF Conn
    <3> QED BY <3>1, <3>2, <1>2, <1>3, <1>4
  <2> QED BY <2>1, <2>2
<1>6. PICK at \in [1 .. Len(r) -> 1 .. Len(s) - Len(w)] :
        /\ \A i \in 1 .. Len(r) : r[i].req = s[at[i]] /\ \A j \in 1 .. i - 1 : at[j] < at[i]
        /\ v # NoRequest => \E p \in 1 .. Len(s) - Len(w) :
                              s[p] = v /\ \A i \in 1 .. Len(r) : at[i] < p
  BY DEF Conn
<1>7. \A p \in 1 .. Len(s) - Len(w) : s2[p] = s[p]
  BY <1>1, <1>2
<1>8. \A i \in 1 .. Len(r) : at[i] \in 1 .. Len(s) - Len(w)
  BY <1>6
<1>9. /\ \A i \in 1 .. Len(r) : r[i].req = s2[at[i]] /\ \A j \in 1 .. i - 1 : at[j] < at[i]
      /\ v # NoRequest => \E p \in 1 .. Len(s2) - Len(w2) :
                            s2[p] = v /\ \A i \in 1 .. Len(r) : at[i] < p
  BY <1>4, <1>6, <1>7, <1>8
<1>10. \E T : r \in Seq(T)
  BY DEF Conn
<1>11. Len(w2) <= Len(s2)
  BY <1>1, <1>2, <1>3
<1> QED BY <1>2, <1>3, <1>4, <1>5, <1>6, <1>9, <1>10, <1>11 DEF Conn, s2, w2

\* A request is read, with others that are lost, and is to be served.
LEMMA ConnServe ==
  ASSUME NEW s, NEW w, NEW r, Conn(s, w, r, NoRequest), NEW n \in DOMAIN w
  PROVE  /\ w[1] \in Requests
         /\ Conn(s, SubSeq(w, n + 1, Len(w)), r, w[1])
<1> DEFINE w2 == SubSeq(w, n + 1, Len(w))
<1>1. /\ s \in Seq(Requests) /\ w \in Seq(Requests) /\ Len(w) <= Len(s)
      /\ Len(s) \in Nat /\ Len(w) \in Nat /\ n \in 1 .. Len(w)
  BY LenProperties DEF Conn
<1>2. /\ w2 \in Seq(Requests) /\ Len(w2) = Len(w) - n
      /\ \A i \in 1 .. Len(w) - n : w2[i] = w[n + i]
  <2>1. \A i \in n + 1 .. Len(w) : w[i] \in Requests
    BY <1>1, ElementOfSeq
  <2> QED BY <1>1, <2>1, SubSeqProperties
<1> HIDE DEF w2
<1>3. w[1] \in Requests /\ w[1] = s[Len(s) - Len(w) + 1]
  <2>1. 1 \in 1 .. Len(w)
    BY <1>1
  <2> QED BY <1>1, <2>1, ElementOfSeq DEF Conn
<1>4. ASSUME NEW i \in 1 .. Len(w2) PROVE w2[i] = s[Len(s) - Len(w2) + i]
  <2>1. n + i \in 1 .. Len(w) /\ i \in 1 .. Len(w) - n
    BY <1>1, <1>2
  <2>2. w[n + i] = s[Len(s) - Len(w) + (n + i)]
    BY <2>1 DEF Conn
  <2>3. Len(s) - Len(w) + (n + i) = Len(s) - Len(w2) + i
    BY <1>1, <1>2, <2>1
  <2> QED BY <1>2, <2>1, <2>2, <2>3
<1>5. PICK at \in [1 .. Len(r) -> 1 .. Len(s) - Len(w)] :
        \A i \in 1 .. Len(r) : r[i].req = s[at[i]] /\ \A j \in 1 .. i - 1 : at[j] < at[i]
  BY DEF Conn
<1> DEFINE q == Len(s) - Len(w) + 1
<1>6. /\ q \in 1 .. Len(s) - Len(w2) /\ s[q] = w[1]
      /\ \A i \in 1 .. Len(r) : at[i] < q
  <2>1. q \in 1 .. Len(s) - Len(w2)
    BY <1>1, <1>2
  <2>2. \A i \in 1 .. Len(r) : at[i] \in 1 .. Len(s) - Len(w)
    BY <1>5
  <2>3. \A i \in 1 .. Len(r) : at[i] < q
    BY <1>1, <2>2
  <2> QED BY <1>3, <2>1, <2>3
<1>7. at \in [1 .. Len(r) -> 1 .. Len(s) - Len(w2)]
  BY <1>1, <1>2, <1>5
<1> HIDE DEF q
<1>8. \E T : r \in Seq(T)
  BY DEF Conn
<1>9. Len(w2) <= Len(s)
  BY <1>1, <1>2
<1> QED BY <1>1, <1>2, <1>3, <1>4, <1>5, <1>6, <1>7, <1>8, <1>9 DEF Conn, w2

\* The request being served is answered.
LEMMA ConnAnswer ==
  ASSUME NEW s, NEW w, NEW r, NEW v, Conn(s, w, r, v), v # NoRequest,
         NEW a, a.req = v
  PROVE  Conn(s, w, Append(r, a), NoRequest)
<1> DEFINE r2 == Append(r, a)
<1>1. PICK T : r \in Seq(T)
  BY DEF Conn
<1>2. r \in Seq(T \cup {a}) /\ Len(r) \in Nat
  BY <1>1, SeqDef, LenProperties
<1>3. /\ r2 \in Seq(T \cup {a}) /\ Len(r2) = Len(r) + 1
      /\ \A i \in 1 .. Len(r) : r2[i] = r[i]
      /\ r2[Len(r) + 1] = a
  BY <1>2, AppendProperties
<1> HIDE DEF r2
<1>4. PICK at \in [1 .. Len(r) -> 1 .. Len(s) - Len(w)] :
        /\ \A i \in 1 .. Len(r) : r[i].req = s[at[i]] /\ \A j \in 1 .. i - 1 : at[j] < at[i]
        /\ v # NoRequest => \E q \in 1 .. Len(s) - Len(w) :
                              s[q] = v /\ \A i \in 1 .. Len(r) : at[i] < q
  BY DEF Conn
<1>5. PICK q \in 1 .. Len(s) - Len(w) : s[q] = v /\ \A i \in 1 .. Len(r) : at[i] < q
  BY <1>4
<1> DEFINE to == [i \in 1 .. Len(r2) |-> IF i = Len(r2) THEN q ELSE at[i]]
<1>6. to \in [1 .. Len(r2) -> 1 .. Len(s) - Len(w)]
  BY <1>2, <1>3
<1>7. to[Len(r) + 1] = q /\ \A i \in 1 .. Len(r) : to[i] = at[i]
  BY <1>2, <1>3
<1> HIDE DEF to
<1>8. ASSUME NEW i \in 1 .. Len(r2)
      PROVE  r2[i].req = s[to[i]] /\ \A j \in 1 .. i - 1 : to[j] < to[i]
  <2>1. CASE i = Len(r) + 1
    BY <2>1, <1>2, <1>3, <1>5, <1>7
  <2>2. CASE i # Len(r) + 1
    <3>1. i \in 1 .. Len(r) /\ \A j \in 1 .. i - 1 : j \in 1 .. Len(r)
      BY <2>2, <1>2, <1>3
    <3> QED BY <3>1, <1>3, <1>4, <1>7
  <2> QED BY <2>1, <2>2
<1> QED BY <1>3, <1>6, <1>8 DEF Conn, r2

\* No step mixes up what is sent, read and answered on a connection.
LEMMA ConnInvInductive == ConnInv /\ [ServerNext]_<<vars, svars>> => ConnInv'
<1> SUFFICES ASSUME ConnInv, [ServerNext]_<<vars, svars>> PROVE ConnInv'
  OBVIOUS
<1>1. CASE UNCHANGED svars
  BY <1>1 DEF ConnInv, svars
<1>2. ASSUME NEW c \in Clients, NEW r \in Requests, Send(c, r) PROVE ConnInv'
  <2>1. /\ sent' = [sent EXCEPT ![c] = Append(sent[c], r)]
        /\ wire' = [wire EXCEPT ![c] = Append(wire[c], r)]
        /\ serving' = serving /\ replies' = replies
    BY <1>2 DEF Send
  <2>2. Conn(sent'[c], wire'[c], replies'[c], serving'[c])
    BY <2>1, ConnSend DEF ConnInv
  <2> QED BY <2>1, <2>2 DEF ConnInv
<1>3. ASSUME NEW c \in Clients, Receive(c) PROVE ConnInv'
  <2>1. serving[c] = NoRequest /\ wire[c] # <<>> /\ sent' = sent
    BY <1>3 DEF Receive
  <2>2. PICK n \in DOMAIN wire[c] :
          wire' = [wire EXCEPT ![c] = SubSeq(wire[c], n + 1, Len(wire[c]))]
    BY <1>3 DEF Receive, Left
  <2> DEFINE q == wire[c][1]
             w == SubSeq(wire[c], n + 1, Len(wire[c]))
  <2>3. Conn(sent[c], w, replies[c], q)
    BY <2>1, ConnServe DEF ConnInv
  <2>4. Conn(sent[c], wire[c], replies[c], NoRequest)
    BY <2>1 DEF ConnInv
  <2>5. Head(wire[c]) = q
    BY <2>1, <2>4, HeadTailProperties DEF Conn
  <2>6. \/ \E a : a.req = q /\ replies' = [replies EXCEPT ![c] = Append(replies[c], a)]
                  /\ serving' = serving
        \/ serving' = [serving EXCEPT ![c] = q] /\ replies' = replies
    BY <1>3, <2>5 DEF Receive, Answered
  <2>7. wire'[c] = w /\ \A d \in Clients \ {c} : wire'[d] = wire[d]
    BY <2>2 DEF ConnInv
  <2> HIDE DEF q, w
  <2>8. CASE serving' = [serving EXCEPT ![c] = q] /\ replies' = replies
    BY <2>1, <2>2, <2>3, <2>7, <2>8 DEF ConnInv
  <2>9. ASSUME NEW a, a.req = q, replies' = [replies EXCEPT ![c] = Append(replies[c], a)],
               serving' = serving
        PROVE  ConnInv'
    <3>1. Conn(sent[c], w, Append(replies[c], a), NoRequest)
      <4>1. q # NoRequest
        BY <2>1, <2>4, ConnServe, ServerAssumption DEF q
      <4> QED BY <4>1, <2>3, <2>9, ConnAnswer
    <3> QED BY <2>1, <2>2, <2>7, <2>9, <3>1 DEF ConnInv
  <2> QED BY <2>6, <2>8, <2>9
<1>4. ASSUME NEW c \in Clients, Execute(c) PROVE ConnInv'
  BY <1>1, <1>4 DEF Execute
<1>5. ASSUME NEW c \in Clients, Finish(c) PROVE ConnInv'
  <2>1. serving[c] # NoRequest
    BY <1>5 DEF Finish
  <2>2. PICK ans, val : Respond(c, ans, val)
    BY <1>5 DEF Finish
  <2> DEFINE a == [req |-> serving[c], ans |-> ans, val |-> val]
  <2>3. /\ a.req = serving[c]
        /\ replies' = [replies EXCEPT ![c] = Append(replies[c], a)]
        /\ serving' = [serving EXCEPT ![c] = NoRequest]
        /\ wire' = wire /\ sent' = sent
    BY <2>2 DEF Respond, Answered
  <2> HIDE DEF a
  <2>4. Conn(sent[c], wire[c], Append(replies[c], a), NoRequest)
    BY <2>1, <2>3, ConnAnswer DEF ConnInv
  <2> QED BY <2>3, <2>4 DEF ConnInv
<1> QED BY <1>1, <1>2, <1>3, <1>4, <1>5 DEF ServerNext
\* Nothing is sent, and nothing answered.
LEMMA ConnInvInit == ServerInit => ConnInv
<1>1. <<>> \in Seq(Requests) /\ Len(<<>>) = 0
  OBVIOUS
<1>2. [i \in 1 .. 0 |-> 0] \in [1 .. 0 -> 1 .. 0]
  OBVIOUS
<1>3. Conn(<<>>, <<>>, <<>>, NoRequest)
  <2>1. \A i \in 1 .. 0 : FALSE
    OBVIOUS
  <2>2. <<>> \in Seq({}) /\ 0 - 0 = 0 /\ 0 <= 0
    OBVIOUS
  <2>3. \E at \in [1 .. 0 -> 1 .. 0] : \A i \in 1 .. 0 :
          <<>>[i].req = <<>>[at[i]] /\ \A j \in 1 .. i - 1 : at[j] < at[i]
    BY <1>2, <2>1
  <2> QED BY <1>1, <2>1, <2>2, <2>3, Zenon DEF Conn
<1> QED BY <1>3 DEF ServerInit, ConnInv

\* The answers on a connection belong to requests sent on it, in their order,
\* whatever has been lost between them (server.go:44-62, request.go:11-33).
THEOREM AnswersInOrderCorrect == ServerSpec => []AnswersInOrder
<1>1. ConnInv => AnswersInOrder
  <2> SUFFICES ASSUME ConnInv, NEW c \in Clients
               PROVE  \E at \in [DOMAIN replies[c] -> DOMAIN sent[c]] :
                        \A i \in DOMAIN replies[c] :
                          /\ replies[c][i].req = sent[c][at[i]]
                          /\ \A j \in 1 .. i - 1 : at[j] < at[i]
    BY DEF AnswersInOrder
  <2> DEFINE s == sent[c]
             w == wire[c]
             r == replies[c]
  <2>1. Conn(s, w, r, serving[c])
    BY DEF ConnInv
  <2> HIDE DEF s, w, r
  <2>2. /\ DOMAIN r = 1 .. Len(r) /\ DOMAIN s = 1 .. Len(s)
        /\ Len(s) \in Nat /\ Len(w) \in Nat
    <3>1. PICK T : r \in Seq(T)
      BY <2>1 DEF Conn
    <3>2. s \in Seq(Requests) /\ w \in Seq(Requests)
      BY <2>1 DEF Conn
    <3> QED BY <3>1, <3>2, LenProperties
  <2>3. PICK at \in [1 .. Len(r) -> 1 .. Len(s) - Len(w)] :
          \A i \in 1 .. Len(r) : r[i].req = s[at[i]] /\ \A j \in 1 .. i - 1 : at[j] < at[i]
    BY <2>1 DEF Conn
  <2>4. at \in [DOMAIN r -> DOMAIN s]
    BY <2>2, <2>3
  <2> QED BY <2>2, <2>3, <2>4 DEF s, r
<1> QED BY <1>1, ConnInvInit, ConnInvInductive, PTL DEF ServerSpec
---------------------------------------------------------------------------
(* Lists used as queues.  A command runs in a transaction of its own, and   *)
(* its answer tells by how much the list has grown or shrunk.               *)

LengthOf(view, k) == listStartEnd(view, k)[2] - listStartEnd(view, k)[1]

\* The length of list k goes from what it is in view to n more, and no other
\* list changes its length.
Resizes(reads, writes, view, k, n) ==
  /\ ListMetaKey(k) \in reads /\ ListMetaKey(k) \in DOMAIN writes
  /\ writes[ListMetaKey(k)] # Gone
  /\ writes[ListMetaKey(k)][2] - writes[ListMetaKey(k)][1] = LengthOf(view, k) + n
  /\ \A j \in Names : ListMetaKey(j) \in DOMAIN writes => j = k

KeepsSizes(writes) == \A k \in Names : ListMetaKey(k) \notin DOMAIN writes

Pushes == {"LPUSH", "RPUSH"}
Pops   == {"LPOP", "RPOP"}

\* What a command whose method returns ret does to the lengths of lists.
Outcome(cmd, reads, writes, view, ret) ==
  ret \notin Errors =>
    /\ cmd \in Pushes => \E k \in Names : Resizes(reads, writes, view, k, 1)
    /\ cmd \in Pops   => \E k \in Names : Resizes(reads, writes, view, k, -1)
    /\ cmd \notin Pushes \cup Pops \cup {"LCLEAR"} => KeepsSizes(writes)

\* A request that is served has a transaction, which is new or has run it.
Serves(q, t) ==
  /\ q \in Requests /\ q.cmd \in DOMAIN dealRegister
  /\ Len(q.args) >= dealRegister[q.cmd].args
  /\ t # NoTxn
  /\ t.log = <<>> => t.reads = {} /\ t.writes = Nothing
  /\ t.log # <<>> => Outcome(q.cmd, t.reads, t.writes, t.snap, t.log[1].ret)

ServeInv ==
  /\ StoreInv
  /\ \A c \in Clients : serving[c] # NoRequest => Serves(serving[c], txn[c])

QueueInv ==
  NothingCleared =>
    /\ IsFiniteSet(Told(Pushes)) /\ IsFiniteSet(Told(Pops)) /\ IsFiniteSet(ListElements)
    /\ EveryElementServedOnce

\* Pushes and pops change the length by one, and lset not at all
\* (bg.go:521-610).
LEMMA ListEffects ==
  ASSUME NEW view, Whole(view), NEW k \in Names
  PROVE  /\ \A v \in Values :
              /\ \A e \in {llpush(view, k, v), lrpush(view, k, v)} :
                   e.ret \in Errors \/ Resizes(e.reads, e.writes, view, k, 1)
         /\ \A e \in {llpop(view, k), lrpop(view, k)} :
              e.ret \in Errors \/ Resizes(e.reads, e.writes, view, k, -1)
         /\ \A idx, v : KeepsSizes(lset(view, k, idx, v).writes)
<1> DEFINE m == listStartEnd(view, k)
<1>1. m[1] \in Int /\ m[2] \in Int
  BY EndsOf
<1>2. \A j \in Names : ListMetaKey(j) = ListMetaKey(k) => j = k
  BY KeysDiffer
<1>3. \A x, y \in Int : <<x, y>> # Gone
  BY StoreAssumption
<1>4. ASSUME NEW v, NEW at, NEW start \in Int, NEW end \in Int, NEW ret, NEW e,
             end - start = m[2] - m[1] + 1,
             e = Effect({ListMetaKey(k)},
                        Amend(Put(ListKey(k, at), v), SetEnds(k, start, end)), ret)
      PROVE  Resizes(e.reads, e.writes, view, k, 1)
  <2>1. e.reads = {ListMetaKey(k)}
        /\ e.writes = Amend(Put(ListKey(k, at), v), SetEnds(k, start, end))
    BY <1>4 DEF Effect
  <2>2. DOMAIN e.writes = {ListKey(k, at), ListMetaKey(k)}
        /\ e.writes[ListMetaKey(k)] = <<start, end>>
    BY <2>1 DEF Amend, Put, SetEnds
  <2>3. \A j \in Names : ListMetaKey(j) \in DOMAIN e.writes => j = k
    BY <2>2, <1>2, KeysDiffer
  <2> HIDE DEF m
  <2>4. e.writes[ListMetaKey(k)] # Gone
        /\ e.writes[ListMetaKey(k)][2] - e.writes[ListMetaKey(k)][1] = m[2] - m[1] + 1
    <3>1. end - start = m[2] - m[1] + 1 /\ <<start, end>> # Gone
      BY <1>3, <1>4
    <3>2. <<start, end>>[1] = start /\ <<start, end>>[2] = end
      OBVIOUS
    <3> QED BY <2>2, <3>1, <3>2
  <2> QED BY <2>1, <2>2, <2>3, <2>4 DEF Resizes, LengthOf, m
<1>5. ASSUME NEW v \in Values, NEW e \in {llpush(view, k, v), lrpush(view, k, v)}
      PROVE  e.ret \in Errors \/ Resizes(e.reads, e.writes, view, k, 1)
  <2>1. CASE e = Answer({ListMetaKey(k)}, OutOfSize)
    BY <2>1 DEF Answer, Effect, Errors
  <2>2. CASE e = Effect({ListMetaKey(k)},
                        Amend(Put(ListKey(k, m[1] - 1), v), SetEnds(k, m[1] - 1, m[2])),
                        m[2] - m[1] + 1)
    <3>1. m[1] - 1 \in Int /\ m[2] - (m[1] - 1) = m[2] - m[1] + 1
      BY <1>1
    <3> HIDE DEF m
    <3> QED BY <1>1, <1>4, <2>2, <3>1
  <2>3. CASE e = Effect({ListMetaKey(k)},
                        Amend(Put(ListKey(k, m[2]), v), SetEnds(k, m[1], m[2] + 1)),
                        m[2] - m[1] + 1)
    <3>1. m[2] + 1 \in Int /\ (m[2] + 1) - m[1] = m[2] - m[1] + 1
      BY <1>1
    <3> HIDE DEF m
    <3> QED BY <1>1, <1>4, <2>3, <3>1
  <2> QED BY <1>5, <2>1, <2>2, <2>3 DEF llpush, lrpush
<1>6. ASSUME NEW at, NEW start \in Int, NEW end \in Int, end - start = m[2] - m[1] - 1
      PROVE  LET e == Pop(view, k, at, start, end) IN
             e.ret \in Errors \/ Resizes(e.reads, e.writes, view, k, -1)
  <2> DEFINE e == Pop(view, k, at, start, end)
  <2>1. CASE \E reads : \E err \in Errors : e = Answer(reads, err)
    BY <2>1 DEF Answer, Effect
  <2>2. CASE e = Effect({ListMetaKey(k), ListKey(k, at)}, SetEnds(k, start, end),
                        view[ListKey(k, at)])
    <3>1. ListMetaKey(k) \in e.reads /\ e.writes = SetEnds(k, start, end)
      BY <2>2 DEF Effect
    <3> HIDE DEF e, m
    <3>2. DOMAIN e.writes = {ListMetaKey(k)} /\ e.writes[ListMetaKey(k)] = <<start, end>>
      BY <3>1 DEF SetEnds, Put
    <3>3. e.writes[ListMetaKey(k)] # Gone
          /\ e.writes[ListMetaKey(k)][2] - e.writes[ListMetaKey(k)][1] = m[2] - m[1] + -1
      BY <1>1, <1>3, <1>6, <3>2
    <3>4. Resizes(e.reads, e.writes, view, k, -1)
      BY <1>2, <3>1, <3>2, <3>3 DEF Resizes, LengthOf, m
    <3> QED BY <3>4 DEF e
  <2>3. \/ \E reads : \E err \in Errors : e = Answer(reads, err)
        \/ e = Effect({ListMetaKey(k), ListKey(k, at)}, SetEnds(k, start, end),
                      view[ListKey(k, at)])
    BY DEF Pop, Errors
  <2> QED BY <2>1, <2>2, <2>3
<1>7. ASSUME NEW e \in {llpop(view, k), lrpop(view, k)}
      PROVE  e.ret \in Errors \/ Resizes(e.reads, e.writes, view, k, -1)
  <2>1. /\ m[1] + 1 \in Int /\ m[2] - (m[1] + 1) = m[2] - m[1] - 1
        /\ m[2] - 1 \in Int /\ (m[2] - 1) - m[1] = m[2] - m[1] - 1
    BY <1>1
  <2>2. e = Pop(view, k, m[1], m[1] + 1, m[2]) \/ e = Pop(view, k, m[2] - 1, m[1], m[2] - 1)
    BY <1>7 DEF llpop, lrpop
  <2> HIDE DEF m
  <2> QED BY <1>1, <1>6, <2>1, <2>2
<1>8. ASSUME NEW idx, NEW v PROVE KeepsSizes(lset(view, k, idx, v).writes)
  <2>1. lset(view, k, idx, v).writes \in {Nothing, Put(ListKey(k, Located(m, idx)), v)}
    BY DEF lset, Answer, Effect
  <2>2. DOMAIN Nothing = {} /\ DOMAIN Put(ListKey(k, Located(m, idx)), v)
                                 = {ListKey(k, Located(m, idx))}
    BY DEF Nothing, Put
  <2> QED BY <2>1, <2>2, KeysDiffer DEF KeepsSizes
<1> QED BY <1>5, <1>7, <1>8
\* The elements of the lists that a view has, place by place.
LEMMA PlacesOf ==
  ASSUME NEW view, Whole(view), NEW S, NEW D,
         S = UNION {{k} \X D[k] : k \in Names},
         \A k \in Names : D[k] = 1 .. listStartEnd(view, k)[2] - listStartEnd(view, k)[1]
  PROVE  /\ \A k \in Names : LengthOf(view, k) \in Nat
         /\ \A p : p \in S <=> \E k \in Names : \E i \in 1 .. LengthOf(view, k) : p = <<k, i>>
<1>1. \A k \in Names : LengthOf(view, k) \in Nat
  BY EndsOf DEF LengthOf
<1>2. \A k \in Names : D[k] = 1 .. LengthOf(view, k)
  BY DEF LengthOf
<1> HIDE DEF LengthOf
<1>3. \A p : p \in S <=> \E k \in Names : p \in {k} \X (1 .. LengthOf(view, k))
  BY <1>2
<1> QED BY <1>1, <1>3

\* A commit gives lists the lengths that the transaction has counted with: had
\* another one changed them since, there would be a conflict (bg.go:266-278).
LEMMA CommitResizes ==
  ASSUME StoreInv, NEW t, Sound(t, db), ~Conflict(t), NEW k \in Names, NEW n \in Int,
         Resizes(t.reads, t.writes, t.snap, k, n)
  PROVE  /\ LengthOf(Over(db, t.writes), k) = LengthOf(db, k) + n
         /\ \A j \in Names \ {k} : LengthOf(Over(db, t.writes), j) = LengthOf(db, j)
<1> DEFINE new == Over(db, t.writes)
<1>1. /\ ListMetaKey(k) \in t.reads /\ ListMetaKey(k) \in DOMAIN t.writes
      /\ t.writes[ListMetaKey(k)] # Gone
      /\ t.writes[ListMetaKey(k)][2] - t.writes[ListMetaKey(k)][1] = LengthOf(t.snap, k) + n
  BY DEF Resizes
<1>2. ListMetaKey(k) \in DOMAIN new /\ new[ListMetaKey(k)] = t.writes[ListMetaKey(k)]
  BY <1>1 DEF Over
<1>3. LengthOf(t.snap, k) = LengthOf(db, k)
  <2>1. t.writes # Nothing
    BY <1>1 DEF Nothing
  <2>2. ListMetaKey(k) \notin t.stale
    BY <1>1, <2>1 DEF Conflict
  <2> QED BY <2>2 DEF Sound, Current, LengthOf, listStartEnd
<1>4. ASSUME NEW j \in Names \ {k} PROVE LengthOf(new, j) = LengthOf(db, j)
  <2>1. ListMetaKey(j) \notin DOMAIN t.writes
    BY DEF Resizes
  <2> QED BY <2>1 DEF Over, LengthOf, listStartEnd
<1>5. LengthOf(new, k) = LengthOf(db, k) + n
  BY <1>1, <1>2, <1>3 DEF LengthOf, listStartEnd
<1> QED BY <1>4, <1>5

\* A list that grows by one has one place more, one that shrinks one less.
LEMMA CommitElements ==
  ASSUME StoreInv, StoreInv', NEW t, Sound(t, db), ~Conflict(t), db' = Over(db, t.writes)
  PROVE  /\ KeepsSizes(t.writes) => ListElements' = ListElements
         /\ \A k \in Names : Resizes(t.reads, t.writes, t.snap, k, 1) =>
              \E p : p \notin ListElements /\ ListElements' = ListElements \cup {p}
         /\ \A k \in Names : Resizes(t.reads, t.writes, t.snap, k, -1) =>
              \E p \in ListElements : ListElements' = ListElements \ {p}
<1> DEFINE L(k) == LengthOf(db, k)
           M(k) == LengthOf(db', k)
<1>1. /\ \A k \in Names : L(k) \in Nat
      /\ \A p : p \in ListElements <=> \E k \in Names : \E i \in 1 .. L(k) : p = <<k, i>>
  <2> DEFINE D == [k \in Names |-> DOMAIN ListOf(k)]
  <2>1. ListElements = UNION {{k} \X D[k] : k \in Names}
    BY DEF ListElements
  <2>2. \A k \in Names : D[k] = 1 .. listStartEnd(db, k)[2] - listStartEnd(db, k)[1]
    BY DEF ListOf
  <2>3. Whole(db)
    BY DEF StoreInv
  <2> HIDE DEF D
  <2> QED BY <2>1, <2>2, <2>3, PlacesOf
<1>2. /\ \A k \in Names : M(k) \in Nat
      /\ \A p : p \in ListElements' <=> \E k \in Names : \E i \in 1 .. M(k) : p = <<k, i>>
  <2> DEFINE D == [k \in Names |-> (DOMAIN ListOf(k))']
  <2>1. ListElements' = UNION {{k} \X D[k] : k \in Names}
    BY DEF ListElements
  <2>2. \A k \in Names : D[k] = 1 .. listStartEnd(db', k)[2] - listStartEnd(db', k)[1]
    BY DEF ListOf, listStartEnd
  <2>3. Whole(db')
    BY DEF StoreInv, Whole
  <2> HIDE DEF D
  <2> QED BY <2>1, <2>2, <2>3, PlacesOf
<1>3. ASSUME KeepsSizes(t.writes) PROVE ListElements' = ListElements
  <2>1. \A k \in Names : M(k) = L(k)
    BY <1>3 DEF KeepsSizes, Over, LengthOf, listStartEnd
  <2> HIDE DEF L, M
  <2>2. \A p : p \in ListElements' <=> p \in ListElements
    BY <1>1, <1>2, <2>1
  <2> QED BY <2>2
<1>4. ASSUME NEW k \in Names, NEW n \in Int, Resizes(t.reads, t.writes, t.snap, k, n)
      PROVE  M(k) = L(k) + n /\ \A j \in Names \ {k} : M(j) = L(j)
  BY <1>4, CommitResizes
<1> HIDE DEF L, M
<1>5. ASSUME NEW k \in Names, Resizes(t.reads, t.writes, t.snap, k, 1)
      PROVE  \E p : p \notin ListElements /\ ListElements' = ListElements \cup {p}
  <2> DEFINE p == <<k, L(k) + 1>>
  <2>1. M(k) = L(k) + 1 /\ \A j \in Names \ {k} : M(j) = L(j)
    BY <1>4, <1>5
  <2>2. ASSUME NEW j \in Names, NEW i
        PROVE  i \in 1 .. M(j) <=> i \in 1 .. L(j) \/ <<j, i>> = p
    <3>1. CASE j = k
      BY <1>1, <2>1, <3>1
    <3>2. CASE j # k
      BY <2>1, <3>2
    <3> QED BY <3>1, <3>2
  <2>3. p \notin ListElements
    BY <1>1
  <2>4. p \in ListElements'
    BY <1>1, <1>2, <2>1
  <2> HIDE DEF p
  <2>5. \A x : x \in ListElements' <=> x \in ListElements \/ x = p
    BY <1>1, <1>2, <2>2, <2>4
  <2> QED BY <2>3, <2>5
<1>6. ASSUME NEW k \in Names, Resizes(t.reads, t.writes, t.snap, k, -1)
      PROVE  \E p \in ListElements : ListElements' = ListElements \ {p}
  <2> DEFINE p == <<k, L(k)>>
  <2>1. M(k) = L(k) - 1 /\ \A j \in Names \ {k} : M(j) = L(j)
    BY <1>1, <1>4, <1>6
  <2>2. ASSUME NEW j \in Names, NEW i
        PROVE  i \in 1 .. M(j) <=> i \in 1 .. L(j) /\ <<j, i>> # p
    <3>1. CASE j = k
      BY <1>1, <2>1, <3>1
    <3>2. CASE j # k
      BY <2>1, <3>2
    <3> QED BY <3>1, <3>2
  <2>3. p \in ListElements
    BY <1>1, <1>2, <2>1
  <2> HIDE DEF p
  <2>4. \A x : x \in ListElements' <=> x \in ListElements /\ x # p
    BY <1>1, <1>2, <2>2
  <2> QED BY <2>3, <2>4
<1> QED BY <1>3, <1>5, <1>6

\* An answer is told of where it has a value.
LEMMA ToldGrows ==
  ASSUME ConnInv, NEW c \in Clients, NEW a, NEW cmds,
         replies' = [replies EXCEPT ![c] = Append(replies[c], a)]
  PROVE  /\ ~(a.req.cmd \in cmds /\ a.ans = "value") => Told(cmds)' = Told(cmds)
         /\ a.req.cmd \in cmds /\ a.ans = "value" =>
              \E p : p \notin Told(cmds) /\ Told(cmds)' = Told(cmds) \cup {p}
<1> DEFINE n == Len(replies[c])
           p == <<c, n + 1>>
           Fits(x) == x.req.cmd \in cmds /\ x.ans = "value"
<1>1. PICK T : replies[c] \in Seq(T)
  BY DEF ConnInv, Conn
<1>2. /\ n \in Nat /\ DOMAIN replies[c] = 1 .. n
      /\ DOMAIN replies'[c] = 1 .. n + 1
      /\ replies'[c][n + 1] = a /\ \A i \in 1 .. n : replies'[c][i] = replies[c][i]
  <2>1. replies[c] \in Seq(T \cup {a})
    BY <1>1, SeqDef
  <2>2. replies'[c] = Append(replies[c], a)
    BY DEF ConnInv
  <2> QED BY <2>1, <2>2, AppendProperties, LenProperties
<1>3. \A d \in Clients \ {c} : replies'[d] = replies[d]
  BY DEF ConnInv
<1>4. \A x : x \in Told(cmds) <=>
        \E d \in Clients : \E i \in DOMAIN replies[d] :
          x = <<d, i>> /\ Fits(replies[d][i])
  BY DEF Told
<1>5. \A x : x \in Told(cmds)' <=>
        \E d \in Clients : \E i \in DOMAIN replies'[d] :
          x = <<d, i>> /\ Fits(replies'[d][i])
  BY DEF Told
<1> HIDE DEF Fits
<1>6. p \notin Told(cmds)
  BY <1>2, <1>4
<1>7. ASSUME NEW d \in Clients, NEW i
      PROVE  (i \in DOMAIN replies'[d] /\ Fits(replies'[d][i]))
               <=> \/ i \in DOMAIN replies[d] /\ Fits(replies[d][i])
                   \/ <<d, i>> = p /\ Fits(a)
  <2>1. CASE d = c
    <3>1. i \in 1 .. n + 1 <=> i \in 1 .. n \/ i = n + 1
      BY <1>2
    <3>2. n + 1 \notin 1 .. n
      BY <1>2
    <3> QED BY <1>2, <2>1, <3>1, <3>2
  <2>2. CASE d # c
    BY <1>3, <2>2
  <2> QED BY <2>1, <2>2
<1> HIDE DEF n
<1>8. \A x : x \in Told(cmds)' <=> x \in Told(cmds) \/ (x = p /\ Fits(a))
  BY <1>4, <1>5, <1>7
<1> HIDE DEF p
<1>9. CASE Fits(a)
  BY <1>6, <1>8, <1>9 DEF Fits
<1>10. CASE ~Fits(a)
  <2>1. Told(cmds)' = Told(cmds)
    BY <1>8, <1>10
  <2> QED BY <1>10, <2>1 DEF Fits
<1> QED BY <1>9, <1>10
\* Whatever the command, what its method does suits its answer
\* (exec.go:48-464).
LEMMA PerformEffect ==
  ASSUME NEW c, Whole(View(c)), NEW q \in Requests, q.cmd \in DOMAIN dealRegister,
         Len(q.args) >= dealRegister[q.cmd].args, Perform(c, q.cmd, q.args)
  PROVE  \E op, name, arg, e :
           /\ Do(c, op, name, arg, e) /\ Careful(View(c), e)
           /\ Outcome(q.cmd, e.reads, e.writes, View(c), e.ret)
<1> DEFINE cmd == q.cmd
           a == q.args
           view == View(c)
           Goal == \E op, name, arg, e :
                     /\ Do(c, op, name, arg, e) /\ Careful(view, e)
                     /\ Outcome(cmd, e.reads, e.writes, view, e.ret)
<1>1. /\ a[1] \in Names
      /\ cmd \in {"LPUSH", "RPUSH"} => a[2] \in Values
      /\ cmd = "LSET" => a[2] \in Int /\ a[3] \in Values
  BY ServerAssumption
<1>2. ASSUME Elsewhere(c), cmd \notin Pushes \cup Pops PROVE Goal
  <2>1. PICK op, name, arg, e :
          Do(c, op, name, arg, e) /\ \A key \in DOMAIN e.writes : key[1] # "l"
    BY <1>2 DEF Elsewhere
  <2>2. KeepsSizes(e.writes)
    BY <2>1, KeysDiffer DEF KeepsSizes
  <2>3. Outcome(cmd, e.reads, e.writes, view, e.ret)
    BY <1>2, <2>2 DEF Outcome
  <2>4. Careful(view, e)
    BY <2>1, OtherKinds
  <2> QED BY <2>1, <2>3, <2>4
<1>3. CASE DealPlain(c, cmd, a) \/ DealMap(c, cmd, a)
  <2>1. cmd \notin Pushes \cup Pops
    BY <1>3 DEF DealPlain, DealMap, Pushes, Pops
  <2>2. Elsewhere(c)
    BY <1>3, OtherOps DEF DealPlain, DealMap
  <2> QED BY <1>2, <2>1, <2>2
<1>4. CASE DealSet(c, cmd, a) \/ DealScores(c, cmd, a)
  <2>1. cmd \notin Pushes \cup Pops
    BY <1>4 DEF DealSet, DealScores, Pushes, Pops
  <2>2. Elsewhere(c)
    BY <1>4, OtherOps DEF DealSet, DealScores
  <2> QED BY <1>2, <2>1, <2>2
<1>5. CASE DealList(c, cmd, a)
  <2>1. CASE \/ cmd = "LLEN" /\ Llen(c, a[1])
             \/ cmd = "LINDEX" /\ Lindex(c, a[1], a[2])
             \/ cmd = "LRANGE" /\ Lrange(c, a[1], a[2], a[3])
    <3>1. cmd \notin Pushes \cup Pops
      BY <2>1 DEF Pushes, Pops
    <3>2. Elsewhere(c)
      BY <2>1, OtherOps
    <3> QED BY <1>2, <3>1, <3>2
  <2>2. CASE \/ cmd = "LPOP" /\ Llpop(c, a[1])
             \/ cmd = "RPOP" /\ Lrpop(c, a[1])
    <3>1. PICK op, name, arg, e :
            e \in {llpop(view, a[1]), lrpop(view, a[1])} /\ Do(c, op, name, arg, e)
      BY <2>2 DEF Llpop, Lrpop
    <3>2. cmd \in Pops /\ cmd \notin Pushes
      BY <2>2 DEF Pushes, Pops
    <3>3. Outcome(cmd, e.reads, e.writes, view, e.ret)
      BY <1>1, <3>1, <3>2, ListEffects DEF Outcome
    <3>4. Careful(view, e)
      BY <1>1, <3>1, PopIsCareful
    <3> QED BY <3>1, <3>3, <3>4
  <2>3. CASE \/ cmd = "LPUSH" /\ Llpush(c, a[1], a[2])
             \/ cmd = "RPUSH" /\ Lrpush(c, a[1], a[2])
    <3>1. PICK op, name, arg, e :
            /\ e \in {llpush(view, a[1], a[2]), lrpush(view, a[1], a[2])}
            /\ Do(c, op, name, arg, e)
      BY <2>3 DEF Llpush, Lrpush
    <3>2. cmd \in Pushes /\ cmd \notin Pops
      BY <2>3 DEF Pushes, Pops
    <3>3. a[2] \in Values
      BY <1>1, <2>3
    <3>4. Outcome(cmd, e.reads, e.writes, view, e.ret)
      BY <1>1, <3>1, <3>2, <3>3, ListEffects DEF Outcome
    <3>5. Careful(view, e)
      BY <1>1, <3>1, <3>3, PushIsCareful
    <3> QED BY <3>1, <3>4, <3>5
  <2>4. CASE cmd = "LSET" /\ Lset(c, a[1], a[2], a[3])
    <3> DEFINE e == lset(view, a[1], a[2], a[3])
    <3>1. PICK op, name, arg : Do(c, op, name, arg, e)
      BY <2>4 DEF Lset
    <3>2. cmd \notin Pushes \cup Pops
      BY <2>4 DEF Pushes, Pops
    <3>3. KeepsSizes(e.writes) /\ Careful(view, e)
      BY <1>1, <2>4, ListEffects, SetIsCareful
    <3> HIDE DEF e
    <3>4. Outcome(cmd, e.reads, e.writes, view, e.ret)
      BY <3>2, <3>3 DEF Outcome
    <3> QED BY <3>1, <3>3, <3>4
  <2>5. CASE cmd = "LCLEAR" /\ Lclear(c, a[1])
    <3> DEFINE e == lclear(view, a[1])
    <3>1. PICK op, name, arg : Do(c, op, name, arg, e)
      BY <2>5 DEF Lclear
    <3>2. Careful(view, e)
      BY <1>1, ClearIsCareful
    <3> HIDE DEF e
    <3>3. Outcome(cmd, e.reads, e.writes, view, e.ret)
      BY <2>5 DEF Outcome, Pushes, Pops
    <3> QED BY <3>1, <3>2, <3>3
  <2> QED BY <1>5, <2>1, <2>2, <2>3, <2>4, <2>5 DEF DealList
<1> QED BY <1>3, <1>4, <1>5 DEF Perform

\* A request that is run is served still.
LEMMA ExecuteServes ==
  ASSUME ServeInv, NEW c \in Clients, Execute(c)
  PROVE  ServeInv'
<1> DEFINE q == serving[c]
           t == txn[c]
           u == txn'[c]
<1>1. q # NoRequest /\ t.log = <<>> /\ Perform(c, q.cmd, q.args) /\ serving' = serving
  BY DEF Execute, svars
<1>2. Serves(q, t)
  BY <1>1 DEF ServeInv
<1>3. StoreInv /\ t # NoTxn /\ Sound(t, db) /\ Whole(View(c))
  BY <1>2 DEF ServeInv, Serves, StoreInv, Sound, View
<1>4. PICK op, name, arg, e :
        /\ Do(c, op, name, arg, e) /\ Careful(View(c), e)
        /\ Outcome(q.cmd, e.reads, e.writes, View(c), e.ret)
  BY <1>1, <1>2, <1>3, PerformEffect DEF Serves
<1>5. StoreInv'
  BY <1>3, <1>4, DoKeeps
<1>6. t.reads = {} /\ t.writes = Nothing
  BY <1>1, <1>2 DEF Serves
<1>7. /\ u.reads = e.reads /\ u.writes = Amend(Nothing, e.writes) /\ u.snap = t.snap
      /\ u.log = <<[op |-> op, name |-> name, arg |-> arg, ret |-> e.ret]>>
      /\ \A d \in Clients \ {c} : txn'[d] = txn[d]
  <2>1. DOMAIN txn = Clients
    BY <1>3 DEF StoreInv
  <2>2. /\ \A d \in Clients \ {c} : txn'[d] = txn[d]
        /\ u = [t EXCEPT !.reads = @ \cup (e.reads \ DOMAIN t.writes),
                         !.writes = Amend(@, e.writes),
                         !.log = Append(@, [op |-> op, name |-> name, arg |-> arg,
                                            ret |-> e.ret])]
    BY <1>4, <2>1 DEF Do
  <2>3. t = [snap |-> t.snap, reads |-> t.reads, writes |-> t.writes, stale |-> t.stale,
             log |-> t.log]
    BY <1>3 DEF Sound
  <2> HIDE DEF t, u
  <2>4. /\ u.reads = t.reads \cup (e.reads \ DOMAIN t.writes) /\ u.snap = t.snap
        /\ u.writes = Amend(t.writes, e.writes)
        /\ u.log = Append(t.log, [op |-> op, name |-> name, arg |-> arg, ret |-> e.ret])
    BY <2>2, <2>3
  <2>5. DOMAIN Nothing = {}
    BY DEF Nothing
  <2> QED BY <1>1, <1>6, <2>2, <2>4, <2>5
<1>8. u # NoTxn
  <2>1. DOMAIN u = DOMAIN t /\ DOMAIN t = {"snap", "reads", "writes", "stale", "log"}
    <3>1. DOMAIN txn = Clients
      BY <1>3 DEF StoreInv
    <3>2. DOMAIN u = DOMAIN t
      BY <1>4, <3>1 DEF Do
    <3>3. DOMAIN t = {"snap", "reads", "writes", "stale", "log"}
      BY <1>3 DEF Sound
    <3> QED BY <3>2, <3>3
  <2>2. DOMAIN NoTxn = {"open"}
    BY DEF NoTxn
  <2>3. "snap" \in DOMAIN u /\ "snap" \notin DOMAIN NoTxn
    BY <2>1, <2>2
  <2> QED BY <2>3
<1>9. Outcome(q.cmd, u.reads, u.writes, u.snap, u.log[1].ret)
  <2>1. /\ DOMAIN Amend(Nothing, e.writes) = DOMAIN e.writes
        /\ \A key \in DOMAIN e.writes : Amend(Nothing, e.writes)[key] = e.writes[key]
    BY DEF Amend, Nothing
  <2>2. \A k : LengthOf(View(c), k) = LengthOf(t.snap, k)
    BY <1>6 DEF LengthOf, listStartEnd, View, Over, Nothing
  <2>3. u.log[1].ret = e.ret
    BY <1>7
  <2>4. \A k \in Names : \A n \in {1, -1} : Resizes(e.reads, e.writes, View(c), k, n) =>
          Resizes(u.reads, u.writes, u.snap, k, n)
    BY <1>7, <2>1, <2>2 DEF Resizes
  <2>5. KeepsSizes(e.writes) => KeepsSizes(u.writes)
    BY <1>7, <2>1 DEF KeepsSizes
  <2> HIDE DEF u, t, q
  <2> QED BY <1>4, <2>3, <2>4, <2>5 DEF Outcome
<1>10. Serves(q, u)
  BY <1>2, <1>7, <1>8, <1>9 DEF Serves
<1>11. ASSUME NEW d \in Clients, serving'[d] # NoRequest PROVE Serves(serving'[d], txn'[d])
  BY <1>1, <1>7, <1>10, <1>11 DEF ServeInv
<1> QED BY <1>5, <1>11 DEF ServeInv, Serves
\* The other steps serve a request at a time.
LEMMA ServeInvInductive ==
  ConnInv /\ ServeInv /\ [ServerNext]_<<vars, svars>> => ServeInv'
<1> SUFFICES ASSUME ConnInv, ServeInv, [ServerNext]_<<vars, svars>> PROVE ServeInv'
  OBVIOUS
<1>1. ASSUME UNCHANGED <<vars, serving>> PROVE ServeInv'
  <2>1. txn' = txn /\ db' = db /\ serving' = serving
    BY <1>1 DEF vars
  <2> QED BY <2>1 DEF ServeInv, StoreInv, Whole, Sound, Current
<1>2. ASSUME NEW c \in Clients, NEW r \in Requests, Send(c, r) PROVE ServeInv'
  BY <1>1, <1>2 DEF Send
<1>3. ASSUME NEW c \in Clients, Receive(c) PROVE ServeInv'
  <2> DEFINE r == Head(wire[c])
  <2>1. CASE UNCHANGED <<vars, serving>>
    BY <1>1, <2>1
  <2>2. CASE /\ r.cmd \in DOMAIN dealRegister /\ Len(r.args) >= dealRegister[r.cmd].args
             /\ Begin(c) /\ serving' = [serving EXCEPT ![c] = r]
    <3>1. StoreInv'
      BY <2>2, BeginKeeps DEF ServeInv
    <3>2. r \in Requests
      <4>1. wire[c] \in Seq(Requests) /\ wire[c] # <<>>
        BY <1>3 DEF ConnInv, Conn, Receive
      <4> QED BY <4>1, HeadTailProperties
    <3> DEFINE u == [snap |-> db, reads |-> {}, writes |-> Nothing, stale |-> {}, log |-> <<>>]
    <3>3. txn'[c] = u /\ \A d \in Clients \ {c} : txn'[d] = txn[d]
      BY <2>2 DEF ServeInv, StoreInv, Begin
    <3>4. u # NoTxn
      <4>1. "snap" \in DOMAIN u /\ DOMAIN NoTxn = {"open"}
        BY DEF NoTxn
      <4>2. "snap" \notin DOMAIN NoTxn
        BY <4>1
      <4> QED BY <4>1, <4>2
    <3>5. Serves(r, u)
      BY <2>2, <3>2, <3>4 DEF Serves
    <3> HIDE DEF u, r
    <3>6. serving'[c] = r /\ \A d \in Clients \ {c} : serving'[d] = serving[d]
      BY <2>2 DEF ConnInv
    <3>7. ASSUME NEW d \in Clients, serving'[d] # NoRequest PROVE Serves(serving'[d], txn'[d])
      BY <3>3, <3>5, <3>6, <3>7 DEF ServeInv
    <3> QED BY <3>1, <3>7 DEF ServeInv, Serves
  <2> QED BY <1>3, <2>1, <2>2 DEF Receive
<1>4. ASSUME NEW c \in Clients, Execute(c) PROVE ServeInv'
  BY <1>4, ExecuteServes
<1>5. ASSUME NEW c \in Clients, Finish(c) PROVE ServeInv'
  <2>1. serving' = [serving EXCEPT ![c] = NoRequest]
    BY <1>5 DEF Finish, Respond
  <2>2. Commit(c) \/ Discard(c)
    BY <1>5 DEF Finish
  <2>3. StoreInv'
    BY <2>2, CommitKeeps, DiscardKeeps DEF ServeInv
  <2>4. ASSUME NEW d \in Clients, serving'[d] # NoRequest PROVE Serves(serving'[d], txn'[d])
    <3>1. d # c /\ serving'[d] = serving[d] /\ serving[d] # NoRequest
      BY <2>1, <2>4 DEF ConnInv
    <3> DEFINE t == txn[d]
               u == txn'[d]
    <3>2. Serves(serving[d], t)
      BY <3>1 DEF ServeInv
    <3>3. t # NoTxn
      BY <3>2 DEF Serves
    <3>4. CASE Discard(c)
      BY <3>1, <3>2, <3>4 DEF Discard, ServeInv, StoreInv
    <3>5. CASE Commit(c)
      <4>1. u = [t EXCEPT !.stale = @ \cup DOMAIN txn[c].writes]
        BY <3>1, <3>3, <3>5 DEF Commit
      <4>2. t = [snap |-> t.snap, reads |-> t.reads, writes |-> t.writes, stale |-> t.stale,
                 log |-> t.log]
        BY <3>3 DEF ServeInv, StoreInv, Sound
      <4> HIDE DEF t, u
      <4>3. /\ u.snap = t.snap /\ u.reads = t.reads /\ u.writes = t.writes /\ u.log = t.log
            /\ "snap" \in DOMAIN u
        BY <4>1, <4>2
      <4>4. u # NoTxn
        <5>1. DOMAIN NoTxn = {"open"}
          BY DEF NoTxn
        <5>2. "snap" \notin DOMAIN NoTxn
          BY <5>1
        <5> QED BY <4>3, <5>2
      <4>5. Serves(serving[d], u)
        BY <3>2, <4>3, <4>4 DEF Serves
      <4> QED BY <3>1, <4>5 DEF u
    <3> QED BY <2>2, <3>4, <3>5
  <2> QED BY <2>3, <2>4 DEF ServeInv, Serves
<1>6. CASE UNCHANGED <<vars, svars>>
  BY <1>1, <1>6 DEF svars
<1> QED BY <1>2, <1>3, <1>4, <1>5, <1>6 DEF ServerNext
\* What pushes and pops answer (exec.go:326-378).
LEMMA QueueAnswers ==
  ASSUME NEW cmd \in Pushes \cup Pops
  PROVE  dealRegister[cmd].good = "value" /\ dealRegister[cmd].bad # "value"
<1>1. \A cm \in {"LPUSH", "RPUSH", "LPOP", "RPOP"} :
        dealRegister[cm].good = "value" /\ dealRegister[cm].bad # "value"
  BY DEF dealRegister, Deal
<1> QED BY <1>1 DEF Pushes, Pops

\* The command that is served was sent.
LEMMA ServesSent ==
  ASSUME ConnInv, NothingCleared, NEW c \in Clients, serving[c] # NoRequest
  PROVE  serving[c].cmd # "LCLEAR"
<1>1. Conn(sent[c], wire[c], replies[c], serving[c])
  BY DEF ConnInv
<1>2. /\ sent[c] \in Seq(Requests) /\ DOMAIN sent[c] = 1 .. Len(sent[c])
      /\ Len(sent[c]) \in Nat /\ Len(wire[c]) \in Nat
  BY <1>1, LenProperties DEF Conn
<1>3. PICK q \in 1 .. Len(sent[c]) - Len(wire[c]) : sent[c][q] = serving[c]
  BY <1>1 DEF Conn
<1>4. q \in DOMAIN sent[c]
  BY <1>2, <1>3
<1> QED BY <1>3, <1>4 DEF NothingCleared

\* What a step leaves alone, and a step that adds an element and a push, or
\* takes one and adds a pop.
LEMMA Balance ==
  ASSUME IsFiniteSet(Told(Pushes)), IsFiniteSet(Told(Pops)), IsFiniteSet(ListElements),
         Cardinality(Told(Pushes)) = Cardinality(Told(Pops)) + Cardinality(ListElements),
         \/ /\ Told(Pushes)' = Told(Pushes) /\ Told(Pops)' = Told(Pops)
            /\ ListElements' = ListElements
         \/ /\ \E p : p \notin Told(Pushes) /\ Told(Pushes)' = Told(Pushes) \cup {p}
            /\ Told(Pops)' = Told(Pops)
            /\ \E p : p \notin ListElements /\ ListElements' = ListElements \cup {p}
         \/ /\ Told(Pushes)' = Told(Pushes)
            /\ \E p : p \notin Told(Pops) /\ Told(Pops)' = Told(Pops) \cup {p}
            /\ \E p \in ListElements : ListElements' = ListElements \ {p}
  PROVE  QueueInv'
<1> DEFINE A == Told(Pushes)
           B == Told(Pops)
           E == ListElements
<1>1. Cardinality(A) \in Nat /\ Cardinality(B) \in Nat /\ Cardinality(E) \in Nat
  BY FS_CardinalityType
<1>2. \A S, x : IsFiniteSet(S) =>
        /\ IsFiniteSet(S \cup {x}) /\ IsFiniteSet(S \ {x})
        /\ x \notin S => Cardinality(S \cup {x}) = Cardinality(S) + 1
        /\ x \in S => Cardinality(S \ {x}) = Cardinality(S) - 1
  BY FS_AddElement, FS_RemoveElement
<1>3. IsFiniteSet(A') /\ IsFiniteSet(B') /\ IsFiniteSet(E')
  BY <1>2
<1>4. Cardinality(A') = Cardinality(B') + Cardinality(E')
  <2>1. CASE A' = A /\ B' = B /\ E' = E
    BY <2>1
  <2>2. CASE /\ \E p : p \notin A /\ A' = A \cup {p}
             /\ B' = B
             /\ \E p : p \notin E /\ E' = E \cup {p}
    <3>1. Cardinality(A') = Cardinality(A) + 1 /\ Cardinality(E') = Cardinality(E) + 1
      BY <1>2, <2>2
    <3> HIDE DEF A, B, E
    <3> QED BY <1>1, <2>2, <3>1 DEF A, B, E
  <2>3. CASE /\ A' = A
             /\ \E p : p \notin B /\ B' = B \cup {p}
             /\ \E p \in E : E' = E \ {p}
    <3>1. Cardinality(B') = Cardinality(B) + 1 /\ Cardinality(E') = Cardinality(E) - 1
      BY <1>2, <2>3
    <3> QED BY <1>1, <2>3, <3>1
  <2> QED BY <2>1, <2>2, <2>3
<1> QED BY <1>3, <1>4 DEF QueueInv, EveryElementServedOnce, Pushes, Pops

\* Every answered push has left an element that is in a list or was handed out.
LEMMA QueueInvInductive ==
  ConnInv /\ ServeInv /\ QueueInv /\ [ServerNext]_<<vars, svars>> => QueueInv'
<1> SUFFICES ASSUME ConnInv, ServeInv, QueueInv, [ServerNext]_<<vars, svars>>, NothingCleared'
             PROVE  QueueInv'
  BY DEF QueueInv
<1>1. ServeInv'
  BY ServeInvInductive
<1>2. ASSUME NothingCleared
      PROVE  /\ IsFiniteSet(Told(Pushes)) /\ IsFiniteSet(Told(Pops)) /\ IsFiniteSet(ListElements)
             /\ Cardinality(Told(Pushes)) = Cardinality(Told(Pops)) + Cardinality(ListElements)
  BY <1>2 DEF QueueInv, EveryElementServedOnce, Pushes, Pops
<1>3. ASSUME NothingCleared, db' = db,
             \A cmds \in {Pushes, Pops} : Told(cmds)' = Told(cmds)
      PROVE  QueueInv'
  <2>1. ListElements' = ListElements
    BY <1>3 DEF ListElements, ListOf, listStartEnd, Stored
  <2> QED BY <1>2, <1>3, <2>1, Balance
<1>4. ASSUME NothingCleared, db' = db, replies' = replies PROVE QueueInv'
  <2>1. \A cmds \in {Pushes, Pops} : Told(cmds)' = Told(cmds)
    BY <1>4 DEF Told
  <2> QED BY <1>3, <1>4, <2>1
<1>5. CASE UNCHANGED <<vars, svars>>
  BY <1>4, <1>5 DEF vars, svars, NothingCleared
<1>6. ASSUME NEW c \in Clients, NEW r \in Requests, Send(c, r) PROVE QueueInv'
  <2>1. db' = db /\ replies' = replies /\ sent' = [sent EXCEPT ![c] = Append(sent[c], r)]
    BY <1>6 DEF Send, vars
  <2>2. sent[c] \in Seq(Requests)
    BY DEF ConnInv, Conn
  <2>3. \A i \in DOMAIN sent[c] :
          i \in DOMAIN Append(sent[c], r) /\ Append(sent[c], r)[i] = sent[c][i]
    BY <2>2, AppendProperties, LenProperties
  <2>4. sent'[c] = Append(sent[c], r) /\ \A d \in Clients \ {c} : sent'[d] = sent[d]
    BY <2>1 DEF ConnInv
  <2>5. ASSUME NEW d \in Clients, NEW i \in DOMAIN sent[d] PROVE sent[d][i].cmd # "LCLEAR"
    BY <2>3, <2>4 DEF NothingCleared
  <2>6. NothingCleared
    BY <2>5 DEF NothingCleared
  <2> QED BY <1>4, <2>1, <2>6
<1>7. ASSUME NEW c \in Clients, Receive(c) PROVE QueueInv'
  <2>1. sent' = sent /\ db' = db
    BY <1>7 DEF Receive, Begin, vars
  <2>2. NothingCleared
    BY <2>1 DEF NothingCleared
  <2>3. \/ replies' = replies
        \/ Answered(c, Head(wire[c]), "error", "")
    BY <1>7 DEF Receive
  <2>4. CASE Answered(c, Head(wire[c]), "error", "")
    <3> DEFINE a == [req |-> Head(wire[c]), ans |-> "error", val |-> ""]
    <3>1. replies' = [replies EXCEPT ![c] = Append(replies[c], a)] /\ a.ans # "value"
      BY <2>4 DEF Answered
    <3> HIDE DEF a
    <3>2. \A cmds \in {Pushes, Pops} : Told(cmds)' = Told(cmds)
      BY <3>1, ToldGrows
    <3> QED BY <1>3, <2>1, <2>2, <3>2
  <2> QED BY <1>4, <2>1, <2>2, <2>3, <2>4
<1>8. ASSUME NEW c \in Clients, Execute(c) PROVE QueueInv'
  <2>1. sent' = sent /\ replies' = replies
    BY <1>8 DEF Execute, svars
  <2>2. db' = db
    <3>1. Serves(serving[c], txn[c]) /\ txn[c].log = <<>>
          /\ Perform(c, serving[c].cmd, serving[c].args)
      BY <1>8 DEF Execute, ServeInv
    <3>2. Whole(View(c))
      BY <3>1 DEF Serves, ServeInv, StoreInv, Sound, View
    <3>3. \E op, name, arg, e : Do(c, op, name, arg, e)
      BY <3>1, <3>2, PerformEffect DEF Serves
    <3> QED BY <3>3 DEF Do
  <2> QED BY <1>4, <2>1, <2>2 DEF NothingCleared
<1>9. ASSUME NEW c \in Clients, Finish(c) PROVE QueueInv'
  <2> DEFINE q == serving[c]
             t == txn[c]
             ret == t.log[1].ret
             deal == dealRegister[q.cmd]
  <2>1. /\ q # NoRequest /\ t.log # <<>>
        /\ \/ /\ ret \notin Errors /\ Commit(c)
              /\ Respond(c, deal.good, IF deal.good = "value" THEN ret ELSE "")
           \/ Discard(c) /\ Respond(c, deal.bad, "")
    BY <1>9 DEF Finish
  <2>2. Serves(q, t)
    BY <2>1 DEF ServeInv
  <2>3. sent' = sent
    BY <2>1 DEF Respond
  <2>4. NothingCleared
    BY <2>3 DEF NothingCleared
  <2>5. q.cmd # "LCLEAR"
    BY <2>1, <2>4, ServesSent
  <2>6. ASSUME NEW ans, NEW val, Respond(c, ans, val), NEW cmds
        PROVE  /\ ~(q.cmd \in cmds /\ ans = "value") => Told(cmds)' = Told(cmds)
               /\ q.cmd \in cmds /\ ans = "value" =>
                    \E p : p \notin Told(cmds) /\ Told(cmds)' = Told(cmds) \cup {p}
    <3> DEFINE a == [req |-> q, ans |-> ans, val |-> val]
    <3>1. replies' = [replies EXCEPT ![c] = Append(replies[c], a)]
          /\ a.req = q /\ a.ans = ans
      BY <2>6 DEF Respond, Answered
    <3> HIDE DEF a, q
    <3> QED BY <3>1, ToldGrows
  <2>7. Pushes \cap Pops = {}
    BY DEF Pushes, Pops
  <2>8. CASE Discard(c) /\ Respond(c, deal.bad, "")
    <3>1. \A cmds \in {Pushes, Pops} : ~(q.cmd \in cmds /\ deal.bad = "value")
      BY QueueAnswers
    <3>2. \A cmds \in {Pushes, Pops} : Told(cmds)' = Told(cmds)
      BY <2>6, <2>8, <3>1
    <3> QED BY <1>3, <2>4, <2>8, <3>2 DEF Discard
  <2>9. CASE /\ ret \notin Errors /\ Commit(c)
             /\ Respond(c, deal.good, IF deal.good = "value" THEN ret ELSE "")
    <3>1. t # NoTxn /\ ~Conflict(t) /\ db' = Over(db, t.writes)
      BY <2>9 DEF Commit
    <3>2. Sound(t, db) /\ StoreInv /\ StoreInv'
      BY <1>1, <3>1 DEF ServeInv, StoreInv
    <3>3. Outcome(q.cmd, t.reads, t.writes, t.snap, ret)
      BY <2>1, <2>2 DEF Serves
    <3>4. CASE q.cmd \in Pushes
      <4>1. /\ \E p : p \notin Told(Pushes) /\ Told(Pushes)' = Told(Pushes) \cup {p}
            /\ Told(Pops)' = Told(Pops)
        BY <2>6, <2>7, <2>9, <3>4, QueueAnswers
      <4>2. \E k \in Names : Resizes(t.reads, t.writes, t.snap, k, 1)
        BY <2>9, <3>3, <3>4 DEF Outcome
      <4>3. \E p : p \notin ListElements /\ ListElements' = ListElements \cup {p}
        BY <3>1, <3>2, <4>2, CommitElements
      <4> QED BY <1>2, <2>4, <4>1, <4>3, Balance
    <3>5. CASE q.cmd \in Pops
      <4>1. /\ Told(Pushes)' = Told(Pushes)
            /\ \E p : p \notin Told(Pops) /\ Told(Pops)' = Told(Pops) \cup {p}
        BY <2>6, <2>7, <2>9, <3>5, QueueAnswers
      <4>2. \E k \in Names : Resizes(t.reads, t.writes, t.snap, k, -1)
        BY <2>9, <3>3, <3>5 DEF Outcome
      <4>3. \E p \in ListElements : ListElements' = ListElements \ {p}
        BY <3>1, <3>2, <4>2, CommitElements
      <4> QED BY <1>2, <2>4, <4>1, <4>3, Balance
    <3>6. CASE q.cmd \notin Pushes \cup Pops
      <4>1. Told(Pushes)' = Told(Pushes) /\ Told(Pops)' = Told(Pops)
        BY <2>6, <2>9, <3>6
      <4>2. KeepsSizes(t.writes)
        BY <2>5, <2>9, <3>3, <3>6 DEF Outcome
      <4>3. ListElements' = ListElements
        BY <3>1, <3>2, <4>2, CommitElements
      <4> QED BY <1>2, <2>4, <4>1, <4>3, Balance
    <3> QED BY <3>4, <3>5, <3>6
  <2> QED BY <2>1, <2>8, <2>9
<1> QED BY <1>5, <1>6, <1>7, <1>8, <1>9 DEF ServerNext

\* Whatever requests the clients send, the lists stay whole (exec.go:48-464
\* over bg.go:493-655).
THEOREM ServeInvCorrect == ServerSpec => [](ConnInv /\ ServeInv)
<1>1. ServerInit => ConnInv /\ ServeInv
  <2>1. ServerInit => ConnInv
    BY ConnInvInit
  <2>2. ServerInit => ServeInv
    BY DEF ServerInit, ServeInv, Init, StoreInv, Whole, Nothing
  <2> QED BY <2>1, <2>2
<1> QED BY <1>1, ConnInvInductive, ServeInvInductive, PTL DEF ServerSpec

\* The elements pushed with success are in the lists or were handed out, each
\* once, whoever pushes and pops at the same time (exec.go:325-378 over
\* bg.go:518-593).
THEOREM EveryElementServedOnceCorrect == ServerSpec => []EveryElementServedOnce
<1>1. ServerInit => QueueInv
  <2> SUFFICES ASSUME ServerInit PROVE QueueInv
    OBVIOUS
  <2>1. ListElements = {}
    BY DEF ServerInit, Init, Nothing, ListElements, ListOf, listStartEnd
  <2>2. \A cmds : Told(cmds) = {}
    BY DEF ServerInit, Told
  <2>3. IsFiniteSet({}) /\ Cardinality({}) = 0 /\ 0 = 0 + 0
    BY FS_EmptySet
  <2> QED BY <2>1, <2>2, <2>3 DEF QueueInv, EveryElementServedOnce
<1>2. QueueInv => EveryElementServedOnce
  BY DEF QueueInv, EveryElementServedOnce
<1>3. ServerSpec => []QueueInv
  BY <1>1, ServeInvCorrect, QueueInvInductive, PTL DEF ServerSpec
<1> QED BY <1>2, <1>3, PTL

---------------------------------------------------------------------------
(* Transactions that write take effect in the order of their commits, and  *)
(* what they were answered is current, as far as Collections promises it.  *)
(*                                                                         *)
(* An operation is exact on a view when its answer is right for the        *)
(* contents of the view (Holds), and its writes over the view give the     *)
(* contents after it.  Every method of bg.go is exact on each view that    *)
(* agrees with its own on the keys it has read (the lemmas ...Exact and    *)
(* ...Faithful), so the operations of a transaction, replayed on any       *)
(* contents that agree with its snapshot on what it has read, give its     *)
(* answers and its writes (Serial).  At a commit without a conflict what   *)
(* is committed is such contents (Fresh), and a transaction that writes    *)
(* nothing has changed nothing (Quiet).                                    *)

\* The collections that a view holds.
Of(v, tag) == {key \in DOMAIN v : key[1] = tag}
PlainOf(v) == {<<key[2], v[key]>> : key \in Of(v, "k")}
Triples(v, tag) == {<<key[2], key[3], v[key]>> : key \in Of(v, tag)}
SetsOf(v) == {<<key[2], key[3]>> : key \in Of(v, "s")}
ListIn(v, k) == LET m == listStartEnd(v, k)
                IN [i \in 1 .. m[2] - m[1] |-> Stored(v, ListKey(k, m[1] + i - 1))]
ListsOf(v) == [k \in Names |-> ListIn(v, k)]
Holds(v) == [plain |-> PlainOf(v), maps |-> Triples(v, "m"), sets |-> SetsOf(v),
             scores |-> Triples(v, "z"), lists |-> ListsOf(v)]

\* A key is made by its encoder, and its value is what is stored under such keys.
Fit(key, val) ==
  /\ key[1] = "k" => key = RawKey(key[2])
  /\ key[1] = "m" => key = MapKey(key[2], key[3]) /\ key[3] \in Values
  /\ key[1] = "s" => key = SetKey(key[2], key[3]) /\ key[3] \in Values
  /\ key[1] = "z" => key = ZetKey(key[2], key[3]) /\ val \in Scores
  /\ key[1] = "sz" => key[4] \in Values
  /\ \A k \in Names, i \in Int : key = ListKey(k, i) => val \in Values

\* A view that operations of the store can have made.
Formed(v) ==
  /\ v = [key \in DOMAIN v |-> v[key]]
  /\ Whole(v)
  /\ \A key \in DOMAIN v : Fit(key, v[key])

\* What one key holds in two views.
Alike(v, u, key) ==
  /\ key \in DOMAIN v <=> key \in DOMAIN u
  /\ key \in DOMAIN v => v[key] = u[key]

\* Keys of kinds (eMapKey, eListKey, ...).
LEMMA Kinds ==
  ASSUME NEW k, NEW x, NEW y
  PROVE  /\ RawKey(k)[1] = "k" /\ RawKey(k)[2] = k
         /\ MapKey(k, x)[1] = "m" /\ MapKey(k, x)[2] = k /\ MapKey(k, x)[3] = x
         /\ SetKey(k, x)[1] = "s" /\ SetKey(k, x)[2] = k /\ SetKey(k, x)[3] = x
         /\ ZetKey(k, x)[1] = "z" /\ ZetKey(k, x)[2] = k /\ ZetKey(k, x)[3] = x
         /\ ZetScore(k, x, y)[1] = "sz" /\ ZetScore(k, x, y)[2] = k /\ ZetScore(k, x, y)[4] = x
         /\ ListMetaKey(k)[1] = "l" /\ ListKey(k, x)[1] = "l"
  BY DEF RawKey, MapKey, SetKey, ZetKey, ZetScore, ListMetaKey, ListKey

\* Where nothing of a kind is written, nothing of it changes.
LEMMA OthersStay ==
  ASSUME NEW v, NEW w, NEW tag, \A key \in DOMAIN w : key[1] # tag
  PROVE  /\ Of(Over(v, w), tag) = Of(v, tag)
         /\ \A key : key[1] = tag => Alike(Over(v, w), v, key)
  BY DEF Over, Of, Alike

\* Plain values stay where no plain key is written.
LEMMA PlainStays ==
  ASSUME NEW v, NEW w, \A key \in DOMAIN w : key[1] # "k"
  PROVE  PlainOf(Over(v, w)) = PlainOf(v)
<1> DEFINE o == Over(v, w)
<1>1. Of(o, "k") = Of(v, "k") /\ \A key : key[1] = "k" => Alike(o, v, key)
  BY OthersStay
<1> HIDE DEF o
<1>2. \A key \in Of(v, "k") : o[key] = v[key]
  BY <1>1 DEF Of, Alike
<1>3. PlainOf(o) = PlainOf(v)
  BY <1>1, <1>2 DEF PlainOf
<1> QED BY <1>3 DEF o

\* Maps and scored sets stay where no key of theirs is written.
LEMMA TriplesStay ==
  ASSUME NEW v, NEW w, NEW tag, \A key \in DOMAIN w : key[1] # tag
  PROVE  Triples(Over(v, w), tag) = Triples(v, tag)
<1> DEFINE o == Over(v, w)
<1>1. Of(o, tag) = Of(v, tag) /\ \A key : key[1] = tag => Alike(o, v, key)
  BY OthersStay
<1> HIDE DEF o
<1>2. \A key \in Of(v, tag) : o[key] = v[key]
  BY <1>1 DEF Of, Alike
<1>3. Triples(o, tag) = Triples(v, tag)
  BY <1>1, <1>2 DEF Triples
<1> QED BY <1>3 DEF o

\* Sets stay where no key of theirs is written.
LEMMA SetsStay ==
  ASSUME NEW v, NEW w, \A key \in DOMAIN w : key[1] # "s"
  PROVE  SetsOf(Over(v, w)) = SetsOf(v)
  BY OthersStay DEF SetsOf

\* A list is what its keys hold.
LEMMA ListAlike ==
  ASSUME NEW v, NEW u, NEW k \in Names, Alike(v, u, ListMetaKey(k)),
         Whole(v),
         \A i \in Int : Alike(v, u, ListKey(k, i))
  PROVE  ListIn(v, k) = ListIn(u, k)
<1>1. listStartEnd(v, k) = listStartEnd(u, k)
  BY DEF Alike, listStartEnd
<1>2. PICK m : m = listStartEnd(v, k)
  OBVIOUS
<1>3. m[1] \in Int /\ m[2] \in Int
  BY <1>2, EndsOf
<1>4. \A i \in 1 .. m[2] - m[1] : Stored(v, ListKey(k, m[1] + i - 1)) = Stored(u, ListKey(k, m[1] + i - 1))
  <2> TAKE i \in 1 .. m[2] - m[1]
  <2>1. m[1] + i - 1 \in Int
    BY <1>3
  <2> QED BY <2>1 DEF Alike, Stored
<1>5. ListIn(v, k) = [i \in 1 .. m[2] - m[1] |-> Stored(v, ListKey(k, m[1] + i - 1))]
  BY <1>2 DEF ListIn
<1>6. ListIn(u, k) = [i \in 1 .. m[2] - m[1] |-> Stored(u, ListKey(k, m[1] + i - 1))]
  BY <1>1, <1>2 DEF ListIn
<1> QED BY <1>4, <1>5, <1>6

\* Lists stay where no key of theirs is written.
LEMMA ListsStay ==
  ASSUME NEW v, NEW w, Whole(v), \A key \in DOMAIN w : key[1] # "l"
  PROVE  ListsOf(Over(v, w)) = ListsOf(v)
<1>1. \A key : key[1] = "l" => Alike(v, Over(v, w), key)
  <2> DEFINE o == Over(v, w)
  <2>1. \A key : key[1] = "l" => Alike(o, v, key)
    BY OthersStay
  <2> HIDE DEF o
  <2>2. \A key : key[1] = "l" => Alike(v, o, key)
    BY <2>1 DEF Alike
  <2> QED BY <2>2 DEF o
<1>2. ASSUME NEW k \in Names PROVE ListIn(v, k) = ListIn(Over(v, w), k)
  <2>1. Alike(v, Over(v, w), ListMetaKey(k)) /\ \A i \in Int : Alike(v, Over(v, w), ListKey(k, i))
    BY <1>1, Kinds
  <2> QED BY <2>1, ListAlike
<1> QED BY <1>2 DEF ListsOf

\* What is written is there, and what is deleted is not.
LEMMA OverWrites ==
  ASSUME NEW v, NEW w
  PROVE  /\ \A key \in DOMAIN w : w[key] # Gone => key \in DOMAIN Over(v, w) /\ Over(v, w)[key] = w[key]
         /\ \A key \in DOMAIN w : w[key] = Gone => key \notin DOMAIN Over(v, w)
         /\ \A key : key \notin DOMAIN w => Alike(Over(v, w), v, key)
  BY DEF Over, Alike

\* A plain value is written.
LEMMA PlainSet ==
  ASSUME NEW v, NEW o, NEW k, NEW x, RawKey(k) \in DOMAIN o, o[RawKey(k)] = x,
         \A key : key[1] = "k" /\ key # RawKey(k) => Alike(o, v, key),
         \A key \in Of(v, "k") : key = RawKey(key[2])
  PROVE  PlainOf(o) = {r \in PlainOf(v) : r[1] # k} \cup {<<k, x>>}
<1>1. ASSUME NEW key \in Of(o, "k")
      PROVE  <<key[2], o[key]>> \in {r \in PlainOf(v) : r[1] # k} \cup {<<k, x>>}
  <2>1. CASE key = RawKey(k)
    BY <2>1, Kinds
  <2>2. CASE key # RawKey(k)
    <3>1. key \in Of(v, "k") /\ o[key] = v[key]
      BY <1>1, <2>2 DEF Of, Alike
    <3>2. key[2] # k
      BY <2>2, <3>1
    <3>3. <<key[2], v[key]>> \in PlainOf(v)
      BY <3>1 DEF PlainOf
    <3> QED BY <3>1, <3>2, <3>3
  <2> QED BY <2>1, <2>2
<1>2. ASSUME NEW key \in Of(v, "k"), key[2] # k
      PROVE  <<key[2], v[key]>> \in PlainOf(o)
  <2>1. key # RawKey(k)
    BY <1>2, Kinds
  <2>2. key \in Of(o, "k") /\ o[key] = v[key]
    BY <1>2, <2>1 DEF Of, Alike
  <2> QED BY <2>2 DEF PlainOf
<1>3. <<k, x>> \in PlainOf(o)
  <2>1. RawKey(k) \in Of(o, "k") /\ RawKey(k)[2] = k
    BY Kinds DEF Of
  <2> QED BY <2>1 DEF PlainOf
<1>4. PlainOf(o) \subseteq {r \in PlainOf(v) : r[1] # k} \cup {<<k, x>>}
  BY <1>1 DEF PlainOf
<1>5. {r \in PlainOf(v) : r[1] # k} \subseteq PlainOf(o)
  <2> SUFFICES ASSUME NEW r \in PlainOf(v), r[1] # k PROVE r \in PlainOf(o)
    OBVIOUS
  <2>1. PICK key \in Of(v, "k") : r = <<key[2], v[key]>>
    BY DEF PlainOf
  <2> QED BY <1>2, <2>1
<1> QED BY <1>3, <1>4, <1>5

\* A plain value is deleted.
LEMMA PlainDelete ==
  ASSUME NEW v, NEW o, NEW k, RawKey(k) \notin DOMAIN o,
         \A key : key[1] = "k" /\ key # RawKey(k) => Alike(o, v, key),
         \A key \in Of(v, "k") : key = RawKey(key[2])
  PROVE  PlainOf(o) = {r \in PlainOf(v) : r[1] # k}
<1>1. ASSUME NEW key \in Of(o, "k")
      PROVE  <<key[2], o[key]>> \in {r \in PlainOf(v) : r[1] # k}
  <2>1. key # RawKey(k)
    BY <1>1 DEF Of
  <2>2. key \in Of(v, "k") /\ o[key] = v[key]
    BY <1>1, <2>1 DEF Of, Alike
  <2>3. key[2] # k
    BY <2>1, <2>2
  <2>4. <<key[2], v[key]>> \in PlainOf(v)
    BY <2>2 DEF PlainOf
  <2> QED BY <2>2, <2>3, <2>4
<1>2. ASSUME NEW key \in Of(v, "k"), key[2] # k
      PROVE  <<key[2], v[key]>> \in PlainOf(o)
  <2>1. key # RawKey(k)
    BY <1>2, Kinds
  <2>2. key \in Of(o, "k") /\ o[key] = v[key]
    BY <1>2, <2>1 DEF Of, Alike
  <2> QED BY <2>2 DEF PlainOf
<1>4. PlainOf(o) \subseteq {r \in PlainOf(v) : r[1] # k}
  BY <1>1 DEF PlainOf
<1>5. {r \in PlainOf(v) : r[1] # k} \subseteq PlainOf(o)
  <2> SUFFICES ASSUME NEW r \in PlainOf(v), r[1] # k PROVE r \in PlainOf(o)
    OBVIOUS
  <2>1. PICK key \in Of(v, "k") : r = <<key[2], v[key]>>
    BY DEF PlainOf
  <2> QED BY <1>2, <2>1
<1> QED BY <1>4, <1>5

\* The members X are taken from map or scored set m.
LEMMA TriplesDelete ==
  ASSUME NEW v, NEW o, NEW tag, NEW m, NEW X,
         \A key \in Of(v, tag) : key[2] = m /\ key[3] \in X => key \notin DOMAIN o,
         \A key \in Of(v, tag) : ~(key[2] = m /\ key[3] \in X) => Alike(o, v, key),
         Of(o, tag) \subseteq Of(v, tag)
  PROVE  Triples(o, tag) = Promise!Without(Triples(v, tag), m, X)
<1>1. ASSUME NEW key \in Of(o, tag)
      PROVE  <<key[2], key[3], o[key]>> \in Promise!Without(Triples(v, tag), m, X)
  <2>1. key \in Of(v, tag) /\ key \in DOMAIN o
    BY <1>1 DEF Of
  <2>2. ~(key[2] = m /\ key[3] \in X)
    BY <2>1
  <2>3. o[key] = v[key]
    BY <2>1, <2>2 DEF Alike
  <2>4. <<key[2], key[3], v[key]>> \in Triples(v, tag)
    BY <2>1 DEF Triples
  <2> QED BY <2>2, <2>3, <2>4 DEF Promise!Without
<1>2. ASSUME NEW key \in Of(v, tag), ~(key[2] = m /\ key[3] \in X)
      PROVE  <<key[2], key[3], v[key]>> \in Triples(o, tag)
  <2>1. key \in Of(o, tag) /\ o[key] = v[key]
    BY <1>2 DEF Of, Alike
  <2> QED BY <2>1 DEF Triples
<1>3. Triples(o, tag) \subseteq Promise!Without(Triples(v, tag), m, X)
  BY <1>1 DEF Triples
<1>4. Promise!Without(Triples(v, tag), m, X) \subseteq Triples(o, tag)
  <2> SUFFICES ASSUME NEW r \in Triples(v, tag), ~(r[1] = m /\ r[2] \in X) PROVE r \in Triples(o, tag)
    BY DEF Promise!Without
  <2>1. PICK key \in Of(v, tag) : r = <<key[2], key[3], v[key]>>
    BY DEF Triples
  <2> QED BY <1>2, <2>1
<1> QED BY <1>3, <1>4

\* Map or scored set m has x for k.
LEMMA TriplesSet ==
  ASSUME NEW v, NEW o, NEW tag, NEW m, NEW k, NEW x,
         <<tag, m, k>> \in DOMAIN o, o[<<tag, m, k>>] = x,
         \A key : key[1] = tag /\ key # <<tag, m, k>> => Alike(o, v, key),
         \A key \in Of(v, tag) : key = <<tag, key[2], key[3]>>
  PROVE  Triples(o, tag) = Promise!Without(Triples(v, tag), m, {k}) \cup {<<m, k, x>>}
<1>1. ASSUME NEW key \in Of(o, tag)
      PROVE  <<key[2], key[3], o[key]>> \in
               Promise!Without(Triples(v, tag), m, {k}) \cup {<<m, k, x>>}
  <2>1. CASE key = <<tag, m, k>>
    BY <2>1
  <2>2. CASE key # <<tag, m, k>>
    <3>1. key \in Of(v, tag) /\ o[key] = v[key]
      BY <1>1, <2>2 DEF Of, Alike
    <3>2. ~(key[2] = m /\ key[3] = k)
      BY <2>2, <3>1
    <3>3. <<key[2], key[3], v[key]>> \in Triples(v, tag)
      BY <3>1 DEF Triples
    <3> QED BY <3>1, <3>2, <3>3 DEF Promise!Without
  <2> QED BY <2>1, <2>2
<1>2. ASSUME NEW key \in Of(v, tag), ~(key[2] = m /\ key[3] = k)
      PROVE  <<key[2], key[3], v[key]>> \in Triples(o, tag)
  <2>1. key # <<tag, m, k>>
    BY <1>2
  <2>2. key \in Of(o, tag) /\ o[key] = v[key]
    BY <1>2, <2>1 DEF Of, Alike
  <2> QED BY <2>2 DEF Triples
<1>3. <<m, k, x>> \in Triples(o, tag)
  <2>1. PICK key : key = <<tag, m, k>>
    OBVIOUS
  <2>2. key \in Of(o, tag) /\ key[2] = m /\ key[3] = k /\ o[key] = x
    BY <2>1 DEF Of
  <2> QED BY <2>2 DEF Triples
<1>4. Triples(o, tag) \subseteq Promise!Without(Triples(v, tag), m, {k}) \cup {<<m, k, x>>}
  BY <1>1 DEF Triples
<1>5. Promise!Without(Triples(v, tag), m, {k}) \subseteq Triples(o, tag)
  <2> SUFFICES ASSUME NEW r \in Triples(v, tag), ~(r[1] = m /\ r[2] = k) PROVE r \in Triples(o, tag)
    BY DEF Promise!Without
  <2>1. PICK key \in Of(v, tag) : r = <<key[2], key[3], v[key]>>
    BY DEF Triples
  <2> QED BY <1>2, <2>1
<1> QED BY <1>3, <1>4, <1>5

\* A member is added to set k.
LEMMA SetsAdd ==
  ASSUME NEW v, NEW o, NEW k, NEW x, SetKey(k, x) \in DOMAIN o,
         \A key : key[1] = "s" /\ key # SetKey(k, x) => Alike(o, v, key)
  PROVE  SetsOf(o) = SetsOf(v) \cup {<<k, x>>}
<1>1. ASSUME NEW key \in Of(o, "s") PROVE <<key[2], key[3]>> \in SetsOf(v) \cup {<<k, x>>}
  <2>1. CASE key = SetKey(k, x)
    BY <2>1, Kinds
  <2>2. CASE key # SetKey(k, x)
    <3>1. key \in Of(v, "s")
      BY <1>1, <2>2 DEF Of, Alike
    <3> QED BY <3>1 DEF SetsOf
  <2> QED BY <2>1, <2>2
<1>2. ASSUME NEW key \in Of(v, "s") PROVE <<key[2], key[3]>> \in SetsOf(o)
  <2>1. key \in Of(o, "s")
    BY <1>2 DEF Of, Alike
  <2> QED BY <2>1 DEF SetsOf
<1>3. <<k, x>> \in SetsOf(o)
  <2>1. SetKey(k, x) \in Of(o, "s") /\ SetKey(k, x)[2] = k /\ SetKey(k, x)[3] = x
    BY Kinds DEF Of
  <2> QED BY <2>1 DEF SetsOf
<1>4. SetsOf(o) \subseteq SetsOf(v) \cup {<<k, x>>}
  BY <1>1 DEF SetsOf
<1>5. SetsOf(v) \subseteq SetsOf(o)
  BY <1>2 DEF SetsOf
<1> QED BY <1>3, <1>4, <1>5

\* The members X are taken from set m.
LEMMA SetsDelete ==
  ASSUME NEW v, NEW o, NEW m, NEW X,
         \A key \in Of(v, "s") : key[2] = m /\ key[3] \in X => key \notin DOMAIN o,
         \A key \in Of(v, "s") : ~(key[2] = m /\ key[3] \in X) => Alike(o, v, key),
         Of(o, "s") \subseteq Of(v, "s")
  PROVE  SetsOf(o) = Promise!Without(SetsOf(v), m, X)
<1>1. ASSUME NEW key \in Of(o, "s") PROVE <<key[2], key[3]>> \in Promise!Without(SetsOf(v), m, X)
  <2>1. key \in Of(v, "s") /\ key \in DOMAIN o
    BY <1>1 DEF Of
  <2>2. ~(key[2] = m /\ key[3] \in X)
    BY <2>1
  <2>3. <<key[2], key[3]>> \in SetsOf(v)
    BY <2>1 DEF SetsOf
  <2> QED BY <2>2, <2>3 DEF Promise!Without
<1>2. ASSUME NEW key \in Of(v, "s"), ~(key[2] = m /\ key[3] \in X)
      PROVE  <<key[2], key[3]>> \in SetsOf(o)
  <2>1. key \in Of(o, "s")
    BY <1>2 DEF Of, Alike
  <2> QED BY <2>1 DEF SetsOf
<1>3. SetsOf(o) \subseteq Promise!Without(SetsOf(v), m, X)
  BY <1>1 DEF SetsOf
<1>4. Promise!Without(SetsOf(v), m, X) \subseteq SetsOf(o)
  <2> SUFFICES ASSUME NEW r \in SetsOf(v), ~(r[1] = m /\ r[2] \in X) PROVE r \in SetsOf(o)
    BY DEF Promise!Without
  <2>1. PICK key \in Of(v, "s") : r = <<key[2], key[3]>>
    BY DEF SetsOf
  <2> QED BY <1>2, <2>1
<1> QED BY <1>3, <1>4

\* Taking one member is taking a pair (SDel).
LEMMA SetsWithout ==
  ASSUME NEW v, NEW k, NEW x
  PROVE  Promise!Without(SetsOf(v), k, {x}) = SetsOf(v) \ {<<k, x>>}
<1>1. \A r \in SetsOf(v) : r = <<r[1], r[2]>>
  BY DEF SetsOf
<1> QED BY <1>1 DEF Promise!Without

---------------------------------------------------------------------------
\* The ends of a list, and its elements one by one.
LEMMA ListElement ==
  ASSUME NEW v, Formed(v), NEW k \in Names, NEW start, NEW end, listStartEnd(v, k) = <<start, end>>
  PROVE  /\ start \in Int /\ end \in Int /\ start <= end
         /\ \A i \in start .. end - 1 : ListKey(k, i) \in DOMAIN v /\ v[ListKey(k, i)] \in Values
         /\ ListIn(v, k) \in Seq(Values) /\ Len(ListIn(v, k)) = end - start
         /\ \A i \in 1 .. end - start : ListIn(v, k)[i] = v[ListKey(k, start + i - 1)]
<1>1. Whole(v) /\ \A key \in DOMAIN v : Fit(key, v[key])
  BY DEF Formed
<1>2. /\ start \in Int /\ end \in Int /\ start <= end
      /\ \A i \in start .. end - 1 : ListKey(k, i) \in DOMAIN v
  BY <1>1, EndsOf
<1>3. ASSUME NEW i \in start .. end - 1 PROVE ListKey(k, i) \in DOMAIN v /\ v[ListKey(k, i)] \in Values
  <2>1. i \in Int
    BY <1>2
  <2> QED BY <1>1, <1>2, <2>1 DEF Fit
<1> DEFINE n == end - start
           val(i) == Stored(v, ListKey(k, start + i - 1))
<1>4. n \in Nat
  BY <1>2
<1>5. \A i \in 1 .. n : val(i) = v[ListKey(k, start + i - 1)] /\ val(i) \in Values
  <2> TAKE i \in 1 .. n
  <2>1. start + i - 1 \in start .. end - 1
    BY <1>2
  <2> QED BY <1>3, <2>1 DEF Stored
<1>6. ListIn(v, k) = [i \in 1 .. n |-> val(i)]
  BY DEF ListIn
<1> HIDE DEF n, val
<1>7. ListIn(v, k) \in [1 .. n -> Values] /\ \A i \in 1 .. n : ListIn(v, k)[i] = val(i)
  BY <1>5, <1>6
<1>8. ListIn(v, k) \in Seq(Values) /\ Len(ListIn(v, k)) = n
  BY <1>4, <1>7
<1> QED BY <1>2, <1>3, <1>5, <1>7, <1>8 DEF n, val

\* Only list k has become another.
LEMMA ListsSet ==
  ASSUME NEW v, NEW o, Whole(o), NEW k \in Names, NEW x, ListIn(o, k) = x,
         \A j \in Names \ {k} : /\ Alike(o, v, ListMetaKey(j))
                                /\ \A i \in Int : Alike(o, v, ListKey(j, i))
  PROVE  ListsOf(o) = [ListsOf(v) EXCEPT ![k] = x]
<1>1. \A j \in Names \ {k} : ListIn(o, j) = ListIn(v, j)
  BY ListAlike
<1> QED BY <1>1 DEF ListsOf

\* An element on the left (LLPush).
LEMMA LeftPushed ==
  ASSUME NEW v, NEW o, Formed(v), Formed(o), NEW k \in Names, NEW x \in Values,
         NEW start, NEW end, listStartEnd(v, k) = <<start, end>>,
         listStartEnd(o, k) = <<start - 1, end>>, o[ListKey(k, start - 1)] = x,
         \A i \in start .. end - 1 : o[ListKey(k, i)] = v[ListKey(k, i)]
  PROVE  ListIn(o, k) = <<x>> \o ListIn(v, k)
<1>1. PICK s : s = ListIn(v, k)
  OBVIOUS
<1>2. PICK t : t = ListIn(o, k)
  OBVIOUS
<1>3. /\ start \in Int /\ end \in Int /\ start <= end /\ s \in Seq(Values) /\ Len(s) = end - start
      /\ \A i \in 1 .. end - start : s[i] = v[ListKey(k, start + i - 1)]
  BY <1>1, ListElement, SMTT(30)
<1>4. /\ t \in Seq(Values) /\ Len(t) = end - (start - 1)
      /\ \A i \in 1 .. end - (start - 1) : t[i] = o[ListKey(k, (start - 1) + i - 1)]
  BY <1>2, ListElement, SMTT(30)
<1>e. PICK e : e = <<x>>
  OBVIOUS
<1>5. e \in Seq(Values) /\ Len(e) = 1 /\ e[1] = x
  BY <1>e
<1>6. /\ e \o s \in Seq(Values) /\ Len(e \o s) = 1 + Len(s)
      /\ \A i \in 1 .. 1 + Len(s) : (e \o s)[i] = IF i <= 1 THEN e[i] ELSE s[i - 1]
  <2>1. /\ e \o s \in Seq(Values) /\ Len(e \o s) = Len(e) + Len(s)
        /\ \A i \in 1 .. Len(e) + Len(s) : (e \o s)[i] = IF i <= Len(e) THEN e[i] ELSE s[i - Len(e)]
    BY <1>3, <1>5, ConcatProperties
  <2> QED BY <1>5, <2>1
<1>7. ASSUME NEW i \in 1 .. Len(t) PROVE t[i] = (e \o s)[i]
  <2>1. CASE i = 1
    <3>1. (start - 1) + i - 1 = start - 1 /\ 1 \in 1 .. 1 + Len(s) /\ 1 \in 1 .. end - (start - 1)
      BY <1>3, <1>4, <2>1
    <3> QED BY <1>4, <1>5, <1>6, <2>1, <3>1
  <2>2. CASE i # 1
    <3>4. /\ start \in Int /\ end \in Int /\ Len(s) = end - start
          /\ i \in 1 .. end - (start - 1)
      BY <1>3, <1>4
    <3>1. /\ i - 1 \in 1 .. end - start /\ (start - 1) + i - 1 = start + (i - 1) - 1
          /\ start + (i - 1) - 1 \in start .. end - 1 /\ i \in 1 .. 1 + Len(s) /\ ~(i <= 1)
          /\ i \in 1 .. end - (start - 1)
      BY <2>2, <3>4
    <3>2. t[i] = o[ListKey(k, start + (i - 1) - 1)]
      BY <1>4, <3>1
    <3>3. s[i - 1] = v[ListKey(k, start + (i - 1) - 1)]
      BY <1>3, <3>1
    <3> QED BY <1>6, <3>1, <3>2, <3>3
  <2> QED BY <2>1, <2>2
<1>8. Len(t) = Len(e \o s)
  BY <1>3, <1>4, <1>6
<1>9. t = e \o s
  BY <1>4, <1>6, <1>7, <1>8, SeqEqual
<1> QED BY <1>1, <1>2, <1>9, <1>e

\* An element on the right (LRPush).
LEMMA RightPushed ==
  ASSUME NEW v, NEW o, Formed(v), Formed(o), NEW k \in Names, NEW x \in Values,
         NEW start, NEW end, listStartEnd(v, k) = <<start, end>>,
         listStartEnd(o, k) = <<start, end + 1>>, o[ListKey(k, end)] = x,
         \A i \in start .. end - 1 : o[ListKey(k, i)] = v[ListKey(k, i)]
  PROVE  ListIn(o, k) = Append(ListIn(v, k), x)
<1>1. PICK s : s = ListIn(v, k)
  OBVIOUS
<1>2. PICK t : t = ListIn(o, k)
  OBVIOUS
<1>3. /\ start \in Int /\ end \in Int /\ start <= end /\ s \in Seq(Values) /\ Len(s) = end - start
      /\ \A i \in 1 .. end - start : s[i] = v[ListKey(k, start + i - 1)]
  BY <1>1, ListElement, SMTT(30)
<1>4. /\ t \in Seq(Values) /\ Len(t) = (end + 1) - start
      /\ \A i \in 1 .. (end + 1) - start : t[i] = o[ListKey(k, start + i - 1)]
  BY <1>2, ListElement, SMTT(30)
<1>6. /\ Append(s, x) \in Seq(Values) /\ Len(Append(s, x)) = Len(s) + 1
      /\ \A i \in 1 .. Len(s) : Append(s, x)[i] = s[i]
      /\ Append(s, x)[Len(s) + 1] = x
  BY <1>3, AppendProperties
<1>7. ASSUME NEW i \in 1 .. Len(t) PROVE t[i] = Append(s, x)[i]
  <2>1. CASE i = Len(s) + 1
    <3>1. start + i - 1 = end /\ i \in 1 .. (end + 1) - start
      BY <1>3, <1>4, <2>1
    <3> QED BY <1>4, <1>6, <2>1, <3>1
  <2>2. CASE i # Len(s) + 1
    <3>1. i \in 1 .. Len(s) /\ start + i - 1 \in start .. end - 1 /\ i \in 1 .. (end + 1) - start
          /\ i \in 1 .. end - start
      BY <1>3, <1>4, <2>2
    <3> QED BY <1>3, <1>4, <1>6, <3>1
  <2> QED BY <2>1, <2>2
<1>8. Len(t) = Len(Append(s, x))
  BY <1>3, <1>4, <1>6
<1> QED BY <1>1, <1>2, <1>4, <1>6, <1>7, <1>8, SeqEqual

\* An empty list, and the first and the last element of another.
LEMMA ListEnds ==
  ASSUME NEW v, Formed(v), NEW k \in Names, NEW start, NEW end, listStartEnd(v, k) = <<start, end>>
  PROVE  /\ ListIn(v, k) = <<>> <=> start = end
         /\ start # end => /\ Head(ListIn(v, k)) = v[ListKey(k, start)]
                           /\ Last(ListIn(v, k)) = v[ListKey(k, end - 1)]
<1>1. PICK s : s = ListIn(v, k)
  OBVIOUS
<1>2. /\ start \in Int /\ end \in Int /\ start <= end /\ s \in Seq(Values) /\ Len(s) = end - start
      /\ \A i \in 1 .. end - start : s[i] = v[ListKey(k, start + i - 1)]
  BY <1>1, ListElement, SMTT(30)
<1>3. s = <<>> <=> start = end
  <2>1. CASE s = <<>>
    <3>1. Len(s) = 0
      BY <2>1
    <3> QED BY <1>2, <2>1, <3>1
  <2>2. CASE s # <<>>
    <3>1. Len(s) \in Nat \ {0}
      BY <1>2, <2>2, EmptySeq
    <3> QED BY <1>2, <2>2, <3>1
  <2> QED BY <2>1, <2>2
<1>4. ASSUME start # end
      PROVE  Head(s) = v[ListKey(k, start)] /\ Last(s) = v[ListKey(k, end - 1)]
  <2>1. /\ 1 \in 1 .. end - start /\ Len(s) \in 1 .. end - start
        /\ start + 1 - 1 = start /\ start + Len(s) - 1 = end - 1
    BY <1>2, <1>4
  <2>2. s[1] = v[ListKey(k, start)] /\ s[Len(s)] = v[ListKey(k, end - 1)]
    BY <1>2, <2>1
  <2>3. Head(s) = s[1]
    BY <1>2, <1>3, <1>4
  <2> QED BY <2>2, <2>3 DEF Last
<1> QED BY <1>1, <1>3, <1>4

\* The element on the left is gone (LLPop).
LEMMA LeftPopped ==
  ASSUME NEW v, NEW o, Formed(v), Formed(o), NEW k \in Names,
         NEW start, NEW end, listStartEnd(v, k) = <<start, end>>, start # end,
         listStartEnd(o, k) = <<start + 1, end>>,
         \A i \in start .. end - 1 : o[ListKey(k, i)] = v[ListKey(k, i)]
  PROVE  ListIn(o, k) = Tail(ListIn(v, k))
<1>1. PICK s : s = ListIn(v, k)
  OBVIOUS
<1>2. PICK t : t = ListIn(o, k)
  OBVIOUS
<1>3. /\ start \in Int /\ end \in Int /\ start <= end /\ s \in Seq(Values) /\ Len(s) = end - start
      /\ \A i \in 1 .. end - start : s[i] = v[ListKey(k, start + i - 1)]
  BY <1>1, ListElement, SMTT(30)
<1>4. /\ t \in Seq(Values) /\ Len(t) = end - (start + 1)
      /\ \A i \in 1 .. end - (start + 1) : t[i] = o[ListKey(k, (start + 1) + i - 1)]
  BY <1>2, ListElement, SMTT(30)
<1>5. s # <<>>
  BY <1>1, ListEnds
<1>6. /\ Tail(s) \in Seq(Values) /\ Len(Tail(s)) = Len(s) - 1
      /\ \A i \in 1 .. Len(Tail(s)) : Tail(s)[i] = s[i + 1]
  BY <1>3, <1>5, HeadTailProperties
<1>7. ASSUME NEW i \in 1 .. Len(t) PROVE t[i] = Tail(s)[i]
  <2>1. /\ i + 1 \in 1 .. end - start /\ (start + 1) + i - 1 = start + (i + 1) - 1
        /\ start + (i + 1) - 1 \in start .. end - 1
        /\ i \in 1 .. end - (start + 1) /\ i \in 1 .. Len(Tail(s))
    BY <1>3, <1>4, <1>6
  <2> QED BY <1>3, <1>4, <1>6, <2>1
<1>8. Len(t) = Len(Tail(s))
  BY <1>3, <1>4, <1>6
<1> QED BY <1>1, <1>2, <1>4, <1>6, <1>7, <1>8, SeqEqual

\* The element on the right is gone (LRPop).
LEMMA RightPopped ==
  ASSUME NEW v, NEW o, Formed(v), Formed(o), NEW k \in Names,
         NEW start, NEW end, listStartEnd(v, k) = <<start, end>>, start # end,
         listStartEnd(o, k) = <<start, end - 1>>,
         \A i \in start .. end - 1 : o[ListKey(k, i)] = v[ListKey(k, i)]
  PROVE  ListIn(o, k) = Front(ListIn(v, k))
<1>1. PICK s : s = ListIn(v, k)
  OBVIOUS
<1>2. PICK t : t = ListIn(o, k)
  OBVIOUS
<1>3. /\ start \in Int /\ end \in Int /\ start <= end /\ s \in Seq(Values) /\ Len(s) = end - start
      /\ \A i \in 1 .. end - start : s[i] = v[ListKey(k, start + i - 1)]
  BY <1>1, ListElement, SMTT(30)
<1>4. /\ t \in Seq(Values) /\ Len(t) = (end - 1) - start
      /\ \A i \in 1 .. (end - 1) - start : t[i] = o[ListKey(k, start + i - 1)]
  BY <1>2, ListElement, SMTT(30)
<1>5. PICK n : n = Len(s) - 1
  OBVIOUS
<1>6. n \in Nat /\ n \in Int /\ 1 \in Int /\ \A i \in 1 .. n : s[i] \in Values /\ i \in 1 .. end - start
  <2>1. n \in Nat /\ n = end - start - 1
    BY <1>3, <1>5
  <2>2. \A i \in 1 .. n : i \in 1 .. Len(s)
    BY <1>3, <2>1
  <2>3. \A i \in 1 .. n : s[i] \in Values
    BY <1>3, <2>2, ElementOfSeq
  <2> QED BY <1>3, <2>1, <2>2, <2>3
<1>7. PICK f : f = SubSeq(s, 1, n)
  OBVIOUS
<1>8. f \in Seq(Values) /\ Len(f) = n /\ \A i \in 1 .. n : f[i] = s[i]
  <2>1. /\ f \in Seq(Values) /\ Len(f) = IF 1 <= n THEN n - 1 + 1 ELSE 0
        /\ \A i \in 1 .. n - 1 + 1 : f[i] = s[1 + i - 1]
    BY <1>6, <1>7, SubSeqProperties
  <2>2. Len(f) = n /\ n - 1 + 1 = n
    BY <1>6, <2>1
  <2>3. \A i \in 1 .. n : 1 + i - 1 = i
    BY <1>6
  <2> QED BY <2>1, <2>2, <2>3
<1>9. ASSUME NEW i \in 1 .. Len(t) PROVE t[i] = f[i]
  <2>1. /\ i \in 1 .. n /\ i \in 1 .. end - start /\ i \in 1 .. (end - 1) - start
        /\ start + i - 1 \in start .. end - 1
    BY <1>3, <1>4, <1>5
  <2> QED BY <1>3, <1>4, <1>8, <2>1
<1>10. Len(t) = Len(f)
  BY <1>3, <1>4, <1>5, <1>8
<1>11. t = f
  BY <1>4, <1>8, <1>9, <1>10, SeqEqual
<1> QED BY <1>1, <1>2, <1>5, <1>7, <1>11 DEF Front

\* An element is replaced (LSet).
LEMMA ElementSet ==
  ASSUME NEW v, NEW o, Formed(v), Formed(o), NEW k \in Names, NEW x \in Values,
         NEW start, NEW end, listStartEnd(v, k) = <<start, end>>,
         listStartEnd(o, k) = <<start, end>>, NEW at \in start .. end - 1,
         o[ListKey(k, at)] = x,
         \A i \in start .. end - 1 : i # at => o[ListKey(k, i)] = v[ListKey(k, i)]
  PROVE  /\ at - start + 1 \in DOMAIN ListIn(v, k)
         /\ ListIn(o, k) = [ListIn(v, k) EXCEPT ![at - start + 1] = x]
<1>1. PICK s : s = ListIn(v, k)
  OBVIOUS
<1>2. PICK t : t = ListIn(o, k)
  OBVIOUS
<1>3. /\ start \in Int /\ end \in Int /\ start <= end /\ s \in Seq(Values) /\ Len(s) = end - start
      /\ \A i \in 1 .. end - start : s[i] = v[ListKey(k, start + i - 1)]
  BY <1>1, ListElement, SMTT(30)
<1>4. /\ t \in Seq(Values) /\ Len(t) = end - start
      /\ \A i \in 1 .. end - start : t[i] = o[ListKey(k, start + i - 1)]
  BY <1>2, ListElement, SMTT(30)
<1>5. PICK p : p = at - start + 1
  OBVIOUS
<1>6. p \in 1 .. Len(s) /\ start + p - 1 = at /\ DOMAIN s = 1 .. Len(s)
  BY <1>3, <1>5
<1>7. PICK u : u = [s EXCEPT ![p] = x]
  OBVIOUS
<1>8. /\ u \in Seq(Values) /\ Len(u) = Len(s)
      /\ \A j \in 1 .. Len(s) : u[j] = IF j = p THEN x ELSE s[j]
  BY <1>3, <1>6, <1>7, ExceptSeq
<1>9. ASSUME NEW i \in 1 .. Len(t) PROVE t[i] = u[i]
  <2>1. /\ i \in 1 .. Len(s) /\ i \in 1 .. end - start /\ start + i - 1 \in start .. end - 1
        /\ i # p => start + i - 1 # at
    BY <1>3, <1>4, <1>6
  <2>2. t[i] = o[ListKey(k, start + i - 1)] /\ s[i] = v[ListKey(k, start + i - 1)]
    BY <1>3, <1>4, <2>1
  <2>3. CASE i = p
    BY <1>6, <1>8, <2>1, <2>2, <2>3
  <2>4. CASE i # p
    BY <1>8, <2>1, <2>2, <2>4
  <2> QED BY <2>3, <2>4
<1>10. t = u
  <2>1. Len(t) = Len(u)
    BY <1>3, <1>4, <1>8
  <2> QED BY <1>4, <1>8, <1>9, <2>1, SeqEqual
<1> QED BY <1>1, <1>2, <1>5, <1>6, <1>7, <1>10

\* The record of an operation.
Entry(op, name, arg, e) == [op |-> op, name |-> name, arg |-> arg, ret |-> e.ret]

\* An effect that is the one promised, on a view that shows v.
Exact(v, r, e) ==
  /\ Promise!Right(Holds(v), r)
  /\ Promise!After(Holds(v), r) = Holds(Over(v, e.writes))
  /\ Formed(Over(v, e.writes))
  /\ e.writes = Nothing => Promise!NoEffect(r)

\* What is written fits, so the new view is formed as well.
LEMMA FormedOver ==
  ASSUME NEW v, Formed(v), NEW w, Whole(Over(v, w)),
         \A key \in DOMAIN w : w[key] # Gone => Fit(key, w[key])
  PROVE  Formed(Over(v, w))
<1> DEFINE o == Over(v, w)
<1>1. o = [key \in DOMAIN o |-> o[key]]
  BY DEF Over
<1>2. ASSUME NEW key \in DOMAIN o PROVE Fit(key, o[key])
  <2>1. CASE key \in DOMAIN w
    <3>1. w[key] # Gone /\ o[key] = w[key]
      BY <1>2, <2>1, OverWrites
    <3> QED BY <2>1, <3>1
  <2>2. CASE key \notin DOMAIN w
    <3>1. key \in DOMAIN v /\ o[key] = v[key]
      BY <1>2, <2>2 DEF Over
    <3> QED BY <3>1 DEF Formed
  <2> QED BY <2>1, <2>2
<1> HIDE DEF o
<1>3. Whole(o)
  BY DEF o
<1>4. Formed(o)
  BY <1>1, <1>2, <1>3 DEF Formed
<1> QED BY <1>4 DEF o

\* Nothing written, nothing changed.
LEMMA NothingOver ==
  ASSUME NEW v, Formed(v)
  PROVE  Over(v, Nothing) = v
<1>1. Over(v, Nothing) = [key \in DOMAIN v |-> v[key]]
  BY DEF Over, Nothing
<1> QED BY <1>1 DEF Formed

\* Deletes leave nothing to fit, and lists whole if they are of other kinds.
LEMMA FormedWithout ==
  ASSUME NEW v, Formed(v), NEW keys, \A key \in keys : key[1] # "l"
  PROVE  Formed(Over(v, Delete(keys)))
<1>1. Whole(v)
  BY DEF Formed
<1> DEFINE e == [reads |-> {}, writes |-> Delete(keys)]
<1>2. \A key \in DOMAIN e.writes : key[1] # "l" /\ e.writes[key] = Gone
  BY DEF Delete
<1>3. Careful(v, e)
  <2> HIDE DEF e
  <2> QED BY <1>1, <1>2, OtherKinds
<1>4. Whole(Over(v, Delete(keys)))
  BY <1>3 DEF Careful
<1> QED BY <1>2, <1>4, FormedOver

\* So does a pair of another kind, or two.
LEMMA FormedWith ==
  ASSUME NEW v, Formed(v), NEW w,
         \A key \in DOMAIN w : key[1] # "l" /\ Fit(key, w[key])
  PROVE  Formed(Over(v, w))
<1>1. Whole(v)
  BY DEF Formed
<1> DEFINE e == [reads |-> {}, writes |-> w]
<1>3. Careful(v, e)
  <2>1. \A key \in DOMAIN e.writes : key[1] # "l"
    OBVIOUS
  <2> HIDE DEF e
  <2> QED BY <1>1, <2>1, OtherKinds
<1>4. Whole(Over(v, w))
  BY <1>3 DEF Careful
<1> QED BY <1>4, FormedOver

\* The promise, operation by operation: what fails or only reads.
LEMMA ReadsAre ==
  ASSUME NEW s, NEW r, Promise!NoEffect(r)
  PROVE  Promise!After(s, r) = s
  BY DEF Promise!After

\* An operation of these succeeds always.
LEMMA Succeeds ==
  ASSUME NEW r, r.ret = "ok", r.op \in {"set", "del", "mset", "mdel", "sadd", "sdel", "zadd", "zdel", "lclear"}
  PROVE  ~Promise!NoEffect(r)
  BY ErrorAssumption DEF Errors, Promise!NoEffect, Promise!Failed, Promise!PointReads, Promise!RangeReads

\* Any answer of these is right: the promise leaves it open.
LEMMA RightIs ==
  ASSUME NEW s, NEW r,
         r.op \in {"set", "del", "mset", "mdel", "sadd", "sdel", "zadd", "zclear",
                   "zrange", "lclear", "lset", "lindex", "lrange"}
  PROVE  Promise!Right(s, r)
  BY DEF Promise!Right

\* What set and del do to the contents.
LEMMA AfterPlain ==
  ASSUME NEW s, NEW r, ~Promise!NoEffect(r)
  PROVE  /\ r.op = "set" => Promise!After(s, r) =
               [s EXCEPT !.plain = {p \in s.plain : p[1] # r.name} \cup {<<r.name, r.arg>>}]
         /\ r.op = "del" => Promise!After(s, r) = [s EXCEPT !.plain = {p \in s.plain : p[1] # r.name}]
  BY DEF Promise!After

\* Two views that differ in one kind of collections.
LEMMA HoldsBut ==
  ASSUME NEW v, NEW o
  PROVE  /\ Triples(o, "m") = Triples(v, "m") /\ SetsOf(o) = SetsOf(v)
            /\ Triples(o, "z") = Triples(v, "z") /\ ListsOf(o) = ListsOf(v)
            => Holds(o) = [Holds(v) EXCEPT !.plain = PlainOf(o)]
         /\ PlainOf(o) = PlainOf(v) /\ SetsOf(o) = SetsOf(v)
            /\ Triples(o, "z") = Triples(v, "z") /\ ListsOf(o) = ListsOf(v)
            => Holds(o) = [Holds(v) EXCEPT !.maps = Triples(o, "m")]
         /\ PlainOf(o) = PlainOf(v) /\ Triples(o, "m") = Triples(v, "m")
            /\ Triples(o, "z") = Triples(v, "z") /\ ListsOf(o) = ListsOf(v)
            => Holds(o) = [Holds(v) EXCEPT !.sets = SetsOf(o)]
         /\ PlainOf(o) = PlainOf(v) /\ Triples(o, "m") = Triples(v, "m")
            /\ SetsOf(o) = SetsOf(v) /\ ListsOf(o) = ListsOf(v)
            => Holds(o) = [Holds(v) EXCEPT !.scores = Triples(o, "z")]
         /\ PlainOf(o) = PlainOf(v) /\ Triples(o, "m") = Triples(v, "m")
            /\ SetsOf(o) = SetsOf(v) /\ Triples(o, "z") = Triples(v, "z")
            => Holds(o) = [Holds(v) EXCEPT !.lists = ListsOf(o)]
  BY DEF Holds

\* What the operations write fits.
LEMMA Fits ==
  ASSUME NEW k, NEW x \in Values, NEW y, NEW z
  PROVE  /\ Fit(RawKey(k), y) /\ Fit(MapKey(k, x), y) /\ Fit(SetKey(k, x), y)
         /\ y \in Scores => Fit(ZetKey(k, x), y)
         /\ Fit(ZetScore(k, x, z), y)
<1>1. Fit(RawKey(k), y)
  <2>1. PICK key : key = RawKey(k)
    OBVIOUS
  <2>2. key[1] = "k" /\ key[2] = k
    BY <2>1, Kinds
  <2>3. \A j \in Names, i \in Int : key # ListKey(j, i)
    BY <2>2, Kinds
  <2> QED BY <2>1, <2>2, <2>3 DEF Fit
<1>2. Fit(MapKey(k, x), y)
  <2>1. PICK key : key = MapKey(k, x)
    OBVIOUS
  <2>2. key[1] = "m" /\ key[2] = k /\ key[3] = x
    BY <2>1, Kinds
  <2>3. \A j \in Names, i \in Int : key # ListKey(j, i)
    BY <2>2, Kinds
  <2> QED BY <2>1, <2>2, <2>3 DEF Fit
<1>3. Fit(SetKey(k, x), y)
  <2>1. PICK key : key = SetKey(k, x)
    OBVIOUS
  <2>2. key[1] = "s" /\ key[2] = k /\ key[3] = x
    BY <2>1, Kinds
  <2>3. \A j \in Names, i \in Int : key # ListKey(j, i)
    BY <2>2, Kinds
  <2> QED BY <2>1, <2>2, <2>3 DEF Fit
<1>4. ASSUME y \in Scores PROVE Fit(ZetKey(k, x), y)
  <2>1. PICK key : key = ZetKey(k, x)
    OBVIOUS
  <2>2. key[1] = "z" /\ key[2] = k /\ key[3] = x
    BY <2>1, Kinds
  <2>3. \A j \in Names, i \in Int : key # ListKey(j, i)
    BY <2>2, Kinds
  <2> QED BY <1>4, <2>1, <2>2, <2>3 DEF Fit
<1>5. Fit(ZetScore(k, x, z), y)
  <2>1. PICK key : key = ZetScore(k, x, z)
    OBVIOUS
  <2>2. key[1] = "sz" /\ key[4] = x
    BY <2>1, Kinds
  <2>3. \A j \in Names, i \in Int : key # ListKey(j, i)
    BY <2>2, Kinds
  <2> QED BY <2>1, <2>2, <2>3 DEF Fit
<1> QED BY <1>1, <1>2, <1>3, <1>4, <1>5

\* What is written is of one kind of collections.
LEMMA KindsChanged ==
  ASSUME NEW v, Formed(v), NEW w
  PROVE  /\ (\A key \in DOMAIN w : key[1] = "k") =>
              Holds(Over(v, w)) = [Holds(v) EXCEPT !.plain = PlainOf(Over(v, w))]
         /\ (\A key \in DOMAIN w : key[1] = "m") =>
              Holds(Over(v, w)) = [Holds(v) EXCEPT !.maps = Triples(Over(v, w), "m")]
         /\ (\A key \in DOMAIN w : key[1] = "s") =>
              Holds(Over(v, w)) = [Holds(v) EXCEPT !.sets = SetsOf(Over(v, w))]
         /\ (\A key \in DOMAIN w : key[1] \in {"z", "sz"}) =>
              Holds(Over(v, w)) = [Holds(v) EXCEPT !.scores = Triples(Over(v, w), "z")]
         /\ (\A key \in DOMAIN w : key[1] = "l") =>
              Holds(Over(v, w)) = [Holds(v) EXCEPT !.lists = ListsOf(Over(v, w))]
<1>1. PICK o : o = Over(v, w)
  OBVIOUS
<1>2. Whole(v)
  BY DEF Formed
<1>3. (\A key \in DOMAIN w : key[1] # "k") => PlainOf(o) = PlainOf(v)
  BY <1>1, PlainStays
<1>4. (\A key \in DOMAIN w : key[1] # "m") => Triples(o, "m") = Triples(v, "m")
  BY <1>1, TriplesStay
<1>5. (\A key \in DOMAIN w : key[1] # "s") => SetsOf(o) = SetsOf(v)
  BY <1>1, SetsStay
<1>6. (\A key \in DOMAIN w : key[1] # "z") => Triples(o, "z") = Triples(v, "z")
  BY <1>1, TriplesStay
<1>7. (\A key \in DOMAIN w : key[1] # "l") => ListsOf(o) = ListsOf(v)
  BY <1>1, <1>2, ListsStay
<1>8. ASSUME \A key \in DOMAIN w : key[1] = "k"
      PROVE  Holds(o) = [Holds(v) EXCEPT !.plain = PlainOf(o)]
  BY <1>4, <1>5, <1>6, <1>7, <1>8, HoldsBut
<1>9. ASSUME \A key \in DOMAIN w : key[1] = "m"
      PROVE  Holds(o) = [Holds(v) EXCEPT !.maps = Triples(o, "m")]
  BY <1>3, <1>5, <1>6, <1>7, <1>9, HoldsBut
<1>10. ASSUME \A key \in DOMAIN w : key[1] = "s"
      PROVE  Holds(o) = [Holds(v) EXCEPT !.sets = SetsOf(o)]
  BY <1>3, <1>4, <1>6, <1>7, <1>10, HoldsBut
<1>11. ASSUME \A key \in DOMAIN w : key[1] \in {"z", "sz"}
      PROVE  Holds(o) = [Holds(v) EXCEPT !.scores = Triples(o, "z")]
  BY <1>3, <1>4, <1>5, <1>7, <1>11, HoldsBut
<1>12. ASSUME \A key \in DOMAIN w : key[1] = "l"
      PROVE  Holds(o) = [Holds(v) EXCEPT !.lists = ListsOf(o)]
  BY <1>3, <1>4, <1>5, <1>6, <1>12, HoldsBut
<1> QED BY <1>1, <1>8, <1>9, <1>10, <1>11, <1>12

\* A read that is right does what is promised.
LEMMA ReadExact ==
  ASSUME NEW v, Formed(v), NEW r, NEW e, e.writes = Nothing,
         Promise!NoEffect(r), Promise!Right(Holds(v), r)
  PROVE  Exact(v, r, e)
  BY NothingOver, ReadsAre DEF Exact

\* The prefix that Lookup compares, of pairs and triples.
LEMMA PairPrefix ==
  \A a, b, m : Len(<<a, b>>) = 2 /\ (SubSeq(<<a, b>>, 1, Len(<<m>>)) = <<m>> <=> a = m)
<1> TAKE a, b, m
<1>1. Len(<<m>>) = 1 /\ Len(<<a, b>>) = 2
  OBVIOUS
<1>2. SubSeq(<<a, b>>, 1, 1) = <<a>>
  <2>1. PICK s : s = <<a, b>>
    OBVIOUS
  <2>2. \A i \in 1 .. 1 : s[i] \in {a}
    BY <2>1
  <2>3. PICK u : u = SubSeq(s, 1, 1)
    OBVIOUS
  <2>4. u \in Seq({a}) /\ Len(u) = 1 /\ u[1] = s[1]
    BY <2>2, <2>3, SubSeqProperties
  <2>5. u = <<a>>
    BY <2>1, <2>4
  <2> QED BY <2>1, <2>3, <2>5
<1>3. <<a>> = <<m>> <=> a = m
  OBVIOUS
<1>4. SubSeq(<<a, b>>, 1, Len(<<m>>)) = <<a>>
  BY <1>1, <1>2
<1> QED BY <1>1, <1>3, <1>4, Zenon

\* The same of triples.
LEMMA TriplePrefix ==
  \A a, b, c, m, k :
    /\ Len(<<a, b, c>>) = 3
    /\ SubSeq(<<a, b, c>>, 1, Len(<<m, k>>)) = <<m, k>> <=> a = m /\ b = k
<1> TAKE a, b, c, m, k
<1>1. Len(<<m, k>>) = 2 /\ Len(<<a, b, c>>) = 3
  OBVIOUS
<1>2. SubSeq(<<a, b, c>>, 1, 2) = <<a, b>>
  <2>1. PICK s : s = <<a, b, c>>
    OBVIOUS
  <2>2. \A i \in 1 .. 2 : s[i] \in {a, b}
    BY <2>1
  <2>3. PICK u : u = SubSeq(s, 1, 2)
    OBVIOUS
  <2>4. u \in Seq({a, b}) /\ Len(u) = 2 /\ u[1] = s[1] /\ u[2] = s[2]
    BY <2>2, <2>3, SubSeqProperties
  <2>5. u = <<a, b>>
    BY <2>1, <2>4
  <2> QED BY <2>1, <2>3, <2>5
<1>3. <<a, b>> = <<m, k>> <=> a = m /\ b = k
  OBVIOUS
<1>4. SubSeq(<<a, b, c>>, 1, Len(<<m, k>>)) = <<a, b>>
  BY <1>1, <1>2
<1> QED BY <1>1, <1>3, <1>4, Zenon

\* What Lookup finds, if its prefix picks the records of one key.
LEMMA LookupOf ==
  ASSUME NEW rel, NEW key, NEW P,
         P = {r \in rel : SubSeq(r, 1, Len(key)) = key}
  PROVE  /\ P = {} => Promise!Lookup(rel, key) = NotExist
         /\ P # {} => \E r \in P : Promise!Lookup(rel, key) = r[Len(r)]
<1>1. CASE P = {}
  BY <1>1 DEF Promise!Lookup
<1>2. CASE P # {}
  <2>1. \E r \in rel : SubSeq(r, 1, Len(key)) = key
    BY <1>2
  <2>2. PICK r : r = CHOOSE p \in rel : SubSeq(p, 1, Len(key)) = key
    OBVIOUS
  <2>3. r \in P
    BY <2>1, <2>2
  <2>4. Promise!Lookup(rel, key) = r[Len(r)]
    BY <2>1, <2>2 DEF Promise!Lookup
  <2> QED BY <1>2, <2>3, <2>4
<1> QED BY <1>1, <1>2

\* What Lookup finds among plain values is what is stored.
LEMMA LookupPlain ==
  ASSUME NEW v, Formed(v), NEW k
  PROVE  Promise!Lookup(PlainOf(v), <<k>>) = Stored(v, RawKey(k))
<1>1. PICK P : P = {r \in PlainOf(v) : SubSeq(r, 1, Len(<<k>>)) = <<k>>}
  OBVIOUS
<1>2. \A r \in P : Len(r) = 2 /\ RawKey(k) \in DOMAIN v /\ r[2] = v[RawKey(k)]
  <2>1. ASSUME NEW r \in P
        PROVE  Len(r) = 2 /\ RawKey(k) \in DOMAIN v /\ r[2] = v[RawKey(k)]
    <3>1. PICK key \in Of(v, "k") : r = <<key[2], v[key]>>
      BY <1>1, <2>1 DEF PlainOf
    <3>2. key = RawKey(key[2]) /\ key \in DOMAIN v
      BY <3>1 DEF Formed, Fit, Of
    <3>3. PICK a, b : a = key[2] /\ b = v[key]
      OBVIOUS
    <3>4. r = <<a, b>> /\ SubSeq(r, 1, Len(<<k>>)) = <<k>>
      BY <1>1, <2>1, <3>1, <3>3
    <3>5. a = k /\ Len(r) = 2
      BY <3>4, PairPrefix
    <3> QED BY <3>2, <3>3, <3>4, <3>5
  <2> QED BY <2>1
<1>3. RawKey(k) \in DOMAIN v => P # {}
  <2>1. SUFFICES ASSUME RawKey(k) \in DOMAIN v PROVE P # {}
    OBVIOUS
  <2>2. PICK key : key = RawKey(k)
    OBVIOUS
  <2>3. key \in Of(v, "k") /\ key[2] = k
    BY <2>1, <2>2, Kinds DEF Of
  <2>4. <<k, v[key]>> \in PlainOf(v)
    BY <2>3 DEF PlainOf
  <2>5. SubSeq(<<k, v[key]>>, 1, Len(<<k>>)) = <<k>>
    BY PairPrefix
  <2> QED BY <1>1, <2>4, <2>5
<1>4. CASE P = {}
  BY <1>1, <1>3, <1>4, LookupOf DEF Stored
<1>5. CASE P # {}
  <2>1. PICK r \in P : Promise!Lookup(PlainOf(v), <<k>>) = r[Len(r)]
    BY <1>1, <1>5, LookupOf
  <2> QED BY <1>2, <2>1 DEF Stored
<1> QED BY <1>4, <1>5

\* The same for maps and scored sets.
LEMMA LookupTriples ==
  ASSUME NEW v, NEW tag, \A key \in Of(v, tag) : key = <<tag, key[2], key[3]>>, NEW m, NEW k
  PROVE  Promise!Lookup(Triples(v, tag), <<m, k>>) = Stored(v, <<tag, m, k>>)
<1>1. PICK P : P = {r \in Triples(v, tag) : SubSeq(r, 1, Len(<<m, k>>)) = <<m, k>>}
  OBVIOUS
<1>9. PICK at : at = <<tag, m, k>>
  OBVIOUS
<1>2. \A r \in P : Len(r) = 3 /\ at \in DOMAIN v /\ r[3] = v[at]
  <2>1. ASSUME NEW r \in P
        PROVE  Len(r) = 3 /\ at \in DOMAIN v /\ r[3] = v[at]
    <3>1. PICK key \in Of(v, tag) : r = <<key[2], key[3], v[key]>>
      BY <1>1, <2>1 DEF Triples
    <3>2. key = <<tag, key[2], key[3]>> /\ key \in DOMAIN v
      BY <3>1 DEF Of
    <3>3. PICK a, b, c : a = key[2] /\ b = key[3] /\ c = v[key]
      OBVIOUS
    <3>4. r = <<a, b, c>> /\ SubSeq(r, 1, Len(<<m, k>>)) = <<m, k>>
      BY <1>1, <2>1, <3>1, <3>3
    <3>5. a = m /\ b = k /\ Len(r) = 3
      BY <3>4, TriplePrefix
    <3>6. key = at
      BY <1>9, <3>2, <3>3, <3>5
    <3> QED BY <3>2, <3>3, <3>4, <3>5, <3>6
  <2> QED BY <2>1
<1>3. at \in DOMAIN v => P # {}
  <2>1. SUFFICES ASSUME at \in DOMAIN v PROVE P # {}
    OBVIOUS
  <2>2. at[1] = tag /\ at[2] = m /\ at[3] = k
    BY <1>9
  <2>3. at \in Of(v, tag)
    BY <2>1, <2>2 DEF Of
  <2>4. <<m, k, v[at]>> \in Triples(v, tag)
    BY <2>2, <2>3 DEF Triples
  <2>5. SubSeq(<<m, k, v[at]>>, 1, Len(<<m, k>>)) = <<m, k>>
    BY TriplePrefix
  <2> QED BY <1>1, <2>4, <2>5
<1>4. CASE P = {}
  BY <1>9, <1>1, <1>3, <1>4, LookupOf DEF Stored
<1>5. CASE P # {}
  <2>1. PICK r \in P : Promise!Lookup(Triples(v, tag), <<m, k>>) = r[Len(r)]
    BY <1>1, <1>5, LookupOf
  <2> QED BY <1>9, <1>2, <2>1 DEF Stored
<1> QED BY <1>4, <1>5

---------------------------------------------------------------------------
\* Set.
LEMMA SetExact ==
  ASSUME NEW v, Formed(v), NEW k, NEW x \in Values
  PROVE  Exact(v, Entry("set", k, x, set(k, x)), set(k, x))
<1>1. PICK e : e = set(k, x)
  OBVIOUS
<1>2. PICK r : r = Entry("set", k, x, e)
  OBVIOUS
<1>3. /\ e.ret = "ok" /\ e.writes = Put(RawKey(k), x)
      /\ r.op = "set" /\ r.name = k /\ r.arg = x /\ r.ret = "ok"
  BY <1>1, <1>2 DEF set, Effect, Entry
<1>4. DOMAIN e.writes = {RawKey(k)} /\ e.writes[RawKey(k)] = x /\ x # Gone
  BY <1>3, StoreAssumption DEF Put
<1>5. PICK o : o = Over(v, e.writes)
  OBVIOUS
<1>6. /\ RawKey(k) \in DOMAIN o /\ o[RawKey(k)] = x
      /\ \A key : key # RawKey(k) => Alike(o, v, key)
  BY <1>4, <1>5, OverWrites
<1>7. \A key \in DOMAIN e.writes : key[1] = "k" /\ key[1] # "l" /\ Fit(key, e.writes[key])
  <2>1. RawKey(k)[1] = "k" /\ Fit(RawKey(k), x)
    BY Kinds, Fits
  <2> QED BY <1>4, <2>1
<1>8. Formed(o) /\ Holds(o) = [Holds(v) EXCEPT !.plain = PlainOf(o)]
  BY <1>5, <1>7, FormedWith, KindsChanged
<1>9. PlainOf(o) = {p \in PlainOf(v) : p[1] # k} \cup {<<k, x>>}
  <2>1. \A key \in Of(v, "k") : key = RawKey(key[2])
    BY DEF Formed, Fit, Of
  <2> QED BY <1>6, <2>1, PlainSet
<1>10. PICK s : s = Holds(v)
  OBVIOUS
<1>11. s.plain = PlainOf(v) /\ ~Promise!NoEffect(r)
  BY <1>3, <1>10, Succeeds DEF Holds
<1>12. Promise!After(s, r) = [s EXCEPT !.plain = PlainOf(o)]
  BY <1>3, <1>9, <1>11, AfterPlain
<1>13. Promise!Right(s, r)
  BY <1>3, RightIs
<1>14. e.writes # Nothing
  BY <1>4 DEF Nothing
<1> QED BY <1>1, <1>2, <1>5, <1>8, <1>10, <1>12, <1>13, <1>14 DEF Exact

\* Del.
LEMMA DelExact ==
  ASSUME NEW v, Formed(v), NEW k
  PROVE  Exact(v, Entry("del", k, "", del(k)), del(k))
<1>1. PICK e : e = del(k)
  OBVIOUS
<1>2. PICK r : r = Entry("del", k, "", e)
  OBVIOUS
<1>3. /\ e.ret = "ok" /\ e.writes = Delete({RawKey(k)})
      /\ r.op = "del" /\ r.name = k /\ r.ret = "ok"
  BY <1>1, <1>2 DEF del, Effect, Entry
<1>4. DOMAIN e.writes = {RawKey(k)} /\ e.writes[RawKey(k)] = Gone
  BY <1>3 DEF Delete
<1>5. PICK o : o = Over(v, e.writes)
  OBVIOUS
<1>6. RawKey(k) \notin DOMAIN o /\ \A key : key # RawKey(k) => Alike(o, v, key)
  BY <1>4, <1>5, OverWrites
<1>7. \A key \in DOMAIN e.writes : key[1] = "k"
  BY <1>4, Kinds
<1>8. Formed(o) /\ Holds(o) = [Holds(v) EXCEPT !.plain = PlainOf(o)]
  <2>1. \A key \in {RawKey(k)} : key[1] # "l"
    BY Kinds
  <2> QED BY <1>3, <1>5, <1>7, <2>1, FormedWithout, KindsChanged
<1>9. PlainOf(o) = {p \in PlainOf(v) : p[1] # k}
  <2>1. \A key \in Of(v, "k") : key = RawKey(key[2])
    BY DEF Formed, Fit, Of
  <2> QED BY <1>6, <2>1, PlainDelete
<1>10. PICK s : s = Holds(v)
  OBVIOUS
<1>11. s.plain = PlainOf(v) /\ ~Promise!NoEffect(r)
  BY <1>3, <1>10, Succeeds DEF Holds
<1>12. Promise!After(s, r) = [s EXCEPT !.plain = PlainOf(o)]
  BY <1>3, <1>9, <1>11, AfterPlain
<1>13. Promise!Right(s, r)
  BY <1>3, RightIs
<1>14. e.writes # Nothing
  BY <1>4 DEF Nothing
<1> QED BY <1>1, <1>2, <1>5, <1>8, <1>10, <1>12, <1>13, <1>14 DEF Exact

\* A point read does nothing and is right if it is what the collections have.
LEMMA PointRight ==
  ASSUME NEW s, NEW r
  PROVE  /\ r.op = "get" /\ r.ret = Promise!Lookup(s.plain, <<r.name>>) => Promise!Right(s, r)
         /\ r.op = "mget" /\ r.ret = Promise!Lookup(s.maps, <<r.name, r.arg>>) => Promise!Right(s, r)
         /\ r.op = "zscore" /\ r.ret = Promise!Lookup(s.scores, <<r.name, r.arg>>) => Promise!Right(s, r)
         /\ r.op = "selem" /\ r.ret = (<<r.name, r.arg>> \in s.sets) => Promise!Right(s, r)
         /\ r.op = "llen" /\ r.ret = Len(s.lists[r.name]) => Promise!Right(s, r)
         /\ r.op \in {"get", "mget", "zscore", "selem", "llen",
                      "mkvs", "smembers", "zrange", "lindex", "lrange"} => Promise!NoEffect(r)
  BY DEF Promise!Right, Promise!NoEffect, Promise!PointReads, Promise!RangeReads

\* Get.
LEMMA GetExact ==
  ASSUME NEW v, Formed(v), NEW view, NEW k,
         \A key \in get(view, k).reads : Alike(v, view, key)
  PROVE  Exact(v, Entry("get", k, "", get(view, k)), get(view, k))
<1>1. PICK e : e = get(view, k)
  OBVIOUS
<1>2. PICK r : r = Entry("get", k, "", e)
  OBVIOUS
<1>3. /\ e.ret = Stored(view, RawKey(k)) /\ e.writes = Nothing /\ e.reads = {RawKey(k)}
      /\ r.op = "get" /\ r.name = k /\ r.ret = e.ret
  BY <1>1, <1>2 DEF get, Answer, Effect, Entry
<1>4. e.ret = Stored(v, RawKey(k))
  BY <1>1, <1>3 DEF Alike, Stored
<1>5. PICK s : s = Holds(v)
  OBVIOUS
<1>6. r.ret = Promise!Lookup(s.plain, <<k>>)
  BY <1>3, <1>4, <1>5, LookupPlain DEF Holds
<1>7. Promise!NoEffect(r) /\ Promise!Right(s, r)
  BY <1>3, <1>6, PointRight
<1> QED BY <1>1, <1>2, <1>3, <1>5, <1>7, ReadExact

\* The promise of maps, sets and scored sets.
LEMMA AfterMaps ==
  ASSUME NEW s, NEW r, ~Promise!NoEffect(r), NEW X,
         \/ r.op = "mset" /\ X = Promise!Without(s.maps, r.name, {r.arg[1]}) \cup {<<r.name>> \o r.arg}
         \/ r.op = "mdel" /\ X = Promise!Without(s.maps, r.name, {r.arg})
         \/ r.op = "mclear" /\ X = Promise!Without(s.maps, r.name, r.ret)
  PROVE  Promise!After(s, r) = [s EXCEPT !.maps = X]
<1>1. CASE r.op = "mset"
  BY <1>1 DEF Promise!After
<1>2. CASE r.op = "mdel"
  BY <1>2 DEF Promise!After
<1>3. CASE r.op = "mclear"
  BY <1>3 DEF Promise!After
<1> QED BY <1>1, <1>2, <1>3

\* What the operations of sets do to the contents.
LEMMA AfterSets ==
  ASSUME NEW s, NEW r, ~Promise!NoEffect(r), NEW X,
         \/ r.op = "sadd" /\ X = s.sets \cup {<<r.name, r.arg>>}
         \/ r.op = "sdel" /\ X = s.sets \ {<<r.name, r.arg>>}
         \/ r.op = "sclear" /\ X = Promise!Without(s.sets, r.name, r.ret)
  PROVE  Promise!After(s, r) = [s EXCEPT !.sets = X]
<1>1. CASE r.op = "sadd"
  BY <1>1 DEF Promise!After
<1>2. CASE r.op = "sdel"
  BY <1>2 DEF Promise!After
<1>3. CASE r.op = "sclear"
  BY <1>3 DEF Promise!After
<1> QED BY <1>1, <1>2, <1>3

\* What the operations of scored sets do to the contents.
LEMMA AfterScores ==
  ASSUME NEW s, NEW r, ~Promise!NoEffect(r), NEW X,
         \/ r.op = "zadd" /\ X = Promise!Without(s.scores, r.name, {r.arg[1]}) \cup {<<r.name>> \o r.arg}
         \/ r.op = "zdel" /\ X = Promise!Without(s.scores, r.name, {r.arg})
         \/ r.op = "zclear" /\ X = Promise!Without(s.scores, r.name, r.ret)
  PROVE  Promise!After(s, r) = [s EXCEPT !.scores = X]
<1>1. CASE r.op = "zadd"
  BY <1>1 DEF Promise!After
<1>2. CASE r.op = "zdel"
  BY <1>2 DEF Promise!After
<1>3. CASE r.op = "zclear"
  BY <1>3 DEF Promise!After
<1> QED BY <1>1, <1>2, <1>3

\* The triple that mset and zadd put into the contents.
LEMMA Joined ==
  \A a, b, c : <<a>> \o <<b, c>> = <<a, b, c>>
<1> TAKE a, b, c
<1>1. PICK s, t, u : s = <<a>> /\ t = <<b, c>> /\ u = s \o t
  OBVIOUS
<1>2. s \in Seq({a, b, c}) /\ t \in Seq({a, b, c}) /\ Len(s) = 1 /\ Len(t) = 2
  BY <1>1
<1>3. u \in Seq({a, b, c}) /\ Len(u) = 3 /\ u[1] = s[1] /\ u[2] = t[1] /\ u[3] = t[2]
  BY <1>1, <1>2
<1>4. u = <<a, b, c>>
  <2>1. s[1] = a /\ t[1] = b /\ t[2] = c
    BY <1>1
  <2> QED BY <1>3, <2>1
<1> QED BY <1>1, <1>4, Zenon

\* What clear returns is no error.
LEMMA Clears ==
  ASSUME NEW r, r.op \in {"mclear", "sclear", "zclear"}, r.ret \in SUBSET Values
  PROVE  Promise!NoEffect(r) <=> r.ret = {}
<1>1. r.ret \notin {NotExist, OutOfSize}
  BY ErrorAssumption DEF Errors
<1> QED BY <1>1 DEF Promise!NoEffect, Promise!Failed, Promise!PointReads, Promise!RangeReads

\* Keys of one map or scored set are deleted.
LEMMA TriplesGone ==
  ASSUME NEW v, NEW tag, \A key \in Of(v, tag) : key = <<tag, key[2], key[3]>>,
         NEW m, NEW w, \A key \in DOMAIN w : w[key] = Gone,
         NEW gone, gone = {key \in DOMAIN w : key[1] = tag},
         \A key \in gone : key = <<tag, m, key[3]>>,
         NEW X, X = {key[3] : key \in gone}
  PROVE  Triples(Over(v, w), tag) = Promise!Without(Triples(v, tag), m, X)
<1>1. PICK o : o = Over(v, w)
  OBVIOUS
<1>2. X = {key[3] : key \in gone}
  OBVIOUS
<1>3. /\ \A key \in gone : key \notin DOMAIN o
      /\ \A key : key \notin DOMAIN w => Alike(o, v, key)
  BY <1>1, OverWrites
<1>4. ASSUME NEW key \in Of(v, tag)
      PROVE  key \in gone <=> key[2] = m /\ key[3] \in X
  <2>1. key = <<tag, key[2], key[3]>>
    OBVIOUS
  <2>2. ASSUME key \in gone PROVE key[2] = m /\ key[3] \in X
    <3>1. key = <<tag, m, key[3]>>
      BY <2>2
    <3> QED BY <1>2, <2>2, <3>1
  <2>3. ASSUME key[2] = m, key[3] \in X PROVE key \in gone
    <3>1. PICK old \in gone : old[3] = key[3]
      BY <1>2, <2>3
    <3>2. old = <<tag, m, key[3]>>
      BY <3>1
    <3> QED BY <2>1, <2>3, <3>1, <3>2
  <2> QED BY <2>2, <2>3
<1>5. \A key \in Of(v, tag) : key[2] = m /\ key[3] \in X => key \notin DOMAIN o
  BY <1>3, <1>4
<1>6. \A key \in Of(v, tag) : ~(key[2] = m /\ key[3] \in X) => Alike(o, v, key)
  BY <1>3, <1>4 DEF Of
<1>7. Of(o, tag) \subseteq Of(v, tag)
  BY <1>1 DEF Of, Over
<1>8. Triples(o, tag) = Promise!Without(Triples(v, tag), m, X)
  BY <1>5, <1>6, <1>7, TriplesDelete
<1> QED BY <1>1, <1>2, <1>8

\* Members of one set are deleted.
LEMMA SetsGone ==
  ASSUME NEW v, \A key \in Of(v, "s") : key = <<"s", key[2], key[3]>>,
         NEW m, NEW gone, \A key \in gone : key = <<"s", m, key[3]>>,
         NEW X, X = {key[3] : key \in gone}
  PROVE  SetsOf(Over(v, Delete(gone))) = Promise!Without(SetsOf(v), m, X)
<1>1. PICK o : o = Over(v, Delete(gone))
  OBVIOUS
<1>2. X = {key[3] : key \in gone}
  OBVIOUS
<1>3. /\ \A key \in gone : key \notin DOMAIN o
      /\ \A key : key \notin gone => Alike(o, v, key)
  <2>1. DOMAIN Delete(gone) = gone /\ \A key \in gone : Delete(gone)[key] = Gone
    BY DEF Delete
  <2> QED BY <1>1, <2>1, OverWrites
<1>4. ASSUME NEW key \in Of(v, "s")
      PROVE  key \in gone <=> key[2] = m /\ key[3] \in X
  <2>1. key = <<"s", key[2], key[3]>>
    OBVIOUS
  <2>2. ASSUME key \in gone PROVE key[2] = m /\ key[3] \in X
    <3>1. key = <<"s", m, key[3]>>
      BY <2>2
    <3> QED BY <1>2, <2>2, <3>1
  <2>3. ASSUME key[2] = m, key[3] \in X PROVE key \in gone
    <3>1. PICK old \in gone : old[3] = key[3]
      BY <1>2, <2>3
    <3>2. old = <<"s", m, key[3]>>
      BY <3>1
    <3> QED BY <2>1, <2>3, <3>1, <3>2
  <2> QED BY <2>2, <2>3
<1>5. \A key \in Of(v, "s") : key[2] = m /\ key[3] \in X => key \notin DOMAIN o
  BY <1>3, <1>4
<1>6. \A key \in Of(v, "s") : ~(key[2] = m /\ key[3] \in X) => Alike(o, v, key)
  BY <1>3, <1>4
<1>7. Of(o, "s") \subseteq Of(v, "s")
  BY <1>1 DEF Of, Over, Delete
<1>8. SetsOf(o) = Promise!Without(SetsOf(v), m, X)
  BY <1>5, <1>6, <1>7, SetsDelete
<1> QED BY <1>1, <1>2, <1>8

\* What is known of the keys of a formed view.
LEMMA FormedKeys ==
  ASSUME NEW v, Formed(v)
  PROVE  /\ \A key \in Of(v, "m") : key = <<"m", key[2], key[3]>> /\ key[3] \in Values
         /\ \A key \in Of(v, "s") : key = <<"s", key[2], key[3]>> /\ key[3] \in Values
         /\ \A key \in Of(v, "z") : key = <<"z", key[2], key[3]>> /\ v[key] \in Scores
<1>1. \A key \in DOMAIN v : Fit(key, v[key])
  BY DEF Formed
<1>2. \A key \in Of(v, "m") : key = <<"m", key[2], key[3]>> /\ key[3] \in Values
  BY <1>1 DEF Fit, Of, MapKey
<1>3. \A key \in Of(v, "s") : key = <<"s", key[2], key[3]>> /\ key[3] \in Values
  BY <1>1 DEF Fit, Of, SetKey
<1>4. \A key \in Of(v, "z") : key = <<"z", key[2], key[3]>> /\ v[key] \in Scores
  BY <1>1 DEF Fit, Of, ZetKey
<1> QED BY <1>2, <1>3, <1>4

---------------------------------------------------------------------------
\* Mset.
LEMMA MsetExact ==
  ASSUME NEW v, Formed(v), NEW m, NEW k \in Values, NEW x \in Values
  PROVE  Exact(v, Entry("mset", m, <<k, x>>, mset(m, k, x)), mset(m, k, x))
<1>1. PICK e : e = mset(m, k, x)
  OBVIOUS
<1>2. PICK r : r = Entry("mset", m, <<k, x>>, e)
  OBVIOUS
<1>3. /\ e.ret = "ok" /\ e.writes = Put(MapKey(m, k), x)
      /\ r.op = "mset" /\ r.name = m /\ r.arg = <<k, x>> /\ r.ret = "ok"
  BY <1>1, <1>2 DEF mset, Effect, Entry
<1>4. DOMAIN e.writes = {MapKey(m, k)} /\ e.writes[MapKey(m, k)] = x /\ x # Gone
  BY <1>3, StoreAssumption DEF Put
<1>5. PICK o : o = Over(v, e.writes)
  OBVIOUS
<1>6. /\ MapKey(m, k) \in DOMAIN o /\ o[MapKey(m, k)] = x
      /\ \A key : key # MapKey(m, k) => Alike(o, v, key)
  BY <1>4, <1>5, OverWrites
<1>7. \A key \in DOMAIN e.writes : key[1] = "m" /\ key[1] # "l" /\ Fit(key, e.writes[key])
  <2>1. MapKey(m, k)[1] = "m"
    BY Kinds
  <2>2. Fit(MapKey(m, k), x)
    BY Fits
  <2> QED BY <1>4, <2>1, <2>2
<1>8. Formed(o) /\ Holds(o) = [Holds(v) EXCEPT !.maps = Triples(o, "m")]
  <2>1. Formed(o)
    BY <1>5, <1>7, FormedWith
  <2>2. Holds(o) = [Holds(v) EXCEPT !.maps = Triples(o, "m")]
    BY <1>5, <1>7, KindsChanged
  <2> QED BY <2>1, <2>2
<1>9. Triples(o, "m") = Promise!Without(Triples(v, "m"), m, {k}) \cup {<<m, k, x>>}
  <2>1. \A key \in Of(v, "m") : key = <<"m", key[2], key[3]>>
    BY FormedKeys
  <2> QED BY <1>6, <2>1, TriplesSet DEF MapKey
<1>10. PICK s : s = Holds(v)
  OBVIOUS
<1>11. s.maps = Triples(v, "m") /\ ~Promise!NoEffect(r)
  BY <1>3, <1>10, Succeeds DEF Holds
<1>12. Promise!After(s, r) = [s EXCEPT !.maps = Triples(o, "m")]
  <2>1. r.arg[1] = k
    BY <1>3
  <2>2. <<r.name>> \o r.arg = <<m, k, x>>
    BY <1>3, Joined
  <2>3. Triples(o, "m") = Promise!Without(s.maps, r.name, {r.arg[1]}) \cup {<<r.name>> \o r.arg}
    BY <1>3, <1>9, <1>11, <2>1, <2>2
  <2>4. PICK X : X = Triples(o, "m")
    OBVIOUS
  <2>5. ~Promise!NoEffect(r) /\ r.op = "mset"
    BY <1>3, <1>11
  <2>6. Promise!After(s, r) = [s EXCEPT !.maps = X]
    BY <2>3, <2>4, <2>5, AfterMaps
  <2> QED BY <2>4, <2>6
<1>13. Promise!Right(s, r)
  BY <1>3, RightIs
<1>14. e.writes # Nothing
  BY <1>4 DEF Nothing
<1> QED BY <1>1, <1>2, <1>5, <1>8, <1>10, <1>12, <1>13, <1>14 DEF Exact

\* Mdel.
LEMMA MdelExact ==
  ASSUME NEW v, Formed(v), NEW m, NEW k
  PROVE  Exact(v, Entry("mdel", m, k, mdel(m, k)), mdel(m, k))
<1>1. PICK e : e = mdel(m, k)
  OBVIOUS
<1>2. PICK r : r = Entry("mdel", m, k, e)
  OBVIOUS
<1>3. /\ e.ret = "ok" /\ e.writes = Delete({MapKey(m, k)})
      /\ r.op = "mdel" /\ r.name = m /\ r.arg = k /\ r.ret = "ok"
  BY <1>1, <1>2 DEF mdel, Effect, Entry
<1>4. DOMAIN e.writes = {MapKey(m, k)} /\ e.writes[MapKey(m, k)] = Gone
  BY <1>3 DEF Delete
<1>5. PICK o : o = Over(v, e.writes)
  OBVIOUS
<1>7. \A key \in DOMAIN e.writes : key[1] = "m"
  BY <1>4, Kinds
<1>8. Formed(o) /\ Holds(o) = [Holds(v) EXCEPT !.maps = Triples(o, "m")]
  <2>1. \A key \in {MapKey(m, k)} : key[1] # "l"
    BY Kinds
  <2> QED BY <1>3, <1>5, <1>7, <2>1, FormedWithout, KindsChanged
<1>9. Triples(o, "m") = Promise!Without(Triples(v, "m"), m, {k})
  <2>1. \A key \in Of(v, "m") : key = <<"m", key[2], key[3]>>
    BY FormedKeys
  <2>2. PICK gone : gone = {MapKey(m, k)}
    OBVIOUS
  <2>3. /\ gone = {key \in DOMAIN e.writes : key[1] = "m"}
        /\ \A key \in DOMAIN e.writes : e.writes[key] = Gone
    BY <1>4, <1>7, <2>2
  <2>4. \A key \in gone : key = <<"m", m, key[3]>>
    BY <2>2 DEF MapKey
  <2>5. PICK X : X = {k}
    OBVIOUS
  <2>6. X = {key[3] : key \in gone}
    BY <2>2, <2>5, Kinds
  <2>7. Triples(Over(v, e.writes), "m") = Promise!Without(Triples(v, "m"), m, X)
    BY <2>1, <2>3, <2>4, <2>6, TriplesGone
  <2> QED BY <1>5, <2>5, <2>7
<1>10. PICK s : s = Holds(v)
  OBVIOUS
<1>11. s.maps = Triples(v, "m") /\ ~Promise!NoEffect(r)
  BY <1>3, <1>10, Succeeds DEF Holds
<1>12. Promise!After(s, r) = [s EXCEPT !.maps = Triples(o, "m")]
  <2>1. Triples(o, "m") = Promise!Without(s.maps, r.name, {r.arg})
    BY <1>3, <1>9, <1>11
  <2>2. r.op = "mdel"
    BY <1>3
  <2>3. ~Promise!NoEffect(r)
    BY <1>11
  <2> QED BY <2>1, <2>2, <2>3, AfterMaps
<1>13. Promise!Right(s, r)
  BY <1>3, RightIs
<1>14. e.writes # Nothing
  BY <1>4 DEF Nothing
<1> QED BY <1>1, <1>2, <1>5, <1>8, <1>10, <1>12, <1>13, <1>14 DEF Exact

\* Mclear, whatever it leaves.
LEMMA MclearExact ==
  ASSUME NEW v, Formed(v), NEW view, NEW m, NEW gone, gone \subseteq EntriesOf(view, "m", m),
         \A key \in mclear(view, m, gone).reads : Alike(v, view, key)
  PROVE  Exact(v, Entry("mclear", m, "", mclear(view, m, gone)), mclear(view, m, gone))
<1>1. PICK e : e = mclear(view, m, gone)
  OBVIOUS
<1>2. PICK r : r = Entry("mclear", m, "", e)
  OBVIOUS
<1>3. /\ e.ret = {key[3] : key \in gone} /\ e.writes = Delete(gone)
      /\ e.reads = EntriesOf(view, "m", m)
      /\ r.op = "mclear" /\ r.name = m /\ r.ret = e.ret
  BY <1>1, <1>2 DEF mclear, Effect, Entry
<1>4. DOMAIN e.writes = gone /\ \A key \in gone : e.writes[key] = Gone
  BY <1>3 DEF Delete
<1>5. PICK o : o = Over(v, e.writes)
  OBVIOUS
<1>6. \A key \in gone : /\ key[1] = "m" /\ key[1] # "l" /\ key = <<"m", m, key[3]>>
                         /\ key[3] \in Values /\ key \in Of(v, "m")
  <2>1. ASSUME NEW key \in gone
        PROVE  key[1] = "m" /\ key = <<"m", m, key[3]>> /\ key[3] \in Values /\ key \in Of(v, "m")
    <3>1. key \in DOMAIN view /\ key[1] = "m" /\ key[2] = m
      BY <2>1 DEF EntriesOf
    <3>2. key \in Of(v, "m")
      BY <1>1, <1>3, <2>1, <3>1 DEF Alike, Of
    <3> QED BY <3>1, <3>2, FormedKeys
  <2> QED BY <2>1
<1>8. Formed(o) /\ Holds(o) = [Holds(v) EXCEPT !.maps = Triples(o, "m")]
  BY <1>3, <1>4, <1>5, <1>6, FormedWithout, KindsChanged
<1>9. Triples(o, "m") = Promise!Without(Triples(v, "m"), m, e.ret)
  <2>1. \A key \in Of(v, "m") : key = <<"m", key[2], key[3]>>
    BY FormedKeys
  <2>3. /\ gone = {key \in DOMAIN e.writes : key[1] = "m"}
        /\ \A key \in DOMAIN e.writes : e.writes[key] = Gone
    BY <1>4, <1>6
  <2>4. \A key \in gone : key = <<"m", m, key[3]>>
    BY <1>6
  <2>6. e.ret = {key[3] : key \in gone}
    BY <1>3
  <2>7. Triples(Over(v, e.writes), "m") = Promise!Without(Triples(v, "m"), m, e.ret)
    BY <2>1, <2>3, <2>4, <2>6, TriplesGone
  <2> QED BY <1>5, <2>7
<1>10. PICK s : s = Holds(v)
  OBVIOUS
<1>11. s.maps = Triples(v, "m") /\ (Promise!NoEffect(r) <=> gone = {})
  <2>1. r.ret \in SUBSET Values
    BY <1>3, <1>6
  <2>2. r.ret = {} <=> gone = {}
    BY <1>3
  <2> QED BY <1>3, <1>10, <2>1, <2>2, Clears DEF Holds
<1>12. Promise!Right(s, r)
  <2>1. ASSUME NEW x, x \in r.ret
        PROVE  \E p \in s.maps : p[1] = r.name /\ p[2] = x
    <3>1. PICK key \in gone : key[3] = x
      BY <1>3, <2>1
    <3>2. key \in Of(v, "m") /\ key[2] = m /\ key[3] = x
      BY <1>6, <3>1
    <3>3. PICK p : p = <<key[2], key[3], v[key]>>
      OBVIOUS
    <3>4. p \in Triples(v, "m")
      BY <3>2, <3>3 DEF Triples
    <3>5. p[1] = r.name /\ p[2] = x
      BY <1>3, <3>2, <3>3
    <3> QED BY <1>11, <3>4, <3>5
  <2> QED BY <1>3, <2>1 DEF Promise!Right
<1>13. CASE gone = {}
  <2>1. e.writes = Nothing
    BY <1>3, <1>13 DEF Delete, Nothing
  <2> QED BY <1>1, <1>2, <1>10, <1>11, <1>12, <1>13, <2>1, ReadExact
<1>14. CASE gone # {}
  <2>1. Promise!After(s, r) = [s EXCEPT !.maps = Triples(o, "m")]
    <3>1. Triples(o, "m") = Promise!Without(s.maps, r.name, r.ret)
      BY <1>3, <1>9, <1>11
    <3> QED BY <1>3, <1>11, <1>14, <3>1, AfterMaps
  <2>2. e.writes # Nothing
    BY <1>4, <1>14 DEF Nothing
  <2> QED BY <1>1, <1>2, <1>5, <1>8, <1>10, <1>12, <2>1, <2>2 DEF Exact
<1> QED BY <1>13, <1>14

\* Mget.
LEMMA MgetExact ==
  ASSUME NEW v, Formed(v), NEW view, NEW m, NEW k,
         \A key \in mget(view, m, k).reads : Alike(v, view, key)
  PROVE  Exact(v, Entry("mget", m, k, mget(view, m, k)), mget(view, m, k))
<1>1. PICK e : e = mget(view, m, k)
  OBVIOUS
<1>2. PICK r : r = Entry("mget", m, k, e)
  OBVIOUS
<1>3. /\ e.ret = Stored(view, MapKey(m, k)) /\ e.writes = Nothing /\ e.reads = {MapKey(m, k)}
      /\ r.op = "mget" /\ r.name = m /\ r.arg = k /\ r.ret = e.ret
  BY <1>1, <1>2 DEF mget, Answer, Effect, Entry
<1>4. e.ret = Stored(v, MapKey(m, k))
  BY <1>1, <1>3 DEF Alike, Stored
<1>5. PICK s : s = Holds(v)
  OBVIOUS
<1>6. r.ret = Promise!Lookup(s.maps, <<m, k>>)
  <2>1. \A key \in Of(v, "m") : key = <<"m", key[2], key[3]>>
    BY FormedKeys
  <2>2. s.maps = Triples(v, "m")
    BY <1>5 DEF Holds
  <2> QED BY <1>3, <1>4, <2>1, <2>2, LookupTriples DEF MapKey
<1>7. Promise!NoEffect(r) /\ Promise!Right(s, r)
  BY <1>3, <1>6, PointRight
<1> QED BY <1>1, <1>2, <1>3, <1>5, <1>7, ReadExact

\* The entries a range read returned are there wherever its reads agree.
LEMMA SeenAlike ==
  ASSUME NEW v, Formed(v), NEW view, NEW tag \in {"m", "s"}, NEW m,
         \A key \in EntriesOf(view, tag, m) : Alike(v, view, key)
  PROVE  \A key \in EntriesOf(view, tag, m) :
           key \in Of(v, tag) /\ v[key] = view[key] /\ key[2] = m
<1> SUFFICES ASSUME NEW key, key \in EntriesOf(view, tag, m)
             PROVE  key \in Of(v, tag) /\ v[key] = view[key] /\ key[2] = m
  OBVIOUS
<1>1. key \in DOMAIN view /\ key[1] = tag /\ key[2] = m
  BY DEF EntriesOf
<1>2. Alike(v, view, key)
  OBVIOUS
<1> QED BY <1>1, <1>2 DEF Alike, Of

\* Mkvs.
LEMMA MkvsExact ==
  ASSUME NEW v, Formed(v), NEW view, NEW m,
         \A key \in mkvs(view, m).reads : Alike(v, view, key)
  PROVE  Exact(v, Entry("mkvs", m, "", mkvs(view, m)), mkvs(view, m))
<1>1. PICK e : e = mkvs(view, m)
  OBVIOUS
<1>2. PICK r : r = Entry("mkvs", m, "", e)
  OBVIOUS
<1>3. PICK keys : keys = EntriesOf(view, "m", m)
  OBVIOUS
<1>4. /\ e.writes = Nothing /\ e.reads = keys
      /\ e.ret = {<<key[3], view[key]>> : key \in keys}
      /\ r.op = "mkvs" /\ r.name = m /\ r.ret = e.ret
  BY <1>1, <1>2, <1>3 DEF mkvs, Answer, Effect, Entry
<1>5. \A key \in keys : key \in Of(v, "m") /\ v[key] = view[key] /\ key[2] = m
  <2>1. \A key \in EntriesOf(view, "m", m) : Alike(v, view, key)
    BY <1>1, <1>3, <1>4
  <2> QED BY <1>3, <2>1, SeenAlike
<1>6. PICK s : s = Holds(v)
  OBVIOUS
<1>7. ASSUME NEW p, p \in r.ret
      PROVE  <<r.name, p[1], p[2]>> \in s.maps
  <2>1. PICK key \in keys : p = <<key[3], view[key]>>
    BY <1>4, <1>7
  <2>2. p[1] = key[3] /\ p[2] = v[key] /\ r.name = key[2] /\ key \in Of(v, "m")
    BY <1>4, <1>5, <2>1
  <2>3. <<key[2], key[3], v[key]>> \in Triples(v, "m")
    BY <2>2 DEF Triples
  <2> QED BY <1>6, <2>2, <2>3 DEF Holds
<1>8. Promise!NoEffect(r) /\ Promise!Right(s, r)
  BY <1>4, <1>7 DEF Promise!NoEffect, Promise!RangeReads, Promise!Right
<1> QED BY <1>1, <1>2, <1>4, <1>6, <1>8, ReadExact

\* Smembers.
LEMMA SmembersExact ==
  ASSUME NEW v, Formed(v), NEW view, NEW k,
         \A key \in smembers(view, k).reads : Alike(v, view, key)
  PROVE  Exact(v, Entry("smembers", k, "", smembers(view, k)), smembers(view, k))
<1>1. PICK e : e = smembers(view, k)
  OBVIOUS
<1>2. PICK r : r = Entry("smembers", k, "", e)
  OBVIOUS
<1>3. PICK keys : keys = EntriesOf(view, "s", k)
  OBVIOUS
<1>4. /\ e.writes = Nothing /\ e.reads = keys
      /\ e.ret = {key[3] : key \in keys}
      /\ r.op = "smembers" /\ r.name = k /\ r.ret = e.ret
  BY <1>1, <1>2, <1>3 DEF smembers, Answer, Effect, Entry
<1>5. \A key \in keys : key \in Of(v, "s") /\ key[2] = k
  <2>1. \A key \in EntriesOf(view, "s", k) : Alike(v, view, key)
    BY <1>1, <1>3, <1>4
  <2> QED BY <1>3, <2>1, SeenAlike
<1>6. PICK s : s = Holds(v)
  OBVIOUS
<1>7. ASSUME NEW x, x \in r.ret
      PROVE  <<r.name, x>> \in s.sets
  <2>1. PICK key \in keys : x = key[3]
    BY <1>4, <1>7
  <2>2. key \in Of(v, "s") /\ key[2] = r.name
    BY <1>4, <1>5, <2>1
  <2> QED BY <1>6, <2>1, <2>2 DEF Holds, SetsOf
<1>8. Promise!NoEffect(r) /\ Promise!Right(s, r)
  BY <1>4, <1>7 DEF Promise!NoEffect, Promise!RangeReads, Promise!Right
<1> QED BY <1>1, <1>2, <1>4, <1>6, <1>8, ReadExact

\* Reads of a scored set or of a list: nothing is promised of what they return.
LEMMA RangeExact ==
  ASSUME NEW v, Formed(v), NEW r, NEW e, e.writes = Nothing,
         r.op \in {"zrange", "lindex", "lrange"}
  PROVE  Exact(v, r, e)
<1>1. Promise!NoEffect(r)
  BY DEF Promise!NoEffect, Promise!RangeReads
<1>2. Promise!Right(Holds(v), r)
  BY RightIs
<1> QED BY <1>1, <1>2, ReadExact

\* Sadd.
LEMMA SaddExact ==
  ASSUME NEW v, Formed(v), NEW k, NEW x \in Values
  PROVE  Exact(v, Entry("sadd", k, x, sadd(k, x)), sadd(k, x))
<1>1. PICK e : e = sadd(k, x)
  OBVIOUS
<1>2. PICK r : r = Entry("sadd", k, x, e)
  OBVIOUS
<1>3. /\ e.ret = "ok" /\ e.writes = Put(SetKey(k, x), "")
      /\ r.op = "sadd" /\ r.name = k /\ r.arg = x /\ r.ret = "ok"
  BY <1>1, <1>2 DEF sadd, Effect, Entry
<1>4. DOMAIN e.writes = {SetKey(k, x)} /\ e.writes[SetKey(k, x)] = "" /\ "" # Gone
  BY <1>3, ScoreAssumption DEF Put
<1>5. PICK o : o = Over(v, e.writes)
  OBVIOUS
<1>6. /\ SetKey(k, x) \in DOMAIN o
      /\ \A key : key # SetKey(k, x) => Alike(o, v, key)
  BY <1>4, <1>5, OverWrites
<1>7. \A key \in DOMAIN e.writes : key[1] = "s" /\ key[1] # "l" /\ Fit(key, e.writes[key])
  <2>1. SetKey(k, x)[1] = "s"
    BY Kinds
  <2>2. Fit(SetKey(k, x), "")
    BY Fits
  <2> QED BY <1>4, <2>1, <2>2
<1>8. Formed(o) /\ Holds(o) = [Holds(v) EXCEPT !.sets = SetsOf(o)]
  <2>1. Formed(o)
    BY <1>5, <1>7, FormedWith
  <2>2. Holds(o) = [Holds(v) EXCEPT !.sets = SetsOf(o)]
    BY <1>5, <1>7, KindsChanged
  <2> QED BY <2>1, <2>2
<1>9. SetsOf(o) = SetsOf(v) \cup {<<k, x>>}
  BY <1>6, SetsAdd
<1>10. PICK s : s = Holds(v)
  OBVIOUS
<1>11. s.sets = SetsOf(v) /\ ~Promise!NoEffect(r) /\ r.op = "sadd"
  BY <1>3, <1>10, Succeeds DEF Holds
<1>12. Promise!After(s, r) = [s EXCEPT !.sets = SetsOf(o)]
  <2>1. SetsOf(o) = s.sets \cup {<<r.name, r.arg>>}
    BY <1>3, <1>9, <1>11
  <2> QED BY <1>11, <2>1, AfterSets
<1>13. Promise!Right(s, r)
  BY <1>11, RightIs
<1>14. e.writes # Nothing
  BY <1>4 DEF Nothing
<1> QED BY <1>1, <1>2, <1>5, <1>8, <1>10, <1>12, <1>13, <1>14 DEF Exact

\* Sdel.
LEMMA SdelExact ==
  ASSUME NEW v, Formed(v), NEW k, NEW x
  PROVE  Exact(v, Entry("sdel", k, x, sdel(k, x)), sdel(k, x))
<1>1. PICK e : e = sdel(k, x)
  OBVIOUS
<1>2. PICK r : r = Entry("sdel", k, x, e)
  OBVIOUS
<1>3. /\ e.ret = "ok" /\ e.writes = Delete({SetKey(k, x)})
      /\ r.op = "sdel" /\ r.name = k /\ r.arg = x /\ r.ret = "ok"
  BY <1>1, <1>2 DEF sdel, Effect, Entry
<1>4. DOMAIN e.writes = {SetKey(k, x)}
  BY <1>3 DEF Delete
<1>5. PICK o : o = Over(v, e.writes)
  OBVIOUS
<1>7. \A key \in DOMAIN e.writes : key[1] = "s"
  BY <1>4, Kinds
<1>8. Formed(o) /\ Holds(o) = [Holds(v) EXCEPT !.sets = SetsOf(o)]
  <2>1. \A key \in {SetKey(k, x)} : key[1] # "l"
    BY Kinds
  <2> QED BY <1>3, <1>5, <1>7, <2>1, FormedWithout, KindsChanged
<1>9. SetsOf(o) = SetsOf(v) \ {<<k, x>>}
  <2>1. \A key \in Of(v, "s") : key = <<"s", key[2], key[3]>>
    BY FormedKeys
  <2>2. PICK gone : gone = {SetKey(k, x)}
    OBVIOUS
  <2>4. \A key \in gone : key = <<"s", k, key[3]>>
    BY <2>2 DEF SetKey
  <2>5. PICK X : X = {x}
    OBVIOUS
  <2>6. X = {key[3] : key \in gone}
    BY <2>2, <2>5, Kinds
  <2>7. SetsOf(Over(v, Delete(gone))) = Promise!Without(SetsOf(v), k, X)
    BY <2>1, <2>4, <2>6, SetsGone
  <2>8. Promise!Without(SetsOf(v), k, {x}) = SetsOf(v) \ {<<k, x>>}
    BY SetsWithout
  <2> QED BY <1>3, <1>5, <2>2, <2>5, <2>7, <2>8
<1>10. PICK s : s = Holds(v)
  OBVIOUS
<1>11. s.sets = SetsOf(v) /\ ~Promise!NoEffect(r) /\ r.op = "sdel"
  BY <1>3, <1>10, Succeeds DEF Holds
<1>12. Promise!After(s, r) = [s EXCEPT !.sets = SetsOf(o)]
  <2>1. SetsOf(o) = s.sets \ {<<r.name, r.arg>>}
    BY <1>3, <1>9, <1>11
  <2> QED BY <1>11, <2>1, AfterSets
<1>13. Promise!Right(s, r)
  BY <1>3, RightIs
<1>14. e.writes # Nothing
  BY <1>4 DEF Nothing
<1> QED BY <1>1, <1>2, <1>5, <1>8, <1>10, <1>12, <1>13, <1>14 DEF Exact

\* Sclear, whatever it leaves.
LEMMA SclearExact ==
  ASSUME NEW v, Formed(v), NEW view, NEW m, NEW gone, gone \subseteq EntriesOf(view, "s", m),
         \A key \in sclear(view, m, gone).reads : Alike(v, view, key)
  PROVE  Exact(v, Entry("sclear", m, "", sclear(view, m, gone)), sclear(view, m, gone))
<1>1. PICK e : e = sclear(view, m, gone)
  OBVIOUS
<1>2. PICK r : r = Entry("sclear", m, "", e)
  OBVIOUS
<1>3. /\ e.ret = {key[3] : key \in gone} /\ e.writes = Delete(gone)
      /\ e.reads = EntriesOf(view, "s", m)
      /\ r.op = "sclear" /\ r.name = m /\ r.ret = e.ret
  BY <1>1, <1>2 DEF sclear, Effect, Entry
<1>4. DOMAIN e.writes = gone /\ \A key \in gone : e.writes[key] = Gone
  BY <1>3 DEF Delete
<1>5. PICK o : o = Over(v, e.writes)
  OBVIOUS
<1>6. \A key \in gone : /\ key[1] = "s" /\ key[1] # "l" /\ key = <<"s", m, key[3]>>
                         /\ key[3] \in Values /\ key \in Of(v, "s")
  <2>1. ASSUME NEW key \in gone
        PROVE  key[1] = "s" /\ key = <<"s", m, key[3]>> /\ key[3] \in Values /\ key \in Of(v, "s")
    <3>1. key \in DOMAIN view /\ key[1] = "s" /\ key[2] = m
      BY <2>1 DEF EntriesOf
    <3>2. key \in Of(v, "s")
      BY <1>1, <1>3, <2>1, <3>1 DEF Alike, Of
    <3> QED BY <3>1, <3>2, FormedKeys
  <2> QED BY <2>1
<1>8. Formed(o) /\ Holds(o) = [Holds(v) EXCEPT !.sets = SetsOf(o)]
  BY <1>3, <1>4, <1>5, <1>6, FormedWithout, KindsChanged
<1>9. SetsOf(o) = Promise!Without(SetsOf(v), m, e.ret)
  <2>1. \A key \in Of(v, "s") : key = <<"s", key[2], key[3]>>
    BY FormedKeys
  <2>4. \A key \in gone : key = <<"s", m, key[3]>>
    BY <1>6
  <2>6. e.ret = {key[3] : key \in gone}
    BY <1>3
  <2>7. SetsOf(Over(v, Delete(gone))) = Promise!Without(SetsOf(v), m, e.ret)
    BY <2>1, <2>4, <2>6, SetsGone
  <2> QED BY <1>3, <1>5, <2>7
<1>10. PICK s : s = Holds(v)
  OBVIOUS
<1>11. s.sets = SetsOf(v) /\ (Promise!NoEffect(r) <=> gone = {})
  <2>1. r.ret \in SUBSET Values
    BY <1>3, <1>6
  <2>2. r.ret = {} <=> gone = {}
    BY <1>3
  <2> QED BY <1>3, <1>10, <2>1, <2>2, Clears DEF Holds
<1>12. Promise!Right(s, r)
  <2>1. ASSUME NEW x, x \in r.ret
        PROVE  <<r.name, x>> \in s.sets
    <3>1. PICK key \in gone : key[3] = x
      BY <1>3, <2>1
    <3>2. key \in Of(v, "s") /\ key[2] = m /\ key[3] = x
      BY <1>6, <3>1
    <3> QED BY <1>3, <1>11, <3>2 DEF SetsOf
  <2> QED BY <1>3, <2>1 DEF Promise!Right
<1>13. CASE gone = {}
  <2>1. e.writes = Nothing
    BY <1>3, <1>13 DEF Delete, Nothing
  <2> QED BY <1>1, <1>2, <1>10, <1>11, <1>12, <1>13, <2>1, ReadExact
<1>14. CASE gone # {}
  <2>1. Promise!After(s, r) = [s EXCEPT !.sets = SetsOf(o)]
    <3>1. SetsOf(o) = Promise!Without(s.sets, r.name, r.ret)
      BY <1>3, <1>9, <1>11
    <3> QED BY <1>3, <1>11, <1>14, <3>1, AfterSets
  <2>2. e.writes # Nothing
    BY <1>4, <1>14 DEF Nothing
  <2> QED BY <1>1, <1>2, <1>5, <1>8, <1>10, <1>12, <2>1, <2>2 DEF Exact
<1> QED BY <1>13, <1>14

\* Selem.
LEMMA SelemExact ==
  ASSUME NEW v, Formed(v), NEW view, NEW k, NEW x,
         \A key \in selem(view, k, x).reads : Alike(v, view, key)
  PROVE  Exact(v, Entry("selem", k, x, selem(view, k, x)), selem(view, k, x))
<1>1. PICK e : e = selem(view, k, x)
  OBVIOUS
<1>2. PICK r : r = Entry("selem", k, x, e)
  OBVIOUS
<1>3. /\ e.ret = (SetKey(k, x) \in DOMAIN view) /\ e.writes = Nothing /\ e.reads = {SetKey(k, x)}
      /\ r.op = "selem" /\ r.name = k /\ r.arg = x /\ r.ret = e.ret
  BY <1>1, <1>2 DEF selem, Answer, Effect, Entry
<1>4. e.ret = (SetKey(k, x) \in DOMAIN v)
  BY <1>1, <1>3 DEF Alike
<1>5. PICK s : s = Holds(v)
  OBVIOUS
<1>6. r.ret = (<<k, x>> \in s.sets)
  <2>1. s.sets = SetsOf(v)
    BY <1>5 DEF Holds
  <2>2. ASSUME SetKey(k, x) \in DOMAIN v PROVE <<k, x>> \in SetsOf(v)
    <3>1. PICK key : key = SetKey(k, x)
      OBVIOUS
    <3>2. key \in Of(v, "s") /\ key[2] = k /\ key[3] = x
      BY <2>2, <3>1, Kinds DEF Of
    <3> QED BY <3>2 DEF SetsOf
  <2>3. ASSUME <<k, x>> \in SetsOf(v) PROVE SetKey(k, x) \in DOMAIN v
    <3>1. PICK key \in Of(v, "s") : <<k, x>> = <<key[2], key[3]>>
      BY <2>3 DEF SetsOf
    <3>2. key = <<"s", key[2], key[3]>> /\ key \in DOMAIN v
      BY FormedKeys DEF Of
    <3>3. key[2] = k /\ key[3] = x
      BY <3>1
    <3> QED BY <3>2, <3>3 DEF SetKey
  <2>4. <<k, x>> \in SetsOf(v) <=> SetKey(k, x) \in DOMAIN v
    BY <2>2, <2>3
  <2> QED BY <1>3, <1>4, <2>1, <2>4
<1>7. Promise!NoEffect(r) /\ Promise!Right(s, r)
  BY <1>3, <1>6, PointRight
<1> QED BY <1>1, <1>2, <1>3, <1>5, <1>7, ReadExact

\* Zscore.
LEMMA ZscoreExact ==
  ASSUME NEW v, Formed(v), NEW view, NEW m, NEW k,
         \A key \in zscore(view, m, k).reads : Alike(v, view, key)
  PROVE  Exact(v, Entry("zscore", m, k, zscore(view, m, k)), zscore(view, m, k))
<1>1. PICK e : e = zscore(view, m, k)
  OBVIOUS
<1>2. PICK r : r = Entry("zscore", m, k, e)
  OBVIOUS
<1>3. /\ e.ret = Stored(view, ZetKey(m, k)) /\ e.writes = Nothing /\ e.reads = {ZetKey(m, k)}
      /\ r.op = "zscore" /\ r.name = m /\ r.arg = k /\ r.ret = e.ret
  BY <1>1, <1>2 DEF zscore, Answer, Effect, Entry
<1>4. e.ret = Stored(v, ZetKey(m, k))
  BY <1>1, <1>3 DEF Alike, Stored
<1>5. PICK s : s = Holds(v)
  OBVIOUS
<1>6. r.ret = Promise!Lookup(s.scores, <<m, k>>)
  <2>1. \A key \in Of(v, "z") : key = <<"z", key[2], key[3]>>
    BY FormedKeys
  <2>2. s.scores = Triples(v, "z")
    BY <1>5 DEF Holds
  <2> QED BY <1>3, <1>4, <2>1, <2>2, LookupTriples DEF ZetKey
<1>7. Promise!NoEffect(r) /\ Promise!Right(s, r)
  BY <1>3, <1>6, PointRight
<1> QED BY <1>1, <1>2, <1>3, <1>5, <1>7, ReadExact

\* A record of a map or scored set is written.
LEMMA TriplesPut ==
  ASSUME NEW v, NEW o, NEW tag, NEW m, NEW k, NEW x, NEW at, at = <<tag, m, k>>,
         at \in DOMAIN o, o[at] = x,
         \A key : key[1] = tag /\ key # at => Alike(o, v, key),
         \A key \in Of(v, tag) : key = <<tag, key[2], key[3]>>
  PROVE  Triples(o, tag) = Promise!Without(Triples(v, tag), m, {k}) \cup {<<m, k, x>>}
  BY TriplesSet

\* Zadd.
LEMMA ZaddExact ==
  ASSUME NEW v, Formed(v), NEW k, NEW x \in Values, NEW score \in Scores
  PROVE  Exact(v, Entry("zadd", k, <<x, score>>, zadd(k, score, x)), zadd(k, score, x))
<1>1. PICK e : e = zadd(k, score, x)
  OBVIOUS
<1>2. PICK r : r = Entry("zadd", k, <<x, score>>, e)
  OBVIOUS
<1>3. /\ e.ret = "ok" /\ e.writes = Amend(Put(ZetKey(k, x), score), Put(ZetScore(k, x, score), ""))
      /\ r.op = "zadd" /\ r.name = k /\ r.arg = <<x, score>> /\ r.ret = "ok"
  BY <1>1, <1>2 DEF zadd, Effect, Entry
<1>4. /\ DOMAIN e.writes = {ZetKey(k, x), ZetScore(k, x, score)}
      /\ e.writes[ZetKey(k, x)] = score /\ score # Gone
  <2>1. ZetKey(k, x) # ZetScore(k, x, score)
    <3>1. ZetKey(k, x)[1] = "z"
      BY Kinds
    <3>2. ZetScore(k, x, score)[1] = "sz"
      BY Kinds
    <3> QED BY <3>1, <3>2
  <2>2. PICK a, b : a = ZetKey(k, x) /\ b = ZetScore(k, x, score)
    OBVIOUS
  <2>3. a # b /\ e.writes = Amend(Put(a, score), Put(b, ""))
    BY <1>3, <2>1, <2>2
  <2>4. DOMAIN e.writes = {a, b} /\ e.writes[a] = score
    BY <2>3 DEF Amend, Put
  <2> QED BY <2>2, <2>4, ScoreAssumption
<1>5. PICK o : o = Over(v, e.writes)
  OBVIOUS
<1>6. /\ ZetKey(k, x) \in DOMAIN o /\ o[ZetKey(k, x)] = score
      /\ \A key : key \notin DOMAIN e.writes => Alike(o, v, key)
  BY <1>4, <1>5, OverWrites
<1>7. \A key \in DOMAIN e.writes :
        key[1] \in {"z", "sz"} /\ key[1] # "l" /\ Fit(key, e.writes[key])
  <2>1. ZetKey(k, x)[1] = "z"
    BY Kinds
  <2>2. ZetScore(k, x, score)[1] = "sz"
    BY Kinds
  <2>3. Fit(ZetKey(k, x), score)
    BY Fits
  <2>4. PICK y : y = e.writes[ZetScore(k, x, score)]
    OBVIOUS
  <2>5. Fit(ZetScore(k, x, score), y)
    BY Fits
  <2> QED BY <1>4, <2>1, <2>2, <2>3, <2>4, <2>5
<1>8. Formed(o) /\ Holds(o) = [Holds(v) EXCEPT !.scores = Triples(o, "z")]
  <2>1. Formed(o)
    BY <1>5, <1>7, FormedWith
  <2>2. Holds(o) = [Holds(v) EXCEPT !.scores = Triples(o, "z")]
    BY <1>5, <1>7, KindsChanged
  <2> QED BY <2>1, <2>2
<1>9. Triples(o, "z") = Promise!Without(Triples(v, "z"), k, {x}) \cup {<<k, x, score>>}
  <2>1. \A key \in Of(v, "z") : key = <<"z", key[2], key[3]>>
    BY FormedKeys
  <2>2. ASSUME NEW key, key[1] = "z", key # ZetKey(k, x) PROVE Alike(o, v, key)
    <3>1. ZetScore(k, x, score)[1] = "sz"
      BY Kinds
    <3>2. key \notin DOMAIN e.writes
      BY <1>4, <2>2, <3>1
    <3> QED BY <1>6, <3>2
  <2>3. PICK at : at = ZetKey(k, x)
    OBVIOUS
  <2>4. at = <<"z", k, x>> /\ at \in DOMAIN o /\ o[at] = score
    BY <1>6, <2>3 DEF ZetKey
  <2>5. \A key : key[1] = "z" /\ key # at => Alike(o, v, key)
    BY <2>2, <2>3
  <2> QED BY <2>1, <2>4, <2>5, TriplesPut
<1>10. PICK s : s = Holds(v)
  OBVIOUS
<1>11. s.scores = Triples(v, "z") /\ ~Promise!NoEffect(r) /\ r.op = "zadd"
  BY <1>3, <1>10, Succeeds DEF Holds
<1>12. Promise!After(s, r) = [s EXCEPT !.scores = Triples(o, "z")]
  <2>9. r.name = k /\ r.arg = <<x, score>> /\ s.scores = Triples(v, "z")
    BY <1>3, <1>11
  <2>1. r.arg[1] = x
    BY <2>9
  <2>2. <<r.name>> \o r.arg = <<k, x, score>>
    BY <2>9, Joined
  <2>3. Triples(o, "z") = Promise!Without(s.scores, r.name, {r.arg[1]}) \cup {<<r.name>> \o r.arg}
    BY <1>9, <2>9, <2>1, <2>2
  <2>4. PICK X : X = Triples(o, "z")
    OBVIOUS
  <2>6. Promise!After(s, r) = [s EXCEPT !.scores = X]
    BY <1>11, <2>3, <2>4, AfterScores
  <2> QED BY <2>4, <2>6
<1>13. Promise!Right(s, r)
  BY <1>11, RightIs
<1>14. e.writes # Nothing
  BY <1>4 DEF Nothing
<1> QED BY <1>1, <1>2, <1>5, <1>8, <1>10, <1>12, <1>13, <1>14 DEF Exact

\* The members among keys of a scored set.
MembersIn(keys) == {key[3] : key \in {x \in keys : x[1] = "z"}}

\* Scored members are deleted, under the member and under the score.
LEMMA ScoresGone ==
  ASSUME NEW v, Formed(v), NEW k, NEW keys,
         \A key \in keys : key[1] \in {"z", "sz"},
         \A key \in keys : key[1] = "z" => key = ZetKey(k, key[3])
  PROVE  /\ Formed(Over(v, Delete(keys)))
         /\ Holds(Over(v, Delete(keys))) =
              [Holds(v) EXCEPT !.scores = Promise!Without(Triples(v, "z"), k, MembersIn(keys))]
<1>7. PICK w : w = Delete(keys)
  OBVIOUS
<1>8. PICK X, gone : X = MembersIn(keys) /\ gone = {x \in keys : x[1] = "z"}
  OBVIOUS
<1>1. DOMAIN w = keys /\ \A key \in keys : w[key] = Gone
  BY <1>7 DEF Delete
<1>2. PICK o : o = Over(v, w)
  OBVIOUS
<1>3. Formed(o)
  BY <1>2, <1>7, FormedWithout
<1>4. Holds(o) = [Holds(v) EXCEPT !.scores = Triples(o, "z")]
  BY <1>1, <1>2, KindsChanged
<1>6. Triples(o, "z") = Promise!Without(Triples(v, "z"), k, X)
  <2>1. \A key \in Of(v, "z") : key = <<"z", key[2], key[3]>>
    BY FormedKeys
  <2>2. gone = {key \in DOMAIN w : key[1] = "z"}
    BY <1>1, <1>8
  <2>3. \A key \in gone : key = <<"z", k, key[3]>>
    BY <1>8 DEF ZetKey
  <2>4. X = {key[3] : key \in gone}
    BY <1>8 DEF MembersIn
  <2>5. \A key \in DOMAIN w : w[key] = Gone
    BY <1>1
  <2>6. Triples(Over(v, w), "z") = Promise!Without(Triples(v, "z"), k, X)
    BY <2>1, <2>2, <2>3, <2>4, <2>5, TriplesGone
  <2> QED BY <1>2, <2>6
<1> QED BY <1>2, <1>3, <1>4, <1>6, <1>7, <1>8

\* Zdel.
LEMMA ZdelExact ==
  ASSUME NEW v, Formed(v), NEW view, NEW k, NEW x,
         \A key \in zdel(view, k, x).reads : Alike(v, view, key)
  PROVE  Exact(v, Entry("zdel", k, x, zdel(view, k, x)), zdel(view, k, x))
<1>1. PICK e : e = zdel(view, k, x)
  OBVIOUS
<1>2. PICK r : r = Entry("zdel", k, x, e)
  OBVIOUS
<1>3. PICK score : score = Stored(view, ZetKey(k, x))
  OBVIOUS
<1>4. r.op = "zdel" /\ r.name = k /\ r.arg = x /\ r.ret = e.ret
  BY <1>2 DEF Entry
<1>5. e.reads = {ZetKey(k, x)}
  BY <1>1 DEF zdel, Answer, Effect
<1>6. score = Stored(v, ZetKey(k, x))
  BY <1>1, <1>3, <1>5 DEF Alike, Stored
<1>7. PICK s : s = Holds(v)
  OBVIOUS
<1>8. s.scores = Triples(v, "z")
  BY <1>7 DEF Holds
<1>9. Promise!Lookup(s.scores, <<k, x>>) = score
  <2>1. \A key \in Of(v, "z") : key = <<"z", key[2], key[3]>>
    BY FormedKeys
  <2> QED BY <1>6, <1>8, <2>1, LookupTriples DEF ZetKey
<1>10. Promise!Right(s, r) <=> (Promise!Failed(r) <=> score = NotExist)
  <2>1. Promise!Right(s, r) <=> (Promise!Failed(r) <=> Promise!Lookup(s.scores, <<r.name, r.arg>>) = NotExist)
    BY <1>4 DEF Promise!Right
  <2> QED BY <1>4, <1>9, <2>1
<1>11. CASE score = NotExist
  <2>1. e.writes = Nothing /\ e.ret = NotExist
    BY <1>1, <1>3, <1>11 DEF zdel, Answer, Effect
  <2>2. Promise!Failed(r)
    BY <1>4, <2>1 DEF Promise!Failed
  <2>3. Promise!NoEffect(r)
    BY <2>2 DEF Promise!NoEffect
  <2>4. Promise!Right(s, r)
    BY <1>10, <1>11, <2>2
  <2> QED BY <1>1, <1>2, <1>7, <2>1, <2>3, <2>4, ReadExact
<1>12. CASE score # NotExist
  <2>1. PICK keys : keys = {ZetKey(k, x), ZetScore(k, x, score)}
    OBVIOUS
  <2>2. e.writes = Delete(keys) /\ e.ret = "ok"
    BY <1>1, <1>3, <1>12, <2>1 DEF zdel, Effect
  <2>3. PICK a, b : a = ZetKey(k, x) /\ b = ZetScore(k, x, score)
    OBVIOUS
  <2>4. a[1] = "z" /\ a[3] = x /\ b[1] = "sz"
    BY <2>3, Kinds
  <2>5. keys = {a, b} /\ a = ZetKey(k, a[3])
    BY <2>1, <2>3, <2>4
  <2>6. PICK X : X = {x}
    OBVIOUS
  <2>15. PICK gone : gone = {key \in keys : key[1] = "z"}
    OBVIOUS
  <2>7. X = {key[3] : key \in gone}
    <3>1. gone = {a}
      BY <2>4, <2>5, <2>15
    <3> QED BY <2>4, <2>6, <3>1
  <2>8. PICK o : o = Over(v, e.writes)
    OBVIOUS
  <2>9. /\ \A key \in keys : key[1] \in {"z", "sz"}
        /\ \A key \in keys : key[1] = "z" => key = ZetKey(k, key[3])
    BY <2>4, <2>5
  <2>10. Formed(o) /\ Holds(o) = [s EXCEPT !.scores = Promise!Without(Triples(v, "z"), k, X)]
    <3>1. X = MembersIn(keys)
      BY <2>7, <2>15 DEF MembersIn
    <3>2. /\ Formed(Over(v, Delete(keys)))
          /\ Holds(Over(v, Delete(keys))) =
               [Holds(v) EXCEPT !.scores = Promise!Without(Triples(v, "z"), k, MembersIn(keys))]
      BY <2>9, ScoresGone
    <3> QED BY <1>7, <2>2, <2>8, <3>1, <3>2
  <2>11. ~Promise!NoEffect(r) /\ ~Promise!Failed(r)
    <3>1. r.ret = "ok"
      BY <1>4, <2>2
    <3>2. ~Promise!NoEffect(r)
      BY <1>4, <3>1, Succeeds
    <3> QED BY <3>2 DEF Promise!NoEffect
  <2>12. Promise!After(s, r) = Holds(o)
    <3>1. PICK Z : Z = Promise!Without(Triples(v, "z"), k, X)
      OBVIOUS
    <3>2. r.op = "zdel" /\ Z = Promise!Without(s.scores, r.name, {r.arg})
      BY <1>4, <1>8, <2>6, <3>1
    <3>3. ~Promise!NoEffect(r)
      BY <2>11
    <3>4. Promise!After(s, r) = [s EXCEPT !.scores = Z]
      BY <3>2, <3>3, AfterScores
    <3> QED BY <2>10, <3>1, <3>4
  <2>13. Promise!Right(s, r)
    BY <1>10, <1>12, <2>11
  <2>14. e.writes # Nothing
    BY <2>2, <2>5 DEF Delete, Nothing
  <2> QED BY <1>1, <1>2, <1>7, <2>8, <2>10, <2>12, <2>13, <2>14 DEF Exact
<1> QED BY <1>11, <1>12

\* Zclear.
LEMMA ZclearExact ==
  ASSUME NEW v, Formed(v), NEW view, NEW k,
         \A key \in zclear(view, k).reads : Alike(v, view, key)
  PROVE  Exact(v, Entry("zclear", k, "", zclear(view, k)), zclear(view, k))
<1>1. PICK e : e = zclear(view, k)
  OBVIOUS
<1>2. PICK r : r = Entry("zclear", k, "", e)
  OBVIOUS
<1>3. PICK at : at = ScoreKeysOf(view, k)
  OBVIOUS
<1>4. PICK keys : keys = at \cup {ZetKey(k, key[4]) : key \in at}
  OBVIOUS
<1>5. /\ e.ret = {key[4] : key \in at} /\ e.writes = Delete(keys) /\ e.reads = at
      /\ r.op = "zclear" /\ r.name = k /\ r.ret = e.ret
  BY <1>1, <1>2, <1>3, <1>4 DEF zclear, Effect, Entry
<1>6. \A key \in at : key[1] = "sz" /\ key[4] \in Values
  <2>1. ASSUME NEW key \in at PROVE key[1] = "sz" /\ key[4] \in Values
    <3>1. key \in DOMAIN view /\ key[1] = "sz"
      BY <1>3 DEF ScoreKeysOf
    <3>2. key \in DOMAIN v
      BY <1>1, <1>5, <3>1 DEF Alike
    <3>3. Fit(key, v[key])
      BY <3>2 DEF Formed
    <3> QED BY <3>1, <3>3 DEF Fit
  <2> QED BY <2>1
<1>7. PICK s : s = Holds(v)
  OBVIOUS
<1>8. s.scores = Triples(v, "z") /\ (Promise!NoEffect(r) <=> at = {})
  <2>1. r.ret \in SUBSET Values
    BY <1>5, <1>6
  <2>2. r.ret = {} <=> at = {}
    BY <1>5
  <2> QED BY <1>5, <1>7, <2>1, <2>2, Clears DEF Holds
<1>9. Promise!Right(s, r)
  BY <1>5, RightIs
<1>10. CASE at = {}
  <2>1. e.writes = Nothing
    BY <1>4, <1>5, <1>10 DEF Delete, Nothing
  <2>2. Promise!NoEffect(r)
    BY <1>8, <1>10
  <2> QED BY <1>1, <1>2, <1>7, <1>9, <2>1, <2>2, ReadExact
<1>11. CASE at # {}
  <2>1. PICK X : X = r.ret
    OBVIOUS
  <2>2. \A x : ZetKey(k, x)[1] = "z" /\ ZetKey(k, x)[3] = x
    BY Kinds
  <2>3. \A key \in keys : key[1] = "z" <=> \E old \in at : key = ZetKey(k, old[4])
    BY <1>4, <1>6, <2>2
  <2>15. PICK gone : gone = {key \in keys : key[1] = "z"}
    OBVIOUS
  <2>4. X = {key[3] : key \in gone}
    <3>1. \A x \in X : \E key \in gone : x = key[3]
      <4>1. ASSUME NEW old \in at PROVE \E key \in gone : old[4] = key[3]
        <5>1. PICK key : key = ZetKey(k, old[4])
          OBVIOUS
        <5>2. key[1] = "z" /\ key[3] = old[4]
          BY <2>2, <5>1
        <5>3. key \in gone
          BY <1>4, <2>15, <5>1, <5>2
        <5> QED BY <5>2, <5>3
      <4> QED BY <1>5, <2>1, <4>1
    <3>2. \A key \in gone : key[3] \in X
      <4>1. ASSUME NEW key \in gone PROVE key[3] \in X
        <5>1. PICK old \in at : key = ZetKey(k, old[4])
          BY <2>3, <2>15
        <5> QED BY <1>5, <2>1, <2>2, <5>1
      <4> QED BY <4>1
    <3> QED BY <3>1, <3>2
  <2>5. /\ \A key \in keys : key[1] \in {"z", "sz"}
        /\ \A key \in keys : key[1] = "z" => key = ZetKey(k, key[3])
    <3>1. \A key \in keys : key \in at \/ \E old \in at : key = ZetKey(k, old[4])
      BY <1>4
    <3>2. ASSUME NEW key \in keys, key \in at PROVE key[1] = "sz"
      BY <1>6, <3>2
    <3>3. ASSUME NEW key \in keys, NEW old \in at, key = ZetKey(k, old[4])
          PROVE  key[1] = "z" /\ key = ZetKey(k, key[3])
      <4>1. key[1] = "z" /\ key[3] = old[4]
        BY <2>2, <3>3
      <4> QED BY <3>3, <4>1
    <3> QED BY <3>1, <3>2, <3>3
  <2>8. PICK o : o = Over(v, e.writes)
    OBVIOUS
  <2>10. Formed(o) /\ Holds(o) = [s EXCEPT !.scores = Promise!Without(Triples(v, "z"), k, X)]
    <3>1. X = MembersIn(keys)
      BY <2>4, <2>15 DEF MembersIn
    <3>2. /\ Formed(Over(v, Delete(keys)))
          /\ Holds(Over(v, Delete(keys))) =
               [Holds(v) EXCEPT !.scores = Promise!Without(Triples(v, "z"), k, MembersIn(keys))]
      BY <2>5, ScoresGone
    <3> QED BY <1>7, <1>5, <2>8, <3>1, <3>2
  <2>12. Promise!After(s, r) = Holds(o)
    <3>1. PICK Z : Z = Promise!Without(Triples(v, "z"), k, X)
      OBVIOUS
    <3>2. r.op = "zclear" /\ Z = Promise!Without(s.scores, r.name, r.ret)
      BY <1>5, <1>8, <2>1, <3>1
    <3>3. ~Promise!NoEffect(r)
      BY <1>8, <1>11
    <3>4. Promise!After(s, r) = [s EXCEPT !.scores = Z]
      BY <3>2, <3>3, AfterScores
    <3> QED BY <2>10, <3>1, <3>4
  <2>14. e.writes # Nothing
    BY <1>4, <1>5, <1>11 DEF Delete, Nothing
  <2> QED BY <1>1, <1>2, <1>7, <1>9, <2>8, <2>10, <2>12, <2>14 DEF Exact
<1> QED BY <1>10, <1>11

\* Keys of list k.
KeyOfList(k, key) == key = ListMetaKey(k) \/ \E i \in Int : key = ListKey(k, i)

\* Writes of a list's keys that fit leave every key fitting its value.
LEMMA FitsList ==
  ASSUME NEW k, NEW i, NEW y
  PROVE  /\ Fit(ListMetaKey(k), y)
         /\ y \in Values => Fit(ListKey(k, i), y)
<1>1. Fit(ListMetaKey(k), y)
  <2>1. PICK key : key = ListMetaKey(k)
    OBVIOUS
  <2>2. key[1] = "l"
    BY <2>1, Kinds
  <2>3. \A j, n : key # ListKey(j, n)
    BY <2>1, KeysDiffer
  <2> QED BY <2>1, <2>2, <2>3 DEF Fit
<1>2. ASSUME y \in Values PROVE Fit(ListKey(k, i), y)
  <2>1. PICK key : key = ListKey(k, i)
    OBVIOUS
  <2>2. key[1] = "l"
    BY <2>1, Kinds
  <2> QED BY <1>2, <2>1, <2>2 DEF Fit
<1> QED BY <1>1, <1>2

\* What is written to one list changes only that.
LEMMA ListWritten ==
  ASSUME NEW v, Formed(v), NEW k \in Names, NEW e, Careful(v, e),
         \A key \in DOMAIN e.writes :
           KeyOfList(k, key) /\ (e.writes[key] # Gone => Fit(key, e.writes[key]))
  PROVE  /\ Formed(Over(v, e.writes))
         /\ Holds(Over(v, e.writes)) =
              [Holds(v) EXCEPT !.lists = [ListsOf(v) EXCEPT ![k] = ListIn(Over(v, e.writes), k)]]
<1>1. PICK w : w = e.writes
  OBVIOUS
<1>2. PICK o : o = Over(v, w)
  OBVIOUS
<1>3. Whole(o)
  BY <1>1, <1>2 DEF Careful
<1>4. Formed(o)
  <2>1. \A key \in DOMAIN w : w[key] # Gone => Fit(key, w[key])
    BY <1>1
  <2> QED BY <1>2, <1>3, <2>1, FormedOver
<1>5. \A key \in DOMAIN w : key[1] = "l"
  <2>1. ASSUME NEW key \in DOMAIN w PROVE key[1] = "l"
    <3>1. KeyOfList(k, key)
      BY <1>1
    <3> QED BY <3>1, Kinds DEF KeyOfList
  <2> QED BY <2>1
<1>6. Holds(o) = [Holds(v) EXCEPT !.lists = ListsOf(o)]
  BY <1>2, <1>5, KindsChanged
<1>7. \A j \in Names \ {k} : /\ Alike(o, v, ListMetaKey(j))
                             /\ \A i \in Int : Alike(o, v, ListKey(j, i))
  <2>1. ASSUME NEW j \in Names \ {k}
        PROVE  /\ ListMetaKey(j) \notin DOMAIN w
               /\ \A i \in Int : ListKey(j, i) \notin DOMAIN w
    <3>1. ~KeyOfList(k, ListMetaKey(j)) /\ \A i \in Int : ~KeyOfList(k, ListKey(j, i))
      BY KeysDiffer DEF KeyOfList
    <3> QED BY <1>1, <3>1
  <2>2. \A key : key \notin DOMAIN w => Alike(o, v, key)
    BY <1>2, OverWrites
  <2> QED BY <2>1, <2>2
<1>8. PICK x : x = ListIn(o, k)
  OBVIOUS
<1>9. ListsOf(o) = [ListsOf(v) EXCEPT ![k] = x]
  BY <1>3, <1>7, <1>8, ListsSet
<1> QED BY <1>1, <1>2, <1>4, <1>6, <1>8, <1>9

\* What an operation is promised to make of a list.
Made(r, list, X) ==
  \/ r.op = "llpush" /\ X = <<r.arg>> \o list
  \/ r.op = "lrpush" /\ X = Append(list, r.arg)
  \/ r.op = "llpop" /\ X = Tail(list)
  \/ r.op = "lrpop" /\ X = Front(list)
  \/ r.op = "lclear" /\ X = <<>>
  \/ /\ r.op = "lset"
     /\ r.ret \in DOMAIN list => X = [list EXCEPT ![r.ret] = r.arg]
     /\ r.ret \notin DOMAIN list => X = list

\* The promise of lists.
LEMMA AfterLists ==
  ASSUME NEW s, NEW r, ~Promise!NoEffect(r), NEW X, Made(r, s.lists[r.name], X)
  PROVE  Promise!After(s, r) = [s EXCEPT !.lists = [s.lists EXCEPT ![r.name] = X]]
<1>1. CASE r.op = "llpush"
  BY <1>1 DEF Promise!After, Made
<1>2. CASE r.op = "lrpush"
  BY <1>2 DEF Promise!After, Made
<1>3. CASE r.op = "llpop"
  BY <1>3 DEF Promise!After, Made
<1>4. CASE r.op = "lrpop"
  BY <1>4 DEF Promise!After, Front, Promise!Front, Made
<1>5. CASE r.op = "lclear"
  BY <1>5 DEF Promise!After, Made
<1>6. CASE r.op = "lset"
  <2>1. CASE r.ret \in DOMAIN s.lists[r.name]
    BY <1>6, <2>1 DEF Promise!After, Made
  <2>2. CASE r.ret \notin DOMAIN s.lists[r.name]
    BY <1>6, <2>2 DEF Promise!After, Made
  <2> QED BY <2>1, <2>2
<1> QED BY <1>1, <1>2, <1>3, <1>4, <1>5, <1>6 DEF Made

\* The operations of the store and of the promise look at the same list.
LEMMA ListHeld ==
  ASSUME NEW v, NEW k \in Names
  PROVE  Holds(v).lists = ListsOf(v) /\ Holds(v).lists[k] = ListIn(v, k)
  BY DEF Holds, ListsOf

\* An operation that changes list k as promised.
LEMMA ListExact ==
  ASSUME NEW v, Formed(v), NEW k \in Names, NEW e, Careful(v, e),
         \A key \in DOMAIN e.writes :
           KeyOfList(k, key) /\ (e.writes[key] # Gone => Fit(key, e.writes[key])),
         e.writes # Nothing,
         NEW r, r.name = k, ~Promise!NoEffect(r), Promise!Right(Holds(v), r),
         Made(r, ListIn(v, k), ListIn(Over(v, e.writes), k))
  PROVE  Exact(v, r, e)
<1>1. PICK s, o, X, l : s = Holds(v) /\ o = Over(v, e.writes) /\ X = ListIn(o, k) /\ l = ListIn(v, k)
  OBVIOUS
<1>2. s.lists = ListsOf(v) /\ s.lists[r.name] = l
  BY <1>1, ListHeld
<1>3. Made(r, s.lists[r.name], X)
  BY <1>1, <1>2
<1>4. Promise!After(s, r) = [s EXCEPT !.lists = [s.lists EXCEPT ![r.name] = X]]
  BY <1>3, AfterLists
<1>5. Formed(o) /\ Holds(o) = [s EXCEPT !.lists = [ListsOf(v) EXCEPT ![k] = X]]
  BY <1>1, ListWritten
<1>6. PICK f : f = [ListsOf(v) EXCEPT ![k] = X]
  OBVIOUS
<1>7. f = [s.lists EXCEPT ![r.name] = X]
  <2>1. r.name = k /\ s.lists = ListsOf(v)
    BY <1>2
  <2> QED BY <1>6, <2>1
<1>8. Holds(o) = [s EXCEPT !.lists = f]
  BY <1>5, <1>6
<1>9. Promise!After(s, r) = [s EXCEPT !.lists = f]
  BY <1>4, <1>7
<1> QED BY <1>1, <1>5, <1>8, <1>9 DEF Exact

\* The ends of a list are its meta key's.
LEMMA SameEnds ==
  ASSUME NEW v, NEW view, NEW k, Alike(v, view, ListMetaKey(k))
  PROVE  /\ listStartEnd(view, k) = listStartEnd(v, k)
         /\ Listed(view, k) <=> Listed(v, k)
  BY DEF Alike, listStartEnd, Listed

\* What fails on lists changes nothing.
LEMMA ListFails ==
  ASSUME NEW v, Formed(v), NEW r, NEW e, e.writes = Nothing, r.ret \in {NotExist, OutOfSize},
         \/ r.op \in {"lclear", "lset"}
         \/ r.op \in {"llpop", "lrpop"} /\ Holds(v).lists[r.name] = <<>>
  PROVE  Exact(v, r, e)
<1>1. Promise!Failed(r)
  BY DEF Promise!Failed
<1>2. Promise!NoEffect(r)
  BY <1>1 DEF Promise!NoEffect
<1>3. Promise!Right(Holds(v), r)
  <2>1. CASE r.op \in {"lclear", "lset"}
    BY <2>1, RightIs
  <2>2. CASE r.op = "llpop"
    BY <1>1, <2>2 DEF Promise!Right
  <2>3. CASE r.op = "lrpop"
    BY <1>1, <2>3 DEF Promise!Right
  <2> QED BY <2>1, <2>2, <2>3
<1> QED BY <1>2, <1>3, ReadExact

\* An operation that is no error (ErrorAssumption) and writes.
LEMMA Effective ==
  ASSUME NEW r, r.op \in {"llpush", "lrpush", "llpop", "lrpop", "lset", "lclear"},
         r.ret \in Int \/ r.ret \in Values \/ r.ret = "ok"
  PROVE  ~Promise!NoEffect(r) /\ ~Promise!Failed(r)
<1>1. r.ret \notin {NotExist, OutOfSize}
  BY ErrorAssumption, StoreAssumption DEF Errors
<1> QED BY <1>1 DEF Promise!NoEffect, Promise!Failed, Promise!PointReads, Promise!RangeReads

\* Llen.
LEMMA LlenExact ==
  ASSUME NEW v, Formed(v), NEW view, NEW k \in Names,
         \A key \in llen(view, k).reads : Alike(v, view, key)
  PROVE  Exact(v, Entry("llen", k, "", llen(view, k)), llen(view, k))
<1>1. PICK e : e = llen(view, k)
  OBVIOUS
<1>2. PICK r : r = Entry("llen", k, "", e)
  OBVIOUS
<1>3. PICK start, end : listStartEnd(v, k) = <<start, end>>
  BY EndsOf DEF Formed
<1>4. e.reads = {ListMetaKey(k)} /\ e.writes = Nothing
  BY <1>1 DEF llen, Answer, Effect
<1>5. listStartEnd(view, k) = <<start, end>>
  BY <1>1, <1>3, <1>4, SameEnds
<1>6. e.ret = end - start
  BY <1>1, <1>5 DEF llen, Answer, Effect
<1>7. PICK s : s = Holds(v)
  OBVIOUS
<1>8. s.lists[k] = ListIn(v, k) /\ Len(ListIn(v, k)) = end - start
  BY <1>3, <1>7, ListHeld, ListElement
<1>9. r.op = "llen" /\ r.ret = Len(s.lists[r.name])
  <2>1. r.op = "llen" /\ r.name = k /\ r.ret = e.ret
    BY <1>2 DEF Entry
  <2> QED BY <1>6, <1>8, <2>1
<1>10. Promise!NoEffect(r) /\ Promise!Right(s, r)
  BY <1>9, PointRight
<1> QED BY <1>1, <1>2, <1>4, <1>7, <1>10, ReadExact

\* What a push writes.
Pushed(k, i, x, start, end) == Amend(Put(ListKey(k, i), x), SetEnds(k, start, end))

\* The writes of a push.
LEMMA PushWrites ==
  ASSUME NEW v, NEW k, NEW i, NEW x, NEW start, NEW end,
         i \in Int, x \in Values, start \in Int, end \in Int,
         NEW w, w = Pushed(k, i, x, start, end), NEW o, o = Over(v, w)
  PROVE  /\ \A key \in DOMAIN w : KeyOfList(k, key) /\ (w[key] # Gone => Fit(key, w[key]))
         /\ w # Nothing
         /\ listStartEnd(o, k) = <<start, end>>
         /\ o[ListKey(k, i)] = x
         /\ \A key : key # ListKey(k, i) /\ key # ListMetaKey(k) => Alike(o, v, key)
<1>1. PICK a, b : a = ListKey(k, i) /\ b = ListMetaKey(k)
  OBVIOUS
<1>2. a # b
  BY <1>1, KeysDiffer
<1>3. w = Amend(Put(a, x), Put(b, <<start, end>>))
  BY <1>1 DEF SetEnds, Pushed
<1>4. DOMAIN w = {a, b} /\ w[a] = x /\ w[b] = <<start, end>>
  BY <1>2, <1>3 DEF Amend, Put
<1>5. x # Gone /\ <<start, end>> # Gone
  BY StoreAssumption
<1>6. Fit(a, x) /\ Fit(b, <<start, end>>)
  BY <1>1, FitsList
<1>7. \A key \in DOMAIN w : KeyOfList(k, key) /\ (w[key] # Gone => Fit(key, w[key]))
  BY <1>1, <1>4, <1>6 DEF KeyOfList
<1>8. w # Nothing
  BY <1>4 DEF Nothing
<1>9. /\ b \in DOMAIN o /\ o[b] = <<start, end>> /\ o[a] = x
      /\ \A key : key # a /\ key # b => Alike(o, v, key)
  BY <1>4, <1>5, OverWrites
<1>10. listStartEnd(o, k) = <<start, end>>
  BY <1>1, <1>9 DEF listStartEnd
<1> QED BY <1>1, <1>7, <1>8, <1>9, <1>10

\* The elements that a write leaves.
LEMMA ElementsStay ==
  ASSUME NEW v, NEW o, NEW k \in Names, Formed(v), NEW start, NEW end, listStartEnd(v, k) = <<start, end>>,
         NEW at, \A key : key # ListKey(k, at) /\ key # ListMetaKey(k) => Alike(o, v, key)
  PROVE  \A i \in start .. end - 1 : i # at => o[ListKey(k, i)] = v[ListKey(k, i)]
<1> SUFFICES ASSUME NEW i \in start .. end - 1, i # at
             PROVE  o[ListKey(k, i)] = v[ListKey(k, i)]
  OBVIOUS
<1>1. PICK key : key = ListKey(k, i)
  OBVIOUS
<1>2. key # ListKey(k, at) /\ key # ListMetaKey(k)
  BY <1>1, KeysDiffer
<1>3. key \in DOMAIN v
  BY <1>1, ListElement, SMTT(30)
<1> QED BY <1>1, <1>2, <1>3 DEF Alike

\* Llpush.
LEMMA LlpushExact ==
  ASSUME NEW v, Formed(v), NEW view, NEW k \in Names, NEW x \in Values,
         \A key \in llpush(view, k, x).reads : Alike(v, view, key)
  PROVE  Exact(v, Entry("llpush", k, x, llpush(view, k, x)), llpush(view, k, x))
<1>1. PICK e : e = llpush(view, k, x)
  OBVIOUS
<1>2. PICK r : r = Entry("llpush", k, x, e)
  OBVIOUS
<1>3. PICK start, end : listStartEnd(v, k) = <<start, end>>
  BY EndsOf DEF Formed
<1>4. start \in Int /\ end \in Int /\ start <= end
  BY <1>3, ListElement
<1>5. ListMetaKey(k) \in e.reads
  BY <1>1 DEF llpush, Answer, Effect
<1>6. listStartEnd(view, k) = <<start, end>>
  BY <1>1, <1>3, <1>5, SameEnds
<1>7. PICK w : w = Pushed(k, start - 1, x, start - 1, end)
  OBVIOUS
<1>8. e = Effect({ListMetaKey(k)}, w, end - start + 1)
  <2>1. start - 1 # end
    BY <1>4
  <2> QED BY <1>1, <1>6, <1>7, <2>1 DEF llpush, Pushed
<1>9. e.writes = w /\ e.ret = end - start + 1
  BY <1>8 DEF Effect
<1>10. e = llpush(v, k, x)
  BY <1>1, <1>3, <1>6 DEF llpush
<1>11. Careful(v, e)
  BY <1>10, PushIsCareful DEF Formed
<1>12. PICK o : o = Over(v, w)
  OBVIOUS
<1>13. start - 1 \in Int
  BY <1>4
<1>14. /\ \A key \in DOMAIN w : KeyOfList(k, key) /\ (w[key] # Gone => Fit(key, w[key]))
       /\ w # Nothing
       /\ listStartEnd(o, k) = <<start - 1, end>>
       /\ o[ListKey(k, start - 1)] = x
       /\ \A key : key # ListKey(k, start - 1) /\ key # ListMetaKey(k) => Alike(o, v, key)
  <2>1. PICK new : new = start - 1
    OBVIOUS
  <2>2. new \in Int /\ w = Pushed(k, new, x, new, end)
    BY <1>7, <1>13, <2>1
  <2>3. /\ \A key \in DOMAIN w : KeyOfList(k, key) /\ (w[key] # Gone => Fit(key, w[key]))
        /\ w # Nothing
        /\ listStartEnd(o, k) = <<new, end>>
        /\ o[ListKey(k, new)] = x
        /\ \A key : key # ListKey(k, new) /\ key # ListMetaKey(k) => Alike(o, v, key)
    BY <1>4, <1>12, <2>2, PushWrites
  <2> QED BY <2>1, <2>3
<1>15. \A i \in start .. end - 1 : o[ListKey(k, i)] = v[ListKey(k, i)]
  <2>1. \A i \in start .. end - 1 : i # start - 1
    BY <1>4
  <2> QED BY <1>3, <1>14, <2>1, ElementsStay
<1>16. Formed(o)
  BY <1>9, <1>11, <1>12, <1>14, ListWritten
<1>17. ListIn(o, k) = <<x>> \o ListIn(v, k)
  BY <1>3, <1>14, <1>15, <1>16, LeftPushed
<1>18. PICK s : s = Holds(v)
  OBVIOUS
<1>19. s.lists = ListsOf(v) /\ s.lists[k] = ListIn(v, k) /\ Len(ListIn(v, k)) = end - start
  BY <1>3, <1>18, ListHeld, ListElement
<1>20. r.op = "llpush" /\ r.name = k /\ r.arg = x /\ r.ret = e.ret
  BY <1>2 DEF Entry
<1>21. ~Promise!NoEffect(r)
  <2>1. r.ret \in Int
    BY <1>4, <1>9, <1>20
  <2> QED BY <1>20, <2>1, Effective
<1>22. Promise!Right(s, r)
  <2>1. r.ret = Len(s.lists[r.name]) + 1
    BY <1>9, <1>19, <1>20
  <2> QED BY <1>20, <2>1 DEF Promise!Right
<1>23. Made(r, ListIn(v, k), ListIn(o, k))
  BY <1>17, <1>20 DEF Made
<1> QED BY <1>1, <1>2, <1>9, <1>11, <1>12, <1>14, <1>18, <1>20, <1>21, <1>22, <1>23, ListExact

\* Lrpush.
LEMMA LrpushExact ==
  ASSUME NEW v, Formed(v), NEW view, NEW k \in Names, NEW x \in Values,
         \A key \in lrpush(view, k, x).reads : Alike(v, view, key)
  PROVE  Exact(v, Entry("lrpush", k, x, lrpush(view, k, x)), lrpush(view, k, x))
<1>1. PICK e : e = lrpush(view, k, x)
  OBVIOUS
<1>2. PICK r : r = Entry("lrpush", k, x, e)
  OBVIOUS
<1>3. PICK start, end : listStartEnd(v, k) = <<start, end>>
  BY EndsOf DEF Formed
<1>4. start \in Int /\ end \in Int /\ start <= end
  BY <1>3, ListElement
<1>5. ListMetaKey(k) \in e.reads
  BY <1>1 DEF lrpush, Answer, Effect
<1>6. listStartEnd(view, k) = <<start, end>>
  BY <1>1, <1>3, <1>5, SameEnds
<1>7. PICK w : w = Pushed(k, end, x, start, end + 1)
  OBVIOUS
<1>8. e = Effect({ListMetaKey(k)}, w, end - start + 1)
  <2>1. start # end + 1
    BY <1>4
  <2> QED BY <1>1, <1>6, <1>7, <2>1 DEF lrpush, Pushed
<1>9. e.writes = w /\ e.ret = end - start + 1
  BY <1>8 DEF Effect
<1>10. e = lrpush(v, k, x)
  BY <1>1, <1>3, <1>6 DEF lrpush
<1>11. Careful(v, e)
  BY <1>10, PushIsCareful DEF Formed
<1>12. PICK o : o = Over(v, w)
  OBVIOUS
<1>13. end + 1 \in Int
  BY <1>4
<1>14. /\ \A key \in DOMAIN w : KeyOfList(k, key) /\ (w[key] # Gone => Fit(key, w[key]))
       /\ w # Nothing
       /\ listStartEnd(o, k) = <<start, end + 1>>
       /\ o[ListKey(k, end)] = x
       /\ \A key : key # ListKey(k, end) /\ key # ListMetaKey(k) => Alike(o, v, key)
  <2>1. PICK new : new = end + 1
    OBVIOUS
  <2>2. new \in Int /\ w = Pushed(k, end, x, start, new)
    BY <1>7, <1>13, <2>1
  <2>3. /\ \A key \in DOMAIN w : KeyOfList(k, key) /\ (w[key] # Gone => Fit(key, w[key]))
        /\ w # Nothing
        /\ listStartEnd(o, k) = <<start, new>>
        /\ o[ListKey(k, end)] = x
        /\ \A key : key # ListKey(k, end) /\ key # ListMetaKey(k) => Alike(o, v, key)
    <3>1. PICK i, j : i = end /\ j = start
      OBVIOUS
    <3>2. i \in Int /\ j \in Int /\ w = Pushed(k, i, x, j, new) /\ new \in Int
      BY <1>4, <2>2, <3>1
    <3>3. /\ \A key \in DOMAIN w : KeyOfList(k, key) /\ (w[key] # Gone => Fit(key, w[key]))
          /\ w # Nothing
          /\ listStartEnd(o, k) = <<j, new>>
          /\ o[ListKey(k, i)] = x
          /\ \A key : key # ListKey(k, i) /\ key # ListMetaKey(k) => Alike(o, v, key)
      BY <1>12, <3>2, PushWrites
    <3> QED BY <3>1, <3>3
  <2> QED BY <2>1, <2>3
<1>15. \A i \in start .. end - 1 : o[ListKey(k, i)] = v[ListKey(k, i)]
  <2>1. \A i \in start .. end - 1 : i # end
    BY <1>4
  <2> QED BY <1>3, <1>14, <2>1, ElementsStay
<1>16. Formed(o)
  BY <1>9, <1>11, <1>12, <1>14, ListWritten
<1>17. ListIn(o, k) = Append(ListIn(v, k), x)
  BY <1>3, <1>14, <1>15, <1>16, RightPushed
<1>18. PICK s : s = Holds(v)
  OBVIOUS
<1>19. s.lists = ListsOf(v) /\ s.lists[k] = ListIn(v, k) /\ Len(ListIn(v, k)) = end - start
  BY <1>3, <1>18, ListHeld, ListElement
<1>20. r.op = "lrpush" /\ r.name = k /\ r.arg = x /\ r.ret = e.ret
  BY <1>2 DEF Entry
<1>21. ~Promise!NoEffect(r)
  <2>1. r.ret \in Int
    BY <1>4, <1>9, <1>20
  <2> QED BY <1>20, <2>1, Effective
<1>22. Promise!Right(s, r)
  <2>1. r.ret = Len(s.lists[r.name]) + 1
    BY <1>9, <1>19, <1>20
  <2> QED BY <1>20, <2>1 DEF Promise!Right
<1>23. Made(r, ListIn(v, k), ListIn(o, k))
  BY <1>17, <1>20 DEF Made
<1> QED BY <1>1, <1>2, <1>9, <1>11, <1>12, <1>14, <1>18, <1>20, <1>21, <1>22, <1>23, ListExact
\* The writes of a pop.
LEMMA PopWrites ==
  ASSUME NEW v, NEW k, NEW start \in Int, NEW end \in Int, NEW w,
         w = SetEnds(k, start, end), NEW o, o = Over(v, w)
  PROVE  /\ \A key \in DOMAIN w : KeyOfList(k, key) /\ (w[key] # Gone => Fit(key, w[key]))
         /\ w # Nothing
         /\ listStartEnd(o, k) = <<start, end>>
         /\ \A key : key # ListMetaKey(k) => Alike(o, v, key)
<1>1. PICK b : b = ListMetaKey(k)
  OBVIOUS
<1>2. DOMAIN w = {b} /\ w[b] = <<start, end>>
  BY <1>1 DEF SetEnds, Put
<1>3. <<start, end>> # Gone
  BY StoreAssumption
<1>4. Fit(b, <<start, end>>)
  BY <1>1, FitsList
<1>5. \A key \in DOMAIN w : KeyOfList(k, key) /\ (w[key] # Gone => Fit(key, w[key]))
  BY <1>1, <1>2, <1>4 DEF KeyOfList
<1>6. w # Nothing
  BY <1>2 DEF Nothing
<1>7. b \in DOMAIN o /\ o[b] = <<start, end>> /\ \A key : key # b => Alike(o, v, key)
  BY <1>2, <1>3, OverWrites
<1>8. listStartEnd(o, k) = <<start, end>>
  BY <1>1, <1>7 DEF listStartEnd
<1> QED BY <1>1, <1>5, <1>6, <1>7, <1>8

\* Llpop.
LEMMA LlpopExact ==
  ASSUME NEW v, Formed(v), NEW view, NEW k \in Names,
         \A key \in llpop(view, k).reads : Alike(v, view, key)
  PROVE  Exact(v, Entry("llpop", k, "", llpop(view, k)), llpop(view, k))
<1>1. PICK e : e = llpop(view, k)
  OBVIOUS
<1>2. PICK r : r = Entry("llpop", k, "", e)
  OBVIOUS
<1>3. PICK start, end : listStartEnd(v, k) = <<start, end>>
  BY EndsOf DEF Formed
<1>4. /\ start \in Int /\ end \in Int /\ start <= end
      /\ \A i \in start .. end - 1 : ListKey(k, i) \in DOMAIN v /\ v[ListKey(k, i)] \in Values
  BY <1>3, ListElement
<1>5. ListMetaKey(k) \in e.reads
  BY <1>1 DEF llpop, Pop, Answer, Effect
<1>6. listStartEnd(view, k) = <<start, end>> /\ (Listed(view, k) <=> Listed(v, k))
  BY <1>1, <1>3, <1>5, SameEnds
<1>7. PICK at, left, right : at = start /\ left = start + 1 /\ right = end
  OBVIOUS
<1>8. e = Pop(view, k, at, left, right)
  BY <1>1, <1>6, <1>7 DEF llpop
<1>9. e = Pop(v, k, at, left, right)
  <2>1. CASE ~Listed(view, k) \/ start = end
    BY <1>3, <1>6, <1>8, <2>1 DEF Pop
  <2>2. CASE Listed(view, k) /\ start # end
    <3>1. ListKey(k, at) \in e.reads
      BY <1>6, <1>8, <2>2 DEF Pop, Answer, Effect
    <3>2. Alike(v, view, ListKey(k, at))
      BY <1>1, <3>1
    <3>3. /\ ListKey(k, at) \in DOMAIN view <=> ListKey(k, at) \in DOMAIN v
          /\ ListKey(k, at) \in DOMAIN view => view[ListKey(k, at)] = v[ListKey(k, at)]
      BY <3>2 DEF Alike
    <3> QED BY <1>3, <1>6, <1>8, <3>3 DEF Pop
  <2> QED BY <2>1, <2>2
<1>10. e = llpop(v, k)
  BY <1>3, <1>7, <1>9 DEF llpop
<1>11. Careful(v, e)
  BY <1>10, PopIsCareful DEF Formed
<1>18. PICK s : s = Holds(v)
  OBVIOUS
<1>19. s.lists[k] = ListIn(v, k)
  BY <1>18, ListHeld
<1>20. r.op = "llpop" /\ r.name = k /\ r.ret = e.ret
  BY <1>2 DEF Entry
<1>21. CASE ~Listed(v, k) \/ start = end
  <2>1. start = end
    <3>1. CASE ~Listed(v, k)
      <4>1. listStartEnd(v, k) = <<0, 0>>
        BY <3>1 DEF Listed, listStartEnd
      <4> QED BY <1>3, <4>1
    <3> QED BY <1>21, <3>1
  <2>2. e.writes = Nothing /\ e.ret \in {NotExist, OutOfSize}
    BY <1>3, <1>9, <1>21 DEF Pop, Answer, Effect
  <2>3. s.lists[r.name] = <<>>
    BY <1>3, <1>19, <1>20, <2>1, ListEnds
  <2> QED BY <1>1, <1>2, <1>18, <1>20, <2>2, <2>3, ListFails
<1>22. CASE Listed(v, k) /\ start # end
  <2>1. at \in start .. end - 1 /\ left \in Int /\ right \in Int
    BY <1>4, <1>7, <1>22
  <2>2. ListKey(k, at) \in DOMAIN v /\ v[ListKey(k, at)] \in Values
    BY <1>4, <2>1
  <2>3. e.writes = SetEnds(k, left, right) /\ e.ret = v[ListKey(k, at)]
    BY <1>3, <1>9, <1>22, <2>2 DEF Pop, Effect
  <2>4. PICK w, o : w = e.writes /\ o = Over(v, w)
    OBVIOUS
  <2>5. /\ \A key \in DOMAIN w : KeyOfList(k, key) /\ (w[key] # Gone => Fit(key, w[key]))
        /\ w # Nothing
        /\ listStartEnd(o, k) = <<left, right>>
        /\ \A key : key # ListMetaKey(k) => Alike(o, v, key)
    BY <2>1, <2>3, <2>4, PopWrites
  <2>6. Formed(o)
    BY <1>11, <2>4, <2>5, ListWritten
  <2>7. \A i \in start .. end - 1 : o[ListKey(k, i)] = v[ListKey(k, i)]
    <3>1. \A i \in start .. end - 1 : i # end
      BY <1>4
    <3>2. \A key : key # ListKey(k, end) /\ key # ListMetaKey(k) => Alike(o, v, key)
      BY <2>5
    <3> QED BY <1>3, <3>1, <3>2, ElementsStay
  <2>8. ListIn(o, k) = Tail(ListIn(v, k))
    BY <1>3, <1>7, <1>22, <2>5, <2>6, <2>7, LeftPopped
  <2>9. ~Promise!NoEffect(r)
    <3>1. r.ret \in Values
      BY <1>20, <2>2, <2>3
    <3> QED BY <1>20, <3>1, Effective
  <2>10. ListIn(v, k) # <<>> /\ e.ret = Head(ListIn(v, k))
    BY <1>3, <1>7, <1>22, <2>3, ListEnds
  <2>11. Promise!Right(s, r)
    <3>1. s.lists[r.name] # <<>> /\ r.ret = Head(s.lists[r.name])
      BY <1>19, <1>20, <2>10
    <3> QED BY <1>20, <3>1 DEF Promise!Right
  <2>12. Made(r, ListIn(v, k), ListIn(o, k))
    BY <1>20, <2>8 DEF Made
  <2> QED BY <1>1, <1>2, <1>11, <1>18, <1>20, <2>4, <2>5, <2>9, <2>11, <2>12, ListExact
<1> QED BY <1>21, <1>22

\* Lrpop.
LEMMA LrpopExact ==
  ASSUME NEW v, Formed(v), NEW view, NEW k \in Names,
         \A key \in lrpop(view, k).reads : Alike(v, view, key)
  PROVE  Exact(v, Entry("lrpop", k, "", lrpop(view, k)), lrpop(view, k))
<1>1. PICK e : e = lrpop(view, k)
  OBVIOUS
<1>2. PICK r : r = Entry("lrpop", k, "", e)
  OBVIOUS
<1>3. PICK start, end : listStartEnd(v, k) = <<start, end>>
  BY EndsOf DEF Formed
<1>4. /\ start \in Int /\ end \in Int /\ start <= end
      /\ \A i \in start .. end - 1 : ListKey(k, i) \in DOMAIN v /\ v[ListKey(k, i)] \in Values
  BY <1>3, ListElement
<1>5. ListMetaKey(k) \in e.reads
  BY <1>1 DEF lrpop, Pop, Answer, Effect
<1>6. listStartEnd(view, k) = <<start, end>> /\ (Listed(view, k) <=> Listed(v, k))
  BY <1>1, <1>3, <1>5, SameEnds
<1>7. PICK at, left, right : at = end - 1 /\ left = start /\ right = end - 1
  OBVIOUS
<1>8. e = Pop(view, k, at, left, right)
  BY <1>1, <1>6, <1>7 DEF lrpop
<1>9. e = Pop(v, k, at, left, right)
  <2>1. CASE ~Listed(view, k) \/ start = end
    BY <1>3, <1>6, <1>8, <2>1 DEF Pop
  <2>2. CASE Listed(view, k) /\ start # end
    <3>1. ListKey(k, at) \in e.reads
      BY <1>6, <1>8, <2>2 DEF Pop, Answer, Effect
    <3>2. Alike(v, view, ListKey(k, at))
      BY <1>1, <3>1
    <3>3. /\ ListKey(k, at) \in DOMAIN view <=> ListKey(k, at) \in DOMAIN v
          /\ ListKey(k, at) \in DOMAIN view => view[ListKey(k, at)] = v[ListKey(k, at)]
      BY <3>2 DEF Alike
    <3> QED BY <1>3, <1>6, <1>8, <3>3 DEF Pop
  <2> QED BY <2>1, <2>2
<1>10. e = lrpop(v, k)
  BY <1>3, <1>7, <1>9 DEF lrpop
<1>11. Careful(v, e)
  BY <1>10, PopIsCareful DEF Formed
<1>18. PICK s : s = Holds(v)
  OBVIOUS
<1>19. s.lists[k] = ListIn(v, k)
  BY <1>18, ListHeld
<1>20. r.op = "lrpop" /\ r.name = k /\ r.ret = e.ret
  BY <1>2 DEF Entry
<1>21. CASE ~Listed(v, k) \/ start = end
  <2>1. start = end
    <3>1. CASE ~Listed(v, k)
      <4>1. listStartEnd(v, k) = <<0, 0>>
        BY <3>1 DEF Listed, listStartEnd
      <4> QED BY <1>3, <4>1
    <3> QED BY <1>21, <3>1
  <2>2. e.writes = Nothing /\ e.ret \in {NotExist, OutOfSize}
    BY <1>3, <1>9, <1>21 DEF Pop, Answer, Effect
  <2>3. s.lists[r.name] = <<>>
    BY <1>3, <1>19, <1>20, <2>1, ListEnds
  <2> QED BY <1>1, <1>2, <1>18, <1>20, <2>2, <2>3, ListFails
<1>22. CASE Listed(v, k) /\ start # end
  <2>1. at \in start .. end - 1 /\ left \in Int /\ right \in Int
    BY <1>4, <1>7, <1>22
  <2>2. ListKey(k, at) \in DOMAIN v /\ v[ListKey(k, at)] \in Values
    BY <1>4, <2>1
  <2>3. e.writes = SetEnds(k, left, right) /\ e.ret = v[ListKey(k, at)]
    BY <1>3, <1>9, <1>22, <2>2 DEF Pop, Effect
  <2>4. PICK w, o : w = e.writes /\ o = Over(v, w)
    OBVIOUS
  <2>5. /\ \A key \in DOMAIN w : KeyOfList(k, key) /\ (w[key] # Gone => Fit(key, w[key]))
        /\ w # Nothing
        /\ listStartEnd(o, k) = <<left, right>>
        /\ \A key : key # ListMetaKey(k) => Alike(o, v, key)
    BY <2>1, <2>3, <2>4, PopWrites
  <2>6. Formed(o)
    BY <1>11, <2>4, <2>5, ListWritten
  <2>7. \A i \in start .. end - 1 : o[ListKey(k, i)] = v[ListKey(k, i)]
    <3>1. \A i \in start .. end - 1 : i # end
      BY <1>4
    <3>2. \A key : key # ListKey(k, end) /\ key # ListMetaKey(k) => Alike(o, v, key)
      BY <2>5
    <3> QED BY <1>3, <3>1, <3>2, ElementsStay
  <2>8. ListIn(o, k) = Front(ListIn(v, k))
    BY <1>3, <1>7, <1>22, <2>5, <2>6, <2>7, RightPopped
  <2>9. ~Promise!NoEffect(r)
    <3>1. r.ret \in Values
      BY <1>20, <2>2, <2>3
    <3> QED BY <1>20, <3>1, Effective
  <2>10. ListIn(v, k) # <<>> /\ e.ret = Last(ListIn(v, k))
    BY <1>3, <1>7, <1>22, <2>3, ListEnds
  <2>11. Promise!Right(s, r)
    <3>1. s.lists[r.name] # <<>> /\ r.ret = Last(s.lists[r.name])
      BY <1>19, <1>20, <2>10
    <3> QED BY <1>20, <3>1 DEF Promise!Right, Last, Promise!Last
  <2>12. Made(r, ListIn(v, k), ListIn(o, k))
    BY <1>20, <2>8 DEF Made
  <2> QED BY <1>1, <1>2, <1>11, <1>18, <1>20, <2>4, <2>5, <2>9, <2>11, <2>12, ListExact
<1> QED BY <1>21, <1>22

\* Lclear.
LEMMA LclearExact ==
  ASSUME NEW v, Formed(v), NEW view, NEW k \in Names,
         \A key \in lclear(view, k).reads : Alike(v, view, key)
  PROVE  Exact(v, Entry("lclear", k, "", lclear(view, k)), lclear(view, k))
<1>1. PICK e : e = lclear(view, k)
  OBVIOUS
<1>2. PICK r : r = Entry("lclear", k, "", e)
  OBVIOUS
<1>3. PICK start, end : listStartEnd(v, k) = <<start, end>>
  BY EndsOf DEF Formed
<1>4. start \in Int /\ end \in Int
  BY <1>3, ListElement
<1>5. ListMetaKey(k) \in e.reads
  BY <1>1 DEF lclear, Answer, Effect
<1>6. listStartEnd(view, k) = <<start, end>> /\ (Listed(view, k) <=> Listed(v, k))
  BY <1>1, <1>3, <1>5, SameEnds
<1>7. e = lclear(v, k)
  BY <1>1, <1>3, <1>6 DEF lclear
<1>8. Careful(v, e)
  BY <1>7, ClearIsCareful DEF Formed
<1>9. r.op = "lclear" /\ r.name = k /\ r.ret = e.ret
  BY <1>2 DEF Entry
<1>10. CASE ~Listed(v, k)
  <2>1. e.writes = Nothing /\ e.ret = NotExist
    BY <1>7, <1>10 DEF lclear, Answer, Effect
  <2> QED BY <1>1, <1>2, <1>9, <2>1, ListFails
<1>11. CASE Listed(v, k)
  <2>1. PICK keys : keys = {ListKey(k, i) : i \in start .. end - 1} \cup {ListMetaKey(k)}
    OBVIOUS
  <2>2. e.writes = Delete(keys) /\ e.ret = "ok"
    BY <1>3, <1>7, <1>11, <2>1 DEF lclear, Effect
  <2>3. PICK w, o : w = e.writes /\ o = Over(v, w)
    OBVIOUS
  <2>4. DOMAIN w = keys /\ \A key \in keys : w[key] = Gone
    BY <2>2, <2>3 DEF Delete
  <2>5. \A key \in DOMAIN w : KeyOfList(k, key) /\ (w[key] # Gone => Fit(key, w[key]))
    <3>1. \A i \in start .. end - 1 : i \in Int
      BY <1>4
    <3>2. \A key \in keys : KeyOfList(k, key)
      BY <2>1, <3>1 DEF KeyOfList
    <3> QED BY <2>4, <3>2
  <2>6. w # Nothing
    BY <2>1, <2>4 DEF Nothing
  <2>7. ListIn(o, k) = <<>>
    <3>1. ListMetaKey(k) \notin DOMAIN o
      BY <2>1, <2>3, <2>4, OverWrites
    <3>2. listStartEnd(o, k) = <<0, 0>>
      BY <3>1 DEF listStartEnd
    <3>3. Formed(o)
      BY <1>8, <2>3, <2>5, ListWritten
    <3>4. ListIn(o, k) = <<>> <=> 0 = 0
      BY <3>2, <3>3, ListEnds
    <3> QED BY <3>4
  <2>8. ~Promise!NoEffect(r)
    BY <1>9, <2>2, Effective
  <2>9. Promise!Right(Holds(v), r)
    BY <1>9, RightIs
  <2>10. Made(r, ListIn(v, k), ListIn(o, k))
    BY <1>9, <2>7 DEF Made
  <2> QED BY <1>1, <1>2, <1>8, <1>9, <2>3, <2>5, <2>6, <2>8, <2>9, <2>10, ListExact
<1> QED BY <1>10, <1>11

\* A list whose elements and ends have not changed.
LEMMA ListUnchanged ==
  ASSUME NEW v, NEW o, Formed(v), Formed(o), NEW k \in Names, NEW start, NEW end,
         listStartEnd(v, k) = <<start, end>>, listStartEnd(o, k) = <<start, end>>,
         \A i \in start .. end - 1 : o[ListKey(k, i)] = v[ListKey(k, i)]
  PROVE  ListIn(o, k) = ListIn(v, k)
<1>1. PICK s, u : s = ListIn(v, k) /\ u = ListIn(o, k)
  OBVIOUS
<1>2. start \in Int /\ end \in Int
  BY ListElement
<1>3. /\ s \in Seq(Values) /\ Len(s) = end - start
      /\ \A i \in 1 .. end - start : s[i] = v[ListKey(k, start + i - 1)]
  BY <1>1, ListElement, SMTT(30)
<1>4. /\ u \in Seq(Values) /\ Len(u) = end - start
      /\ \A i \in 1 .. end - start : u[i] = o[ListKey(k, start + i - 1)]
  BY <1>1, ListElement, SMTT(30)
<1>5. \A i \in 1 .. end - start : u[i] = s[i]
  <2>1. ASSUME NEW i \in 1 .. end - start PROVE u[i] = s[i]
    <3>1. PICK j : j = start + i - 1
      OBVIOUS
    <3>2. j \in start .. end - 1
      BY <1>2, <3>1
    <3>3. o[ListKey(k, j)] = v[ListKey(k, j)]
      BY <3>2
    <3> QED BY <1>3, <1>4, <3>1, <3>3
  <2> QED BY <2>1
<1>6. u = s
  BY <1>2, <1>3, <1>4, <1>5
<1> QED BY <1>1, <1>6

\* Lset, also where it writes behind the list.
LEMMA LsetExact ==
  ASSUME NEW v, Formed(v), NEW view, NEW k \in Names, NEW idx \in Int, NEW x \in Values,
         \A key \in lset(view, k, idx, x).reads : Alike(v, view, key)
  PROVE  Exact(v, Entry("lset", k, x, lset(view, k, idx, x)), lset(view, k, idx, x))
<1>1. PICK e : e = lset(view, k, idx, x)
  OBVIOUS
<1>2. PICK r : r = Entry("lset", k, x, e)
  OBVIOUS
<1>3. PICK start, end, m : m = listStartEnd(v, k) /\ m = <<start, end>>
  BY EndsOf DEF Formed
<1>4. start \in Int /\ end \in Int /\ start <= end
  BY <1>3, ListElement
<1>5. ListMetaKey(k) \in e.reads
  BY <1>1 DEF lset, Answer, Effect
<1>6. listStartEnd(view, k) = m /\ (Listed(view, k) <=> Listed(v, k))
  BY <1>1, <1>3, <1>5, SameEnds
<1>7. e = lset(v, k, idx, x)
  BY <1>1, <1>3, <1>6 DEF lset
<1>8. Careful(v, e)
  BY <1>7, SetIsCareful DEF Formed
<1>9. r.op = "lset" /\ r.name = k /\ r.arg = x /\ r.ret = e.ret
  BY <1>2 DEF Entry
<1>10. CASE ~Listed(v, k) \/ ~InList(m, idx)
  <2>1. e.writes = Nothing /\ e.ret \in {NotExist, OutOfSize}
    BY <1>3, <1>7, <1>10 DEF lset, Answer, Effect
  <2> QED BY <1>1, <1>2, <1>9, <2>1, ListFails
<1>11. CASE Listed(v, k) /\ InList(m, idx)
  <2>1. PICK at : at = Located(m, idx)
    OBVIOUS
  <2>2. at \in Int
    BY <1>3, <1>4, <2>1 DEF Located
  <2>3. e.writes = Put(ListKey(k, at), x) /\ e.ret = at - m[1] + 1
    BY <1>3, <1>7, <1>11, <2>1 DEF lset, Effect
  <2>4. e.ret = at - start + 1
    BY <1>3, <2>3
  <2>5. PICK w, o : w = e.writes /\ o = Over(v, w)
    OBVIOUS
  <2>6. DOMAIN w = {ListKey(k, at)} /\ w[ListKey(k, at)] = x /\ x # Gone
    BY <2>3, <2>5, StoreAssumption DEF Put
  <2>7. \A key \in DOMAIN w : KeyOfList(k, key) /\ (w[key] # Gone => Fit(key, w[key]))
    <3>1. Fit(ListKey(k, at), x)
      BY FitsList
    <3> QED BY <2>2, <2>6, <3>1 DEF KeyOfList
  <2>8. w # Nothing
    BY <2>6 DEF Nothing
  <2>9. /\ o[ListKey(k, at)] = x
        /\ \A key : key # ListKey(k, at) => Alike(o, v, key)
    BY <2>5, <2>6, OverWrites
  <2>10. listStartEnd(o, k) = <<start, end>>
    <3>1. ListMetaKey(k) # ListKey(k, at)
      BY KeysDiffer
    <3>2. Alike(o, v, ListMetaKey(k))
      BY <2>9, <3>1
    <3> QED BY <1>3, <3>2 DEF Alike, listStartEnd
  <2>11. Formed(o)
    BY <1>8, <2>5, <2>7, ListWritten
  <2>12. \A i \in start .. end - 1 : i # at => o[ListKey(k, i)] = v[ListKey(k, i)]
    <3>1. \A key : key # ListKey(k, at) /\ key # ListMetaKey(k) => Alike(o, v, key)
      BY <2>9
    <3>2. listStartEnd(v, k) = <<start, end>>
      BY <1>3
    <3> QED BY <3>1, <3>2, ElementsStay
  <2>13. Made(r, ListIn(v, k), ListIn(o, k))
    <3>1. PICK l, u : l = ListIn(v, k) /\ u = ListIn(o, k)
      OBVIOUS
    <3>2. CASE at \in start .. end - 1
      <4>1. /\ at - start + 1 \in DOMAIN l
            /\ u = [l EXCEPT ![at - start + 1] = x]
        <5>1. listStartEnd(v, k) = <<start, end>> /\ o[ListKey(k, at)] = x
          BY <1>3, <2>9
        <5> QED BY <2>10, <2>11, <2>12, <3>1, <3>2, <5>1, ElementSet
      <4>2. r.op = "lset" /\ r.arg = x /\ r.ret = at - start + 1
        BY <1>9, <2>4
      <4>3. r.ret \in DOMAIN l /\ u = [l EXCEPT ![r.ret] = r.arg]
        BY <4>1, <4>2
      <4> QED BY <3>1, <4>2, <4>3 DEF Made
    <3>3. CASE at \notin start .. end - 1
      <4>1. \A i \in start .. end - 1 : i # at
        BY <3>3
      <4>2. \A i \in start .. end - 1 : o[ListKey(k, i)] = v[ListKey(k, i)]
        BY <2>12, <4>1
      <4>3. u = l
        <5>1. listStartEnd(v, k) = <<start, end>>
          BY <1>3
        <5> QED BY <2>10, <2>11, <3>1, <4>2, <5>1, ListUnchanged
      <4>4. l \in Seq(Values) /\ Len(l) = end - start
        BY <1>3, <3>1, ListElement
      <4>5. r.ret \notin DOMAIN l
        <5>1. DOMAIN l = 1 .. end - start
          BY <4>4
        <5> QED BY <1>4, <1>9, <2>2, <2>4, <3>3, <5>1
      <4> QED BY <1>9, <3>1, <4>3, <4>5 DEF Made
    <3> QED BY <3>2, <3>3
  <2>14. ~Promise!NoEffect(r)
    <3>1. r.ret \in Int
      BY <1>4, <1>9, <2>2, <2>4
    <3> QED BY <1>9, <3>1, Effective
  <2>15. Promise!Right(Holds(v), r)
    BY <1>9, RightIs
  <2> QED BY <1>1, <1>2, <1>8, <1>9, <2>5, <2>7, <2>8, <2>13, <2>14, <2>15, ListExact
<1> QED BY <1>10, <1>11

\* The function of the parts of a log's domain by which Replay is computed.
Replays(g, n, s, log) ==
  g = [x \in SUBSET (1 .. n) |->
         IF x = {} THEN [state |-> s, right |-> TRUE]
         ELSE Promise!Go(g[x \ {Max(x)}], log[Max(x)])]

\* It is one that exists.
LEMMA ReplayIs ==
  ASSUME NEW n \in Nat, NEW s, NEW log, DOMAIN log = 1 .. n
  PROVE  Promise!Replay(s, log) = (CHOOSE g : Replays(g, n, s, log))[1 .. n]
<1>1. \A x : Promise!Max(x) = Max(x)
  BY DEF Max, Promise!Max
<1> QED BY <1>1 DEF Promise!Replay, Promise!FoldLeft, Promise!MapThenFoldSet, Replays

\* There is such a function, for a log of any length.
LEMMA ReplayExists ==
  ASSUME NEW n \in Nat, NEW s, NEW log
  PROVE  \E g : Replays(g, n, s, log)
<1> DEFINE T == {m \in 0 .. n : \E g : Replays(g, m, s, log)}
<1>9. PICK base : base = [state |-> s, right |-> TRUE]
  OBVIOUS
<1>1. 0 \in T
  <2>1. SUBSET (1 .. 0) = {{}}
    OBVIOUS
  <2>2. PICK g : g = [x \in SUBSET (1 .. 0) |-> base]
    OBVIOUS
  <2>3. Replays(g, 0, s, log)
    BY <1>9, <2>1, <2>2 DEF Replays
  <2> QED BY <2>3
<1>2. ASSUME NEW m \in 0 .. n - 1, m \in T
      PROVE  m + 1 \in T
  <2>1. PICK g : Replays(g, m, s, log)
    BY <1>2
  <2> DEFINE h == [x \in SUBSET (1 .. m + 1) |->
                     IF m + 1 \in x THEN Promise!Go(g[x \ {m + 1}], log[m + 1]) ELSE g[x]]
  <2>2. \A x \in SUBSET (1 .. m + 1) : x \ {m + 1} \in SUBSET (1 .. m)
    OBVIOUS
  <2>3. \A x \in SUBSET (1 .. m + 1) : m + 1 \notin x => x \in SUBSET (1 .. m)
    OBVIOUS
  <2>4. \A x \in SUBSET (1 .. m) :
          g[x] = IF x = {} THEN base ELSE Promise!Go(g[x \ {Max(x)}], log[Max(x)])
    BY <1>9, <2>1 DEF Replays
  <2>5. \A x \in SUBSET (1 .. m) : h[x] = g[x]
    OBVIOUS
  <2>6. ASSUME NEW x \in SUBSET (1 .. m + 1)
        PROVE  h[x] = IF x = {} THEN base ELSE Promise!Go(h[x \ {Max(x)}], log[Max(x)])
    <3>1. CASE m + 1 \in x
      <4>1. Max(x) \in x /\ \A y \in x : y <= Max(x)
        <5>1. m + 1 \in Nat /\ x # {}
          BY <3>1
        <5> HIDE DEF h
        <5> QED BY <5>1, MaxOfInterval
      <4>2. Max(x) = m + 1
        <5>1. Max(x) \in 1 .. m + 1 /\ m + 1 <= Max(x)
          BY <4>1, <3>1
        <5> QED BY <5>1
      <4>3. h[x] = Promise!Go(g[x \ {m + 1}], log[m + 1])
        BY <3>1
      <4> HIDE DEF h
      <4> QED BY <2>2, <2>5, <3>1, <4>2, <4>3
    <3>2. CASE m + 1 \notin x
      <4>1. x \in SUBSET (1 .. m) /\ h[x] = g[x]
        BY <2>3, <2>5, <3>2
      <4>2. h[x \ {Max(x)}] = g[x \ {Max(x)}]
        BY <4>1, <2>5
      <4> HIDE DEF h
      <4> QED BY <2>4, <4>1, <4>2
    <3> QED BY <3>1, <3>2
  <2>7. h = [x \in SUBSET (1 .. m + 1) |-> h[x]]
    OBVIOUS
  <2> HIDE DEF h
  <2>8. Replays(h, m + 1, s, log)
    BY <1>9, <2>6, <2>7 DEF Replays
  <2> QED BY <2>8
<1>3. n \in T
  <2> HIDE DEF T
  <2>1. 0 .. n \subseteq T
    BY <1>1, <1>2, Induction
  <2> QED BY <2>1
<1> QED BY <1>3

\* Two logs that agree up to a place are replayed alike up to there.
LEMMA ReplayAgrees ==
  ASSUME NEW n \in Nat, NEW m \in Nat, NEW l \in Nat, l <= n, l <= m, NEW s, NEW log, NEW log2,
         \A i \in 1 .. l : log[i] = log2[i], NEW g, NEW h,
         Replays(g, n, s, log), Replays(h, m, s, log2)
  PROVE  g[1 .. l] = h[1 .. l]
<1> DEFINE T == {k \in 0 .. l : g[1 .. k] = h[1 .. k]}
<1>1. PICK base : base = [state |-> s, right |-> TRUE]
  OBVIOUS
<1>2. /\ \A x \in SUBSET (1 .. n) :
           g[x] = IF x = {} THEN base ELSE Promise!Go(g[x \ {Max(x)}], log[Max(x)])
      /\ \A x \in SUBSET (1 .. m) :
           h[x] = IF x = {} THEN base ELSE Promise!Go(h[x \ {Max(x)}], log2[Max(x)])
  BY <1>1 DEF Replays
<1>3. 0 \in T
  <2>1. 1 .. 0 = {}
    OBVIOUS
  <2>2. g[{}] = base /\ h[{}] = base
    BY <1>2
  <2> QED BY <2>1, <2>2
<1>4. ASSUME NEW k \in 0 .. l - 1, k \in T PROVE k + 1 \in T
  <2>1. PICK j : j = k + 1
    OBVIOUS
  <2>2. j \in 1 .. n /\ j \in 1 .. m /\ j - 1 = k /\ j \in 1 .. l
    BY <2>1
  <2>3. /\ 1 .. j \in SUBSET (1 .. n) /\ 1 .. j \in SUBSET (1 .. m) /\ 1 .. j # {}
        /\ Max(1 .. j) = j /\ (1 .. j) \ {Max(1 .. j)} = 1 .. k
    BY <2>2, FoldSteps
  <2>4. g[1 .. j] = Promise!Go(g[1 .. k], log[j])
    BY <1>2, <2>3
  <2>5. h[1 .. j] = Promise!Go(h[1 .. k], log2[j])
    BY <1>2, <2>3
  <2>6. g[1 .. k] = h[1 .. k] /\ log[j] = log2[j]
    BY <1>4, <2>2
  <2> QED BY <2>1, <2>2, <2>4, <2>5, <2>6
<1>5. l \in T
  <2> HIDE DEF T
  <2>1. 0 .. l \subseteq T
    BY <1>3, <1>4, Induction
  <2> QED BY <2>1
<1> QED BY <1>5

\* Nothing replayed.
LEMMA ReplayNothing ==
  ASSUME NEW s
  PROVE  Promise!Replay(s, <<>>) = [state |-> s, right |-> TRUE]
<1>1. PICK log : log = <<>>
  OBVIOUS
<1>2. DOMAIN log = 1 .. 0
  BY <1>1
<1>3. PICK g : g = CHOOSE f : Replays(f, 0, s, log)
  OBVIOUS
<1>4. Replays(g, 0, s, log)
  BY <1>3, ReplayExists, Zenon
<1>5. g[{}] = [state |-> s, right |-> TRUE]
  BY <1>4 DEF Replays
<1>6. Promise!Replay(s, log) = g[1 .. 0] /\ 1 .. 0 = {}
  BY <1>2, <1>3, ReplayIs
<1> QED BY <1>1, <1>5, <1>6

\* One operation more.
LEMMA ReplayOneMore ==
  ASSUME NEW s, NEW S, NEW log \in Seq(S), NEW e
  PROVE  Promise!Replay(s, Append(log, e)) = Promise!Go(Promise!Replay(s, log), e)
<1>1. PICK n, m, new : n = Len(log) /\ m = n + 1 /\ new = Append(log, e)
  OBVIOUS
<1>2. /\ n \in Nat /\ m \in Nat /\ DOMAIN log = 1 .. n /\ DOMAIN new = 1 .. m
      /\ \A i \in 1 .. n : log[i] = new[i]
      /\ new[m] = e
  <2>1. log \in Seq(S \cup {e}) /\ e \in S \cup {e}
    OBVIOUS
  <2> QED BY <1>1, <2>1
<1>3. PICK g, h : g = (CHOOSE f : Replays(f, n, s, log)) /\ h = (CHOOSE f : Replays(f, m, s, new))
  OBVIOUS
<1>4. Replays(g, n, s, log) /\ Replays(h, m, s, new)
  BY <1>2, <1>3, ReplayExists, Zenon
<1>5. Promise!Replay(s, log) = g[1 .. n] /\ Promise!Replay(s, new) = h[1 .. m]
  BY <1>2, <1>3, ReplayIs
<1>6. g[1 .. n] = h[1 .. n]
  <2>1. n <= n /\ n <= m
    BY <1>1, <1>2
  <2> QED BY <1>2, <1>4, <2>1, ReplayAgrees
<1>7. h[1 .. m] = Promise!Go(h[1 .. n], new[m])
  <2>1. m \in 1 .. m /\ m - 1 = n
    BY <1>1, <1>2
  <2>2. /\ 1 .. m \in SUBSET (1 .. m) /\ 1 .. m # {}
        /\ Max(1 .. m) = m /\ (1 .. m) \ {Max(1 .. m)} = 1 .. n
    BY <1>2, <2>1, FoldSteps
  <2>3. h[1 .. m] = Promise!Go(h[(1 .. m) \ {Max(1 .. m)}], new[Max(1 .. m)])
    BY <1>4, <2>2 DEF Replays
  <2> QED BY <2>2, <2>3
<1> QED BY <1>1, <1>2, <1>5, <1>6, <1>7

\* What has not been committed since the snapshot is as it was there.
Fresh(t, base) == \A key : key \notin t.stale => Alike(base, t.snap, key)

\* On any contents that agree with what the transaction has read, its operations
\* replayed give its answers and what its writes make of the contents.
Serial(t) ==
  \A b : Formed(b) /\ (\A key \in t.reads : Alike(b, t.snap, key)) =>
    /\ Formed(Over(b, t.writes))
    /\ Promise!Replay(Holds(b), t.log) = [state |-> Holds(Over(b, t.writes)), right |-> TRUE]

\* A transaction that writes nothing has done nothing.
Quiet(t) == DOMAIN t.writes = {} => \A i \in DOMAIN t.log : Promise!NoEffect(t.log[i])

\* What holds of an open transaction while base is committed.
Kept(t, base) ==
  /\ t = [snap |-> t.snap, reads |-> t.reads, writes |-> t.writes, stale |-> t.stale,
          log |-> t.log]
  /\ Formed(t.snap) /\ Fresh(t, base) /\ Serial(t) /\ Quiet(t)
  /\ \E S : t.log \in Seq(S)

\* The inductive invariant of the refinement: every open transaction is Fresh,
\* Serial and Quiet, whatever others commit meanwhile.
SerialInv ==
  /\ DOMAIN txn = Clients
  /\ Formed(db)
  /\ \A c \in Clients : txn[c] # NoTxn => Kept(txn[c], db)

\* Views that agree on a key agree on it once the same is written.
LEMMA OverAlike ==
  ASSUME NEW b, NEW u, NEW w, NEW key, key \in DOMAIN w \/ Alike(b, u, key)
  PROVE  Alike(Over(b, w), Over(u, w), key)
<1>1. CASE key \in DOMAIN w
  BY <1>1 DEF Over, Alike
<1>2. CASE key \notin DOMAIN w /\ Alike(b, u, key)
  BY <1>2 DEF Over, Alike
<1> QED BY <1>1, <1>2

\* An effect that is exact wherever its reads agree with the view.
Faithful(op, name, arg, e, view) ==
  /\ e.writes = [key \in DOMAIN e.writes |-> e.writes[key]]
  /\ \A v : Formed(v) /\ (\A key \in e.reads : Alike(v, view, key))
            => Exact(v, Entry(op, name, arg, e), e)

\* One more faithful operation in a transaction.
LEMMA SerialMore ==
  ASSUME NEW t, Serial(t), NEW S, t.log \in Seq(S), NEW op, NEW name, NEW arg, NEW e,
         Faithful(op, name, arg, e, Over(t.snap, t.writes)),
         NEW t2, t2.snap = t.snap, t2.reads = t.reads \cup (e.reads \ DOMAIN t.writes),
         t2.writes = Amend(t.writes, e.writes), t2.log = Append(t.log, Entry(op, name, arg, e))
  PROVE  Serial(t2)
<1> SUFFICES ASSUME NEW b, Formed(b), \A key \in t2.reads : Alike(b, t2.snap, key)
             PROVE  /\ Formed(Over(b, t2.writes))
                    /\ Promise!Replay(Holds(b), t2.log)
                         = [state |-> Holds(Over(b, t2.writes)), right |-> TRUE]
  BY DEF Serial
<1>1. PICK v, r, w : v = Over(b, t.writes) /\ r = Entry(op, name, arg, e) /\ w = e.writes
  OBVIOUS
<1>2. Formed(v) /\ Promise!Replay(Holds(b), t.log) = [state |-> Holds(v), right |-> TRUE]
  BY <1>1 DEF Serial
<1>3. \A key \in e.reads : Alike(v, Over(t.snap, t.writes), key)
  <2>1. ASSUME NEW key \in e.reads PROVE key \in DOMAIN t.writes \/ Alike(b, t.snap, key)
    OBVIOUS
  <2> QED BY <1>1, <2>1, OverAlike
<1>4. Exact(v, r, e)
  BY <1>1, <1>2, <1>3 DEF Faithful
<1>5. /\ Promise!Right(Holds(v), r) /\ Promise!After(Holds(v), r) = Holds(Over(v, w))
      /\ Formed(Over(v, w))
  BY <1>1, <1>4 DEF Exact
<1>6. Over(v, w) = Over(b, t2.writes)
  BY <1>1, OverAmend
<1>7. Promise!Replay(Holds(b), t2.log) = Promise!Go([state |-> Holds(v), right |-> TRUE], r)
  BY <1>1, <1>2, ReplayOneMore
<1>8. Promise!Go([state |-> Holds(v), right |-> TRUE], r)
        = [state |-> Promise!After(Holds(v), r), right |-> TRUE]
  BY <1>5 DEF Promise!Go
<1> QED BY <1>5, <1>6, <1>7, <1>8

\* The same, of a transaction that has written nothing so far.
LEMMA QuietMore ==
  ASSUME NEW t, Quiet(t), NEW S, t.log \in Seq(S), NEW op, NEW name, NEW arg, NEW e,
         NEW v, v = Over(t.snap, t.writes), Formed(v), Faithful(op, name, arg, e, v),
         NEW t2, t2.writes = Amend(t.writes, e.writes), t2.log = Append(t.log, Entry(op, name, arg, e))
  PROVE  Quiet(t2)
<1> SUFFICES ASSUME DOMAIN t2.writes = {}
             PROVE  \A i \in DOMAIN t2.log : Promise!NoEffect(t2.log[i])
  BY DEF Quiet
<1>1. PICK r, w : r = Entry(op, name, arg, e) /\ w = e.writes
  OBVIOUS
<1>2. DOMAIN t.writes = {} /\ DOMAIN w = {}
  BY <1>1 DEF Amend
<1>3. w = Nothing
  <2>1. w = [key \in DOMAIN w |-> w[key]]
    BY <1>1 DEF Faithful
  <2> QED BY <1>2, <2>1 DEF Nothing
<1>4. Promise!NoEffect(r)
  <2>1. \A key \in e.reads : Alike(v, v, key)
    BY DEF Alike
  <2>2. Exact(v, r, e)
    BY <1>1, <2>1 DEF Faithful
  <2> QED BY <1>1, <1>3, <2>2 DEF Exact
<1>5. \A i \in DOMAIN t.log : Promise!NoEffect(t.log[i])
  BY <1>2 DEF Quiet
<1>6. PICK log, new : log = t.log /\ new = Append(log, r)
  OBVIOUS
<1>7. log \in Seq(S \cup {r}) /\ r \in S \cup {r}
  BY <1>6
<1>8. \A i \in DOMAIN new : (i \in DOMAIN log /\ new[i] = log[i]) \/ new[i] = r
  BY <1>6, <1>7
<1> QED BY <1>1, <1>4, <1>5, <1>6, <1>8

\* The transaction's own view agrees with itself, so a faithful operation is
\* exact there.
LEMMA SnapFits ==
  ASSUME NEW t, Serial(t), Formed(t.snap)
  PROVE  Formed(Over(t.snap, t.writes))
<1>1. \A key \in t.reads : Alike(t.snap, t.snap, key)
  BY DEF Alike
<1> QED BY <1>1 DEF Serial

\* The promise is about what the data base holds.
LEMMA ContentsAre ==
  /\ Promise!Contents = Holds(db)
  /\ Promise!Contents' = Holds(db')
<1>1. \A tag : KeysTagged(tag) = Of(db, tag) /\ KeysTagged(tag)' = Of(db', tag)
  BY DEF KeysTagged, Of
<1>2. \A k : ListOf(k) = ListIn(db, k) /\ ListOf(k)' = ListIn(db', k)
  BY DEF ListOf, ListIn
<1>3. Promise!Contents = Holds(db)
  BY <1>1, <1>2 DEF Promise!Contents, Holds, PlainOf, Triples, SetsOf, ListsOf
<1>4. Promise!Contents' = Holds(db')
  BY <1>1, <1>2 DEF Promise!Contents, Holds, PlainOf, Triples, SetsOf, ListsOf
<1> QED BY <1>3, <1>4

\* What commits nothing is a stutter of the promise.
LEMMA Stutters ==
  ASSUME db' = db, committed' = committed
  PROVE  UNCHANGED Promise!cvars
<1>1. \A tag : KeysTagged(tag)' = KeysTagged(tag)
  BY DEF KeysTagged
<1>2. \A k : ListOf(k)' = ListOf(k)
  BY DEF ListOf, listStartEnd, Stored
<1> QED BY <1>1, <1>2 DEF Promise!cvars

\* The three assignments of Do to a transaction, at once.
LEMMA ThreeFields ==
  ASSUME NEW a, NEW b, NEW d, NEW f, NEW g, NEW t,
         t = [snap |-> a, reads |-> b, writes |-> d, stale |-> f, log |-> g],
         NEW r, NEW w, NEW l
  PROVE  [[[t EXCEPT !.reads = r] EXCEPT !.writes = w] EXCEPT !.log = l]
           = [snap |-> a, reads |-> r, writes |-> w, stale |-> f, log |-> l]
<1>1. PICK t1 : t1 = [snap |-> a, reads |-> r, writes |-> d, stale |-> f, log |-> g]
  OBVIOUS
<1>2. PICK t2 : t2 = [snap |-> a, reads |-> r, writes |-> w, stale |-> f, log |-> g]
  OBVIOUS
<1>3. [t EXCEPT !.reads = r] = t1
  BY <1>1
<1>4. [t1 EXCEPT !.writes = w] = t2
  BY <1>1, <1>2
<1>5. [t2 EXCEPT !.log = l] = [snap |-> a, reads |-> r, writes |-> w, stale |-> f, log |-> l]
  BY <1>2
<1> QED BY <1>3, <1>4, <1>5

\* A faithful operation in a transaction.
LEMMA DoIsSerial ==
  ASSUME SerialInv, NEW c \in Clients, txn[c] # NoTxn, NEW op, NEW name, NEW arg, NEW e,
         Faithful(op, name, arg, e, View(c)), Do(c, op, name, arg, e)
  PROVE  SerialInv' /\ UNCHANGED Promise!cvars
<1>1. PICK t, t2 : /\ t = txn[c]
                   /\ t2 = [snap |-> t.snap, reads |-> t.reads \cup (e.reads \ DOMAIN t.writes),
                            writes |-> Amend(t.writes, e.writes), stale |-> t.stale,
                            log |-> Append(t.log, Entry(op, name, arg, e))]
  OBVIOUS
<1>2. Kept(t, db) /\ DOMAIN txn = Clients
  BY <1>1 DEF SerialInv
<1>3. PICK S : t.log \in Seq(S)
  BY <1>2 DEF Kept
<1>4. txn' = [txn EXCEPT ![c] = t2] /\ db' = db /\ committed' = committed
  <2>1. t = [snap |-> t.snap, reads |-> t.reads, writes |-> t.writes, stale |-> t.stale,
             log |-> t.log]
    BY <1>2 DEF Kept
  <2>2. PICK r, w, l, x : /\ r = t.reads \cup (e.reads \ DOMAIN t.writes)
                          /\ w = Amend(t.writes, e.writes)
                          /\ l = Append(t.log, Entry(op, name, arg, e))
                          /\ x = [[[t EXCEPT !.reads = r] EXCEPT !.writes = w] EXCEPT !.log = l]
    OBVIOUS
  <2>3. txn' = [txn EXCEPT ![c] = x]
    BY <1>1, <1>2, <2>2 DEF Do, Entry
  <2>4. x = [snap |-> t.snap, reads |-> r, writes |-> w, stale |-> t.stale, log |-> l]
    BY <2>1, <2>2, ThreeFields, Zenon
  <2>5. x = t2
    BY <1>1, <2>2, <2>4
  <2> QED BY <2>3, <2>5 DEF Do
<1>5. Formed(t.snap) /\ Fresh(t, db) /\ Serial(t) /\ Quiet(t)
  BY <1>2 DEF Kept
<1>6. PICK v : v = Over(t.snap, t.writes)
  OBVIOUS
<1>7. Faithful(op, name, arg, e, v) /\ Formed(v)
  BY <1>1, <1>5, <1>6, SnapFits DEF View
<1>8. /\ t2.snap = t.snap /\ t2.reads = t.reads \cup (e.reads \ DOMAIN t.writes)
      /\ t2.writes = Amend(t.writes, e.writes) /\ t2.stale = t.stale
      /\ t2.log = Append(t.log, Entry(op, name, arg, e))
      /\ t2 = [snap |-> t2.snap, reads |-> t2.reads, writes |-> t2.writes, stale |-> t2.stale,
               log |-> t2.log]
  BY <1>1
<1>9. Serial(t2)
  BY <1>3, <1>5, <1>6, <1>7, <1>8, SerialMore
<1>10. Quiet(t2)
  BY <1>3, <1>5, <1>6, <1>7, <1>8, QuietMore
<1>11. Fresh(t2, db)
  BY <1>5, <1>8 DEF Fresh
<1>12. \E U : t2.log \in Seq(U)
  <2>1. PICK log, r : log = t.log /\ r = Entry(op, name, arg, e)
    OBVIOUS
  <2>2. log \in Seq(S \cup {r}) /\ r \in S \cup {r}
    BY <1>3, <2>1
  <2>3. Append(log, r) \in Seq(S \cup {r})
    BY <2>2
  <2> QED BY <1>8, <2>1, <2>3
<1>13. Kept(t2, db)
  BY <1>5, <1>8, <1>9, <1>10, <1>11, <1>12 DEF Kept
<1>14. SerialInv'
  <2>1. DOMAIN txn' = Clients /\ Formed(db')
    BY <1>2, <1>4 DEF SerialInv
  <2>2. ASSUME NEW d \in Clients, txn'[d] # NoTxn PROVE Kept(txn'[d], db')
    <3>1. CASE d = c
      BY <1>2, <1>4, <1>13, <3>1
    <3>2. CASE d # c
      BY <1>2, <1>4, <2>2, <3>2 DEF SerialInv
    <3> QED BY <3>1, <3>2
  <2> QED BY <2>1, <2>2 DEF SerialInv
<1> QED BY <1>4, <1>14, Stutters

\* A transaction begins with nothing done on what is committed.
LEMMA BeginIsSerial ==
  ASSUME SerialInv, NEW c \in Clients, Begin(c)
  PROVE  SerialInv' /\ UNCHANGED Promise!cvars
<1>1. PICK t : t = [snap |-> db, reads |-> {}, writes |-> Nothing, stale |-> {}, log |-> <<>>]
  OBVIOUS
<1>2. txn' = [txn EXCEPT ![c] = t] /\ db' = db /\ committed' = committed
  BY <1>1 DEF Begin
<1>3. /\ t.snap = db /\ t.reads = {} /\ t.writes = Nothing /\ t.log = <<>>
      /\ t = [snap |-> t.snap, reads |-> t.reads, writes |-> t.writes, stale |-> t.stale,
              log |-> t.log]
  BY <1>1
<1>4. Formed(db) /\ DOMAIN txn = Clients
  BY DEF SerialInv
<1>5. Fresh(t, db)
  BY <1>3 DEF Fresh, Alike
<1>6. Serial(t)
  <2>1. ASSUME NEW b, Formed(b)
        PROVE  /\ Formed(Over(b, t.writes))
               /\ Promise!Replay(Holds(b), t.log)
                    = [state |-> Holds(Over(b, t.writes)), right |-> TRUE]
    <3>1. Over(b, t.writes) = b
      BY <1>3, <2>1, NothingOver
    <3> QED BY <1>3, <2>1, <3>1, ReplayNothing
  <2> QED BY <2>1 DEF Serial
<1>7. Quiet(t)
  BY <1>3 DEF Quiet
<1>8. t.log \in Seq({})
  BY <1>3
<1>9. Kept(t, db)
  BY <1>3, <1>4, <1>5, <1>6, <1>7, <1>8 DEF Kept
<1>10. SerialInv'
  <2>2. ASSUME NEW d \in Clients, txn'[d] # NoTxn PROVE Kept(txn'[d], db')
    <3>1. CASE d = c
      BY <1>2, <1>4, <1>9, <3>1
    <3>2. CASE d # c
      BY <1>2, <1>4, <2>2, <3>2 DEF SerialInv
    <3> QED BY <3>1, <3>2
  <2> QED BY <1>2, <1>4, <2>2 DEF SerialInv
<1> QED BY <1>2, <1>10, Stutters

\* A transaction given up leaves nothing behind.
LEMMA DiscardIsSerial ==
  ASSUME SerialInv, NEW c \in Clients, Discard(c)
  PROVE  SerialInv' /\ UNCHANGED Promise!cvars
<1>1. db' = db /\ committed' = committed /\ txn' = [txn EXCEPT ![c] = NoTxn]
  BY DEF Discard
<1>2. SerialInv'
  BY <1>1 DEF SerialInv
<1> QED BY <1>1, <1>2, Stutters

\* A commit without a conflict carries out its operations at that moment.
LEMMA CommitIsSerial ==
  ASSUME SerialInv, NEW c \in Clients, Commit(c)
  PROVE  SerialInv' /\ Promise!Next
<1>1. PICK t, w, new : t = txn[c] /\ w = t.writes /\ new = Over(db, w)
  OBVIOUS
<1>2. Kept(t, db) /\ DOMAIN txn = Clients /\ Formed(db)
  BY <1>1 DEF SerialInv, Commit
<1>3. /\ db' = new /\ committed' = t.log /\ ~Conflict(t)
      /\ txn' = [d \in Clients |->
                    IF d = c THEN NoTxn
                    ELSE IF txn[d] = NoTxn THEN NoTxn
                    ELSE [txn[d] EXCEPT !.stale = txn[d].stale \cup DOMAIN w]]
  BY <1>1 DEF Commit
<1>4. Fresh(t, db) /\ Serial(t) /\ Quiet(t)
  BY <1>2 DEF Kept
<1>5. ASSUME w = Nothing PROVE Formed(new) /\ Promise!Next
  <2>1. new = db
    BY <1>1, <1>2, <1>5, NothingOver
  <2>2. \A i \in DOMAIN t.log : Promise!NoEffect(t.log[i])
    BY <1>1, <1>4, <1>5 DEF Quiet, Nothing
  <2>3. Promise!Contents' = Promise!Contents
    BY <1>3, <2>1, ContentsAre
  <2>4. Promise!ReadOnly
    BY <1>3, <2>2, <2>3 DEF Promise!ReadOnly
  <2> QED BY <1>2, <2>1, <2>4 DEF Promise!Next
<1>6. ASSUME w # Nothing PROVE Formed(new) /\ Promise!Next
  <2>1. \A key \in t.reads : Alike(db, t.snap, key)
    BY <1>1, <1>3, <1>4, <1>6 DEF Conflict, Fresh
  <2>2. /\ Formed(new)
        /\ Promise!Replay(Holds(db), t.log) = [state |-> Holds(new), right |-> TRUE]
    BY <1>1, <1>2, <1>4, <2>1 DEF Serial
  <2>3. PICK s, s2 : s = Promise!Contents /\ s2 = Holds(new)
    OBVIOUS
  <2>4. Promise!Replay(s, committed') = [state |-> s2, right |-> TRUE]
    BY <1>3, <2>2, <2>3, ContentsAre
  <2>5. Promise!Replay(s, committed').right /\ Promise!Replay(s, committed').state = s2
    BY <2>4
  <2>6. Promise!Contents' = s2
    BY <1>3, <2>3, ContentsAre
  <2>7. Promise!Update
    BY <2>3, <2>5, <2>6 DEF Promise!Update
  <2> QED BY <2>2, <2>7 DEF Promise!Next
<1>7. Formed(new) /\ Promise!Next
  BY <1>5, <1>6
<1>8. ASSUME NEW d \in Clients, txn'[d] # NoTxn PROVE Kept(txn'[d], new)
  <2>1. PICK u, u2 : u = txn[d] /\ u2 = txn'[d]
    OBVIOUS
  <2>2. d # c /\ u # NoTxn /\ u2 = [u EXCEPT !.stale = u.stale \cup DOMAIN w]
    BY <1>3, <1>8, <2>1
  <2>3. Kept(u, db)
    BY <1>8, <2>1, <2>2 DEF SerialInv
  <2>4. /\ u2.snap = u.snap /\ u2.reads = u.reads /\ u2.writes = u.writes /\ u2.log = u.log
        /\ u2.stale = u.stale \cup DOMAIN w
        /\ u2 = [snap |-> u2.snap, reads |-> u2.reads, writes |-> u2.writes, stale |-> u2.stale,
                 log |-> u2.log]
    <3>1. u = [snap |-> u.snap, reads |-> u.reads, writes |-> u.writes, stale |-> u.stale,
               log |-> u.log]
      BY <2>3 DEF Kept
    <3> QED BY <2>2, <3>1
  <2>5. Fresh(u2, new)
    <3>1. \A key : key \notin DOMAIN w => Alike(new, db, key)
      BY <1>1, OverWrites
    <3>2. \A key : key \notin u.stale => Alike(db, u.snap, key)
      BY <2>3 DEF Kept, Fresh
    <3>3. \A key : key \notin u2.stale => Alike(new, u.snap, key)
      BY <2>4, <3>1, <3>2 DEF Alike
    <3> QED BY <2>4, <3>3 DEF Fresh
  <2>6. Serial(u2) /\ Quiet(u2)
    BY <2>3, <2>4 DEF Kept, Serial, Quiet
  <2> QED BY <2>1, <2>3, <2>4, <2>5, <2>6 DEF Kept
<1>9. SerialInv'
  <2>1. DOMAIN txn' = Clients
    BY <1>3
  <2> QED BY <1>3, <1>7, <1>8, <2>1 DEF SerialInv
<1> QED BY <1>7, <1>9

\* The effect of set is exact wherever its reads agree.
LEMMA SetFaithful ==
  ASSUME NEW view, NEW k \in Names, NEW x \in Values
  PROVE  Faithful("set", k, x, set(k, x), view)
<1>1. set(k, x).writes = [key \in DOMAIN set(k, x).writes |-> set(k, x).writes[key]]
  BY DEF set, Effect, Put
<1>2. ASSUME NEW v, Formed(v), \A key \in set(k, x).reads : Alike(v, view, key)
      PROVE  Exact(v, Entry("set", k, x, set(k, x)), set(k, x))
  BY <1>2, SetExact
<1> QED BY <1>1, <1>2 DEF Faithful

\* The effect of del is exact wherever its reads agree.
LEMMA DelFaithful ==
  ASSUME NEW view, NEW k \in Names
  PROVE  Faithful("del", k, "", del(k), view)
<1>1. del(k).writes = [key \in DOMAIN del(k).writes |-> del(k).writes[key]]
  BY DEF del, Effect, Delete
<1>2. ASSUME NEW v, Formed(v), \A key \in del(k).reads : Alike(v, view, key)
      PROVE  Exact(v, Entry("del", k, "", del(k)), del(k))
  BY <1>2, DelExact
<1> QED BY <1>1, <1>2 DEF Faithful

\* The effect of get is exact wherever its reads agree.
LEMMA GetFaithful ==
  ASSUME NEW view, NEW k \in Names
  PROVE  Faithful("get", k, "", get(view, k), view)
<1>1. get(view, k).writes = [key \in DOMAIN get(view, k).writes |-> get(view, k).writes[key]]
  BY DEF get, Answer, Effect, Nothing
<1>2. ASSUME NEW v, Formed(v), \A key \in get(view, k).reads : Alike(v, view, key)
      PROVE  Exact(v, Entry("get", k, "", get(view, k)), get(view, k))
  BY <1>2, GetExact
<1> QED BY <1>1, <1>2 DEF Faithful

\* The effect of mset is exact wherever its reads agree.
LEMMA MsetFaithful ==
  ASSUME NEW view, NEW k \in Names, NEW x \in Values, NEW y \in Values
  PROVE  Faithful("mset", k, <<x, y>>, mset(k, x, y), view)
<1>1. mset(k, x, y).writes = [key \in DOMAIN mset(k, x, y).writes |-> mset(k, x, y).writes[key]]
  BY DEF mset, Effect, Put
<1>2. ASSUME NEW v, Formed(v), \A key \in mset(k, x, y).reads : Alike(v, view, key)
      PROVE  Exact(v, Entry("mset", k, <<x, y>>, mset(k, x, y)), mset(k, x, y))
  BY <1>2, MsetExact
<1> QED BY <1>1, <1>2 DEF Faithful

\* The effect of mdel is exact wherever its reads agree.
LEMMA MdelFaithful ==
  ASSUME NEW view, NEW k \in Names, NEW x \in Values
  PROVE  Faithful("mdel", k, x, mdel(k, x), view)
<1>1. mdel(k, x).writes = [key \in DOMAIN mdel(k, x).writes |-> mdel(k, x).writes[key]]
  BY DEF mdel, Effect, Delete
<1>2. ASSUME NEW v, Formed(v), \A key \in mdel(k, x).reads : Alike(v, view, key)
      PROVE  Exact(v, Entry("mdel", k, x, mdel(k, x)), mdel(k, x))
  BY <1>2, MdelExact
<1> QED BY <1>1, <1>2 DEF Faithful

\* The effect of mget is exact wherever its reads agree.
LEMMA MgetFaithful ==
  ASSUME NEW view, NEW k \in Names, NEW x \in Values
  PROVE  Faithful("mget", k, x, mget(view, k, x), view)
<1>1. mget(view, k, x).writes = [key \in DOMAIN mget(view, k, x).writes |-> mget(view, k, x).writes[key]]
  BY DEF mget, Answer, Effect, Nothing
<1>2. ASSUME NEW v, Formed(v), \A key \in mget(view, k, x).reads : Alike(v, view, key)
      PROVE  Exact(v, Entry("mget", k, x, mget(view, k, x)), mget(view, k, x))
  BY <1>2, MgetExact
<1> QED BY <1>1, <1>2 DEF Faithful

\* The effect of mkvs is exact wherever its reads agree.
LEMMA MkvsFaithful ==
  ASSUME NEW view, NEW k \in Names
  PROVE  Faithful("mkvs", k, "", mkvs(view, k), view)
<1>1. mkvs(view, k).writes = [key \in DOMAIN mkvs(view, k).writes |-> mkvs(view, k).writes[key]]
  BY DEF mkvs, Answer, Effect, Nothing
<1>2. ASSUME NEW v, Formed(v), \A key \in mkvs(view, k).reads : Alike(v, view, key)
      PROVE  Exact(v, Entry("mkvs", k, "", mkvs(view, k)), mkvs(view, k))
  BY <1>2, MkvsExact
<1> QED BY <1>1, <1>2 DEF Faithful

\* The effect of mclear is exact wherever its reads agree.
LEMMA MclearFaithful ==
  ASSUME NEW view, NEW k \in Names, NEW gone, gone \subseteq EntriesOf(view, "m", k)
  PROVE  Faithful("mclear", k, "", mclear(view, k, gone), view)
<1>1. mclear(view, k, gone).writes = [key \in DOMAIN mclear(view, k, gone).writes |-> mclear(view, k, gone).writes[key]]
  BY DEF mclear, Effect, Delete
<1>2. ASSUME NEW v, Formed(v), \A key \in mclear(view, k, gone).reads : Alike(v, view, key)
      PROVE  Exact(v, Entry("mclear", k, "", mclear(view, k, gone)), mclear(view, k, gone))
  BY <1>2, MclearExact
<1> QED BY <1>1, <1>2 DEF Faithful

\* The effect of sadd is exact wherever its reads agree.
LEMMA SaddFaithful ==
  ASSUME NEW view, NEW k \in Names, NEW x \in Values
  PROVE  Faithful("sadd", k, x, sadd(k, x), view)
<1>1. sadd(k, x).writes = [key \in DOMAIN sadd(k, x).writes |-> sadd(k, x).writes[key]]
  BY DEF sadd, Effect, Put
<1>2. ASSUME NEW v, Formed(v), \A key \in sadd(k, x).reads : Alike(v, view, key)
      PROVE  Exact(v, Entry("sadd", k, x, sadd(k, x)), sadd(k, x))
  BY <1>2, SaddExact
<1> QED BY <1>1, <1>2 DEF Faithful

\* The effect of sdel is exact wherever its reads agree.
LEMMA SdelFaithful ==
  ASSUME NEW view, NEW k \in Names, NEW x \in Values
  PROVE  Faithful("sdel", k, x, sdel(k, x), view)
<1>1. sdel(k, x).writes = [key \in DOMAIN sdel(k, x).writes |-> sdel(k, x).writes[key]]
  BY DEF sdel, Effect, Delete
<1>2. ASSUME NEW v, Formed(v), \A key \in sdel(k, x).reads : Alike(v, view, key)
      PROVE  Exact(v, Entry("sdel", k, x, sdel(k, x)), sdel(k, x))
  BY <1>2, SdelExact
<1> QED BY <1>1, <1>2 DEF Faithful

\* The effect of selem is exact wherever its reads agree.
LEMMA SelemFaithful ==
  ASSUME NEW view, NEW k \in Names, NEW x \in Values
  PROVE  Faithful("selem", k, x, selem(view, k, x), view)
<1>1. selem(view, k, x).writes = [key \in DOMAIN selem(view, k, x).writes |-> selem(view, k, x).writes[key]]
  BY DEF selem, Answer, Effect, Nothing
<1>2. ASSUME NEW v, Formed(v), \A key \in selem(view, k, x).reads : Alike(v, view, key)
      PROVE  Exact(v, Entry("selem", k, x, selem(view, k, x)), selem(view, k, x))
  BY <1>2, SelemExact
<1> QED BY <1>1, <1>2 DEF Faithful

\* The effect of smembers is exact wherever its reads agree.
LEMMA SmembersFaithful ==
  ASSUME NEW view, NEW k \in Names
  PROVE  Faithful("smembers", k, "", smembers(view, k), view)
<1>1. smembers(view, k).writes = [key \in DOMAIN smembers(view, k).writes |-> smembers(view, k).writes[key]]
  BY DEF smembers, Answer, Effect, Nothing
<1>2. ASSUME NEW v, Formed(v), \A key \in smembers(view, k).reads : Alike(v, view, key)
      PROVE  Exact(v, Entry("smembers", k, "", smembers(view, k)), smembers(view, k))
  BY <1>2, SmembersExact
<1> QED BY <1>1, <1>2 DEF Faithful

\* The effect of sclear is exact wherever its reads agree.
LEMMA SclearFaithful ==
  ASSUME NEW view, NEW k \in Names, NEW gone, gone \subseteq EntriesOf(view, "s", k)
  PROVE  Faithful("sclear", k, "", sclear(view, k, gone), view)
<1>1. sclear(view, k, gone).writes = [key \in DOMAIN sclear(view, k, gone).writes |-> sclear(view, k, gone).writes[key]]
  BY DEF sclear, Effect, Delete
<1>2. ASSUME NEW v, Formed(v), \A key \in sclear(view, k, gone).reads : Alike(v, view, key)
      PROVE  Exact(v, Entry("sclear", k, "", sclear(view, k, gone)), sclear(view, k, gone))
  BY <1>2, SclearExact
<1> QED BY <1>1, <1>2 DEF Faithful

\* The effect of llen is exact wherever its reads agree.
LEMMA LlenFaithful ==
  ASSUME NEW view, NEW k \in Names
  PROVE  Faithful("llen", k, "", llen(view, k), view)
<1>1. llen(view, k).writes = [key \in DOMAIN llen(view, k).writes |-> llen(view, k).writes[key]]
  BY DEF llen, Answer, Effect, Nothing
<1>2. ASSUME NEW v, Formed(v), \A key \in llen(view, k).reads : Alike(v, view, key)
      PROVE  Exact(v, Entry("llen", k, "", llen(view, k)), llen(view, k))
  BY <1>2, LlenExact
<1> QED BY <1>1, <1>2 DEF Faithful

\* The effect of lclear is exact wherever its reads agree.
LEMMA LclearFaithful ==
  ASSUME NEW view, NEW k \in Names
  PROVE  Faithful("lclear", k, "", lclear(view, k), view)
<1>1. lclear(view, k).writes = [key \in DOMAIN lclear(view, k).writes |-> lclear(view, k).writes[key]]
  BY DEF lclear, Answer, Effect, Nothing, Delete
<1>2. ASSUME NEW v, Formed(v), \A key \in lclear(view, k).reads : Alike(v, view, key)
      PROVE  Exact(v, Entry("lclear", k, "", lclear(view, k)), lclear(view, k))
  BY <1>2, LclearExact
<1> QED BY <1>1, <1>2 DEF Faithful

\* The effect of llpush is exact wherever its reads agree.
LEMMA LlpushFaithful ==
  ASSUME NEW view, NEW k \in Names, NEW x \in Values
  PROVE  Faithful("llpush", k, x, llpush(view, k, x), view)
<1>1. llpush(view, k, x).writes = [key \in DOMAIN llpush(view, k, x).writes |-> llpush(view, k, x).writes[key]]
  BY DEF llpush, Answer, Effect, Nothing, Amend
<1>2. ASSUME NEW v, Formed(v), \A key \in llpush(view, k, x).reads : Alike(v, view, key)
      PROVE  Exact(v, Entry("llpush", k, x, llpush(view, k, x)), llpush(view, k, x))
  BY <1>2, LlpushExact
<1> QED BY <1>1, <1>2 DEF Faithful

\* The effect of lrpush is exact wherever its reads agree.
LEMMA LrpushFaithful ==
  ASSUME NEW view, NEW k \in Names, NEW x \in Values
  PROVE  Faithful("lrpush", k, x, lrpush(view, k, x), view)
<1>1. lrpush(view, k, x).writes = [key \in DOMAIN lrpush(view, k, x).writes |-> lrpush(view, k, x).writes[key]]
  BY DEF lrpush, Answer, Effect, Nothing, Amend
<1>2. ASSUME NEW v, Formed(v), \A key \in lrpush(view, k, x).reads : Alike(v, view, key)
      PROVE  Exact(v, Entry("lrpush", k, x, lrpush(view, k, x)), lrpush(view, k, x))
  BY <1>2, LrpushExact
<1> QED BY <1>1, <1>2 DEF Faithful

\* The effect of llpop is exact wherever its reads agree.
LEMMA LlpopFaithful ==
  ASSUME NEW view, NEW k \in Names
  PROVE  Faithful("llpop", k, "", llpop(view, k), view)
<1>1. llpop(view, k).writes = [key \in DOMAIN llpop(view, k).writes |-> llpop(view, k).writes[key]]
  BY DEF llpop, Pop, Answer, Effect, Nothing, SetEnds, Put
<1>2. ASSUME NEW v, Formed(v), \A key \in llpop(view, k).reads : Alike(v, view, key)
      PROVE  Exact(v, Entry("llpop", k, "", llpop(view, k)), llpop(view, k))
  BY <1>2, LlpopExact
<1> QED BY <1>1, <1>2 DEF Faithful

\* The effect of lrpop is exact wherever its reads agree.
LEMMA LrpopFaithful ==
  ASSUME NEW view, NEW k \in Names
  PROVE  Faithful("lrpop", k, "", lrpop(view, k), view)
<1>1. lrpop(view, k).writes = [key \in DOMAIN lrpop(view, k).writes |-> lrpop(view, k).writes[key]]
  BY DEF lrpop, Pop, Answer, Effect, Nothing, SetEnds, Put
<1>2. ASSUME NEW v, Formed(v), \A key \in lrpop(view, k).reads : Alike(v, view, key)
      PROVE  Exact(v, Entry("lrpop", k, "", lrpop(view, k)), lrpop(view, k))
  BY <1>2, LrpopExact
<1> QED BY <1>1, <1>2 DEF Faithful

\* The effect of lset is exact wherever its reads agree.
LEMMA LsetFaithful ==
  ASSUME NEW view, NEW k \in Names, NEW i, i \in Int, NEW x \in Values
  PROVE  Faithful("lset", k, x, lset(view, k, i, x), view)
<1>1. lset(view, k, i, x).writes = [key \in DOMAIN lset(view, k, i, x).writes |-> lset(view, k, i, x).writes[key]]
  BY DEF lset, Answer, Effect, Nothing, Put
<1>2. ASSUME NEW v, Formed(v), \A key \in lset(view, k, i, x).reads : Alike(v, view, key)
      PROVE  Exact(v, Entry("lset", k, x, lset(view, k, i, x)), lset(view, k, i, x))
  BY <1>2, LsetExact
<1> QED BY <1>1, <1>2 DEF Faithful

\* The effect of lindex is exact wherever its reads agree.
LEMMA LindexFaithful ==
  ASSUME NEW view, NEW k \in Names, NEW i
  PROVE  Faithful("lindex", k, i, lindex(view, k, i), view)
<1>1. lindex(view, k, i).writes = [key \in DOMAIN lindex(view, k, i).writes |-> lindex(view, k, i).writes[key]]
  BY DEF lindex, Answer, Effect, Nothing
<1>2. ASSUME NEW v, Formed(v), \A key \in lindex(view, k, i).reads : Alike(v, view, key)
      PROVE  Exact(v, Entry("lindex", k, i, lindex(view, k, i)), lindex(view, k, i))
  <2>1. lindex(view, k, i).writes = Nothing
    BY DEF lindex, Answer, Effect
  <2>2. Entry("lindex", k, i, lindex(view, k, i)).op = "lindex"
    BY DEF Entry
  <2> QED BY <1>2, <2>1, <2>2, RangeExact
<1> QED BY <1>1, <1>2 DEF Faithful

\* The effect of lrange is exact wherever its reads agree.
LEMMA LrangeFaithful ==
  ASSUME NEW view, NEW k \in Names, NEW i, NEW j
  PROVE  Faithful("lrange", k, <<i, j>>, lrange(view, k, i, j), view)
<1>1. lrange(view, k, i, j).writes = [key \in DOMAIN lrange(view, k, i, j).writes |-> lrange(view, k, i, j).writes[key]]
  BY DEF lrange, Answer, Effect, Nothing
<1>2. ASSUME NEW v, Formed(v), \A key \in lrange(view, k, i, j).reads : Alike(v, view, key)
      PROVE  Exact(v, Entry("lrange", k, <<i, j>>, lrange(view, k, i, j)), lrange(view, k, i, j))
  <2>1. lrange(view, k, i, j).writes = Nothing
    BY DEF lrange, Answer, Effect
  <2>2. Entry("lrange", k, <<i, j>>, lrange(view, k, i, j)).op = "lrange"
    BY DEF Entry
  <2> QED BY <1>2, <2>1, <2>2, RangeExact
<1> QED BY <1>1, <1>2 DEF Faithful

\* The effect of zadd is exact wherever its reads agree.
LEMMA ZaddFaithful ==
  ASSUME NEW view, NEW k \in Names, NEW s \in Scores, NEW x \in Values
  PROVE  Faithful("zadd", k, <<x, s>>, zadd(k, s, x), view)
<1>1. zadd(k, s, x).writes = [key \in DOMAIN zadd(k, s, x).writes |-> zadd(k, s, x).writes[key]]
  BY DEF zadd, Effect, Amend
<1>2. ASSUME NEW v, Formed(v), \A key \in zadd(k, s, x).reads : Alike(v, view, key)
      PROVE  Exact(v, Entry("zadd", k, <<x, s>>, zadd(k, s, x)), zadd(k, s, x))
  BY <1>2, ZaddExact
<1> QED BY <1>1, <1>2 DEF Faithful

\* The effect of zdel is exact wherever its reads agree.
LEMMA ZdelFaithful ==
  ASSUME NEW view, NEW k \in Names, NEW x \in Values
  PROVE  Faithful("zdel", k, x, zdel(view, k, x), view)
<1>1. zdel(view, k, x).writes = [key \in DOMAIN zdel(view, k, x).writes |-> zdel(view, k, x).writes[key]]
  BY DEF zdel, Answer, Effect, Nothing, Delete
<1>2. ASSUME NEW v, Formed(v), \A key \in zdel(view, k, x).reads : Alike(v, view, key)
      PROVE  Exact(v, Entry("zdel", k, x, zdel(view, k, x)), zdel(view, k, x))
  BY <1>2, ZdelExact
<1> QED BY <1>1, <1>2 DEF Faithful

\* The effect of zscore is exact wherever its reads agree.
LEMMA ZscoreFaithful ==
  ASSUME NEW view, NEW k \in Names, NEW x \in Values
  PROVE  Faithful("zscore", k, x, zscore(view, k, x), view)
<1>1. zscore(view, k, x).writes = [key \in DOMAIN zscore(view, k, x).writes |-> zscore(view, k, x).writes[key]]
  BY DEF zscore, Answer, Effect, Nothing
<1>2. ASSUME NEW v, Formed(v), \A key \in zscore(view, k, x).reads : Alike(v, view, key)
      PROVE  Exact(v, Entry("zscore", k, x, zscore(view, k, x)), zscore(view, k, x))
  BY <1>2, ZscoreExact
<1> QED BY <1>1, <1>2 DEF Faithful

\* The effect of zclear is exact wherever its reads agree.
LEMMA ZclearFaithful ==
  ASSUME NEW view, NEW k \in Names
  PROVE  Faithful("zclear", k, "", zclear(view, k), view)
<1>1. zclear(view, k).writes = [key \in DOMAIN zclear(view, k).writes |-> zclear(view, k).writes[key]]
  BY DEF zclear, Effect, Delete
<1>2. ASSUME NEW v, Formed(v), \A key \in zclear(view, k).reads : Alike(v, view, key)
      PROVE  Exact(v, Entry("zclear", k, "", zclear(view, k)), zclear(view, k))
  BY <1>2, ZclearExact
<1> QED BY <1>1, <1>2 DEF Faithful

\* The effect of zrange is exact wherever its reads agree.
LEMMA ZrangeFaithful ==
  ASSUME NEW view, NEW k \in Names, NEW lo, NEW hi
  PROVE  Faithful("zrange", k, <<lo, hi>>, zrange(view, k, lo, hi), view)
<1>1. zrange(view, k, lo, hi).writes = [key \in DOMAIN zrange(view, k, lo, hi).writes |-> zrange(view, k, lo, hi).writes[key]]
  BY DEF zrange, Answer, Effect, Nothing
<1>2. ASSUME NEW v, Formed(v), \A key \in zrange(view, k, lo, hi).reads : Alike(v, view, key)
      PROVE  Exact(v, Entry("zrange", k, <<lo, hi>>, zrange(view, k, lo, hi)), zrange(view, k, lo, hi))
  <2>1. zrange(view, k, lo, hi).writes = Nothing
    BY DEF zrange, Answer, Effect
  <2>2. Entry("zrange", k, <<lo, hi>>, zrange(view, k, lo, hi)).op = "zrange"
    BY DEF Entry
  <2> QED BY <1>2, <2>1, <2>2, RangeExact
<1> QED BY <1>1, <1>2 DEF Faithful

\* Plain values.
LEMMA PlainOpsAreSerial ==
  ASSUME SerialInv, NEW c \in Clients, InTxn(c), NEW k \in Names, PlainOps(c, k)
  PROVE  SerialInv' /\ UNCHANGED Promise!cvars
<1>1. txn[c] # NoTxn
  BY DEF InTxn
<1>2. ASSUME Del(c, k) PROVE SerialInv' /\ UNCHANGED Promise!cvars
  BY <1>1, <1>2, DelFaithful, DoIsSerial DEF Del
<1>3. ASSUME Get(c, k) PROVE SerialInv' /\ UNCHANGED Promise!cvars
  BY <1>1, <1>3, GetFaithful, DoIsSerial DEF Get
<1>4. ASSUME NEW v \in Values, Set(c, k, v) PROVE SerialInv' /\ UNCHANGED Promise!cvars
  BY <1>1, <1>4, SetFaithful, DoIsSerial DEF Set
<1> QED BY <1>2, <1>3, <1>4 DEF PlainOps

\* Maps.
LEMMA MapOpsAreSerial ==
  ASSUME SerialInv, NEW c \in Clients, InTxn(c), NEW k \in Names, MapOps(c, k)
  PROVE  SerialInv' /\ UNCHANGED Promise!cvars
<1>1. txn[c] # NoTxn
  BY DEF InTxn
<1>2. ASSUME Mkvs(c, k) PROVE SerialInv' /\ UNCHANGED Promise!cvars
  BY <1>1, <1>2, MkvsFaithful, DoIsSerial DEF Mkvs
<1>3. ASSUME Mclear(c, k) PROVE SerialInv' /\ UNCHANGED Promise!cvars
  <2>1. PICK gone : /\ gone \subseteq EntriesOf(View(c), "m", k)
                   /\ Do(c, "mclear", k, "", mclear(View(c), k, gone))
    BY <1>3 DEF Mclear
  <2>2. Faithful("mclear", k, "", mclear(View(c), k, gone), View(c))
    BY <2>1, MclearFaithful
  <2> QED BY <1>1, <2>1, <2>2, DoIsSerial
<1>4. ASSUME NEW x \in Values, Mdel(c, k, x) PROVE SerialInv' /\ UNCHANGED Promise!cvars
  BY <1>1, <1>4, MdelFaithful, DoIsSerial DEF Mdel
<1>5. ASSUME NEW x \in Values, Mget(c, k, x) PROVE SerialInv' /\ UNCHANGED Promise!cvars
  BY <1>1, <1>5, MgetFaithful, DoIsSerial DEF Mget
<1>6. ASSUME NEW x \in Values, NEW v \in Values, Mset(c, k, x, v) PROVE SerialInv' /\ UNCHANGED Promise!cvars
  BY <1>1, <1>6, MsetFaithful, DoIsSerial DEF Mset
<1> QED BY <1>2, <1>3, <1>4, <1>5, <1>6 DEF MapOps

\* Sets.
LEMMA SetOpsAreSerial ==
  ASSUME SerialInv, NEW c \in Clients, InTxn(c), NEW k \in Names, SetOps(c, k)
  PROVE  SerialInv' /\ UNCHANGED Promise!cvars
<1>1. txn[c] # NoTxn
  BY DEF InTxn
<1>2. ASSUME Smembers(c, k) PROVE SerialInv' /\ UNCHANGED Promise!cvars
  BY <1>1, <1>2, SmembersFaithful, DoIsSerial DEF Smembers
<1>3. ASSUME Sclear(c, k) PROVE SerialInv' /\ UNCHANGED Promise!cvars
  <2>1. PICK gone : /\ gone \subseteq EntriesOf(View(c), "s", k)
                   /\ Do(c, "sclear", k, "", sclear(View(c), k, gone))
    BY <1>3 DEF Sclear
  <2>2. Faithful("sclear", k, "", sclear(View(c), k, gone), View(c))
    BY <2>1, SclearFaithful
  <2> QED BY <1>1, <2>1, <2>2, DoIsSerial
<1>4. ASSUME NEW v \in Values, Sadd(c, k, v) PROVE SerialInv' /\ UNCHANGED Promise!cvars
  BY <1>1, <1>4, SaddFaithful, DoIsSerial DEF Sadd
<1>5. ASSUME NEW v \in Values, Sdel(c, k, v) PROVE SerialInv' /\ UNCHANGED Promise!cvars
  BY <1>1, <1>5, SdelFaithful, DoIsSerial DEF Sdel
<1>6. ASSUME NEW v \in Values, Selem(c, k, v) PROVE SerialInv' /\ UNCHANGED Promise!cvars
  BY <1>1, <1>6, SelemFaithful, DoIsSerial DEF Selem
<1> QED BY <1>2, <1>3, <1>4, <1>5, <1>6 DEF SetOps

\* Lists.
LEMMA ListOpsAreSerial ==
  ASSUME SerialInv, NEW c \in Clients, InTxn(c), NEW k \in Names, ListOps(c, k)
  PROVE  SerialInv' /\ UNCHANGED Promise!cvars
<1>1. txn[c] # NoTxn
  BY DEF InTxn
<1>2. ASSUME Llen(c, k) PROVE SerialInv' /\ UNCHANGED Promise!cvars
  BY <1>1, <1>2, LlenFaithful, DoIsSerial DEF Llen
<1>3. ASSUME Lclear(c, k) PROVE SerialInv' /\ UNCHANGED Promise!cvars
  BY <1>1, <1>3, LclearFaithful, DoIsSerial DEF Lclear
<1>4. ASSUME Llpop(c, k) PROVE SerialInv' /\ UNCHANGED Promise!cvars
  BY <1>1, <1>4, LlpopFaithful, DoIsSerial DEF Llpop
<1>5. ASSUME Lrpop(c, k) PROVE SerialInv' /\ UNCHANGED Promise!cvars
  BY <1>1, <1>5, LrpopFaithful, DoIsSerial DEF Lrpop
<1>6. ASSUME NEW v \in Values, Llpush(c, k, v) PROVE SerialInv' /\ UNCHANGED Promise!cvars
  BY <1>1, <1>6, LlpushFaithful, DoIsSerial DEF Llpush
<1>7. ASSUME NEW v \in Values, Lrpush(c, k, v) PROVE SerialInv' /\ UNCHANGED Promise!cvars
  BY <1>1, <1>7, LrpushFaithful, DoIsSerial DEF Lrpush
<1>8. ASSUME NEW i \in Indexes, Lindex(c, k, i) PROVE SerialInv' /\ UNCHANGED Promise!cvars
  BY <1>1, <1>8, LindexFaithful, DoIsSerial DEF Lindex
<1>9. ASSUME NEW i \in Indexes, NEW v \in Values, Lset(c, k, i, v) PROVE SerialInv' /\ UNCHANGED Promise!cvars
  <2>1. i \in Int
    BY StoreAssumption
  <2> QED BY <1>1, <1>9, <2>1, LsetFaithful, DoIsSerial DEF Lset
<1>10. ASSUME NEW i \in Indexes, NEW j \in Indexes, Lrange(c, k, i, j) PROVE SerialInv' /\ UNCHANGED Promise!cvars
  BY <1>1, <1>10, LrangeFaithful, DoIsSerial DEF Lrange
<1> QED BY <1>2, <1>3, <1>4, <1>5, <1>6, <1>7, <1>8, <1>9, <1>10 DEF ListOps

\* Scored sets.
LEMMA ScoreOpsAreSerial ==
  ASSUME SerialInv, NEW c \in Clients, InTxn(c), NEW k \in Names, ScoreOps(c, k)
  PROVE  SerialInv' /\ UNCHANGED Promise!cvars
<1>1. txn[c] # NoTxn
  BY DEF InTxn
<1>2. ASSUME Zclear(c, k) PROVE SerialInv' /\ UNCHANGED Promise!cvars
  BY <1>1, <1>2, ZclearFaithful, DoIsSerial DEF Zclear
<1>3. ASSUME NEW v \in Values, Zdel(c, k, v) PROVE SerialInv' /\ UNCHANGED Promise!cvars
  BY <1>1, <1>3, ZdelFaithful, DoIsSerial DEF Zdel
<1>4. ASSUME NEW v \in Values, Zscore(c, k, v) PROVE SerialInv' /\ UNCHANGED Promise!cvars
  BY <1>1, <1>4, ZscoreFaithful, DoIsSerial DEF Zscore
<1>5. ASSUME NEW s \in Scores, NEW v \in Values, Zadd(c, k, s, v) PROVE SerialInv' /\ UNCHANGED Promise!cvars
  BY <1>1, <1>5, ZaddFaithful, DoIsSerial DEF Zadd
<1>6. ASSUME NEW lo \in Scores, NEW hi \in Scores, Zrange(c, k, lo, hi) PROVE SerialInv' /\ UNCHANGED Promise!cvars
  BY <1>1, <1>6, ZrangeFaithful, DoIsSerial DEF Zrange
<1> QED BY <1>2, <1>3, <1>4, <1>5, <1>6 DEF ScoreOps

\* The steps of the store are steps of the promise or stutter.
LEMMA StepIsSerial ==
  ASSUME SerialInv, [Next]_vars
  PROVE  SerialInv' /\ [Promise!Next]_(Promise!cvars)
<1>1. ASSUME NEW c \in Clients, Begin(c) PROVE SerialInv' /\ UNCHANGED Promise!cvars
  BY <1>1, BeginIsSerial
<1>2. ASSUME NEW c \in Clients, Commit(c) PROVE SerialInv' /\ Promise!Next
  BY <1>2, CommitIsSerial
<1>3. ASSUME NEW c \in Clients, Discard(c) PROVE SerialInv' /\ UNCHANGED Promise!cvars
  BY <1>3, DiscardIsSerial
<1>4. ASSUME NEW c \in Clients, InTxn(c), NEW k \in Names,
             PlainOps(c, k) \/ MapOps(c, k) \/ SetOps(c, k) \/ ListOps(c, k) \/ ScoreOps(c, k)
      PROVE  SerialInv' /\ UNCHANGED Promise!cvars
  BY <1>4, PlainOpsAreSerial, MapOpsAreSerial, SetOpsAreSerial, ListOpsAreSerial,
     ScoreOpsAreSerial
<1>5. ASSUME UNCHANGED vars PROVE SerialInv' /\ UNCHANGED Promise!cvars
  <2>1. db' = db /\ txn' = txn /\ committed' = committed
    BY <1>5 DEF vars
  <2> QED BY <2>1, Stutters DEF SerialInv
<1> QED BY <1>1, <1>2, <1>3, <1>4, <1>5 DEF Next

\* Nothing is stored at first.
LEMMA InitIsSerial ==
  ASSUME Init
  PROVE  SerialInv /\ Promise!Init
<1>1. db = Nothing /\ txn = [c \in Clients |-> NoTxn] /\ committed = <<>>
  BY DEF Init
<1>2. Formed(db)
  BY <1>1 DEF Formed, Nothing, Whole, listStartEnd
<1>3. SerialInv
  BY <1>1, <1>2 DEF SerialInv
<1>4. \A tag : KeysTagged(tag) = {}
  BY <1>1 DEF KeysTagged, Nothing
<1>5. ASSUME NEW k \in Names PROVE ListOf(k) = <<>>
  <2>1. listStartEnd(db, k) = <<0, 0>>
    BY <1>1 DEF listStartEnd, Nothing
  <2>2. PICK m : m = listStartEnd(db, k)
    OBVIOUS
  <2>3. 1 .. m[2] - m[1] = {}
    BY <2>1, <2>2
  <2>4. ListOf(k) = [i \in 1 .. m[2] - m[1] |-> Stored(db, ListKey(k, m[1] + i - 1))]
    BY <2>2 DEF ListOf
  <2> QED BY <2>3, <2>4
<1>6. Promise!Init
  BY <1>1, <1>4, <1>5 DEF Promise!Init
<1> QED BY <1>3, <1>6

\* Transactions of bg.go that write take effect in the order of their commits,
\* on what their reads of single keys, pushes and pops have shown, and on the
\* entries and members that mkvs, smembers, mclear and sclear have returned.
THEOREM ImplementsCollectionsCorrect == Spec => ImplementsCollections
<1>1. Init => SerialInv /\ Promise!Init
  BY InitIsSerial
<1>2. SerialInv /\ [Next]_vars => SerialInv' /\ [Promise!Next]_(Promise!cvars)
  BY StepIsSerial
<1> QED BY <1>1, <1>2, PTL DEF Spec, ImplementsCollections, Promise!Spec
=============================================================================
