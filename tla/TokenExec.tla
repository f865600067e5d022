----------------------------- MODULE TokenExec -----------------------------
(***************************************************************************)
(* contract/exec: the scripts of transactions and the contract data base.  *)
(*                                                                         *)
(* exec.New runs a script against a data base without changing it: it      *)
(* collects the writes in a map.  Root() is a hash of that map, Flush()    *)
(* writes it.  A data base is a function from the keys it has to values; a *)
(* hash is the thing hashed.  A script is a sequence of statements.        *)
(*                                                                         *)
(* The code's keys are strings put together from a prefix, the token's id  *)
(* and an address.  Tuples stand for them, which are different whenever    *)
(* their parts are: ids are names that do not begin like another key.      *)
(***************************************************************************)
EXTENDS Naturals, Sequences, SequencesExt

CONSTANT Modulus  \* token amounts and balances are computed modulo this

ASSUME ModulusAssumption == Modulus \in Nat \ {0}

OwnerKey(id) == <<"", id>>
BalanceKey(id, addr) == <<"b/", id, addr>>
FreezeKey(id, addr) == <<"f/", id, addr>>
TotalKey(id, addr) == <<"t/", id, addr>>

\* Writing a value, and one map of values over another.
Entry(key, value) == [k \in {key} |-> value]
Over(f, g) == [k \in DOMAIN f \cup DOMAIN g |-> IF k \in DOMAIN f THEN f[k] ELSE g[k]]

\* A value as a statement sees it: what the script wrote, else the data base.
Has(db, mp, key) == key \in DOMAIN mp \/ key \in DOMAIN db
Lookup(db, mp, key, default) ==
  IF Has(db, mp, key) THEN Over(mp, db)[key] ELSE default

\* Only the token's owner, as the data base has it, may mint and freeze.
OwnedBy(db, id, executor) ==
  /\ OwnerKey(id) \in DOMAIN db
  /\ db[OwnerKey(id)] = executor

Frozen(db, mp, id, addr) == Lookup(db, mp, FreezeKey(id, addr), FALSE)
Amount(db, mp, id, addr) == Lookup(db, mp, BalanceKey(id, addr), 0)

\* Is the statement executed, and what does it write?
Permitted(db, mp, executor, sc) ==
  CASE sc.name = "new" -> ~Has(db, mp, OwnerKey(sc.id))
    [] sc.name = "transfer" ->
         /\ OwnerKey(sc.id) \in DOMAIN db
         /\ ~Frozen(db, mp, sc.id, executor)
         /\ Amount(db, mp, sc.id, executor) >= sc.amount
    [] OTHER -> OwnedBy(db, sc.id, executor)

\* deal2 reads both balances first and writes the receiver's last.
TransferWrites(db, mp, executor, sc) ==
  Over(Entry(BalanceKey(sc.id, sc.addr), (Amount(db, mp, sc.id, sc.addr) + sc.amount) % Modulus),
       Entry(BalanceKey(sc.id, executor), Amount(db, mp, sc.id, executor) - sc.amount))

MintWrites(db, mp, executor, sc) ==
  Entry(BalanceKey(sc.id, executor), (Amount(db, mp, sc.id, executor) + sc.amount) % Modulus)

NewWrites(executor, sc) ==
  Over(Over(Entry(OwnerKey(sc.id), executor), Entry(BalanceKey(sc.id, executor), 0)),
       Over(Entry(TotalKey(sc.id, executor), sc.amount),
            Entry(FreezeKey(sc.id, executor), FALSE)))

Writes(db, mp, executor, sc) ==
  CASE sc.name = "new" -> NewWrites(executor, sc)
    [] sc.name = "mint" -> MintWrites(db, mp, executor, sc)
    [] sc.name = "transfer" -> TransferWrites(db, mp, executor, sc)
    [] sc.name = "freeze" -> Entry(FreezeKey(sc.id, sc.addr), TRUE)
    [] sc.name = "unfreeze" -> Entry(FreezeKey(sc.id, sc.addr), FALSE)

\* exec.New: ok is FALSE when a statement fails, then there is no exec.
New(db, script, executor) ==
  FoldLeft(LAMBDA e, sc :
             IF e.ok /\ Permitted(db, e.mp, executor, sc)
             THEN [ok |-> TRUE, mp |-> Over(Writes(db, e.mp, executor, sc), e.mp)]
             ELSE [ok |-> FALSE, mp |-> <<>>],
           [ok |-> TRUE, mp |-> <<>>], script)

Root(e) == e.mp
Flush(db, e) == Over(e.mp, db)
=============================================================================
