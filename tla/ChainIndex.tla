----------------------------- MODULE ChainIndex -----------------------------
(***************************************************************************)
(* What the chain's data base keeps about blocks and transactions          *)
(* (blockchain.go), and the handlers that read it for the HTTP and the RPC *)
(* clients (server.go, rpcclient.go).  A handler reads the store several   *)
(* times, each time in a transaction of its own, while blocks are added.   *)
(* Balances, nonces and contracts are the business of module Accounts.     *)
(***************************************************************************)
EXTENDS Store

CONSTANTS Readers,     \* requests being handled
          Txs,         \* transactions; a transaction stands for its hash
          Sender, Receiver,  \* addresses of a transaction
          PageSizes,   \* sizes of a page that clients ask for
          Idle,        \* the reader has nothing to do
          MaxBlocks,   \* bound: blocks made
          MaxRequests  \* bound: requests of one reader

\* A transaction as it is stored, with the height it was packed for; a block; a
\* block as the RPC server gives it; and what a handler has in hand.
TxRecord == [tx : Txs, number : Nat]
Block    == [height : Nat, hash : Nat, prev : Nat \cup {NotExist}, txs : Seq(TxRecord)]
RpcBlock == [height : Nat, hash : Nat, prev : Nat \cup {NotExist}, txs : Seq([tx : Txs])]
Jobs     == [op : {"latest", "block", "rpcblock", "section", "page"}, at : Int, to : Int,
             hash : Nat \cup {NotExist}, found : Seq(Block \cup RpcBlock),
             asof : Nat, num : Nat, page : Nat]

ASSUME ChainAssumption ==
    /\ MaxBlocks \in Nat /\ MaxRequests \in Nat /\ PageSizes \subseteq Nat
    /\ IsFiniteSet(Txs)
    /\ Gone \notin Nat \cup TxRecord \cup Block /\ Idle \notin Jobs

VARIABLES made,        \* number of blocks made: a block's hash is its number
          packed,      \* blocks made and not decided yet
          job,         \* job[r]: the request reader r is working on, or Idle
          answer,      \* answer[r]: its last answer
          shown,       \* shown[r]: heights on the pages turned over since the first one
          asked        \* asked[r]: number of requests so far

readers == <<job, answer, shown, asked>>
cvars == <<made, packed, job, answer, shown, asked>>

HeightKey  == RawKey(<<"height">>)
NumName(h) == <<"num", h>>
BlockName(hash) == <<"block", hash>>
TxName(t)  == <<"tx", t>>
Address(a) == <<"addr", a>>
HashKey(h) == MapKey(NumName(h), <<"hash">>)

---------------------------------------------------------------------------
(* Writing.  An operation is a record as in Store's log.                   *)

OpSet(k, v)     == [op |-> "set", name |-> k, arg |-> v, ret |-> "ok"]
OpMset(m, k, v) == [op |-> "mset", name |-> m, arg |-> <<k, v>>, ret |-> "ok"]

WriteOne(w, e) == Amend(w, IF e.op = "set" THEN set(e.name, e.arg).writes
                           ELSE mset(e.name, e.arg[1], e.arg[2]).writes)
WritesOf(ops)  == FoldLeft(WriteOne, Nothing, ops)

\* setTxbyaddr for both addresses, then setBlockdata.
TxOps(h, hash, d) ==
    << OpMset(Address(Sender[d.tx]), <<d.tx>>, d),
       OpMset(Address(Receiver[d.tx]), <<d.tx>>, d),
       OpMset(BlockName(hash), <<d.tx>>, d),
       OpMset(TxName(d.tx), d, h),
       OpSet(TxName(d.tx), d) >>

BlockOps(h, b) ==
    FoldLeft(LAMBDA ops, d : ops \o TxOps(h, b.hash, d),
             << OpMset(NumName(h), <<"hash">>, b.hash),
                OpSet(BlockName(b.hash), b),
                OpSet(NumName(h - 1), h + 1),
                OpSet(<<"height">>, h) >>,
             b.txs)

Height == db[HeightKey]

ChainStart ==
    /\ made = 0 /\ packed = {}
    /\ job = [r \in Readers |-> Idle]
    /\ answer = [r \in Readers |-> Idle]
    /\ shown = [r \in Readers |-> <<>>]
    /\ asked = [r \in Readers |-> 0]

ChainInit == Init /\ ChainStart

\* The writes ops in one transaction under Bc.mu, which no other writer of
\* these keys holds.
Write(ops) ==
    /\ db' = Over(db, WritesOf(ops))
    /\ committed' = ops
    /\ UNCHANGED <<readers, txn, used>>

\* The tool that creates the data base writes a first block of height 1.
GenesisBlock == [height |-> 1, hash |-> 0, prev |-> NotExist, txs |-> <<>>]

Genesis ==
    /\ Write(<<OpMset(NumName(1), <<"hash">>, 0), OpSet(BlockName(0), GenesisBlock),
               OpSet(NumName(1), 2), OpSet(<<"height">>, 1)>>)
    /\ UNCHANGED <<made, packed>>

BlockAt(h) == db[RawKey(BlockName(db[HashKey(h)]))]
OnChain(t) == RawKey(TxName(t)) \in DOMAIN db

\* NewBlock stamps the transactions with the height the block is made for.
\* Blocks with a transaction that is on the chain are left out: Pendings may make
\* one when a block comes before NewBlock, but it ends in VerifyBlcok's panic
\* (node.go:387) and is never added.
NewBlock(txs) ==
    /\ made < MaxBlocks
    /\ \A t \in txs : ~OnChain(t)
    /\ made' = made + 1
    /\ packed' = packed \cup
         {[height |-> Height + 1, hash |-> made + 1, prev |-> db[HashKey(Height)],
           txs |-> [i \in DOMAIN SetToSeq(txs) |->
                       [tx |-> SetToSeq(txs)[i], number |-> Height + 1]]]}
    /\ UNCHANGED <<readers, vars>>

\* A wrong form: the block goes to the next height whatever its own is.
AddBlockAnywhere(b) ==
    /\ Write(BlockOps(Height + 1, b))
    /\ packed' = packed \ {b}
    /\ UNCHANGED made

\* A decided block that extends the chain (node.go:379).
AddBlock(b) ==
    /\ b.height = Height + 1
    /\ Write(BlockOps(Height + 1, b))
    /\ packed' = packed \ {b}
    /\ UNCHANGED made

---------------------------------------------------------------------------
(* Reading.  A job wants the blocks from height at to height to, one after *)
(* the other; hash is what GetBlockByHeight has read of the block at at,   *)
(* found the blocks so far, asof the height when the request came.         *)

\* The RPC answers leave the number of a transaction out.
Unnumbered(d) == [tx |-> d.tx]

\* What the handlers pass on of a block: GetBlock_FY fills in the number of a
\* transaction itself.
Shown(op, b) ==
    CASE op = "latest"   -> [b EXCEPT !.txs = [i \in DOMAIN @ |-> [@[i] EXCEPT !.number = b.height]]]
      [] op = "rpcblock" -> [b EXCEPT !.txs = [i \in DOMAIN @ |-> Unnumbered(@[i])]]
      [] OTHER           -> b

\* The answer is left where the job was until the next request.
Reply(r, j, ok) ==
    /\ answer' = [answer EXCEPT ![r] = [op |-> j.op, ok |-> ok, found |-> j.found, asof |-> j.asof,
                                        to |-> j.to, page |-> j.page, num |-> j.num]]
    /\ job' = [job EXCEPT ![r] = Idle]

\* Does the loop of the handler go on?
More(j) ==
    CASE j.op = "section" -> j.at <= j.to
      [] j.op = "latest"  -> j.at >= 1 /\ j.found = <<>>
      [] OTHER            -> j.at >= j.to

Continue(r, j) ==
    IF More(j) THEN job' = [job EXCEPT ![r] = j] /\ UNCHANGED answer
    ELSE Reply(r, j, TRUE)

Job(op, at, to, num, page) ==
    [op |-> op, at |-> at, to |-> to, hash |-> NotExist, found |-> <<>>,
     asof |-> Height, num |-> num, page |-> page]

Asks(r) ==
    /\ job[r] = Idle
    /\ asked[r] < MaxRequests
    /\ asked' = [asked EXCEPT ![r] = @ + 1]
    /\ UNCHANGED <<made, packed, vars>>

\* Down from the newest block to one that has transactions.
GetBlock_FY(r) ==
    Asks(r) /\ Continue(r, Job("latest", Height, 1, 0, 0)) /\ UNCHANGED shown

GetBlockbyNum(r, h) ==
    Asks(r) /\ Continue(r, Job("block", h, h, 0, 0)) /\ UNCHANGED shown

GetBlockByNum(r, h) ==
    Asks(r) /\ Continue(r, Job("rpcblock", h, h, 0, 0)) /\ UNCHANGED shown

GetBlockSection(r, currentHeight, lastHeight) ==
    Asks(r) /\ Continue(r, Job("section", lastHeight, currentHeight, 0, 0)) /\ UNCHANGED shown

\* A wrong form: the pages after the first are counted from 0.
blocknumberFromZero(num, page) ==
    IF page = 1 THEN Height ELSE Height - page * num

\* The newest block of a page: pages are counted from the block that is the
\* newest at the time.
blocknumber(num, page) == Height - (page - 1) * num

GetBlockbyNum_FY(r, num, page) ==
    LET top == blocknumber(num, page)
        j   == Job("page", top, Max({1, top - num + 1}), num, page)
    IN /\ Asks(r)
       /\ shown' = [shown EXCEPT ![r] = IF page = 1 THEN <<>> ELSE @]
       /\ IF top <= 0 THEN Reply(r, j, FALSE) ELSE Continue(r, j)

\* A client turns the pages one by one.
TurnPage(r) == \E num \in PageSizes, page \in 0 .. 1 + MaxBlocks :
    /\ page > 1 => /\ answer[r] # Idle /\ answer[r].op = "page"
                   /\ answer[r].page = page - 1 /\ answer[r].num = num
    /\ GetBlockbyNum_FY(r, num, page)

\* A read fails: the page handler answers with what it has.
ReadFails(r, j) == Reply(r, j, j.op = "page") /\ UNCHANGED shown

\* The first read of GetBlockByHeight ...
ReadHash(r) ==
    LET j == job[r] IN
    /\ j # Idle /\ j.hash = NotExist
    /\ UNCHANGED <<made, packed, asked, vars>>
    /\ IF HashKey(j.at) \notin DOMAIN db THEN ReadFails(r, j)
       ELSE /\ job' = [job EXCEPT ![r].hash = db[HashKey(j.at)]]
            /\ UNCHANGED <<answer, shown>>

\* A wrong form: a block without transactions is shown like any other.
SkippedNever(j, b) == FALSE

Skipped(j, b) == j.op = "latest" /\ b.txs = <<>>

\* ... and the second one.
ReadBlock(r) ==
    LET j   == job[r]
        key == RawKey(BlockName(j.hash))
    IN /\ j # Idle /\ j.hash # NotExist
       /\ UNCHANGED <<made, packed, asked, vars>>
       /\ IF key \notin DOMAIN db THEN ReadFails(r, j)
          ELSE /\ Continue(r, [j EXCEPT !.hash = NotExist,
                                        !.at = IF j.op = "section" THEN @ + 1 ELSE @ - 1,
                                        !.found = IF Skipped(j, db[key]) THEN @
                                                  ELSE Append(@, Shown(j.op, db[key]))])
               /\ shown' = [shown EXCEPT ![r] = IF j.op = "page" THEN Append(@, j.at) ELSE @]

Heights == 1 .. 2 + MaxBlocks

Serving ==
    \/ \E txs \in SUBSET Txs : NewBlock(txs)
    \/ \E b \in packed : AddBlock(b)
    \/ \E r \in Readers :
         \/ GetBlock_FY(r) \/ TurnPage(r) \/ ReadHash(r) \/ ReadBlock(r)
         \/ \E h \in Heights : \/ GetBlockbyNum(r, h) \/ GetBlockByNum(r, h)
                               \/ \E last \in Heights : GetBlockSection(r, h, last)

ChainNext == (db = Nothing /\ Genesis) \/ (db # Nothing /\ Serving)

ChainSpec == ChainInit /\ [][ChainNext]_<<vars, cvars>>

---------------------------------------------------------------------------
(* Reads of the chain in one step, and the handlers that make one of them; *)
(* nothing found is an error there.                                        *)

GetMaxBlockHeight == Height
GetBlockByHash(hash) == Stored(db, RawKey(BlockName(hash)))
GetTransaction(t)    == Stored(db, RawKey(TxName(t)))
GetTransactionHeight(t) == Stored(db, MapKey(TxName(t), GetTransaction(t)))
GetTransactionByAddr(a) == {kv[2] : kv \in mkvs(db, Address(a)).ret}

GetMaxBlockNum          == GetMaxBlockHeight
GetBlockbyHash(hash)    == Shown("block", GetBlockByHash(hash))
RpcBlockByHash(hash)    == Shown("rpcblock", GetBlockByHash(hash))
GetTransactionbyhash(t) == GetTransaction(t)
GetTxByHash(t)          == Unnumbered(GetTransaction(t))
GetTransactionbyAddr(a) == GetTransactionByAddr(a)
GetTxsByAddr(a)         == {Unnumbered(d) : d \in GetTransactionByAddr(a)}

\* The newest block with transactions that a visitor is shown is the newest
\* one there was when the height was read (server.go:149-187), however many
\* blocks are added while the handler walks down the chain.
ExplorerShowsLatest ==
    \A r \in Readers : answer[r] # Idle /\ answer[r].op = "latest" =>
        LET a == answer[r]
            h == IF a.found = <<>> THEN 0 ELSE a.found[1].height
        IN /\ a.ok
           /\ h # 0 => /\ BlockAt(h).txs # <<>>
                       /\ a.found[1].hash = BlockAt(h).hash
                       /\ a.found[1].txs = BlockAt(h).txs
           /\ \A x \in h + 1 .. a.asof : BlockAt(x).txs = <<>>

\* A client that turns the pages while the chain grows sees some blocks again
\* but misses none below the newest one of its first page
\* (server.go:735-789).
PagesLeaveNoGap ==
    \A r \in Readers : shown[r] # <<>> =>
        \A h \in Min(ToSet(shown[r])) .. Head(shown[r]) : h \in ToSet(shown[r])

\* Blocks answered for a range are the ones of these heights and each names
\* the hash of the one before (blockchain.go:961-987 over AddBlock), although
\* every block is read in transactions of its own; a range that is on the
\* chain is never refused.
SectionsAreChained ==
    \A r \in Readers : answer[r] # Idle /\ answer[r].op = "section" =>
        LET found == answer[r].found IN
        /\ answer[r].ok \/ answer[r].to > answer[r].asof
        /\ \A i \in DOMAIN found :
              /\ found[i].height = found[1].height + i - 1
              /\ i > 1 => found[i].prev = found[i - 1].hash

\* The four places where a transaction is written (its hash, its block, and
\* both its addresses) and the number stamped on it when the block was made
\* name the height at which the block is on the chain (blockchain.go:139-146,
\* 289-367), so that the HTTP and the RPC handlers that read one of them tell
\* the same of it: several blocks may be made for a height, one is added.  A
\* comment in GetBlock_FY (server.go:203) takes the stored number for 0 and fills
\* in the block's height; the code stamps it (blockchain.go:146), so both agree.
TxIndexesAgree ==
    HeightKey \in DOMAIN db => \A h \in 1 .. GetMaxBlockNum : \A i \in DOMAIN BlockAt(h).txs :
        LET d == BlockAt(h).txs[i] IN
        /\ d.number = h
        /\ d = GetBlockbyHash(BlockAt(h).hash).txs[i]
        /\ d = GetTransactionbyhash(d.tx)
        /\ GetTransactionHeight(d.tx) = h
        /\ GetTxByHash(d.tx) = RpcBlockByHash(BlockAt(h).hash).txs[i]
        /\ \A a \in {Sender[d.tx], Receiver[d.tx]} :
              /\ d \in GetTransactionbyAddr(a) /\ GetTxByHash(d.tx) \in GetTxsByAddr(a)
              /\ \A e \in GetTransactionbyAddr(a) : e.number \in 1 .. GetMaxBlockNum
==============================================================================
