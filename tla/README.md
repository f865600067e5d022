# A model of the kto node

The repository is a block chain node (Go module `kto`). A cluster of nodes
agrees on a log with etcd's raft; the log's entries are blocks, and every node
writes them to a badger data base of its own. These modules model how the log
becomes the chain and the services around that: the pools and the gossip that
fill the blocks, the data base under the chain and its server, the readers of
the chain, the members of the cluster. TLC checks them on small instances,
TLAPS proves part of them in general.

## The system

| component | source | state | operations | what makes it correct | module |
|---|---|---|---|---|---|
| consensus event loop | `raftconsensus/node.go`, `noderpc_server.go`, `snap.go` | raft storage, WAL, snapshot files, `committedIndex`, `snapshotIndex`, `lastHeight` | one Ready at a time: recover a snapshot, commit blocks, save the WAL, take a snapshot; restart | replicas hold prefixes of one chain, nothing is lost or written twice, a node can always recover and restart | `RaftNode` |
| block packing | `packBlock` in `node.go`, `server.PackBlock` | none | every second the leader proposes the next block | duplicates are harmless | `RaftNode`, `Accounts`, `TxPool` |
| cluster membership | `commitEntries`, `updateClusterInfo`, `NodeManagement`, `raftRpcClient/` | `peers`, `idPeer`, `confState` | add and remove a node, restart | every node knows the members | `Membership` |
| transaction pool | `txpool/` | `List` (a heap), `queue`, `Pending`, `item`, `balance` | `Add`, `Pendings`, `Filter` | a block has runs of nonces per sender, and every replica accepts it | `TxPool` |
| chain data base: accounts | `blockchain/` | balances, nonces, locks, height | `NewBlock`, `AddBlock`, `Checkresults`, `LockBalance`, ... | money is conserved, no balance wraps, replicas have equal balances and nonces, a lock is what was asked for | `Accounts` |
| chain data base: indexes | `blockchain/`, handlers in `server/`, `rpcclient/` | blocks by height and hash, transactions by hash and address | `AddBlock`, reads in several steps while blocks are added | readers see one chain without holes | `ChainIndex` |
| token contracts | `contract/exec` | token balances and freezes | `deal0` to `deal4`, `Root`, `Flush` | token amounts are conserved, `Root` is what `Flush` writes | `TokenExec` |
| gossip | `p2p/` | a map of messages not acknowledged | announce, push, pull, restart | a message is announced until a member has it | `Gossip` |
| API and RPC servers | `server/`, `rpcclient/` | limiter cache | handlers, the limit on requests | an address gets no more than its burst | `Limiter`, `ChainIndex`, `Gossip` |
| store | `until/store/bg` | badger keys that stand for lists, maps, sets, scored sets | `Llpush`, `Mset`, `Zadd`, ... in transactions | they behave as lists, maps, sets and scored sets under concurrent use | `Store` |
| store server | `until/store/server` | one connection and goroutine per client | 28 commands | answers come in order and belong to their requests; a queue gives each element once | `StoreServer` |
| Merkle trees | `until/merkle` | none | `New`, `VerifyNode` | data is found exactly if it is in the tree | `Merkle` |
| WAL recovery tool | `waldir/` | none | `-r`: the data base is rebuilt from a WAL | it is what the node had | `Accounts` |
| parser, messages, addresses, helpers, configuration | | none | | | not modelled, see the end |

Components meet as follows. A client's transaction goes through the RPC and
API servers into the pool and is gossiped to the other pools. On the leader
`packBlock` takes pending transactions into a block and proposes it. Raft
delivers it to every node's event loop, which filters the pool, checks the
block against the data base and writes it. Snapshots in this program are not
states but *increments*: snapshot `k * snapCount` holds the log entries since
the one before it. A node that is behind by several increments asks the leader
for the missing ones through an RPC (`HandleSnap`) while it handles the Ready.

Hard to test are: a crash between any two of the writes to the data base, the
WAL and the snapshot files; the fetch of increments from a leader that changes;
indexes kept in four places (`committedIndex`, hard state of the storage, WAL,
data base height); blocks of one height proposed twice; batches larger than an
increment; a block that is packed from one state of the data base and checked
and written in another; two data bases, written one after the other; lists
whose ends are kept in one key and whose elements in others, pushed and popped
by concurrent transactions; handlers that read a height, then a hash, then a
block, each in a transaction of its own; one hash object shared by the
goroutines of gossip; a heap whose order is not transitive; a lock released
between the look-up of a limiter and its addition. `PROJECT.json` lists them by
line under `hazards`.

## The modules

| module | contents |
|---|---|
| `AgreedLedger` | what the replicated chain promises: one ledger, every node's copy takes over its blocks one by one |
| `RaftNode` | the event loop, the packer, restarts; safety and liveness properties; implements `AgreedLedger` |
| `RaftNodeInv` | the inductive invariant |
| `RaftNodeProofs` | arithmetic of increments, type correctness; the invariant is inductive, the safety properties and the refinement follow |
| `MCRaftNode` | the instance for TLC |
| `TokenExec` | `contract/exec`: the scripts of transactions, operators on a contract data base |
| `Accounts` | balances, nonces, locks and tokens of the nodes: packing, checking and writing of blocks, `LockBalance`; uses `TokenExec` |
| `AccountsProofs` | what a transfer of tokens keeps; grants of locks are exact and add up, nonces agree; the folds over a block's transactions: types, balances agree, every sender's nonces rise along the chain; what a block costs is covered; the supply of money |
| `Inductions` | induction and recursion over numbers and sequences, and sums over finite sets, as the proofs need them |
| `MCAccounts` | the instances for TLC: a chain, or requests to lock beside one block |
| `TxPool` | pools of the nodes: heaps, the selection for a block, the removal of a decided block |
| `MCTxPool` | the instance for the finding about nonces |
| `Gossip` | announcements, pushes and pulls over a network that loses messages; extends `TxPool` |
| `PoolProofs` | what the pools put into blocks; what is announced stays announced until somebody has it |
| `Collections` | what the store promises: collections that change when a transaction commits |
| `Store` | the collections laid out over badger's keys; implements `Collections` |
| `StoreServer` | the server's connections and commands; extends `Store` |
| `StoreProofs` | lists are whole, ranges find all members, queues serve each element once, answers come in order; the store implements `Collections` |
| `ChainIndex` | blocks and transactions in the store, and their readers; extends `Store` |
| `ChainProofs` | what the store holds of every block and transaction; what readers are shown while blocks are added |
| `Limiter` | the limit on requests |
| `LimiterProofs` | the limiters of an address are at most as many as its callers, once for every loss from the cache |
| `Membership` | the lists of members |
| `MembershipProofs` | a node has the members that the changes make |
| `Merkle` | trees, proofs and slices |
| `MCServices` | one instance for `TxPool` to `Merkle`: a behaviour is of one kind |

### RaftNode

Raft is external: a log that only grows (entries of terms that lost are not in
it), a leader, and for each node how much of the log raft has in memory
(`rLast`), knows to be committed (`rCommit`) and has handed out (`applied`).
`Node` is the set of observed members; further members only vote. An entry is
the height of its block, or `Control` for empty entries and configuration
changes. `StartNode` puts the configuration entries of the initial `Peers` at
the front of the log. Messages of raft are delivered while a node is between
two Readies, since in between they only change the next Ready.

The code's steps are actions of their own wherever another goroutine, another
node or a crash can come between them:

- `TakeReady`; with a snapshot, `Recover` (the early returns of
  `recoverSnapshotData` and the reset of `committedIndex`), then
  `FetchSnapshot`, one `Commit...` action per entry, `SaveFetched`, and again;
  `RecoverFinal`, commits, `SaveReceived`; or `SkipSnapshot`, where nothing is
  committed and `ApplySnapshot` runs all the same.
- `CommitAgain`, `CommitControl`, `CommitStaleBlock`, `CommitBlock`,
  `CommitGap`: the branches of `commitEntries` for one entry. A block's write
  to the data base is one badger transaction.
- `Persist`, `PersistProposal`: `wal.Save`, `Append`, `SetHardState`. The WAL
  syncs when entries are written, so a hard state written alone may be lost in
  a crash: `walCommit` is what was written, `walSynced` what is on disk. The
  first entries bring the first hard state with them (their term is in it), so a
  WAL without entries and with a commit index of 0 has none (`HasHardState`).
- `TakeSnapshot`, `TakeSnapshotFails`: `maybeTriggerSnapshot`.
- `Crash` at any point, the four panics of the loop, `Restart` and
  `RestartRefused`: what `replayWAL` and raft's `loadState` make of the disk.
  `newRaft` does not call `loadState` for an empty hard state: such a node starts
  from its snapshot (`RestartFrom`), if it has one.
- `Pack`, `DiscardPacked`, `Propose`, `LoseProposal`: `packBlock`, interleaved
  with all of the above.

`pc` names the step, `lo .. hi` the entries `commitEntries` still has, `file`
the snapshot to save when it is done.

Left out of `RaftNode`: the content of blocks and the checks on it
(`checkBlock`, `VerifyBlcok`), which are in `Accounts`, configuration changes beyond their entry, I/O errors, undecodable
entries, terms (the requests of the fetch loop for a range of terms find the
file of the index wherever it is).

### Accounts and TokenExec

`Accounts` takes from `RaftNode` what that module shows: all nodes handle the
same entries in the same order, and after a crash some of them again. A block
here has its height, transactions, miner and rewards. `balance`, `nonce`, `lock`
and `height` are a node's badger data base, `cdb` is its contract data base.

- `Pendings`, `NewBlock`, `Propose`, `Discard` are `packBlock` as seen from the
  data base. `Pendings` reads nonces, balances, locks and contract state,
  `NewBlock` reads the height, `Propose` compares with it once more; blocks are
  committed in between. `Pendings` is one step here, as of one state of the data
  base; that a block can be committed between two of its reads is in `TxPool`.
  Which transactions the pool's heap has on top is left open: any selection that
  the tests of `Pendings` let through (`Selectable`), with nonces that rise and may
  pass over the one that is due and those of refused scripts (`GoesPast`). The
  running balance covers amounts and the fees of the scripts before, not the fee
  of the transaction itself.
- `SkipStaleBlock`, `AcceptBlock`, `RefuseBlock`: the tests of `commitEntries`.
  A refused block is a panic, so the process ends.
- Any transaction may have a fee. `setAccount` subtracts it from the sender;
  `setMinerFee` gives it to the committing node's own address only if the
  transaction has a script, so the fee of any other is lost (`Execute`).
- `FlushScript` writes one script of the block to `cdb`, `CommitBlock` the
  block's badger transaction. `AddBlock` holds the chain's lock from the first
  to the last (`flushing`), so only a crash comes in between.
- `OpenRequest`, `CheckRequest`, `CommitRequest`, `FailRequest`: a request to
  lock or unlock a balance. The badger transaction is opened first; the reads
  and the write each take the chain's lock; the commit does not, and fails when
  another request has written the same lock since the opening.

- `Recovery` is the tool `-r` of `waldir`, an operator: it makes a data base anew
  from the blocks of a log. It takes the first block of each height, makes no
  checks, and pays no fees, since it is given no address for them.

Balances are taken modulo `Modulus`, token amounts too. A token script is a
sequence of statements as the parser gives it (it accepts one); `New` runs it
on a data base and returns the writes, or that it failed.

A block's `seen` is history: the height of the data base when `Pendings` read it.
The transactions of an instance never go from an address to itself: `RecepTx`
(server.go:329) and the calls of `rpcclient.go` (233, 297, 329) refuse that.

Left out of `Accounts`: the results a block carries (`Txres`), which
`Checkresults` recomputes into the record it compares with; the Merkle root,
which `VerifyBlcok` compares in a way that never fails; signatures; the index
of blocks and transactions, which is in `ChainIndex`.

### TxPool and Gossip

`TxPool` has every node's pool over one agreed log of blocks. `List` and the
queue are the arrays of `container/heap`, since neither is a heap all the time:
`Less` orders the transactions of one sender by nonce and all others by time,
which is not transitive, and `Filter` cuts elements out of the array without
restoring it. `packing[n]` has the pool's other fields (`queue`, `Pending`, `item`,
the senders in `balance`). Whether a balance covers a transaction is a choice for
those in `Doubtful`, and whether its script fails for those in `Scripts`.

- `AddLocal`: `Add` with its checks.
- `server.PackBlock` in four actions. `Pendings` takes the pool's lock, which `Add`
  and `Filter` need too. `Select` is one turn of its loop; it reads the nonce from
  the data base as it is by then, since the goroutine that commits blocks does not
  ask for that lock. `PendingsEnd` is the second loop, which empties half of the
  queue, since its bound shrinks (`Requeued`). `ProposeBlock` is `NewBlock`, which
  reads the height anew, the proposal and `RemovePending`. Blocks are committed
  between any two of these.
- `Decide`, `LoseBlock`: a proposal is decided some time later, after others or
  never.
- `FilterBlock`, then `CommitBlock` or `DropBlock`: `commitEntries` filters the
  pool before it looks whether the block is next or stale. A block that does not
  verify is a panic: the node takes no more steps with the log. `Restart` empties
  the pool.

`Gossip` adds the network. `mp[n]` are the announced messages by checksum.

- `Submit` is a handler of the API or RPC server (`MayRequest` says which forms
  each of the six handlers takes) with `Add` and `Broadcast`; it may hash while
  a push is hashed. `ReceivePush` takes one push or two at once. All checksums
  of a node go through one hash object, so goroutines that hash together get
  any of their sums or garbage (`Sums`).
- `PushAnnounced` is the tick of `Run`, whose errors nobody looks at.
  `ReceivePull` forgets the message when the first member has acknowledged it.
- `Deliver` hands a received transaction to the pool, after the acknowledgement
  was sent. `Lose` is the network, `RestartNode` a new process.

### Store, StoreServer and ChainIndex

badger is external: `Begin` takes a snapshot, reads see it and the own writes,
`Commit` fails if a key that was read has been committed by another transaction
since (`Conflict`), and never for a transaction that only reads. A key is the
tuple of the parts that `eMapKey`, `eListKey` and the others join. `db` is the
committed key space, `txn[c]` the open transaction of a goroutine, `committed`
the operations of the last one to commit.

Every method of `bgTransaction` is an operator that gives an effect: the keys
read, the keys written or deleted, the value returned (`llpush`, `zadd`, ...),
and an action that applies it (`Llpush`, `Zadd`, ...). Two kinds are peculiar.
`mclear` and `sclear` delete while they iterate over keys that are no copies,
and may leave entries behind: which ones is a choice. Scores sort as unsigned
numbers, negative ones behind the others (`ScoreRank`), as the encoding has it.

`StoreServer` puts a goroutine per connection in front: `Send` by the client,
`Receive` (what has arrived behind the first request in one read is lost, and one
of which only a part is there is an "illegal request", after which the connection
is closed; `InPieces` are the requests that this can happen to),
`Execute` the command as one method in a transaction of its own, `Finish` with
the answer that `dealRegister` has for the result. An unknown command or a
missing argument is answered at once, with an error.

`ChainIndex` uses the store with the keys of `blockchain.go`: heights to hashes,
hashes to blocks, transactions by hash and by address. `Genesis` is written by
the tool that creates the data base, `NewBlock` makes blocks of which several
may have one height, `AddBlock` writes one. The handlers that read more than
once are jobs (`job[r]`): `GetBlock_FY` walks down from the newest block to the
first with transactions, `GetBlockSection` and `GetBlockbyNum_FY` read a range,
each with `ReadHash` and `ReadBlock` as steps of their own. Handlers that read
once are operators. The comment in `GetBlock_FY` says that a stored transaction's
block number is 0 (server.go:203), and the code fills it in; `NewBlock` has stored
the height by then (blockchain.go:146), as the model has it, so that the filling
in changes nothing. That no transaction of the next block is on the chain is the
work of `VerifyBlcok` and no more than a guard here; `TxPool` and `Accounts` say
when it holds.

### Limiter, Membership and Merkle

`Limiter`: `ipInterceptor`, `GetLimiter`, `AddIP` and `Allow` are the steps of a
request, each under the cache's lock, which is released in between. The cache
keeps `cacheSize` limiters in the order of their use; `Expire` is its 24 hours.

`Membership`: `AddNode` and `RemoveNode` are the requests to the leader,
`changes` the agreed changes, `Apply` is `commitEntries` with one of them and
`updateClusterInfo`. An address goes through `json.Marshal` and is not
unmarshalled: nodes know the added members by quoted addresses. The removal from
`peers` is a loop over the slice it shortens; that slice is modelled with its
array. `StartAgain` is a new process, which knows the configured members.

`Merkle`: `New`, the search for a proof and its validation. The search appends
twice to one slice, and Go's `append` then writes to one array: slices are
modelled as a place, a length and an array. Hashes do not collide.

## What the runs show

All runs of `RaftNode` have two nodes, the smallest number with a leader and a
follower that crashes, lags or takes over. One increment per entry (`SnapCount = 1`) makes
every boundary case short; two entries per increment (`SnapCount = 2`) tell
"at a multiple" from "past a multiple". `MaxLog` bounds the log, `BatchLimit`
how many entries become committed during one Ready. Deadlock is not checked:
the model stops where the log's bound does.

| run | bounds | shows |
|---|---|---|
| `node_crash` | increments of 1, log of 4, both nodes crash and lead | `ReplicasAgree`, `NoHeightGap`, `DatabaseHoldsWalCommit`, `CommitIndexAdvances`, `ImplementsLedger`, `TypeOK` |
| `node_increments` | increments of 2, log of 4, both lead, one crashes | `Inv`, `NoMissingIncrement`, `ServesEveryIncrement`: two increments, each complete or missing on either node |
| `node_unaligned` | increments of 1, batches of 2, early snapshots | `ChainFollowsLog` also where skips, failed snapshots and WAL holes occur; every action fires |
| `node_converges` | increments of 1, log of 4 | `EveryBlockArrives` |
| `node_refused` | as `node_crash` | `NodesRestart` is violated |
| `node_doublejump` | increments of 2, batches of 3 | `NoHeightGap` is violated |
| `node_early` | increments of 2, early snapshots | `NoMissingIncrement` is violated |
| `accounts` | two kinds. `chain`: two nodes, one packs, the other crashes; blocks of 2, log of 2; one request to lock. `locks`: two clients lock and unlock the same balance of a node that crashes; log of 1 | `AmountsAreCovered`, `BalancesAgree`, `NoncesAgree`, `NoncesInOrder`, `TokensFollowChain`, `RecoveryRebuildsChain`, `TypeOK`, `LocksAddUp`, `GrantsAreExact` |
| `accounts_fees` | two scripts of one sender | `SupplyConserved` is violated |
| `accounts_replay` | one script, one crash | `BlocksAreAccepted` is violated |
| `services` | see below | the properties of the modules `TxPool` to `Merkle`, one kind of behaviour each |
| `pool_gap` | one pool, two senders with two transactions each, one block | `NextNonceIsUsed` is violated |

The transactions of `accounts` are chosen so that they get in each other's way:
one sender cannot pay twice without being paid itself unless it leaves the first
out, and its second payment has a fee that nobody gets; one freezes the tokens
that the other transfers; a lock on one node covers what is to be spent. Two
blocks are enough for a stale block, a block packed from old data, and a replay
of the first after the second. The run has about 407,000 states.

A behaviour of `services` is of one kind, chosen in the initial state; the
variables of all other modules stay as they are. It has about 952,000 states, of
these kinds:

| kind | bounds | properties |
|---|---|---|
| `plain`, `map`, `set` | two clients, one name, two values; plain values in transactions of two operations, the others of one; 4 operations in all | `ImplementsCollections` |
| `score` | the same with 3 operations in all; scores -1 to 1 | `ImplementsCollections`, `RangeFindsMembers` |
| `commands` | two connections, one request each of any of the 28 commands, one unknown and one incomplete | `ImplementsCollections`, `AnswersInOrder` |
| `queue` | two connections, two pushes or pops each | `EveryElementServedOnce`, `ListsAreWhole`, `ImplementsCollections`, `AnswersInOrder` |
| `list` | two connections, three requests with any of the 9 list commands, beginning with a push; indexes -1 and 1 | the same |
| `chain` | two blocks above the first with up to two transactions, one reader with two requests, pages of 1 and 2 | `ExplorerShowsLatest`, `PagesLeaveNoGap`, `SectionsAreChained`, `TxIndexesAgree` |
| `pool` | one node, four transactions of two senders that arrive before the first block is proposed, two blocks, one second | `BlocksHoldRuns`, `BlocksVerify` |
| `pools` | two nodes, two transactions of one sender that arrive again and again, two blocks | the same |
| `gossip` | three nodes, two transactions, four requests, ticks or restarts, two messages under way | `AnnouncedUntilReceived` |
| `limiter` | two requests at a time, two addresses, four limiters of one token, a cache of one | `BurstIsBounded` |
| `members` | two configured members, two ids and two addresses to add, three changes | `PeersFollowChanges` |
| `merkle` | trees of up to 10 leaves, with or without one that is there twice | `VerifyFindsLeaves` |

Why these are enough: a conflict needs two transactions and an element to
contend for; three operations make, use and remove it. A list of one or two
elements has both ends next to each other, where they interfere. A cache of one
is full at once, and two callers are what a lock between them could be missing
for. Three changes add a member, remove it and change something behind it in the
slice. Nine and ten leaves make the first trees of four levels, in which Go's array of
a proof has room left. Four transactions are the first heap with grandchildren, and two blocks
and two pools are one block that can come in between the packing of another.

The six violated properties are findings:

- **A crash in recovery makes a node unstartable.** The snapshot is saved
  (node.go:638) before the hard state of its Ready (node.go:299). After a crash
  in between, the newest snapshot is above the WAL's commit index. If a hard state
  was on disk before that, raft's `loadState` panics at every start; a node that
  never wrote one starts from the snapshot, so the run's trace is of a node that
  had saved its first Ready.
- **A snapshot of two increments is skipped.** If one Ready commits past two
  multiples of `snapCount`, `maybeTriggerSnapshot` takes one snapshot over
  both. `recoverSnapshotData` accepts increments of exactly `snapCount` and
  returns without a word otherwise; `ApplySnapshot` runs anyway, and the next
  block panics with a height gap.
- **A snapshot before the first Ready of a restarted process** finds the commit
  index ahead of the increments to fetch; the fetch loop gives up and panics.
- **Fees are not part of what a sender can afford.** `Pendings` compares a
  sender's running balance with amounts only. A block with two scripts can
  charge more fees than there is; `AddBlock` subtracts them without a check and
  the balance becomes nearly 2^64.
- **A crash inside AddBlock makes a node unstartable.** Scripts are written to
  the contract data base before the block is written to the other one. The
  replayed block then has other results than its transactions record, and
  `CheckBlock ERROR!` ends the node at every start.
- **A nonce that nobody has used is passed over.** `Pendings` takes the first
  transaction of a sender it finds, if its nonce is too high, as a reason to
  set that sender's nonce as if the one due had been taken; the one after it
  then goes into the block. The nonce due is lost.

`BlocksAreAccepted` fails for more reasons, which TLC shows when they are
looked for one by one: two scripts of a block of which the second only fails
after the first (`AddBlock` goes on with a nil exec), a block committed between
`Pendings` and `NewBlock`, a lock that only one node has, and a fee that another
transaction of the sender has made too high since it was pooled.
`BalancesAgree` leaves out the nodes' own addresses: `setMinerFee` pays the fee
of a script on every node to that node's own address.

`Regular` in `RaftNodeInv` is the case without those of `node_doublejump` and
`node_early`: no Ready carries more than `SnapCount` new committed entries, and
a process, the first one included, handles its first Ready before it gets a
snapshot (`EarlySnapshot` is false). The safety properties and the invariant are
about it; `ChainFollowsLog` is about every case.

Fairness (`FairSpec`, `node_converges` only): the event loop of a node runs
while it can, raft delivers what it has while there is a leader, and stopped
processes are started again. Elections end: some node stays leader from some
point on, which raft's randomised timeouts give with probability one. Nothing
is assumed of `packBlock` or of proposals: the property is about blocks agreed.

Every property has a mutant in `PROJECT.json`: a definition changed in the way
of a plausible bug, with which TLC finds the property violated. The changed
forms stand before the right ones, with a comment that says so.

## What is proved

What follows holds for every value of the constants that the modules' named
assumptions allow. `RaftNodeProofs` proves `TypeOK`
(`TypeCorrect`) and the arithmetic of increments: multiples of `SnapCount` are
at least `SnapCount` apart, and rounding an index down that is less than two
increments ahead gives the next multiple. It proves, under the
assumption `Regular`, that `Inv` is an invariant (`InvCorrect`), and from it
every safety property the runs check except `NodesRestart`, which the code does
not have: `ReplicasAgree`, `NoHeightGap`, `NoMissingIncrement`,
`DatabaseHoldsWalCommit`, `ServesEveryIncrement`, `ChainFollowsLog` (in the
regular case), `CommitIndexAdvances`, and that `RaftNode` implements
`AgreedLedger` (`Refinement`).

None of the properties is inductive by itself, and they need each other. Why a
replica cannot fork, for instance: a block is written only at height `h + 1` of
a data base of height `h`. That it is the block of the *chain* at that height
needs that no earlier entry has been passed over (`Covers` in `ChainInv`: the
data base has every chain block up to `committedIndex`). Entries are passed
over when `recoverSnapshotData` skips a snapshot, so the snapshot must always be
acceptable: it must begin where the last one ended, or every increment between
must be found on the leader (`DiskInv`), and the commit index must be less than
one increment ahead of them (`RecoverInv`). For that it must have been so when
the Ready began (`ReadyInv`), which after a restart depends on how far the WAL
was ahead of the snapshot files (the last part of `DiskInv`), and that on how
many entries a Ready carries (`BatchInv`): `Regular`. `Inv` has two parts.
`StateInv` is all of this; `WrittenInv` is about the empty hard state, with which
a start is refused for nothing: a WAL without entries has no snapshot beside it
and a commit index of 0, and the process that writes it is before the end of its
first Ready (`Written`), so that such a start is a start from nothing.

The proof has one lemma per action, or per group of actions of one shape, on
the node that takes the step; `OneNode` and `NodeKept` carry the other nodes
along while the log grows. `NoGap`, `NoFetchFails`, `NoSkip` and
`NoSnapshotFails` show that under the invariant the code's panics, silent skips
and failures are disabled.

`AccountsProofs` proves first that a transfer of tokens (`deal2`) changes no sum of
the two balances modulo the width and that the sender's does not wrap, on any
data base and after any statements, if sender and receiver differ
(`TransferConserves`). It is false for a transfer to oneself, where the code
reads both balances first and writes the receiver's last.

Its next part is about `Accounts` itself, for any transactions, nodes and
amounts. `GrantsAreExactCorrect`: whatever requests and blocks run at the
same time, a lock changes only by the exact amount of a request that is granted,
and is never unlocked by more than it holds. The code reads the lock and
commits later, without the chain's lock. `LockInv` is why this is sound: a
request about to write either holds a value computed from the lock as it still
is, or its badger transaction has a conflict and will fail.
`LocksAddUpCorrect` adds this up: a lock is what it began with and the sum of
all that was granted. A sum means something for finitely many clients only, and
`LockBalance` adds before it compares, so it is assumed that all that is asked
to be locked fits the width (`LocksFit`). With the sums over the subsets of the
clients at hand (`SumsUp`), the invariant is `AddUp`, and `LockInv` says why the
value that is written is one more term of the sum.
`NoncesAgreeCorrect`: two nodes at one height have equal nonces. Its invariant
`NonceInv` says that the nonces are a function of the height alone. Nodes drop
stale blocks and repeat the log after a crash, so it needs that a node takes the
first block of each height in the log: all it has handled is not above its own
height, and when a height is proposed for the first time, no node has a block of
it or of a later one.

The second part carries this to what the folds over a block's
transactions compute, for blocks and chains of any length. A fold of the
community modules is a function chosen to satisfy a recursion; `Inductions`
shows that there is one (`RecursionExists`, from which `FoldResults`), so that a
fold over a sequence is the last of a sequence of results, each one step from
the one before. Induction itself is stated there over a *set* of numbers
(`Induction`, from the least element of its complement), which needs no operator
as parameter.

- `TypeOKCorrect`: balances, locks, nonces and rewards stay in the width of
  `uint64`, and blocks on their way are made of the transactions there are, at
  most `BlockLimit` of them.
- `BalancesAgreeCorrect`: nodes of one height have the same balances of every
  address that is no node's own. `BalanceInv` says more, for it must survive
  stale blocks and replays: there is for every height one table of balances, and
  a node's data base is, but for the nodes' own addresses, the table of its
  height. The rewards are in the block, so they are equal on all nodes; the fee
  of a script goes to the node's own address, and `StepsAgree` is why that does
  not spread: a step looks at no balance but those it changes.
- `NoncesInOrderCorrect`: the chain that a node has holds the transactions of
  every sender by rising nonces, none twice, and the data base knows the nonce
  after the last. Nonces may be left out, since `Pendings` goes past some. A block
  is packed for the nonces of the data base as `Pendings` finds it, blocks are
  committed before it is proposed and handled, and the commit asks only that a
  transaction's nonce is not *below* the data base's. `SequenceInv` has the table
  of the nonces of each height; nonces never fall from one to the next, they rise
  within a block (`Rises`), and a fold over rising nonces that are not below the
  data base's goes on from there (`RiseTakes`).
- `AmountsAreCoveredCorrect`: when a block that was packed from the data of the
  height below its own is accepted, its senders have what `Pendings` counted for
  them, transaction by transaction, with the fees of the scripts before it. The
  balance `Pendings` keeps is an `int64`, from which it takes the lock before it
  compares: `RunningBalance` says that it is exact and no more than the balance,
  which needs amounts, fees and locks that fit signed numbers (`AmountsAreSigned`,
  `LocksAreSigned`). `PayInv` carries what was covered along to the commit: there
  is a table of balances for each height, and every block under way could be paid
  from the one of the height that was seen (`Payable`). A block packed from older
  data is excepted. It can pass the checks of the commit and not be covered:
  a nonce that was passed over does not stop it, and `verify` looks at each
  transaction by itself.
- `SupplyConservedCorrect`: a data base holds what it began with and the rewards
  of its blocks, no more and no less, *if* the senders of the blocks that are
  accepted have what these cost with their fees (`CostsCovered`). `setAccount`
  subtracts without a look at the balance, in `uint64`, so this is what exactness
  depends on; the theorem adds that nothing else goes wrong (`BlockExact`: rewards,
  the payment of a fee to the node itself, folds of any length). It is assumed as
  well that addresses are finitely many, as a sum over them needs; that only
  scripts have fees, for that of another transaction is lost, and that the nodes'
  own addresses send nothing, because they have other balances on other nodes
  (`FeesAreOfScripts`); and that all money fits the width (`MoneyFits`). The code
  sees to none of `CostsCovered` and `FeesAreOfScripts`: `accounts_fees` violates
  the first.
- `TransfersConserveSupply`: for transactions without any fee, `CostsCovered` is
  not assumed but proved, from `AmountsAreCovered`, where no block is accepted
  that was packed from older data than that of the height below it
  (`DataIsFresh`). That is an assumption too: nothing in the code sees to it.

`PayInv`, like the other invariants here that speak of tables for all heights, is
out of TLC's reach as an invariant of a run; its consequences are what the
runs check.

`PoolProofs` proves what blocks are made of, for pools, blocks and logs of any
size. Of the heap it shows only that it holds entries: `Less` is not transitive,
so no order can be relied on.

- `BlocksHoldRunsCorrect`: the transactions of a sender in a block have rising
  nonces, and the only ones left out between two of them are of scripts that
  were refused. `Selection` is the invariant of `Pendings`' loop: every nonce
  from one that is selected up to the sender's `item` is in the block or refused
  (`UpToItem`), and `item` goes on by one (`SelectionGrows`). It is set to a
  nonce that nothing was selected for only when nothing of the sender is
  selected (`SelectionBegins`), which is where the finding about a lost nonce
  comes from.
- `BlocksVerifyCorrect`: of the next block of a replica's chain, the height
  follows, and if it was packed at once (`PackedAtOnce`: no block was committed on
  its node from the beginning of `Pendings` to `NewBlock`), no transaction is
  behind its account. A block is packed from one node's data base and checked
  against another's, and blocks are lost, dropped and proposed twice in between.
  `Chained` says that there is for each height one table of nonces, the one that
  the first block of the height in the log leaves, and that every block packed at
  once was packed with the table of the height below its own; `HeightsInv` that no
  height is missing in the log and that a node has the heights of what it has
  handled. A block for which another was committed in between is not covered,
  and rightly so: it gets the next height with old nonces, and if one of them is
  used by then, `VerifyBlcok` ends every replica that comes to it (node.go:387). `packBlock` compares the height
  with the data base only once more after that, which such a block passes.

It also proves `AnnouncedUntilReceived` for any number of nodes, messages
under way and requests. An announcement ends when its checksum is acknowledged,
or is given to another announcement; and either may happen by mistake, when a
node hashes several transactions at once. `GossipInv` shows that this is no
loss: such a node got the checksum from a push it was hashing, or from a request
of its own, so that it, or the node that pushed, has the transaction.

`MembershipProofs` proves `PeersFollowChanges` for any members and changes, of
configured members with an address each (`MembershipAssumption`; of two members
with one address, one could not listen). `Knows` is what every change preserves
while no member is added again (`Plain`): ids and the list have the same
addresses, each once. Only because of that is the loop of `updateClusterInfo`
right, which cuts elements out of the slice it goes over: `AllCutOnce` shows that
it meets the address once, and that the element a cut leaves behind the end of
the slice is another one, so that it does not cut there and panic.

`StoreProofs` proves `ListsAreWhole` and `RangeFindsMembers` for any number of
clients, operations and names. For lists, `StoreInv` has for every open
transaction what it has read: one that changes the ends of a list or deletes an
element has read the list's meta key, and one that deletes writes it as well.
Two such transactions conflict, so badger's check is all the locking that lists
need. Scored sets need not even that (`ScoreInv`): the two keys of a score are
written and deleted together.

For the server it proves `AnswersInOrder` and `EveryElementServedOnce`, for any
connections and requests. `ConnInv` splits what was sent on a connection into a
part that is read and the rest; answers are for increasing places in the first
part, below that of the request being served. For the queues, `ServeInv` says
what a transaction that is not yet committed will do: one that returned a value
to a push has counted with a length one more than in its snapshot (`Outcome`),
has read the list's meta key, and no other list changes. By `StoreInv` the list has that length
still when the commit is not refused (`CommitResizes`), so answers with a value
and changes of length go together (`QueueInv`). An answer made up before the outcome of
the commit is known, which is the mutant, breaks it. `ServerAssumption` says
that requests are of the forms the commands parse; the rest, unknown commands
and missing arguments, may be anything.

The last section of `StoreProofs` is the refinement, `ImplementsCollectionsCorrect`:
transactions of the 27 methods, of any length, that write anything take effect
in the order of their commits, and what `Collections` calls right of their
answers is right at the commit: reads of single keys, lengths and elements of
pushes and pops, and every entry or member that `mkvs`, `smembers`, `mclear` and
`sclear` returned. It is not serialisability: badger notes the keys a
transaction read and not the gaps between them, so an entry added meanwhile may
be missing from a range read. The answers of `zrange`, `zclear`, `lindex` and
`lrange` and the position `lset` writes are not promised at all (`lset` and
`lindex` add the list's start twice, and `zrange` finds old scores), and nothing
is asked of what a transaction that only reads was answered. The proof has three
layers.

- *One method.* `Holds(v)` are the collections that a key space `v` stands for.
  A method is `Exact` on `v` when its answer is right for `Holds(v)` and
  `Holds(v)` with its writes is what `Collections` says of the operation. Every
  method is exact not only on the view it was carried out on but on each view
  that agrees with that one on the keys the method has read (`Faithful`): what a
  method reads is all it depends on. This needs key spaces as the encoders make
  them (`Formed`), in which lists are whole: a pop that met a hole would answer
  an error for a list that is not empty.
- *One log.* `Replay` folds a log; by induction over the
  parts of its domain (`ReplayExists`) it is shown to go on from the result for
  the log before (`ReplayOneMore`).
- *Transactions.* `SerialInv` has three facts of each open transaction. `Serial`:
  on any contents that agree with its snapshot on what it has read, its log
  replayed gives its answers and the contents with its writes. `Fresh`: what is
  not stale is committed as it was in the snapshot. `Quiet`: one that has
  written nothing has only operations without effect. A commit is refused if
  something read is stale, so by `Fresh` what is committed is such contents, and
  by `Serial` the step is `Update`; without writes it is `ReadOnly` by `Quiet`,
  and that case is why badger may let it pass with old answers.

`ErrorAssumption` (the errors of the store are no answers it gives without one)
and `ScoreAssumption` are what it needs of the constants beyond
`StoreAssumption`: the log of an operation tells by its answer whether it failed.

`ChainProofs` proves the four properties of `ChainIndex` for any chain, any
transactions and any number of readers and requests (`ChainAssumption`: marks
are no values, and the transactions are finitely many). The first half is about the
data base. `WritesAre` and `OpsAre` say what a list of operations writes and
what the operations of a block are; with them `BlockAdded` and `TxsAdded` say
which keys `AddBlock` changes and that it leaves all others. That gives
`Chained` (each height up to the newest has one block, which names the hash of
the one before), `Indexed` (its transactions are where they are looked up) and
`Packs`, which the other two need: no block under way has the hash of a block
on the chain or a transaction that is on it, if it is for the next height.
Several blocks are made for a height, and a block for a height that is taken is
never added, so its transactions' numbers never get into the indexes.

The second half is about handlers, which read height, hash and block in
transactions of their own while the chain grows. `JobInv` says what a handler
has in hand is true of the blocks up to the height it began with, and
`FineKept` that this cannot become false (`Grows`: blocks stay where they are).
For the pages this is not enough: the second page is counted from a newer
block, so it must be shown to begin no lower than where the first one ended.
`PageAnswer` has how deep the pages before reached, in terms of the height when
they were asked for; as heights only grow, the next page begins at most one
below it (`PageBegins`).

`LimiterProofs` proves `BurstIsBounded` for any number of addresses, of callers
at a time and any size of the cache (`LimiterAssumption`). A limiter is used up after
`Burst` requests and one for every refill, so the question is how many limiters
an address gets. The cache does not know who holds one that it has dropped, nor
who has missed one that is there by now. `LimiterInv` says that there is an
owner for every limiter and a count of its uses (`UsedFor`), and that the
limiters of an address and the callers that are about to add one are together
at most the callers, once more for each time the cache lost the address
(`MadeByMiss`).

Only model-checked, in the bounds above:

- `EveryBlockArrives` (liveness), `ChainFollowsLog` outside the regular case,
  and the findings;
- of `Accounts`: `TokensFollowChain` and `RecoveryRebuildsChain`, which do not
  hold of every instance. `TokensFollowChain` says that the tokens of a node are
  those of a prefix of its scripts; with three scripts in a block of which the
  second undoes the first (freeze, unfreeze, freeze of something else), a crash
  after all three and a replay of the first leave a state that no prefix has.
  `RecoveryRebuildsChain` needs as much of tokens, since it says that no script
  fails in the recovery. `SupplyConserved` without its hypotheses fails as
  `accounts_fees` shows;
- `VerifyFindsLeaves` of `Merkle`: trees are built by RECURSIVE operators, of
  which nothing can be proved here.

## What is known without a property of its own

These facts came up while modelling. The models have them; no line of the
repository says otherwise, or a property excludes them by name.

- Adding a member whose id or address is one already, and removing it then,
  makes every node panic (`Repeats` in `Membership`).
- The address of an added member is kept in quotes, so that a follower whose
  leader was added cannot reach it: the fetch of increments repeats for ever.
- After a restart a node knows the configured members only.
- A tree of nine to sixteen leaves: `VerifyNode` denies data of the left half
  whose path is overwritten by the search of the right half.
- The test of a block's root in `VerifyBlcok` never fails.
- A block that is committed between `Pendings` and `NewBlock` can make a next
  block with old transactions, which ends every replica (`PackedAtOnce` in `TxPool`).
- The fee of a transaction without a script is taken from its sender and given to
  nobody; no check looks at it.
- The recovery tool ignores the height it is given and pays no fees; `-h` panics
  at a height that comes twice.
- A transfer of tokens to oneself makes tokens.
- A message that one member has acknowledged is announced no more, whoever else
  lacks it; so a transaction need not reach all pools, and no liveness is
  claimed of gossip.
- Requests sent on a connection before the answer to the last one may be lost, or
  be illegal because their beginning was.
- `lset` and `lindex` add a list's start twice; `zrange` finds members under
  scores they no longer have.
- A burst can pass the limiter once for each goroutine that misses the cache at
  the same time.

## Not modelled

- The contract parser: sequential, without state; what it yields are the script
  records of `TokenExec`.
- Generated messages, encodings, signatures, addresses and wallets: data that
  the models treat as opaque values. Hashes do not collide.
- Configuration, start-up and sockets. What they give are CONSTANTS.
- Raft itself: the quorum for entries and changes, terms, elections, `confState`.
- `fittle`, `SetTxpollToNil` and `txlist.go`, which nothing calls; the results
  of a block (`Calculationresults`), which are compared with themselves.
- The handlers for exchange rates, which ask other servers, and those that read
  one value (`getNonceHandler`, `GetBalancebyAddr`) or only compute.
- Of the recovery tool: `-h`, which prints, and a WAL with entries that lost.
- Of the limiter: the white list, which is empty in the run, and the splitting
  of IPv6 addresses.
- Of the store's server: a client that closes its connection, and malformed
  requests on which the process panics, such as an empty first line (`s[1:]` in
  `readNumber`, request.go:40) or no arguments (`req.args[0]`, server.go:55).
- Two goroutines in one slice or map at the same time (`peers` and `idPeer`).
- An error of `wal.Save`, which is only logged, and other I/O errors.
