------------------------------ MODULE RaftNode ------------------------------
(***************************************************************************)
(* raftconsensus/node.go: the nodes that turn the log raft agrees on into  *)
(* the block chain in each node's data base.                               *)
(*                                                                         *)
(* Raft itself (etcd v3.3) is external.  It is the log of entries that     *)
(* survive, the current leader, and for every node how far raft has the    *)
(* log in memory (rLast), knows it committed (rCommit) and has handed it   *)
(* to the node (applied).  Everything from Ready() to Advance() is the     *)
(* code of handleChanel, in its order: recover a snapshot, write committed *)
(* blocks to the data base, save the WAL, take a snapshot.  A node may     *)
(* crash between any two of these steps and restart from its disk.         *)
(*                                                                         *)
(* A log entry is the height of the block it carries, counted above the    *)
(* genesis block, or Control: an empty entry or a configuration change.    *)
(* Snapshots of this program are increments: the entries since the last    *)
(* one, [prev + 1 .. index].                                               *)
(***************************************************************************)
EXTENDS Naturals, Sequences, FiniteSets

CONSTANTS
  Node,          \* the cluster members observed; other members only vote
  NoNode,        \* no leader is known
  SnapCount,     \* rn.snapCount: entries between two snapshots
  BatchLimit,    \* at most so many entries become committed during one Ready
  Peers,         \* configuration entries StartNode puts at the front of the log
  MaxLog,        \* bound on the length of the log
  Candidates,    \* the nodes that may win an election
  Crashable,     \* the nodes that may crash
  EarlySnapshot  \* may a snapshot arrive before the first Ready of a process?

ASSUME ConstantsAssumption ==
  /\ NoNode \notin Node
  /\ SnapCount \in Nat \ {0}
  /\ BatchLimit \in Nat \ {0}
  /\ Peers \in Nat \ {0} /\ MaxLog \in Nat /\ Peers <= MaxLog
  /\ Candidates \subseteq Node /\ Crashable \subseteq Node
  /\ EarlySnapshot \in BOOLEAN

Control == 0
Snapshot == [prev : Nat, index : Nat]
NoSnapshot == [prev |-> 0, index |-> 0]
MaxOf(a, b) == IF a < b THEN b ELSE a

VARIABLES
  log,        \* raft's log: the entries the leader has saved, none is lost
  ledger,     \* history: the log indexes of the blocks that extend the chain
  leader,     \* the node whose Status() says StateLeader, or NoNode
  unstable    \* {} or the one entry the leader accepted and has not saved

\* what raft holds in memory for a node
VARIABLES
  rLast,      \* last entry in raft's log
  rCommit,    \* raft's commit index
  rSnap,      \* snapshot received, waiting for the next Ready
  applied,    \* entries handed out in CommittedEntries so far
  booted      \* FALSE from the start of a process until its first Ready

\* rn.raftStorage, a MemoryStorage
VARIABLES
  last,       \* LastIndex()
  hsCommit,   \* Commit of the hard state
  stSnap      \* the newest snapshot; entries up to its index are compacted

\* the fields of raftNode, and where handleChanel is
VARIABLES
  pc,              \* the step handleChanel takes next, or why it stopped
  committedIndex,
  snapshotIndex,
  rdSnap,          \* rd.Snapshot of the Ready in progress
  rdLast,          \* last entry of rd.Entries
  lo, hi,          \* commitEntries still has the entries lo .. hi to handle
  file,            \* snapshot to save once commitEntries is done
  pack             \* height of the block packBlock is about to propose, or 0

\* what survives a crash
VARIABLES
  db,         \* log indexes of the blocks in the data base, by height
  snaps,      \* snapshot files
  walLast,    \* last entry in the WAL
  walCommit,  \* Commit of the last hard state written to the WAL
  walSynced,  \* Commit of the last hard state known to be on disk
  walHole     \* the WAL has entries with a gap before them

agreed == <<log, ledger, leader, unstable>>
raftVars == <<rLast, rCommit, rSnap, applied, booted>>
storage == <<last, hsCommit, stSnap>>
loop == <<pc, committedIndex, snapshotIndex, rdSnap, rdLast, lo, hi, file>>
disk == <<db, snaps, walLast, walCommit, walSynced, walHole>>
vars == <<agreed, raftVars, storage, loop, pack, disk>>

Stopped == {"down", "panicGap", "panicRequest", "panicMissing", "refused"}
Steps == {"ready", "recover", "fetch", "final", "commit", "snapshot"}
Running(n) == pc[n] \in Steps

\* Height() of node n's data base, above genesis.
Height(n) == Len(db[n])

TypeOK ==
  /\ log \in Seq(Nat) /\ ledger \in Seq(Nat)
  /\ leader \in Node \cup {NoNode}
  /\ unstable \in SUBSET Nat
  /\ rLast \in [Node -> Nat] /\ rCommit \in [Node -> Nat]
  /\ rSnap \in [Node -> Snapshot] /\ applied \in [Node -> Nat]
  /\ booted \in [Node -> BOOLEAN]
  /\ last \in [Node -> Nat] /\ hsCommit \in [Node -> Nat]
  /\ stSnap \in [Node -> Snapshot]
  /\ pc \in [Node -> Steps \cup Stopped]
  /\ committedIndex \in [Node -> Nat] /\ snapshotIndex \in [Node -> Nat]
  /\ rdSnap \in [Node -> Snapshot] /\ rdLast \in [Node -> Nat]
  /\ lo \in [Node -> Nat] /\ hi \in [Node -> Nat]
  /\ file \in [Node -> Snapshot] /\ pack \in [Node -> Nat]
  /\ db \in [Node -> Seq(Nat)] /\ snaps \in [Node -> SUBSET Snapshot]
  /\ walLast \in [Node -> Nat] /\ walCommit \in [Node -> Nat]
  /\ walSynced \in [Node -> Nat] /\ walHole \in [Node -> BOOLEAN]

\* startNode on an empty directory: raft has the configuration entries of the
\* initial peers, committed, and hands them out in the first Ready.
Init ==
  /\ log = [i \in 1 .. Peers |-> Control]
  /\ ledger = <<>> /\ leader = NoNode /\ unstable = {}
  /\ rLast = [n \in Node |-> Peers] /\ rCommit = [n \in Node |-> Peers]
  /\ rSnap = [n \in Node |-> NoSnapshot] /\ applied = [n \in Node |-> 0]
  /\ booted = [n \in Node |-> FALSE]
  /\ last = [n \in Node |-> 0] /\ hsCommit = [n \in Node |-> 0]
  /\ stSnap = [n \in Node |-> NoSnapshot]
  /\ pc = [n \in Node |-> "ready"]
  /\ committedIndex = [n \in Node |-> 0]
  /\ snapshotIndex = [n \in Node |-> 0]
  /\ rdSnap = [n \in Node |-> NoSnapshot] /\ rdLast = [n \in Node |-> 0]
  /\ lo = [n \in Node |-> 0] /\ hi = [n \in Node |-> 0]
  /\ file = [n \in Node |-> NoSnapshot] /\ pack = [n \in Node |-> 0]
  /\ db = [n \in Node |-> <<>>] /\ snaps = [n \in Node |-> {}]
  /\ walLast = [n \in Node |-> 0] /\ walCommit = [n \in Node |-> 0]
  /\ walSynced = [n \in Node |-> 0] /\ walHole = [n \in Node |-> FALSE]

(***************************************************************************)
(* Raft.  Messages that arrive while a Ready is handled make a difference  *)
(* only to the next one, so they are delivered between two.                *)
(***************************************************************************)

\* A node that has the whole log is elected; its first entry is empty.
Elect(n) ==
  /\ n \in Candidates /\ pc[n] = "ready" /\ leader # n
  /\ rLast[n] = Len(log) /\ rSnap[n] = NoSnapshot
  /\ Len(log) < MaxLog
  /\ leader' = n /\ unstable' = {Control}
  /\ UNCHANGED <<log, ledger, raftVars, storage, loop, pack, disk>>

\* The leader loses its quorum; what it has not saved is not sent to anybody.
\* The bound leaves room for the first entry of the next leader.
StepDown ==
  /\ leader # NoNode /\ Len(log) < MaxLog
  /\ leader' = NoNode /\ unstable' = {}
  /\ UNCHANGED <<log, ledger, raftVars, storage, loop, pack, disk>>

\* Node n receives entries of the leader's log.
Replicate(n) ==
  /\ pc[n] = "ready" /\ leader \in Node \ {n} /\ Running(leader)
  /\ stSnap[leader].index <= rLast[n]
  /\ \E k \in (rLast[n] + 1) .. Len(log) : rLast' = [rLast EXCEPT ![n] = k]
  /\ UNCHANGED <<agreed, rCommit, rSnap, applied, booted, storage, loop, pack, disk>>

\* Node n learns that entries it has are committed.
AdvanceCommit(n) ==
  /\ pc[n] = "ready" /\ leader # NoNode /\ Running(leader)
  /\ \E k \in (rCommit[n] + 1) .. rLast[n] :
       /\ k <= MaxOf(applied[n], rSnap[n].index) + BatchLimit
       /\ rCommit' = [rCommit EXCEPT ![n] = k]
  /\ UNCHANGED <<agreed, rLast, rSnap, applied, booted, storage, loop, pack, disk>>

\* Node n is behind the leader's compacted log: raft gets its snapshot.
ReceiveSnapshot(n) ==
  /\ pc[n] = "ready" /\ leader \in Node \ {n} /\ Running(leader)
  /\ rLast[n] < stSnap[leader].index
  /\ EarlySnapshot \/ booted[n]
  /\ rSnap' = [rSnap EXCEPT ![n] = stSnap[leader]]
  /\ rLast' = [rLast EXCEPT ![n] = stSnap[leader].index]
  /\ rCommit' = [rCommit EXCEPT ![n] = stSnap[leader].index]
  /\ UNCHANGED <<agreed, applied, booted, storage, loop, pack, disk>>

(***************************************************************************)
(* packBlock, a goroutine of its own.                                      *)
(***************************************************************************)

\* The leader packs the block above its data base when the storage says that
\* everything in it is committed.
Pack(n) ==
  /\ Running(n) /\ leader = n /\ pack[n] = 0
  /\ last[n] <= hsCommit[n]
  /\ pack' = [pack EXCEPT ![n] = Height(n) + 1]
  /\ UNCHANGED <<agreed, raftVars, storage, loop, disk>>

\* The data base reached the height of the packed block: it is thrown away.
DiscardPacked(n) ==
  /\ Running(n) /\ pack[n] # 0
  /\ pack[n] <= Height(n)
  /\ pack' = [pack EXCEPT ![n] = 0]
  /\ UNCHANGED <<agreed, raftVars, storage, loop, disk>>

\* Propose: raft hands the block to whoever is leader by now.
Propose(n) ==
  /\ Running(n) /\ pack[n] # 0
  /\ pack[n] > Height(n)
  /\ leader # NoNode /\ Running(leader) /\ unstable = {} /\ Len(log) < MaxLog
  /\ unstable' = {pack[n]}
  /\ pack' = [pack EXCEPT ![n] = 0]
  /\ UNCHANGED <<log, ledger, leader, raftVars, storage, loop, disk>>

\* The proposal is lost on the way, or the leader that took it is deposed.
LoseProposal(n) ==
  /\ Running(n) /\ pack[n] # 0
  /\ pack[n] > Height(n)
  /\ pack' = [pack EXCEPT ![n] = 0]
  /\ UNCHANGED <<agreed, raftVars, storage, loop, disk>>

(***************************************************************************)
(* Stopping and starting.                                                  *)
(***************************************************************************)

\* The process ends; what is in memory is lost.
Halt(n, why) ==
  /\ pc' = [pc EXCEPT ![n] = why]
  /\ unstable' = IF leader = n THEN {} ELSE unstable
  /\ rLast' = [rLast EXCEPT ![n] = 0] /\ rCommit' = [rCommit EXCEPT ![n] = 0]
  /\ rSnap' = [rSnap EXCEPT ![n] = NoSnapshot]
  /\ applied' = [applied EXCEPT ![n] = 0]
  /\ booted' = [booted EXCEPT ![n] = FALSE]
  /\ last' = [last EXCEPT ![n] = 0] /\ hsCommit' = [hsCommit EXCEPT ![n] = 0]
  /\ stSnap' = [stSnap EXCEPT ![n] = NoSnapshot]
  /\ committedIndex' = [committedIndex EXCEPT ![n] = 0]
  /\ snapshotIndex' = [snapshotIndex EXCEPT ![n] = 0]
  /\ rdSnap' = [rdSnap EXCEPT ![n] = NoSnapshot]
  /\ rdLast' = [rdLast EXCEPT ![n] = 0]
  /\ lo' = [lo EXCEPT ![n] = 0] /\ hi' = [hi EXCEPT ![n] = 0]
  /\ file' = [file EXCEPT ![n] = NoSnapshot] /\ pack' = [pack EXCEPT ![n] = 0]
  /\ UNCHANGED <<log, ledger, leader, disk>>

Crash(n) == n \in Crashable /\ Running(n) /\ Halt(n, "down")

\* The newest snapshot file, which snapshotter.Load() returns.
IsNewest(n, s) == \/ /\ s \in snaps[n]
                     /\ \A t \in snaps[n] : t.index <= s.index
                  \/ snaps[n] = {} /\ s = NoSnapshot

\* A hard state was written: a Ready with entries has one, for their term.
HasHardState(n, c) == c # 0 \/ walLast[n] # 0

\* wal.ReadAll and raft accept what is on disk: no gap between entries, and the
\* commit index is neither below the snapshot nor above the last entry.  An
\* empty hard state is not looked at (newRaft calls loadState for another one).
DiskLoads(n, s, c) == /\ ~walHole[n]
                      /\ HasHardState(n, c) => s.index <= c
                      /\ c <= MaxOf(walLast[n], s.index)

\* replayWAL loads snapshot s and the hard state c into the storage, and
\* RestartNode starts raft from it: from the snapshot if there is no hard state.
RestartFrom(n, s, c) ==
  /\ pc' = [pc EXCEPT ![n] = "ready"]
  /\ stSnap' = [stSnap EXCEPT ![n] = s]
  /\ snapshotIndex' = [snapshotIndex EXCEPT ![n] = s.index]
  /\ applied' = [applied EXCEPT ![n] = s.index]
  /\ committedIndex' = [committedIndex EXCEPT ![n] = c]
  /\ hsCommit' = [hsCommit EXCEPT ![n] = c]
  /\ rCommit' = [rCommit EXCEPT ![n] = MaxOf(c, s.index)]
  /\ walCommit' = [walCommit EXCEPT ![n] = c]
  /\ walSynced' = [walSynced EXCEPT ![n] = c]
  /\ last' = [last EXCEPT ![n] = MaxOf(walLast[n], s.index)]
  /\ rLast' = [rLast EXCEPT ![n] = MaxOf(walLast[n], s.index)]
  /\ leader' = IF leader = n THEN NoNode ELSE leader
  /\ UNCHANGED <<log, ledger, unstable, rSnap, booted, rdSnap, rdLast, lo, hi, file,
                 pack, db, snaps, walLast, walHole>>

\* A hard state that was written and not synced may be gone.
Restart(n) ==
  /\ pc[n] \in Stopped \ {"refused"}
  /\ \E s \in snaps[n] \cup {NoSnapshot}, c \in {walCommit[n], walSynced[n]} :
       IsNewest(n, s) /\ DiskLoads(n, s, c) /\ RestartFrom(n, s, c)

\* The process panics while it starts, and will whenever it is started again.
RestartRefused(n) ==
  /\ pc[n] \in Stopped \ {"refused"}
  /\ \E s \in snaps[n] \cup {NoSnapshot}, c \in {walCommit[n], walSynced[n]} :
       /\ IsNewest(n, s) /\ ~DiskLoads(n, s, c)
       /\ walCommit' = [walCommit EXCEPT ![n] = c]
       /\ walSynced' = [walSynced EXCEPT ![n] = c]
  /\ pc' = [pc EXCEPT ![n] = "refused"]
  /\ UNCHANGED <<agreed, raftVars, storage, committedIndex, snapshotIndex, rdSnap,
                 rdLast, lo, hi, file, pack, db, snaps, walLast, walHole>>

(***************************************************************************)
(* handleChanel: one Ready.                                                *)
(***************************************************************************)

TakeReady(n) ==
  /\ pc[n] = "ready"
  /\ \/ rSnap[n] # NoSnapshot
     \/ rLast[n] > last[n]
     \/ rCommit[n] # walCommit[n] \/ rCommit[n] > applied[n]
     \/ leader = n /\ unstable # {}
  /\ rdSnap' = [rdSnap EXCEPT ![n] = rSnap[n]]
  /\ rdLast' = [rdLast EXCEPT ![n] = rLast[n]]
  /\ lo' = [lo EXCEPT ![n] = MaxOf(applied[n], rSnap[n].index) + 1]
  /\ hi' = [hi EXCEPT ![n] = rCommit[n]]
  /\ applied' = [applied EXCEPT ![n] = rCommit[n]]
  /\ rSnap' = [rSnap EXCEPT ![n] = NoSnapshot]
  /\ booted' = [booted EXCEPT ![n] = TRUE]
  /\ pc' = [pc EXCEPT ![n] = IF rSnap[n] # NoSnapshot THEN "recover" ELSE "commit"]
  /\ UNCHANGED <<agreed, rLast, rCommit, storage, committedIndex, snapshotIndex,
                 file, pack, disk>>

-----------------------------------------------------------------------------
(* commitEntries, entry by entry.                                          *)

Committing(n) == pc[n] = "commit" /\ lo[n] <= hi[n]

\* Already committed: skipped.
CommitAgain(n) ==
  /\ Committing(n) /\ lo[n] <= committedIndex[n]
  /\ lo' = [lo EXCEPT ![n] = @ + 1]
  /\ UNCHANGED <<agreed, raftVars, storage, pc, committedIndex, snapshotIndex, rdSnap,
                 rdLast, hi, file, pack, disk>>

\* An empty entry or a configuration change.
CommitControl(n) ==
  /\ Committing(n) /\ lo[n] > committedIndex[n]
  /\ log[lo[n]] = Control
  /\ committedIndex' = [committedIndex EXCEPT ![n] = lo[n]]
  /\ lo' = [lo EXCEPT ![n] = @ + 1]
  /\ UNCHANGED <<agreed, raftVars, storage, pc, snapshotIndex, rdSnap, rdLast, hi, file,
                 pack, disk>>

\* A block whose height the data base has already is dropped.
CommitStaleBlock(n) ==
  /\ Committing(n) /\ lo[n] > committedIndex[n]
  /\ log[lo[n]] # Control /\ log[lo[n]] <= Height(n)
  /\ committedIndex' = [committedIndex EXCEPT ![n] = @ + 1]
  /\ lo' = [lo EXCEPT ![n] = @ + 1]
  /\ UNCHANGED <<agreed, raftVars, storage, pc, snapshotIndex, rdSnap, rdLast, hi, file,
                 pack, disk>>

\* The block is written to the data base.
WriteBlock(n) ==
  /\ db' = [db EXCEPT ![n] = Append(@, lo[n])]
  /\ committedIndex' = [committedIndex EXCEPT ![n] = lo[n]]
  /\ lo' = [lo EXCEPT ![n] = @ + 1]
  /\ UNCHANGED <<agreed, raftVars, storage, pc, snapshotIndex, rdSnap, rdLast, hi, file,
                 pack, snaps, walLast, walCommit, walSynced, walHole>>

\* Mutants: the check of a block's height is missing, lets the last block in
\* again, or lets any higher one in.
CommitBlockUnchecked(n) ==
  /\ Committing(n) /\ lo[n] > committedIndex[n]
  /\ log[lo[n]] # Control
  /\ WriteBlock(n)
CommitBlockAgain(n) ==
  /\ Committing(n) /\ lo[n] > committedIndex[n]
  /\ log[lo[n]] # Control /\ log[lo[n]] \in {Height(n), Height(n) + 1}
  /\ WriteBlock(n)
CommitBlockAhead(n) ==
  /\ Committing(n) /\ lo[n] > committedIndex[n]
  /\ log[lo[n]] > Height(n)
  /\ WriteBlock(n)

\* The next block is checked and written.
CommitBlock(n) ==
  /\ Committing(n) /\ lo[n] > committedIndex[n]
  /\ log[lo[n]] = Height(n) + 1
  /\ WriteBlock(n)

\* panic("Commit block error: b.Height - lastHeight >1")
CommitGap(n) ==
  /\ Committing(n) /\ lo[n] > committedIndex[n]
  /\ log[lo[n]] > Height(n) + 1
  /\ Halt(n, "panicGap")

\* commitEntries returns: to recoverSnapshotData, which saves the snapshot
\* the entries came from, or to handleChanel.
Committed(n) == pc[n] = "commit" /\ lo[n] > hi[n]

-----------------------------------------------------------------------------
(* recoverSnapshotData.                                                    *)

\* raftStorage.ApplySnapshot, which handleChanel calls whatever
\* recoverSnapshotData did, and on to the committed entries of the Ready.
InstallSnapshot(n) ==
  /\ stSnap' = [stSnap EXCEPT ![n] = rdSnap[n]]
  /\ last' = [last EXCEPT ![n] = rdSnap[n].index]
  /\ lo' = [lo EXCEPT ![n] = rdSnap[n].index + 1]
  /\ hi' = [hi EXCEPT ![n] = applied[n]]
  /\ file' = [file EXCEPT ![n] = NoSnapshot]
  /\ pc' = [pc EXCEPT ![n] = "commit"]

\* Mutant: the comparisons are reversed.
IsBehindReversed(n) == hsCommit[n] > rdSnap[n].prev /\ snapshotIndex[n] > rdSnap[n].prev
\* Entries older than the snapshot's are missing: they are fetched.
IsBehind(n) == hsCommit[n] <= rdSnap[n].prev /\ snapshotIndex[n] <= rdSnap[n].prev

Recover(n) ==
  /\ pc[n] = "recover"
  /\ committedIndex[n] < rdSnap[n].index /\ snapshotIndex[n] < rdSnap[n].index
  /\ committedIndex' = [committedIndex EXCEPT ![n] = hsCommit[n]]
  /\ pc' = [pc EXCEPT ![n] = IF IsBehind(n) THEN "fetch" ELSE "final"]
  /\ UNCHANGED <<agreed, raftVars, storage, snapshotIndex, rdSnap, rdLast, lo, hi, file,
                 pack, disk>>

\* Index of the increment that comes next.
NextRequest(n) == snapshotIndex[n] + SnapCount

\* The fetch loop goes on, asking for the snapshot at NextRequest.
Fetching(n) == /\ pc[n] = "fetch"
               /\ NextRequest(n) < rdSnap[n].index
               /\ snapshotIndex[n] % SnapCount = 0

\* Mutant: the first entry of s must have been committed before.
HasEntriesForStrict(n, s) == s.prev < committedIndex[n] /\ committedIndex[n] < s.index
\* snapEntriesToApply: the entries of s from committedIndex + 1 on, if there
\* are any and there is no gap before them.
HasEntriesFor(n, s) == s.prev <= committedIndex[n] /\ committedIndex[n] < s.index

CommitFrom(n, s) ==
  /\ file' = [file EXCEPT ![n] = s]
  /\ lo' = [lo EXCEPT ![n] = committedIndex[n] + 1]
  /\ hi' = [hi EXCEPT ![n] = s.index]
  /\ pc' = [pc EXCEPT ![n] = "commit"]

\* HandleSnap on the leader finds the file, and its entries are committed.
\* With no leader known the loop spins.
FetchSnapshot(n) ==
  /\ Fetching(n) /\ leader # NoNode /\ Running(leader)
  /\ \E s \in snaps[leader] : /\ s.index = NextRequest(n)
                              /\ HasEntriesFor(n, s)
                              /\ CommitFrom(n, s)
  /\ UNCHANGED <<agreed, raftVars, storage, committedIndex, snapshotIndex, rdSnap,
                 rdLast, pack, disk>>

\* The leader is gone or has no such file: panic("ResquestSnapData error!")
FetchRefused(n) ==
  /\ Fetching(n) /\ leader # NoNode
  /\ ~(Running(leader) /\ \E s \in snaps[leader] : s.index = NextRequest(n))
  /\ Halt(n, "panicRequest")

\* The loop ended short of the snapshot before this one:
\* panic("recoverSnapshotData error: recover missing snap data failed")
FetchFailed(n) ==
  /\ pc[n] = "fetch"
  /\ \/ ~Fetching(n) /\ NextRequest(n) # rdSnap[n].index
     \/ /\ Fetching(n) /\ leader # NoNode /\ Running(leader)
        /\ \E s \in snaps[leader] : s.index = NextRequest(n) /\ ~HasEntriesFor(n, s)
  /\ Halt(n, "panicMissing")

FetchDone(n) == pc[n] = "fetch" /\ ~Fetching(n) /\ NextRequest(n) = rdSnap[n].index

\* The received snapshot is the next increment: its entries are committed.
IsNextIncrement(n) == /\ NextRequest(n) = rdSnap[n].index
                      /\ snapshotIndex[n] % SnapCount = 0
                      /\ HasEntriesFor(n, rdSnap[n])

RecoverFinal(n) ==
  /\ pc[n] = "final" \/ FetchDone(n)
  /\ IsNextIncrement(n)
  /\ CommitFrom(n, rdSnap[n])
  /\ UNCHANGED <<agreed, raftVars, storage, committedIndex, snapshotIndex, rdSnap,
                 rdLast, pack, disk>>

\* It is not, or one of the early returns: nothing is committed, the storage
\* moves past the entries all the same.
SkipSnapshot(n) ==
  /\ \/ (pc[n] = "final" \/ FetchDone(n)) /\ ~IsNextIncrement(n)
     \/ /\ pc[n] = "recover"
        /\ rdSnap[n].index <= committedIndex[n] \/ rdSnap[n].index <= snapshotIndex[n]
  /\ InstallSnapshot(n)
  /\ UNCHANGED <<agreed, raftVars, hsCommit, committedIndex, snapshotIndex, rdSnap,
                 rdLast, pack, disk>>

\* saveSnap: record in the WAL (which syncs it), then the file.
SaveFile(n, s) == /\ snaps' = [snaps EXCEPT ![n] = @ \cup {s}]
                  /\ snapshotIndex' = [snapshotIndex EXCEPT ![n] = s.index]
                  /\ walSynced' = [walSynced EXCEPT ![n] = walCommit[n]]

\* Mutants: a fetched file is not kept, or kept and not counted.
SaveFetchedNowhere(n) ==
  /\ Committed(n) /\ file[n] \notin {NoSnapshot, rdSnap[n]}
  /\ snapshotIndex' = [snapshotIndex EXCEPT ![n] = file[n].index]
  /\ committedIndex' = [committedIndex EXCEPT ![n] = file[n].index]
  /\ file' = [file EXCEPT ![n] = NoSnapshot]
  /\ pc' = [pc EXCEPT ![n] = "fetch"]
  /\ UNCHANGED <<agreed, raftVars, storage, rdSnap, rdLast, lo, hi, pack, disk>>
SaveFetchedUncounted(n) ==
  /\ Committed(n) /\ file[n] \notin {NoSnapshot, rdSnap[n]}
  /\ snaps' = [snaps EXCEPT ![n] = @ \cup {file[n]}]
  /\ committedIndex' = [committedIndex EXCEPT ![n] = file[n].index]
  /\ file' = [file EXCEPT ![n] = NoSnapshot]
  /\ pc' = [pc EXCEPT ![n] = "fetch"]
  /\ UNCHANGED <<agreed, raftVars, storage, snapshotIndex, rdSnap, rdLast, lo, hi, pack,
                 db, walLast, walCommit, walSynced, walHole>>

SaveFetched(n) ==
  /\ Committed(n) /\ file[n] \notin {NoSnapshot, rdSnap[n]}
  /\ SaveFile(n, file[n])
  /\ committedIndex' = [committedIndex EXCEPT ![n] = file[n].index]
  /\ file' = [file EXCEPT ![n] = NoSnapshot]
  /\ pc' = [pc EXCEPT ![n] = "fetch"]
  /\ UNCHANGED <<agreed, raftVars, storage, rdSnap, rdLast, lo, hi, pack, db, walLast,
                 walCommit, walHole>>

SaveReceived(n) ==
  /\ Committed(n) /\ file[n] = rdSnap[n] /\ file[n] # NoSnapshot
  /\ SaveFile(n, file[n])
  /\ committedIndex' = [committedIndex EXCEPT ![n] = file[n].index]
  /\ InstallSnapshot(n)
  /\ UNCHANGED <<agreed, raftVars, hsCommit, rdSnap, rdLast, pack, db, walLast,
                 walCommit, walHole>>

-----------------------------------------------------------------------------
(* The end of the Ready.                                                   *)

\* rd is done with.
EndReady(n) == /\ rdSnap' = [rdSnap EXCEPT ![n] = NoSnapshot]
               /\ rdLast' = [rdLast EXCEPT ![n] = 0]
               /\ lo' = [lo EXCEPT ![n] = 0] /\ hi' = [hi EXCEPT ![n] = 0]

\* Mutant: a snapshot is due one entry late.
SnapshotIsDueLate(n) == committedIndex[n] > snapshotIndex[n] + SnapCount
SnapshotIsDue(n) == committedIndex[n] >= snapshotIndex[n] + SnapCount

\* Mutant: the storage keeps the commit index it had.
StoredCommitUnchanged(n) == hsCommit[n]

\* SetHardState gets the commit index clamped to committedIndex.
StoredCommit(n) == IF committedIndex[n] < applied[n] THEN committedIndex[n]
                                                     ELSE applied[n]

\* wal.Save with the commit index raft reported, raftStorage.Append, and
\* SetHardState.
SaveWal(n, newLast) ==
  /\ last' = [last EXCEPT ![n] = newLast]
  /\ hsCommit' = [hsCommit EXCEPT ![n] = StoredCommit(n)]
  /\ walCommit' = [walCommit EXCEPT ![n] = applied[n]]
  /\ IF newLast > last[n]
       THEN /\ walLast' = [walLast EXCEPT ![n] = newLast]
            /\ walSynced' = [walSynced EXCEPT ![n] = applied[n]]
            /\ walHole' = [walHole EXCEPT ![n] =
                 @ \/ last[n] > MaxOf(walLast[n], snapshotIndex[n])]
       ELSE UNCHANGED <<walLast, walSynced, walHole>>
  /\ pc' = [pc EXCEPT ![n] = IF SnapshotIsDue(n) THEN "snapshot" ELSE "ready"]
  /\ EndReady(n)

HasProposal(n) == leader = n /\ unstable # {} /\ rdLast[n] = Len(log)

\* Mutant: the WAL is saved before the committed entries are handled.
PersistFirst(n) ==
  /\ pc[n] = "commit" /\ file[n] = NoSnapshot /\ ~HasProposal(n)
  /\ SaveWal(n, rdLast[n])
  /\ UNCHANGED <<agreed, raftVars, stSnap, committedIndex, snapshotIndex, file, pack,
                 db, snaps>>

Persist(n) ==
  /\ Committed(n) /\ file[n] = NoSnapshot /\ ~HasProposal(n)
  /\ SaveWal(n, rdLast[n])
  /\ UNCHANGED <<agreed, raftVars, stSnap, committedIndex, snapshotIndex, file, pack,
                 db, snaps>>

\* The leader saves an entry of its own; with that it is sent and survives.
\* It extends the agreed chain if its height is the next one.
PersistProposal(n) ==
  /\ Committed(n) /\ file[n] = NoSnapshot /\ HasProposal(n)
  /\ SaveWal(n, Len(log) + 1)
  /\ \E h \in unstable :
       /\ log' = Append(log, h)
       /\ ledger' = IF h = Len(ledger) + 1 THEN Append(ledger, Len(log) + 1) ELSE ledger
  /\ unstable' = {}
  /\ rLast' = [rLast EXCEPT ![n] = Len(log) + 1]
  /\ UNCHANGED <<leader, rCommit, rSnap, applied, booted, stSnap, committedIndex,
                 snapshotIndex, file, pack, db, snaps>>

\* Mutant: the increment goes back one entry too far.
IncrementOfOverlapping(n) ==
  [prev |-> snapshotIndex[n] - 1,
   index |-> committedIndex[n] - (committedIndex[n] % SnapCount)]

\* maybeTriggerSnapshot: SnapCount entries have been committed since the last
\* snapshot, and the next one is taken at a multiple of SnapCount.
IncrementOf(n) == [prev |-> snapshotIndex[n],
                   index |-> committedIndex[n] - (committedIndex[n] % SnapCount)]

TakeSnapshot(n) ==
  /\ pc[n] = "snapshot" /\ stSnap[n].index <= snapshotIndex[n]
  /\ SaveFile(n, IncrementOf(n))
  /\ stSnap' = [stSnap EXCEPT ![n] = IncrementOf(n)]
  /\ pc' = [pc EXCEPT ![n] = "ready"]
  /\ UNCHANGED <<agreed, raftVars, last, hsCommit, committedIndex, rdSnap, rdLast, lo,
                 hi, file, pack, db, walLast, walCommit, walHole>>

\* Reading the entries fails: the storage has compacted some of them.
TakeSnapshotFails(n) ==
  /\ pc[n] = "snapshot" /\ stSnap[n].index > snapshotIndex[n]
  /\ pc' = [pc EXCEPT ![n] = "ready"]
  /\ UNCHANGED <<agreed, raftVars, storage, committedIndex, snapshotIndex, rdSnap,
                 rdLast, lo, hi, file, pack, disk>>

-----------------------------------------------------------------------------
Loop(n) ==
  \/ TakeReady(n)
  \/ CommitAgain(n) \/ CommitControl(n) \/ CommitStaleBlock(n) \/ CommitBlock(n)
  \/ CommitGap(n)
  \/ Recover(n) \/ FetchSnapshot(n) \/ FetchRefused(n) \/ FetchFailed(n)
  \/ RecoverFinal(n) \/ SkipSnapshot(n) \/ SaveFetched(n) \/ SaveReceived(n)
  \/ Persist(n) \/ PersistProposal(n) \/ TakeSnapshot(n) \/ TakeSnapshotFails(n)

Packer(n) == Pack(n) \/ DiscardPacked(n) \/ Propose(n)

Next ==
  \/ StepDown
  \/ \E n \in Node :
       \/ Elect(n) \/ Replicate(n) \/ AdvanceCommit(n) \/ ReceiveSnapshot(n)
       \/ Packer(n) \/ LoseProposal(n)
       \/ Crash(n) \/ Restart(n) \/ RestartRefused(n)
       \/ Loop(n)

Spec == Init /\ [][Next]_vars

\* Every goroutine that can run runs: the event loop of a node, the delivery
\* of raft's messages while there is a leader, and a stopped process is
\* started again.  Elections end: some node stays leader from then on.
Fairness ==
  /\ \A n \in Node : /\ WF_vars(Loop(n)) /\ WF_vars(Restart(n))
                     /\ WF_vars(Replicate(n)) /\ WF_vars(AdvanceCommit(n))
                     /\ WF_vars(ReceiveSnapshot(n))
  /\ \E n \in Node : <>[](leader = n)

FairSpec == Spec /\ Fairness

(***************************************************************************)
(* Correctness.                                                            *)
(***************************************************************************)

\* Replicas never fork: two data bases have the same block at every height
\* both have (commitEntries on different nodes, with replays after crashes,
\* blocks proposed twice and snapshots in between).
ReplicasAgree ==
  \A m, n \in Node : \A h \in 1 .. MaxLog :
    h <= Height(m) /\ h <= Height(n) => db[m][h] = db[n][h]

\* No node meets a block two or more heights above its data base: the panic
\* of commitEntries is not reached.
NoHeightGap == \A n \in Node : pc[n] # "panicGap"

\* No recovery ends with increments missing: the panic at the end of the
\* fetch loop is not reached.
NoMissingIncrement == \A n \in Node : pc[n] # "panicMissing"

\* A node that stops can be started again: raft and the WAL accept what the
\* node left on its disk.
NodesRestart == \A n \in Node : pc[n] # "refused"

\* What the WAL calls committed is in the data base: a restart, which starts
\* from the WAL's commit index, never starts past a block.
DatabaseHoldsWalCommit ==
  \A n \in Node : \A h \in 1 .. Len(ledger) :
    ledger[h] <= walCommit[n] => h <= Height(n)

\* A running node has the file of every increment up to its newest one, so
\* that HandleSnap can serve any node that is behind.
ServesEveryIncrement ==
  \A n \in Node : \A i \in SnapCount .. MaxLog :
    Running(n) /\ i <= snapshotIndex[n] /\ i % SnapCount = 0 =>
      [prev |-> i - SnapCount, index |-> i] \in snaps[n]

\* Whatever happens, the blocks of a data base are blocks of the log, each
\* at its height and in log order: no entry is written twice.
ChainFollowsLog ==
  \A n \in Node : \A h \in 1 .. Height(n) :
    /\ db[n][h] \in 1 .. Len(log) /\ log[db[n][h]] = h
    /\ h > 1 => db[n][h - 1] < db[n][h]

\* While a process runs its commit index never goes back, although
\* recoverSnapshotData sets it from the storage; a lower one would be a
\* second pass over entries already committed.
CommitIndexAdvances ==
  [][\A n \in Node : Running(n) /\ pc'[n] \in Steps =>
        committedIndex[n] <= committedIndex'[n]]_vars

\* Every block agreed on reaches the data base of every node.
EveryBlockArrives ==
  \A n \in Node : \A h \in 1 .. MaxLog : Len(ledger) >= h ~> Height(n) >= h

\* The nodes implement the agreed ledger: the data bases only ever take over,
\* one by one, the blocks of one chain.
Ledger == INSTANCE AgreedLedger WITH Block <- 1 .. MaxLog, copy <- db
ImplementsLedger == Ledger!LedgerSpec
=============================================================================
