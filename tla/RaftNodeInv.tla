---------------------------- MODULE RaftNodeInv -----------------------------
(***************************************************************************)
(* The inductive invariant behind the safety properties of RaftNode.  It   *)
(* holds when a Ready never carries more than SnapCount new committed      *)
(* entries and a restarted node handles a Ready before it gets a snapshot. *)
(***************************************************************************)
EXTENDS RaftNode

Regular == Peers <= BatchLimit /\ BatchLimit <= SnapCount /\ ~EarlySnapshot

\* Every index i of the log is at most Len(log).
InLog(i) == i <= Len(log)

\* s covers exactly the SnapCount entries up to a multiple of SnapCount.
Increment(s) == s.prev + SnapCount = s.index /\ s.index % SnapCount = 0

\* The data base of n has every block of the chain up to log index i.
Covers(n, i) == \A h \in 1 .. Len(ledger) : ledger[h] <= i => h <= Height(n)

\* The chain is a subsequence of the log, heights 1, 2, ...  A block of the
\* log that is not in the chain comes after the one of its height that is.
LedgerInv ==
  /\ Len(log) <= MaxLog
  /\ \A h \in 1 .. Len(ledger) : InLog(ledger[h]) /\ 0 < ledger[h]
  /\ \A h \in 1 .. Len(ledger) : log[ledger[h]] = h
  /\ \A g, h \in 1 .. Len(ledger) : g < h => ledger[g] < ledger[h]
  /\ \A i \in 1 .. Len(log) :
       log[i] # Control => log[i] <= Len(ledger) /\ ledger[log[i]] <= i
  /\ \A h \in unstable : h <= Len(ledger) + 1
  /\ unstable # {} => Len(log) < MaxLog

\* A data base is a prefix of the chain, and so is what packBlock adds to.
ChainInv(n) ==
  /\ Height(n) <= Len(ledger)
  /\ \A h \in 1 .. Height(n) : db[n][h] = ledger[h]
  /\ pack[n] <= Len(ledger) + 1
  /\ Covers(n, walCommit[n]) /\ Covers(n, walSynced[n])
  /\ Covers(n, committedIndex[n])

\* Raft's indexes and the WAL are within the log.
RaftInv(n) ==
  /\ InLog(rLast[n]) /\ InLog(rdLast[n]) /\ InLog(walLast[n])
  /\ InLog(walCommit[n]) /\ InLog(walSynced[n]) /\ InLog(committedIndex[n])
  /\ applied[n] <= rCommit[n] /\ rCommit[n] <= rLast[n]
  /\ rSnap[n] # NoSnapshot => Increment(rSnap[n]) /\ rSnap[n].index <= rCommit[n]
  /\ stSnap[n] # NoSnapshot => Increment(stSnap[n]) /\ InLog(stSnap[n].index)

\* The snapshot files of a node are the increments up to the newest, and its
\* WAL's commit index is at most one increment further.
DiskInv(n) ==
  /\ \A s \in snaps[n] : Increment(s)
  /\ \A s \in snaps[n] : InLog(s.index)
  /\ \A s \in snaps[n] : \A i \in SnapCount .. s.index :
       i % SnapCount = 0 => [prev |-> i - SnapCount, index |-> i] \in snaps[n]
  /\ \A s \in snaps[n] \cup {NoSnapshot} : IsNewest(n, s) =>
       /\ walCommit[n] < s.index + SnapCount + SnapCount
       /\ walSynced[n] < s.index + SnapCount + SnapCount

\* The newest snapshot file of a running node is the one at snapshotIndex.
RunningInv(n) ==
  /\ snapshotIndex[n] % SnapCount = 0
  /\ snapshotIndex[n] <= committedIndex[n]
  /\ \A s \in snaps[n] : s.index <= snapshotIndex[n]
  /\ snapshotIndex[n] # 0 =>
       [prev |-> snapshotIndex[n] - SnapCount, index |-> snapshotIndex[n]] \in snaps[n]

\* Between two Readies everything handed out is committed.
ReadyInv(n) ==
  /\ hsCommit[n] = committedIndex[n] /\ committedIndex[n] <= rCommit[n]
  /\ stSnap[n].index = snapshotIndex[n] /\ file[n] = NoSnapshot
  /\ rSnap[n] # NoSnapshot => committedIndex[n] < rSnap[n].index
  /\ IF booted[n]
       THEN /\ committedIndex[n] = applied[n]
            /\ committedIndex[n] < snapshotIndex[n] + SnapCount
            /\ rCommit[n] <= MaxOf(applied[n], rSnap[n].index) + BatchLimit
       ELSE /\ rSnap[n] = NoSnapshot /\ applied[n] = snapshotIndex[n]
            /\ committedIndex[n] < snapshotIndex[n] + SnapCount + SnapCount
            /\ rCommit[n] <= MaxOf(committedIndex[n], applied[n] + BatchLimit)

\* Recovery of rdSnap has reached snapshotIndex.
RecoveringInv(n) ==
  /\ Increment(rdSnap[n])
  /\ rdSnap[n].index <= applied[n] /\ applied[n] <= rdSnap[n].index + BatchLimit
  /\ snapshotIndex[n] < rdSnap[n].index

RecoverInv(n) ==
  /\ RecoveringInv(n)
  /\ committedIndex[n] < rdSnap[n].index
  /\ committedIndex[n] < snapshotIndex[n] + SnapCount
  /\ file[n] = NoSnapshot

\* commitEntries is handling the entries of a snapshot increment.
IncrementInv(n) ==
  /\ RecoveringInv(n)
  /\ Increment(file[n]) /\ file[n].prev = snapshotIndex[n]
  /\ hi[n] = file[n].index /\ file[n].index <= rdSnap[n].index
  /\ InLog(file[n].index)

\* commitEntries is handling the committed entries of the Ready.
BatchInv(n) ==
  /\ hi[n] = applied[n] /\ stSnap[n].index = snapshotIndex[n]
  /\ hi[n] < snapshotIndex[n] + SnapCount + SnapCount

LoopInv(n) ==
  /\ pc[n] # "ready" => booted[n] /\ rSnap[n] = NoSnapshot /\ rCommit[n] = applied[n]
  /\ pc[n] = "ready" => ReadyInv(n)
  /\ pc[n] = "recover" => RecoverInv(n) /\ hsCommit[n] = committedIndex[n]
  /\ pc[n] \in {"fetch", "final"} =>
       /\ RecoverInv(n)
       /\ snapshotIndex[n] <= rdSnap[n].prev
       /\ pc[n] = "final" => snapshotIndex[n] = rdSnap[n].prev
  /\ pc[n] = "commit" =>
       /\ lo[n] <= committedIndex[n] + 1 /\ committedIndex[n] <= hi[n]
       /\ IF file[n] = NoSnapshot THEN BatchInv(n) ELSE IncrementInv(n)
  /\ pc[n] = "snapshot" =>
       /\ committedIndex[n] = applied[n] /\ hsCommit[n] = committedIndex[n]
       /\ stSnap[n].index = snapshotIndex[n] /\ file[n] = NoSnapshot
       /\ snapshotIndex[n] + SnapCount <= committedIndex[n]
       /\ committedIndex[n] < snapshotIndex[n] + SnapCount + SnapCount

\* What a process that ended leaves to the next one.
StoppedInv(n) == rSnap[n] = NoSnapshot /\ file[n] = NoSnapshot /\ ~booted[n]

NodeInv(n) == /\ ChainInv(n) /\ RaftInv(n) /\ DiskInv(n)
              /\ pc[n] \notin {"panicGap", "panicMissing"}
              /\ IF Running(n) THEN RunningInv(n) /\ LoopInv(n) ELSE StoppedInv(n)

StateInv == TypeOK /\ LedgerInv /\ \A n \in Node : NodeInv(n)

\* A process whose WAL has no entry yet is before the end of its first Ready,
\* which brings some.  It has no snapshot, so that a start from an empty hard
\* state is a start from nothing.
Written(n) ==
  /\ Running(n) /\ leader = n => rLast[n] # 0
  /\ walLast[n] = 0 =>
       /\ walCommit[n] = 0 /\ walSynced[n] = 0 /\ snaps[n] = {}
       /\ Running(n) =>
            /\ last[n] = 0 /\ rSnap[n] = NoSnapshot /\ file[n] = NoSnapshot
            /\ IF pc[n] = "ready" THEN ~booted[n] ELSE pc[n] = "commit" /\ rdLast[n] # 0

WrittenInv == Len(log) # 0 /\ \A n \in Node : Written(n)

Inv == StateInv /\ WrittenInv
=============================================================================
