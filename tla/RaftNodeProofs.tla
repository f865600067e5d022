--------------------------- MODULE RaftNodeProofs ---------------------------
(***************************************************************************)
(* Proofs about RaftNode, for every value of its constants: type           *)
(* correctness; and, for those that are Regular, that the invariant of     *)
(* RaftNodeInv is inductive, so that the safety properties of RaftNode     *)
(* follow from it, and that RaftNode implements AgreedLedger.              *)
(***************************************************************************)
EXTENDS RaftNodeInv, TLAPS

-----------------------------------------------------------------------------
(* Multiples of SnapCount.                                                 *)

\* Products with SnapCount keep their distance.
LEMMA ProductGap ==
  ASSUME NEW a \in Nat, NEW b \in Nat, a < b
  PROVE  SnapCount * a + SnapCount <= SnapCount * b
<1> DEFINE d == b - a - 1
<1>1. d \in Nat
  OBVIOUS
<1>2. SnapCount * d >= 0
  BY <1>1, ConstantsAssumption
<1>3. SnapCount * b = SnapCount * (a + 1 + d)
  BY ConstantsAssumption
<1>4. SnapCount * (a + 1 + d) = SnapCount * a + SnapCount + SnapCount * d
  BY <1>1, ConstantsAssumption
<1>5. QED
  BY <1>2, <1>3, <1>4, ConstantsAssumption

\* Division by SnapCount with remainder.
LEMMA Remainder ==
  ASSUME NEW x \in Nat
  PROVE  /\ x \div SnapCount \in Nat
         /\ x % SnapCount \in 0 .. (SnapCount - 1)
         /\ x = SnapCount * (x \div SnapCount) + (x % SnapCount)
  BY ConstantsAssumption, SMT

\* The remainder is the only one.
LEMMA RemainderUnique ==
  ASSUME NEW x \in Nat, NEW q \in Nat, NEW r \in 0 .. (SnapCount - 1),
         x = SnapCount * q + r
  PROVE  x % SnapCount = r
<1> DEFINE k == x \div SnapCount
<1>1. k \in Nat /\ x % SnapCount \in 0 .. (SnapCount - 1)
      /\ x = SnapCount * k + (x % SnapCount)
  BY Remainder
<1>2. SnapCount * k \in Nat /\ SnapCount * q \in Nat
  BY <1>1, ConstantsAssumption
<1>3. CASE k < q
  <2>1. SnapCount * k + SnapCount <= SnapCount * q
    BY ProductGap, <1>1, <1>3
  <2>2. QED
    BY <2>1, <1>1, <1>2, ConstantsAssumption
<1>4. CASE q < k
  <2>1. SnapCount * q + SnapCount <= SnapCount * k
    BY ProductGap, <1>1, <1>4
  <2>2. QED
    BY <2>1, <1>1, <1>2, ConstantsAssumption
<1>5. CASE q = k
  BY <1>5, <1>1, <1>2, ConstantsAssumption
<1>6. QED
  BY <1>1, <1>3, <1>4, <1>5

\* Nothing is a whole number of increments.
LEMMA ZeroIsMultiple == 0 % SnapCount = 0
  BY ConstantsAssumption, SMT

\* The multiple after x is x + SnapCount ...
LEMMA NextMultiple ==
  ASSUME NEW x \in Nat, x % SnapCount = 0
  PROVE  (x + SnapCount) % SnapCount = 0
<1> DEFINE q == x \div SnapCount
<1>1. q \in Nat /\ x = SnapCount * q
  BY Remainder, ConstantsAssumption
<1>2. x + SnapCount = SnapCount * (q + 1) + 0
  BY <1>1, ConstantsAssumption
<1> HIDE DEF q
<1>3. QED
  BY <1>1, <1>2, RemainderUnique, ConstantsAssumption

\* ... there is none between the two ...
LEMMA MultipleGap ==
  ASSUME NEW x \in Nat, NEW y \in Nat,
         x % SnapCount = 0, y % SnapCount = 0, x < y
  PROVE  x + SnapCount <= y
<1> DEFINE q == x \div SnapCount
           p == y \div SnapCount
<1>1. q \in Nat /\ x = SnapCount * q /\ p \in Nat /\ y = SnapCount * p
  BY Remainder, ConstantsAssumption
<1> HIDE DEF q, p
<1>2. CASE q < p
  BY ProductGap, <1>2, <1>1, ConstantsAssumption
<1>3. CASE p < q
  <2>1. SnapCount * p + SnapCount <= SnapCount * q
    BY ProductGap, <1>3, <1>1
  <2>2. QED
    BY <2>1, <1>1, ConstantsAssumption
<1>4. CASE p = q
  BY <1>4, <1>1
<1>5. QED
  BY <1>1, <1>2, <1>3, <1>4

\* ... and rounding down an index less than two increments ahead gives it.
LEMMA RoundDown ==
  ASSUME NEW x \in Nat, NEW c \in Nat, x % SnapCount = 0,
         x + SnapCount <= c, c < x + SnapCount + SnapCount
  PROVE  c - (c % SnapCount) = x + SnapCount
<1> DEFINE q == x \div SnapCount
           r == c - x - SnapCount
<1>1. q \in Nat /\ x = SnapCount * q
  BY Remainder, ConstantsAssumption
<1>2. r \in 0 .. (SnapCount - 1)
  BY ConstantsAssumption
<1>3. c = SnapCount * (q + 1) + r
  BY <1>1, <1>2, ConstantsAssumption
<1> HIDE DEF q
<1>4. c % SnapCount = r
  BY <1>3, <1>1, <1>2, RemainderUnique
<1>5. QED
  BY <1>4, ConstantsAssumption

-----------------------------------------------------------------------------
(* Type correctness.                                                       *)

\* The values of a node's variables.
LEMMA NodeTypes ==
  ASSUME TypeOK
  PROVE  /\ log \in Seq(Nat) /\ ledger \in Seq(Nat) /\ unstable \in SUBSET Nat
         /\ \A n \in Node :
              /\ rLast[n] \in Nat /\ rCommit[n] \in Nat /\ applied[n] \in Nat
              /\ last[n] \in Nat /\ hsCommit[n] \in Nat
              /\ committedIndex[n] \in Nat /\ snapshotIndex[n] \in Nat
              /\ rdLast[n] \in Nat /\ lo[n] \in Nat /\ hi[n] \in Nat /\ pack[n] \in Nat
              /\ walLast[n] \in Nat /\ walCommit[n] \in Nat /\ walSynced[n] \in Nat
              /\ rSnap[n] \in Snapshot /\ stSnap[n] \in Snapshot
              /\ rdSnap[n] \in Snapshot /\ file[n] \in Snapshot
              /\ db[n] \in Seq(Nat) /\ snaps[n] \in SUBSET Snapshot
  BY DEF TypeOK

\* What is used of Snapshot: its members have indexes.
LEMMA SnapshotType ==
  /\ NoSnapshot \in Snapshot
  /\ \A s \in Snapshot : s.prev \in Nat /\ s.index \in Nat
  /\ \A a, b \in Nat : [prev |-> a, index |-> b] \in Snapshot
  BY DEF Snapshot, NoSnapshot

\* A process that ends leaves well-typed variables.
LEMMA TypeHalt ==
  ASSUME TypeOK, NEW n \in Node, NEW why \in Stopped, Halt(n, why)
  PROVE  TypeOK'
<1>1. /\ unstable' \in SUBSET Nat /\ rLast' \in [Node -> Nat]
      /\ rCommit' \in [Node -> Nat] /\ applied' \in [Node -> Nat]
      /\ last' \in [Node -> Nat] /\ hsCommit' \in [Node -> Nat]
  BY SnapshotType DEF TypeOK, Halt
<1>2. /\ rSnap' \in [Node -> Snapshot] /\ stSnap' \in [Node -> Snapshot]
      /\ rdSnap' \in [Node -> Snapshot] /\ file' \in [Node -> Snapshot]
  BY SnapshotType DEF TypeOK, Halt
<1>3. booted' \in [Node -> BOOLEAN] /\ pc' \in [Node -> Steps \cup Stopped]
  BY SnapshotType DEF TypeOK, Halt
<1>4. /\ committedIndex' \in [Node -> Nat] /\ snapshotIndex' \in [Node -> Nat]
      /\ rdLast' \in [Node -> Nat] /\ lo' \in [Node -> Nat]
      /\ hi' \in [Node -> Nat] /\ pack' \in [Node -> Nat]
  BY SnapshotType DEF TypeOK, Halt
<1>5. QED
  BY <1>1, <1>2, <1>3, <1>4 DEF TypeOK, Halt, disk

\* Every step leaves well-typed variables.
LEMMA TypeStep ==
  ASSUME TypeOK, Next
  PROVE  TypeOK'
<1>1. CASE StepDown
  BY <1>1 DEF TypeOK, StepDown, raftVars, storage, loop, disk
<1>2. SUFFICES ASSUME NEW n \in Node,
                      \/ Elect(n) \/ Replicate(n) \/ AdvanceCommit(n) \/ ReceiveSnapshot(n)
                      \/ Packer(n) \/ LoseProposal(n)
                      \/ Crash(n) \/ Restart(n) \/ RestartRefused(n)
                      \/ Loop(n)
               PROVE  TypeOK'
  BY <1>1 DEF Next
<1>3. CASE Elect(n)
  <2>1. leader' \in Node \cup {NoNode} /\ unstable' \in SUBSET Nat
    BY <1>3 DEF TypeOK, Elect, Control
  <2>2. QED
    BY <1>3, <2>1 DEF TypeOK, Elect,
       agreed, raftVars, storage, loop, disk
<1>4. CASE Replicate(n)
  <2>1. PICK k \in (rLast[n] + 1) .. Len(log) : rLast' = [rLast EXCEPT ![n] = k]
    BY <1>4 DEF Replicate
  <2>2. k \in Nat
    BY NodeTypes
  <2>3. rLast' \in [Node -> Nat]
    BY <2>1, <2>2 DEF TypeOK
  <2>4. QED
    BY <1>4, <2>3 DEF TypeOK, Replicate,
       agreed, raftVars, storage, loop, disk
<1>5. CASE AdvanceCommit(n)
  <2>1. PICK k \in (rCommit[n] + 1) .. rLast[n] : rCommit' = [rCommit EXCEPT ![n] = k]
    BY <1>5 DEF AdvanceCommit
  <2>2. k \in Nat
    BY NodeTypes
  <2>3. rCommit' \in [Node -> Nat]
    BY <2>1, <2>2 DEF TypeOK
  <2>4. QED
    BY <1>5, <2>3 DEF TypeOK, AdvanceCommit,
       agreed, raftVars, storage, loop, disk
<1>6. CASE ReceiveSnapshot(n)
  <2>1. rLast' \in [Node -> Nat] /\ rCommit' \in [Node -> Nat]
    BY <1>6, SnapshotType DEF TypeOK, ReceiveSnapshot
  <2>2. rSnap' \in [Node -> Snapshot]
    BY <1>6, SnapshotType DEF TypeOK, ReceiveSnapshot
  <2>3. QED
    BY <1>6, <2>1, <2>2 DEF TypeOK, ReceiveSnapshot,
       agreed, raftVars, storage, loop, disk
<1>7. CASE Pack(n)
  <2>1. pack' \in [Node -> Nat]
    BY SMTT(30), <1>7 DEF TypeOK, Pack, Height
  <2>2. QED
    BY <1>7, <2>1 DEF TypeOK, Pack,
       agreed, raftVars, storage, loop, disk
<1>8. CASE DiscardPacked(n)
  <2>1. pack' \in [Node -> Nat]
    BY <1>8 DEF TypeOK, DiscardPacked
  <2>2. QED
    BY <1>8, <2>1 DEF TypeOK, DiscardPacked,
       agreed, raftVars, storage, loop, disk
<1>9. CASE Propose(n)
  <2>1. unstable' \in SUBSET Nat /\ pack' \in [Node -> Nat]
    BY <1>9 DEF TypeOK, Propose
  <2>2. QED
    BY <1>9, <2>1 DEF TypeOK, Propose,
       agreed, raftVars, storage, loop, disk
<1>10. CASE LoseProposal(n)
  <2>1. pack' \in [Node -> Nat]
    BY <1>10 DEF TypeOK, LoseProposal
  <2>2. QED
    BY <1>10, <2>1 DEF TypeOK, LoseProposal,
       agreed, raftVars, storage, loop, disk
<1>11. CASE Crash(n)
  BY <1>11, TypeHalt DEF Crash, Stopped
<1>12. CASE Restart(n)
  <2>1. PICK s \in snaps[n] \cup {NoSnapshot}, c \in {walCommit[n], walSynced[n]} :
          RestartFrom(n, s, c)
    BY <1>12 DEF Restart
  <2>2. c \in Nat /\ s \in Snapshot /\ s.index \in Nat
    BY NodeTypes, SnapshotType
  <2>3. MaxOf(walLast[n], s.index) \in Nat /\ MaxOf(c, s.index) \in Nat
    BY <2>2, NodeTypes DEF MaxOf
  <2>4. /\ leader' \in Node \cup {NoNode} /\ pc' \in [Node -> Steps \cup Stopped]
        /\ stSnap' \in [Node -> Snapshot]
    BY <2>1, <2>2 DEF RestartFrom, TypeOK, Steps
  <2>5. /\ snapshotIndex' \in [Node -> Nat] /\ applied' \in [Node -> Nat]
        /\ committedIndex' \in [Node -> Nat] /\ hsCommit' \in [Node -> Nat]
        /\ rCommit' \in [Node -> Nat]
    BY <2>1, <2>2, <2>3 DEF RestartFrom, TypeOK
  <2>6. /\ walCommit' \in [Node -> Nat] /\ walSynced' \in [Node -> Nat]
        /\ last' \in [Node -> Nat] /\ rLast' \in [Node -> Nat]
    BY <2>1, <2>2, <2>3 DEF RestartFrom, TypeOK
  <2>7. QED
    BY <2>1, <2>4, <2>5, <2>6 DEF TypeOK, RestartFrom
<1>13. CASE RestartRefused(n)
  <2>1. PICK c \in {walCommit[n], walSynced[n]} :
          /\ walCommit' = [walCommit EXCEPT ![n] = c]
          /\ walSynced' = [walSynced EXCEPT ![n] = c]
    BY <1>13 DEF RestartRefused
  <2>2. c \in Nat
    BY NodeTypes
  <2>3. /\ walCommit' \in [Node -> Nat] /\ walSynced' \in [Node -> Nat]
        /\ pc' \in [Node -> Steps \cup Stopped]
    BY <1>13, <2>1, <2>2 DEF RestartRefused, TypeOK, Stopped
  <2>4. QED
    BY <1>13, <2>3 DEF TypeOK, RestartRefused,
       agreed, raftVars, storage, loop, disk
<1>14. CASE TakeReady(n)
  <2>1. MaxOf(applied[n], rSnap[n].index) + 1 \in Nat
    BY NodeTypes, SnapshotType DEF MaxOf
  <2>2. rdSnap' \in [Node -> Snapshot] /\ rSnap' \in [Node -> Snapshot]
    BY <1>14, SnapshotType, <2>1 DEF TypeOK, TakeReady, MaxOf, Steps
  <2>3. rdLast' \in [Node -> Nat] /\ lo' \in [Node -> Nat]
    BY <1>14, SnapshotType, <2>1 DEF TypeOK, TakeReady, MaxOf, Steps
  <2>4. /\ hi' \in [Node -> Nat] /\ applied' \in [Node -> Nat]
        /\ booted' \in [Node -> BOOLEAN] /\ pc' \in [Node -> Steps \cup Stopped]
    BY <1>14, SnapshotType, <2>1 DEF TypeOK, TakeReady, MaxOf, Steps
  <2>5. QED
    BY <1>14, <2>1, <2>2, <2>3, <2>4 DEF TypeOK, TakeReady,
       agreed, raftVars, storage, loop, disk
<1>15. CASE CommitAgain(n)
  <2>1. lo[n] + 1 \in Nat
    BY NodeTypes
  <2>2. lo' \in [Node -> Nat]
    BY <1>15, <2>1 DEF TypeOK, CommitAgain
  <2>3. QED
    BY <1>15, <2>1, <2>2 DEF TypeOK, CommitAgain,
       agreed, raftVars, storage, loop, disk
<1>16. CASE CommitControl(n)
  <2>1. lo[n] + 1 \in Nat /\ lo[n] \in Nat
    BY NodeTypes
  <2>2. lo' \in [Node -> Nat] /\ committedIndex' \in [Node -> Nat]
    BY <1>16, <2>1 DEF TypeOK, CommitControl
  <2>3. QED
    BY <1>16, <2>1, <2>2 DEF TypeOK, CommitControl,
       agreed, raftVars, storage, loop, disk
<1>17. CASE CommitStaleBlock(n)
  <2>1. lo[n] + 1 \in Nat /\ committedIndex[n] + 1 \in Nat
    BY NodeTypes
  <2>2. lo' \in [Node -> Nat] /\ committedIndex' \in [Node -> Nat]
    BY <1>17, <2>1 DEF TypeOK, CommitStaleBlock
  <2>3. QED
    BY <1>17, <2>1, <2>2 DEF TypeOK, CommitStaleBlock,
       agreed, raftVars, storage, loop, disk
<1>18. CASE CommitBlock(n)
  <2>1. lo[n] + 1 \in Nat /\ lo[n] \in Nat /\ Append(db[n], lo[n]) \in Seq(Nat)
    BY NodeTypes
  <2>2. lo' \in [Node -> Nat] /\ committedIndex' \in [Node -> Nat]
    BY <1>18, <2>1 DEF TypeOK, CommitBlock, WriteBlock
  <2>3. db' \in [Node -> Seq(Nat)]
    BY <1>18, <2>1 DEF TypeOK, CommitBlock, WriteBlock
  <2>4. QED
    BY <1>18, <2>1, <2>2, <2>3 DEF TypeOK, CommitBlock, WriteBlock,
       agreed, raftVars, storage, loop, disk
<1>19. CASE CommitGap(n)
  BY <1>19, TypeHalt DEF CommitGap, Stopped
<1>20. CASE Recover(n)
  <2>1. /\ committedIndex' \in [Node -> Nat]
        /\ pc' \in [Node -> Steps \cup Stopped]
    BY <1>20 DEF TypeOK, Recover, Steps
  <2>2. QED
    BY <1>20, <2>1 DEF TypeOK, Recover,
       agreed, raftVars, storage, loop, disk
<1>21. CASE FetchSnapshot(n)
  <2>1. PICK s \in snaps[leader] : CommitFrom(n, s)
    BY <1>21 DEF FetchSnapshot
  <2>2. leader \in Node
    BY <1>21 DEF FetchSnapshot, TypeOK
  <2>3. s \in Snapshot /\ s.index \in Nat /\ committedIndex[n] + 1 \in Nat
    BY <2>2, NodeTypes, SnapshotType
  <2>4. /\ file' \in [Node -> Snapshot] /\ lo' \in [Node -> Nat]
        /\ hi' \in [Node -> Nat] /\ pc' \in [Node -> Steps \cup Stopped]
    BY <2>1, <2>3 DEF CommitFrom, TypeOK, Steps
  <2>5. QED
    BY <1>21, <2>4 DEF TypeOK, FetchSnapshot,
       agreed, raftVars, storage, loop, disk
<1>22. CASE FetchRefused(n)
  BY <1>22, TypeHalt DEF FetchRefused, Stopped
<1>23. CASE FetchFailed(n)
  BY <1>23, TypeHalt DEF FetchFailed, Stopped
<1>24. CASE RecoverFinal(n)
  <2>1. committedIndex[n] + 1 \in Nat /\ rdSnap[n].index \in Nat
    BY NodeTypes, SnapshotType
  <2>2. /\ file' \in [Node -> Snapshot] /\ lo' \in [Node -> Nat]
        /\ hi' \in [Node -> Nat]
    BY <1>24, SnapshotType, <2>1 DEF TypeOK, RecoverFinal, CommitFrom, Steps
  <2>3. pc' \in [Node -> Steps \cup Stopped]
    BY <1>24, SnapshotType, <2>1 DEF TypeOK, RecoverFinal, CommitFrom, Steps
  <2>4. QED
    BY <1>24, <2>1, <2>2, <2>3 DEF TypeOK, RecoverFinal, CommitFrom,
       agreed, raftVars, storage, loop, disk
<1>25. CASE SkipSnapshot(n)
  <2>1. rdSnap[n].index \in Nat /\ rdSnap[n].index + 1 \in Nat
    BY NodeTypes, SnapshotType
  <2>2. stSnap' \in [Node -> Snapshot] /\ file' \in [Node -> Snapshot]
    BY <1>25, SnapshotType, <2>1 DEF TypeOK, SkipSnapshot, InstallSnapshot, Steps
  <2>3. /\ last' \in [Node -> Nat] /\ lo' \in [Node -> Nat]
        /\ hi' \in [Node -> Nat]
    BY <1>25, SnapshotType, <2>1 DEF TypeOK, SkipSnapshot, InstallSnapshot, Steps
  <2>4. pc' \in [Node -> Steps \cup Stopped]
    BY <1>25, SnapshotType, <2>1 DEF TypeOK, SkipSnapshot, InstallSnapshot, Steps
  <2>5. QED
    BY <1>25, <2>1, <2>2, <2>3, <2>4 DEF TypeOK, SkipSnapshot, InstallSnapshot,
       agreed, raftVars, storage, loop, disk
<1>26. CASE SaveFetched(n)
  <2>1. file[n].index \in Nat
    BY NodeTypes, SnapshotType
  <2>2. snaps' \in [Node -> SUBSET Snapshot]
    BY <1>26, SnapshotType, <2>1 DEF TypeOK, SaveFetched, SaveFile, Steps
  <2>3. /\ snapshotIndex' \in [Node -> Nat] /\ walSynced' \in [Node -> Nat]
        /\ committedIndex' \in [Node -> Nat]
    BY <1>26, SnapshotType, <2>1 DEF TypeOK, SaveFetched, SaveFile, Steps
  <2>4. file' \in [Node -> Snapshot] /\ pc' \in [Node -> Steps \cup Stopped]
    BY <1>26, SnapshotType, <2>1 DEF TypeOK, SaveFetched, SaveFile, Steps
  <2>5. QED
    BY <1>26, <2>1, <2>2, <2>3, <2>4 DEF TypeOK, SaveFetched, SaveFile,
       agreed, raftVars, storage, loop, disk
<1>27. CASE SaveReceived(n)
  <2>1. rdSnap[n].index \in Nat /\ rdSnap[n].index + 1 \in Nat
    BY NodeTypes, SnapshotType
  <2>2. file[n].index \in Nat
    BY NodeTypes, SnapshotType
  <2>3. snaps' \in [Node -> SUBSET Snapshot]
    <3>1. snaps' = [snaps EXCEPT ![n] = snaps[n] \cup {file[n]}]
      BY <1>27 DEF SaveReceived, SaveFile
    <3>2. snaps \in [Node -> SUBSET Snapshot] /\ file[n] \in Snapshot
      BY DEF TypeOK
    <3>3. QED
      BY <3>1, <3>2
  <2>4. /\ snapshotIndex' \in [Node -> Nat] /\ walSynced' \in [Node -> Nat]
        /\ committedIndex' \in [Node -> Nat]
    BY <1>27, SnapshotType, <2>1, <2>2 DEF TypeOK, SaveReceived, SaveFile, InstallSnapshot, Steps
  <2>5. /\ stSnap' \in [Node -> Snapshot] /\ file' \in [Node -> Snapshot]
        /\ pc' \in [Node -> Steps \cup Stopped]
    BY <1>27, SnapshotType, <2>1, <2>2 DEF TypeOK, SaveReceived, SaveFile, InstallSnapshot, Steps
  <2>6. /\ last' \in [Node -> Nat] /\ lo' \in [Node -> Nat]
        /\ hi' \in [Node -> Nat]
    BY <1>27, SnapshotType, <2>1, <2>2 DEF TypeOK, SaveReceived, SaveFile, InstallSnapshot, Steps
  <2>7. QED
    BY <1>27, <2>1, <2>2, <2>3, <2>4, <2>5, <2>6 DEF TypeOK, SaveReceived, SaveFile, InstallSnapshot,
       agreed, raftVars, storage, loop, disk
<1>28. CASE Persist(n)
  <2>1. rdLast[n] \in Nat /\ applied[n] \in Nat /\ committedIndex[n] \in Nat
    BY NodeTypes
  <2>2. /\ last' \in [Node -> Nat] /\ hsCommit' \in [Node -> Nat]
        /\ walCommit' \in [Node -> Nat]
    BY <1>28, SnapshotType, <2>1 DEF TypeOK, Persist, SaveWal, StoredCommit, EndReady, Steps
  <2>3. /\ walLast' \in [Node -> Nat] /\ walSynced' \in [Node -> Nat]
        /\ walHole' \in [Node -> BOOLEAN]
    <3>1. \/ /\ walLast' = [walLast EXCEPT ![n] = rdLast[n]]
             /\ walSynced' = [walSynced EXCEPT ![n] = applied[n]]
             /\ \E b \in BOOLEAN : walHole' = [walHole EXCEPT ![n] = b]
          \/ UNCHANGED <<walLast, walSynced, walHole>>
      <4>1. CASE rdLast[n] > last[n]
        <5> DEFINE b == walHole[n] \/ last[n] > MaxOf(walLast[n], snapshotIndex[n])
        <5>1. walHole' = [walHole EXCEPT ![n] = b] /\ b \in BOOLEAN
          BY <1>28, <4>1 DEF Persist, SaveWal
        <5>2. QED
          BY <1>28, <4>1, <5>1 DEF Persist, SaveWal
      <4>2. CASE ~(rdLast[n] > last[n])
        BY <1>28, <4>2 DEF Persist, SaveWal
      <4>3. QED
        BY <4>1, <4>2
    <3>2. /\ walLast \in [Node -> Nat] /\ walSynced \in [Node -> Nat]
          /\ walHole \in [Node -> BOOLEAN]
      BY DEF TypeOK
    <3>3. QED
      BY <2>1, <3>1, <3>2
  <2>4. /\ pc' \in [Node -> Steps \cup Stopped] /\ rdSnap' \in [Node -> Snapshot]
        /\ rdLast' \in [Node -> Nat] /\ lo' \in [Node -> Nat]
        /\ hi' \in [Node -> Nat]
    BY <1>28, SnapshotType, <2>1 DEF TypeOK, Persist, SaveWal, StoredCommit, EndReady, Steps
  <2>5. QED
    BY <1>28, <2>1, <2>2, <2>3, <2>4 DEF TypeOK, Persist, SaveWal, StoredCommit, EndReady,
       agreed, raftVars, storage, loop, disk
<1>29. CASE PersistProposal(n)
  <2>1. /\ Len(log) + 1 \in Nat /\ applied[n] \in Nat /\ committedIndex[n] \in Nat
        /\ \A h \in unstable : Append(log, h) \in Seq(Nat)
        /\ Append(ledger, Len(log) + 1) \in Seq(Nat)
    BY NodeTypes
  <2>2. /\ last' \in [Node -> Nat] /\ hsCommit' \in [Node -> Nat]
        /\ walCommit' \in [Node -> Nat]
    BY <1>29, SnapshotType, <2>1 DEF TypeOK, PersistProposal, SaveWal, StoredCommit, EndReady, Steps
  <2>3. walLast' \in [Node -> Nat]
    BY <1>29, SnapshotType, <2>1 DEF TypeOK, PersistProposal, SaveWal, StoredCommit, EndReady, Steps
  <2>4. walSynced' \in [Node -> Nat]
    BY <1>29, SnapshotType, <2>1 DEF TypeOK, PersistProposal, SaveWal, StoredCommit, EndReady, Steps
  <2>5. walHole' \in [Node -> BOOLEAN]
    BY <1>29, SnapshotType, <2>1 DEF TypeOK, PersistProposal, SaveWal, StoredCommit, EndReady, Steps
  <2>6. /\ pc' \in [Node -> Steps \cup Stopped] /\ rdSnap' \in [Node -> Snapshot]
        /\ rdLast' \in [Node -> Nat] /\ lo' \in [Node -> Nat]
        /\ hi' \in [Node -> Nat]
    BY <1>29, SnapshotType, <2>1 DEF TypeOK, PersistProposal, SaveWal, StoredCommit, EndReady, Steps
  <2>7. /\ log' \in Seq(Nat) /\ ledger' \in Seq(Nat) /\ unstable' \in SUBSET Nat
        /\ rLast' \in [Node -> Nat]
    BY <1>29, SnapshotType, <2>1 DEF TypeOK, PersistProposal, SaveWal, StoredCommit, EndReady, Steps
  <2>8. QED
    BY <1>29, <2>1, <2>2, <2>3, <2>4, <2>5, <2>6, <2>7 DEF TypeOK, PersistProposal, SaveWal, StoredCommit, EndReady,
       agreed, raftVars, storage, loop, disk
<1>30. CASE TakeSnapshot(n)
  <2>1. snapshotIndex[n] \in Nat /\ committedIndex[n] \in Nat
    BY NodeTypes
  <2>2. committedIndex[n] - (committedIndex[n] % SnapCount) \in Nat
    BY <2>1, Remainder, ConstantsAssumption
  <2>3. IncrementOf(n) \in Snapshot /\ IncrementOf(n).index \in Nat
    BY <2>1, <2>2, SnapshotType DEF IncrementOf
  <2>4. snaps' \in [Node -> SUBSET Snapshot] /\ stSnap' \in [Node -> Snapshot]
    BY <1>30, SnapshotType, <2>1, <2>2, <2>3 DEF TypeOK, TakeSnapshot, SaveFile, Steps
  <2>5. /\ snapshotIndex' \in [Node -> Nat] /\ walSynced' \in [Node -> Nat]
        /\ pc' \in [Node -> Steps \cup Stopped]
    BY <1>30, SnapshotType, <2>1, <2>2, <2>3 DEF TypeOK, TakeSnapshot, SaveFile, Steps
  <2>6. QED
    BY <1>30, <2>1, <2>2, <2>3, <2>4, <2>5 DEF TypeOK, TakeSnapshot, SaveFile,
       agreed, raftVars, storage, loop, disk
<1>31. CASE TakeSnapshotFails(n)
  <2>1. pc' \in [Node -> Steps \cup Stopped]
    BY <1>31 DEF TypeOK, TakeSnapshotFails, Steps
  <2>2. QED
    BY <1>31, <2>1 DEF TypeOK, TakeSnapshotFails,
       agreed, raftVars, storage, loop, disk
<1>32. QED
  BY <1>2, <1>3, <1>4, <1>5, <1>6, <1>7, <1>8, <1>9, <1>10, <1>11, <1>12,
     <1>13, <1>14, <1>15, <1>16, <1>17, <1>18, <1>19, <1>20, <1>21, <1>22,
     <1>23, <1>24, <1>25, <1>26, <1>27, <1>28, <1>29, <1>30, <1>31
     DEF Packer, Loop

\* The types of the first state.
LEMMA TypeInit ==
  ASSUME Init
  PROVE  TypeOK
<1>1. /\ log \in Seq(Nat) /\ ledger \in Seq(Nat)
      /\ leader \in Node \cup {NoNode} /\ unstable \in SUBSET Nat
  BY ConstantsAssumption DEF Init, Control
<1>2. /\ rSnap \in [Node -> Snapshot] /\ stSnap \in [Node -> Snapshot]
      /\ rdSnap \in [Node -> Snapshot] /\ file \in [Node -> Snapshot]
      /\ snaps \in [Node -> SUBSET Snapshot]
  BY SnapshotType DEF Init
<1>3. db \in [Node -> Seq(Nat)]
  BY DEF Init
<1>4. QED
  BY <1>1, <1>2, <1>3, ConstantsAssumption DEF Init, TypeOK, Steps

\* Every variable keeps its type, in every instance and every execution.
THEOREM TypeCorrect == Spec => []TypeOK
<1>1. Init => TypeOK
  BY TypeInit
<1>2. TypeOK /\ [Next]_vars => TypeOK'
  <2>1. TypeOK /\ Next => TypeOK'
    BY TypeStep
  <2>2. TypeOK /\ UNCHANGED vars => TypeOK'
    BY DEF TypeOK, vars, agreed, raftVars, storage, loop, disk
  <2>3. QED
    BY <2>1, <2>2
<1>3. QED
  BY <1>1, <1>2, PTL DEF Spec

-----------------------------------------------------------------------------
(* What a step of one node leaves alone.                                   *)

\* Nothing of node m changes.
Same(m) ==
  /\ rLast'[m] = rLast[m] /\ rCommit'[m] = rCommit[m] /\ rSnap'[m] = rSnap[m]
  /\ applied'[m] = applied[m] /\ booted'[m] = booted[m]
  /\ hsCommit'[m] = hsCommit[m] /\ stSnap'[m] = stSnap[m]
  /\ pc'[m] = pc[m] /\ committedIndex'[m] = committedIndex[m]
  /\ snapshotIndex'[m] = snapshotIndex[m] /\ rdSnap'[m] = rdSnap[m]
  /\ rdLast'[m] = rdLast[m] /\ lo'[m] = lo[m] /\ hi'[m] = hi[m]
  /\ file'[m] = file[m] /\ pack'[m] = pack[m] /\ db'[m] = db[m]
  /\ snaps'[m] = snaps[m] /\ walLast'[m] = walLast[m]
  /\ walCommit'[m] = walCommit[m] /\ walSynced'[m] = walSynced[m]

\* The log and the chain only grow, the chain by new entries of the log.
Grown ==
  /\ Len(log) <= Len(log') /\ Len(ledger) <= Len(ledger')
  /\ \A h \in 1 .. Len(ledger) : ledger'[h] = ledger[h]
  /\ \A h \in 1 .. Len(ledger') : h > Len(ledger) => ledger'[h] > Len(log)

\* The types of a node after a step.
LEMMA NodeTypesNext ==
  ASSUME TypeOK'
  PROVE  /\ log' \in Seq(Nat) /\ ledger' \in Seq(Nat) /\ unstable' \in SUBSET Nat
         /\ \A n \in Node :
              /\ rLast'[n] \in Nat /\ rCommit'[n] \in Nat /\ applied'[n] \in Nat
              /\ hsCommit'[n] \in Nat
              /\ committedIndex'[n] \in Nat /\ snapshotIndex'[n] \in Nat
              /\ rdLast'[n] \in Nat /\ lo'[n] \in Nat /\ hi'[n] \in Nat /\ pack'[n] \in Nat
              /\ walLast'[n] \in Nat /\ walCommit'[n] \in Nat /\ walSynced'[n] \in Nat
              /\ rSnap'[n] \in Snapshot /\ stSnap'[n] \in Snapshot
              /\ rdSnap'[n] \in Snapshot /\ file'[n] \in Snapshot
              /\ db'[n] \in Seq(Nat) /\ snaps'[n] \in SUBSET Snapshot
  BY DEF TypeOK

\* The length and the entries of a log are numbers.
LEMMA Entries ==
  ASSUME NEW s \in Seq(Nat)
  PROVE  Len(s) \in Nat /\ \A i \in 1 .. Len(s) : s[i] \in Nat
  OBVIOUS

\* The chain of a node holds what it held while only its indexes move among
\* values that are covered already.
LEMMA ChainKept ==
  ASSUME TypeOK, TypeOK', NEW n \in Node, Grown, LedgerInv, ChainInv(n), RaftInv(n),
         db'[n] = db[n], pack'[n] <= Len(ledger) + 1,
         walCommit'[n] \in {walCommit[n], walSynced[n], committedIndex[n]},
         walSynced'[n] \in {walCommit[n], walSynced[n], committedIndex[n]},
         committedIndex'[n] \in {walCommit[n], walSynced[n], committedIndex[n], 0}
  PROVE  ChainInv(n)'
<1>1. Len(ledger) \in Nat /\ Len(ledger') \in Nat /\ Len(log) \in Nat
      /\ Len(db[n]) \in Nat
  BY NodeTypes, NodeTypesNext
<1>2. /\ pack'[n] \in Nat /\ walCommit[n] \in Nat /\ walSynced[n] \in Nat
      /\ committedIndex[n] \in Nat
  BY NodeTypes, NodeTypesNext
<1>3. /\ \A h \in 1 .. Len(ledger) : ledger[h] \in Nat
      /\ \A h \in 1 .. Len(ledger') : ledger'[h] \in Nat
  BY NodeTypes, NodeTypesNext, Entries
<1>4. ASSUME NEW i \in Nat, i <= Len(log), Covers(n, i)
      PROVE  \A h \in 1 .. Len(ledger') : ledger'[h] <= i => h <= Height(n)
  <2> SUFFICES ASSUME NEW h \in 1 .. Len(ledger'), ledger'[h] <= i
               PROVE  h <= Height(n)
    OBVIOUS
  <2>1. h <= Len(ledger)
    BY <1>1, <1>3, <1>4 DEF Grown
  <2>2. h \in 1 .. Len(ledger) /\ ledger'[h] = ledger[h]
    BY <2>1, <1>1 DEF Grown
  <2>3. QED
    BY <2>2, <1>4 DEF Covers
<1>5. /\ \A h \in 1 .. Len(ledger') : ledger'[h] <= walCommit[n] => h <= Height(n)
      /\ \A h \in 1 .. Len(ledger') : ledger'[h] <= walSynced[n] => h <= Height(n)
      /\ \A h \in 1 .. Len(ledger') : ledger'[h] <= committedIndex[n] => h <= Height(n)
  BY <1>2, <1>4 DEF ChainInv, RaftInv, InLog
<1>6. Covers(n, 0)
  BY <1>1, <1>3 DEF Covers, LedgerInv
<1>7. \A h \in 1 .. Len(ledger') : ledger'[h] <= 0 => h <= Height(n)
  BY <1>1, <1>4, <1>6
<1>8. Height(n)' = Height(n)
  BY DEF Height
<1>9. Covers(n, walCommit[n])' /\ Covers(n, walSynced[n])' /\ Covers(n, committedIndex[n])'
  BY <1>5, <1>7, <1>8 DEF Covers
<1>10. Height(n)' <= Len(ledger') /\ pack'[n] <= Len(ledger') + 1
  BY <1>1, <1>2, <1>8 DEF ChainInv, Grown, Height
<1>11. \A h \in 1 .. Height(n)' : db'[n][h] = ledger'[h]
  <2> SUFFICES ASSUME NEW h \in 1 .. Height(n) PROVE db[n][h] = ledger'[h]
    BY <1>8
  <2>1. h \in 1 .. Len(ledger)
    BY <1>1 DEF ChainInv, Height
  <2>2. QED
    BY <2>1 DEF ChainInv, Grown
<1>12. QED
  BY <1>9, <1>10, <1>11 DEF ChainInv

\* The snapshot files stay those of the disk.
LEMMA DiskKept ==
  ASSUME TypeOK, TypeOK', NEW n \in Node, Grown, DiskInv(n), snaps'[n] = snaps[n],
         walCommit'[n] \in {walCommit[n], walSynced[n]},
         walSynced'[n] \in {walCommit[n], walSynced[n]}
  PROVE  DiskInv(n)'
<1>1. Len(log) \in Nat /\ Len(log') \in Nat /\ \A s \in snaps[n] : s.index \in Nat
  BY NodeTypes, NodeTypesNext, SnapshotType
<1>2. \A s : IsNewest(n, s)' <=> IsNewest(n, s)
  BY DEF IsNewest
<1>3. /\ \A s \in snaps'[n] : Increment(s)
      /\ \A s \in snaps'[n] : InLog(s.index)'
      /\ \A s \in snaps'[n] : \A i \in SnapCount .. s.index :
           i % SnapCount = 0 => [prev |-> i - SnapCount, index |-> i] \in snaps'[n]
  BY <1>1 DEF DiskInv, InLog, Grown
<1>4. \A s \in snaps'[n] \cup {NoSnapshot} : IsNewest(n, s)' =>
        /\ walCommit'[n] < s.index + SnapCount + SnapCount
        /\ walSynced'[n] < s.index + SnapCount + SnapCount
  BY <1>2 DEF DiskInv
<1>5. QED
  BY <1>3, <1>4 DEF DiskInv, Increment

\* A node that does not move keeps its invariant while the log grows.
LEMMA NodeKept ==
  ASSUME TypeOK, TypeOK', NEW n \in Node, Grown, LedgerInv, NodeInv(n), Same(n)
  PROVE  NodeInv(n)'
<1>1. ChainInv(n)'
  BY ChainKept DEF NodeInv, Same, ChainInv
<1>2. DiskInv(n)'
  BY DiskKept DEF NodeInv, Same
<1>3. Len(log) \in Nat /\ Len(log') \in Nat
  BY NodeTypes, NodeTypesNext
<1>4. RaftInv(n)'
  <2>1. rLast[n] \in Nat /\ rdLast[n] \in Nat /\ walLast[n] \in Nat /\ walCommit[n] \in Nat
        /\ walSynced[n] \in Nat /\ committedIndex[n] \in Nat /\ stSnap[n].index \in Nat
    BY NodeTypes, SnapshotType
  <2>2. \A i \in Nat : InLog(i) => InLog(i)'
    BY <1>3 DEF InLog, Grown
  <2>3. /\ InLog(rLast[n])' /\ InLog(rdLast[n])' /\ InLog(walLast[n])'
        /\ InLog(walCommit[n])' /\ InLog(walSynced[n])' /\ InLog(committedIndex[n])'
    BY SMTT(30), <1>3, <2>1 DEF NodeInv, Same, RaftInv, InLog, Grown
  <2>4. stSnap'[n] # NoSnapshot => Increment(stSnap'[n]) /\ InLog(stSnap[n].index)'
    BY <1>3, <2>1 DEF NodeInv, Same, RaftInv, InLog, Grown
  <2>5. QED
    BY <2>3, <2>4 DEF NodeInv, Same, RaftInv, Increment
<1>5. Running(n)' = Running(n) /\ pc'[n] = pc[n]
  BY DEF Running, Same
<1>6. RunningInv(n) => RunningInv(n)'
  BY DEF RunningInv, Same
<1>7. StoppedInv(n) => StoppedInv(n)'
  BY DEF StoppedInv, Same
<1>8. RecoveringInv(n)' = RecoveringInv(n) /\ RecoverInv(n)' = RecoverInv(n)
  BY DEF RecoveringInv, RecoverInv, Increment, Same
<1>9. IncrementInv(n) => IncrementInv(n)'
  <2>1. file[n].index \in Nat
    BY NodeTypes, SnapshotType
  <2>2. QED
    BY <1>3, <1>8, <2>1 DEF IncrementInv, Increment, Same, InLog, Grown
<1>10. BatchInv(n)' = BatchInv(n)
  BY DEF BatchInv, Same
<1>11. ReadyInv(n)' = ReadyInv(n)
  BY DEF ReadyInv, Same
<1>12. LoopInv(n) => LoopInv(n)'
  BY <1>8, <1>9, <1>10, <1>11 DEF LoopInv, Same
<1>13. QED
  BY <1>1, <1>2, <1>4, <1>5, <1>6, <1>7, <1>12 DEF NodeInv

\* So a step has to be looked at for the node that takes it.
LEMMA OneNode ==
  ASSUME StateInv, TypeOK', Grown, LedgerInv', NEW n \in Node,
         \A m \in Node \ {n} : Same(m), NodeInv(n)'
  PROVE  StateInv'
<1>1. \A m \in Node : NodeInv(m)'
  <2> SUFFICES ASSUME NEW m \in Node PROVE NodeInv(m)'
    OBVIOUS
  <2>1. CASE m = n
    BY <2>1
  <2>2. CASE m # n
    BY <2>2, NodeKept DEF StateInv
  <2>3. QED
    BY <2>1, <2>2
<1>2. QED
  BY <1>1 DEF StateInv

\* Raft's log, its leader and what the leader accepted stay as they are.
LEMMA AgreedKept ==
  ASSUME TypeOK, LedgerInv, UNCHANGED <<log, ledger>>, unstable' \subseteq unstable
  PROVE  Grown /\ LedgerInv'
<1>1. Len(log) \in Nat /\ Len(ledger) \in Nat
  BY NodeTypes
<1>2. Grown
  BY <1>1 DEF Grown
<1>3. LedgerInv'
  BY DEF LedgerInv, InLog
<1>4. QED
  BY <1>2, <1>3

-----------------------------------------------------------------------------
(* Raft and the packer.                                                    *)

\* Elections change no log and no disk.
LEMMA ElectionStep ==
  ASSUME StateInv, TypeOK', StepDown \/ \E n \in Node : Elect(n)
  PROVE  StateInv'
<1>1. \A m \in Node : Same(m)
  BY DEF StepDown, Elect, Same, raftVars, storage, loop, disk
<1>2. Len(log) \in Nat /\ Len(ledger) \in Nat
  BY NodeTypes DEF StateInv
<1>3. Grown
  BY <1>2 DEF Grown, StepDown, Elect
<1>4. LedgerInv'
  <2>1. UNCHANGED <<log, ledger>> /\ \A h \in unstable' : h = 0
    BY DEF StepDown, Elect, Control
  <2>2. unstable' # {} => Len(log) < MaxLog
    BY DEF StepDown, Elect
  <2>3. QED
    BY <1>2, <2>1, <2>2 DEF StateInv, LedgerInv, InLog
<1>5. QED
  BY <1>1, <1>3, <1>4, NodeKept DEF StateInv

\* A node's raft log grows, its disk does not.
LEMMA ReplicateStep ==
  ASSUME StateInv, TypeOK', NEW n \in Node, Replicate(n)
  PROVE  StateInv'
<1>1. Grown /\ LedgerInv'
  BY AgreedKept DEF StateInv, Replicate, agreed
<1>2. PICK k \in (rLast[n] + 1) .. Len(log) : rLast' = [rLast EXCEPT ![n] = k]
  BY DEF Replicate
<1>3. (\A m \in Node \ {n} : Same(m)) /\ rLast'[n] = k
  BY <1>2 DEF Replicate, StateInv, TypeOK, Same, storage, loop, disk
<1>4. ChainInv(n)'
  BY <1>1, ChainKept DEF Replicate, loop, disk, StateInv, NodeInv, ChainInv
<1>5. DiskInv(n)'
  BY <1>1, DiskKept DEF Replicate, disk, StateInv, NodeInv
<1>6. RaftInv(n)'
  <2>1. rLast[n] \in Nat /\ rCommit[n] \in Nat /\ Len(log) \in Nat
    BY NodeTypes DEF StateInv
  <2>2. InLog(rLast'[n]) /\ rCommit[n] <= rLast'[n]
    BY <1>2, <1>3, <2>1 DEF StateInv, NodeInv, RaftInv, InLog
  <2>3. QED
    BY <2>2 DEF Replicate, StateInv, NodeInv, RaftInv, InLog, agreed, storage, loop, disk
<1>7. pc[n] = "ready" /\ Running(n) /\ RunningInv(n) /\ ReadyInv(n)
  BY DEF Replicate, Running, Steps, StateInv, NodeInv, LoopInv
<1>8. RunningInv(n)' /\ ReadyInv(n)'
  BY <1>7 DEF Replicate, RunningInv, ReadyInv, storage, loop, disk
<1>9. pc'[n] = "ready"
  BY <1>7 DEF Replicate, loop
<1>10. QED
  BY <1>1, <1>3, <1>4, <1>5, <1>6, <1>8, <1>9, OneNode
     DEF NodeInv, LoopInv, Running, Steps

\* A commit index moves within the log; at most BatchLimit entries are not applied.
LEMMA AdvanceCommitStep ==
  ASSUME StateInv, TypeOK', NEW n \in Node, AdvanceCommit(n)
  PROVE  StateInv'
<1>1. Grown /\ LedgerInv'
  BY AgreedKept DEF StateInv, AdvanceCommit, agreed
<1>2. PICK k \in (rCommit[n] + 1) .. rLast[n] :
        /\ k <= MaxOf(applied[n], rSnap[n].index) + BatchLimit
        /\ rCommit' = [rCommit EXCEPT ![n] = k]
  BY DEF AdvanceCommit
<1>3. (\A m \in Node \ {n} : Same(m)) /\ rCommit'[n] = k
  BY <1>2 DEF AdvanceCommit, StateInv, TypeOK, Same, storage, loop, disk
<1>4. ChainInv(n)'
  BY <1>1, ChainKept DEF AdvanceCommit, loop, disk, StateInv, NodeInv, ChainInv
<1>5. DiskInv(n)'
  BY <1>1, DiskKept DEF AdvanceCommit, disk, StateInv, NodeInv
<1>6. rLast[n] \in Nat /\ rCommit[n] \in Nat /\ applied[n] \in Nat
      /\ committedIndex[n] \in Nat /\ rSnap[n].index \in Nat /\ k \in Nat
  BY NodeTypes, SnapshotType DEF StateInv
<1>7. k <= rLast[n] /\ rCommit[n] <= k
  BY <1>6
<1>8. RaftInv(n)'
  <2>1. applied[n] <= k /\ (rSnap[n] # NoSnapshot => rSnap[n].index <= k)
    BY <1>6, <1>7 DEF StateInv, NodeInv, RaftInv
  <2>2. QED
    BY <2>1, <1>3, <1>7
       DEF AdvanceCommit, StateInv, NodeInv, RaftInv, InLog, agreed, storage, loop, disk
<1>9. pc[n] = "ready" /\ Running(n) /\ RunningInv(n) /\ ReadyInv(n)
  BY DEF AdvanceCommit, Running, Steps, StateInv, NodeInv, LoopInv
<1>10. ReadyInv(n)'
  <2>1. committedIndex[n] <= k
    BY <1>6, <1>7, <1>9 DEF ReadyInv
  <2>2. ~booted[n] => k <= MaxOf(committedIndex[n], applied[n] + BatchLimit)
    <3> SUFFICES ASSUME ~booted[n] PROVE k <= MaxOf(committedIndex[n], applied[n] + BatchLimit)
      OBVIOUS
    <3>1. MaxOf(applied[n], rSnap[n].index) = applied[n]
      BY <1>6, <1>9 DEF ReadyInv, NoSnapshot, MaxOf
    <3>2. QED
      BY <1>2, <1>6, <3>1, ConstantsAssumption DEF MaxOf
  <2>3. QED
    BY <1>2, <1>3, <1>9, <2>1, <2>2 DEF AdvanceCommit, ReadyInv, storage, loop
<1>11. RunningInv(n)' /\ pc'[n] = "ready"
  BY <1>9 DEF AdvanceCommit, RunningInv, loop, disk
<1>12. QED
  BY <1>1, <1>3, <1>4, <1>5, <1>8, <1>10, <1>11, OneNode
     DEF NodeInv, LoopInv, Running, Steps

\* A node whose entries the leader has compacted gets its newest snapshot.
LEMMA ReceiveSnapshotStep ==
  ASSUME StateInv, TypeOK', Regular, NEW n \in Node, ReceiveSnapshot(n)
  PROVE  StateInv'
<1> DEFINE s == stSnap[leader]
<1>1. Grown /\ LedgerInv'
  BY AgreedKept DEF StateInv, ReceiveSnapshot, agreed
<1>2. /\ \A m \in Node \ {n} : Same(m)
      /\ rSnap'[n] = s /\ rLast'[n] = s.index /\ rCommit'[n] = s.index
  BY DEF ReceiveSnapshot, StateInv, TypeOK, Same, storage, loop, disk
<1>3. ChainInv(n)'
  BY <1>1, ChainKept DEF ReceiveSnapshot, loop, disk, StateInv, NodeInv, ChainInv
<1>4. DiskInv(n)'
  BY <1>1, DiskKept DEF ReceiveSnapshot, disk, StateInv, NodeInv
<1>5. leader \in Node /\ rLast[n] < s.index /\ booted[n] /\ pc[n] = "ready"
  BY DEF ReceiveSnapshot, Regular
<1>6. rLast[n] \in Nat /\ rCommit[n] \in Nat /\ applied[n] \in Nat
      /\ committedIndex[n] \in Nat /\ s.index \in Nat
  BY <1>5, NodeTypes, SnapshotType DEF StateInv
<1>7. s # NoSnapshot
  BY <1>5, <1>6 DEF NoSnapshot
<1>8. Increment(s) /\ InLog(s.index)
  BY <1>5, <1>7 DEF StateInv, NodeInv, RaftInv
<1>9. rCommit[n] < s.index /\ applied[n] < s.index
  BY <1>5, <1>6 DEF StateInv, NodeInv, RaftInv
<1>10. RaftInv(n)'
  BY <1>2, <1>6, <1>8, <1>9
     DEF ReceiveSnapshot, StateInv, NodeInv, RaftInv, InLog, Increment, agreed, storage, loop, disk
<1>11. Running(n) /\ RunningInv(n) /\ ReadyInv(n)
  BY <1>5 DEF Running, Steps, StateInv, NodeInv, LoopInv
<1>12. ReadyInv(n)'
  <2>1. committedIndex[n] < s.index
    BY <1>6, <1>9, <1>11 DEF ReadyInv
  <2>2. s.index <= MaxOf(applied[n], s.index) + BatchLimit
    BY <1>6, <1>9, ConstantsAssumption DEF MaxOf
  <2>3. QED
    BY <1>2, <1>5, <1>6, <1>11, <2>1, <2>2 DEF ReceiveSnapshot, ReadyInv, storage, loop
<1>13. RunningInv(n)' /\ pc'[n] = "ready"
  BY <1>5, <1>11 DEF ReceiveSnapshot, RunningInv, loop, disk
<1>14. QED
  BY <1>1, <1>2, <1>3, <1>4, <1>10, <1>12, <1>13, OneNode
     DEF NodeInv, LoopInv, Running, Steps

\* The packer touches nothing but its block and what the leader accepts.
LEMMA PackerStep ==
  ASSUME StateInv, TypeOK', NEW n \in Node, Packer(n) \/ LoseProposal(n)
  PROVE  StateInv'
<1>1. Len(log) \in Nat /\ Len(ledger) \in Nat /\ Len(db[n]) \in Nat /\ pack[n] \in Nat
  BY NodeTypes DEF StateInv
<1>2. UNCHANGED <<log, ledger, raftVars, storage, loop, disk>>
  BY DEF Packer, Pack, DiscardPacked, Propose, LoseProposal, agreed
<1>3. Grown
  BY <1>1, <1>2 DEF Grown
<1>4. /\ pack[n] <= Len(ledger) + 1 /\ Height(n) <= Len(ledger)
  BY DEF StateInv, NodeInv, ChainInv
<1>5. /\ \A m \in Node \ {n} : Same(m)
      /\ pack'[n] \in {0, Height(n) + 1}
  <2>1. PICK p \in {0, Height(n) + 1} : pack' = [pack EXCEPT ![n] = p]
    BY DEF Packer, Pack, DiscardPacked, Propose, LoseProposal
  <2>2. DOMAIN pack = Node
    BY DEF StateInv, TypeOK
  <2>3. \A m \in Node \ {n} : pack'[m] = pack[m]
    BY <2>1, <2>2
  <2>4. pack'[n] = p
    BY <2>1, <2>2
  <2>5. \A m \in Node \ {n} : Same(m)
    BY <1>2, <2>3 DEF Same, raftVars, storage, loop, disk
  <2>6. QED
    BY <2>4, <2>5
<1>6. LedgerInv'
  <2>1. CASE UNCHANGED unstable
    BY <1>2, <2>1, <1>3, AgreedKept DEF StateInv
  <2>2. CASE unstable' = {pack[n]} /\ Len(log) < MaxLog
    BY <1>1, <1>2, <1>4, <2>2 DEF StateInv, LedgerInv, InLog
  <2>3. QED
    BY <2>1, <2>2 DEF Packer, Pack, DiscardPacked, Propose, LoseProposal, agreed
<1>7. pack'[n] <= Len(ledger) + 1
  BY <1>1, <1>4, <1>5 DEF Height
<1>8. ChainInv(n)'
  BY <1>2, <1>3, <1>7, ChainKept DEF loop, disk, StateInv, NodeInv, ChainInv
<1>9. DiskInv(n)'
  BY <1>2, <1>3, DiskKept DEF disk, StateInv, NodeInv
<1>10. RaftInv(n)'
  BY <1>2 DEF StateInv, NodeInv, RaftInv, InLog, raftVars, storage, loop, disk
<1>11. /\ UNCHANGED <<Running(n), RunningInv(n), StoppedInv(n), pc>>
  BY <1>2 DEF Running, RunningInv, StoppedInv, raftVars, storage, loop, disk
<1>12. LoopInv(n)' = LoopInv(n)
  BY <1>2 DEF LoopInv, ReadyInv, RecoverInv, RecoveringInv, IncrementInv, BatchInv, InLog,
              raftVars, storage, loop, disk
<1>13. NodeInv(n)'
  BY <1>8, <1>9, <1>10, <1>11, <1>12 DEF StateInv, NodeInv
<1>14. QED
  BY <1>3, <1>5, <1>6, <1>13, OneNode

-----------------------------------------------------------------------------
(* Stopping and starting.                                                  *)

\* A stop loses what is in memory only.
LEMMA HaltStep ==
  ASSUME StateInv, TypeOK', NEW n \in Node, Running(n),
         NEW why \in {"down", "panicRequest"}, Halt(n, why)
  PROVE  StateInv'
<1>1. Grown /\ LedgerInv'
  BY AgreedKept DEF StateInv, Halt
<1>2. \A m \in Node \ {n} : Same(m)
  BY DEF Halt, StateInv, TypeOK, Same, disk
<1>3. /\ rLast'[n] = 0 /\ rCommit'[n] = 0 /\ rSnap'[n] = NoSnapshot /\ applied'[n] = 0
      /\ stSnap'[n] = NoSnapshot /\ rdLast'[n] = 0 /\ committedIndex'[n] = 0
      /\ pack'[n] = 0 /\ file'[n] = NoSnapshot /\ pc'[n] = why /\ ~booted'[n]
      /\ UNCHANGED <<log, ledger, disk>>
  BY DEF Halt, StateInv, TypeOK
<1>4. Len(log) \in Nat /\ Len(ledger) \in Nat
  BY NodeTypes DEF StateInv
<1>5. ChainInv(n)'
  BY <1>1, <1>3, <1>4, ChainKept DEF disk, StateInv, NodeInv
<1>6. DiskInv(n)'
  BY <1>1, <1>3, DiskKept DEF disk, StateInv, NodeInv
<1>7. RaftInv(n)'
  BY <1>3, <1>4 DEF StateInv, NodeInv, RaftInv, InLog, disk
<1>8. ~Running(n)' /\ StoppedInv(n)' /\ pc'[n] \notin {"panicGap", "panicMissing"}
  BY <1>3 DEF Running, Steps, StoppedInv
<1>9. QED
  BY <1>1, <1>2, <1>5, <1>6, <1>7, <1>8, OneNode DEF NodeInv

\* A restart (replayWAL, node.go:129) finds WAL and snapshots in step.
LEMMA RestartStep ==
  ASSUME StateInv, WrittenInv, TypeOK', NEW n \in Node, Restart(n)
  PROVE  StateInv'
<1>1. PICK s \in snaps[n] \cup {NoSnapshot}, c \in {walCommit[n], walSynced[n]} :
        IsNewest(n, s) /\ DiskLoads(n, s, c) /\ RestartFrom(n, s, c)
  BY DEF Restart
<1> DEFINE l == MaxOf(walLast[n], s.index)
<1>2. Grown /\ LedgerInv'
  BY <1>1, AgreedKept DEF StateInv, RestartFrom
<1>3. \A m \in Node \ {n} : Same(m)
  BY <1>1 DEF RestartFrom, StateInv, TypeOK, Same
<1>4. /\ pc'[n] = "ready" /\ stSnap'[n] = s /\ snapshotIndex'[n] = s.index
      /\ applied'[n] = s.index /\ committedIndex'[n] = c /\ hsCommit'[n] = c
      /\ rCommit'[n] = MaxOf(c, s.index) /\ walCommit'[n] = c /\ walSynced'[n] = c
      /\ rLast'[n] = l
      /\ UNCHANGED <<log, ledger, rSnap, booted, rdSnap, rdLast, lo, hi, file, pack, db,
                     snaps, walLast>>
  BY <1>1 DEF RestartFrom, StateInv, TypeOK
<1>5. ~Running(n) /\ StoppedInv(n)
  BY DEF Restart, Stopped, Steps, Running, StateInv, NodeInv
<1>6. /\ ChainInv(n) /\ RaftInv(n) /\ DiskInv(n)
  BY DEF StateInv, NodeInv
<1>7. s.index \in Nat /\ s.prev \in Nat /\ c \in Nat /\ walLast[n] \in Nat /\ Len(log) \in Nat
  BY NodeTypes, SnapshotType DEF StateInv
<1>8. s.index <= c /\ c <= l /\ MaxOf(c, s.index) = c
  <2>1. c <= l /\ (HasHardState(n, c) => s.index <= c)
    BY <1>1 DEF DiskLoads
  <2>2. walLast[n] = 0 => s = NoSnapshot
    BY <1>1 DEF WrittenInv, Written
  <2>3. s.index <= c
    BY <1>7, <2>1, <2>2 DEF HasHardState, NoSnapshot
  <2>4. QED
    BY <1>7, <2>1, <2>3 DEF MaxOf
<1>9. InLog(c) /\ InLog(walLast[n])
  BY <1>6 DEF RaftInv
<1>10. s # NoSnapshot => s \in snaps[n] /\ Increment(s)
  BY <1>6 DEF DiskInv
<1>11. InLog(s.index) /\ InLog(l)
  BY <1>7, <1>8, <1>9 DEF InLog, MaxOf
<1>12. s.index % SnapCount = 0
  BY <1>10, ZeroIsMultiple DEF Increment, NoSnapshot
<1>13. ChainInv(n)'
  <2>1. pack[n] <= Len(ledger) + 1
    BY <1>6 DEF ChainInv
  <2>2. QED
    BY <1>2, <1>4, <1>6, <2>1, ChainKept DEF StateInv
<1>14. DiskInv(n)'
  BY <1>2, <1>4, <1>6, DiskKept DEF StateInv
<1>15. RaftInv(n)'
  BY <1>4, <1>5, <1>6, <1>7, <1>8, <1>9, <1>10, <1>11
     DEF RaftInv, InLog, Increment, StoppedInv
<1>16. RunningInv(n)'
  <2>1. \A t \in snaps[n] : t.index <= s.index
    BY <1>1 DEF IsNewest
  <2>2. s.index # 0 => [prev |-> s.index - SnapCount, index |-> s.index] \in snaps[n]
    <3> SUFFICES ASSUME s.index # 0
                 PROVE  [prev |-> s.index - SnapCount, index |-> s.index] \in snaps[n]
      OBVIOUS
    <3>1. s \in snaps[n] /\ s.prev + SnapCount = s.index
      BY <1>10 DEF NoSnapshot, Increment
    <3>2. s.index \in SnapCount .. s.index
      BY <3>1, <1>7, ConstantsAssumption
    <3>3. QED
      BY <3>1, <3>2, <1>6, <1>12 DEF DiskInv
  <2>3. QED
    BY <1>4, <1>8, <1>12, <2>1, <2>2 DEF RunningInv
<1>17. ReadyInv(n)'
  <2>1. c < s.index + SnapCount + SnapCount
    BY <1>1, <1>6 DEF DiskInv
  <2>2. c <= MaxOf(c, s.index + BatchLimit)
    BY <1>7, ConstantsAssumption DEF MaxOf
  <2>3. QED
    BY <1>4, <1>5, <1>7, <1>8, <2>1, <2>2 DEF ReadyInv, StoppedInv
<1>18. QED
  BY <1>2, <1>3, <1>4, <1>13, <1>14, <1>15, <1>16, <1>17, OneNode
     DEF NodeInv, Running, Steps, LoopInv

\* A refused start leaves the disk as it is.
LEMMA RestartRefusedStep ==
  ASSUME StateInv, TypeOK', NEW n \in Node, RestartRefused(n)
  PROVE  StateInv'
<1>1. PICK c \in {walCommit[n], walSynced[n]} :
        /\ walCommit' = [walCommit EXCEPT ![n] = c]
        /\ walSynced' = [walSynced EXCEPT ![n] = c]
  BY DEF RestartRefused
<1>2. Grown /\ LedgerInv'
  BY AgreedKept DEF StateInv, RestartRefused, agreed
<1>3. \A m \in Node \ {n} : Same(m)
  BY <1>1 DEF RestartRefused, StateInv, TypeOK, Same, raftVars, storage
<1>4. /\ walCommit'[n] = c /\ walSynced'[n] = c /\ pc'[n] = "refused"
      /\ UNCHANGED <<raftVars, storage, committedIndex, rdLast, file, pack, db, snaps, walLast>>
  BY <1>1 DEF RestartRefused, StateInv, TypeOK
<1>5. ~Running(n) /\ StoppedInv(n)
  BY DEF RestartRefused, Stopped, Steps, Running, StateInv, NodeInv
<1>6. /\ ChainInv(n) /\ RaftInv(n) /\ DiskInv(n) /\ pack[n] <= Len(ledger) + 1
  BY DEF StateInv, NodeInv, ChainInv
<1>7. ChainInv(n)'
  BY <1>2, <1>4, <1>6, ChainKept DEF StateInv
<1>8. DiskInv(n)'
  BY <1>2, <1>4, <1>6, DiskKept DEF StateInv
<1>9. RaftInv(n)'
  BY <1>4, <1>6 DEF RestartRefused, RaftInv, InLog, agreed, raftVars, storage
<1>10. ~Running(n)' /\ StoppedInv(n)'
  BY <1>4, <1>5 DEF Running, Steps, StoppedInv, raftVars
<1>11. QED
  BY <1>2, <1>3, <1>4, <1>7, <1>8, <1>9, <1>10, OneNode DEF NodeInv

-----------------------------------------------------------------------------
(* The event loop.                                                         *)

\* A Ready begins with what raft has (node.go:273).
LEMMA TakeReadyStep ==
  ASSUME StateInv, TypeOK', Regular, NEW n \in Node, TakeReady(n)
  PROVE  StateInv'
<1> DEFINE first == MaxOf(applied[n], rSnap[n].index) + 1
<1>1. Grown /\ LedgerInv'
  BY AgreedKept DEF StateInv, TakeReady, agreed
<1>2. \A m \in Node \ {n} : Same(m)
  BY DEF TakeReady, StateInv, TypeOK, Same, storage, disk
<1>3. /\ rdSnap'[n] = rSnap[n] /\ rdLast'[n] = rLast[n] /\ lo'[n] = first
      /\ hi'[n] = rCommit[n] /\ applied'[n] = rCommit[n] /\ rSnap'[n] = NoSnapshot
      /\ booted'[n] /\ pc'[n] = IF rSnap[n] # NoSnapshot THEN "recover" ELSE "commit"
      /\ UNCHANGED <<agreed, rLast, rCommit, storage, committedIndex, snapshotIndex,
                     file, pack, disk>>
  BY DEF TakeReady, StateInv, TypeOK
<1>4. pc[n] = "ready" /\ Running(n) /\ RunningInv(n) /\ ReadyInv(n) /\ RaftInv(n)
      /\ pack[n] <= Len(ledger) + 1
  BY DEF TakeReady, Running, Steps, StateInv, NodeInv, LoopInv, ChainInv
<1>5. rLast[n] \in Nat /\ rCommit[n] \in Nat /\ applied[n] \in Nat
      /\ committedIndex[n] \in Nat /\ snapshotIndex[n] \in Nat /\ rSnap[n].index \in Nat
  BY NodeTypes, SnapshotType DEF StateInv
<1>6. SnapCount \in Nat /\ BatchLimit \in Nat /\ BatchLimit <= SnapCount /\ 0 < SnapCount
  BY ConstantsAssumption DEF Regular
<1>7. ChainInv(n)'
  BY <1>1, <1>3, <1>4, ChainKept DEF disk, StateInv, NodeInv
<1>8. DiskInv(n)'
  BY <1>1, <1>3, DiskKept DEF disk, StateInv, NodeInv
<1>9. RaftInv(n)'
  BY <1>3, <1>4, <1>5 DEF RaftInv, InLog, agreed, storage, disk
<1>10. RunningInv(n)'
  BY <1>3, <1>4 DEF RunningInv, disk
<1>11. CASE rSnap[n] # NoSnapshot
  <2>1. booted[n] /\ committedIndex[n] = applied[n] /\ applied[n] < rSnap[n].index
        /\ committedIndex[n] < snapshotIndex[n] + SnapCount
        /\ snapshotIndex[n] <= committedIndex[n] /\ hsCommit[n] = committedIndex[n]
        /\ file[n] = NoSnapshot
        /\ rCommit[n] <= MaxOf(applied[n], rSnap[n].index) + BatchLimit
    BY <1>11, <1>4 DEF ReadyInv, RunningInv
  <2>2. rCommit[n] <= rSnap[n].index + BatchLimit
    BY <2>1, <1>5, <1>6 DEF MaxOf
  <2>3. Increment(rSnap[n]) /\ rSnap[n].index <= rCommit[n]
    BY <1>11, <1>4 DEF RaftInv
  <2>4. RecoverInv(n)'
    BY <1>3, <1>5, <2>1, <2>2, <2>3 DEF RecoverInv, RecoveringInv, Increment
  <2>5. pc'[n] = "recover" /\ hsCommit'[n] = committedIndex'[n]
    BY <1>3, <1>11, <2>1 DEF storage
  <2>6. LoopInv(n)'
    BY <1>3, <2>4, <2>5 DEF LoopInv
  <2>7. QED
    BY <1>1, <1>2, <1>7, <1>8, <1>9, <1>10, <2>5, <2>6, OneNode
       DEF NodeInv, Running, Steps
<1>12. CASE rSnap[n] = NoSnapshot
  <2>1. first = applied[n] + 1
    BY <1>5, <1>12 DEF NoSnapshot, MaxOf
  <2>2. applied[n] <= committedIndex[n] /\ committedIndex[n] <= rCommit[n]
    BY <1>4, <1>5 DEF ReadyInv, RunningInv
  <2>3. rCommit[n] < snapshotIndex[n] + SnapCount + SnapCount
    <3>1. MaxOf(applied[n], rSnap[n].index) = applied[n]
      BY <1>5, <1>12 DEF NoSnapshot, MaxOf
    <3>2. CASE booted[n]
      BY <3>1, <3>2, <1>4, <1>5, <1>6 DEF ReadyInv
    <3>3. CASE ~booted[n]
      BY <3>3, <1>4, <1>5, <1>6 DEF ReadyInv, MaxOf
    <3>4. QED
      BY <3>2, <3>3
  <2>4. BatchInv(n)' /\ file'[n] = NoSnapshot
    BY <1>3, <1>4, <2>3 DEF BatchInv, ReadyInv, storage
  <2>5. pc'[n] = "commit"
    BY <1>3, <1>12
  <2>6. LoopInv(n)'
    BY <1>3, <1>5, <2>1, <2>2, <2>4, <2>5 DEF LoopInv
  <2>7. QED
    BY <1>1, <1>2, <1>7, <1>8, <1>9, <1>10, <2>5, <2>6, OneNode
       DEF NodeInv, Running, Steps
<1>13. QED
  BY <1>11, <1>12

\* While commitEntries runs, the entry it handles is in the log, at most one
\* past committedIndex.
LEMMA CommittingFacts ==
  ASSUME StateInv, NEW n \in Node, pc[n] = "commit"
  PROVE  /\ Running(n) /\ RunningInv(n) /\ LoopInv(n) /\ RaftInv(n) /\ ChainInv(n)
         /\ lo[n] <= committedIndex[n] + 1 /\ committedIndex[n] <= hi[n]
         /\ hi[n] <= Len(log)
<1>1. /\ Running(n) /\ RunningInv(n) /\ LoopInv(n) /\ RaftInv(n) /\ ChainInv(n)
  BY DEF Running, Steps, StateInv, NodeInv
<1>2. lo[n] <= committedIndex[n] + 1 /\ committedIndex[n] <= hi[n]
  BY <1>1 DEF LoopInv
<1>3. Len(log) \in Nat /\ hi[n] \in Nat /\ applied[n] \in Nat /\ rCommit[n] \in Nat
      /\ rLast[n] \in Nat
  BY NodeTypes DEF StateInv
<1>4. hi[n] <= Len(log)
  <2>1. CASE file[n] = NoSnapshot
    BY <1>1, <1>3, <2>1 DEF LoopInv, BatchInv, RaftInv, InLog
  <2>2. CASE file[n] # NoSnapshot
    BY <1>1, <2>2 DEF LoopInv, IncrementInv, InLog
  <2>3. QED
    BY <2>1, <2>2
<1>5. QED
  BY <1>1, <1>2, <1>4

\* One more entry handled: commitEntries goes on with the next one.
LEMMA EntryStep ==
  ASSUME StateInv, TypeOK', NEW n \in Node, Committing(n),
         \A m \in Node \ {n} : Same(m),
         UNCHANGED <<agreed, raftVars, storage, pc, snapshotIndex, rdSnap, rdLast, hi,
                     file, pack, snaps, walLast, walCommit, walSynced, walHole>>,
         lo'[n] = lo[n] + 1,
         committedIndex'[n] \in {committedIndex[n], lo[n]},
         lo[n] <= committedIndex'[n], committedIndex[n] <= committedIndex'[n],
         ChainInv(n)'
  PROVE  StateInv'
<1>1. Grown /\ LedgerInv'
  BY AgreedKept DEF StateInv, agreed
<1>2. /\ Running(n) /\ RunningInv(n) /\ LoopInv(n) /\ RaftInv(n) /\ pc[n] = "commit"
      /\ committedIndex[n] <= hi[n] /\ hi[n] <= Len(log) /\ lo[n] <= hi[n]
  BY CommittingFacts DEF Committing
<1>3. lo[n] \in Nat /\ hi[n] \in Nat /\ committedIndex[n] \in Nat
      /\ committedIndex'[n] \in Nat /\ snapshotIndex[n] \in Nat /\ Len(log) \in Nat
  BY NodeTypes, NodeTypesNext DEF StateInv
<1>4. committedIndex'[n] <= hi[n]
  BY <1>2
<1>5. DiskInv(n)'
  BY <1>1, DiskKept DEF StateInv, NodeInv
<1>6. RaftInv(n)'
  BY <1>2, <1>3, <1>4 DEF RaftInv, InLog, agreed, raftVars, storage
<1>7. RunningInv(n)'
  BY <1>2, <1>3 DEF RunningInv
<1>8. LoopInv(n)'
  <2>1. lo'[n] <= committedIndex'[n] + 1
    BY <1>3
  <2>2. IF file[n] = NoSnapshot THEN BatchInv(n)' ELSE IncrementInv(n)'
    BY <1>2 DEF LoopInv, BatchInv, IncrementInv, RecoveringInv, Increment, InLog,
                agreed, raftVars, storage
  <2>3. QED
    BY <1>2, <1>4, <2>1, <2>2 DEF LoopInv, raftVars
<1>9. QED
  BY <1>1, <1>2, <1>5, <1>6, <1>7, <1>8, OneNode DEF NodeInv, Running

\* The indexes of a chain in order, and the entry of a block.
LEMMA ChainFacts ==
  ASSUME StateInv, NEW n \in Node
  PROVE  /\ Len(log) \in Nat /\ Len(ledger) \in Nat /\ Height(n) \in Nat
         /\ Height(n) <= Len(ledger)
         /\ \A h \in 1 .. Len(ledger) : ledger[h] \in Nat /\ log[ledger[h]] = h
  BY NodeTypes, Entries DEF StateInv, LedgerInv, NodeInv, ChainInv, Height

\* Entries that commitEntries passes over bring no new block (node.go:357).
LEMMA SkipEntryStep ==
  ASSUME StateInv, TypeOK', NEW n \in Node,
         CommitAgain(n) \/ CommitControl(n) \/ CommitStaleBlock(n)
  PROVE  StateInv'
<1>1. \A m \in Node \ {n} : Same(m)
  <2>1. /\ UNCHANGED <<raftVars, storage, pc, snapshotIndex, rdSnap, rdLast, hi, file, pack,
                       disk>>
        /\ DOMAIN lo = Node /\ DOMAIN committedIndex = Node
    BY DEF CommitAgain, CommitControl, CommitStaleBlock, StateInv, TypeOK
  <2>2. \A m \in Node \ {n} : lo'[m] = lo[m] /\ committedIndex'[m] = committedIndex[m]
    BY <2>1 DEF CommitAgain, CommitControl, CommitStaleBlock
  <2>3. QED
    BY <2>1, <2>2 DEF Same, raftVars, storage, disk
<1>2. /\ Committing(n) /\ lo'[n] = lo[n] + 1 /\ pc[n] = "commit"
      /\ UNCHANGED <<agreed, raftVars, storage, pc, snapshotIndex, rdSnap, rdLast, hi,
                     file, pack, disk>>
  BY DEF CommitAgain, CommitControl, CommitStaleBlock, StateInv, TypeOK, Committing
<1>3. lo[n] <= committedIndex[n] + 1 /\ ChainInv(n) /\ RaftInv(n)
  BY <1>2, CommittingFacts
<1>4. lo[n] \in Nat /\ committedIndex[n] \in Nat
  BY NodeTypes DEF StateInv
<1>5. Grown /\ LedgerInv'
  BY <1>2, AgreedKept DEF StateInv, agreed
<1>6. CASE CommitAgain(n)
  <2>1. committedIndex'[n] = committedIndex[n] /\ lo[n] <= committedIndex[n]
    BY <1>6 DEF CommitAgain
  <2>2. ChainInv(n)'
    BY <1>2, <1>3, <1>5, <2>1, ChainKept DEF StateInv, ChainInv, disk
  <2>3. QED
    BY <1>1, <1>2, <1>4, <2>1, <2>2, EntryStep DEF disk
<1>7. CASE CommitControl(n) \/ CommitStaleBlock(n)
  <2>1. lo[n] = committedIndex[n] + 1
    BY <1>3, <1>4, <1>7 DEF CommitControl, CommitStaleBlock
  <2>2. committedIndex'[n] = lo[n]
    BY <1>7, <2>1 DEF CommitControl, CommitStaleBlock, StateInv, TypeOK
  <2>3. Covers(n, lo[n])
    <3> SUFFICES ASSUME NEW h \in 1 .. Len(ledger), ledger[h] <= lo[n]
                 PROVE  h <= Height(n)
      BY DEF Covers
    <3>1. CASE ledger[h] <= committedIndex[n]
      BY <1>3, <3>1 DEF ChainInv, Covers
    <3>2. CASE ledger[h] = lo[n]
      <4>1. log[lo[n]] = h
        BY <3>2, ChainFacts
      <4>2. h # Control
        BY DEF Control
      <4>3. QED
        BY <4>1, <4>2, <1>7 DEF CommitControl, CommitStaleBlock
    <3>3. QED
      BY <3>1, <3>2, <2>1, <1>4, ChainFacts
  <2>4. ChainInv(n)'
    BY <1>2, <1>3, <2>2, <2>3 DEF ChainInv, Covers, Height, agreed, disk
  <2>5. QED
    BY <1>1, <1>2, <1>4, <2>1, <2>2, <2>4, EntryStep DEF disk
<1>8. QED
  BY <1>6, <1>7

\* The entry of the first block above a data base: all before it are handled,
\* so it is the one of the chain.
LEMMA NextBlock ==
  ASSUME StateInv, NEW n \in Node, Committing(n), lo[n] > committedIndex[n],
         log[lo[n]] > Height(n)
  PROVE  /\ log[lo[n]] = Height(n) + 1 /\ Height(n) + 1 <= Len(ledger)
         /\ ledger[Height(n) + 1] = lo[n] /\ lo[n] = committedIndex[n] + 1
<1> DEFINE h == log[lo[n]]
           k == Height(n) + 1
<1>1. /\ lo[n] <= committedIndex[n] + 1 /\ hi[n] <= Len(log) /\ lo[n] <= hi[n]
      /\ Covers(n, committedIndex[n])
  BY CommittingFacts DEF Committing, ChainInv
<1>2. lo[n] \in Nat /\ hi[n] \in Nat /\ committedIndex[n] \in Nat
  BY NodeTypes DEF StateInv
<1>3. lo[n] = committedIndex[n] + 1 /\ lo[n] \in 1 .. Len(log)
  BY <1>1, <1>2, ChainFacts
<1>4. h \in Nat /\ h # Control
  BY <1>3, NodeTypes, ChainFacts, Entries DEF StateInv, Control
<1>5. h <= Len(ledger) /\ ledger[h] <= lo[n]
  BY <1>3, <1>4 DEF StateInv, LedgerInv
<1>6. k \in 1 .. Len(ledger) /\ h \in 1 .. Len(ledger) /\ k <= h
  BY <1>4, <1>5, ChainFacts
<1>7. ledger[k] > committedIndex[n]
  <2>1. ~(k <= Height(n))
    BY ChainFacts
  <2>2. QED
    BY <1>1, <1>2, <1>6, <2>1, ChainFacts DEF Covers
<1>8. ~(k < h)
  <2> SUFFICES ASSUME k < h PROVE FALSE
    OBVIOUS
  <2>1. ledger[k] < ledger[h]
    BY <1>6 DEF StateInv, LedgerInv
  <2>2. ledger[k] \in Nat /\ ledger[h] \in Nat
    BY <1>6, ChainFacts
  <2>3. QED
    BY <1>2, <1>3, <1>5, <1>7, <2>1, <2>2
<1>9. h = k
  BY <1>4, <1>6, <1>8, ChainFacts
<1>10. ledger[k] = lo[n]
  BY <1>2, <1>3, <1>5, <1>6, <1>7, <1>9, ChainFacts
<1>11. QED
  BY <1>3, <1>6, <1>9, <1>10

\* A block that commitEntries writes is the chain's next (node.go:393).
LEMMA CommitBlockStep ==
  ASSUME StateInv, TypeOK', NEW n \in Node, CommitBlock(n)
  PROVE  StateInv'
<1> DEFINE k == Height(n) + 1
<1>1. \A m \in Node \ {n} : Same(m)
  BY DEF CommitBlock, WriteBlock, StateInv, TypeOK, Same, raftVars, storage
<1>2. /\ Committing(n) /\ lo'[n] = lo[n] + 1 /\ pc[n] = "commit"
      /\ committedIndex'[n] = lo[n] /\ db'[n] = Append(db[n], lo[n])
      /\ UNCHANGED <<agreed, raftVars, storage, pc, snapshotIndex, rdSnap, rdLast, hi,
                     file, pack, snaps, walLast, walCommit, walSynced, walHole>>
  BY DEF CommitBlock, WriteBlock, StateInv, TypeOK, Committing
<1>3. /\ log[lo[n]] = k /\ k <= Len(ledger) /\ ledger[k] = lo[n]
      /\ lo[n] = committedIndex[n] + 1
  BY NextBlock, ChainFacts DEF CommitBlock
<1>4. ChainInv(n)
  BY <1>2, CommittingFacts
<1>5. lo[n] \in Nat /\ committedIndex[n] \in Nat /\ db[n] \in Seq(Nat)
  BY NodeTypes DEF StateInv
<1>6. /\ Height(n)' = k
      /\ \A h \in 1 .. Height(n) : db'[n][h] = db[n][h]
      /\ db'[n][k] = lo[n]
  BY <1>2, <1>5 DEF Height
<1>7. \A h \in 1 .. k : db'[n][h] = ledger[h]
  BY <1>3, <1>4, <1>6, ChainFacts DEF ChainInv
<1>8. \A i : Covers(n, i) => Covers(n, i)'
  BY <1>2, <1>6, ChainFacts DEF Covers, agreed
<1>9. Covers(n, committedIndex[n])'
  <2> SUFFICES ASSUME NEW h \in 1 .. Len(ledger), ledger[h] <= lo[n]
               PROVE  h <= k
    BY <1>2, <1>6 DEF Covers, agreed
  <2>1. CASE ledger[h] <= committedIndex[n]
    BY <1>4, <2>1, ChainFacts DEF ChainInv, Covers
  <2>2. CASE ledger[h] = lo[n]
    BY <1>3, <2>2, ChainFacts
  <2>3. QED
    BY <2>1, <2>2, <1>3, <1>5, ChainFacts
<1>10. ChainInv(n)'
  BY <1>2, <1>3, <1>4, <1>6, <1>7, <1>8, <1>9 DEF ChainInv, agreed
<1>11. QED
  BY <1>1, <1>2, <1>3, <1>5, <1>10, EntryStep

\* commitEntries meets no block two heights up (node.go:377).
LEMMA NoGap ==
  ASSUME StateInv, NEW n \in Node
  PROVE  ~CommitGap(n)
<1> SUFFICES ASSUME CommitGap(n) PROVE FALSE
  OBVIOUS
<1>1. lo[n] \in 1 .. Len(log) => log[lo[n]] \in Nat
  BY NodeTypes, Entries DEF StateInv
<1>2. log[lo[n]] \in Nat
  <2>1. /\ lo[n] <= hi[n] /\ hi[n] <= Len(log)
    BY CommittingFacts DEF CommitGap, Committing
  <2>2. lo[n] \in Nat /\ hi[n] \in Nat /\ committedIndex[n] \in Nat
    BY NodeTypes DEF StateInv
  <2>3. QED
    BY <1>1, <2>1, <2>2, ChainFacts DEF CommitGap
<1>3. log[lo[n]] > Height(n) /\ log[lo[n]] # Height(n) + 1
  BY <1>2, ChainFacts DEF CommitGap
<1>4. QED
  BY <1>3, NextBlock DEF CommitGap

-----------------------------------------------------------------------------
(* Recovering a snapshot.                                                  *)

\* A node that recovers is less than one increment of committed entries
\* above the last one it has saved, and below the one it is to recover.
LEMMA RecoverFacts ==
  ASSUME StateInv, NEW n \in Node, pc[n] \in {"recover", "fetch", "final"}
  PROVE  /\ Running(n) /\ RunningInv(n) /\ LoopInv(n) /\ RecoverInv(n) /\ ChainInv(n)
         /\ RaftInv(n) /\ RecoveringInv(n)
         /\ committedIndex[n] \in Nat /\ snapshotIndex[n] \in Nat
         /\ rdSnap[n] \in Snapshot /\ rdSnap[n].index \in Nat /\ rdSnap[n].prev \in Nat
         /\ rdSnap[n].prev + SnapCount = rdSnap[n].index
         /\ snapshotIndex[n] <= committedIndex[n]
         /\ committedIndex[n] < snapshotIndex[n] + SnapCount
         /\ committedIndex[n] < rdSnap[n].index
         /\ snapshotIndex[n] % SnapCount = 0
         /\ snapshotIndex[n] + SnapCount <= rdSnap[n].index
         /\ snapshotIndex[n] + SnapCount # rdSnap[n].index =>
              snapshotIndex[n] + SnapCount + SnapCount <= rdSnap[n].index
<1>1. Running(n) /\ RunningInv(n) /\ LoopInv(n) /\ ChainInv(n) /\ RaftInv(n)
  BY DEF Running, Steps, StateInv, NodeInv
<1>2. RecoverInv(n) /\ RecoveringInv(n)
  BY <1>1 DEF LoopInv, RecoverInv
<1>3. committedIndex[n] \in Nat /\ snapshotIndex[n] \in Nat
      /\ rdSnap[n] \in Snapshot /\ rdSnap[n].index \in Nat /\ rdSnap[n].prev \in Nat
  BY NodeTypes, SnapshotType DEF StateInv
<1>4. /\ snapshotIndex[n] <= committedIndex[n] /\ snapshotIndex[n] % SnapCount = 0
      /\ committedIndex[n] < snapshotIndex[n] + SnapCount
      /\ committedIndex[n] < rdSnap[n].index
      /\ snapshotIndex[n] < rdSnap[n].index
      /\ rdSnap[n].prev + SnapCount = rdSnap[n].index
      /\ rdSnap[n].index % SnapCount = 0
  BY <1>1, <1>2 DEF RunningInv, RecoverInv, RecoveringInv, Increment
<1>5. snapshotIndex[n] + SnapCount <= rdSnap[n].index
  BY <1>3, <1>4, MultipleGap
<1>6. /\ snapshotIndex[n] + SnapCount \in Nat
      /\ (snapshotIndex[n] + SnapCount) % SnapCount = 0
  BY <1>3, <1>4, NextMultiple, ConstantsAssumption
<1>7. snapshotIndex[n] + SnapCount # rdSnap[n].index =>
        snapshotIndex[n] + SnapCount + SnapCount <= rdSnap[n].index
  BY <1>3, <1>4, <1>5, <1>6, MultipleGap
<1>8. QED
  BY <1>1, <1>2, <1>3, <1>4, <1>5, <1>7

\* The commit index read back from the storage is the one the node has.
LEMMA RecoverStep ==
  ASSUME StateInv, TypeOK', NEW n \in Node, Recover(n)
  PROVE  StateInv'
<1>1. Grown /\ LedgerInv'
  BY AgreedKept DEF StateInv, Recover, agreed
<1>2. \A m \in Node \ {n} : Same(m)
  BY DEF Recover, StateInv, TypeOK, Same, raftVars, storage, disk
<1>3. pc[n] = "recover"
  BY DEF Recover
<1>4. hsCommit[n] = committedIndex[n]
  BY <1>3, RecoverFacts DEF LoopInv
<1>5. /\ committedIndex'[n] = committedIndex[n]
      /\ pc'[n] = IF IsBehind(n) THEN "fetch" ELSE "final"
      /\ UNCHANGED <<agreed, raftVars, storage, snapshotIndex, rdSnap, rdLast, lo, hi,
                     file, pack, disk>>
  BY <1>4 DEF Recover, StateInv, TypeOK
<1>6. ChainInv(n)'
  BY <1>1, <1>3, <1>5, RecoverFacts, ChainKept DEF disk, StateInv, ChainInv
<1>7. DiskInv(n)'
  BY <1>1, <1>5, DiskKept DEF disk, StateInv, NodeInv
<1>8. RaftInv(n)'
  BY <1>3, <1>5, RecoverFacts DEF RaftInv, InLog, agreed, raftVars, storage, disk
<1>9. RunningInv(n)' /\ RecoverInv(n)'
  BY <1>3, <1>5, RecoverFacts
     DEF RunningInv, RecoverInv, RecoveringInv, raftVars, disk
<1>10. snapshotIndex[n] <= rdSnap[n].prev
  BY <1>3, RecoverFacts, ConstantsAssumption
<1>11. ~IsBehind(n) => snapshotIndex[n] = rdSnap[n].prev
  BY <1>3, <1>4, <1>10, RecoverFacts, ConstantsAssumption DEF IsBehind
<1>12. booted[n] /\ rSnap[n] = NoSnapshot /\ rCommit[n] = applied[n]
  BY <1>3, RecoverFacts DEF LoopInv
<1>13. LoopInv(n)' /\ pc'[n] \in {"fetch", "final"}
  BY <1>5, <1>9, <1>10, <1>11, <1>12 DEF LoopInv, raftVars
<1>14. QED
  BY <1>1, <1>2, <1>6, <1>7, <1>8, <1>9, <1>13, OneNode DEF NodeInv, Running, Steps

\* Committing the entries of the next increment.
LEMMA CommitFromStep ==
  ASSUME StateInv, TypeOK', NEW n \in Node, pc[n] \in {"fetch", "final"},
         NEW s \in Snapshot, CommitFrom(n, s),
         Increment(s), s.prev = snapshotIndex[n], s.index <= rdSnap[n].index,
         UNCHANGED <<agreed, raftVars, storage, committedIndex, snapshotIndex, rdSnap,
                     rdLast, pack, disk>>
  PROVE  StateInv'
<1>1. Grown /\ LedgerInv'
  BY AgreedKept DEF StateInv, agreed
<1>2. \A m \in Node \ {n} : Same(m)
  BY DEF CommitFrom, StateInv, TypeOK, Same, raftVars, storage, disk
<1>3. /\ file'[n] = s /\ lo'[n] = committedIndex[n] + 1 /\ hi'[n] = s.index
      /\ pc'[n] = "commit"
  BY DEF CommitFrom, StateInv, TypeOK
<1>4. ChainInv(n)'
  BY <1>1, RecoverFacts, ChainKept DEF disk, StateInv, ChainInv
<1>5. DiskInv(n)'
  BY <1>1, DiskKept DEF disk, StateInv, NodeInv
<1>6. RaftInv(n)'
  BY <1>3, RecoverFacts DEF RaftInv, InLog, agreed, raftVars, storage, disk
<1>7. RunningInv(n)'
  BY RecoverFacts DEF RunningInv, disk
<1>8. s.index \in Nat /\ s.prev \in Nat /\ applied[n] \in Nat /\ rCommit[n] \in Nat
      /\ rLast[n] \in Nat /\ Len(log) \in Nat
  BY NodeTypes, SnapshotType DEF StateInv
<1>9. committedIndex[n] <= s.index /\ s # NoSnapshot
  BY <1>8, RecoverFacts, ConstantsAssumption DEF Increment, NoSnapshot
<1>10. s.index <= Len(log)
  BY <1>8, RecoverFacts DEF RaftInv, RecoveringInv, InLog
<1>11. IncrementInv(n)'
  BY <1>3, <1>10, RecoverFacts DEF IncrementInv, RecoveringInv, Increment, InLog, agreed, raftVars
<1>12. booted[n] /\ rSnap[n] = NoSnapshot /\ rCommit[n] = applied[n]
  BY RecoverFacts DEF LoopInv
<1>13. lo'[n] <= committedIndex'[n] + 1
  BY <1>3, RecoverFacts
<1>14. LoopInv(n)'
  BY <1>3, <1>9, <1>11, <1>12, <1>13 DEF LoopInv, raftVars
<1>15. QED
  BY <1>1, <1>2, <1>3, <1>4, <1>5, <1>6, <1>7, <1>14, OneNode DEF NodeInv, Running, Steps

\* What is fetched from the leader is the missing increment.
LEMMA FetchSnapshotStep ==
  ASSUME StateInv, TypeOK', NEW n \in Node, FetchSnapshot(n)
  PROVE  StateInv'
<1>1. PICK s \in snaps[leader] : s.index = NextRequest(n) /\ CommitFrom(n, s)
  BY DEF FetchSnapshot
<1>2. leader \in Node
  BY DEF FetchSnapshot, StateInv, TypeOK
<1>3. s \in Snapshot /\ s.index \in Nat /\ s.prev \in Nat
  BY <1>2, NodeTypes, SnapshotType DEF StateInv
<1>4. Increment(s)
  BY <1>2 DEF StateInv, NodeInv, DiskInv
<1>5. pc[n] = "fetch" /\ NextRequest(n) < rdSnap[n].index
  BY DEF FetchSnapshot, Fetching
<1>6. s.prev = snapshotIndex[n] /\ s.index <= rdSnap[n].index
  <2>1. snapshotIndex[n] \in Nat /\ rdSnap[n].index \in Nat
    BY <1>5, RecoverFacts
  <2>2. s.prev + SnapCount = s.index
    BY <1>4 DEF Increment
  <2>3. QED
    BY <1>1, <1>3, <1>5, <2>1, <2>2, ConstantsAssumption DEF NextRequest
<1>7. QED
  BY <1>1, <1>3, <1>4, <1>5, <1>6, CommitFromStep DEF FetchSnapshot

\* The last increment of a recovery follows the fetched ones (node.go:626).
LEMMA RecoverFinalStep ==
  ASSUME StateInv, TypeOK', NEW n \in Node, RecoverFinal(n)
  PROVE  StateInv'
<1>1. pc[n] \in {"fetch", "final"} /\ snapshotIndex[n] + SnapCount = rdSnap[n].index
  BY DEF RecoverFinal, FetchDone, IsNextIncrement, NextRequest
<1>2. rdSnap[n].prev = snapshotIndex[n] /\ Increment(rdSnap[n])
  <2>1. /\ rdSnap[n].prev + SnapCount = rdSnap[n].index /\ rdSnap[n].prev \in Nat
        /\ snapshotIndex[n] \in Nat
    BY <1>1, RecoverFacts
  <2>2. SnapCount \in Nat
    BY ConstantsAssumption
  <2>3. rdSnap[n].prev = snapshotIndex[n]
    BY <1>1, <2>1, <2>2
  <2>4. QED
    BY <1>1, <2>3, RecoverFacts DEF RecoveringInv
<1>3. QED
  BY <1>1, <1>2, RecoverFacts, CommitFromStep DEF RecoverFinal

\* The fetch loop finds every increment: it never gives up, ...
LEMMA NoFetchFails ==
  ASSUME StateInv, NEW n \in Node
  PROVE  ~FetchFailed(n)
<1> SUFFICES ASSUME FetchFailed(n) PROVE FALSE
  OBVIOUS
<1>1. pc[n] = "fetch"
  BY DEF FetchFailed
<1>2. CASE ~Fetching(n) /\ NextRequest(n) # rdSnap[n].index
  BY <1>1, <1>2, RecoverFacts, ConstantsAssumption DEF Fetching, NextRequest
<1>3. CASE /\ Fetching(n) /\ leader # NoNode
           /\ \E s \in snaps[leader] : s.index = NextRequest(n) /\ ~HasEntriesFor(n, s)
  <2>1. leader \in Node
    BY <1>3 DEF StateInv, TypeOK
  <2>2. PICK s \in snaps[leader] : s.index = NextRequest(n) /\ ~HasEntriesFor(n, s)
    BY <1>3
  <2>3. Increment(s) /\ s.index \in Nat /\ s.prev \in Nat
    BY <2>1, NodeTypes, SnapshotType DEF StateInv, NodeInv, DiskInv
  <2>4. QED
    BY <1>1, <2>2, <2>3, RecoverFacts, ConstantsAssumption
       DEF HasEntriesFor, NextRequest, Increment
<1>4. QED
  BY <1>2, <1>3 DEF FetchFailed

\* ... and no snapshot that raft delivers is skipped.
LEMMA NoSkip ==
  ASSUME StateInv, NEW n \in Node
  PROVE  ~SkipSnapshot(n)
<1> SUFFICES ASSUME SkipSnapshot(n) PROVE FALSE
  OBVIOUS
<1>1. CASE pc[n] = "recover"
  BY <1>1, RecoverFacts, ConstantsAssumption DEF SkipSnapshot, FetchDone
<1>2. CASE pc[n] \in {"fetch", "final"}
  <2>1. pc[n] = "final" => snapshotIndex[n] = rdSnap[n].prev
    BY <1>2, RecoverFacts DEF LoopInv
  <2>2. snapshotIndex[n] + SnapCount = rdSnap[n].index
    BY <1>2, <2>1, RecoverFacts DEF SkipSnapshot, FetchDone, NextRequest
  <2>3. IsNextIncrement(n)
    BY <1>2, <2>2, RecoverFacts, ConstantsAssumption
       DEF IsNextIncrement, NextRequest, HasEntriesFor
  <2>4. QED
    BY <1>2, <2>3 DEF SkipSnapshot
<1>3. QED
  BY <1>1, <1>2 DEF SkipSnapshot, FetchDone

-----------------------------------------------------------------------------
(* Saving snapshots and the WAL.                                           *)

\* The newest snapshot file of a running node has index snapshotIndex.
LEMMA NewestFile ==
  ASSUME StateInv, NEW n \in Node, Running(n)
  PROVE  /\ \A s \in snaps[n] \cup {NoSnapshot} :
              IsNewest(n, s) => snapshotIndex[n] <= s.index
         /\ \E s \in snaps[n] \cup {NoSnapshot} :
              IsNewest(n, s) /\ s.index = snapshotIndex[n]
<1> DEFINE top == [prev |-> snapshotIndex[n] - SnapCount, index |-> snapshotIndex[n]]
<1>1. RunningInv(n) /\ DiskInv(n)
  BY DEF StateInv, NodeInv
<1>2. snapshotIndex[n] \in Nat /\ \A s \in snaps[n] \cup {NoSnapshot} : s.index \in Nat /\ s.prev \in Nat
  BY NodeTypes, SnapshotType DEF StateInv
<1>3. CASE snapshotIndex[n] = 0
  <2>1. snaps[n] = {}
    <3> SUFFICES ASSUME NEW s \in snaps[n] PROVE FALSE
      OBVIOUS
    <3>1. s.index <= 0 /\ s.prev + SnapCount = s.index
      BY <1>1, <1>3 DEF RunningInv, DiskInv, Increment
    <3>2. QED
      BY <1>2, <3>1, ConstantsAssumption
  <2>2. IsNewest(n, NoSnapshot) /\ NoSnapshot.index = snapshotIndex[n]
    BY <2>1, <1>3 DEF IsNewest, NoSnapshot
  <2>3. QED
    BY <1>2, <1>3, <2>2
<1>4. CASE snapshotIndex[n] # 0
  <2>1. top \in snaps[n] /\ top.index = snapshotIndex[n]
    BY <1>1, <1>4 DEF RunningInv
  <2>2. \A s \in snaps[n] : s.index <= top.index
    BY <1>1, <2>1 DEF RunningInv
  <2>3. IsNewest(n, top)
    BY <2>1, <2>2 DEF IsNewest
  <2>4. QED
    BY <2>1, <2>3 DEF IsNewest
<1>5. QED
  BY <1>3, <1>4

\* The WAL of a running node is less than two increments ahead of its files.
LEMMA WalBound ==
  ASSUME StateInv, NEW n \in Node, Running(n)
  PROVE  /\ walCommit[n] < snapshotIndex[n] + SnapCount + SnapCount
         /\ walSynced[n] < snapshotIndex[n] + SnapCount + SnapCount
  BY NewestFile DEF StateInv, NodeInv, DiskInv

\* One more increment is saved.
LEMMA SaveDisk ==
  ASSUME StateInv, TypeOK', Grown, NEW n \in Node, Running(n), NEW s \in Snapshot,
         s = [prev |-> snapshotIndex[n], index |-> snapshotIndex[n] + SnapCount],
         s.index <= Len(log),
         snaps'[n] = snaps[n] \cup {s}, snapshotIndex'[n] = s.index,
         walCommit'[n] = walCommit[n], walSynced'[n] = walCommit[n],
         s.index <= committedIndex'[n]
  PROVE  DiskInv(n)' /\ RunningInv(n)'
<1> DEFINE old == snapshotIndex[n]
<1>1. RunningInv(n) /\ DiskInv(n) /\ old % SnapCount = 0
  BY DEF StateInv, NodeInv, RunningInv
<1>2. old \in Nat /\ Len(log) \in Nat /\ Len(log') \in Nat /\ walCommit[n] \in Nat
      /\ SnapCount \in Nat /\ 0 < SnapCount
      /\ s.index \in Nat /\ \A t \in snaps[n] : t.index \in Nat
  BY NodeTypes, NodeTypesNext, SnapshotType, ConstantsAssumption DEF StateInv
<1>3. s.prev = old /\ s.index = old + SnapCount
  OBVIOUS
<1>4. s.index % SnapCount = 0
  BY <1>1, <1>2, <1>3, NextMultiple
<1>5. Increment(s) /\ InLog(s.index)'
  BY <1>2, <1>3, <1>4 DEF Increment, InLog, Grown
<1>6. \A t \in snaps'[n] : Increment(t) /\ InLog(t.index)'
  BY <1>1, <1>2, <1>5 DEF DiskInv, InLog, Grown
<1>7. \A t \in snaps'[n] : t.index <= s.index
  <2>1. \A t \in snaps[n] : t.index <= old
    BY <1>1 DEF RunningInv
  <2>2. QED
    BY <1>2, <1>3, <2>1
<1>8. ASSUME NEW i \in Nat, SnapCount <= i, i <= s.index, i % SnapCount = 0
      PROVE  [prev |-> i - SnapCount, index |-> i] \in snaps'[n]
  <2>1. CASE i = s.index
    <3>1. i - SnapCount = old
      BY <1>2, <1>3, <2>1
    <3>2. QED
      BY <1>3, <2>1, <3>1
  <2>2. CASE i # s.index
    <3>1. i + SnapCount <= s.index
      <4>1. i < s.index
        BY <2>2, <1>2, i <= s.index
      <4>2. QED
        BY <4>1, <1>2, <1>4, <1>8, MultipleGap
    <3>2. i <= old /\ old # 0
      BY <3>1, <1>2, <1>3, <1>8
    <3>3. [prev |-> old - SnapCount, index |-> old] \in snaps[n]
      BY <1>1, <3>2 DEF RunningInv
    <3>4. i \in SnapCount .. old
      BY <1>2, <1>8, <3>2
    <3>5. [prev |-> i - SnapCount, index |-> i] \in snaps[n]
      BY <1>1, <1>8, <3>3, <3>4 DEF DiskInv
    <3>6. QED
      BY <3>5
  <2>3. QED
    BY <2>1, <2>2
<1>9. \A t \in snaps'[n] : \A i \in SnapCount .. t.index :
        i % SnapCount = 0 => [prev |-> i - SnapCount, index |-> i] \in snaps'[n]
  <2> SUFFICES ASSUME NEW t \in snaps'[n], NEW i \in SnapCount .. t.index, i % SnapCount = 0
               PROVE  [prev |-> i - SnapCount, index |-> i] \in snaps'[n]
    OBVIOUS
  <2>1. t.index \in Nat /\ t.index <= s.index
    BY <1>2, <1>3, <1>7
  <2>2. QED
    BY <1>2, <1>3, <1>8, <2>1
<1>10. \A t \in snaps'[n] \cup {NoSnapshot} : IsNewest(n, t)' => t.index = s.index
  <2>1. s \in snaps'[n]
    OBVIOUS
  <2>2. \A t \in snaps'[n] \cup {NoSnapshot} : IsNewest(n, t)' => t \in snaps'[n] /\ s.index <= t.index
    BY <2>1 DEF IsNewest
  <2>3. QED
    BY <1>2, <1>3, <1>7, <2>2
<1>11. walCommit[n] < s.index + SnapCount + SnapCount
  BY <1>2, <1>3, WalBound
<1>12. DiskInv(n)'
  BY <1>6, <1>9, <1>10, <1>11 DEF DiskInv, Increment
<1>13. RunningInv(n)'
  <2>1. s.index - SnapCount = old
    BY <1>2, <1>3
  <2>2. [prev |-> s.index - SnapCount, index |-> s.index] \in snaps'[n]
    BY <1>3, <2>1
  <2>3. QED
    BY <1>4, <1>7, <2>2 DEF RunningInv
<1>14. QED
  BY <1>12, <1>13

\* An increment has been committed to its end.
LEMMA SavingFacts ==
  ASSUME StateInv, NEW n \in Node, Committed(n), file[n] # NoSnapshot
  PROVE  /\ Running(n) /\ RaftInv(n) /\ LoopInv(n) /\ RunningInv(n) /\ RecoveringInv(n)
         /\ file[n] \in Snapshot /\ file[n].index \in Nat /\ rdSnap[n] \in Snapshot
         /\ rdSnap[n].index \in Nat /\ rdSnap[n].prev \in Nat
         /\ file[n] = [prev |-> snapshotIndex[n], index |-> snapshotIndex[n] + SnapCount]
         /\ file[n].index <= rdSnap[n].index /\ file[n].index <= Len(log)
         /\ file[n].index % SnapCount = 0
         /\ committedIndex[n] = file[n].index
<1>1. /\ Running(n) /\ RaftInv(n) /\ LoopInv(n) /\ RunningInv(n) /\ pc[n] = "commit"
      /\ committedIndex[n] <= hi[n] /\ lo[n] <= committedIndex[n] + 1
  BY CommittingFacts DEF Committed
<1>2. IncrementInv(n) /\ RecoveringInv(n)
  BY <1>1 DEF LoopInv, IncrementInv
<1>3. /\ file[n] \in Snapshot /\ rdSnap[n] \in Snapshot /\ file[n].index \in Nat
      /\ rdSnap[n].index \in Nat /\ rdSnap[n].prev \in Nat
      /\ hi[n] \in Nat /\ lo[n] \in Nat /\ committedIndex[n] \in Nat
      /\ snapshotIndex[n] \in Nat
  BY NodeTypes, SnapshotType DEF StateInv
<1>4. file[n].prev = snapshotIndex[n] /\ file[n].index = snapshotIndex[n] + SnapCount
  BY <1>2 DEF IncrementInv, Increment
<1>5. file[n] = [prev |-> snapshotIndex[n], index |-> snapshotIndex[n] + SnapCount]
  BY <1>3, <1>4 DEF Snapshot
<1>6. /\ file[n].index <= rdSnap[n].index /\ file[n].index <= Len(log)
      /\ file[n].index % SnapCount = 0
  BY <1>2 DEF IncrementInv, Increment, InLog
<1>7. committedIndex[n] = file[n].index
  <2>1. lo[n] > hi[n] /\ hi[n] = file[n].index
    BY <1>2 DEF Committed, IncrementInv
  <2>2. committedIndex[n] <= hi[n] /\ lo[n] <= committedIndex[n] + 1
    BY <1>1
  <2>3. QED
    BY <2>1, <2>2, <1>3
<1>8. QED
  BY <1>1, <1>2, <1>3, <1>5, <1>6, <1>7

\* A fetched increment is saved with the file before it in place.
LEMMA SaveFetchedStep ==
  ASSUME StateInv, TypeOK', NEW n \in Node, SaveFetched(n)
  PROVE  StateInv'
<1>1. Grown /\ LedgerInv'
  BY AgreedKept DEF StateInv, SaveFetched, agreed
<1>2. \A m \in Node \ {n} : Same(m)
  BY DEF SaveFetched, SaveFile, StateInv, TypeOK, Same, raftVars, storage
<1>3. /\ snaps'[n] = snaps[n] \cup {file[n]} /\ snapshotIndex'[n] = file[n].index
      /\ walSynced'[n] = walCommit[n] /\ committedIndex'[n] = file[n].index
      /\ file'[n] = NoSnapshot /\ pc'[n] = "fetch"
      /\ UNCHANGED <<agreed, raftVars, storage, rdSnap, rdLast, lo, hi, pack, db,
                     walLast, walCommit>>
  BY DEF SaveFetched, SaveFile, StateInv, TypeOK
<1>4. Committed(n) /\ file[n] # NoSnapshot /\ file[n] # rdSnap[n] /\ pc[n] = "commit"
  BY DEF SaveFetched, Committed
<1>5. committedIndex'[n] = committedIndex[n]
  BY <1>3, <1>4, SavingFacts
<1>6. ChainInv(n)'
  BY <1>1, <1>3, <1>4, <1>5, SavingFacts, ChainKept DEF StateInv, NodeInv, ChainInv
<1>7. file[n].index \in Nat /\ walCommit[n] \in Nat /\ snapshotIndex[n] \in Nat
      /\ rdSnap[n].index \in Nat /\ rdSnap[n].prev \in Nat
      /\ SnapCount \in Nat /\ 0 < SnapCount
  BY NodeTypes, SnapshotType, ConstantsAssumption DEF StateInv
<1>8. DiskInv(n)' /\ RunningInv(n)'
  <2>1. /\ Running(n) /\ file[n] \in Snapshot /\ file[n].index <= Len(log)
        /\ file[n] = [prev |-> snapshotIndex[n], index |-> snapshotIndex[n] + SnapCount]
    BY <1>4, SavingFacts
  <2>2. file[n].index <= committedIndex'[n] /\ walCommit'[n] = walCommit[n]
    BY <1>3, <1>7
  <2>3. QED
    BY <1>1, <1>3, <2>1, <2>2, SaveDisk
<1>9. RaftInv(n)'
  BY <1>3, <1>4, <1>5, SavingFacts DEF RaftInv, InLog, agreed, raftVars, storage
<1>10. /\ rdSnap[n].prev + SnapCount = rdSnap[n].index /\ rdSnap[n].index % SnapCount = 0
       /\ Increment(rdSnap[n]) /\ file[n].index % SnapCount = 0
       /\ rdSnap[n].index <= applied[n] /\ applied[n] <= rdSnap[n].index + BatchLimit
  BY <1>4, SavingFacts DEF RecoveringInv, Increment
<1>11. file[n].index < rdSnap[n].index
  <2>1. file[n].index # rdSnap[n].index
    <3> SUFFICES ASSUME file[n].index = rdSnap[n].index PROVE FALSE
      OBVIOUS
    <3>1. file[n].prev = rdSnap[n].prev
      <4>1. file[n] = [prev |-> snapshotIndex[n], index |-> snapshotIndex[n] + SnapCount]
        BY <1>4, SavingFacts
      <4>2. rdSnap[n].prev + SnapCount = rdSnap[n].index
        BY <1>10
      <4>3. QED
        BY <4>1, <4>2, <1>7
    <3>2. file[n] \in Snapshot /\ rdSnap[n] \in Snapshot /\ file[n] # rdSnap[n]
      BY <1>4, SavingFacts
    <3>3. QED
      BY <3>1, <3>2 DEF Snapshot
  <2>2. file[n].index <= rdSnap[n].index
    BY <1>4, SavingFacts
  <2>3. QED
    BY <2>1, <2>2, <1>7
<1>12. file[n].index <= rdSnap[n].prev
  <2>1. file[n].index + SnapCount <= rdSnap[n].index
    BY <1>7, <1>10, <1>11, MultipleGap
  <2>2. rdSnap[n].prev + SnapCount = rdSnap[n].index
    BY <1>10
  <2>3. QED
    BY <2>1, <2>2, <1>7
<1>13. RecoverInv(n)'
  <2>1. file[n].index < file[n].index + SnapCount
    BY <1>7
  <2>2. QED
    BY <1>3, <1>10, <1>11, <2>1 DEF RecoverInv, RecoveringInv, raftVars
<1>14. booted[n] /\ rSnap[n] = NoSnapshot /\ rCommit[n] = applied[n]
  BY <1>4, SavingFacts DEF LoopInv
<1>15. LoopInv(n)'
  BY <1>3, <1>12, <1>13, <1>14 DEF LoopInv, raftVars
<1>16. QED
  BY <1>1, <1>2, <1>3, <1>6, <1>8, <1>9, <1>15, OneNode DEF NodeInv, Running, Steps

\* A received increment is saved with the file before it in place.
LEMMA SaveReceivedStep ==
  ASSUME StateInv, TypeOK', Regular, NEW n \in Node, SaveReceived(n)
  PROVE  StateInv'
<1>1. Grown /\ LedgerInv'
  BY AgreedKept DEF StateInv, SaveReceived, agreed
<1>2. \A m \in Node \ {n} : Same(m)
  BY DEF SaveReceived, SaveFile, InstallSnapshot, StateInv, TypeOK, Same, raftVars
<1>3. /\ snaps'[n] = snaps[n] \cup {file[n]} /\ snapshotIndex'[n] = file[n].index
      /\ walSynced'[n] = walCommit[n] /\ committedIndex'[n] = file[n].index
      /\ stSnap'[n] = rdSnap[n] /\ lo'[n] = rdSnap[n].index + 1 /\ hi'[n] = applied[n]
      /\ file'[n] = NoSnapshot /\ pc'[n] = "commit"
      /\ UNCHANGED <<agreed, raftVars, hsCommit, rdSnap, rdLast, pack, db, walLast,
                     walCommit>>
  BY DEF SaveReceived, SaveFile, InstallSnapshot, StateInv, TypeOK
<1>4. Committed(n) /\ file[n] # NoSnapshot /\ file[n] = rdSnap[n] /\ pc[n] = "commit"
  BY DEF SaveReceived, Committed
<1>5. committedIndex'[n] = committedIndex[n]
  BY <1>3, <1>4, SavingFacts
<1>6. ChainInv(n)'
  BY <1>1, <1>3, <1>4, <1>5, SavingFacts, ChainKept DEF StateInv, NodeInv, ChainInv
<1>7. file[n].index \in Nat /\ applied[n] \in Nat /\ BatchLimit \in Nat
      /\ SnapCount \in Nat /\ 0 < SnapCount /\ BatchLimit <= SnapCount
  BY NodeTypes, SnapshotType, ConstantsAssumption DEF StateInv, Regular
<1>8. DiskInv(n)' /\ RunningInv(n)'
  BY <1>1, <1>3, <1>4, <1>7, SavingFacts, SaveDisk
<1>9. /\ rdSnap[n].index <= applied[n] /\ applied[n] <= rdSnap[n].index + BatchLimit
      /\ Increment(rdSnap[n]) /\ InLog(rdSnap[n].index)
  BY <1>4, SavingFacts DEF RecoveringInv, InLog
<1>10. RaftInv(n)'
  BY <1>3, <1>4, <1>5, <1>9, SavingFacts DEF RaftInv, InLog, Increment, agreed, raftVars
<1>11. BatchInv(n)'
  <2>1. applied[n] < rdSnap[n].index + SnapCount + SnapCount
    BY <1>4, <1>7, <1>9
  <2>2. QED
    BY <1>3, <1>4, <2>1 DEF BatchInv, raftVars
<1>12. booted[n] /\ rSnap[n] = NoSnapshot /\ rCommit[n] = applied[n]
  BY <1>4, SavingFacts DEF LoopInv
<1>13. lo'[n] <= committedIndex'[n] + 1 /\ committedIndex'[n] <= hi'[n]
  BY <1>3, <1>4, <1>7, <1>9
<1>14. LoopInv(n)'
  BY <1>3, <1>11, <1>12, <1>13 DEF LoopInv, raftVars
<1>15. QED
  BY <1>1, <1>2, <1>3, <1>6, <1>8, <1>10, <1>14, OneNode DEF NodeInv, Running, Steps

\* The committed entries of the Ready are all in the data base.
LEMMA PersistFacts ==
  ASSUME StateInv, NEW n \in Node, Committed(n), file[n] = NoSnapshot
  PROVE  /\ Running(n) /\ RaftInv(n) /\ LoopInv(n) /\ RunningInv(n) /\ BatchInv(n)
         /\ ChainInv(n) /\ committedIndex[n] = applied[n] /\ StoredCommit(n) = applied[n]
         /\ booted[n] /\ rSnap[n] = NoSnapshot /\ rCommit[n] = applied[n]
         /\ applied[n] \in Nat /\ snapshotIndex[n] \in Nat
         /\ stSnap[n].index = snapshotIndex[n]
         /\ applied[n] < snapshotIndex[n] + SnapCount + SnapCount
<1>1. /\ Running(n) /\ RaftInv(n) /\ LoopInv(n) /\ RunningInv(n) /\ ChainInv(n)
      /\ pc[n] = "commit" /\ committedIndex[n] <= hi[n] /\ lo[n] <= committedIndex[n] + 1
      /\ lo[n] > hi[n]
  BY CommittingFacts DEF Committed
<1>2. BatchInv(n) /\ booted[n] /\ rSnap[n] = NoSnapshot /\ rCommit[n] = applied[n]
  BY <1>1 DEF LoopInv
<1>3. lo[n] \in Nat /\ hi[n] \in Nat /\ committedIndex[n] \in Nat /\ applied[n] \in Nat
      /\ snapshotIndex[n] \in Nat
  BY NodeTypes DEF StateInv
<1>4. /\ hi[n] = applied[n] /\ stSnap[n].index = snapshotIndex[n]
      /\ hi[n] < snapshotIndex[n] + SnapCount + SnapCount
  BY <1>2 DEF BatchInv
<1>5. committedIndex[n] = applied[n]
  BY <1>1, <1>3, <1>4
<1>6. QED
  BY <1>1, <1>2, <1>3, <1>4, <1>5 DEF StoredCommit

\* What SaveWal leaves to the next step.
LEMMA SaveWalNode ==
  ASSUME StateInv, TypeOK', NEW n \in Node, Committed(n), file[n] = NoSnapshot, Grown,
         NEW l \in Nat, SaveWal(n, l), l <= Len(log'),
         rLast'[n] \in {rLast[n], Len(log')},
         UNCHANGED <<rCommit, rSnap, applied, booted, stSnap, committedIndex,
                     snapshotIndex, file, pack, db, snaps>>
  PROVE  NodeInv(n)'
<1>1. /\ hsCommit'[n] = applied[n] /\ walCommit'[n] = applied[n]
      /\ walSynced'[n] \in {walSynced[n], applied[n]} /\ walLast'[n] \in {walLast[n], l}
      /\ rdLast'[n] = 0
      /\ pc'[n] = IF SnapshotIsDue(n) THEN "snapshot" ELSE "ready"
  <2>1. StoredCommit(n) = applied[n]
    BY PersistFacts
  <2>2. hsCommit'[n] = applied[n] /\ walCommit'[n] = applied[n]
    BY <2>1 DEF SaveWal, StateInv, TypeOK
  <2>3. walSynced'[n] \in {walSynced[n], applied[n]} /\ walLast'[n] \in {walLast[n], l}
    <3>1. CASE l > last[n]
      BY <3>1 DEF SaveWal, StateInv, TypeOK
    <3>2. CASE ~(l > last[n])
      BY <3>2 DEF SaveWal
    <3>3. QED
      BY <3>1, <3>2
  <2>4. rdLast'[n] = 0 /\ pc'[n] = IF SnapshotIsDue(n) THEN "snapshot" ELSE "ready"
    BY DEF SaveWal, EndReady, StateInv, TypeOK
  <2>5. QED
    BY <2>2, <2>3, <2>4
<1>2. committedIndex[n] = applied[n] /\ ChainInv(n) /\ RaftInv(n)
  BY PersistFacts
<1>3. pack[n] <= Len(ledger) + 1
  BY <1>2 DEF ChainInv
<1>4. ChainInv(n)'
  BY <1>1, <1>2, <1>3, ChainKept DEF StateInv
<1>5. Len(log) \in Nat /\ Len(log') \in Nat /\ rLast[n] \in Nat /\ walLast[n] \in Nat
      /\ walCommit[n] \in Nat /\ walSynced[n] \in Nat /\ committedIndex[n] \in Nat
      /\ applied[n] \in Nat /\ rCommit[n] \in Nat /\ stSnap[n].index \in Nat
      /\ snapshotIndex[n] \in Nat /\ SnapCount \in Nat /\ BatchLimit \in Nat
      /\ \A s \in snaps[n] \cup {NoSnapshot} : s.index \in Nat
  BY NodeTypes, NodeTypesNext, SnapshotType, ConstantsAssumption DEF StateInv
<1>6. \A i \in Nat : InLog(i) => InLog(i)'
  BY <1>5 DEF InLog, Grown
<1>7. RaftInv(n)'
  <2>1. /\ InLog(rLast[n])' /\ InLog(rdLast[n])' /\ InLog(walLast[n])'
        /\ InLog(walCommit[n])' /\ InLog(walSynced[n])' /\ InLog(committedIndex[n])'
    <3>1. /\ rLast[n] <= Len(log) /\ walLast[n] <= Len(log) /\ walSynced[n] <= Len(log)
          /\ committedIndex[n] <= Len(log) /\ Len(log) <= Len(log')
      BY <1>2 DEF RaftInv, InLog, Grown
    <3>2. rLast'[n] <= Len(log') /\ walLast'[n] <= Len(log') /\ walSynced'[n] <= Len(log')
      BY SMTT(30), <1>1, <1>2, <1>5, <3>1
    <3>3. rdLast'[n] <= Len(log') /\ walCommit'[n] <= Len(log')
          /\ committedIndex'[n] <= Len(log')
      BY <1>1, <1>2, <1>5, <3>1
    <3>4. QED
      BY <3>2, <3>3 DEF InLog
  <2>2. rCommit'[n] <= rLast'[n]
    BY <1>2, <1>5 DEF RaftInv, InLog, Grown
  <2>3. QED
    BY <1>2, <1>5, <1>6, <2>1, <2>2 DEF RaftInv, Increment
<1>8. DiskInv(n)'
  <2>1. \A s : IsNewest(n, s)' <=> IsNewest(n, s)
    BY DEF IsNewest
  <2>2. \A s \in snaps[n] \cup {NoSnapshot} : IsNewest(n, s) =>
          /\ walCommit'[n] < s.index + SnapCount + SnapCount
          /\ walSynced'[n] < s.index + SnapCount + SnapCount
    <3> SUFFICES ASSUME NEW s \in snaps[n] \cup {NoSnapshot}, IsNewest(n, s)
                 PROVE  /\ applied[n] < s.index + SnapCount + SnapCount
                        /\ walSynced[n] < s.index + SnapCount + SnapCount
      BY <1>1
    <3>1. snapshotIndex[n] <= s.index
      BY NewestFile, PersistFacts
    <3>2. /\ applied[n] < snapshotIndex[n] + SnapCount + SnapCount
          /\ walSynced[n] < snapshotIndex[n] + SnapCount + SnapCount
      BY PersistFacts, WalBound
    <3>3. s.index \in Nat /\ applied[n] \in Nat /\ walSynced[n] \in Nat
          /\ snapshotIndex[n] \in Nat /\ SnapCount \in Nat
      BY <1>5
    <3>4. QED
      BY SMTT(30), <3>1, <3>2, <3>3
  <2>3. DiskInv(n)
    BY DEF StateInv, NodeInv
  <2>4. QED
    BY <1>5, <1>6, <2>1, <2>2, <2>3 DEF DiskInv, Increment
<1>9. RunningInv(n)'
  BY PersistFacts DEF RunningInv
<1>10. LoopInv(n)' /\ Running(n)' /\ pc'[n] \in {"ready", "snapshot"}
  <2>1. CASE SnapshotIsDue(n)
    <3>1. snapshotIndex[n] + SnapCount <= committedIndex[n]
      BY <2>1, <1>5 DEF SnapshotIsDue
    <3>2. QED
      BY <1>1, <2>1, <3>1, PersistFacts DEF LoopInv, Running, Steps
  <2>2. CASE ~SnapshotIsDue(n)
    <3>1. committedIndex[n] < snapshotIndex[n] + SnapCount
      BY <2>2, <1>5 DEF SnapshotIsDue
    <3>2. rCommit[n] <= MaxOf(applied[n], rSnap[n].index) + BatchLimit
      BY SMTT(30), <1>5, PersistFacts DEF MaxOf, NoSnapshot
    <3>3. ReadyInv(n)'
      <4>1. booted[n] /\ rSnap[n] = NoSnapshot /\ rCommit[n] = applied[n]
            /\ committedIndex[n] = applied[n] /\ stSnap[n].index = snapshotIndex[n]
        BY PersistFacts
      <4>2. committedIndex[n] <= rCommit[n]
        BY <1>5, <4>1
      <4>3. QED
        BY <1>1, <3>1, <3>2, <4>1, <4>2 DEF ReadyInv
    <3>4. QED
      BY <1>1, <2>2, <3>3 DEF LoopInv, Running, Steps
  <2>3. QED
    BY <2>1, <2>2
<1>11. QED
  BY <1>4, <1>7, <1>8, <1>9, <1>10 DEF NodeInv

\* SaveWal is about one node.
LEMMA SaveWalOthers ==
  ASSUME TypeOK, NEW n \in Node, NEW l, SaveWal(n, l), NEW m \in Node \ {n}
  PROVE  /\ hsCommit'[m] = hsCommit[m] /\ pc'[m] = pc[m] /\ rdSnap'[m] = rdSnap[m]
         /\ rdLast'[m] = rdLast[m] /\ lo'[m] = lo[m] /\ hi'[m] = hi[m]
         /\ walLast'[m] = walLast[m] /\ walCommit'[m] = walCommit[m]
         /\ walSynced'[m] = walSynced[m]
<1>1. walLast'[m] = walLast[m] /\ walSynced'[m] = walSynced[m]
  <2>1. CASE l > last[n]
    BY <2>1 DEF SaveWal, TypeOK
  <2>2. CASE ~(l > last[n])
    BY <2>2 DEF SaveWal
  <2>3. QED
    BY <2>1, <2>2
<1>2. /\ hsCommit'[m] = hsCommit[m] /\ pc'[m] = pc[m] /\ walCommit'[m] = walCommit[m]
  BY DEF SaveWal, TypeOK
<1>3. /\ rdSnap'[m] = rdSnap[m] /\ rdLast'[m] = rdLast[m] /\ lo'[m] = lo[m]
      /\ hi'[m] = hi[m]
  BY DEF SaveWal, EndReady, TypeOK
<1>4. QED
  BY <1>1, <1>2, <1>3

\* The WAL takes the Ready's entries and hard state (node.go:298).
LEMMA PersistStep ==
  ASSUME StateInv, TypeOK', NEW n \in Node, Persist(n)
  PROVE  StateInv'
<1>1. Grown /\ LedgerInv'
  BY AgreedKept DEF StateInv, Persist, agreed
<1>2. \A m \in Node \ {n} : Same(m)
  BY SaveWalOthers DEF Persist, StateInv, Same, raftVars
<1>3. rdLast[n] \in Nat /\ rdLast[n] <= Len(log')
  <2>1. InLog(rdLast[n]) /\ rdLast[n] \in Nat
    BY NodeTypes DEF StateInv, NodeInv, RaftInv
  <2>2. log' = log
    BY DEF Persist, agreed
  <2>3. QED
    BY <2>1, <2>2 DEF InLog
<1>4. NodeInv(n)'
  BY <1>1, <1>3, SaveWalNode DEF Persist, raftVars
<1>5. QED
  BY <1>1, <1>2, <1>4, OneNode

\* The log grows, and the chain with it if the block is the next one.
LEMMA AppendLog ==
  ASSUME StateInv, TypeOK', NEW h \in unstable, unstable' = {},
         log' = Append(log, h),
         ledger' = IF h = Len(ledger) + 1 THEN Append(ledger, Len(log) + 1) ELSE ledger
  PROVE  Grown /\ LedgerInv'
<1> DEFINE e == Len(log) + 1
<1>1. log \in Seq(Nat) /\ ledger \in Seq(Nat) /\ h \in Nat
      /\ Len(log) \in Nat /\ Len(ledger) \in Nat
  BY NodeTypes DEF StateInv
<1>2. Len(log') = e /\ log'[e] = h /\ \A i \in 1 .. Len(log) : log'[i] = log[i]
  BY <1>1
<1>3. h <= Len(ledger) + 1 /\ e <= MaxLog
  BY <1>1, ConstantsAssumption DEF StateInv, LedgerInv
<1>4. \A k \in 1 .. Len(ledger) : /\ ledger[k] \in 1 .. Len(log) /\ log[ledger[k]] = k
                                  /\ ledger[k] \in Nat
  BY SMTT(30), <1>1, Entries DEF StateInv, LedgerInv, InLog
<1>5. CASE h = Len(ledger) + 1
  <2>1. Len(ledger') = h /\ ledger'[h] = e /\ \A k \in 1 .. Len(ledger) : ledger'[k] = ledger[k]
    BY <1>1, <1>5
  <2>2. \A k \in 1 .. Len(ledger') : k = h \/ k \in 1 .. Len(ledger)
    BY <1>1, <1>5, <2>1
  <2>3. Grown
    BY <1>1, <1>2, <1>5, <2>1, <2>2 DEF Grown
  <2>4. /\ \A k \in 1 .. Len(ledger') : InLog(ledger[k])' /\ 0 < ledger'[k]
        /\ \A k \in 1 .. Len(ledger') : log'[ledger'[k]] = k
    BY <1>1, <1>2, <1>4, <2>1, <2>2 DEF InLog
  <2>5. \A g, k \in 1 .. Len(ledger') : g < k => ledger'[g] < ledger'[k]
    <3> SUFFICES ASSUME NEW g \in 1 .. Len(ledger'), NEW k \in 1 .. Len(ledger'), g < k
                 PROVE  ledger'[g] < ledger'[k]
      OBVIOUS
    <3>1. g \in 1 .. Len(ledger)
      BY <1>1, <1>5, <2>1
    <3>2. CASE k = h
      BY <1>1, <1>4, <2>1, <3>1, <3>2
    <3>3. CASE k \in 1 .. Len(ledger)
      BY <2>1, <3>1, <3>3 DEF StateInv, LedgerInv
    <3>4. QED
      BY <2>2, <3>2, <3>3
  <2>6. \A i \in 1 .. Len(log') :
          log'[i] # Control => log'[i] <= Len(ledger') /\ ledger'[log'[i]] <= i
    <3> SUFFICES ASSUME NEW i \in 1 .. e, log'[i] # Control
                 PROVE  log'[i] <= Len(ledger') /\ ledger'[log'[i]] <= i
      BY <1>2
    <3>1. CASE i = e
      BY <1>1, <1>2, <2>1, <3>1
    <3>2. CASE i # e
      <4>1. i \in 1 .. Len(log) /\ log'[i] = log[i] /\ log[i] \in Nat
        BY <1>1, <1>2, <3>2, Entries
      <4>2. log[i] <= Len(ledger) /\ ledger[log[i]] <= i
        BY <4>1 DEF StateInv, LedgerInv
      <4>3. log[i] \in 1 .. Len(ledger)
        BY <1>1, <4>1, <4>2 DEF Control
      <4>4. QED
        BY <1>1, <1>5, <2>1, <4>1, <4>2, <4>3
    <3>3. QED
      BY <3>1, <3>2
  <2>7. QED
    BY <1>2, <1>3, <2>3, <2>4, <2>5, <2>6 DEF LedgerInv
<1>6. CASE h # Len(ledger) + 1
  <2>1. ledger' = ledger /\ h <= Len(ledger)
    BY <1>1, <1>3, <1>6
  <2>2. Grown
    BY <1>1, <1>2, <2>1 DEF Grown
  <2>3. /\ \A k \in 1 .. Len(ledger') : InLog(ledger[k])' /\ 0 < ledger'[k]
        /\ \A k \in 1 .. Len(ledger') : log'[ledger'[k]] = k
        /\ \A g, k \in 1 .. Len(ledger') : g < k => ledger'[g] < ledger'[k]
    BY <1>1, <1>2, <1>4, <2>1 DEF StateInv, LedgerInv, InLog
  <2>4. \A i \in 1 .. Len(log') :
          log'[i] # Control => log'[i] <= Len(ledger') /\ ledger'[log'[i]] <= i
    <3> SUFFICES ASSUME NEW i \in 1 .. e, log'[i] # Control
                 PROVE  log'[i] <= Len(ledger) /\ ledger[log'[i]] <= i
      BY <1>2, <2>1
    <3>1. CASE i = e
      <4>1. log'[i] = h /\ h \in 1 .. Len(ledger)
        BY <1>1, <1>2, <2>1, <3>1 DEF Control
      <4>2. QED
        BY <1>1, <1>4, <2>1, <3>1, <4>1
    <3>2. CASE i # e
      <4>1. i \in 1 .. Len(log) /\ log'[i] = log[i]
        BY <1>1, <1>2, <3>2
      <4>2. QED
        BY <4>1 DEF StateInv, LedgerInv
    <3>3. QED
      BY <3>1, <3>2
  <2>5. QED
    BY <1>2, <1>3, <2>2, <2>3, <2>4 DEF LedgerInv
<1>7. QED
  BY <1>5, <1>6

\* The leader's own entry goes to the WAL and becomes part of the agreed log.
LEMMA PersistProposalStep ==
  ASSUME StateInv, TypeOK', NEW n \in Node, PersistProposal(n)
  PROVE  StateInv'
<1>1. PICK h \in unstable :
        /\ log' = Append(log, h)
        /\ ledger' = IF h = Len(ledger) + 1 THEN Append(ledger, Len(log) + 1) ELSE ledger
  BY DEF PersistProposal
<1>2. unstable' = {}
  BY DEF PersistProposal
<1>3. Grown /\ LedgerInv'
  BY <1>1, <1>2, AppendLog
<1>4. \A m \in Node \ {n} : Same(m)
  <2>1. \A m \in Node \ {n} : rLast'[m] = rLast[m]
    BY DEF PersistProposal, StateInv, TypeOK
  <2>2. QED
    BY <2>1, SaveWalOthers DEF PersistProposal, StateInv, Same
<1>5. Len(log) + 1 \in Nat /\ Len(log') = Len(log) + 1
  BY <1>1, NodeTypes DEF StateInv
<1>6. rLast'[n] = Len(log') /\ SaveWal(n, Len(log) + 1)
  BY <1>5 DEF PersistProposal, StateInv, TypeOK
<1>7. NodeInv(n)'
  BY <1>3, <1>5, <1>6, SaveWalNode DEF PersistProposal
<1>8. QED
  BY <1>3, <1>4, <1>7, OneNode

\* The snapshot taken is the next increment.
LEMMA TakeSnapshotStep ==
  ASSUME StateInv, TypeOK', NEW n \in Node, TakeSnapshot(n)
  PROVE  StateInv'
<1> DEFINE old == snapshotIndex[n]
           c == committedIndex[n]
           s == [prev |-> old, index |-> old + SnapCount]
<1>1. Grown /\ LedgerInv'
  BY AgreedKept DEF StateInv, TakeSnapshot, agreed
<1>2. \A m \in Node \ {n} : Same(m)
  BY DEF TakeSnapshot, SaveFile, StateInv, TypeOK, Same, raftVars
<1>3. pc[n] = "snapshot" /\ Running(n) /\ RunningInv(n) /\ LoopInv(n) /\ ChainInv(n) /\ RaftInv(n)
  BY DEF TakeSnapshot, Running, Steps, StateInv, NodeInv
<1>4. /\ c = applied[n] /\ hsCommit[n] = c /\ file[n] = NoSnapshot
      /\ old + SnapCount <= c /\ c < old + SnapCount + SnapCount
      /\ booted[n] /\ rSnap[n] = NoSnapshot /\ rCommit[n] = applied[n]
  BY <1>3 DEF LoopInv
<1>5. old \in Nat /\ c \in Nat /\ SnapCount \in Nat /\ BatchLimit \in Nat /\ Len(log) \in Nat
      /\ old + SnapCount \in Nat
  BY NodeTypes, ConstantsAssumption DEF StateInv
<1>6. old % SnapCount = 0
  BY <1>3 DEF RunningInv
<1>7. IncrementOf(n) = s
  <2>1. c - (c % SnapCount) = old + SnapCount
    BY <1>4, <1>5, <1>6, RoundDown
  <2>2. QED
    BY <2>1 DEF IncrementOf
<1>8. /\ snaps'[n] = snaps[n] \cup {s} /\ snapshotIndex'[n] = s.index
      /\ walSynced'[n] = walCommit[n] /\ stSnap'[n] = s /\ pc'[n] = "ready"
      /\ UNCHANGED <<agreed, raftVars, hsCommit, committedIndex, rdSnap, rdLast,
                     lo, hi, file, pack, db, walLast, walCommit>>
  BY <1>7 DEF TakeSnapshot, SaveFile, StateInv, TypeOK
<1>9. s \in Snapshot /\ s.index = old + SnapCount /\ s.prev = old
  BY <1>5, SnapshotType
<1>10. ChainInv(n)'
  BY <1>1, <1>3, <1>8, ChainKept DEF StateInv, ChainInv
<1>11. c <= Len(log)
  BY <1>3 DEF RaftInv, InLog
<1>12. s.index <= Len(log) /\ s.index <= c
  BY <1>4, <1>5, <1>9, <1>11
<1>13. DiskInv(n)' /\ RunningInv(n)'
  BY <1>1, <1>3, <1>8, <1>9, <1>12, SaveDisk
<1>14. Increment(s)
  <2>1. (old + SnapCount) % SnapCount = 0
    BY <1>5, <1>6, NextMultiple
  <2>2. QED
    BY <2>1, <1>9 DEF Increment
<1>15. RaftInv(n)'
  BY <1>3, <1>8, <1>12, <1>14 DEF RaftInv, InLog, Increment, agreed, raftVars
<1>16. ReadyInv(n)'
  <2>1. c < s.index + SnapCount
    BY <1>4, <1>9
  <2>2. c <= rCommit[n] /\ rCommit[n] <= MaxOf(applied[n], rSnap[n].index) + BatchLimit
    BY <1>4, <1>5 DEF MaxOf, NoSnapshot
  <2>3. QED
    BY <1>4, <1>8, <2>1, <2>2 DEF ReadyInv, raftVars
<1>17. QED
  BY <1>1, <1>2, <1>8, <1>10, <1>13, <1>15, <1>16, OneNode
     DEF NodeInv, Running, Steps, LoopInv

\* maybeTriggerSnapshot always finds the blocks of its increment.
LEMMA NoSnapshotFails ==
  ASSUME StateInv, NEW n \in Node
  PROVE  ~TakeSnapshotFails(n)
<1> SUFFICES ASSUME TakeSnapshotFails(n) PROVE FALSE
  OBVIOUS
<1>1. pc[n] = "snapshot" /\ stSnap[n].index > snapshotIndex[n]
  BY DEF TakeSnapshotFails
<1>2. stSnap[n].index = snapshotIndex[n] /\ snapshotIndex[n] \in Nat
  BY <1>1, NodeTypes DEF StateInv, NodeInv, LoopInv, Running, Steps
<1>3. QED
  BY <1>1, <1>2

-----------------------------------------------------------------------------
(* The invariant.                                                          *)

\* The cluster starts with empty logs and data bases.
LEMMA StateInit ==
  ASSUME Regular, Init
  PROVE  StateInv
<1>1. TypeOK
  BY TypeInit
<1>2. Len(log) = Peers /\ Len(ledger) = 0 /\ \A i \in 1 .. Len(log) : log[i] = Control
  BY ConstantsAssumption DEF Init
<1>3. LedgerInv
  BY <1>2, ConstantsAssumption DEF Init, LedgerInv, InLog
<1>4. ASSUME NEW n \in Node
      PROVE  NodeInv(n)
  <2>1. /\ rLast[n] = Peers /\ rCommit[n] = Peers /\ rSnap[n] = NoSnapshot /\ applied[n] = 0
        /\ ~booted[n] /\ hsCommit[n] = 0 /\ stSnap[n] = NoSnapshot /\ pc[n] = "ready"
        /\ committedIndex[n] = 0 /\ snapshotIndex[n] = 0 /\ rdLast[n] = 0
        /\ file[n] = NoSnapshot /\ pack[n] = 0 /\ db[n] = <<>> /\ snaps[n] = {}
        /\ walLast[n] = 0 /\ walCommit[n] = 0 /\ walSynced[n] = 0
    BY DEF Init
  <2>2. SnapCount \in Nat /\ 0 < SnapCount /\ BatchLimit \in Nat /\ Peers \in Nat
        /\ Peers <= BatchLimit
    BY ConstantsAssumption DEF Regular
  <2>3. ChainInv(n)
    BY <1>2, <2>1 DEF ChainInv, Covers, Height
  <2>4. RaftInv(n)
    BY <1>2, <2>1, <2>2 DEF RaftInv, InLog
  <2>5. DiskInv(n)
    BY <2>1, <2>2 DEF DiskInv, IsNewest, NoSnapshot
  <2>6. RunningInv(n)
    BY <2>1, ZeroIsMultiple DEF RunningInv
  <2>7. ReadyInv(n)
    BY <2>1, <2>2 DEF ReadyInv, NoSnapshot, MaxOf
  <2>8. QED
    BY <2>1, <2>3, <2>4, <2>5, <2>6, <2>7 DEF NodeInv, LoopInv, Running, Steps
<1>5. QED
  BY <1>1, <1>3, <1>4 DEF StateInv

\* No action breaks the invariant.
LEMMA StateStep ==
  ASSUME Regular, StateInv, WrittenInv, Next
  PROVE  StateInv'
<1>1. TypeOK'
  BY TypeStep DEF StateInv
<1>2. CASE StepDown
  BY <1>1, <1>2, ElectionStep
<1>3. SUFFICES ASSUME NEW n \in Node,
                      \/ Elect(n) \/ Replicate(n) \/ AdvanceCommit(n) \/ ReceiveSnapshot(n)
                      \/ Packer(n) \/ LoseProposal(n)
                      \/ Crash(n) \/ Restart(n) \/ RestartRefused(n)
                      \/ Loop(n)
               PROVE  StateInv'
  BY <1>2 DEF Next
<1>4. CASE Elect(n) \/ Replicate(n) \/ AdvanceCommit(n) \/ ReceiveSnapshot(n)
           \/ Packer(n) \/ LoseProposal(n)
  BY <1>1, <1>4, ElectionStep, ReplicateStep, AdvanceCommitStep, ReceiveSnapshotStep, PackerStep
<1>5. CASE Crash(n) \/ FetchRefused(n)
  <2>1. Running(n)
    BY <1>5 DEF Crash, FetchRefused, Fetching, Running, Steps
  <2>2. QED
    BY <1>1, <1>5, <2>1, HaltStep DEF Crash, FetchRefused
<1>6. CASE Restart(n) \/ RestartRefused(n)
  BY <1>1, <1>6, RestartStep, RestartRefusedStep
<1>7. CASE TakeReady(n) \/ CommitAgain(n) \/ CommitControl(n) \/ CommitStaleBlock(n)
           \/ CommitBlock(n) \/ CommitGap(n)
  BY <1>1, <1>7, TakeReadyStep, SkipEntryStep, CommitBlockStep, NoGap
<1>8. CASE Recover(n) \/ FetchSnapshot(n) \/ FetchFailed(n) \/ RecoverFinal(n)
           \/ SkipSnapshot(n)
  BY <1>1, <1>8, RecoverStep, FetchSnapshotStep, NoFetchFails, RecoverFinalStep, NoSkip
<1>9. CASE SaveFetched(n) \/ SaveReceived(n) \/ Persist(n) \/ PersistProposal(n)
           \/ TakeSnapshot(n) \/ TakeSnapshotFails(n)
  BY <1>1, <1>9, SaveFetchedStep, SaveReceivedStep, PersistStep, PersistProposalStep,
     TakeSnapshotStep, NoSnapshotFails
<1>10. QED
  BY <1>3, <1>4, <1>5, <1>6, <1>7, <1>8, <1>9 DEF Loop

\* A node that does not move stays one that has written what it needs, unless
\* it becomes the leader with an empty log.
LEMMA WrittenKept ==
  ASSUME WrittenInv, NEW m \in Node, Same(m), last'[m] = last[m],
         leader' = m => leader = m \/ rLast[m] # 0
  PROVE  Written(m)'
<1>1. Written(m)
  BY DEF WrittenInv
<1>2. Running(m)' = Running(m)
  BY DEF Running, Same
<1>3. Running(m)' /\ leader' = m => rLast'[m] # 0
  BY <1>1, <1>2, ConstantsAssumption DEF Written, Same
<1>4. QED
  BY <1>1, <1>2, <1>3 DEF Written, Same

\* A node's WAL gets its first entries with the first hard state (node.go:299).
LEMMA WrittenStep ==
  ASSUME Regular, StateInv, WrittenInv, TypeOK', Next
  PROVE  WrittenInv'
<1>1. Len(log) \in Nat /\ Len(log) # 0 /\ \A m \in Node : Written(m)
  BY NodeTypes DEF StateInv, WrittenInv
<1>2. CASE StepDown
  <2>1. log' = log /\ leader' = NoNode /\ \A m \in Node : Same(m) /\ last'[m] = last[m]
    BY <1>2 DEF StepDown, Same, raftVars, storage, loop, disk
  <2>2. \A m \in Node : Written(m)'
    BY <2>1, WrittenKept, ConstantsAssumption
  <2>3. QED
    BY <1>1, <2>1, <2>2 DEF WrittenInv
<1>3. SUFFICES ASSUME NEW n \in Node,
                      \/ Elect(n) \/ Replicate(n) \/ AdvanceCommit(n) \/ ReceiveSnapshot(n)
                      \/ Packer(n) \/ LoseProposal(n)
                      \/ Crash(n) \/ Restart(n) \/ RestartRefused(n)
                      \/ Loop(n)
               PROVE  WrittenInv'
  BY <1>2 DEF Next
<1>4. CASE Elect(n)
  <2>1. /\ log' = log /\ leader' = n /\ rLast[n] = Len(log)
        /\ \A m \in Node : Same(m) /\ last'[m] = last[m]
    BY <1>4 DEF Elect, Same, raftVars, storage, loop, disk
  <2>2. \A m \in Node : leader' = m => leader = m \/ rLast[m] # 0
    BY <1>1, <2>1
  <2>3. QED
    BY <1>1, <2>1, <2>2, WrittenKept DEF WrittenInv
\* So only node n matters.
<1>5. SUFFICES ASSUME ~Elect(n)
               PROVE  Len(log') # 0 /\ leader' \in {leader, NoNode} /\ Written(n)'
                      /\ \A m \in Node \ {n} : Same(m) /\ last'[m] = last[m]
  <2> SUFFICES ASSUME ~Elect(n) PROVE WrittenInv'
    BY <1>4
  <2>1. Len(log') # 0 /\ leader' \in {leader, NoNode} /\ Written(n)'
        /\ \A m \in Node \ {n} : Same(m) /\ last'[m] = last[m]
    BY <1>5
  <2>2. \A m \in Node : leader' = m => leader = m \/ rLast[m] # 0
    BY <2>1, ConstantsAssumption
  <2>3. \A m \in Node : Written(m)'
    BY <2>1, <2>2, WrittenKept
  <2>4. QED
    BY <2>1, <2>3 DEF WrittenInv
<1>6. /\ rLast[n] \in Nat /\ rCommit[n] \in Nat /\ applied[n] \in Nat /\ last[n] \in Nat
      /\ rdLast[n] \in Nat /\ walLast[n] \in Nat /\ TypeOK
  BY NodeTypes DEF StateInv, TypeOK
<1>7. CASE Replicate(n) \/ AdvanceCommit(n)
  <2>1. /\ log' = log /\ leader' = leader
        /\ \A m \in Node \ {n} : Same(m) /\ last'[m] = last[m]
        /\ UNCHANGED <<pc, walLast, walCommit, walSynced, snaps, last, rSnap, file, booted, rdLast>>
    BY <1>6, <1>7 DEF Replicate, AdvanceCommit, TypeOK, Same, agreed, storage, loop, disk
  <2>2. rLast'[n] # 0 \/ rLast'[n] = rLast[n]
    <3>1. CASE Replicate(n)
      <4>1. PICK k \in (rLast[n] + 1) .. Len(log) : rLast' = [rLast EXCEPT ![n] = k]
        BY <3>1 DEF Replicate
      <4>2. k # 0
        BY <1>1, <1>6, <4>1
      <4>3. rLast'[n] = k
        BY <1>6, <4>1 DEF TypeOK
      <4>4. QED
        BY <4>2, <4>3
    <3>2. CASE AdvanceCommit(n)
      BY <3>2 DEF AdvanceCommit
    <3>3. QED
      BY <1>7, <3>1, <3>2
  <2>3. Written(n)'
    BY <1>1, <2>1, <2>2 DEF Written, Running
  <2>4. QED
    BY <1>1, <2>1, <2>3
<1>8. CASE ReceiveSnapshot(n)
  <2>1. /\ log' = log /\ leader' = leader /\ leader # n
        /\ \A m \in Node \ {n} : Same(m) /\ last'[m] = last[m]
        /\ walLast' = walLast
    BY <1>6, <1>8 DEF ReceiveSnapshot, TypeOK, Same, agreed, storage, loop, disk
  <2>2. booted[n] /\ pc[n] = "ready"
    BY <1>8 DEF ReceiveSnapshot, Regular
  <2>3. walLast[n] # 0
    BY <1>1, <2>2 DEF Written, Running, Steps
  <2>4. QED
    BY <1>1, <2>1, <2>3 DEF Written
<1>9. CASE Packer(n) \/ LoseProposal(n)
  <2>1. /\ log' = log /\ leader' = leader
        /\ \A m \in Node \ {n} : Same(m) /\ last'[m] = last[m]
        /\ UNCHANGED <<raftVars, storage, loop, disk>>
    BY <1>6, <1>9
       DEF Packer, Pack, DiscardPacked, Propose, LoseProposal, TypeOK, Same, agreed,
           raftVars, storage, loop, disk
  <2>2. Written(n)'
    BY <1>1, <2>1 DEF Written, Running, raftVars, storage, loop, disk
  <2>3. QED
    BY <1>1, <2>1, <2>2
<1>10. CASE Crash(n) \/ FetchRefused(n) \/ FetchFailed(n) \/ CommitGap(n)
  <2>1. PICK why \in Stopped : Halt(n, why)
    BY <1>10 DEF Crash, FetchRefused, FetchFailed, CommitGap, Stopped
  <2>2. /\ log' = log /\ leader' = leader /\ pc'[n] = why
        /\ UNCHANGED <<walLast, walCommit, walSynced, snaps>>
    BY <1>6, <2>1 DEF Halt, TypeOK, disk
  <2>3. \A m \in Node \ {n} : Same(m) /\ last'[m] = last[m]
    BY <1>6, <2>1 DEF Halt, TypeOK, Same, disk
  <2>4. ~Running(n)'
    BY <2>2 DEF Running, Steps, Stopped
  <2>5. Written(n)'
    BY <1>1, <2>2, <2>4 DEF Written
  <2>6. QED
    BY <1>1, <2>2, <2>3, <2>5
<1>11. CASE Restart(n) \/ RestartRefused(n)
  <2>1. PICK s \in snaps[n] \cup {NoSnapshot}, c \in {walCommit[n], walSynced[n]} :
          \/ IsNewest(n, s) /\ RestartFrom(n, s, c)
          \/ /\ walCommit' = [walCommit EXCEPT ![n] = c]
             /\ walSynced' = [walSynced EXCEPT ![n] = c]
             /\ RestartRefused(n)
    BY <1>11 DEF Restart, RestartRefused
  <2>2. ~Running(n) /\ StoppedInv(n)
    BY <1>11 DEF Restart, RestartRefused, Stopped, Steps, Running, StateInv, NodeInv
  <2>3. /\ log' = log /\ leader' \in {leader, NoNode}
        /\ walLast' = walLast /\ snaps' = snaps /\ walCommit'[n] = c /\ walSynced'[n] = c
        /\ \A m \in Node \ {n} : Same(m) /\ last'[m] = last[m]
    <3>1. CASE RestartFrom(n, s, c)
      BY <1>6, <3>1 DEF RestartFrom, TypeOK, Same
    <3>2. CASE /\ walCommit' = [walCommit EXCEPT ![n] = c]
               /\ walSynced' = [walSynced EXCEPT ![n] = c]
               /\ RestartRefused(n)
      BY <1>6, <3>2 DEF RestartRefused, TypeOK, Same, agreed, raftVars, storage
    <3>3. QED
      BY <2>1, <3>1, <3>2
  <2>4. CASE RestartRefused(n)
    <3>1. pc'[n] = "refused"
      BY <1>6, <2>4 DEF RestartRefused, TypeOK
    <3>2. QED
      BY <1>1, <2>3, <3>1 DEF Written, Running, Steps
  <2>5. CASE RestartFrom(n, s, c)
    <3>1. /\ leader' # n /\ pc'[n] = "ready" /\ rSnap' = rSnap /\ file' = file
          /\ booted' = booted /\ last'[n] = MaxOf(walLast[n], s.index)
      BY <1>6, <2>5, ConstantsAssumption DEF RestartFrom, TypeOK
    <3>2. ASSUME walLast[n] = 0
          PROVE  walCommit[n] = 0 /\ walSynced[n] = 0 /\ snaps[n] = {} /\ s.index = 0
      BY <1>1, <3>2 DEF Written, NoSnapshot
    <3>3. walLast[n] = 0 => last'[n] = 0
      BY <3>1, <3>2 DEF MaxOf
    <3>4. Written(n)'
      BY <2>2, <2>3, <3>1, <3>2, <3>3 DEF Written, StoppedInv
    <3>5. QED
      BY <1>1, <2>3, <3>4
  <2>6. QED
    BY <2>1, <2>4, <2>5
<1>12. CASE TakeReady(n)
  <2>1. /\ log' = log /\ leader' = leader
        /\ \A m \in Node \ {n} : Same(m) /\ last'[m] = last[m]
        /\ UNCHANGED <<rLast, walLast, walCommit, walSynced, snaps, last, file>>
        /\ rSnap'[n] = NoSnapshot /\ rdLast'[n] = rLast[n] /\ pc[n] = "ready"
        /\ pc'[n] = IF rSnap[n] # NoSnapshot THEN "recover" ELSE "commit"
    BY <1>6, <1>12 DEF TakeReady, TypeOK, Same, agreed, storage, disk
  <2>2. ASSUME walLast[n] = 0
        PROVE  rLast[n] # 0
    <3>1. /\ walCommit[n] = 0 /\ last[n] = 0 /\ rSnap[n] = NoSnapshot
          /\ leader = n => rLast[n] # 0
      BY <1>1, <2>1, <2>2 DEF Written, Running, Steps
    <3>2. rCommit[n] <= rLast[n]
      BY DEF StateInv, NodeInv, RaftInv
    <3>3. rLast[n] > last[n] \/ rCommit[n] # walCommit[n] \/ rCommit[n] > applied[n] \/ leader = n
      BY <1>12, <3>1 DEF TakeReady
    <3>4. QED
      BY <1>6, <3>1, <3>2, <3>3
  <2>3. Written(n)'
    BY <1>1, <2>1, <2>2 DEF Written, Running, Steps
  <2>4. QED
    BY <1>1, <2>1, <2>3
<1>13. CASE CommitAgain(n) \/ CommitControl(n) \/ CommitStaleBlock(n) \/ CommitBlock(n)
  <2>1. /\ log' = log /\ leader' = leader
        /\ \A m \in Node \ {n} : Same(m) /\ last'[m] = last[m]
        /\ UNCHANGED <<pc, rLast, walLast, walCommit, walSynced, snaps, last, rSnap, file, booted,
                       rdLast>>
    <3>1. CASE CommitAgain(n)
      BY <1>6, <3>1 DEF CommitAgain, TypeOK, Same, agreed, raftVars, storage, disk
    <3>2. CASE CommitControl(n)
      BY <1>6, <3>2 DEF CommitControl, TypeOK, Same, agreed, raftVars, storage, disk
    <3>3. CASE CommitStaleBlock(n)
      BY <1>6, <3>3 DEF CommitStaleBlock, TypeOK, Same, agreed, raftVars, storage, disk
    <3>4. CASE CommitBlock(n)
      BY <1>6, <3>4 DEF CommitBlock, WriteBlock, TypeOK, Same, agreed, raftVars, storage
    <3>5. QED
      BY <1>13, <3>1, <3>2, <3>3, <3>4
  <2>2. Written(n)'
    BY <1>1, <2>1 DEF Written, Running
  <2>3. QED
    BY <1>1, <2>1, <2>2
<1>14. CASE \/ Recover(n) \/ FetchSnapshot(n) \/ RecoverFinal(n) \/ SkipSnapshot(n)
            \/ TakeSnapshot(n) \/ TakeSnapshotFails(n)
  <2>1. pc[n] \in Steps \ {"ready", "commit"}
    BY <1>14
       DEF Recover, FetchSnapshot, RecoverFinal, SkipSnapshot, TakeSnapshot,
           TakeSnapshotFails, Fetching, FetchDone, Steps
  <2>2. walLast[n] # 0
    BY <1>1, <2>1 DEF Written, Running
  <2>3. /\ log' = log /\ leader' = leader /\ walLast' = walLast /\ rLast' = rLast
        /\ \A m \in Node \ {n} : Same(m) /\ last'[m] = last[m]
    <3>1. CASE Recover(n)
      BY <1>6, <3>1 DEF Recover, TypeOK, Same, agreed, raftVars, storage, disk
    <3>2. CASE FetchSnapshot(n) \/ RecoverFinal(n)
      <4>1. PICK s : CommitFrom(n, s)
        BY <3>2 DEF FetchSnapshot, RecoverFinal
      <4>2. UNCHANGED <<agreed, raftVars, storage, committedIndex, snapshotIndex, rdSnap,
                        rdLast, pack, disk>>
        BY <3>2 DEF FetchSnapshot, RecoverFinal
      <4>3. QED
        BY <1>6, <4>1, <4>2 DEF CommitFrom, TypeOK, Same, agreed, raftVars, storage, disk
    <3>3. CASE SkipSnapshot(n)
      BY <1>6, <3>3 DEF SkipSnapshot, InstallSnapshot, TypeOK, Same, agreed, raftVars, disk
    <3>4. CASE TakeSnapshot(n)
      BY <1>6, <3>4 DEF TakeSnapshot, SaveFile, TypeOK, Same, agreed, raftVars
    <3>5. CASE TakeSnapshotFails(n)
      BY <1>6, <3>5 DEF TakeSnapshotFails, TypeOK, Same, agreed, raftVars, storage, disk
    <3>6. QED
      BY <1>14, <3>1, <3>2, <3>3, <3>4, <3>5
  <2>4. Written(n)'
    BY <1>1, <2>1, <2>2, <2>3 DEF Written, Running
  <2>5. QED
    BY <1>1, <2>3, <2>4
<1>15. CASE SaveFetched(n) \/ SaveReceived(n)
  <2>1. file[n] # NoSnapshot /\ pc[n] = "commit"
    BY <1>15 DEF SaveFetched, SaveReceived, Committed
  <2>2. walLast[n] # 0
    BY <1>1, <2>1 DEF Written, Running, Steps
  <2>3. /\ log' = log /\ leader' = leader /\ walLast' = walLast /\ rLast' = rLast
        /\ \A m \in Node \ {n} : Same(m) /\ last'[m] = last[m]
    <3>1. CASE SaveFetched(n)
      BY <1>6, <3>1 DEF SaveFetched, SaveFile, TypeOK, Same, agreed, raftVars, storage
    <3>2. CASE SaveReceived(n)
      BY <1>6, <3>2 DEF SaveReceived, InstallSnapshot, SaveFile, TypeOK, Same, agreed, raftVars
    <3>3. QED
      BY <1>15, <3>1, <3>2
  <2>4. Written(n)'
    BY <1>1, <2>1, <2>2, <2>3 DEF Written, Running, Steps
  <2>5. QED
    BY <1>1, <2>3, <2>4
<1>16. CASE Persist(n) \/ PersistProposal(n)
  <2>1. PICK new \in {rdLast[n], Len(log) + 1} : SaveWal(n, new) /\ pc[n] = "commit"
    BY <1>16 DEF Persist, PersistProposal, Committed
  <2>2. Len(log') # 0 /\ leader' = leader /\ (rLast'[n] = rLast[n] \/ rLast'[n] # 0)
    <3>1. CASE Persist(n)
      BY <1>1, <3>1 DEF Persist, agreed, raftVars
    <3>2. CASE PersistProposal(n)
      <4>1. PICK h \in unstable : log' = Append(log, h)
        BY <3>2 DEF PersistProposal
      <4>2. Len(log') = Len(log) + 1
        BY <1>6, <4>1 DEF TypeOK
      <4>3. QED
        BY <1>1, <1>6, <3>2, <4>2 DEF PersistProposal, TypeOK
    <3>3. QED
      BY <1>16, <3>1, <3>2
  <2>3. \A m \in Node \ {n} : Same(m) /\ last'[m] = last[m]
    <3>1. \A m \in Node \ {n} :
            /\ last'[m] = last[m] /\ hsCommit'[m] = hsCommit[m] /\ pc'[m] = pc[m]
            /\ rdSnap'[m] = rdSnap[m] /\ rdLast'[m] = rdLast[m]
            /\ lo'[m] = lo[m] /\ hi'[m] = hi[m]
      BY <1>6, <2>1 DEF SaveWal, EndReady, TypeOK
    <3>2. \A m \in Node \ {n} : /\ walLast'[m] = walLast[m] /\ walCommit'[m] = walCommit[m]
                                /\ walSynced'[m] = walSynced[m]
      <4>1. CASE new > last[n]
        BY <1>6, <2>1, <4>1 DEF SaveWal, TypeOK
      <4>2. CASE ~(new > last[n])
        BY <1>6, <2>1, <4>2 DEF SaveWal, TypeOK
      <4>3. QED
        BY <4>1, <4>2
    <3>3. \A m \in Node \ {n} :
            /\ rLast'[m] = rLast[m] /\ rCommit'[m] = rCommit[m] /\ rSnap'[m] = rSnap[m]
            /\ applied'[m] = applied[m] /\ booted'[m] = booted[m] /\ stSnap'[m] = stSnap[m]
            /\ committedIndex'[m] = committedIndex[m] /\ snapshotIndex'[m] = snapshotIndex[m]
            /\ file'[m] = file[m] /\ pack'[m] = pack[m] /\ db'[m] = db[m] /\ snaps'[m] = snaps[m]
      BY <1>6, <1>16 DEF Persist, PersistProposal, TypeOK, raftVars
    <3>4. QED
      BY <3>1, <3>2, <3>3 DEF Same
  <2>4. walLast'[n] = IF new > last[n] THEN new ELSE walLast[n]
    <3>1. CASE new > last[n]
      BY <1>6, <2>1, <3>1 DEF SaveWal, TypeOK
    <3>2. CASE ~(new > last[n])
      BY <1>6, <2>1, <3>2 DEF SaveWal, TypeOK
    <3>3. QED
      BY <3>1, <3>2
  <2>5. walLast[n] = 0 => last[n] = 0 /\ rdLast[n] # 0
    BY <1>1, <2>1 DEF Written, Running, Steps
  <2>6. walLast'[n] # 0
    BY <1>1, <1>6, <2>1, <2>4, <2>5
  <2>7. Running(n)
    BY <2>1 DEF Running, Steps
  <2>8. Written(n)'
    BY <1>1, <2>2, <2>6, <2>7 DEF Written
  <2>9. QED
    BY <2>2, <2>3, <2>8
<1>17. QED
  BY <1>3, <1>5, <1>7, <1>8, <1>9, <1>10, <1>11, <1>12, <1>13, <1>14, <1>15, <1>16 DEF Loop

\* Raft, the packer, crashes and the event loop keep the logs, chains,
\* snapshots and WALs of all nodes consistent with each other.
THEOREM InvCorrect == ASSUME Regular PROVE Spec => []Inv
<1>1. Init => Inv
  <2> SUFFICES ASSUME Init PROVE WrittenInv
    BY StateInit DEF Inv
  <2>1. Len(log) # 0
    BY ConstantsAssumption DEF Init
  <2>2. \A n \in Node : Written(n)
    BY ConstantsAssumption DEF Init, Written
  <2>3. QED
    BY <2>1, <2>2 DEF WrittenInv
<1>2. Inv /\ [Next]_vars => Inv'
  <2>1. Inv /\ Next => Inv'
    BY StateStep, WrittenStep, TypeStep DEF Inv, StateInv
  <2>2. Inv /\ UNCHANGED vars => Inv'
    <3> SUFFICES ASSUME Inv, UNCHANGED vars PROVE Inv'
      OBVIOUS
    <3>1. TypeOK'
      BY DEF Inv, StateInv, TypeOK, vars, agreed, raftVars, storage, loop, disk
    <3>2. Grown /\ LedgerInv'
      BY AgreedKept DEF Inv, StateInv, vars, agreed
    <3>3. \A m \in Node : Same(m) /\ last'[m] = last[m] /\ leader' = leader /\ log' = log
      BY DEF Same, vars, agreed, raftVars, storage, loop, disk
    <3>4. StateInv'
      BY <3>1, <3>2, <3>3, NodeKept DEF Inv, StateInv
    <3>5. WrittenInv'
      <4>1. \A m \in Node : Written(m)'
        BY <3>3, WrittenKept DEF Inv
      <4>2. log' = log
        BY DEF vars, agreed
      <4>3. QED
        BY <4>1, <4>2 DEF Inv, WrittenInv
    <3>6. QED
      BY <3>4, <3>5 DEF Inv
  <2>3. QED
    BY <2>1, <2>2
<1>3. QED
  BY <1>1, <1>2, PTL DEF Spec

\* What the rest needs of it.
LEMMA StateInvariant == ASSUME Regular PROVE Spec => []StateInv
<1>1. Inv => StateInv
  BY DEF Inv
<1>2. QED
  BY <1>1, InvCorrect, PTL

-----------------------------------------------------------------------------
(* What follows from the invariant.                                        *)

\* commitEntries on any two nodes, with replays and duplicate blocks, never
\* makes their data bases differ at a height both have.
THEOREM ReplicasAgreeCorrect == ASSUME Regular PROVE Spec => []ReplicasAgree
<1>1. StateInv => ReplicasAgree
  <2> SUFFICES ASSUME StateInv, NEW m \in Node, NEW n \in Node, NEW h \in 1 .. MaxLog,
                      h <= Height(m), h <= Height(n)
               PROVE  db[m][h] = db[n][h]
    BY DEF ReplicasAgree
  <2>1. h \in 1 .. Height(m) /\ h \in 1 .. Height(n)
    BY ChainFacts, ConstantsAssumption
  <2>2. QED
    BY <2>1 DEF StateInv, NodeInv, ChainInv
<1>2. QED
  BY <1>1, StateInvariant, PTL

\* The panics of commitEntries and of the fetch loop are not reached.
THEOREM NoHeightGapCorrect == ASSUME Regular PROVE Spec => []NoHeightGap
<1>1. StateInv => NoHeightGap
  BY DEF StateInv, NodeInv, NoHeightGap
<1>2. QED
  BY <1>1, StateInvariant, PTL

\* The fetch loop of recoverSnapshotData finds every increment it needs.
THEOREM NoMissingIncrementCorrect == ASSUME Regular PROVE Spec => []NoMissingIncrement
<1>1. StateInv => NoMissingIncrement
  BY DEF StateInv, NodeInv, NoMissingIncrement
<1>2. QED
  BY <1>1, StateInvariant, PTL

\* wal.Save never runs ahead of the data base.
THEOREM DatabaseHoldsWalCommitCorrect ==
  ASSUME Regular PROVE Spec => []DatabaseHoldsWalCommit
<1>1. StateInv => DatabaseHoldsWalCommit
  BY DEF StateInv, NodeInv, ChainInv, Covers, DatabaseHoldsWalCommit
<1>2. QED
  BY <1>1, StateInvariant, PTL

\* HandleSnap finds the file of every increment of a running node.
THEOREM ServesEveryIncrementCorrect ==
  ASSUME Regular PROVE Spec => []ServesEveryIncrement
<1>1. SnapCount \in Nat /\ 0 < SnapCount /\ MaxLog \in Nat
  BY ConstantsAssumption
<1>2. StateInv => ServesEveryIncrement
  <2> SUFFICES ASSUME StateInv, NEW n \in Node, NEW i \in SnapCount .. MaxLog,
                      Running(n), i <= snapshotIndex[n], i % SnapCount = 0
               PROVE  [prev |-> i - SnapCount, index |-> i] \in snaps[n]
    BY DEF ServesEveryIncrement
  <2>1. RunningInv(n) /\ DiskInv(n) /\ snapshotIndex[n] \in Nat
    BY NodeTypes DEF StateInv, NodeInv
  <2>2. i \in SnapCount .. snapshotIndex[n] /\ snapshotIndex[n] # 0
    <3>1. i \in Nat /\ SnapCount <= i
      BY <1>1
    <3>2. QED
      BY <2>1, <1>1, <3>1
  <2>3. [prev |-> snapshotIndex[n] - SnapCount, index |-> snapshotIndex[n]] \in snaps[n]
    BY <2>1, <2>2 DEF RunningInv
  <2>4. QED
    BY <2>1, <2>2, <2>3 DEF DiskInv
<1>3. QED
  BY <1>2, StateInvariant, PTL

\* The blocks of a data base are blocks of the log, each at its height and in
\* log order.
THEOREM ChainFollowsLogCorrect == ASSUME Regular PROVE Spec => []ChainFollowsLog
<1>1. StateInv => ChainFollowsLog
  <2> SUFFICES ASSUME StateInv, NEW n \in Node, NEW h \in 1 .. Height(n)
               PROVE  /\ db[n][h] \in 1 .. Len(log) /\ log[db[n][h]] = h
                      /\ h > 1 => db[n][h - 1] < db[n][h]
    BY DEF ChainFollowsLog
  <2>1. \A k \in 1 .. Height(n) : k \in 1 .. Len(ledger) /\ db[n][k] = ledger[k]
    BY ChainFacts DEF StateInv, NodeInv, ChainInv
  <2>2. db[n][h] \in 1 .. Len(log) /\ log[db[n][h]] = h
    BY <2>1, ChainFacts DEF StateInv, LedgerInv, InLog
  <2>3. h > 1 => db[n][h - 1] < db[n][h]
    <3> SUFFICES ASSUME h > 1 PROVE db[n][h - 1] < db[n][h]
      OBVIOUS
    <3>1. h - 1 \in 1 .. Height(n) /\ h - 1 < h
      BY ChainFacts
    <3>2. QED
      BY <2>1, <3>1 DEF StateInv, LedgerInv
  <2>4. QED
    BY <2>2, <2>3
<1>2. QED
  BY <1>1, StateInvariant, PTL

\* A running node's commit index never goes back, not even where recovery
\* sets it from the storage.
THEOREM CommitIndexAdvancesCorrect ==
  ASSUME Regular PROVE Spec => CommitIndexAdvances
<1> DEFINE Advances == \A m \in Node : Running(m) /\ pc'[m] \in Steps =>
                         committedIndex[m] <= committedIndex'[m]
<1>1. ASSUME StateInv, UNCHANGED committedIndex
      PROVE  Advances
  BY <1>1, NodeTypes DEF StateInv
<1>2. ASSUME StateInv, Next
      PROVE  Advances
  <2>1. CASE StepDown
    BY <2>1, <1>1, <1>2 DEF StepDown, loop
  <2>2. SUFFICES ASSUME NEW n \in Node,
                        \/ Elect(n) \/ Replicate(n) \/ AdvanceCommit(n) \/ ReceiveSnapshot(n)
                        \/ Packer(n) \/ LoseProposal(n)
                        \/ Crash(n) \/ Restart(n) \/ RestartRefused(n)
                        \/ Loop(n)
                 PROVE  Advances
    BY <1>2, <2>1 DEF Next
  <2>3. ASSUME \A m \in Node \ {n} : committedIndex'[m] = committedIndex[m],
               Running(n) /\ pc'[n] \in Steps => committedIndex[n] <= committedIndex'[n]
        PROVE  Advances
    <3> SUFFICES ASSUME NEW m \in Node, Running(m), pc'[m] \in Steps
                 PROVE  committedIndex[m] <= committedIndex'[m]
      OBVIOUS
    <3>1. committedIndex[m] \in Nat
      BY <1>2, NodeTypes DEF StateInv
    <3>2. CASE m = n
      BY <2>3, <3>2
    <3>3. CASE m # n
      BY <2>3, <3>1, <3>3
    <3>4. QED
      BY <3>2, <3>3
  <2>4. CASE \/ Elect(n) \/ Replicate(n) \/ AdvanceCommit(n) \/ ReceiveSnapshot(n)
             \/ Packer(n) \/ LoseProposal(n) \/ RestartRefused(n)
    BY <2>4, <1>1, <1>2
       DEF Elect, Replicate, AdvanceCommit, ReceiveSnapshot, Packer, Pack, DiscardPacked,
           Propose, LoseProposal, RestartRefused, loop
  <2>5. CASE Crash(n) \/ FetchRefused(n) \/ FetchFailed(n) \/ CommitGap(n)
    <3>1. PICK why \in Stopped : Halt(n, why)
      BY <2>5 DEF Crash, FetchRefused, FetchFailed, CommitGap, Stopped
    <3>2. pc'[n] = why
      BY <3>1, <1>2 DEF Halt, StateInv, TypeOK
    <3>3. \A m \in Node \ {n} : committedIndex'[m] = committedIndex[m]
      BY <3>1, <1>2 DEF Halt, StateInv, TypeOK
    <3>4. QED
      BY <3>2, <3>3, <2>3 DEF Stopped, Steps
  <2>6. CASE Restart(n)
    <3>1. ~Running(n)
      BY <2>6 DEF Restart, Stopped, Steps, Running
    <3>2. \A m \in Node \ {n} : committedIndex'[m] = committedIndex[m]
      BY <2>6, <1>2 DEF Restart, RestartFrom, StateInv, TypeOK
    <3>3. QED
      BY <3>1, <3>2, <2>3
  <2>7. CASE CommitControl(n) \/ CommitStaleBlock(n) \/ CommitBlock(n)
    <3>1. committedIndex[n] \in Nat /\ lo[n] \in Nat
      BY <1>2, NodeTypes DEF StateInv
    <3>2. committedIndex'[n] \in {lo[n], committedIndex[n] + 1} /\ lo[n] > committedIndex[n]
      BY <2>7, <1>2 DEF CommitControl, CommitStaleBlock, CommitBlock, WriteBlock, StateInv, TypeOK
    <3>3. \A m \in Node \ {n} : committedIndex'[m] = committedIndex[m]
      BY <2>7, <1>2 DEF CommitControl, CommitStaleBlock, CommitBlock, WriteBlock, StateInv, TypeOK
    <3>4. committedIndex[n] <= committedIndex'[n]
      BY <3>1, <3>2
    <3>5. QED
      BY <3>3, <3>4, <2>3
  <2>8. CASE Recover(n)
    <3>1. hsCommit[n] = committedIndex[n] /\ committedIndex[n] \in Nat
      BY <2>8, <1>2, RecoverFacts DEF Recover, LoopInv
    <3>2. committedIndex'[n] = committedIndex[n]
      BY <2>8, <1>2, <3>1 DEF Recover, StateInv, TypeOK
    <3>3. \A m \in Node \ {n} : committedIndex'[m] = committedIndex[m]
      BY <2>8, <1>2 DEF Recover, StateInv, TypeOK
    <3>4. QED
      BY <3>1, <3>2, <3>3, <2>3
  <2>9. CASE SaveFetched(n) \/ SaveReceived(n)
    <3>1. committedIndex[n] = file[n].index /\ file[n].index \in Nat
      BY <2>9, <1>2, SavingFacts DEF SaveFetched, SaveReceived
    <3>2. committedIndex'[n] = file[n].index
      BY <2>9, <1>2 DEF SaveFetched, SaveReceived, StateInv, TypeOK
    <3>3. \A m \in Node \ {n} : committedIndex'[m] = committedIndex[m]
      BY <2>9, <1>2 DEF SaveFetched, SaveReceived, StateInv, TypeOK
    <3>4. committedIndex[n] <= committedIndex'[n]
      BY <3>1, <3>2
    <3>5. QED
      BY <3>3, <3>4, <2>3
  <2>10. CASE \/ TakeReady(n) \/ CommitAgain(n) \/ FetchSnapshot(n) \/ RecoverFinal(n)
              \/ SkipSnapshot(n) \/ Persist(n) \/ PersistProposal(n)
              \/ TakeSnapshot(n) \/ TakeSnapshotFails(n)
    BY <2>10, <1>1, <1>2
       DEF TakeReady, CommitAgain, FetchSnapshot, RecoverFinal, SkipSnapshot, Persist,
           PersistProposal, TakeSnapshot, TakeSnapshotFails
  <2>11. QED
    BY <2>2, <2>4, <2>5, <2>6, <2>7, <2>8, <2>9, <2>10 DEF Loop
<1>3. StateInv /\ [Next]_vars =>
        [\A n \in Node : Running(n) /\ pc'[n] \in Steps =>
            committedIndex[n] <= committedIndex'[n]]_vars
  BY <1>2
<1>4. QED
  BY <1>3, StateInvariant, PTL DEF Spec, CommitIndexAdvances

\* Whatever raft, crashes and snapshots do, the data bases only take over,
\* one by one, the blocks of one growing chain.
THEOREM Refinement == ASSUME Regular PROVE Spec => ImplementsLedger
<1>1. Init => Ledger!LedgerInit
  BY DEF Init, Ledger!LedgerInit
<1>2. ASSUME StateInv, UNCHANGED <<ledger, db>>
      PROVE  [Ledger!LedgerNext]_(Ledger!ledgerVars)
  BY <1>2 DEF Ledger!ledgerVars
<1>3. ASSUME StateInv, Next
      PROVE  [Ledger!LedgerNext]_(Ledger!ledgerVars)
  <2>1. CASE StepDown
    BY <2>1, <1>2, <1>3 DEF StepDown, disk
  <2>2. SUFFICES ASSUME NEW n \in Node,
                        \/ Elect(n) \/ Replicate(n) \/ AdvanceCommit(n) \/ ReceiveSnapshot(n)
                        \/ Packer(n) \/ LoseProposal(n)
                        \/ Crash(n) \/ Restart(n) \/ RestartRefused(n)
                        \/ Loop(n)
                 PROVE  [Ledger!LedgerNext]_(Ledger!ledgerVars)
    BY <1>3, <2>1 DEF Next
  <2>3. CASE PersistProposal(n)
    <3>1. PICK h \in unstable :
            ledger' = IF h = Len(ledger) + 1 THEN Append(ledger, Len(log) + 1) ELSE ledger
      BY <2>3 DEF PersistProposal
    <3>2. db' = db
      BY <2>3 DEF PersistProposal
    <3>3. Len(log) + 1 \in 1 .. MaxLog
      BY <1>3, <3>1, NodeTypes, ConstantsAssumption DEF StateInv, LedgerInv
    <3>4. CASE h = Len(ledger) + 1
      BY <3>1, <3>2, <3>3, <3>4 DEF Ledger!LedgerNext, Ledger!Agree
    <3>5. CASE h # Len(ledger) + 1
      BY <3>1, <3>2, <3>5, <1>2, <1>3
    <3>6. QED
      BY <3>4, <3>5
  <2>4. CASE CommitBlock(n)
    <3>1. /\ Height(n) + 1 <= Len(ledger) /\ ledger[Height(n) + 1] = lo[n]
      BY <1>3, <2>4, NextBlock, ChainFacts DEF CommitBlock
    <3>2. db' = [db EXCEPT ![n] = Append(@, lo[n])] /\ ledger' = ledger
      BY <2>4 DEF CommitBlock, WriteBlock, agreed
    <3>3. Len(db[n]) < Len(ledger)
      BY <1>3, <3>1, ChainFacts DEF Height
    <3>4. Ledger!Deliver(n)
      BY <3>1, <3>2, <3>3 DEF Ledger!Deliver, Height
    <3>5. QED
      BY <3>4 DEF Ledger!LedgerNext
  <2>5. CASE \/ Elect(n) \/ Replicate(n) \/ AdvanceCommit(n) \/ ReceiveSnapshot(n)
             \/ Packer(n) \/ LoseProposal(n)
    BY <2>5, <1>2, <1>3
       DEF Elect, Replicate, AdvanceCommit, ReceiveSnapshot, Packer, Pack, DiscardPacked,
           Propose, LoseProposal, agreed, disk
  <2>6. CASE \/ Crash(n) \/ FetchRefused(n) \/ FetchFailed(n) \/ CommitGap(n)
             \/ Restart(n) \/ RestartRefused(n)
    BY <2>6, <1>2, <1>3
       DEF Crash, FetchRefused, FetchFailed, CommitGap, Halt, Restart, RestartFrom,
           RestartRefused, agreed, disk
  <2>7. CASE \/ TakeReady(n) \/ CommitAgain(n) \/ CommitControl(n) \/ CommitStaleBlock(n)
             \/ Recover(n) \/ FetchSnapshot(n) \/ RecoverFinal(n) \/ SkipSnapshot(n)
    BY <2>7, <1>2, <1>3
       DEF TakeReady, CommitAgain, CommitControl, CommitStaleBlock, Recover, FetchSnapshot,
           RecoverFinal, SkipSnapshot, agreed, disk
  <2>8. CASE \/ SaveFetched(n) \/ SaveReceived(n) \/ Persist(n)
             \/ TakeSnapshot(n) \/ TakeSnapshotFails(n)
    BY <2>8, <1>2, <1>3
       DEF SaveFetched, SaveReceived, Persist, TakeSnapshot, TakeSnapshotFails, agreed, disk
  <2>9. QED
    BY <2>2, <2>3, <2>4, <2>5, <2>6, <2>7, <2>8 DEF Loop
<1>4. StateInv /\ [Next]_vars => [Ledger!LedgerNext]_(Ledger!ledgerVars)
  <2>1. UNCHANGED vars => UNCHANGED <<ledger, db>>
    BY DEF vars, agreed, disk
  <2>2. QED
    BY <2>1, <1>2, <1>3
<1>5. QED
  BY <1>1, <1>4, StateInvariant, PTL DEF Spec, ImplementsLedger, Ledger!LedgerSpec
=============================================================================
