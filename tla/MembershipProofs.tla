-------------------------- MODULE MembershipProofs --------------------------
(***************************************************************************)
(* The members a node knows, for any number of members and changes.        *)
(*                                                                         *)
(* updateClusterInfo cuts an address out of the slice that its loop goes   *)
(* over.  This is right as long as the address occurs once: the loop then  *)
(* meets it once, and what the cut leaves behind the end of the slice is   *)
(* not that address.                                                       *)
(***************************************************************************)
EXTENDS Membership, Inductions, SequenceTheorems, FiniteSetTheorems

Peer == Range(Configured) \cup {Quoted(p) : p \in NewPeers}

Change == [add : {TRUE}, id : Nat, peer : NewPeers] \cup [add : {FALSE}, id : Nat]

\* Members, as idPeer has them.
Maps == UNION {[D -> Peer] : D \in {S \in SUBSET Nat : IsFiniteSet(S)}}

LEMMA MapType ==
  ASSUME NEW f \in Maps
  PROVE  DOMAIN f \in SUBSET Nat /\ IsFiniteSet(DOMAIN f) /\ f \in [DOMAIN f -> Peer]
  BY DEF Maps

LEMMA MapIs ==
  ASSUME NEW D \in SUBSET Nat, IsFiniteSet(D), NEW f \in [D -> Peer]
  PROVE  f \in Maps
  BY DEF Maps

\* A change of the members makes members of them.
LEMMA AfterType ==
  ASSUME NEW f \in Maps, NEW cc \in Change
  PROVE  After(f, cc) \in Maps
<1>1. DOMAIN f \in SUBSET Nat /\ IsFiniteSet(DOMAIN f) /\ f \in [DOMAIN f -> Peer]
  BY MapType
<1>2. CASE ~cc.add
  <2>1. cc.id \in Nat /\ After(f, cc) = [i \in DOMAIN f \ {cc.id} |-> f[i]]
    BY <1>2 DEF After, Change
  <2>2. IsFiniteSet(DOMAIN f \ {cc.id})
    BY <1>1, FS_RemoveElement
  <2>3. After(f, cc) \in [DOMAIN f \ {cc.id} -> Peer]
    BY <1>1, <2>1
  <2> QED BY <1>1, <2>2, <2>3, MapIs
<1>3. CASE cc.add
  <2>1. /\ cc.id \in Nat /\ cc.peer \in NewPeers
        /\ After(f, cc) = [i \in DOMAIN f \cup {cc.id} |->
                             IF i = cc.id THEN Quoted(cc.peer) ELSE f[i]]
    BY <1>3 DEF After, Change
  <2>2. IsFiniteSet(DOMAIN f \cup {cc.id})
    BY <1>1, FS_AddElement
  <2>3. After(f, cc) \in [DOMAIN f \cup {cc.id} -> Peer]
    BY <1>1, <2>1 DEF Peer
  <2>4. DOMAIN f \cup {cc.id} \in SUBSET Nat
    BY <1>1, <2>1
  <2> QED BY <2>2, <2>3, <2>4, MapIs
<1> QED BY <1>2, <1>3

\* The configured members.
LEMMA ConfiguredType ==
  /\ Configured \in Maps /\ Configured \in Seq(Peer) /\ IsInjective(Configured)
  /\ DOMAIN Configured = 1 .. Len(Configured) /\ Len(Configured) \in Nat
  /\ IsFiniteSet(DOMAIN Configured) /\ Cardinality(DOMAIN Configured) = Len(Configured)
<1>1. Configured \in Seq(Range(Configured)) /\ IsInjective(Configured)
  BY MembershipAssumption
<1>2. DOMAIN Configured = 1 .. Len(Configured) /\ Len(Configured) \in Nat
  BY <1>1
<1>3. \A i \in 1 .. Len(Configured) : Configured[i] \in Peer
  BY <1>1, <1>2 DEF Peer, Range
<1>4. Configured \in Seq(Peer) /\ Configured \in [1 .. Len(Configured) -> Peer]
  BY <1>1, <1>2, <1>3
<1>5. IsFiniteSet(1 .. Len(Configured)) /\ Cardinality(1 .. Len(Configured)) = Len(Configured)
  <2>1. 1 \in Int /\ Len(Configured) \in Int
    BY <1>2
  <2>2. /\ IsFiniteSet(1 .. Len(Configured))
        /\ Cardinality(1 .. Len(Configured)) =
             IF 1 > Len(Configured) THEN 0 ELSE Len(Configured) - 1 + 1
    BY <2>1, FS_Interval
  <2> QED BY <1>2, <2>2
<1>6. Configured \in Maps
  BY <1>2, <1>4, <1>5, MapIs
<1> QED BY <1>1, <1>2, <1>4, <1>5, <1>6

---------------------------------------------------------------------------
(***************************************************************************)
(* The members after a number of changes.                                  *)
(***************************************************************************)

MembersOf(c, k) == FoldLeft(After, Configured, SubSeq(c, 1, k))

MemberSteps(h, c, k) ==
  /\ h \in [0 .. k -> Maps] /\ h[0] = Configured /\ h[k] = MembersOf(c, k)
  /\ \A j \in 1 .. k : h[j] = After(h[j - 1], c[j])

\* They are made by one change after the other.
LEMMA MembersFold ==
  ASSUME NEW c \in Seq(Change), NEW k \in 0 .. Len(c)
  PROVE  \E h : MemberSteps(h, c, k)
<1> DEFINE d == SubSeq(c, 1, k)
           P(g) == g = [s \in SUBSET DOMAIN d |->
                          IF s = {} THEN Configured
                          ELSE LET x == Max(s) IN After(g[s \ {x}], d[x])]
           g0 == CHOOSE g : P(g)
           F == [p \in (1 .. k) \X Maps |-> After(p[2], d[p[1]])]
<1>1. k \in Nat /\ DOMAIN d = 1 .. k /\ \A i \in 1 .. k : d[i] = c[i] /\ c[i] \in Change
  OBVIOUS
<1> HIDE DEF d
<1>2. \A x \in Maps, i \in 1 .. k : After(x, d[i]) \in Maps
  BY <1>1, AfterType
<1>3. MembersOf(c, k) = g0[1 .. k]
  BY <1>1 DEF MembersOf, d, FoldLeft, MapThenFoldSet
<1>4. F \in [(1 .. k) \X Maps -> Maps] /\ Configured \in Maps
  BY <1>2, ConfiguredType
<1>5. PICK g : Folds(g, k, Maps, Configured, F)
  <2> HIDE DEF F
  <2> QED BY <1>1, <1>4, FoldExists
<1>6. P(g)
  <2>1. ASSUME NEW s \in SUBSET (1 .. k), s # {}
        PROVE  F[<<Max(s), g[s \ {Max(s)}]>>] = After(g[s \ {Max(s)}], d[Max(s)])
    <3>1. Max(s) \in 1 .. k /\ g[s \ {Max(s)}] \in Maps
      BY <1>1, <1>5, <2>1, MaxOfInterval DEF Folds
    <3> QED BY <3>1
  <2> HIDE DEF F
  <2> QED BY <1>1, <1>5, <2>1 DEF Folds
<1>7. P(g0)
  <2> HIDE DEF P
  <2> QED BY <1>6, Zenon
<1> HIDE DEF g0
<1>8. Steps(g0, k, Maps, Configured, F)
  BY <1>1, <1>7, MaxOfInterval DEF Steps
<1>9. PICK h : Results(h, k, Maps, Configured, F, g0[1 .. k])
  <2> HIDE DEF F
  <2> QED BY <1>1, <1>4, <1>8, FoldResults
<1>10. \A j \in 1 .. k : h[j] = After(h[j - 1], c[j])
  <2> TAKE j \in 1 .. k
  <2>1. h[j - 1] \in Maps /\ h[j] = F[<<j, h[j - 1]>>]
    <3> HIDE DEF F
    <3>1. j - 1 \in 0 .. k
      BY <1>1
    <3> QED BY <1>9, <3>1 DEF Results
  <2>2. h[j] = After(h[j - 1], d[j])
    BY <2>1
  <2> QED BY <1>1, <2>2
<1> HIDE DEF F
<1>11. MemberSteps(h, c, k)
  BY <1>3, <1>9, <1>10 DEF MemberSteps, Results
<1> QED BY <1>11

\* So one more change makes the members after it of those before it.
LEMMA MembersStep ==
  ASSUME NEW c \in Seq(Change)
  PROVE  /\ MembersOf(c, 0) = Configured
         /\ \A k \in 0 .. Len(c) : MembersOf(c, k) \in Maps
         /\ \A k \in 1 .. Len(c) : MembersOf(c, k) = After(MembersOf(c, k - 1), c[k])
<1>1. MembersOf(c, 0) = Configured
  <2>1. PICK h : MemberSteps(h, c, 0)
    BY MembersFold
  <2> QED BY <2>1 DEF MemberSteps
<1>2. ASSUME NEW k \in 0 .. Len(c) PROVE MembersOf(c, k) \in Maps
  <2>1. PICK h : MemberSteps(h, c, k)
    BY MembersFold
  <2>2. k \in 0 .. k
    OBVIOUS
  <2> QED BY <2>1, <2>2 DEF MemberSteps
<1>3. ASSUME NEW k \in 1 .. Len(c)
      PROVE  MembersOf(c, k) = After(MembersOf(c, k - 1), c[k])
  <2>1. PICK h : MemberSteps(h, c, k)
    BY MembersFold
  <2>2. PICK g : MemberSteps(g, c, k - 1)
    <3>1. k - 1 \in 0 .. Len(c)
      OBVIOUS
    <3> QED BY <3>1, MembersFold
  <2> DEFINE T == {j \in 0 .. k - 1 : g[j] = h[j]}
  <2>3. 0 \in T
    BY <2>1, <2>2 DEF MemberSteps
  <2>4. ASSUME NEW j \in 0 .. (k - 1) - 1, j \in T PROVE j + 1 \in T
    <3>1. /\ j + 1 \in 1 .. k /\ j + 1 \in 1 .. k - 1 /\ (j + 1) - 1 = j
          /\ j + 1 \in 0 .. k - 1
      OBVIOUS
    <3>2. g[j + 1] = After(g[j], c[j + 1]) /\ h[j + 1] = After(h[j], c[j + 1])
      BY <2>1, <2>2, <3>1 DEF MemberSteps
    <3> QED BY <2>4, <3>1, <3>2
  <2> HIDE DEF T
  <2>5. 0 .. k - 1 \subseteq T
    <3>1. k - 1 \in Nat
      OBVIOUS
    <3> QED BY <2>3, <2>4, <3>1, Induction
  <2>6. g[k - 1] = h[k - 1]
    BY <2>5 DEF T
  <2> QED BY <2>1, <2>2, <2>6 DEF MemberSteps
<1> QED BY <1>1, <1>2, <1>3

\* Later changes leave what earlier ones made.
LEMMA MembersPrefix ==
  ASSUME NEW c \in Seq(Change), NEW cc, NEW k \in 0 .. Len(c)
  PROVE  MembersOf(Append(c, cc), k) = MembersOf(c, k)
<1>1. SubSeq(Append(c, cc), 1, k) = SubSeq(c, 1, k)
  OBVIOUS
<1> QED BY <1>1 DEF MembersOf

---------------------------------------------------------------------------
(***************************************************************************)
(* The loop of updateClusterInfo.                                          *)
(***************************************************************************)

\* The slice ps of length n without its j-th element, in the array it had.
CutOnce(ps, n, j) ==
  [array |-> [i \in 1 .. n |-> IF i \in j .. n - 1 THEN ps[i + 1] ELSE ps[i]],
   len |-> n - 1, ok |-> TRUE]

\* An address that occurs once is cut out once (node.go:857-861).
LEMMA AllCutOnce ==
  ASSUME NEW ps \in Seq(Peer), IsInjective(ps), NEW j \in 1 .. Len(ps)
  PROVE  AllCut(ps, ps[j]) = CutOnce(ps, Len(ps), j)
<1> DEFINE n == Len(ps)
           peer == ps[j]
           X == [array : [1 .. n -> Peer], len : 0 .. n, ok : BOOLEAN]
           base == [array |-> ps, len |-> n, ok |-> TRUE]
           d == [i \in DOMAIN ps |-> i]
           P(g) == g = [s \in SUBSET DOMAIN d |->
                          IF s = {} THEN base
                          ELSE LET x == Max(s) IN Cut(peer, g[s \ {x}], d[x])]
           g0 == CHOOSE g : P(g)
           F == [p \in (1 .. n) \X X |-> Cut(peer, p[2], d[p[1]])]
<1>1. /\ n \in Nat /\ DOMAIN ps = 1 .. n /\ DOMAIN d = 1 .. n /\ base \in X
      /\ \A i \in 1 .. n : d[i] = i /\ ps[i] \in Peer
  OBVIOUS
<1>2. ASSUME NEW s \in X, NEW i \in 1 .. n PROVE Cut(peer, s, i) \in X
  <2>1. CASE ~s.ok \/ s.array[i] # peer
    BY <2>1 DEF Cut
  <2>2. CASE ~(~s.ok \/ s.array[i] # peer) /\ i > s.len
    BY <2>2 DEF Cut
  <2>3. CASE ~(~s.ok \/ s.array[i] # peer) /\ ~(i > s.len)
    <3> DEFINE b == [k \in DOMAIN s.array |->
                       IF k \in i .. s.len - 1 THEN s.array[k + 1] ELSE s.array[k]]
    <3>1. Cut(peer, s, i) = [s EXCEPT !.array = b, !.len = s.len - 1]
      BY <2>3 DEF Cut
    <3>2. s.array \in [1 .. n -> Peer] /\ s.len \in 0 .. n
      OBVIOUS
    <3>3. \A k \in 1 .. n : k \in i .. s.len - 1 => k + 1 \in 1 .. n
      BY <1>1, <3>2
    <3>4. b \in [1 .. n -> Peer]
      BY <3>2, <3>3
    <3>5. s.len - 1 \in 0 .. n
      BY <1>1, <2>3, <3>2
    <3> HIDE DEF b, n
    <3> QED BY <3>1, <3>4, <3>5
  <2> QED BY <2>1, <2>2, <2>3
<1>3. AllCut(ps, peer) = g0[1 .. n]
  BY <1>1 DEF AllCut, FoldLeft, MapThenFoldSet
<1> HIDE DEF d, X, base
<1>4. F \in [(1 .. n) \X X -> X]
  BY <1>1, <1>2
<1>5. PICK g : Folds(g, n, X, base, F)
  <2> HIDE DEF F
  <2> QED BY <1>1, <1>4, FoldExists
<1>6. P(g)
  <2>1. ASSUME NEW s \in SUBSET (1 .. n), s # {}
        PROVE  F[<<Max(s), g[s \ {Max(s)}]>>] = Cut(peer, g[s \ {Max(s)}], d[Max(s)])
    <3>1. Max(s) \in 1 .. n /\ g[s \ {Max(s)}] \in X
      BY <1>1, <1>5, <2>1, MaxOfInterval DEF Folds
    <3> QED BY <3>1
  <2> HIDE DEF F
  <2> QED BY <1>1, <1>5, <2>1 DEF Folds
<1>7. P(g0)
  <2> HIDE DEF P
  <2> QED BY <1>6, Zenon
<1> HIDE DEF g0
<1>8. Steps(g0, n, X, base, F)
  BY <1>1, <1>7, MaxOfInterval DEF Steps
<1>9. PICK h : Results(h, n, X, base, F, g0[1 .. n])
  <2> HIDE DEF F
  <2> QED BY <1>1, <1>4, <1>8, FoldResults
<1>10. ASSUME NEW i \in 1 .. n PROVE h[i] = Cut(peer, h[i - 1], i)
  <2>1. i - 1 \in 0 .. n
    BY <1>1
  <2>2. h[i - 1] \in X /\ h[i] = F[<<i, h[i - 1]>>]
    BY <1>9, <2>1 DEF Results
  <2>3. h[i] = Cut(peer, h[i - 1], d[i])
    BY <2>2
  <2> QED BY <1>1, <2>3
<1> HIDE DEF F
<1> DEFINE cut == CutOnce(ps, n, j)
           T == {i \in 0 .. n : h[i] = IF i < j THEN base ELSE cut}
<1>11. ASSUME NEW i \in 1 .. n
       PROVE  /\ i < j => Cut(peer, base, i) = base
              /\ i = j => Cut(peer, base, i) = cut
              /\ i > j => Cut(peer, cut, i) = cut
  <2>1. \A k \in 1 .. n : k # j => ps[k] # peer
    BY <1>1 DEF IsInjective
  <2>2. i < j => Cut(peer, base, i) = base
    BY <1>1, <2>1 DEF Cut, base
  <2>3. Cut(peer, base, j) = cut
    <3>1. base.ok /\ base.array = ps /\ base.len = n /\ ~(j > n)
      BY <1>1 DEF base
    <3>2. Cut(peer, base, j) =
            [base EXCEPT !.array = [k \in 1 .. n |-> IF k \in j .. n - 1 THEN ps[k + 1] ELSE ps[k]],
                         !.len = n - 1]
      BY <1>1, <3>1 DEF Cut
    <3> QED BY <3>2 DEF CutOnce, base
  <2>4. ASSUME i > j PROVE cut.array[i] # peer
    <3>1. cut.array[i] = IF i \in j .. n - 1 THEN ps[i + 1] ELSE ps[i]
      BY DEF CutOnce
    <3>2. i \in j .. n - 1 => i + 1 \in 1 .. n /\ i + 1 # j
      BY <1>1, <2>4
    <3> QED BY <2>1, <2>4, <3>1, <3>2
  <2>5. i > j => Cut(peer, cut, i) = cut
    BY <2>4 DEF Cut
  <2> QED BY <2>2, <2>3, <2>5
<1>12. 0 \in T
  <2>1. h[0] = base /\ 0 < j /\ 0 \in 0 .. n
    BY <1>1, <1>9 DEF Results
  <2> QED BY <2>1
<1> HIDE DEF cut
<1>13. ASSUME NEW i \in 0 .. n - 1, i \in T PROVE i + 1 \in T
  <2>1. i + 1 \in 1 .. n /\ (i + 1) - 1 = i /\ i + 1 \in 0 .. n
    BY <1>1
  <2>2. h[i + 1] = Cut(peer, h[i], i + 1)
    BY <1>10, <2>1
  <2>3. CASE i + 1 < j
    BY <1>11, <1>13, <2>1, <2>2, <2>3
  <2>4. CASE i + 1 = j
    BY <1>11, <1>13, <2>1, <2>2, <2>4
  <2>5. CASE i + 1 > j
    BY <1>11, <1>13, <2>1, <2>2, <2>5
  <2> QED BY <2>1, <2>3, <2>4, <2>5
<1> HIDE DEF T
<1>14. 0 .. n \subseteq T
  BY <1>1, <1>12, <1>13, Induction
<1>15. h[n] = cut
  BY <1>1, <1>14 DEF T
<1>16. h[n] = g0[1 .. n]
  BY <1>9 DEF Results
<1> QED BY <1>3, <1>15, <1>16 DEF cut

\* What is left has all other addresses, once each and in their order.
LEMMA CutLeaves ==
  ASSUME NEW ps \in Seq(Peer), IsInjective(ps), NEW j \in 1 .. Len(ps),
         NEW left, left = SubSeq(CutOnce(ps, Len(ps), j).array, 1, Len(ps) - 1)
  PROVE  /\ left \in Seq(Peer) /\ Len(left) = Len(ps) - 1 /\ IsInjective(left)
         /\ Range(left) = Range(ps) \ {ps[j]}
<1> DEFINE n == Len(ps)
           b == CutOnce(ps, n, j).array
<1>1. /\ n \in Nat /\ DOMAIN ps = 1 .. n /\ \A i \in 1 .. n : ps[i] \in Peer
      /\ b = [i \in 1 .. n |-> IF i \in j .. n - 1 THEN ps[i + 1] ELSE ps[i]]
  BY DEF CutOnce
<1> HIDE DEF b
<1>2. /\ DOMAIN left = 1 .. n - 1 /\ Len(left) = n - 1
      /\ \A i \in 1 .. n - 1 : left[i] = b[i]
  BY <1>1 DEF b
<1>3. ASSUME NEW i \in 1 .. n - 1
      PROVE  /\ left[i] \in Peer
             /\ i < j => left[i] = ps[i]
             /\ i >= j => left[i] = ps[i + 1]
  <2>1. i \in 1 .. n /\ i + 1 \in 1 .. n /\ left[i] = b[i]
    <3>1. left[i] = b[i]
      BY <1>2
    <3>2. i \in 1 .. n /\ i + 1 \in 1 .. n
      BY <1>1
    <3> QED BY <3>1, <3>2
  <2>2. b[i] = IF i \in j .. n - 1 THEN ps[i + 1] ELSE ps[i]
    BY <1>1, <2>1
  <2>3. i < j => b[i] = ps[i]
    BY <1>1, <2>2
  <2>4. i >= j => b[i] = ps[i + 1]
    BY <1>1, <2>2
  <2> QED BY <1>1, <2>1, <2>2, <2>3, <2>4
<1>4. left \in Seq(Peer)
  <2>1. \A i \in 1 .. n - 1 : left[i] \in Peer
    BY <1>3
  <2>2. left = [i \in 1 .. Len(left) |-> left[i]] /\ Len(left) = n - 1
    BY <1>1, <1>2 DEF b
  <2>3. Len(left) \in Nat
    BY <1>1, <2>2
  <2>4. left \in [1 .. Len(left) -> Peer]
    BY <2>1, <2>2
  <2> QED BY <2>3, <2>4, SeqDef
<1>5. \A i, k \in 1 .. n : ps[i] = ps[k] => i = k
  BY <1>1 DEF IsInjective
<1>6. IsInjective(left)
  <2>1. ASSUME NEW i \in 1 .. n - 1, NEW k \in 1 .. n - 1, left[i] = left[k] PROVE i = k
    <3>1. /\ left[i] = ps[IF i < j THEN i ELSE i + 1]
          /\ left[k] = ps[IF k < j THEN k ELSE k + 1]
      BY <1>1, <1>3
    <3>2. /\ (IF i < j THEN i ELSE i + 1) \in 1 .. n
          /\ (IF k < j THEN k ELSE k + 1) \in 1 .. n
      BY <1>1
    <3>3. (IF i < j THEN i ELSE i + 1) = (IF k < j THEN k ELSE k + 1)
      BY <1>5, <2>1, <3>1, <3>2
    <3> QED BY <1>1, <3>3
  <2> QED BY <1>2, <2>1 DEF IsInjective
<1>7. ASSUME NEW x \in Range(left) PROVE x \in Range(ps) \ {ps[j]}
  <2>1. PICK i \in 1 .. n - 1 : x = left[i]
    BY <1>2, <1>7 DEF Range
  <2>2. PICK k \in 1 .. n : x = ps[k] /\ k # j
    <3>1. i < j \/ i >= j
      BY <1>1
    <3> QED BY <1>1, <1>3, <2>1, <3>1
  <2> QED BY <1>1, <1>5, <2>2 DEF Range
<1>8. ASSUME NEW x \in Range(ps) \ {ps[j]} PROVE x \in Range(left)
  <2>1. PICK k \in 1 .. n : x = ps[k] /\ k # j
    BY <1>1, <1>8 DEF Range
  <2>2. CASE k < j
    <3>1. k \in 1 .. n - 1 /\ left[k] = x
      BY <1>1, <1>3, <2>1, <2>2
    <3> QED BY <1>2, <3>1 DEF Range
  <2>3. CASE k > j
    <3>1. k - 1 \in 1 .. n - 1 /\ k - 1 >= j /\ (k - 1) + 1 = k
      BY <1>1, <2>1, <2>3
    <3>2. left[k - 1] = x
      BY <1>3, <2>1, <3>1
    <3> QED BY <1>2, <3>1, <3>2 DEF Range
  <2> QED BY <1>1, <2>1, <2>2, <2>3
<1> QED BY <1>2, <1>4, <1>6, <1>7, <1>8

---------------------------------------------------------------------------
(***************************************************************************)
(* What a node knows.                                                      *)
(***************************************************************************)

MembersType ==
  /\ changes \in Seq(Change)
  /\ done \in [Started -> Nat] /\ \A n \in Started : done[n] <= Len(changes)
  /\ DOMAIN peers = Started /\ DOMAIN idPeer = Started
  /\ state \in [Started -> [is : {"runs", "panicked", "stopped"}, again : BOOLEAN]]

\* Members, each with an address of its own, and a list of those addresses.
Lists(m, ps) ==
  /\ m \in Maps /\ IsInjective(m)
  /\ ps \in Seq(Peer) /\ IsInjective(ps)
  /\ Range(ps) = Range(m) /\ Len(ps) = Cardinality(DOMAIN m)

\* The node has not been restarted, and no member was added again.
Plain(n) == ~state[n].again /\ \A k \in 1 .. done[n] : ~Repeats(k)

Knows(n) ==
  /\ state[n].is # "panicked"
  /\ idPeer[n] = MembersAfter(done[n])
  /\ Lists(MembersAfter(done[n]), peers[n])

MemberInv == MembersType /\ \A n \in Started : Plain(n) => Knows(n)

\* Nodes start with the configured members (node.go:123-160).
LEMMA MembersInitially == MembershipInit => MemberInv
<1> SUFFICES ASSUME MembershipInit PROVE MemberInv
  OBVIOUS
<1>1. MembersType
  BY DEF MembershipInit, MembersType
<1>2. ASSUME NEW n \in Started PROVE Knows(n)
  <2>1. MembersAfter(done[n]) = Configured
    <3>1. done[n] = 0 /\ changes \in Seq(Change)
      BY DEF MembershipInit
    <3>2. MembersOf(changes, 0) = Configured
      BY <3>1, MembersStep
    <3> QED BY <3>1, <3>2 DEF MembersOf, MembersAfter
  <2>2. Lists(Configured, Configured)
    BY ConfiguredType DEF Lists
  <2> QED BY <2>1, <2>2 DEF MembershipInit, Knows
<1> QED BY <1>1, <1>2 DEF MemberInv

\* A change that is agreed on leaves what the nodes have been through.
LEMMA ProposeKeeps ==
  ASSUME MemberInv, NEW n \in Started, NEW cc \in Change, ProposeConfChange(n, cc),
         UNCHANGED <<peers, idPeer, done, state>>
  PROVE  MemberInv'
<1>1. /\ changes \in Seq(Change) /\ Len(changes) \in Nat
      /\ \A m \in Started : done[m] \in Nat /\ done[m] <= Len(changes)
  BY DEF MemberInv, MembersType
<1>2. changes' = changes \/ changes' = Append(changes, cc)
  BY DEF ProposeConfChange
<1>3. /\ changes' \in Seq(Change) /\ Len(changes) <= Len(changes')
      /\ \A k \in 1 .. Len(changes) : changes'[k] = changes[k]
  BY <1>1, <1>2
<1>4. \A k \in 0 .. Len(changes) : MembersOf(changes', k) = MembersOf(changes, k)
  <2>1. CASE changes' = changes
    BY <2>1
  <2>2. CASE changes' = Append(changes, cc)
    BY <1>1, <2>2, MembersPrefix
  <2> QED BY <1>2, <2>1, <2>2
<1>5. ASSUME NEW k \in 0 .. Len(changes)
      PROVE  MembersAfter(k)' = MembersAfter(k)
  BY <1>4 DEF MembersAfter, MembersOf
<1>6. ASSUME NEW k \in 1 .. Len(changes)
      PROVE  Repeats(k)' <=> Repeats(k)
  <2>1. k - 1 \in 0 .. Len(changes)
    BY <1>1
  <2>2. MembersAfter(k - 1)' = MembersAfter(k - 1)
    BY <1>5, <2>1
  <2> QED BY <1>3, <2>2 DEF Repeats
<1>7. MembersType'
  <2>1. \A m \in Started : done'[m] <= Len(changes')
    BY <1>1, <1>3
  <2> QED BY <1>3, <2>1 DEF MemberInv, MembersType
<1>8. ASSUME NEW m \in Started, Plain(m)' PROVE Knows(m)'
  <2>1. done[m] \in 0 .. Len(changes) /\ \A k \in 1 .. done[m] : k \in 1 .. Len(changes)
    BY <1>1
  <2>2. Plain(m)
    BY <1>6, <1>8, <2>1 DEF Plain
  <2>3. Knows(m)
    BY <2>2 DEF MemberInv
  <2>4. MembersAfter(done[m])' = MembersAfter(done[m])
    BY <1>4, <2>1 DEF MembersAfter, MembersOf
  <2> QED BY <2>3, <2>4 DEF Knows
<1> QED BY <1>7, <1>8 DEF MemberInv

\* A new id with a new address.
LEMMA ListsGrow ==
  ASSUME NEW m, NEW ps, Lists(m, ps), NEW id \in Nat, NEW p \in Peer,
         id \notin DOMAIN m, p \notin Range(m),
         NEW f, f = [i \in DOMAIN m \cup {id} |-> IF i = id THEN p ELSE m[i]],
         f \in Maps
  PROVE  Lists(f, Append(ps, p))
<1> DEFINE n == Len(ps)
           qs == Append(ps, p)
<1>1. /\ IsFiniteSet(DOMAIN m) /\ n = Cardinality(DOMAIN m) /\ Range(ps) = Range(m)
      /\ ps \in Seq(Peer) /\ n \in Nat /\ DOMAIN ps = 1 .. n
  BY MapType DEF Lists
<1>2. /\ qs \in Seq(Peer) /\ Len(qs) = n + 1 /\ DOMAIN qs = 1 .. n + 1
      /\ \A i \in 1 .. n : qs[i] = ps[i]
      /\ qs[n + 1] = p
  BY <1>1
<1> HIDE DEF qs
<1>3. /\ DOMAIN f = DOMAIN m \cup {id} /\ f[id] = p /\ \A i \in DOMAIN m : f[i] = m[i]
  OBVIOUS
<1>4. Len(qs) = Cardinality(DOMAIN f)
  BY <1>1, <1>2, <1>3, FS_AddElement
<1>5. IsInjective(f)
  <2>1. \A i \in DOMAIN m : f[i] # p
    BY <1>3 DEF Range
  <2>2. \A i, j \in DOMAIN m : m[i] = m[j] => i = j
    BY DEF Lists, IsInjective
  <2> QED BY <1>3, <2>1, <2>2 DEF IsInjective
<1>6. \A i \in 1 .. n : ps[i] # p
  BY <1>1 DEF Range
<1>7. IsInjective(qs)
  <2>1. \A i, j \in 1 .. n : ps[i] = ps[j] => i = j
    BY <1>1 DEF Lists, IsInjective
  <2>2. \A i \in 1 .. n + 1 : i \in 1 .. n \/ i = n + 1
    BY <1>1
  <2> QED BY <1>2, <1>6, <2>1, <2>2 DEF IsInjective
<1>8. Range(qs) = Range(ps) \cup {p}
  <2>1. /\ \A i \in 1 .. n + 1 : i \in 1 .. n \/ i = n + 1
        /\ \A i \in 1 .. n : i \in 1 .. n + 1
        /\ n + 1 \in 1 .. n + 1
    BY <1>1
  <2> QED BY <1>1, <1>2, <2>1 DEF Range
<1>9. Range(f) = Range(m) \cup {p}
  BY <1>3 DEF Range
<1> QED BY <1>1, <1>2, <1>4, <1>5, <1>7, <1>8, <1>9 DEF Lists, qs

\* A member goes, and its address.
LEMMA ListsShrink ==
  ASSUME NEW m, NEW ps, Lists(m, ps), NEW id \in DOMAIN m,
         NEW f, f = [i \in DOMAIN m \ {id} |-> m[i]], f \in Maps
  PROVE  LET s == AllCut(ps, m[id])
         IN  s.ok /\ Lists(f, SubSeq(s.array, 1, s.len))
<1>1. /\ IsFiniteSet(DOMAIN m) /\ Len(ps) = Cardinality(DOMAIN m) /\ Range(ps) = Range(m)
      /\ ps \in Seq(Peer) /\ Len(ps) \in Nat /\ DOMAIN ps = 1 .. Len(ps) /\ IsInjective(ps)
  BY MapType DEF Lists
<1>2. PICK j \in 1 .. Len(ps) : ps[j] = m[id]
  <2>1. m[id] \in Range(ps)
    BY <1>1 DEF Range
  <2> QED BY <1>1, <2>1 DEF Range
<1> DEFINE left == SubSeq(CutOnce(ps, Len(ps), j).array, 1, Len(ps) - 1)
<1>3. AllCut(ps, m[id]) = CutOnce(ps, Len(ps), j)
  BY <1>1, <1>2, AllCutOnce
<1>4. CutOnce(ps, Len(ps), j).ok /\ CutOnce(ps, Len(ps), j).len = Len(ps) - 1
  BY DEF CutOnce
<1>5. /\ left \in Seq(Peer) /\ Len(left) = Len(ps) - 1 /\ IsInjective(left)
      /\ Range(left) = Range(ps) \ {ps[j]}
  BY <1>1, CutLeaves
<1>6. DOMAIN f = DOMAIN m \ {id} /\ \A i \in DOMAIN f : f[i] = m[i]
  OBVIOUS
<1>7. Len(left) = Cardinality(DOMAIN f)
  BY <1>1, <1>5, <1>6, FS_RemoveElement
<1>8. \A i, k \in DOMAIN m : m[i] = m[k] => i = k
  BY DEF Lists, IsInjective
<1>9. IsInjective(f)
  BY <1>6, <1>8 DEF IsInjective
<1>10. Range(f) = Range(m) \ {m[id]}
  BY <1>6, <1>8 DEF Range
<1>11. Lists(f, left)
  BY <1>1, <1>2, <1>5, <1>7, <1>9, <1>10 DEF Lists
<1> HIDE DEF left
<1>12. LET s == AllCut(ps, m[id]) IN s.ok /\ SubSeq(s.array, 1, s.len) = left
  BY <1>3, <1>4 DEF left
<1> QED BY <1>11, <1>12

\* A node that goes through a change knows the members after it.
LEMMA ApplyKeeps ==
  ASSUME MemberInv, NEW n \in Started, Apply(n)
  PROVE  MemberInv'
<1> DEFINE d == done[n]
           cc == changes[d + 1]
           m == MembersAfter(d)
           next == MembersAfter(d + 1)
<1>1. /\ changes \in Seq(Change) /\ d \in Nat /\ d < Len(changes) /\ Len(changes) \in Nat
      /\ DOMAIN peers = Started /\ DOMAIN idPeer = Started
      /\ state \in [Started -> [is : {"runs", "panicked", "stopped"}, again : BOOLEAN]]
      /\ done \in [Started -> Nat] /\ \A o \in Started : done[o] <= Len(changes)
  BY DEF MemberInv, MembersType, Apply
<1>2. cc \in Change /\ d + 1 \in 1 .. Len(changes) /\ (d + 1) - 1 = d
  BY <1>1
<1>3. /\ IF cc.add THEN ApplyAdd(n, cc) ELSE ApplyRemove(n, cc)
      /\ done' = [done EXCEPT ![n] = d + 1] /\ changes' = changes /\ state[n].is = "runs"
  BY DEF Apply, Runs
<1>4. next = After(m, cc) /\ m \in Maps /\ next \in Maps
  <2>1. /\ MembersOf(changes, d + 1) = After(MembersOf(changes, d), cc)
        /\ MembersOf(changes, d) \in Maps /\ MembersOf(changes, d + 1) \in Maps
    <3>1. d \in 0 .. Len(changes) /\ d + 1 \in 0 .. Len(changes)
      BY <1>1
    <3> HIDE DEF d, cc
    <3>2. MembersOf(changes, d + 1) = After(MembersOf(changes, d), changes[d + 1])
      BY <1>1, <1>2, MembersStep
    <3>3. MembersOf(changes, d) \in Maps /\ MembersOf(changes, d + 1) \in Maps
      BY <1>1, <3>1, MembersStep
    <3> QED BY <3>2, <3>3 DEF cc
  <2> QED BY <2>1 DEF MembersAfter, MembersOf
<1> HIDE DEF d, cc, m, next
<1>5. /\ DOMAIN peers' = Started /\ DOMAIN idPeer' = Started
      /\ state' \in [Started -> [is : {"runs", "panicked", "stopped"}, again : BOOLEAN]]
      /\ \A o \in Started : state'[o].again = state[o].again
      /\ \A o \in Started \ {n} : peers'[o] = peers[o] /\ idPeer'[o] = idPeer[o] /\ state'[o] = state[o]
  <2>1. CASE cc.add
    BY <1>1, <1>3, <2>1 DEF ApplyAdd
  <2>2. CASE ~cc.add
    <3>1. ApplyRemove(n, cc)
      BY <1>3, <2>2
    <3>2. PICK S \in {"panicked", "stopped", "runs"} : state' = [state EXCEPT ![n].is = S]
      <4>1. state[n].is = "runs"
        BY <1>3
      <4> QED BY <1>1, <3>1, <4>1 DEF ApplyRemove
    <3>3. /\ state' \in [Started -> [is : {"runs", "panicked", "stopped"}, again : BOOLEAN]]
          /\ \A o \in Started : state'[o].again = state[o].again
          /\ \A o \in Started \ {n} : state'[o] = state[o]
      BY <1>1, <3>2
    <3>4. PICK ps : peers' = peers \/ peers' = [peers EXCEPT ![n] = ps]
      BY <3>1 DEF ApplyRemove
    <3>5. PICK f : idPeer' = idPeer \/ idPeer' = [idPeer EXCEPT ![n] = f]
      BY <3>1 DEF ApplyRemove
    <3> QED BY <1>1, <3>3, <3>4, <3>5
  <2> QED BY <2>1, <2>2
<1>6. MembersType'
  <2>1. done' \in [Started -> Nat] /\ \A o \in Started : done'[o] <= Len(changes)
    BY <1>1, <1>2, <1>3
  <2> QED BY <1>1, <1>3, <1>5, <2>1 DEF MembersType
<1>7. /\ \A k : MembersAfter(k)' = MembersAfter(k)
      /\ \A k : Repeats(k)' <=> Repeats(k)
  BY <1>3 DEF MembersAfter, Repeats
<1>8. ASSUME NEW o \in Started, o # n, Plain(o)' PROVE Knows(o)'
  <2>1. done'[o] = done[o] /\ state'[o] = state[o]
    BY <1>1, <1>3, <1>5, <1>8
  <2>2. Plain(o)
    BY <1>7, <1>8, <2>1 DEF Plain
  <2>3. Knows(o)
    BY <2>2 DEF MemberInv
  <2> QED BY <1>3, <1>5, <1>8, <2>1, <2>3 DEF Knows, MembersAfter
<1>9. ASSUME Plain(n)' PROVE Knows(n)'
  <2>1. done'[n] = d + 1 /\ done[n] = d
    BY <1>1, <1>3 DEF d
  <2>2. ~state[n].again /\ \A k \in 1 .. d + 1 : ~Repeats(k)
    BY <1>5, <1>7, <1>9, <2>1 DEF Plain
  <2>3. Plain(n) /\ ~Repeats(d + 1)
    BY <1>1, <2>1, <2>2 DEF Plain
  <2>4. idPeer[n] = m /\ Lists(m, peers[n])
    BY <2>3 DEF MemberInv, Knows, d, m
  <2>5. CASE cc.add
    <3>1. ApplyAdd(n, cc) /\ cc.id \in Nat /\ cc.peer \in NewPeers
      BY <1>2, <1>3, <2>5 DEF Change
    <3>2. cc.id \notin DOMAIN m /\ Quoted(cc.peer) \notin Range(m)
      BY <1>2, <2>3, <2>5 DEF Repeats, cc, m, Range
    <3>3. /\ peers'[n] = Append(peers[n], Quoted(cc.peer)) /\ state'[n] = state[n]
          /\ idPeer'[n] = [i \in DOMAIN m \cup {cc.id} |->
                             IF i = cc.id THEN Quoted(cc.peer) ELSE m[i]]
      BY <1>1, <2>4, <3>1, <3>2 DEF ApplyAdd
    <3>4. next = idPeer'[n]
      BY <1>4, <2>5, <3>3 DEF After
    <3>5. Quoted(cc.peer) \in Peer
      BY <3>1 DEF Peer
    <3>6. Lists(next, peers'[n])
      <4>1. next = [i \in DOMAIN m \cup {cc.id} |->
                      IF i = cc.id THEN Quoted(cc.peer) ELSE m[i]]
        BY <3>3, <3>4
      <4>2. Lists(next, Append(peers[n], Quoted(cc.peer)))
        BY <1>4, <2>4, <3>1, <3>2, <3>5, <4>1, ListsGrow
      <4> QED BY <3>3, <4>2
    <3>7. MembersAfter(done[n])' = next
      BY <1>3, <2>1 DEF MembersAfter, next
    <3>8. state'[n].is # "panicked"
      BY <1>3, <3>3
    <3> QED BY <3>4, <3>6, <3>7, <3>8 DEF Knows
  <2>6. CASE ~cc.add
    <3> DEFINE s == AllCut(peers[n], idPeer[n][cc.id])
    <3>1. ApplyRemove(n, cc)
      BY <1>3, <2>6
    <3>2. next = [i \in DOMAIN m \ {cc.id} |-> m[i]]
      BY <1>4, <2>6 DEF After
    <3>3. cc.id \in DOMAIN m => s.ok /\ Lists(next, SubSeq(s.array, 1, s.len))
      <4> HIDE DEF s
      <4>1. s = AllCut(peers[n], m[cc.id])
        BY <2>4 DEF s
      <4> QED BY <1>4, <2>4, <3>2, <4>1, ListsShrink
    <3> HIDE DEF s
    <3>4. /\ peers'[n] = IF cc.id \in DOMAIN m THEN SubSeq(s.array, 1, s.len) ELSE peers[n]
          /\ idPeer'[n] = WithoutId(m, cc.id)
          /\ state'[n].is # "panicked"
      <4>1. ~(cc.id \in DOMAIN idPeer[n] /\ ~s.ok)
        BY <2>4, <3>3
      <4>2. /\ peers' = [peers EXCEPT ![n] = IF cc.id \in DOMAIN idPeer[n]
                                           THEN SubSeq(s.array, 1, s.len) ELSE @]
            /\ idPeer' = [idPeer EXCEPT ![n] = WithoutId(@, cc.id)]
            /\ state' = [state EXCEPT ![n].is = IF cc.id = n THEN "stopped" ELSE @]
        BY <3>1, <4>1 DEF ApplyRemove, s
      <4>3. state'[n].is \in {"stopped", "runs"}
        BY <1>1, <1>3, <4>2
      <4>4. peers'[n] = IF cc.id \in DOMAIN m THEN SubSeq(s.array, 1, s.len) ELSE peers[n]
        BY <1>1, <2>4, <4>2
      <4>5. idPeer'[n] = WithoutId(m, cc.id)
        BY <1>1, <2>4, <4>2
      <4> QED BY <4>3, <4>4, <4>5
    <3>5. idPeer'[n] = next
      BY <3>2, <3>4 DEF WithoutId
    <3>6. cc.id \notin DOMAIN m => next = m
      <4>1. m = [i \in DOMAIN m |-> m[i]]
        BY <1>4, MapType
      <4>2. cc.id \notin DOMAIN m => DOMAIN m \ {cc.id} = DOMAIN m
        OBVIOUS
      <4> QED BY <3>2, <4>1, <4>2
    <3>7. Lists(next, peers'[n])
      BY <2>4, <3>3, <3>4, <3>6
    <3>8. MembersAfter(done[n])' = next
      BY <1>3, <2>1 DEF MembersAfter, next
    <3> QED BY <3>4, <3>5, <3>7, <3>8 DEF Knows
  <2> QED BY <2>5, <2>6
<1> QED BY <1>6, <1>8, <1>9 DEF MemberInv

\* A node that is started again knows the configured members only.
LEMMA StartAgainKeeps ==
  ASSUME MemberInv, NEW n \in Started, StartAgain(n)
  PROVE  MemberInv'
<1>1. /\ peers' = [peers EXCEPT ![n] = Configured]
      /\ idPeer' = [idPeer EXCEPT ![n] = Configured]
      /\ state' = [state EXCEPT ![n].again = TRUE]
      /\ changes' = changes /\ done' = done
  BY DEF StartAgain
<1>2. MembersType'
  BY <1>1 DEF MemberInv, MembersType
<1>3. ASSUME NEW o \in Started, Plain(o)' PROVE Knows(o)'
  <2>1. o # n
    BY <1>1, <1>3 DEF Plain, MemberInv, MembersType
  <2>2. peers'[o] = peers[o] /\ idPeer'[o] = idPeer[o] /\ state'[o] = state[o]
    BY <1>1, <2>1 DEF MemberInv, MembersType
  <2>3. Plain(o)
    BY <1>1, <1>3, <2>2 DEF Plain, Repeats, MembersAfter
  <2>4. Knows(o)
    BY <2>3 DEF MemberInv
  <2> QED BY <1>1, <2>2, <2>4 DEF Knows, MembersAfter
<1> QED BY <1>2, <1>3 DEF MemberInv

\* Every step keeps it.
LEMMA MembersInductive == MemberInv /\ [MembershipNext]_members => MemberInv'
<1> SUFFICES ASSUME MemberInv, [MembershipNext]_members PROVE MemberInv'
  OBVIOUS
<1>1. ASSUME NEW n \in Started, NEW id \in NewIds, NEW peer \in NewPeers, AddNode(n, id, peer)
      PROVE  MemberInv'
  <2>1. [add |-> TRUE, id |-> id, peer |-> peer] \in Change
    BY MembershipAssumption DEF Change
  <2> QED BY <1>1, <2>1, ProposeKeeps DEF AddNode
<1>2. ASSUME NEW n \in Started, NEW id \in NewIds \cup Started, RemoveNode(n, id)
      PROVE  MemberInv'
  <2>1. [add |-> FALSE, id |-> id] \in Change
    <3>1. NewIds \subseteq Nat
      BY MembershipAssumption
    <3>2. Started \subseteq Nat
      BY ConfiguredType DEF Started
    <3> QED BY <3>1, <3>2 DEF Change
  <2> QED BY <1>2, <2>1, ProposeKeeps DEF RemoveNode
<1>3. ASSUME NEW n \in Started, Apply(n) PROVE MemberInv'
  BY <1>3, ApplyKeeps
<1>4. ASSUME NEW n \in Started, StartAgain(n) PROVE MemberInv'
  BY <1>4, StartAgainKeeps
<1>5. CASE UNCHANGED members
  BY <1>5 DEF members, MemberInv, MembersType, Plain, Knows, Repeats, MembersAfter
<1> QED BY <1>1, <1>2, <1>3, <1>4, <1>5 DEF MembershipNext

\* A node that has not been restarted has the members that the changes make,
\* each address once, and gets through every removal (node.go:847-871).
THEOREM PeersFollowChangesCorrect == MembershipSpec => []PeersFollowChanges
<1>1. MembershipInit => MemberInv
  BY MembersInitially
<1>2. MemberInv /\ [MembershipNext]_members => MemberInv'
  BY MembersInductive
<1>3. MemberInv => PeersFollowChanges
  BY DEF MemberInv, Plain, Knows, Lists, PeersFollowChanges, GetClusterInfo
<1> QED BY <1>1, <1>2, <1>3, PTL DEF MembershipSpec
=============================================================================
