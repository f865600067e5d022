----------------------------- MODULE Membership -----------------------------
(***************************************************************************)
(* The members of the cluster: an administrator asks the leader to add or  *)
(* remove a node, raft agrees on the change, and every node brings its     *)
(* list of peers and its map from ids to addresses up to date (node.go).   *)
(* The address of an added node goes through json.Marshal and is never     *)
(* unmarshalled: the nodes keep it in quotes.                              *)
(***************************************************************************)
EXTENDS Integers, Sequences, SequencesExt, FiniteSets, FiniteSetsExt, Functions

CONSTANTS Configured,   \* the addresses of nodecfg.yaml, in the order of the ids
          NewPeers,     \* addresses an administrator may add
          NewIds,       \* ids an administrator may give
          MaxChanges    \* bound: changes agreed on

ASSUME MembershipAssumption ==
    /\ Configured \in Seq(Range(Configured)) /\ IsInjective(Configured)
    /\ NewIds \subseteq Nat \ {0}
    /\ MaxChanges \in Nat

VARIABLES peers,        \* peers[n]: rn.peers
          idPeer,       \* idPeer[n]: rn.idPeer, a function from ids to addresses
          changes,      \* the agreed changes, oldest first
          done,         \* done[n]: the changes that n has been through
          state         \* state[n]: "runs", "panicked" or "stopped"; and restarts

members == <<peers, idPeer, changes, done, state>>

Started == DOMAIN Configured          \* the nodes observed: those configured
Quoted(peer) == <<peer>>

MembershipInit ==
    /\ peers = [n \in Started |-> Configured]
    /\ idPeer = [n \in Started |-> Configured]
    /\ changes = <<>>
    /\ done = [n \in Started |-> 0]
    /\ state = [n \in Started |-> [is |-> "runs", again |-> FALSE]]

Runs(n) == state[n].is = "runs"

---------------------------------------------------------------------------
\* raft turns a change into an empty entry while its leader has one to apply.
ProposeConfChange(n, cc) ==
    IF done[n] = Len(changes) THEN changes' = Append(changes, cc) ELSE UNCHANGED changes

\* The request to add a node that is known is answered "Failed", and makes the
\* same proposal as any other.
AddNode(n, id, peer) ==
    /\ Runs(n) /\ Len(changes) < MaxChanges
    /\ ProposeConfChange(n, [add |-> TRUE, id |-> id, peer |-> peer])
    /\ UNCHANGED <<peers, idPeer, done, state>>

\* Nothing is proposed for an id that the leader does not know.
RemoveNode(n, id) ==
    /\ Runs(n) /\ Len(changes) < MaxChanges
    /\ id \in DOMAIN idPeer[n]
    /\ ProposeConfChange(n, [add |-> FALSE, id |-> id])
    /\ UNCHANGED <<peers, idPeer, done, state>>

\* What the administrator is told to ask for first.
GetClusterInfo(n) ==
    [Peers |-> peers[n], TotalNodeNum |-> Len(peers[n]),
     MaxNodeId |-> Max({1} \cup DOMAIN idPeer[n])]

---------------------------------------------------------------------------
\* A wrong form: the address after the one found is cut out.
CutNext(peer, s, i) ==
    IF ~s.ok \/ s.array[i] # peer THEN s
    ELSE [s EXCEPT !.array = [j \in DOMAIN @ |-> IF j \in i + 1 .. s.len - 1 THEN @[j + 1] ELSE @[j]],
                   !.len = @ - 1]

\* The loop of updateClusterInfo goes over the slice as it was when it began,
\* whose array the appends inside shift: s.len is what rn.peers has left.  The
\* slice expression panics past that end.
Cut(peer, s, i) ==
    IF ~s.ok \/ s.array[i] # peer THEN s
    ELSE IF i > s.len THEN [s EXCEPT !.ok = FALSE]
    ELSE [s EXCEPT !.array = [j \in DOMAIN @ |-> IF j \in i .. s.len - 1 THEN @[j + 1] ELSE @[j]],
                   !.len = @ - 1]

AllCut(ps, peer) ==
    FoldLeft(LAMBDA s, i : Cut(peer, s, i), [array |-> ps, len |-> Len(ps), ok |-> TRUE],
             [i \in DOMAIN ps |-> i])

WithoutId(f, id) == [i \in DOMAIN f \ {id} |-> f[i]]

ApplyAdd(n, cc) ==
    /\ peers' = [peers EXCEPT ![n] = Append(@, Quoted(cc.peer))]
    /\ idPeer' = [idPeer EXCEPT ![n] =
           IF cc.id \in DOMAIN @ THEN @
           ELSE [i \in DOMAIN @ \cup {cc.id} |-> IF i = cc.id THEN Quoted(cc.peer) ELSE @[i]]]
    /\ UNCHANGED state

\* A node stops when it is removed itself.
ApplyRemove(n, cc) ==
    LET known == cc.id \in DOMAIN idPeer[n]
        s     == AllCut(peers[n], idPeer[n][cc.id])
    IN IF known /\ ~s.ok
       THEN /\ state' = [state EXCEPT ![n].is = "panicked"]
            /\ UNCHANGED <<peers, idPeer>>
       ELSE /\ peers' = [peers EXCEPT ![n] = IF known THEN SubSeq(s.array, 1, s.len) ELSE @]
            /\ idPeer' = [idPeer EXCEPT ![n] = WithoutId(@, cc.id)]
            /\ state' = [state EXCEPT ![n].is = IF cc.id = n THEN "stopped" ELSE @]

\* commitEntries with a change of the configuration.
Apply(n) ==
    /\ Runs(n) /\ done[n] < Len(changes)
    /\ LET cc == changes[done[n] + 1] IN IF cc.add THEN ApplyAdd(n, cc) ELSE ApplyRemove(n, cc)
    /\ done' = [done EXCEPT ![n] = @ + 1]
    /\ UNCHANGED changes

\* A process that starts again knows the configured members only: the changes
\* it has been through are behind its commit index.
StartAgain(n) ==
    /\ Runs(n)
    /\ peers' = [peers EXCEPT ![n] = Configured]
    /\ idPeer' = [idPeer EXCEPT ![n] = Configured]
    /\ state' = [state EXCEPT ![n].again = TRUE]
    /\ UNCHANGED <<changes, done>>

MembershipNext ==
    \E n \in Started :
        \/ \E id \in NewIds, peer \in NewPeers : AddNode(n, id, peer)
        \/ \E id \in NewIds \cup Started : RemoveNode(n, id)
        \/ Apply(n)
        \/ StartAgain(n)

MembershipSpec == MembershipInit /\ [][MembershipNext]_members

---------------------------------------------------------------------------
\* The members after the first k changes, as ids and addresses.
After(f, cc) ==
    IF ~cc.add THEN [i \in DOMAIN f \ {cc.id} |-> f[i]]
    ELSE [i \in DOMAIN f \cup {cc.id} |-> IF i = cc.id THEN Quoted(cc.peer) ELSE f[i]]

MembersAfter(k) == FoldLeft(After, Configured, SubSeq(changes, 1, k))

\* The k-th change adds an id or an address that is a member's.
Repeats(k) ==
    LET cc == changes[k] m == MembersAfter(k - 1) IN
    cc.add /\ (cc.id \in DOMAIN m \/ \E i \in DOMAIN m : m[i] \in {cc.peer, Quoted(cc.peer)})

\* A node that has not been restarted knows the members that the changes it
\* has been through make, each address once, names the largest id, and gets
\* through every removal, unless a member was added again: ids and addresses
\* may come back after a removal, members leave in any order (node.go:847-871).
PeersFollowChanges ==
    \A n \in Started :
        (~state[n].again /\ \A k \in 1 .. done[n] : ~Repeats(k)) =>
            LET m == MembersAfter(done[n]) IN
            /\ state[n].is # "panicked"
            /\ idPeer[n] = m
            /\ Len(peers[n]) = Cardinality(DOMAIN m) /\ Range(peers[n]) = Range(m)
            /\ GetClusterInfo(n).MaxNodeId = Max({1} \cup DOMAIN m)
=============================================================================
