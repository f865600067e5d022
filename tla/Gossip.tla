------------------------------- MODULE Gossip -------------------------------
(***************************************************************************)
(* How transactions reach the pools: the API and RPC handlers take them    *)
(* from clients, and the nodes pass them on to each other (p2p.go).  A     *)
(* node pushes what it announces to all members every second until the     *)
(* first of them pulls, that is acknowledges, it.                          *)
(*                                                                         *)
(* All of a node's checksums go through one hash object (p2p.go:67, 141),  *)
(* which the receiving goroutines use without the lock: what two of them   *)
(* compute at the same time is any of their keys, or none's.               *)
(***************************************************************************)
EXTENDS TxPool

CONSTANTS ReceiverOf,    \* ReceiverOf[t]: the address that is paid
          FormOf,        \* FormOf[t]: "plain", "order", "new", "mint" or "transfer"
          Garbage,       \* a checksum of no message
          MaxNet,        \* bound: messages under way
          MaxEvents      \* bound: requests, ticks and restarts, of all nodes

ASSUME GossipAssumption == Garbage \notin Payments /\ {MaxNet, MaxEvents} \subseteq Nat

VARIABLES mp,            \* mp[n]: the announced messages, <<key, transaction>>
          net,           \* messages under way: push carries a transaction, pull a key
          arriving,      \* arriving[n]: received, not yet with the pool
          received,      \* received[n]: history: transactions n took or was pushed
          events         \* number of requests, ticks and restarts

gvars == <<mp, net, arriving, received, events>>

GossipInit ==
    /\ mp = [n \in Nodes |-> {}]
    /\ net = {}
    /\ arriving = [n \in Nodes |-> {}]
    /\ received = [n \in Nodes |-> {}]
    /\ events = 0

Message(type, from, to, data) == [type |-> type, from |-> from, to |-> to, data |-> data]

---------------------------------------------------------------------------
(* The handlers, and the transactions they make.  All refuse one from an   *)
(* address to itself; a request that fails leaves everything as it is.     *)

RecepTx(t)               == TRUE
SendTransaction(t)       == FormOf[t] \in {"plain", "order"}
SendSignedTransaction(t) == FormOf[t] = "plain"
CreateContract(t)        == FormOf[t] = "new"
MintToken(t)             == FormOf[t] = "mint"
SendToken(t)             == FormOf[t] = "transfer"

MayRequest(t) ==
    /\ SenderOf[t] # ReceiverOf[t]
    /\ \/ RecepTx(t) \/ SendTransaction(t) \/ SendSignedTransaction(t)
       \/ CreateContract(t) \/ MintToken(t) \/ SendToken(t)

---------------------------------------------------------------------------
PushesTo(n) == {m \in net : m.type = "push" /\ m.to = n}

Data(ps) == {p.data : p \in ps}

\* What Sum may return to the goroutines that hash the given data together.
Sums(data) == IF Cardinality(data) > 1 THEN data \cup {Garbage} ELSE data

\* Broadcast puts a transaction the pool took into mp, under the key it got.
Broadcast(n, key, t) == mp' = [mp EXCEPT ![n] = {e \in @ : e[1] # key} \cup {<<key, t>>}]

\* recvMsg acknowledges a push before notify hands it to the pool.
recvMsg(n, ps, keyOf) ==
    /\ net' = (net \ ps) \cup {Message("pull", n, p.from, keyOf[p]) : p \in ps}
    /\ arriving' = [arriving EXCEPT ![n] = @ \cup Data(ps)]

\* A client's transaction, which may be hashed while a push is.
Submit(n, t, ps) ==
    /\ MayRequest(t)
    /\ Unlocked(n) /\ MayAdd(n, t) /\ AddTo(n, t)
    /\ LET sums == Sums({t} \cup Data(ps)) IN
       \E key \in sums : \E keyOf \in [ps -> sums] : Broadcast(n, key, t) /\ recvMsg(n, ps, keyOf)
    /\ received' = [received EXCEPT ![n] = @ \cup {t} \cup Data(ps)]
    /\ UNCHANGED <<packing, proposals, chain, log, clock>>

\* One push, or two by goroutines of their own.
ReceivePush(n, ps) ==
    /\ \E keyOf \in [ps -> Sums(Data(ps))] : recvMsg(n, ps, keyOf)
    /\ received' = [received EXCEPT ![n] = @ \cup Data(ps)]
    /\ UNCHANGED <<pvars, mp, events>>

\* recv: what Add says is ignored.
Deliver(n, t) ==
    /\ t \in arriving[n] /\ Unlocked(n)
    /\ IF MayAdd(n, t) THEN AddTo(n, t) ELSE UNCHANGED List
    /\ arriving' = [arriving EXCEPT ![n] = @ \ {t}]
    /\ UNCHANGED <<packing, proposals, chain, log, clock, mp, net, received, events>>

\* The announcer forgets the message, whoever else still lacks it.
ReceivePull(m) ==
    /\ m \in net /\ m.type = "pull"
    /\ mp' = [mp EXCEPT ![m.to] = {e \in @ : e[1] # m.data}]
    /\ net' = net \ {m}
    /\ UNCHANGED <<pvars, arriving, received, events>>

\* A wrong form: announced messages are pushed once.
PushAndForget(n) ==
    /\ net' = net \cup {Message("push", n, o, e[2]) : o \in Nodes \ {n}, e \in mp[n]}
    /\ mp' = [mp EXCEPT ![n] = {}]
    /\ UNCHANGED <<pvars, arriving, received>>

\* The tick of Run: all announced messages to all other members, and nobody
\* looks at the errors of SendReliable, so that some of them set out.
PushAnnounced(n) ==
    /\ \E S \in SUBSET {Message("push", n, o, e[2]) : o \in Nodes \ {n}, e \in mp[n]} :
           net' = net \cup S
    /\ UNCHANGED <<pvars, mp, arriving, received>>

\* A message that sets out need not arrive.
Lose(m) ==
    /\ m \in net
    /\ net' = net \ {m}
    /\ UNCHANGED <<pvars, mp, arriving, received, events>>

\* mp and the pool are in memory only.
RestartNode(n) ==
    /\ Restart(n)
    /\ mp' = [mp EXCEPT ![n] = {}]
    /\ arriving' = [arriving EXCEPT ![n] = {}]
    /\ UNCHANGED <<net, received>>

Few(S) == {T \in SUBSET S : Cardinality(T) <= 2}

Event == events < MaxEvents /\ events' = events + 1

GossipStep(payments) ==
    /\ \/ \E n \in Nodes :
           \/ Event /\ \E t \in payments : \E ps \in Few(PushesTo(n)) :
                         Cardinality(ps) < 2 /\ Submit(n, t, ps)
           \/ Event /\ (PushAnnounced(n) \/ RestartNode(n))
           \/ \E ps \in Few(PushesTo(n)) \ {{}} : ReceivePush(n, ps)
           \/ \E t \in payments : Deliver(n, t)
       \/ \E m \in net : ReceivePull(m) \/ Lose(m)
    /\ Cardinality(net') <= MaxNet

GossipSpec == PoolInit /\ GossipInit /\ [][GossipStep(Payments)]_<<pvars, gvars>>

---------------------------------------------------------------------------
\* A transaction announced under its own checksum stays announced until another
\* node has it, or the node ends: no lost message, no acknowledgement under a
\* checksum taken for another's, no transaction hashed meanwhile lets it go
\* (p2p.go:64-144).  One that got a wrong checksum itself may be overwritten.
AnnouncedUntilReceived ==
    [][\A n \in Nodes, t \in Payments : <<t, t>> \in mp[n] \ mp'[n] =>
           \/ \E o \in Nodes \ {n} : t \in received[o]
           \/ RestartNode(n)]_mp
=============================================================================
