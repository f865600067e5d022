----------------------------- MODULE MCServices -----------------------------
(***************************************************************************)
(* What a node does besides consensus, one service in each behaviour: the  *)
(* store with collections of one kind (the kinds share no key), directly   *)
(* or through its server, lists always through it; the chain's indexes;    *)
(* the pool of transactions on one node and on two; gossip; the request    *)
(* limiter; the list of members; Merkle trees.                             *)
(***************************************************************************)
EXTENDS StoreServer, ChainIndex, Gossip, Limiter, Membership, Merkle, TLC

CONSTANTS Kinds,       \* the kinds of behaviour
          First, Second, \* two of Nodes
          Peer1, Peer2   \* the configured peers
VARIABLE kind          \* the kind of this behaviour

\* The chain uses long transactions, tried here on plain values; the other
\* collections are reached by commands of a single operation.  Sorted sets,
\* which have the most operations, get one less.
MayGoOn(c) == /\ kind = "plain" \/ txn[c].log = <<>>
              /\ kind = "score" => used < Budget - 1

KindOps(c, k) ==
    \/ kind = "plain" /\ PlainOps(c, k)
    \/ kind = "map"   /\ MapOps(c, k)
    \/ kind = "set"   /\ SetOps(c, k)
    \/ kind = "score" /\ ScoreOps(c, k)

\* Values a .cfg cannot write.
MCScores  == {-1, 0, 1}
MCIndexes == {-1, 1}

\* Payments by sender and nonce.
MCPayments    == {<<"a", 1>>, <<"a", 2>>, <<"a", 3>>, <<"b", 1>>}
MCSenderOf    == [t \in Payments |-> t[1]]
MCNonceOf     == [t \in Payments |-> t[2]]
MCReceiverOf  == [t \in Payments |-> "c"]
MCFormOf      == [t \in Payments |-> IF t[1] = "b" THEN "transfer" ELSE "plain"]
\* One has a script that may be refused, and the balance may not cover it.
MCScripts     == {<<"a", 2>>}
MCConfigured  == <<Peer1, Peer2>>

\* One address sends both transactions, one of them to itself.
MCSender   == [t \in Txs |-> "a"]
MCReceiver == [t \in Txs |-> IF t = CHOOSE x \in Txs : TRUE THEN "a" ELSE "b"]

\* No action tells the values apart.
Alike == Permutations(Values)

Ask(cmd, args) == [cmd |-> cmd, args |-> args]

\* Every command, one that does not exist, and one with an argument missing.
MCRequests == UNION {
    {Ask(cmd, <<k>>) : cmd \in {"DEL", "GET", "HKEYS", "HVALS", "HCLEAR", "SMEMBERS", "SCLEAR",
                                "ZCLEAR", "LPOP", "RPOP", "LLEN", "LCLEAR", "SET", "NOSUCH"}}
    \cup {Ask(cmd, <<k, v>>) : cmd \in {"SET", "HDEL", "HGET", "SADD", "SREM", "SISMEMBER",
                                        "ZREM", "ZSCORE", "LPUSH", "RPUSH"}, v \in Values}
    \cup {Ask("HSET", <<k, v, v>>) : v \in Values}
    \cup {Ask("ZADD", <<k, 1, v>>) : v \in Values}
    \cup {Ask("LSET", <<k, i, v>>) : i \in Indexes, v \in Values}
    \cup {Ask("LINDEX", <<k, i>>) : i \in Indexes}
    \cup {Ask("LRANGE", <<k, i, -i>>) : i \in Indexes}
    \cup {Ask("ZRANGE", <<k, 0, 1>>)}
    : k \in Names}

MCInPieces == {r \in MCRequests : r.cmd \in {"LPUSH", "HGET"}}

QueueCommands == {"LPUSH", "RPUSH", "LPOP", "RPOP"}
ListCommands  == QueueCommands \cup {"LSET", "LLEN", "LINDEX", "LRANGE", "LCLEAR"}

\* Either each connection sends one request of any kind, or a few treat a list
\* as a queue, or three requests operate on a list in any way, the first of them
\* a push.
MaySend(c) ==
    \/ kind = "commands" /\ Len(sent'[c]) = 1
    \/ kind = "queue" /\ sent'[c][Len(sent'[c])].cmd \in QueueCommands
    \/ /\ kind = "list" /\ sent'[c][Len(sent'[c])].cmd \in ListCommands
       /\ FoldSet(LAMBDA d, n : n + Len(sent'[d]), 0, Clients) <= 3
       /\ \E d \in Clients : sent'[d] # <<>> /\ sent'[d][1].cmd \in {"LPUSH", "RPUSH"}

\* A reader asks again only to turn a page.
MayAsk(r) == asked'[r] > 1 => (IF job'[r] # Idle THEN job'[r].op ELSE answer'[r].op) = "page"

MCInit ==
    /\ ServerInit /\ ChainStart
    /\ PoolInit /\ GossipInit
    /\ LimiterInit
    /\ MembershipInit
    /\ MerkleInit
    /\ kind \in Kinds

Direct ==
    /\ kind \in {"plain", "map", "set", "score"}
    /\ \E c \in Clients : \/ Begin(c) \/ Commit(c) \/ Discard(c)
                          \/ InTxn(c) /\ MayGoOn(c) /\ \E k \in Names : KindOps(c, k)
    /\ UNCHANGED svars

Served ==
    /\ kind \in {"commands", "queue", "list"}
    /\ ServerNext
    /\ \A c \in Clients : sent'[c] # sent[c] => MaySend(c)

Chain ==
    /\ kind = "chain"
    /\ ChainNext
    /\ \A r \in Readers : asked'[r] # asked[r] => MayAsk(r)

\* One pool gets all it gets before its first block, two pools the same again
\* and again.
Early == IF proposals = {} /\ log = <<>> THEN Payments ELSE {}
Pool ==
    /\ \/ kind = "pool"  /\ PoolStep({First}, Early)
       \/ kind = "pools" /\ PoolStep({First, Second}, {<<"a", 1>>, <<"a", 2>>})
    /\ UNCHANGED gvars

MCNext ==
    /\ \/ (Direct \/ Served) /\ UNCHANGED <<cvars, pvars, gvars, lvars, members, leafData>>
       \/ Chain /\ UNCHANGED <<svars, pvars, gvars, lvars, members, leafData>>
       \/ Pool /\ UNCHANGED <<vars, svars, cvars, lvars, members, leafData>>
       \/ /\ kind = "gossip" /\ GossipStep({<<"a", 1>>, <<"b", 1>>})
          /\ UNCHANGED <<vars, svars, cvars, lvars, members, leafData>>
       \/ /\ kind = "limiter" /\ LimiterNext
          /\ UNCHANGED <<vars, svars, cvars, pvars, gvars, members, leafData>>
       \/ /\ kind = "members" /\ MembershipNext
          /\ UNCHANGED <<vars, svars, cvars, pvars, gvars, lvars, leafData>>
       \/ /\ kind = "merkle" /\ MerkleNext
          /\ UNCHANGED <<vars, svars, cvars, pvars, gvars, lvars, members>>
    /\ UNCHANGED kind

MCSpec ==
    MCInit /\ [][MCNext]_<<vars, svars, cvars, pvars, gvars, lvars, members, leafData, kind>>
=============================================================================
