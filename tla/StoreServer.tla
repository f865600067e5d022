----------------------------- MODULE StoreServer -----------------------------
(***************************************************************************)
(* The network front of the store (until/store/server): every connection   *)
(* is served by a goroutine that reads a request, runs the command as one  *)
(* method of store.DB and writes the answer.  Arguments that should be     *)
(* numbers are numbers, and a piece of a request reads as no request.      *)
(***************************************************************************)
EXTENDS Store

CONSTANTS Requests,    \* requests a client may send: records [cmd, args]
          InPieces,    \* those that may reach the server in pieces
          NoRequest,   \* the connection is not being served a command
          MaxSent      \* bound: requests sent on one connection


VARIABLES wire,        \* wire[c]: requests sent and not read yet
          serving,     \* serving[c]: the request being served, or NoRequest
          open,        \* open[c]: the connection has not been closed
          sent,        \* sent[c]: all requests sent on the connection
          replies      \* replies[c]: the answers, each with its request

svars == <<wire, serving, open, sent, replies>>

(***************************************************************************)
(* dealRegister: the number of arguments, and what is answered when the    *)
(* method succeeds and when it returns an error: "value" is what it        *)
(* returned, "nil" the bulk answer without a value, "empty" no element.    *)
(***************************************************************************)
Deal(args, good, bad) == [args |-> args, good |-> good, bad |-> bad]

dealRegister ==
    [SET       |-> Deal(2, "OK", "error"),    DEL       |-> Deal(1, "one", "zero"),
     GET       |-> Deal(1, "value", "nil"),   HSET      |-> Deal(3, "one", "error"),
     HDEL      |-> Deal(2, "one", "zero"),    HGET      |-> Deal(2, "value", "nil"),
     HKEYS     |-> Deal(1, "value", "empty"), HVALS     |-> Deal(1, "value", "empty"),
     HCLEAR    |-> Deal(1, "one", "zero"),    SADD      |-> Deal(2, "one", "zero"),
     SREM      |-> Deal(2, "one", "zero"),    SISMEMBER |-> Deal(2, "value", "zero"),
     SMEMBERS  |-> Deal(1, "value", "empty"), SCLEAR    |-> Deal(1, "one", "zero"),
     ZADD      |-> Deal(3, "one", "zero"),    ZREM      |-> Deal(2, "one", "zero"),
     ZSCORE    |-> Deal(2, "value", "nil"),   ZRANGE    |-> Deal(3, "value", "error"),
     ZCLEAR    |-> Deal(1, "one", "zero"),    LPOP      |-> Deal(1, "value", "nil"),
     LPUSH     |-> Deal(2, "value", "error"), RPOP      |-> Deal(1, "value", "nil"),
     RPUSH     |-> Deal(2, "value", "error"), LSET      |-> Deal(3, "OK", "error"),
     LLEN      |-> Deal(1, "value", "zero"),  LINDEX    |-> Deal(2, "value", "nil"),
     LRANGE    |-> Deal(3, "value", "empty"), LCLEAR    |-> Deal(1, "one", "zero")]

\* Requests a command is run for: lists have names and hold values, and what is
\* used as an index is a number.
ASSUME ServerAssumption ==
    /\ MaxSent \in Nat /\ NoRequest \notin Requests
    /\ \A r \in Requests :
         r.cmd \in DOMAIN dealRegister /\ Len(r.args) >= dealRegister[r.cmd].args =>
           /\ r.args[1] \in Names
           /\ r.cmd \in {"LPUSH", "RPUSH"} => r.args[2] \in Values
           /\ r.cmd = "LSET" => r.args[2] \in Int /\ r.args[3] \in Values

ServerInit ==
    /\ Init
    /\ wire = [c \in Clients |-> <<>>]
    /\ serving = [c \in Clients |-> NoRequest]
    /\ open = [c \in Clients |-> TRUE]
    /\ sent = [c \in Clients |-> <<>>]
    /\ replies = [c \in Clients |-> <<>>]

Send(c, r) ==
    /\ Len(sent[c]) < MaxSent
    /\ sent' = [sent EXCEPT ![c] = Append(@, r)]
    /\ wire' = [wire EXCEPT ![c] = Append(@, r)]
    /\ UNCHANGED <<serving, open, replies, vars>>

Answered(c, r, ans, val) ==
    replies' = [replies EXCEPT ![c] = Append(@, [req |-> r, ans |-> ans, val |-> val])]

\* A wrong form: the request being read stays in the buffer.
LeftUnread(c, n) == wire[c]

\* What is left on the connection when n requests have been read.
Left(c, n) == SubSeq(wire[c], n + 1, Len(wire[c]))

\* readRequest wraps the connection in a new buffered reader each time: what
\* has arrived behind the first request is read with it and lost.  A request of
\* which a part was lost so, or has yet to come, is an "illegal request"; the
\* connection is closed after it, as after an unknown command.
Receive(c) ==
    /\ open[c] /\ serving[c] = NoRequest /\ wire[c] # <<>>
    /\ \E n \in DOMAIN wire[c] :
         wire' = [wire EXCEPT ![c] = Left(c, n)]
    /\ LET r == Head(wire[c]) IN
       \/ /\ r.cmd \notin DOMAIN dealRegister \/ r \in InPieces
          /\ Answered(c, r, "error", "")
          /\ open' = [open EXCEPT ![c] = FALSE]
          /\ UNCHANGED <<serving, sent, vars>>
       \/ /\ r.cmd \in DOMAIN dealRegister /\ Len(r.args) < dealRegister[r.cmd].args
          /\ Answered(c, r, "error", "")
          /\ UNCHANGED <<open, serving, sent, vars>>
       \/ /\ r.cmd \in DOMAIN dealRegister /\ Len(r.args) >= dealRegister[r.cmd].args
          /\ Begin(c)
          /\ serving' = [serving EXCEPT ![c] = r]
          /\ UNCHANGED <<open, sent, replies>>

\* deal0 .. deal27: the method each command calls.
DealPlain(c, cmd, a) ==
    \/ cmd = "SET"       /\ Set(c, a[1], a[2])
    \/ cmd = "DEL"       /\ Del(c, a[1])
    \/ cmd = "GET"       /\ Get(c, a[1])

DealMap(c, cmd, a) ==
    \/ cmd = "HSET"      /\ Mset(c, a[1], a[2], a[3])
    \/ cmd = "HDEL"      /\ Mdel(c, a[1], a[2])
    \/ cmd = "HGET"      /\ Mget(c, a[1], a[2])
    \/ cmd \in {"HKEYS", "HVALS"} /\ Mkvs(c, a[1])
    \/ cmd = "HCLEAR"    /\ Mclear(c, a[1])

DealSet(c, cmd, a) ==
    \/ cmd = "SADD"      /\ Sadd(c, a[1], a[2])
    \/ cmd = "SREM"      /\ Sdel(c, a[1], a[2])
    \/ cmd = "SISMEMBER" /\ Selem(c, a[1], a[2])
    \/ cmd = "SMEMBERS"  /\ Smembers(c, a[1])
    \/ cmd = "SCLEAR"    /\ Sclear(c, a[1])

DealScores(c, cmd, a) ==
    \/ cmd = "ZADD"      /\ Zadd(c, a[1], a[2], a[3])
    \/ cmd = "ZREM"      /\ Zdel(c, a[1], a[2])
    \/ cmd = "ZSCORE"    /\ Zscore(c, a[1], a[2])
    \/ cmd = "ZRANGE"    /\ Zrange(c, a[1], a[2], a[3])
    \/ cmd = "ZCLEAR"    /\ Zclear(c, a[1])

DealList(c, cmd, a) ==
    \/ cmd = "LPOP"      /\ Llpop(c, a[1])
    \/ cmd = "LPUSH"     /\ Llpush(c, a[1], a[2])
    \/ cmd = "RPOP"      /\ Lrpop(c, a[1])
    \/ cmd = "RPUSH"     /\ Lrpush(c, a[1], a[2])
    \/ cmd = "LSET"      /\ Lset(c, a[1], a[2], a[3])
    \/ cmd = "LLEN"      /\ Llen(c, a[1])
    \/ cmd = "LINDEX"    /\ Lindex(c, a[1], a[2])
    \/ cmd = "LRANGE"    /\ Lrange(c, a[1], a[2], a[3])
    \/ cmd = "LCLEAR"    /\ Lclear(c, a[1])

Perform(c, cmd, a) ==
    \/ DealPlain(c, cmd, a) \/ DealMap(c, cmd, a) \/ DealSet(c, cmd, a)
    \/ DealScores(c, cmd, a) \/ DealList(c, cmd, a)

Execute(c) ==
    /\ serving[c] # NoRequest /\ txn[c].log = <<>>
    /\ Perform(c, serving[c].cmd, serving[c].args)
    /\ UNCHANGED svars

Respond(c, ans, val) ==
    /\ Answered(c, serving[c], ans, val)
    /\ serving' = [serving EXCEPT ![c] = NoRequest]
    /\ UNCHANGED <<wire, open, sent>>

\* A wrong form: the error of Commit is not looked at.
FinishUnchecked(c) ==
    /\ serving[c] # NoRequest /\ txn[c].log # <<>>
    /\ LET ret  == txn[c].log[1].ret
           deal == dealRegister[serving[c].cmd]
       IN /\ Commit(c) \/ (Conflict(txn[c]) /\ Discard(c))
          /\ IF ret \in Errors THEN Respond(c, deal.bad, "")
             ELSE Respond(c, deal.good, IF deal.good = "value" THEN ret ELSE "")

\* The method has returned: its transaction is committed, or was refused, or
\* is dropped because of the error.
Finish(c) ==
    /\ serving[c] # NoRequest /\ txn[c].log # <<>>
    /\ LET ret  == txn[c].log[1].ret
           deal == dealRegister[serving[c].cmd]
       IN \/ /\ ret \notin Errors
             /\ Commit(c)
             /\ Respond(c, deal.good, IF deal.good = "value" THEN ret ELSE "")
          \/ /\ ret \in Errors \/ Conflict(txn[c])
             /\ Discard(c)
             /\ Respond(c, deal.bad, "")

ServerNext == \E c \in Clients :
    Receive(c) \/ Execute(c) \/ Finish(c) \/ \E r \in Requests : Send(c, r)

ServerSpec == ServerInit /\ [][ServerNext]_<<vars, svars>>

---------------------------------------------------------------------------
\* The answers with a value to commands of the set cmds.
Told(cmds) ==
    {a \in UNION {{c} \X DOMAIN replies[c] : c \in Clients} :
        /\ replies[a[1]][a[2]].req.cmd \in cmds
        /\ replies[a[1]][a[2]].ans = "value"}

\* The elements of all lists, by their places.
ListElements == UNION {{k} \X DOMAIN ListOf(k) : k \in Names}

NothingCleared == \A c \in Clients : \A i \in DOMAIN sent[c] : sent[c][i].cmd # "LCLEAR"

\* The elements pushed with success are the ones in the lists and the ones
\* handed out by pops, each handed out once, as long as nothing is cleared
\* (exec.go:325-378 over bg.go:518-593): a push refused by a conflict has left
\* nothing behind and a pop that answers nil has taken nothing away.
EveryElementServedOnce ==
    NothingCleared
    => Cardinality(Told({"LPUSH", "RPUSH"}))
         = Cardinality(Told({"LPOP", "RPOP"})) + Cardinality(ListElements)

\* The answers on a connection belong to requests sent on it, in their order,
\* although requests that arrive behind the one being read are lost
\* (server.go:45-61, request.go:11-33).
AnswersInOrder ==
    \A c \in Clients :
        \E at \in [DOMAIN replies[c] -> DOMAIN sent[c]] :
            \A i \in DOMAIN replies[c] :
                /\ replies[c][i].req = sent[c][at[i]]
                /\ \A j \in 1 .. i - 1 : at[j] < at[i]
==============================================================================
