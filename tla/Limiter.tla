------------------------------ MODULE Limiter ------------------------------
(***************************************************************************)
(* The limit on requests of one address at the RPC server (interceptor.go, *)
(* limiter.go): a token bucket per address, kept in a cache of the most    *)
(* recently used ones.  Every request runs in a goroutine of its own; the  *)
(* cache is locked for each look-up and each addition, not for both.       *)
(***************************************************************************)
EXTENDS Integers, Sequences, SequencesExt, FiniteSets, FiniteSetsExt

CONSTANTS Callers,     \* goroutines that serve requests
          Ips,         \* addresses of clients
          whiteListIPs,
          Burst,       \* tokens of a new limiter (1000)
          cacheSize,   \* limiters kept (1000)
          NoIp,        \* a caller that serves no request
          MaxMade,     \* bound: limiters made
          MaxSeconds   \* bound: refills of the buckets, and of expiries

ASSUME LimiterAssumption ==
    /\ whiteListIPs \subseteq Ips /\ NoIp \notin Ips
    /\ IsFiniteSet(Callers)
    /\ {Burst, cacheSize} \subseteq Nat \ {0}
    /\ {MaxMade, MaxSeconds} \subseteq Nat

VARIABLES cache,       \* the addresses with a limiter, [ip, id], oldest use first
          tokens,      \* tokens[l]: what limiter l has left
          request,     \* request[c]: the address whose request c serves
          got,         \* got[c]: "asked", "missed", or the limiter's number
          passed,      \* passed[ip]: history: requests let through to a handler
          dropped,     \* dropped[ip]: history: times the cache lost its limiter
          seconds      \* times the buckets were refilled

lvars == <<cache, tokens, request, got, passed, dropped, seconds>>

LimiterInit ==
    /\ cache = <<>>
    /\ tokens = <<>>
    /\ request = [c \in Callers |-> NoIp]
    /\ got = [c \in Callers |-> 0]
    /\ passed = [ip \in Ips |-> 0]
    /\ dropped = [ip \in Ips |-> 0]
    /\ seconds = 0

Asked  == 0
Missed == -1

\* An address has one entry at most.
Cached(ip)  == \E i \in DOMAIN cache : cache[i].ip = ip
PlaceOf(ip) == CHOOSE i \in DOMAIN cache : cache[i].ip = ip
Without(ip) == IF Cached(ip) THEN RemoveAt(cache, PlaceOf(ip)) ELSE cache

Finished(c) == request' = [request EXCEPT ![c] = NoIp] /\ got' = [got EXCEPT ![c] = Asked]
Handler(ip) == passed' = [passed EXCEPT ![ip] = @ + 1]

\* A request from an address on the list goes straight to its handler, which
\* changes nothing here.
ipInterceptor(c, ip) ==
    /\ request[c] = NoIp
    /\ ip \notin whiteListIPs
    /\ request' = [request EXCEPT ![c] = ip]
    /\ got' = [got EXCEPT ![c] = Asked]
    /\ UNCHANGED <<cache, tokens, passed, dropped, seconds>>

\* The look-up makes the entry the one used last.
GetLimiter(c) ==
    /\ request[c] # NoIp /\ got[c] = Asked
    /\ IF Cached(request[c])
       THEN LET e == cache[PlaceOf(request[c])] IN
            /\ got' = [got EXCEPT ![c] = e.id]
            /\ cache' = Append(Without(request[c]), e)
       ELSE got' = [got EXCEPT ![c] = Missed] /\ UNCHANGED cache
    /\ UNCHANGED <<tokens, request, passed, dropped, seconds>>

\* A wrong form: the new limiter is used and not kept.
AddIPUncached(c) ==
    /\ request[c] # NoIp /\ got[c] = Missed
    /\ Len(tokens) < MaxMade
    /\ tokens' = Append(tokens, Burst)
    /\ got' = [got EXCEPT ![c] = Len(tokens')]
    /\ UNCHANGED <<cache, request, passed, dropped, seconds>>

\* Whether or not another caller has added one meanwhile.  A full cache drops
\* the entry used longest ago for a new address.
AddIP(c) ==
    LET ip   == request[c]
        full == ~Cached(ip) /\ Len(cache) >= cacheSize
        rest == IF full THEN Tail(cache) ELSE Without(ip)
    IN /\ ip # NoIp /\ got[c] = Missed
       /\ Len(tokens) < MaxMade
       /\ tokens' = Append(tokens, Burst)
       /\ cache' = Append(rest, [ip |-> ip, id |-> Len(tokens')])
       /\ dropped' = IF full THEN [dropped EXCEPT ![Head(cache).ip] = @ + 1] ELSE dropped
       /\ got' = [got EXCEPT ![c] = Len(tokens')]
       /\ UNCHANGED <<request, passed, seconds>>

\* Allow, and the handler or the answer that there are too many requests.
Allow(c) ==
    /\ request[c] # NoIp /\ got[c] > 0
    /\ IF tokens[got[c]] > 0
       THEN tokens' = [tokens EXCEPT ![got[c]] = @ - 1] /\ Handler(request[c])
       ELSE UNCHANGED <<tokens, passed>>
    /\ Finished(c)
    /\ UNCHANGED <<cache, dropped, seconds>>

\* Every limiter gets tokens with time.
Refill ==
    /\ seconds < MaxSeconds /\ seconds' = seconds + 1
    /\ tokens' = [l \in DOMAIN tokens |-> IF tokens[l] < Burst THEN tokens[l] + 1 ELSE Burst]
    /\ UNCHANGED <<cache, request, got, passed, dropped>>

\* After 24 hours without one, an address has no limiter any more.
Expire(ip) ==
    /\ Cached(ip)
    /\ dropped[ip] < MaxSeconds
    /\ cache' = Without(ip)
    /\ dropped' = [dropped EXCEPT ![ip] = @ + 1]
    /\ UNCHANGED <<tokens, request, got, passed, seconds>>

LimiterNext ==
    \/ \E c \in Callers :
         \/ \E ip \in Ips : ipInterceptor(c, ip)
         \/ GetLimiter(c) \/ AddIP(c) \/ Allow(c)
    \/ Refill
    \/ \E ip \in Ips : Expire(ip)

LimiterSpec == LimiterInit /\ [][LimiterNext]_lvars

---------------------------------------------------------------------------
\* What an address can get through: the burst and the refills once for every
\* time the cache has lost its limiter, and once for every goroutine that can
\* have missed it at the same time (limiter.go:44-58).
BurstIsBounded ==
    \A ip \in Ips \ whiteListIPs :
        passed[ip] <= (Burst + seconds) * Cardinality(Callers) * (dropped[ip] + 1)
=============================================================================
