---------------------------- MODULE LimiterProofs ----------------------------
(***************************************************************************)
(* What the limit on requests comes to: the proof for any number of        *)
(* addresses, of requests at a time, and any size of the cache.            *)
(*                                                                         *)
(* The cache does not know who has a limiter that it dropped, nor has it   *)
(* been asked for one that is still to be added.  The invariant has both:  *)
(* whose each limiter is and how often it was used (owner, used), and that *)
(* the limiters of an address are at most as many as the callers for each  *)
(* time the cache did not have one.                                        *)
(***************************************************************************)
EXTENDS Limiter, SequenceTheorems, FiniteSetTheorems, TLAPS

Made       == 1 .. Len(tokens)
Slots      == [ip : Ips, id : Made]
Uses       == 1 .. Burst + seconds
Missing(ip) == {c \in Callers : request[c] = ip /\ got[c] = Missed}

LimiterTypes ==
    /\ cache \in Seq(Slots)
    /\ tokens \in Seq(0 .. Burst)
    /\ request \in [Callers -> Ips \cup {NoIp}]
    /\ got \in [Callers -> {Asked, Missed} \cup Made]
    /\ passed \in [Ips -> Nat] /\ dropped \in [Ips -> Nat]
    /\ seconds \in Nat

\* The limiters made for an address, and the requests they let through.
Owned(owner, ip)         == {l \in Made : owner[l] = ip}
Tickets(owner, used, ip) ==
    {u \in Made \X (Nat \ {0}) : owner[u[1]] = ip /\ u[2] <= used[u[1]]}

\* A limiter is used for its address only, and for no more than it had.
UsedFor(owner, used) ==
    /\ owner \in [Made -> Ips] /\ used \in [Made -> Nat]
    /\ \A e \in ToSet(cache) : owner[e.id] = e.ip
    /\ \A c \in Callers : got[c] \in Made => owner[got[c]] = request[c]
    /\ \A l \in Made : tokens[l] + used[l] <= Burst + seconds
    /\ \A ip \in Ips : passed[ip] = Cardinality(Tickets(owner, used, ip))

\* A limiter is made by a caller that has missed one since the cache last lost it.
MadeByMiss(owner) ==
    \A ip \in Ips :
        IF Cached(ip)
        THEN Cardinality(Owned(owner, ip)) + Cardinality(Missing(ip))
                 <= Cardinality(Callers) * (dropped[ip] + 1)
        ELSE Cardinality(Owned(owner, ip)) <= Cardinality(Callers) * dropped[ip]

LimiterInv ==
    /\ LimiterTypes
    /\ \E owner, used : UsedFor(owner, used) /\ MadeByMiss(owner)

---------------------------------------------------------------------------
(* Sizes.                                                                  *)

\* What the cache is without one of its entries.
LEMMA RemoveKeeps ==
  ASSUME NEW S, NEW s \in Seq(S), NEW i \in 1 .. Len(s)
  PROVE  /\ RemoveAt(s, i) \in Seq(S)
         /\ Len(RemoveAt(s, i)) = Len(s) - 1
         /\ \A j \in 1 .. Len(s) - 1 : RemoveAt(s, i)[j] = IF j < i THEN s[j] ELSE s[j + 1]
<1> DEFINE a == SubSeq(s, 1, i - 1)
           b == SubSeq(s, i + 1, Len(s))
<1>1. a \in Seq(S) /\ Len(a) = i - 1 /\ \A j \in 1 .. i - 1 : a[j] = s[j]
  OBVIOUS
<1>2. b \in Seq(S) /\ Len(b) = Len(s) - i /\ \A j \in 1 .. Len(s) - i : b[j] = s[i + j]
  OBVIOUS
<1>3. RemoveAt(s, i) = a \o b
  BY DEF RemoveAt
<1> HIDE DEF a, b
<1> DEFINE n == Len(s)
<1>0. i \in 1 .. n /\ n \in Nat
  OBVIOUS
<1>4. a \o b \in Seq(S) /\ Len(a \o b) = Len(s) - 1
  <2>1. a \o b \in Seq(S) /\ Len(a \o b) = Len(a) + Len(b)
    BY <1>1, <1>2, ConcatProperties
  <2>2. Len(a) + Len(b) = Len(s) - 1
    BY <1>0, <1>1, <1>2
  <2> QED BY <2>1, <2>2
<1>5. \A j \in 1 .. Len(s) - 1 : (a \o b)[j] = IF j < i THEN s[j] ELSE s[j + 1]
  <2> TAKE j \in 1 .. Len(s) - 1
  <2>1. (a \o b)[j] = IF j <= Len(a) THEN a[j] ELSE b[j - Len(a)]
    <3>1. j \in 1 .. Len(a) + Len(b)
      BY <1>0, <1>1, <1>2
    <3> QED BY <1>1, <1>2, <3>1, ConcatProperties
  <2>2. CASE j < i
    BY <1>1, <2>1, <2>2
  <2>3. CASE ~(j < i)
    <3>1. j - (i - 1) \in 1 .. Len(s) - i /\ i + (j - (i - 1)) = j + 1
      BY <2>3, <1>0
    <3> QED BY <1>1, <1>2, <2>1, <2>3, <3>1
  <2> QED BY <1>0, <2>2, <2>3
<1> QED BY <1>3, <1>4, <1>5

\* A function of the first n numbers is a sequence.
LEMMA FunctionIsSeq ==
  ASSUME NEW S, NEW n \in Nat, NEW t \in [1 .. n -> S]
  PROVE  t \in Seq(S) /\ Len(t) = n
<1>1. t \in Seq(S)
  BY SeqDef
<1>2. DOMAIN t = 1 .. n /\ DOMAIN t = 1 .. Len(t) /\ Len(t) \in Nat
  BY <1>1, LenProperties
<1> QED BY <1>1, <1>2

\* Sets of made limiters, of callers and of uses are finite.
LEMMA Sizes ==
  ASSUME LimiterTypes, NEW owner, NEW used, NEW ip
  PROVE  /\ IsFiniteSet(Owned(owner, ip)) /\ Cardinality(Owned(owner, ip)) \in Nat
         /\ IsFiniteSet(Missing(ip)) /\ Cardinality(Missing(ip)) \in Nat
         /\ Cardinality(Missing(ip)) <= Cardinality(Callers)
         /\ UsedFor(owner, used) => /\ Tickets(owner, used, ip) \subseteq Owned(owner, ip) \X Uses
                                    /\ IsFiniteSet(Tickets(owner, used, ip))
         /\ Cardinality(Callers) \in Nat
<1> USE LimiterAssumption
<1>1. IsFiniteSet(Made) /\ IsFiniteSet(Uses)
  BY FS_Interval DEF Made, Uses, LimiterTypes
<1>2. IsFiniteSet(Owned(owner, ip)) /\ Cardinality(Owned(owner, ip)) \in Nat
  BY <1>1, FS_Subset, FS_CardinalityType DEF Owned
<1>3. /\ IsFiniteSet(Missing(ip)) /\ Cardinality(Missing(ip)) \in Nat
      /\ Cardinality(Missing(ip)) <= Cardinality(Callers)
  BY FS_Subset, FS_CardinalityType DEF Missing
<1>4. ASSUME UsedFor(owner, used)
      PROVE  /\ Tickets(owner, used, ip) \subseteq Owned(owner, ip) \X Uses
             /\ IsFiniteSet(Tickets(owner, used, ip))
  <2>1. IsFiniteSet(Owned(owner, ip) \X Uses)
    BY <1>1, <1>2, FS_Product
  <2>2. ASSUME NEW l \in Made, NEW k \in Nat \ {0}, k <= used[l] PROVE k \in Uses
    <3>1. tokens[l] + used[l] <= Burst + seconds
      BY <1>4 DEF UsedFor
    <3>2. tokens[l] \in Nat /\ used[l] \in Nat /\ seconds \in Nat /\ Burst \in Nat
      <4>1. used[l] \in Nat /\ seconds \in Nat /\ tokens \in Seq(0 .. Burst)
        BY <1>4 DEF UsedFor, LimiterTypes
      <4>2. Burst \in Nat
        OBVIOUS
      <4>3. tokens[l] \in 0 .. Burst
        BY <4>1 DEF Made
      <4> QED BY <4>1, <4>2, <4>3
    <3> QED BY <2>2, <3>1, <3>2 DEF Uses
  <2>3. Tickets(owner, used, ip) \subseteq Owned(owner, ip) \X Uses
    BY <2>2 DEF Tickets, Owned
  <2> QED BY <2>1, <2>3, FS_Subset
<1> QED BY <1>2, <1>3, <1>4, FS_CardinalityType

\* The invariant bounds what an address gets through.
LEMMA InvBounds == LimiterInv => BurstIsBounded
<1> USE LimiterAssumption
<1> SUFFICES ASSUME LimiterInv, NEW ip \in Ips \ whiteListIPs
             PROVE  passed[ip] <= (Burst + seconds) * Cardinality(Callers) * (dropped[ip] + 1)
  BY DEF BurstIsBounded
<1>1. PICK owner, used : UsedFor(owner, used) /\ MadeByMiss(owner)
  BY DEF LimiterInv
<1> DEFINE b == Burst + seconds
           m == Cardinality(Owned(owner, ip))
           n == Cardinality(Callers) * (dropped[ip] + 1)
<1>2. LimiterTypes /\ seconds \in Nat /\ b \in Nat /\ dropped[ip] \in Nat
  BY DEF LimiterInv, LimiterTypes
<1>3. m \in Nat /\ Cardinality(Callers) \in Nat /\ Cardinality(Missing(ip)) \in Nat
  BY <1>2, Sizes
<1>4. passed[ip] <= m * b
  <2>1. IsFiniteSet(Uses) /\ Cardinality(Uses) = b
    <3>1. b \in Nat /\ 1 \in Int /\ b \in Int
      BY <1>2
    <3>2. Cardinality(1 .. b) = b /\ IsFiniteSet(1 .. b)
      <4> HIDE DEF b
      <4>1. /\ IsFiniteSet(1 .. b)
            /\ Cardinality(1 .. b) = IF 1 > b THEN 0 ELSE b - 1 + 1
        BY <3>1, FS_Interval
      <4> QED BY <3>1, <4>1
    <3> QED BY <3>2 DEF Uses
  <2>2. IsFiniteSet(Owned(owner, ip))
    BY <1>2, Sizes
  <2>3. /\ IsFiniteSet(Owned(owner, ip) \X Uses)
        /\ Cardinality(Owned(owner, ip) \X Uses) = m * b
    BY <2>1, <2>2, FS_Product
  <2>4. Tickets(owner, used, ip) \subseteq Owned(owner, ip) \X Uses
    BY <1>1, <1>2, Sizes
  <2>5. Cardinality(Tickets(owner, used, ip)) <= m * b
    BY <2>3, <2>4, FS_Subset
  <2> QED BY <1>1, <2>5 DEF UsedFor
<1>5. m <= n
  <2>1. CASE Cached(ip)
    BY <1>1, <1>2, <1>3, <2>1 DEF MadeByMiss
  <2>2. CASE ~Cached(ip)
    <3>1. m <= Cardinality(Callers) * dropped[ip]
      BY <1>1, <2>2 DEF MadeByMiss
    <3>2. n = Cardinality(Callers) * dropped[ip] + Cardinality(Callers)
      BY <1>2, <1>3
    <3> HIDE DEF m, n
    <3>3. Cardinality(Callers) * dropped[ip] \in Nat
      BY <1>2, <1>3
    <3> QED BY <1>3, <3>1, <3>2, <3>3
  <2> QED BY <2>1, <2>2
<1>6. n \in Nat /\ passed[ip] \in Nat
  <2>1. passed[ip] \in Nat
    BY <1>2 DEF LimiterTypes
  <2>2. n \in Nat
    BY <1>2, <1>3
  <2> QED BY <2>1, <2>2
<1>7. (Burst + seconds) * Cardinality(Callers) * (dropped[ip] + 1) = n * b
  <2>1. \A x, y, z \in Nat : x * y * z = (y * z) * x
    OBVIOUS
  <2> QED BY <2>1, <1>2, <1>3
<1> HIDE DEF b, m, n
<1>8. \A x, y, z \in Nat : x <= y => x * z <= y * z
  OBVIOUS
<1>9. m * b <= n * b
  BY <1>2, <1>3, <1>5, <1>6, <1>8
<1>10. m * b \in Nat /\ n * b \in Nat
  BY <1>2, <1>3, <1>6
<1> QED BY <1>4, <1>6, <1>7, <1>9, <1>10

---------------------------------------------------------------------------
(* The cache.                                                              *)

\* What goes when an address is taken out.
LEMMA WithoutKeeps ==
  ASSUME LimiterTypes, NEW ip, Cached(ip)
  PROVE  /\ cache[PlaceOf(ip)] \in ToSet(cache) /\ cache[PlaceOf(ip)].ip = ip
         /\ Without(ip) \in Seq(Slots)
         /\ ToSet(Without(ip)) \subseteq ToSet(cache)
         /\ \A e \in ToSet(cache) : e.ip # ip => e \in ToSet(Without(ip))
<1> DEFINE i == PlaceOf(ip)
           r == RemoveAt(cache, i)
           n == Len(cache)
<1>1. i \in DOMAIN cache /\ cache[i].ip = ip
  BY DEF Cached, PlaceOf
<1>2. cache \in Seq(Slots) /\ n \in Nat /\ i \in 1 .. n /\ DOMAIN cache = 1 .. n
  BY <1>1 DEF LimiterTypes
<1>3. Without(ip) = r
  BY DEF Without
<1> HIDE DEF i
<1>4. /\ r \in Seq(Slots) /\ Len(r) = n - 1
      /\ \A j \in 1 .. n - 1 : r[j] = IF j < i THEN cache[j] ELSE cache[j + 1]
  BY <1>2, RemoveKeeps
<1> HIDE DEF r
<1>5. DOMAIN r = 1 .. n - 1
  BY <1>4
<1>6. ToSet(r) \subseteq ToSet(cache)
  <2> SUFFICES ASSUME NEW j \in 1 .. n - 1 PROVE r[j] \in ToSet(cache)
    BY <1>5 DEF ToSet
  <2>1. j \in 1 .. n /\ j + 1 \in 1 .. n
    BY <1>2
  <2> QED BY <1>2, <1>4, <2>1 DEF ToSet
<1>7. ASSUME NEW k \in 1 .. n, cache[k].ip # ip PROVE cache[k] \in ToSet(r)
  <2>1. CASE k < i
    <3>1. k \in 1 .. n - 1 /\ r[k] = cache[k]
      BY <1>2, <1>4, <2>1
    <3> QED BY <1>5, <3>1 DEF ToSet
  <2>2. CASE k > i
    <3>1. k - 1 \in 1 .. n - 1 /\ ~(k - 1 < i) /\ (k - 1) + 1 = k
      BY <1>2, <2>2
    <3>2. r[k - 1] = cache[k]
      BY <1>4, <3>1
    <3> QED BY <1>5, <3>1, <3>2 DEF ToSet
  <2>3. k # i
    BY <1>1, <1>7
  <2> QED BY <1>2, <2>1, <2>2, <2>3
<1> QED BY <1>1, <1>2, <1>3, <1>4, <1>6, <1>7 DEF ToSet, i

\* What a new entry at the end and the loss of the first one make of a sequence.
LEMMA EndsOf ==
  ASSUME NEW S, NEW s \in Seq(S), NEW e \in S
  PROVE  /\ Append(s, e) \in Seq(S) /\ ToSet(Append(s, e)) = ToSet(s) \cup {e}
         /\ s # <<>> => /\ Tail(s) \in Seq(S) /\ Head(s) \in ToSet(s)
                        /\ ToSet(s) = {Head(s)} \cup ToSet(Tail(s))
<1> DEFINE n == Len(s)
<1>1. n \in Nat /\ DOMAIN s = 1 .. n
  OBVIOUS
<1>2. /\ Append(s, e) \in Seq(S) /\ DOMAIN Append(s, e) = 1 .. n + 1
      /\ \A i \in 1 .. n + 1 : Append(s, e)[i] = IF i = n + 1 THEN e ELSE s[i]
  OBVIOUS
<1>3. ToSet(Append(s, e)) = ToSet(s) \cup {e}
  <2>1. ToSet(Append(s, e)) \subseteq ToSet(s) \cup {e}
    BY <1>1, <1>2 DEF ToSet
  <2>2. e \in ToSet(Append(s, e))
    <3>1. n + 1 \in 1 .. n + 1
      BY <1>1
    <3> QED BY <1>2, <3>1 DEF ToSet
  <2>3. ASSUME NEW i \in 1 .. n PROVE s[i] \in ToSet(Append(s, e))
    <3>1. i \in 1 .. n + 1 /\ i # n + 1
      BY <1>1
    <3> QED BY <1>2, <3>1 DEF ToSet
  <2> QED BY <1>1, <2>1, <2>2, <2>3 DEF ToSet
<1>4. ASSUME s # <<>>
      PROVE  /\ Tail(s) \in Seq(S) /\ Head(s) \in ToSet(s)
             /\ ToSet(s) = {Head(s)} \cup ToSet(Tail(s))
  <2>1. /\ n # 0 /\ Tail(s) \in Seq(S) /\ DOMAIN Tail(s) = 1 .. n - 1
        /\ \A i \in 1 .. n - 1 : Tail(s)[i] = s[i + 1]
        /\ Head(s) = s[1]
    BY <1>4
  <2>2. 1 \in 1 .. n
    BY <1>1, <2>1
  <2>3. ASSUME NEW i \in 1 .. n, i # 1 PROVE s[i] \in ToSet(Tail(s))
    <3>1. i - 1 \in 1 .. n - 1 /\ (i - 1) + 1 = i
      BY <1>1, <2>3
    <3> QED BY <2>1, <3>1 DEF ToSet
  <2>4. ASSUME NEW i \in 1 .. n - 1 PROVE Tail(s)[i] \in ToSet(s)
    <3>1. i + 1 \in 1 .. n
      BY <1>1
    <3> QED BY <1>1, <2>1, <3>1 DEF ToSet
  <2> QED BY <1>1, <2>1, <2>2, <2>3, <2>4 DEF ToSet
<1> QED BY <1>2, <1>3, <1>4

---------------------------------------------------------------------------
(* The steps.                                                              *)

\* A step that makes no limiter keeps the bound on their number, if whoever
\* joins those that missed an address does so while the cache has none.
LEMMA SameMade ==
  ASSUME LimiterTypes, LimiterTypes', NEW owner, MadeByMiss(owner), Made' = Made,
         \A ip \in Ips :
            /\ dropped'[ip] \in {dropped[ip], dropped[ip] + 1}
            /\ dropped'[ip] = dropped[ip] =>
                  /\ Cached(ip)' <=> Cached(ip)
                  /\ Cached(ip) => Missing(ip)' \subseteq Missing(ip)
            /\ dropped'[ip] # dropped[ip] =>
                  Cached(ip) /\ Missing(ip)' \subseteq Missing(ip)
  PROVE  MadeByMiss(owner)'
<1> SUFFICES ASSUME NEW ip \in Ips
             PROVE  IF Cached(ip)'
                    THEN Cardinality(Owned(owner, ip)') + Cardinality(Missing(ip)')
                           <= Cardinality(Callers) * (dropped'[ip] + 1)
                    ELSE Cardinality(Owned(owner, ip)') <= Cardinality(Callers) * dropped'[ip]
  BY Zenon DEF MadeByMiss
<1> DEFINE o == Cardinality(Owned(owner, ip))
           m == Cardinality(Missing(ip))
           m2 == Cardinality(Missing(ip)')
           c == Cardinality(Callers)
           d == dropped[ip]
<1>1. Owned(owner, ip)' = Owned(owner, ip)
  BY DEF Owned
<1>2. /\ o \in Nat /\ m \in Nat /\ c \in Nat /\ d \in Nat
      /\ IsFiniteSet(Missing(ip)) /\ m <= c
  BY Sizes DEF LimiterTypes
<1>3. m2 \in Nat /\ m2 <= c
  <2>1. IsFiniteSet(Callers) /\ Missing(ip)' \subseteq Callers
    BY LimiterAssumption DEF Missing
  <2> QED BY <2>1, FS_Subset, FS_CardinalityType
<1>4. Missing(ip)' \subseteq Missing(ip) => m2 <= m
  BY <1>2, FS_Subset
<1>5. IF Cached(ip) THEN o + m <= c * (d + 1) ELSE o <= c * d
  BY DEF MadeByMiss
<1> DEFINE p == c * d
<1>6. c * (d + 1) = p + c /\ c * (d + 1 + 1) = p + c + c /\ p \in Nat
  BY <1>2
<1>7. dropped'[ip] \in {d, d + 1}
  OBVIOUS
<1>8. CASE dropped'[ip] = d
  <2>1. Cached(ip)' <=> Cached(ip)
    BY <1>8
  <2>2. CASE Cached(ip)
    <3>1. m2 <= m
      BY <1>4, <1>8, <2>2
    <3> HIDE DEF o, m, m2, c, d, p
    <3>2. o + m2 <= c * (d + 1)
      BY <1>2, <1>3, <1>5, <1>6, <2>2, <3>1
    <3> QED BY <1>1, <1>8, <2>1, <2>2, <3>2 DEF o, m2, c
  <2>3. CASE ~Cached(ip)
    BY <1>1, <1>5, <1>8, <2>1, <2>3
  <2> QED BY <2>2, <2>3
<1>9. CASE dropped'[ip] # d
  <2>1. Cached(ip) /\ m2 <= m /\ dropped'[ip] = d + 1
    BY <1>4, <1>7, <1>9
  <2> HIDE DEF o, m, m2, c, d, p
  <2>2. o + m2 <= c * (d + 1 + 1) /\ o <= c * (d + 1)
    BY <1>2, <1>3, <1>5, <1>6, <2>1
  <2> QED BY <1>1, <2>1, <2>2 DEF o, m2, c
<1> QED BY <1>8, <1>9

\* A step that makes no limiter and lets no request through.
LEMMA SameUse ==
  ASSUME LimiterTypes, LimiterTypes', NEW owner, NEW used, UsedFor(owner, used),
         Made' = Made, passed' = passed,
         \A l \in Made : tokens'[l] + seconds <= tokens[l] + seconds',
         ToSet(cache') \subseteq ToSet(cache),
         \A c \in Callers : got'[c] \in Made => owner[got'[c]] = request'[c]
  PROVE  UsedFor(owner, used)'
<1>1. \A ip \in Ips : Tickets(owner, used, ip)' = Tickets(owner, used, ip)
  BY DEF Tickets
<1>2. \A l \in Made : tokens'[l] + used[l] <= Burst + seconds'
  <2> TAKE l \in Made
  <2>1. tokens[l] + used[l] <= Burst + seconds /\ used[l] \in Nat
    BY DEF UsedFor
  <2>2. /\ tokens \in Seq(0 .. Burst) /\ tokens' \in Seq(0 .. Burst)
        /\ seconds \in Nat /\ seconds' \in Nat /\ Len(tokens') = Len(tokens)
    BY DEF LimiterTypes, Made
  <2>3. Burst \in Nat
    BY LimiterAssumption
  <2>4. l \in 1 .. Len(tokens) /\ l \in 1 .. Len(tokens')
    BY <2>2 DEF Made
  <2>5. tokens[l] \in 0 .. Burst
    BY <2>2, <2>3, <2>4
  <2>6. tokens'[l] \in 0 .. Burst
    BY <2>2, <2>3, <2>4
  <2>7. tokens'[l] + seconds <= tokens[l] + seconds'
    OBVIOUS
  <2> DEFINE t == tokens[l]
             u == used[l]
             v == tokens'[l]
             x == seconds'
  <2>8. /\ t \in Int /\ u \in Int /\ v \in Int /\ x \in Int /\ seconds \in Int /\ Burst \in Int
        /\ t + u <= Burst + seconds /\ v + seconds <= t + x
    BY <2>1, <2>2, <2>3, <2>5, <2>6, <2>7
  <2>9. v + u <= Burst + x
    <3> HIDE DEF t, u, v, x
    <3> QED BY <2>8
  <2> QED BY <2>9
<1>3. /\ owner \in [Made' -> Ips] /\ used \in [Made' -> Nat]
      /\ \A e \in ToSet(cache') : owner[e.id] = e.ip
      /\ \A c \in Callers : got'[c] \in Made' => owner[got'[c]] = request'[c]
  BY DEF UsedFor
<1>4. \A ip \in Ips : passed'[ip] = Cardinality(Tickets(owner, used, ip)')
  BY <1>1 DEF UsedFor
<1> QED BY <1>2, <1>3, <1>4 DEF UsedFor

\* A request arrives.
LEMMA ArriveKeeps ==
  ASSUME LimiterInv, NEW c \in Callers, NEW ip \in Ips, ipInterceptor(c, ip)
  PROVE  LimiterInv'
<1> USE DEF ipInterceptor
<1>1. LimiterTypes'
  BY DEF LimiterInv, LimiterTypes, Made, Slots
<1>2. PICK owner, used : UsedFor(owner, used) /\ MadeByMiss(owner)
  BY DEF LimiterInv
<1>3. Made' = Made /\ LimiterTypes
  BY DEF Made, LimiterInv
<1>4. ASSUME NEW x \in Ips PROVE (Cached(x)' <=> Cached(x)) /\ Missing(x)' \subseteq Missing(x)
  BY DEF Cached, Missing, Asked, Missed, LimiterInv, LimiterTypes
<1>5. MadeByMiss(owner)'
  BY <1>1, <1>2, <1>3, <1>4, SameMade
<1>6. UsedFor(owner, used)'
  <2>1. ASSUME NEW d \in Callers, got'[d] \in Made PROVE owner[got'[d]] = request'[d]
    BY <1>2, <1>3, <2>1 DEF UsedFor, LimiterTypes, Made, Asked
  <2>2. \A l \in Made : tokens'[l] + seconds <= tokens[l] + seconds'
    <3> TAKE l \in Made
    <3>1. tokens[l] \in 0 .. Burst /\ seconds \in Nat
      BY <1>3, LimiterAssumption DEF LimiterTypes, Made
    <3> QED BY <3>1
  <2> QED BY <1>1, <1>2, <1>3, <2>1, <2>2, SameUse
<1> QED BY <1>1, <1>5, <1>6 DEF LimiterInv

\* A caller looks for a limiter.
LEMMA GetKeeps ==
  ASSUME LimiterInv, NEW c \in Callers, GetLimiter(c)
  PROVE  LimiterInv'
<1> DEFINE ip == request[c]
<1>1. PICK owner, used : UsedFor(owner, used) /\ MadeByMiss(owner)
  BY DEF LimiterInv
<1>2. /\ LimiterTypes /\ ip \in Ips /\ Made' = Made
      /\ UNCHANGED <<tokens, request, passed, dropped, seconds>>
  BY DEF LimiterInv, LimiterTypes, GetLimiter, Made
<1>3. \A l \in Made : tokens'[l] + seconds <= tokens[l] + seconds'
  <2> TAKE l \in Made
  <2>1. tokens[l] \in 0 .. Burst /\ seconds \in Nat
    BY <1>2, LimiterAssumption DEF LimiterTypes, Made
  <2> QED BY <1>2, <2>1
<1>4. CASE Cached(ip)
  <2> DEFINE e == cache[PlaceOf(ip)]
  <2>1. /\ got' = [got EXCEPT ![c] = e.id]
        /\ cache' = Append(Without(ip), e)
    BY <1>4 DEF GetLimiter
  <2>2. /\ e \in ToSet(cache) /\ e.ip = ip
        /\ Without(ip) \in Seq(Slots)
        /\ ToSet(Without(ip)) \subseteq ToSet(cache)
        /\ \A x \in ToSet(cache) : x.ip # ip => x \in ToSet(Without(ip))
    BY <1>2, <1>4, WithoutKeeps
  <2>3. e \in Slots /\ e.id \in Made
    <3>1. e \in Slots
      BY <1>2, <2>2, ElementOfSeq DEF ToSet, LimiterTypes
    <3> QED BY <3>1 DEF Slots
  <2> HIDE DEF e
  <2>4. cache' \in Seq(Slots) /\ ToSet(cache') = ToSet(Without(ip)) \cup {e}
    BY <2>1, <2>2, <2>3, EndsOf
  <2>5. LimiterTypes'
    BY <1>2, <2>1, <2>3, <2>4 DEF LimiterTypes, Slots
  <2>6. \A x \in Ips : Cached(x)' <=> Cached(x)
    <3> TAKE x \in Ips
    <3>1. Cached(x) <=> \E y \in ToSet(cache) : y.ip = x
      BY DEF Cached, ToSet
    <3>2. Cached(x)' <=> \E y \in ToSet(cache') : y.ip = x
      BY DEF Cached, ToSet
    <3> QED BY <2>2, <2>4, <3>1, <3>2
  <2>7. \A x \in Ips : Missing(x)' \subseteq Missing(x)
    <3>1. \A d \in Callers : got'[d] = Missed => got[d] = Missed
      BY <1>2, <2>1, <2>3 DEF LimiterTypes, Missed, Made
    <3> QED BY <1>2, <3>1 DEF Missing
  <2>8. MadeByMiss(owner)'
    BY <1>1, <1>2, <2>5, <2>6, <2>7, SameMade
  <2>9. \A d \in Callers : got'[d] \in Made => owner[got'[d]] = request'[d]
    <3>1. owner[e.id] = ip
      BY <1>1, <2>2 DEF UsedFor
    <3> QED BY <1>1, <1>2, <2>1, <3>1 DEF UsedFor, LimiterTypes
  <2>10. UsedFor(owner, used)'
    BY <1>1, <1>2, <1>3, <2>2, <2>4, <2>5, <2>9, SameUse
  <2> QED BY <2>5, <2>8, <2>10 DEF LimiterInv
<1>5. CASE ~Cached(ip)
  <2>1. got' = [got EXCEPT ![c] = Missed] /\ cache' = cache
    BY <1>5 DEF GetLimiter
  <2>2. LimiterTypes'
    BY <1>2, <2>1 DEF LimiterTypes, Slots
  <2>3. \A x \in Ips : Cached(x)' <=> Cached(x)
    BY <2>1 DEF Cached
  <2>4. \A x \in Ips : Cached(x) => Missing(x)' \subseteq Missing(x)
    BY <1>2, <1>5, <2>1 DEF Missing, LimiterTypes
  <2>5. MadeByMiss(owner)'
    BY <1>1, <1>2, <2>2, <2>3, <2>4, SameMade
  <2>6. \A d \in Callers : got'[d] \in Made => owner[got'[d]] = request'[d]
    BY <1>1, <1>2, <2>1 DEF UsedFor, LimiterTypes, Missed, Made
  <2>7. UsedFor(owner, used)'
    BY <1>1, <1>2, <1>3, <2>1, <2>2, <2>6, SameUse
  <2> QED BY <2>2, <2>5, <2>7 DEF LimiterInv
<1> QED BY <1>4, <1>5

\* The buckets get tokens.
LEMMA RefillKeeps ==
  ASSUME LimiterInv, Refill
  PROVE  LimiterInv'
<1>1. PICK owner, used : UsedFor(owner, used) /\ MadeByMiss(owner)
  BY DEF LimiterInv
<1>2. /\ LimiterTypes /\ seconds' = seconds + 1 /\ seconds \in Nat
      /\ tokens' = [l \in Made |-> IF tokens[l] < Burst THEN tokens[l] + 1 ELSE Burst]
      /\ UNCHANGED <<cache, request, got, passed, dropped>>
  BY DEF LimiterInv, LimiterTypes, Refill, Made
<1>3. \A l \in Made : tokens[l] \in 0 .. Burst
  BY <1>2, LimiterAssumption DEF LimiterTypes, Made
<1>4. \A l \in Made : tokens'[l] \in 0 .. Burst /\ tokens'[l] + seconds <= tokens[l] + seconds'
  BY <1>2, <1>3, LimiterAssumption
<1>5. Len(tokens) \in Nat
  BY <1>2 DEF LimiterTypes
<1>6. tokens' \in Seq(0 .. Burst) /\ Len(tokens') = Len(tokens)
  <2>1. DOMAIN tokens' = 1 .. Len(tokens)
    BY <1>2 DEF Made
  <2>2. tokens' \in [1 .. Len(tokens) -> 0 .. Burst]
    BY <1>2, <1>4, <2>1 DEF Made
  <2> QED BY <1>5, <2>2, FunctionIsSeq
<1>7. Made' = Made
  BY <1>6 DEF Made
<1>8. LimiterTypes'
  <2>1. /\ cache' \in Seq(Slots) /\ got' \in [Callers -> {Asked, Missed} \cup Made]
        /\ request' \in [Callers -> Ips \cup {NoIp}]
        /\ passed' \in [Ips -> Nat] /\ dropped' \in [Ips -> Nat] /\ seconds' \in Nat
    BY <1>2 DEF LimiterTypes
  <2>2. Slots' = Slots
    BY <1>7 DEF Slots
  <2> QED BY <1>6, <1>7, <2>1, <2>2 DEF LimiterTypes
<1>9. MadeByMiss(owner)'
  <2>1. \A x \in Ips : (Cached(x)' <=> Cached(x)) /\ Missing(x)' = Missing(x)
    BY <1>2 DEF Cached, Missing
  <2> QED BY <1>1, <1>2, <1>7, <1>8, <2>1, SameMade
<1>10. UsedFor(owner, used)'
  <2>1. \A d \in Callers : got'[d] \in Made => owner[got'[d]] = request'[d]
    BY <1>1, <1>2 DEF UsedFor
  <2> QED BY <1>1, <1>2, <1>4, <1>7, <1>8, <2>1, SameUse
<1> QED BY <1>8, <1>9, <1>10 DEF LimiterInv

\* The cache loses an address after a day.
LEMMA ExpireKeeps ==
  ASSUME LimiterInv, NEW ip \in Ips, Expire(ip)
  PROVE  LimiterInv'
<1>1. PICK owner, used : UsedFor(owner, used) /\ MadeByMiss(owner)
  BY DEF LimiterInv
<1>2. /\ LimiterTypes /\ Made' = Made /\ Cached(ip) /\ cache' = Without(ip)
      /\ dropped' = [dropped EXCEPT ![ip] = @ + 1]
      /\ UNCHANGED <<tokens, request, got, passed, seconds>>
  BY DEF LimiterInv, Expire, Made
<1>3. /\ Without(ip) \in Seq(Slots)
      /\ ToSet(Without(ip)) \subseteq ToSet(cache)
      /\ \A x \in ToSet(cache) : x.ip # ip => x \in ToSet(Without(ip))
  BY <1>2, WithoutKeeps
<1>4. LimiterTypes'
  <2>1. Slots' = Slots
    BY <1>2 DEF Slots
  <2> QED BY <1>2, <1>3, <2>1 DEF LimiterTypes
<1>5. ASSUME NEW x \in Ips, x # ip PROVE Cached(x)' <=> Cached(x)
  <2>1. Cached(x) <=> \E y \in ToSet(cache) : y.ip = x
    BY DEF Cached, ToSet
  <2>2. Cached(x)' <=> \E y \in ToSet(cache') : y.ip = x
    BY DEF Cached, ToSet
  <2> QED BY <1>2, <1>3, <1>5, <2>1, <2>2
<1>6. \A x \in Ips : Missing(x)' = Missing(x)
  BY <1>2 DEF Missing
<1>7. MadeByMiss(owner)'
  <2>1. \A x \in Ips : dropped'[x] = IF x = ip THEN dropped[x] + 1 ELSE dropped[x]
    BY <1>2 DEF LimiterTypes
  <2>2. \A x \in Ips : dropped[x] \in Nat
    BY <1>2 DEF LimiterTypes
  <2>3. dropped'[ip] # dropped[ip]
    BY <2>1, <2>2
  <2> QED BY <1>1, <1>2, <1>4, <1>5, <1>6, <2>1, <2>3, SameMade
<1>8. UsedFor(owner, used)'
  <2>1. \A d \in Callers : got'[d] \in Made => owner[got'[d]] = request'[d]
    BY <1>1, <1>2 DEF UsedFor
  <2>2. \A l \in Made : tokens'[l] + seconds <= tokens[l] + seconds'
    <3> TAKE l \in Made
    <3>1. tokens[l] \in 0 .. Burst /\ seconds \in Nat
      BY <1>2, LimiterAssumption DEF LimiterTypes, Made
    <3> QED BY <1>2, <3>1
  <2> QED BY <1>1, <1>2, <1>3, <1>4, <2>1, <2>2, SameUse
<1> QED BY <1>4, <1>7, <1>8 DEF LimiterInv

\* A request takes a token, or is refused.
LEMMA AllowKeeps ==
  ASSUME LimiterInv, NEW c \in Callers, Allow(c)
  PROVE  LimiterInv'
<1> DEFINE ip == request[c]
           l == got[c]
<1>1. PICK owner, used : UsedFor(owner, used) /\ MadeByMiss(owner)
  BY DEF LimiterInv
<1>2. /\ LimiterTypes /\ ip \in Ips /\ l \in Made
      /\ request' = [request EXCEPT ![c] = NoIp] /\ got' = [got EXCEPT ![c] = Asked]
      /\ UNCHANGED <<cache, dropped, seconds>>
  BY DEF LimiterInv, LimiterTypes, Allow, Finished, Asked, Missed
<1>3. owner[l] = ip /\ used[l] \in Nat /\ tokens[l] + used[l] <= Burst + seconds
  BY <1>1, <1>2 DEF UsedFor
<1>4. /\ tokens \in Seq(0 .. Burst) /\ Burst \in Nat /\ seconds \in Nat
      /\ tokens[l] \in 0 .. Burst /\ l \in 1 .. Len(tokens)
  BY <1>2, LimiterAssumption DEF LimiterTypes, Made
<1>5. \A x \in Ips : (Cached(x)' <=> Cached(x)) /\ Missing(x)' \subseteq Missing(x)
  BY <1>2 DEF Cached, Missing, Asked, Missed, LimiterTypes
<1>6. ASSUME NEW d \in Callers, got'[d] \in Made PROVE owner[got'[d]] = request'[d]
  BY <1>1, <1>2, <1>6 DEF UsedFor, LimiterTypes, Made, Asked
<1>7. CASE tokens[l] > 0
  <2>1. tokens' = [tokens EXCEPT ![l] = @ - 1] /\ passed' = [passed EXCEPT ![ip] = @ + 1]
    BY <1>7 DEF Allow, Handler
  <2>2. /\ tokens' \in Seq(0 .. Burst) /\ Len(tokens') = Len(tokens)
        /\ \A k \in Made : tokens'[k] = IF k = l THEN tokens[l] - 1 ELSE tokens[k]
    <3>1. tokens[l] - 1 \in 0 .. Burst
      BY <1>4, <1>7
    <3>2. tokens' = [tokens EXCEPT ![l] = tokens[l] - 1]
      BY <1>4, <2>1
    <3> QED BY <1>4, <3>1, <3>2, ExceptSeq DEF Made
  <2>3. Made' = Made
    BY <2>2 DEF Made
  <2>4. LimiterTypes'
    <3>1. Slots' = Slots
      BY <2>3 DEF Slots
    <3>2. passed' \in [Ips -> Nat]
      BY <1>2, <2>1 DEF LimiterTypes
    <3> QED BY <1>2, <2>2, <2>3, <3>1, <3>2 DEF LimiterTypes
  <2>5. MadeByMiss(owner)'
    BY <1>1, <1>2, <1>5, <2>3, <2>4, SameMade
  <2> DEFINE ticket == <<l, used[l] + 1>>
  <2>6. PICK more \in [Made -> Nat] :
          \A k \in Made : more[k] = IF k = l THEN used[l] + 1 ELSE used[k]
    <3>1. [k \in Made |-> IF k = l THEN used[l] + 1 ELSE used[k]] \in [Made -> Nat]
      BY <1>1, <1>2, <1>3 DEF UsedFor
    <3> QED BY <3>1
  <2>7. ASSUME NEW x \in Ips
        PROVE  Tickets(owner, more, x)' =
                 Tickets(owner, used, x) \cup (IF x = ip THEN {ticket} ELSE {})
    <3> HIDE DEF ticket
    <3>1. ASSUME NEW u \in Made \X (Nat \ {0})
          PROVE  u[2] <= more[u[1]] <=> u[2] <= used[u[1]] \/ u = ticket
      <4>1. u[1] \in Made /\ u[2] \in Nat /\ used[u[1]] \in Nat /\ u = <<u[1], u[2]>>
        BY <1>1 DEF UsedFor
      <4>2. CASE u[1] = l
        BY <1>3, <2>6, <4>1, <4>2 DEF ticket
      <4>3. CASE u[1] # l
        BY <2>6, <4>1, <4>3 DEF ticket
      <4> QED BY <4>2, <4>3
    <3>2. ticket \in Made \X (Nat \ {0}) /\ owner[ticket[1]] = ip
      BY <1>2, <1>3 DEF ticket
    <3>3. Tickets(owner, more, x)' =
            {u \in Made \X (Nat \ {0}) : owner[u[1]] = x /\ u[2] <= more[u[1]]}
      BY <2>3 DEF Tickets
    <3>4. owner[l] \in Ips /\ ticket[1] = l
      BY <1>2, <1>3 DEF ticket
    <3>5. ASSUME NEW u
          PROVE  u \in Tickets(owner, more, x)' <=>
                   u \in Tickets(owner, used, x) \/ (x = ip /\ u = ticket)
      <4>1. CASE u \in Made \X (Nat \ {0})
        BY <1>3, <3>1, <3>2, <3>3, <3>4, <4>1 DEF Tickets
      <4>2. CASE u \notin Made \X (Nat \ {0})
        BY <3>2, <3>3, <4>2 DEF Tickets
      <4> QED BY <4>1, <4>2
    <3> QED BY <3>5
  <2>8. ASSUME NEW x \in Ips PROVE passed'[x] = Cardinality(Tickets(owner, more, x)')
    <3>1. /\ IsFiniteSet(Tickets(owner, used, x))
          /\ passed[x] = Cardinality(Tickets(owner, used, x))
      BY <1>1, <1>2, Sizes DEF UsedFor
    <3>2. ticket \notin Tickets(owner, used, x)
      BY <1>3 DEF Tickets
    <3>3. passed'[x] = IF x = ip THEN passed[x] + 1 ELSE passed[x]
      BY <1>2, <2>1 DEF LimiterTypes
    <3> HIDE DEF ticket, ip
    <3>4. CASE x = ip
      <4>1. Cardinality(Tickets(owner, used, x) \cup {ticket}) = passed[x] + 1
        BY <3>1, <3>2, FS_AddElement
      <4> QED BY <2>7, <3>3, <3>4, <4>1
    <3>5. CASE x # ip
      BY <2>7, <3>1, <3>3, <3>5
    <3> QED BY <3>4, <3>5
  <2>9. ASSUME NEW k \in Made PROVE tokens'[k] + more[k] <= Burst + seconds'
    <3>1. CASE k = l
      <4>1. tokens'[k] = tokens[l] - 1 /\ more[k] = used[l] + 1 /\ seconds' = seconds
        BY <1>2, <2>2, <2>6, <3>1
      <4>2. tokens[l] \in Int
        BY <1>4
      <4> HIDE DEF l
      <4> QED BY <1>3, <1>4, <4>1, <4>2
    <3>2. CASE k # l
      BY <1>1, <1>2, <2>2, <2>6, <3>2 DEF UsedFor
    <3> QED BY <3>1, <3>2
  <2>10. UsedFor(owner, more)'
    <3>1. owner \in [Made' -> Ips] /\ more \in [Made' -> Nat]
      BY <1>1, <2>3, <2>6 DEF UsedFor
    <3>2. \A e \in ToSet(cache') : owner[e.id] = e.ip
      BY <1>1, <1>2 DEF UsedFor
    <3>3. \A d \in Callers : got'[d] \in Made' => owner[got'[d]] = request'[d]
      BY <1>6, <2>3
    <3>4. \A k \in Made' : tokens'[k] + more[k] <= Burst + seconds'
      BY <2>3, <2>9
    <3> HIDE DEF ip
    <3>5. \A x \in Ips : passed'[x] = Cardinality(Tickets(owner, more, x)')
      BY <2>8
    <3> QED BY <3>1, <3>2, <3>3, <3>4, <3>5 DEF UsedFor
  <2> QED BY <2>4, <2>5, <2>10 DEF LimiterInv
<1>8. CASE ~(tokens[l] > 0)
  <2>1. tokens' = tokens /\ passed' = passed
    BY <1>8 DEF Allow
  <2>2. Made' = Made /\ LimiterTypes'
    BY <1>2, <2>1 DEF LimiterTypes, Made, Slots
  <2>3. MadeByMiss(owner)'
    BY <1>1, <1>2, <1>5, <2>2, SameMade
  <2>4. \A k \in Made : tokens'[k] + seconds <= tokens[k] + seconds'
    <3> TAKE k \in Made
    <3>1. tokens[k] \in 0 .. Burst
      BY <1>4 DEF Made
    <3> QED BY <1>2, <1>4, <2>1, <3>1
  <2>5. UsedFor(owner, used)'
    BY <1>1, <1>2, <1>6, <2>1, <2>2, <2>4, SameUse
  <2> QED BY <2>2, <2>3, <2>5 DEF LimiterInv
<1> QED BY <1>7, <1>8

\* A caller adds the limiter it has missed.
LEMMA AddKeeps ==
  ASSUME LimiterInv, NEW c \in Callers, AddIP(c)
  PROVE  LimiterInv'
<1> DEFINE ip == request[c]
           n == Len(tokens)
           full == ~Cached(ip) /\ Len(cache) >= cacheSize
           rest == IF full THEN Tail(cache) ELSE Without(ip)
           e == [ip |-> ip, id |-> n + 1]
<1>1. PICK owner, used : UsedFor(owner, used) /\ MadeByMiss(owner)
  BY DEF LimiterInv
<1>2. /\ LimiterTypes /\ ip \in Ips /\ got[c] = Missed /\ n \in Nat /\ tokens \in Seq(0 .. Burst)
      /\ tokens' = Append(tokens, Burst)
      /\ dropped' = IF full THEN [dropped EXCEPT ![Head(cache).ip] = @ + 1] ELSE dropped
      /\ UNCHANGED <<request, passed, seconds>>
      /\ Burst \in Nat \ {0} /\ cacheSize \in Nat \ {0} /\ seconds \in Nat
  BY LimiterAssumption DEF LimiterInv, LimiterTypes, AddIP
<1>3. /\ tokens' \in Seq(0 .. Burst) /\ Len(tokens') = n + 1
      /\ \A l \in 1 .. n + 1 : tokens'[l] = IF l = n + 1 THEN Burst ELSE tokens[l]
  <2>1. Burst \in 0 .. Burst
    BY <1>2
  <2> HIDE DEF ip, full
  <2> QED BY <1>2, <2>1, AppendProperties
<1>4. /\ Made' = Made \cup {n + 1} /\ n + 1 \notin Made /\ n + 1 \in Made'
  BY <1>2, <1>3 DEF Made
<1>5. got' = [got EXCEPT ![c] = n + 1] /\ cache' = Append(rest, e)
  BY <1>3 DEF AddIP
<1>6. Slots \subseteq Slots' /\ e \in Slots'
  BY <1>2, <1>4 DEF Slots
<1>7. full => /\ cache # <<>> /\ Head(cache) \in ToSet(cache) /\ Head(cache).ip \in Ips
              /\ Head(cache).ip # ip
  <2> SUFFICES ASSUME full
               PROVE  /\ cache # <<>> /\ Head(cache) \in ToSet(cache) /\ Head(cache).ip \in Ips
                      /\ Head(cache).ip # ip
    OBVIOUS
  <2>1. cache # <<>> /\ cache \in Seq(Slots)
    BY <1>2 DEF LimiterTypes
  <2>2. Head(cache) = cache[1] /\ 1 \in 1 .. Len(cache) /\ DOMAIN cache = 1 .. Len(cache)
    BY <2>1
  <2>3. cache[1] \in Slots
    BY <2>1, <2>2, ElementOfSeq
  <2> QED BY <2>1, <2>2, <2>3 DEF ToSet, Slots, Cached
<1>8. /\ rest \in Seq(Slots) /\ ToSet(rest) \subseteq ToSet(cache)
      /\ \A x \in ToSet(cache) : x.ip # ip => x \in ToSet(rest) \/ (full /\ x = Head(cache))
  <2>1. CASE full
    BY <1>2, <1>6, <1>7, <2>1, EndsOf DEF LimiterTypes
  <2>2. CASE ~full /\ Cached(ip)
    BY <1>2, <2>2, WithoutKeeps
  <2>3. CASE ~full /\ ~Cached(ip)
    BY <1>2, <2>3 DEF Without, LimiterTypes
  <2> QED BY <2>1, <2>2, <2>3
<1>9. cache' \in Seq(Slots') /\ ToSet(cache') = ToSet(rest) \cup {e}
  <2> HIDE DEF rest, e
  <2>1. rest \in Seq(Slots')
    BY <1>6, <1>8, SeqMonotonic
  <2> QED BY <1>5, <1>6, <2>1, EndsOf
<1> HIDE DEF rest
<1>10. LimiterTypes'
  <2>1. got' \in [Callers -> {Asked, Missed} \cup Made']
    BY <1>2, <1>4, <1>5 DEF LimiterTypes
  <2>2. dropped' \in [Ips -> Nat]
    BY <1>2, <1>7 DEF LimiterTypes
  <2> HIDE DEF full
  <2> QED BY <1>2, <1>3, <1>9, <2>1, <2>2 DEF LimiterTypes
<1>11. PICK owner2 \in [Made' -> Ips], used2 \in [Made' -> Nat] :
         /\ owner2[n + 1] = ip /\ used2[n + 1] = 0
         /\ \A l \in Made : owner2[l] = owner[l] /\ used2[l] = used[l]
  <2> DEFINE o2 == [l \in Made' |-> IF l = n + 1 THEN ip ELSE owner[l]]
             u2 == [l \in Made' |-> IF l = n + 1 THEN 0 ELSE used[l]]
  <2>1. o2 \in [Made' -> Ips] /\ u2 \in [Made' -> Nat]
    BY <1>1, <1>2, <1>4 DEF UsedFor
  <2>2. /\ o2[n + 1] = ip /\ u2[n + 1] = 0
        /\ \A l \in Made : o2[l] = owner[l] /\ u2[l] = used[l]
    BY <1>4
  <2> HIDE DEF o2, u2, n, ip
  <2> QED BY <2>1, <2>2
<1>12. UsedFor(owner2, used2)'
  <2>1. \A x \in ToSet(cache') : owner2[x.id] = x.ip
    <3>1. \A x \in ToSet(cache) : x.id \in Made
      <4>1. cache \in Seq(Slots) /\ DOMAIN cache = 1 .. Len(cache)
        BY <1>2 DEF LimiterTypes
      <4>2. \A i \in DOMAIN cache : cache[i] \in Slots
        BY <4>1, ElementOfSeq
      <4> QED BY <4>2 DEF ToSet, Slots
    <3>2. owner2[e.id] = e.ip
      BY <1>11
    <3> HIDE DEF e
    <3> QED BY <1>1, <1>8, <1>9, <1>11, <3>1, <3>2 DEF UsedFor
  <2>2. \A d \in Callers : got'[d] \in Made' => owner2[got'[d]] = request'[d]
    <3> TAKE d \in Callers
    <3>1. CASE d = c
      BY <1>2, <1>5, <1>11, <3>1 DEF LimiterTypes
    <3>2. CASE d # c
      <4>1. got'[d] = got[d] /\ got[d] \in {Asked, Missed} \cup Made
        BY <1>2, <1>5, <3>2 DEF LimiterTypes
      <4>2. got[d] \in Made' => got[d] \in Made
        BY <1>2, <1>4, <4>1 DEF Asked, Missed, Made
      <4> QED BY <1>1, <1>2, <1>11, <4>1, <4>2 DEF UsedFor
    <3> QED BY <3>1, <3>2
  <2>3. \A l \in Made' : tokens'[l] + used2[l] <= Burst + seconds'
    <3> TAKE l \in Made'
    <3>1. CASE l = n + 1
      BY <1>2, <1>3, <1>4, <1>11, <3>1 DEF Made
    <3>2. CASE l # n + 1
      <4>1. l \in Made /\ l \in 1 .. n + 1
        BY <1>3, <1>4, <3>2 DEF Made
      <4> QED BY <1>1, <1>2, <1>3, <1>11, <3>2, <4>1 DEF UsedFor
    <3> QED BY <3>1, <3>2
  <2>4. \A x \in Ips : Tickets(owner2, used2, x)' = Tickets(owner, used, x)
    <3> TAKE x \in Ips
    <3>1. ASSUME NEW u \in Made' \X (Nat \ {0}), u[2] <= used2[u[1]] PROVE u[1] \in Made
      <4>1. u[1] = n + 1 => u[2] <= 0
        BY <1>11, <3>1
      <4> QED BY <1>4, <3>1, <4>1
    <3>2. Tickets(owner2, used2, x)' =
            {u \in Made' \X (Nat \ {0}) : owner2[u[1]] = x /\ u[2] <= used2[u[1]]}
      BY DEF Tickets
    <3> QED BY <1>4, <1>11, <3>1, <3>2 DEF Tickets
  <2>5. \A x \in Ips : passed'[x] = Cardinality(Tickets(owner2, used2, x)')
    BY <1>1, <1>2, <2>4 DEF UsedFor
  <2> QED BY <1>11, <2>1, <2>2, <2>3, <2>5 DEF UsedFor
<1>13. ASSUME NEW x \in Ips
       PROVE  IF Cached(x)'
              THEN Cardinality(Owned(owner2, x)') + Cardinality(Missing(x)')
                     <= Cardinality(Callers) * (dropped'[x] + 1)
              ELSE Cardinality(Owned(owner2, x)') <= Cardinality(Callers) * dropped'[x]
  <2> DEFINE o == Cardinality(Owned(owner, x))
             m == Cardinality(Missing(x))
             k == Cardinality(Callers)
             d == dropped[x]
             p == k * d
  <2>1. /\ o \in Nat /\ m \in Nat /\ k \in Nat /\ d \in Nat /\ m <= k
        /\ IsFiniteSet(Owned(owner, x)) /\ IsFiniteSet(Missing(x))
    BY <1>2, Sizes DEF LimiterTypes
  <2>2. k * (d + 1) = p + k /\ k * (d + 1 + 1) = p + k + k /\ p \in Nat
    BY <2>1
  <2>3. IF Cached(x) THEN o + m <= p + k ELSE o <= p
    BY <1>1, <2>2 DEF MadeByMiss
  <2>4. Cached(x) <=> \E y \in ToSet(cache) : y.ip = x
    BY DEF Cached, ToSet
  <2>5. Cached(x)' <=> \E y \in ToSet(cache') : y.ip = x
    BY DEF Cached, ToSet
  <2>6. Owned(owner2, x)' = {l \in Made' : owner2[l] = x}
    BY DEF Owned
  <2>7. Missing(x)' = {b \in Callers : request[b] = x /\ got'[b] = Missed}
    BY <1>2 DEF Missing
  <2>8. CASE x = ip
    <3>1. Owned(owner2, x)' = Owned(owner, x) \cup {n + 1} /\ n + 1 \notin Owned(owner, x)
      BY <1>4, <1>11, <2>6, <2>8 DEF Owned
    <3>2. Cardinality(Owned(owner2, x)') = o + 1
      BY <2>1, <3>1, FS_AddElement
    <3>3. Missing(x)' = Missing(x) \ {c} /\ c \in Missing(x)
      <4>1. \A b \in Callers : got'[b] = IF b = c THEN n + 1 ELSE got[b]
        BY <1>2, <1>5 DEF LimiterTypes
      <4>2. n + 1 # Missed
        BY <1>2 DEF Missed
      <4> QED BY <1>2, <2>7, <2>8, <4>1, <4>2 DEF Missing
    <3>4. Cardinality(Missing(x)') = m - 1
      BY <2>1, <3>3, FS_RemoveElement
    <3>5. Cached(x)'
      <4>1. e \in ToSet(cache') /\ e.ip = ip
        BY <1>9
      <4> HIDE DEF e
      <4> QED BY <2>5, <2>8, <4>1
    <3>6. dropped'[x] = d
      BY <1>2, <1>7, <2>8 DEF LimiterTypes
    <3> HIDE DEF o, m, k, d, p
    <3>7. (o + 1) + (m - 1) <= k * (d + 1)
      BY <2>1, <2>2, <2>3
    <3> QED BY <3>2, <3>4, <3>5, <3>6, <3>7 DEF k
  <2>9. CASE x # ip
    <3>1. Owned(owner2, x)' = Owned(owner, x)
      BY <1>4, <1>11, <2>6, <2>9 DEF Owned
    <3>2. Missing(x)' = Missing(x)
      BY <1>2, <1>5, <2>7, <2>9 DEF Missing, LimiterTypes
    <3>3. CASE full /\ x = Head(cache).ip
      <4>1. Cached(x)
        BY <1>7, <2>4, <3>3
      <4>2. dropped'[x] = d + 1
        BY <1>2, <3>3 DEF LimiterTypes
      <4> HIDE DEF o, m, k, d, p, full
      <4>3. o + m <= k * (d + 1 + 1) /\ o <= k * (d + 1)
        BY <2>1, <2>2, <2>3, <4>1
      <4> QED BY <3>1, <3>2, <4>2, <4>3 DEF o, m, k
    <3>4. CASE ~(full /\ x = Head(cache).ip)
      <4>1. dropped'[x] = d
        BY <1>2, <1>7, <3>4 DEF LimiterTypes
      <4>2. Cached(x)' <=> Cached(x)
        <5>1. e.ip = ip
          OBVIOUS
        <5> HIDE DEF e, full, ip
        <5> QED BY <1>8, <1>9, <2>4, <2>5, <2>9, <3>4, <5>1
      <4> QED BY <2>2, <2>3, <3>1, <3>2, <4>1, <4>2
    <3> QED BY <3>3, <3>4
  <2> QED BY <2>8, <2>9
<1>14. MadeByMiss(owner2)'
  BY <1>13, Zenon DEF MadeByMiss
<1> QED BY <1>10, <1>12, <1>14 DEF LimiterInv

---------------------------------------------------------------------------
(* The theorem.                                                            *)

\* The invariant holds at the start: nobody has a limiter.
LEMMA InitHas == LimiterInit => LimiterInv
<1> SUFFICES ASSUME LimiterInit PROVE LimiterInv
  OBVIOUS
<1> DEFINE none == [l \in {} |-> l]
<1>1. Made = {} /\ ToSet(cache) = {} /\ Len(tokens) = 0 /\ seconds = 0 /\ Burst \in Nat
  BY LimiterAssumption DEF LimiterInit, Made, ToSet
<1>2. LimiterTypes
  BY <1>1 DEF LimiterInit, LimiterTypes, Slots, Asked, Missed
<1>3. none \in [Made -> Ips] /\ none \in [Made -> Nat]
  BY <1>1
<1> HIDE DEF none
<1>4. \A ip \in Ips : Tickets(none, none, ip) = {} /\ Owned(none, ip) = {} /\ ~Cached(ip)
  BY <1>1 DEF Tickets, Owned, Cached, LimiterInit
<1>5. UsedFor(none, none)
  <2>1. \A ip \in Ips : passed[ip] = Cardinality(Tickets(none, none, ip))
    BY <1>4, FS_EmptySet DEF LimiterInit
  <2> QED BY <1>1, <1>3, <2>1 DEF UsedFor
<1>6. MadeByMiss(none)
  <2>1. Cardinality(Callers) \in Nat
    BY LimiterAssumption, FS_CardinalityType
  <2>2. \A ip \in Ips : dropped[ip] = 0
    BY DEF LimiterInit
  <2>3. \A ip \in Ips : Cardinality(Owned(none, ip)) = 0
    BY <1>4, FS_EmptySet
  <2> QED BY <1>4, <2>1, <2>2, <2>3 DEF MadeByMiss
<1> QED BY <1>2, <1>5, <1>6 DEF LimiterInv

\* Every step of a caller, of the clock and of the cache keeps it.
LEMMA StepKeeps == LimiterInv /\ [LimiterNext]_lvars => LimiterInv'
<1> SUFFICES ASSUME LimiterInv, [LimiterNext]_lvars PROVE LimiterInv'
  OBVIOUS
<1>1. ASSUME NEW c \in Callers, NEW ip \in Ips, ipInterceptor(c, ip) PROVE LimiterInv'
  BY <1>1, ArriveKeeps
<1>2. ASSUME NEW c \in Callers, GetLimiter(c) PROVE LimiterInv'
  BY <1>2, GetKeeps
<1>3. ASSUME NEW c \in Callers, AddIP(c) PROVE LimiterInv'
  BY <1>3, AddKeeps
<1>4. ASSUME NEW c \in Callers, Allow(c) PROVE LimiterInv'
  BY <1>4, AllowKeeps
<1>5. ASSUME Refill PROVE LimiterInv'
  BY <1>5, RefillKeeps
<1>6. ASSUME NEW ip \in Ips, Expire(ip) PROVE LimiterInv'
  BY <1>6, ExpireKeeps
<1>7. CASE UNCHANGED lvars
  <2>1. UNCHANGED <<cache, tokens, request, got, passed, dropped, seconds>>
    BY <1>7 DEF lvars
  <2>2. Made' = Made /\ Slots' = Slots
    BY <2>1 DEF Made, Slots
  <2>3. LimiterTypes'
    BY <2>1, <2>2 DEF LimiterInv, LimiterTypes
  <2>4. PICK owner, used : UsedFor(owner, used) /\ MadeByMiss(owner)
    BY DEF LimiterInv
  <2>5. \A ip \in Ips : /\ Tickets(owner, used, ip)' = Tickets(owner, used, ip)
                       /\ Owned(owner, ip)' = Owned(owner, ip)
                       /\ Missing(ip)' = Missing(ip) /\ Cached(ip)' = Cached(ip)
    BY <2>1, <2>2 DEF Tickets, Owned, Missing, Cached
  <2>6. UsedFor(owner, used)'
    BY <2>1, <2>2, <2>4, <2>5 DEF UsedFor
  <2>7. MadeByMiss(owner)'
    BY <2>1, <2>4, <2>5 DEF MadeByMiss
  <2> QED BY <2>3, <2>6, <2>7 DEF LimiterInv
<1> QED BY <1>1, <1>2, <1>3, <1>4, <1>5, <1>6, <1>7 DEF LimiterNext

\* What an address gets through its limiters is bounded by the burst, by the
\* refills, by the callers that can miss it at once and by how often the cache
\* has lost it (limiter.go:44-58), for any number of each.
THEOREM BurstIsBoundedCorrect == LimiterSpec => []BurstIsBounded
<1>1. LimiterInit => LimiterInv
  BY InitHas
<1>2. LimiterInv /\ [LimiterNext]_lvars => LimiterInv'
  BY StepKeeps
<1>3. LimiterInv => BurstIsBounded
  BY InvBounds
<1> QED BY <1>1, <1>2, <1>3, PTL DEF LimiterSpec
=============================================================================
