----------------------------- MODULE GuardProofs -----------------------------
(* The two guards that decide by the steady clock whether a request may go   *)
(* on: the per-client rate limiter (RateLimiter) and one route's circuit     *)
(* breaker among overlapping attempts (Circuit).  What each guarantees for   *)
(* every rate, burst, bound, threshold, timeout and set of clients or        *)
(* requests, by induction over its calls and the clock.                      *)
EXTENDS RateLimiter, Circuit, Scoring, FiniteSetTheorems, TLAPS

(* Tokens earned over two stretches of time, and over a longer one.        *)
LEMMA EarnedAdds ==
  ASSUME NEW a \in Nat, NEW b \in Nat, NEW r \in Nat
  PROVE  (a + b) * r = a * r + b * r /\ a * r \in Nat /\ b * r \in Nat
OBVIOUS

LEMMA EarnedGrows ==
  ASSUME NEW a \in Nat, NEW b \in Nat, a <= b, NEW r \in Nat
  PROVE  a * r <= b * r /\ a * r \in Nat /\ b * r \in Nat
<1> DEFINE d == b - a
<1>1. d \in Nat /\ b = a + d
  OBVIOUS
<1> HIDE DEF d
<1>. QED BY <1>1, EarnedAdds

(* The quotient rounded up is the least number of ticks that earns d.      *)
LEMMA CeilDivExact ==
  ASSUME NEW d \in Nat \ {0}, NEW r \in Nat \ {0}
  PROVE  LET q == CeilDiv(d, r)
         IN  q \in Nat \ {0} /\ q * r >= d /\ (q - 1) * r < d
<1> DEFINE n == d + r - 1
           q == n \div r
           m == n % r
<1>1. n \in Nat /\ n >= r
  OBVIOUS
<1> HIDE DEF n
<1>2. q \in Int /\ m \in 0..(r - 1) /\ n = r * q + m
  BY <1>1
<1>3. q * r = r * q /\ q * r \in Int
  BY <1>2
<1> HIDE DEF q, m
<1>4. q * r >= d
  BY <1>2, <1>3 DEF n
<1>5. (q - 1) * r = q * r - r
  BY <1>2
<1>6. (q - 1) * r < d
  BY <1>2, <1>3, <1>5 DEF n
<1>7. q >= 1
  <2> SUFFICES ASSUME q <= 0 PROVE FALSE
    BY <1>2
  <2>1. -q \in Nat /\ r \in Nat
    BY <1>2
  <2>2. (-q) * r \in Nat
    BY <2>1
  <2>3. (-q) * r = -(q * r)
    BY <1>2
  <2>. QED BY <1>3, <1>4, <2>2, <2>3
<1>8. CeilDiv(d, r) = q
  BY DEF CeilDiv, q, n
<1>. QED BY <1>2, <1>4, <1>6, <1>7, <1>8

-----------------------------------------------------------------------------
(* A bucket holds no more than a burst, and neither it nor its client's    *)
(* history is ahead of the clock.                                          *)
BucketSound(b) ==
  /\ b \in Bucket
  /\ b.request_tokens <= RequestBurst /\ b.work_tokens <= TokenBurst
  /\ b.updated_at <= now /\ b.last_seen <= now

History == [since : Nat, requests : Nat, work : Nat]

(* The parts that n requests, or n tokens of work, take out of a bucket.   *)
Parts(n) == n * Unit

(* What was let through and what is left came from one burst and from the  *)
(* time up to the last refill.                                             *)
Paid(b, g) ==
  /\ g.since <= b.updated_at
  /\ Parts(g.requests) + b.request_tokens <= RequestBurst + (b.updated_at - g.since) * RequestRate
  /\ Parts(g.work) + b.work_tokens <= TokenBurst + (b.updated_at - g.since) * TokenRate

RateInv ==
  /\ now \in Nat
  /\ DOMAIN clients \subseteq Clients
  /\ IsFiniteSet(DOMAIN clients) /\ Cardinality(DOMAIN clients) <= MaxClients
  /\ granted \in [Clients -> History]
  /\ \A c \in DOMAIN clients : BucketSound(clients[c]) /\ Paid(clients[c], granted[c])

LEMMA ConfigFacts ==
  /\ Unit \in Nat \ {0}
  /\ RequestRate \in Nat \ {0} /\ RequestBurst \in Nat /\ RequestBurst >= Unit
  /\ TokenRate \in Nat \ {0} /\ TokenBurst \in Nat /\ TokenBurst >= Unit
  /\ MaxClients \in Nat \ {0} /\ IdleTtl \in Nat /\ Works \subseteq Nat /\ MaxTime \in Nat
BY RateLimitConfig, ClockBound

LEMMA PartsNat == \A n \in Nat : Parts(n) \in Nat
BY ConfigFacts DEF Parts

LEMMA PartsAdd ==
  ASSUME NEW a \in Nat, NEW b \in Nat
  PROVE  /\ Parts(a) \in Nat /\ Parts(b) \in Nat
         /\ Parts(a + b) = Parts(a) + Parts(b)
         /\ Parts(0) = 0 /\ Parts(1) = Unit
BY ConfigFacts, EarnedAdds DEF Parts

(* A refill pays for the time since the last one.                          *)
LEMMA RefillSound ==
  ASSUME now \in Nat, NEW b, BucketSound(b)
  PROVE  LET e == [RefillLocked(b, now) EXCEPT !.last_seen = now]
         IN  /\ BucketSound(e) /\ e.updated_at = now
             /\ \A g \in History : Paid(b, g) => Paid(e, g)
<1> DEFINE elapsed == now - b.updated_at
           e == [RefillLocked(b, now) EXCEPT !.last_seen = now]
<1>1. /\ b \in Bucket /\ b.request_tokens \in Nat /\ b.work_tokens \in Nat /\ b.updated_at \in Nat
      /\ b.updated_at <= now
      /\ b.request_tokens <= RequestBurst /\ b.work_tokens <= TokenBurst
  BY DEF BucketSound, Bucket
<1>2. elapsed \in Nat /\ LargestOf(now, b.updated_at) - b.updated_at = elapsed
  BY <1>1 DEF LargestOf
<1> DEFINE earned == elapsed * RequestRate
           earnedWork == elapsed * TokenRate
<1>3. earned \in Nat /\ earnedWork \in Nat
  BY <1>2, ConfigFacts, EarnedAdds
<1>4. e = [request_tokens |-> LeastOf(RequestBurst, b.request_tokens + earned),
           work_tokens |-> LeastOf(TokenBurst, b.work_tokens + earnedWork),
           updated_at |-> now, last_seen |-> now]
  <2> DEFINE x == LeastOf(RequestBurst, b.request_tokens + earned)
             y == LeastOf(TokenBurst, b.work_tokens + earnedWork)
  <2>1. RefillLocked(b, now) = [b EXCEPT !.request_tokens = x, !.work_tokens = y, !.updated_at = now]
    BY <1>2 DEF RefillLocked
  <2>2. b = [request_tokens |-> b.request_tokens, work_tokens |-> b.work_tokens,
             updated_at |-> b.updated_at, last_seen |-> b.last_seen]
    BY <1>1 DEF Bucket
  <2> HIDE DEF x, y
  <2> DEFINE b1 == [b EXCEPT !.request_tokens = x, !.work_tokens = y, !.updated_at = now]
  <2>3. b1 = [request_tokens |-> x, work_tokens |-> y, updated_at |-> now, last_seen |-> b.last_seen]
    <3> DEFINE r1 == [b EXCEPT !.request_tokens = x]
               r2 == [r1 EXCEPT !.work_tokens = y]
               r3 == [r2 EXCEPT !.updated_at = now]
    <3>1. r1 = [request_tokens |-> x, work_tokens |-> b.work_tokens,
                updated_at |-> b.updated_at, last_seen |-> b.last_seen]
      BY <2>2
    <3>2. b1 = r3
      BY <2>2
    <3> HIDE DEF b1, r1
    <3>3. r2 = [request_tokens |-> x, work_tokens |-> y,
                updated_at |-> b.updated_at, last_seen |-> b.last_seen]
      BY <3>1
    <3> HIDE DEF r2
    <3>4. r3 = [request_tokens |-> x, work_tokens |-> y,
                updated_at |-> now, last_seen |-> b.last_seen]
      BY <3>3
    <3>. QED BY <3>2, <3>4
  <2>4. e = [b1 EXCEPT !.last_seen = now]
    BY <2>1
  <2> HIDE DEF b1, e
  <2>5. e = [request_tokens |-> x, work_tokens |-> y, updated_at |-> now, last_seen |-> now]
    BY <2>3, <2>4
  <2>. QED BY <2>5 DEF x, y
<1> HIDE DEF e
<1>5. /\ e.request_tokens \in Nat /\ e.request_tokens <= RequestBurst
      /\ e.request_tokens <= b.request_tokens + earned
      /\ e.work_tokens \in Nat /\ e.work_tokens <= TokenBurst
      /\ e.work_tokens <= b.work_tokens + earnedWork
      /\ e.updated_at = now /\ e.last_seen = now
  <2> HIDE DEF earned, earnedWork
  <2>. QED BY <1>1, <1>3, <1>4, ConfigFacts DEF LeastOf
<1>6. BucketSound(e)
  BY <1>4, <1>5 DEF BucketSound, Bucket
<1>7. ASSUME NEW g \in History, Paid(b, g)
      PROVE  Paid(e, g)
  <2> DEFINE age == b.updated_at - g.since
  <2>1. /\ g.since \in Nat /\ g.requests \in Nat /\ g.work \in Nat
        /\ age \in Nat /\ now - g.since = age + elapsed /\ g.since <= now
        /\ Parts(g.requests) \in Nat /\ Parts(g.work) \in Nat
    <3>1. g.since \in Nat /\ g.requests \in Nat /\ g.work \in Nat
      BY DEF History
    <3>2. Parts(g.requests) \in Nat /\ Parts(g.work) \in Nat
      BY <3>1, PartsNat
    <3>. QED BY <1>1, <1>7, <3>1, <3>2 DEF Paid
  <2>2. /\ (age + elapsed) * RequestRate = age * RequestRate + earned
        /\ (age + elapsed) * TokenRate = age * TokenRate + earnedWork
        /\ age * RequestRate \in Nat /\ age * TokenRate \in Nat
    BY <1>2, <2>1, ConfigFacts, EarnedAdds
  <2>3. /\ Parts(g.requests) + b.request_tokens <= RequestBurst + age * RequestRate
        /\ Parts(g.work) + b.work_tokens <= TokenBurst + age * TokenRate
    BY <1>7 DEF Paid
  <2> DEFINE x == age * RequestRate
             y == age * TokenRate
  <2>4. /\ (now - g.since) * RequestRate = x + earned
        /\ (now - g.since) * TokenRate = y + earnedWork
    BY <2>1, <2>2
  <2>5. x \in Nat /\ y \in Nat
    BY <2>2
  <2> HIDE DEF x, y, earned, earnedWork
  <2>6. Parts(g.requests) + e.request_tokens <= RequestBurst + (x + earned)
    BY <1>1, <1>3, <1>5, <2>1, <2>3, <2>5, ConfigFacts DEF x
  <2>7. Parts(g.work) + e.work_tokens <= TokenBurst + (y + earnedWork)
    BY <1>1, <1>3, <1>5, <2>1, <2>3, <2>5, ConfigFacts DEF y
  <2>. QED BY <1>5, <2>1, <2>4, <2>6, <2>7 DEF Paid
<1>. QED BY <1>5, <1>6, <1>7 DEF e

(* The bucket a call finds, with the history that goes with it.            *)
LEMMA FoundSound ==
  ASSUME RateInv, NEW client \in Clients, NEW K, K \subseteq DOMAIN clients
  PROVE  LET b == FoundBucket(client, K)
         IN  /\ BucketSound(b) /\ b.updated_at = now
             /\ HistoryOf(client, K) \in History /\ Paid(b, HistoryOf(client, K))
<1>1. now \in Nat /\ granted[client] \in History
  BY DEF RateInv
<1>2. CASE client \in K
  <2>1. BucketSound(clients[client]) /\ Paid(clients[client], granted[client])
    BY <1>2 DEF RateInv
  <2>. QED BY <1>1, <1>2, <2>1, RefillSound DEF FoundBucket, HistoryOf
<1>3. CASE client \notin K
  <2> DEFINE b == FullBucket
             g == [since |-> now, requests |-> 0, work |-> 0]
  <2>1. FoundBucket(client, K) = b /\ HistoryOf(client, K) = g
    BY <1>3 DEF FoundBucket, HistoryOf
  <2>2. BucketSound(b) /\ b.updated_at = now /\ g \in History
    BY <1>1, ConfigFacts DEF FullBucket, BucketSound, Bucket, History
  <2>3. Paid(b, g)
    <3>1. (b.updated_at - g.since) * RequestRate = 0 /\ (b.updated_at - g.since) * TokenRate = 0
      <4>1. b.updated_at - g.since = 0
        BY <1>1 DEF FullBucket
      <4>. QED BY <4>1, ConfigFacts
    <3>2. Parts(0) = 0
      BY PartsAdd
    <3>. QED BY <1>1, <3>1, <3>2, ConfigFacts DEF Paid, FullBucket
  <2>. QED BY <2>1, <2>2, <2>3
<1>. QED BY <1>2, <1>3

(* What pruning may leave.                                                 *)
LEMMA KeptSound ==
  ASSUME RateInv, NEW K \in Kept
  PROVE  /\ K \subseteq DOMAIN clients /\ IsFiniteSet(K)
         /\ Cardinality(K) \in Nat /\ Cardinality(K) < MaxClients
<1>1. /\ IsFiniteSet(DOMAIN clients) /\ Cardinality(DOMAIN clients) \in Nat
      /\ MaxClients \in Nat \ {0}
  BY FS_CardinalityType, ConfigFacts DEF RateInv
<1>2. K \subseteq DOMAIN clients
  BY DEF Kept
<1>3. IsFiniteSet(K) /\ Cardinality(K) \in Nat
  BY <1>1, <1>2, FS_Subset, FS_CardinalityType
<1>4. Cardinality(K) < MaxClients
  <2>1. Cardinality(K) = MaxClients - 1 \/ Cardinality(K) < MaxClients
    BY DEF Kept
  <2>. QED BY <1>1, <1>3, <2>1
<1>. QED BY <1>2, <1>3, <1>4

LEMMA InitIsSound == Init => RateInv
<1> SUFFICES ASSUME Init PROVE RateInv
  OBVIOUS
<1>1. DOMAIN clients = {} /\ now = 0
  BY DEF Init
<1>2. granted \in [Clients -> History]
  BY DEF Init, History
<1>3. IsFiniteSet({}) /\ Cardinality({}) = 0
  BY FS_EmptySet
<1>. QED BY <1>1, <1>2, <1>3, ConfigFacts DEF RateInv

LEMMA TickIsSound == ASSUME RateInv, Tick PROVE RateInv'
<1>1. /\ now \in Nat /\ now' = now + 1 /\ clients' = clients /\ granted' = granted
  BY DEF RateInv, Tick, Advance
<1>2. ASSUME NEW c \in DOMAIN clients
      PROVE  BucketSound(clients[c])' /\ Paid(clients[c], granted[c])'
  <2>1. BucketSound(clients[c]) /\ Paid(clients[c], granted[c])
    BY DEF RateInv
  <2>2. BucketSound(clients[c])'
    BY <1>1, <2>1 DEF BucketSound, Bucket
  <2>3. Paid(clients[c], granted[c])'
    BY <1>1, <2>1 DEF Paid
  <2>. QED BY <2>2, <2>3
<1>. QED BY <1>1, <1>2 DEF RateInv

LEMMA AllowIsSound ==
  ASSUME RateInv, NEW client \in Clients, NEW work \in Works, Allow(client, work)
  PROVE  RateInv'
<1>1. PICK K \in Kept :
        LET bucket == FoundBucket(client, K)
            history == HistoryOf(client, K)
            allowed == Admits(bucket, work)
        IN /\ clients' = [c \in K \cup {client} |->
                            IF c # client THEN clients[c]
                            ELSE IF allowed THEN Spend(bucket, work) ELSE bucket]
           /\ granted' = [granted EXCEPT ![client] =
                            IF allowed
                            THEN [history EXCEPT !.requests = @ + 1, !.work = @ + work]
                            ELSE history]
           /\ UNCHANGED now
  BY DEF Allow
<1> DEFINE b == FoundBucket(client, K)
           g == HistoryOf(client, K)
           b2 == IF Admits(b, work) THEN Spend(b, work) ELSE b
           g2 == IF Admits(b, work) THEN [g EXCEPT !.requests = @ + 1, !.work = @ + work] ELSE g
<1>2. /\ clients' = [c \in K \cup {client} |-> IF c # client THEN clients[c] ELSE b2]
      /\ granted' = [granted EXCEPT ![client] = g2] /\ now' = now
  BY <1>1
<1>3. /\ K \subseteq DOMAIN clients /\ IsFiniteSet(K)
      /\ Cardinality(K) \in Nat /\ Cardinality(K) < MaxClients
  BY KeptSound
<1>4. BucketSound(b) /\ b.updated_at = now /\ g \in History /\ Paid(b, g)
  BY <1>3, FoundSound
<1>5. now \in Nat /\ work \in Nat /\ granted \in [Clients -> History] /\ DOMAIN clients \subseteq Clients
  BY ConfigFacts DEF RateInv
<1> HIDE DEF b, g
<1>6. BucketSound(b2) /\ g2 \in History /\ Paid(b2, g2)
  <2>1. CASE ~Admits(b, work)
    BY <1>4, <2>1
  <2>2. CASE Admits(b, work)
    <3>1. /\ b \in Bucket /\ b.request_tokens \in Nat /\ b.work_tokens \in Nat
          /\ b.request_tokens >= Unit /\ b.work_tokens >= Parts(work)
          /\ g.requests \in Nat /\ g.work \in Nat
      BY <1>4, <2>2 DEF Admits, BucketSound, Bucket, History, Parts
    <3>2. b2 = [request_tokens |-> b.request_tokens - Unit,
                work_tokens |-> b.work_tokens - Parts(work),
                updated_at |-> b.updated_at, last_seen |-> b.last_seen]
      BY <2>2, <3>1 DEF Spend, Bucket, Parts
    <3>3. g2 = [since |-> g.since, requests |-> g.requests + 1, work |-> g.work + work]
      BY <1>4, <2>2 DEF History
    <3> HIDE DEF b2, g2
    <3>4. BucketSound(b2)
      <4>1. Parts(work) \in Nat
        BY <1>5, PartsAdd
      <4>. QED BY <1>4, <1>5, <3>1, <3>2, <4>1, ConfigFacts DEF BucketSound, Bucket
    <3>5. g2 \in History
      BY <1>4, <1>5, <3>3 DEF History
    <3>6. /\ Parts(g2.requests) + b2.request_tokens = Parts(g.requests) + b.request_tokens
          /\ Parts(g2.work) + b2.work_tokens = Parts(g.work) + b.work_tokens
          /\ g2.since = g.since /\ b2.updated_at = b.updated_at
      <4>1. /\ Parts(g.requests + 1) = Parts(g.requests) + Unit /\ Parts(g.requests) \in Nat
            /\ Parts(g.work + work) = Parts(g.work) + Parts(work)
            /\ Parts(g.work) \in Nat /\ Parts(work) \in Nat
        <5>1. Parts(g.requests + 1) = Parts(g.requests) + Parts(1) /\ Parts(1) = Unit
          BY <3>1, PartsAdd
        <5>2. Parts(g.work + work) = Parts(g.work) + Parts(work)
          BY <1>5, <3>1, PartsAdd
        <5>. QED BY <1>5, <3>1, <5>1, <5>2, PartsNat
      <4>. QED BY <3>1, <3>2, <3>3, <4>1, ConfigFacts
    <3>7. Paid(b2, g2)
      BY <1>4, <3>6 DEF Paid
    <3>. QED BY <3>4, <3>5, <3>7
  <2>. QED BY <2>1, <2>2
<1> HIDE DEF b2, g2
<1>7. granted' \in [Clients -> History]
  BY <1>2, <1>5, <1>6
<1>8. ASSUME NEW c \in DOMAIN clients'
      PROVE  BucketSound(clients[c])' /\ Paid(clients[c], granted[c])'
  <2>1. CASE c = client
    <3>1. clients'[c] = b2 /\ granted'[c] = g2
      BY <1>2, <1>5, <2>1
    <3>2. BucketSound(clients[c])'
      BY <1>2, <1>6, <3>1 DEF BucketSound
    <3>3. Paid(clients[c], granted[c])'
      BY <1>6, <3>1 DEF Paid
    <3>. QED BY <3>2, <3>3
  <2>2. CASE c # client
    <3>1. c \in K /\ c \in DOMAIN clients /\ clients'[c] = clients[c] /\ granted'[c] = granted[c]
      BY <1>2, <1>3, <1>5, <1>8, <2>2
    <3>2. BucketSound(clients[c]) /\ Paid(clients[c], granted[c])
      BY <3>1 DEF RateInv
    <3>3. BucketSound(clients[c])'
      BY <1>2, <3>1, <3>2 DEF BucketSound
    <3>4. Paid(clients[c], granted[c])'
      BY <3>1, <3>2 DEF Paid
    <3>. QED BY <3>3, <3>4
  <2>. QED BY <2>1, <2>2
<1>9. DOMAIN clients' = K \cup {client}
  BY <1>2
<1>10. IsFiniteSet(K \cup {client}) /\ Cardinality(K \cup {client}) <= MaxClients
  <2>1. /\ IsFiniteSet(K \cup {client})
        /\ Cardinality(K \cup {client}) = IF client \in K THEN Cardinality(K) ELSE Cardinality(K) + 1
    BY <1>3, FS_AddElement
  <2>. QED BY <1>3, <2>1, ConfigFacts
<1>. QED BY <1>2, <1>3, <1>5, <1>7, <1>8, <1>9, <1>10 DEF RateInv

LEMMA NextPreserves == RateInv /\ [Next]_vars => RateInv'
<1> SUFFICES ASSUME RateInv, [Next]_vars PROVE RateInv'
  OBVIOUS
<1>1. CASE Tick
  BY <1>1, TickIsSound
<1>2. CASE \E client \in Clients, work \in Works : Allow(client, work)
  BY <1>2, AllowIsSound
<1>3. CASE UNCHANGED vars
  BY <1>3 DEF vars, RateInv, BucketSound, Paid
<1>. QED BY <1>1, <1>2, <1>3 DEF Next

-----------------------------------------------------------------------------
(* What a bucket that was refilled just now lets through after t ticks.    *)
Enough(b, work, t) ==
  /\ b.request_tokens + t * RequestRate >= Unit
  /\ b.work_tokens + t * TokenRate >= Parts(work)

LEMMA RefillAdmits ==
  ASSUME now \in Nat, NEW b, BucketSound(b), b.updated_at = now, NEW work \in Nat,
         Parts(work) <= TokenBurst, NEW t \in Nat
  PROVE  Admits(RefillLocked(b, now + t), work) = Enough(b, work, t)
<1>1. b \in Bucket /\ b.request_tokens \in Nat /\ b.work_tokens \in Nat
  BY DEF BucketSound, Bucket
<1> DEFINE earned == t * RequestRate
           earnedWork == t * TokenRate
           x == LeastOf(RequestBurst, b.request_tokens + earned)
           y == LeastOf(TokenBurst, b.work_tokens + earnedWork)
           e == RefillLocked(b, now + t)
<1>2. LargestOf(now + t, b.updated_at) - b.updated_at = t
  BY DEF LargestOf
<1>3. e = [b EXCEPT !.request_tokens = x, !.work_tokens = y, !.updated_at = now + t]
  BY <1>2 DEF RefillLocked
<1>4. earned \in Nat /\ earnedWork \in Nat
  BY ConfigFacts, EarnedAdds
<1> HIDE DEF x, y, e
<1>5. e.request_tokens = x /\ e.work_tokens = y
  BY <1>1, <1>3 DEF Bucket
<1> HIDE DEF earned, earnedWork
<1>6. /\ x >= Unit <=> b.request_tokens + earned >= Unit
      /\ y >= Parts(work) <=> b.work_tokens + earnedWork >= Parts(work)
  <2>1. Parts(work) \in Nat
    BY PartsAdd
  <2>. QED BY <1>1, <1>4, <2>1, ConfigFacts DEF x, y, LeastOf
<1>. QED BY <1>5, <1>6 DEF Admits, Enough, e, earned, earnedWork, Parts

LEMMA WaitIsExact ==
  ASSUME NEW b, BucketSound(b), NEW work \in Nat, ~Admits(b, work)
  PROVE  LET wait == RetryAfter(b, work)
         IN  wait \in Nat \ {0} /\ Enough(b, work, wait) /\ ~Enough(b, work, wait - 1)
<1> DEFINE r == b.request_tokens
           w == b.work_tokens
           need == Parts(work)
           request_wait == IF r >= Unit THEN 0 ELSE CeilDiv(Unit - r, RequestRate)
           token_wait == IF w >= need THEN 0 ELSE CeilDiv(need - w, TokenRate)
           wait == RetryAfter(b, work)
<1>1. /\ r \in Nat /\ w \in Nat /\ need \in Nat /\ Unit \in Nat \ {0}
      /\ ~(r >= Unit /\ w >= need)
  <2>1. need \in Nat
    BY PartsNat
  <2>. QED BY <2>1, ConfigFacts DEF BucketSound, Bucket, Admits, Parts
<1>2. wait = IF request_wait > token_wait THEN request_wait ELSE token_wait
  BY DEF RetryAfter, LargestOf, Parts
<1> HIDE DEF r, w, need, wait
<1>3. /\ request_wait \in Nat /\ r + request_wait * RequestRate >= Unit
      /\ request_wait # 0 => r + (request_wait - 1) * RequestRate < Unit
      /\ r < Unit => request_wait # 0
  <2>1. CASE r >= Unit
    BY <1>1, <2>1, ConfigFacts
  <2>2. CASE ~(r >= Unit)
    <3> DEFINE d == Unit - r
               q == CeilDiv(d, RequestRate)
    <3>1. d \in Nat \ {0} /\ request_wait = q
      BY <1>1, <2>2
    <3> HIDE DEF d
    <3>2. q \in Nat \ {0} /\ q * RequestRate >= d /\ (q - 1) * RequestRate < d
      BY <3>1, ConfigFacts, CeilDivExact
    <3> HIDE DEF q, request_wait
    <3> DEFINE x == q * RequestRate
               y == (q - 1) * RequestRate
    <3>3. x >= d /\ y < d /\ x \in Int /\ y \in Int
      BY <3>2, ConfigFacts
    <3>4. request_wait * RequestRate = x /\ (request_wait - 1) * RequestRate = y
      BY <3>1
    <3> HIDE DEF x, y
    <3>5. r + x >= Unit /\ r + y < Unit
      BY <1>1, <3>3 DEF d
    <3>. QED BY <3>1, <3>2, <3>4, <3>5
  <2>. QED BY <2>1, <2>2
<1>4. /\ token_wait \in Nat /\ w + token_wait * TokenRate >= need
      /\ token_wait # 0 => w + (token_wait - 1) * TokenRate < need
      /\ w < need => token_wait # 0
  <2>1. CASE w >= need
    BY <1>1, <2>1, ConfigFacts
  <2>2. CASE ~(w >= need)
    <3> DEFINE d == need - w
               q == CeilDiv(d, TokenRate)
    <3>1. d \in Nat \ {0} /\ token_wait = q
      BY <1>1, <2>2
    <3> HIDE DEF d
    <3>2. q \in Nat \ {0} /\ q * TokenRate >= d /\ (q - 1) * TokenRate < d
      BY <3>1, ConfigFacts, CeilDivExact
    <3> HIDE DEF q, token_wait
    <3> DEFINE x == q * TokenRate
               y == (q - 1) * TokenRate
    <3>3. x >= d /\ y < d /\ x \in Int /\ y \in Int
      BY <3>2, ConfigFacts
    <3>4. token_wait * TokenRate = x /\ (token_wait - 1) * TokenRate = y
      BY <3>1
    <3> HIDE DEF x, y
    <3>5. w + x >= need /\ w + y < need
      BY <1>1, <3>3 DEF d
    <3>. QED BY <3>1, <3>2, <3>4, <3>5
  <2>. QED BY <2>1, <2>2
<1> HIDE DEF request_wait, token_wait
<1>5. /\ wait \in Nat \ {0} /\ request_wait <= wait /\ token_wait <= wait
      /\ (wait = request_wait /\ request_wait # 0) \/ (wait = token_wait /\ token_wait # 0)
  BY <1>1, <1>2, <1>3, <1>4
<1>6. /\ request_wait * RequestRate <= wait * RequestRate
      /\ token_wait * TokenRate <= wait * TokenRate
      /\ request_wait * RequestRate \in Nat /\ wait * RequestRate \in Nat
      /\ token_wait * TokenRate \in Nat /\ wait * TokenRate \in Nat
  BY <1>3, <1>4, <1>5, ConfigFacts, EarnedGrows
<1>7. Enough(b, work, wait)
  <2> DEFINE x == request_wait * RequestRate
             y == token_wait * TokenRate
             u == wait * RequestRate
             v == wait * TokenRate
  <2>1. x <= u /\ y <= v /\ x \in Nat /\ y \in Nat /\ u \in Nat /\ v \in Nat
    BY <1>6
  <2>2. r + x >= Unit /\ w + y >= need
    BY <1>3, <1>4
  <2> HIDE DEF x, y, u, v
  <2>3. r + u >= Unit /\ w + v >= need
    BY <1>1, <2>1, <2>2
  <2>. QED BY <2>3 DEF Enough, u, v, r, w, need
<1>8. ~Enough(b, work, wait - 1)
  <2> DEFINE u == (wait - 1) * RequestRate
             v == (wait - 1) * TokenRate
  <2>1. r + u < Unit \/ w + v < need
    BY <1>3, <1>4, <1>5
  <2>2. u \in Int /\ v \in Int
    BY <1>5, ConfigFacts
  <2> HIDE DEF u, v
  <2>3. ~(r + u >= Unit /\ w + v >= need)
    BY <1>1, <2>1, <2>2
  <2>. QED BY <2>3 DEF Enough, u, v, r, w, need
<1>. QED BY <1>5, <1>7, <1>8 DEF wait

-----------------------------------------------------------------------------
(* The map keeps within its bound, no bucket overflows, and what a client was  *)
(* let through is paid for, in every reachable state.                          *)
THEOREM RateInvariant == Spec => []RateInv
<1>. QED BY InitIsSound, NextPreserves, PTL DEF Spec

(* BudgetSinceInsertion: as long as its bucket lives, a client is granted no   *)
(* more than one burst and what the rate has added since.                      *)
THEOREM BudgetIsKept == Spec => []BudgetSinceInsertion
<1>1. ASSUME RateInv PROVE BudgetSinceInsertion
  <2> SUFFICES ASSUME NEW c \in DOMAIN clients
               PROVE  LET age == now - granted[c].since IN
                      /\ granted[c].requests * Unit <= RequestBurst + age * RequestRate
                      /\ granted[c].work * Unit <= TokenBurst + age * TokenRate
    BY DEF BudgetSinceInsertion
  <2> DEFINE b == clients[c]
             g == granted[c]
             young == b.updated_at - g.since
             age == now - g.since
  <2>1. BucketSound(b) /\ Paid(b, g) /\ g \in History /\ now \in Nat
    BY <1>1 DEF RateInv
  <2> HIDE DEF b, g
  <2>2. /\ young \in Nat /\ age \in Nat /\ young <= age
        /\ b.request_tokens \in Nat /\ b.work_tokens \in Nat
        /\ Parts(g.requests) \in Nat /\ Parts(g.work) \in Nat
    <3>1. g.since \in Nat /\ g.requests \in Nat /\ g.work \in Nat
      BY <2>1 DEF History
    <3>2. Parts(g.requests) \in Nat /\ Parts(g.work) \in Nat
      BY <3>1, PartsNat
    <3>. QED BY <2>1, <3>1, <3>2 DEF BucketSound, Bucket, Paid
  <2>3. /\ Parts(g.requests) + b.request_tokens <= RequestBurst + young * RequestRate
        /\ Parts(g.work) + b.work_tokens <= TokenBurst + young * TokenRate
    BY <2>1 DEF Paid
  <2> HIDE DEF young, age
  <2>4. /\ young * RequestRate <= age * RequestRate /\ young * TokenRate <= age * TokenRate
        /\ young * RequestRate \in Nat /\ age * RequestRate \in Nat
        /\ young * TokenRate \in Nat /\ age * TokenRate \in Nat
    BY <2>2, ConfigFacts, EarnedGrows
  <2> DEFINE x == young * RequestRate
             y == young * TokenRate
             u == age * RequestRate
             v == age * TokenRate
  <2>5. x <= u /\ y <= v /\ x \in Nat /\ y \in Nat /\ u \in Nat /\ v \in Nat
    BY <2>4
  <2>6. Parts(g.requests) + b.request_tokens <= RequestBurst + x /\ Parts(g.work) + b.work_tokens <= TokenBurst + y
    BY <2>3
  <2> HIDE DEF x, y, u, v
  <2>7. Parts(g.requests) <= RequestBurst + u /\ Parts(g.work) <= TokenBurst + v
    BY <2>2, <2>5, <2>6, ConfigFacts
  <2>. QED BY <2>7 DEF u, v, age, g, Parts
<1>. QED BY <1>1, RateInvariant, PTL

(* RetryAfterExact: the call that a Retry-After answers succeeds after that    *)
(* wait and would fail one tick earlier, unless it asks for more work than a   *)
(* full bucket holds.                                                          *)
THEOREM RetryIsExact == Spec => []RetryAfterExact
<1>1. ASSUME RateInv PROVE RetryAfterExact
  <2> SUFFICES ASSUME NEW client \in Clients, NEW work \in Works, NEW K \in Kept,
                      ~Admits(FoundBucket(client, K), work), work * Unit <= TokenBurst
               PROVE  LET bucket == FoundBucket(client, K)
                          wait == RetryAfter(bucket, work)
                      IN  /\ Admits(RefillLocked(bucket, now + wait), work)
                          /\ ~Admits(RefillLocked(bucket, now + wait - 1), work)
    BY DEF RetryAfterExact
  <2> DEFINE b == FoundBucket(client, K)
             wait == RetryAfter(b, work)
  <2>1. BucketSound(b) /\ b.updated_at = now /\ now \in Nat /\ work \in Nat
    BY <1>1, KeptSound, FoundSound, ConfigFacts DEF RateInv
  <2> HIDE DEF b
  <2>2. wait \in Nat \ {0} /\ Enough(b, work, wait) /\ ~Enough(b, work, wait - 1)
    BY <2>1, WaitIsExact DEF b
  <2> HIDE DEF wait
  <2>3. \A t \in Nat : Admits(RefillLocked(b, now + t), work) = Enough(b, work, t)
    BY <2>1, RefillAdmits DEF Parts
  <2>4. now + wait - 1 = now + (wait - 1) /\ wait - 1 \in Nat /\ wait \in Nat
    BY <2>1, <2>2
  <2>. QED BY <2>2, <2>3, <2>4 DEF wait, b
<1>. QED BY <1>1, RateInvariant, PTL

(* EvictsLeastRecent: the map keeps within its bound, and a client loses its   *)
(* bucket only when the map is at that bound, and only if it was idle or no    *)
(* survivor was seen before it.                                                *)
THEOREM AlwaysEvictsLeastRecent == Spec => EvictsLeastRecent
<1> DEFINE Evicts ==
      /\ Cardinality(DOMAIN clients') <= MaxClients
      /\ \A c \in DOMAIN clients \ DOMAIN clients' :
           /\ Cardinality(DOMAIN clients) >= MaxClients
           /\ \/ now - clients[c].last_seen >= IdleTtl
              \/ \A k \in DOMAIN clients \cap DOMAIN clients' :
                   clients[k].last_seen >= clients[c].last_seen
<1>1. RateInv /\ [Next]_vars => [Evicts]_vars
  <2> SUFFICES ASSUME RateInv, Next PROVE Evicts
    OBVIOUS
  <2>1. Cardinality(DOMAIN clients') <= MaxClients
    BY NextPreserves DEF RateInv
  <2>2. CASE Tick
    BY <2>1, <2>2 DEF Tick, Advance
  <2>3. CASE \E client \in Clients, work \in Works : Allow(client, work)
    <3>1. PICK client \in Clients, K \in Kept : DOMAIN clients' = K \cup {client}
      BY <2>3 DEF Allow
    <3> SUFFICES ASSUME NEW c \in DOMAIN clients, c \notin K, c # client
                 PROVE  /\ Cardinality(DOMAIN clients) >= MaxClients
                        /\ \/ now - clients[c].last_seen >= IdleTtl
                           \/ \A k \in DOMAIN clients \cap DOMAIN clients' :
                                clients[k].last_seen >= clients[c].last_seen
      BY <2>1, <3>1
    <3>2. /\ IsFiniteSet(DOMAIN clients) /\ Cardinality(DOMAIN clients) \in Nat
          /\ Cardinality(DOMAIN clients) <= MaxClients /\ MaxClients \in Nat \ {0}
      BY FS_CardinalityType, ConfigFacts DEF RateInv
    <3>3. Cardinality(DOMAIN clients) >= MaxClients
      <4>1. ~(Cardinality(DOMAIN clients) < MaxClients)
        BY DEF Kept
      <4>. QED BY <3>2, <4>1
    <3> DEFINE live == {x \in DOMAIN clients : now - clients[x].last_seen < IdleTtl}
    <3>4. CASE c \notin live
      <4>1. now \in Int /\ clients[c].last_seen \in Int /\ IdleTtl \in Int
        BY ConfigFacts DEF RateInv, BucketSound, Bucket
      <4>. QED BY <3>3, <3>4, <4>1
    <3>5. CASE c \in live
      <4>1. /\ ~(Cardinality(live) < MaxClients)
            /\ K \subseteq live /\ Cardinality(K) = MaxClients - 1
            /\ \A k \in K : clients[c].last_seen <= clients[k].last_seen
        BY <3>2, <3>3, <3>5 DEF Kept
      <4>2. live = DOMAIN clients
        <5>1. live \subseteq DOMAIN clients
          OBVIOUS
        <5> HIDE DEF live
        <5>2. Cardinality(live) \in Nat /\ Cardinality(live) <= Cardinality(DOMAIN clients)
          BY <3>2, <5>1, FS_Subset, FS_CardinalityType
        <5>3. Cardinality(live) = Cardinality(DOMAIN clients)
          BY <3>2, <4>1, <5>2
        <5>. QED BY <3>2, <5>1, <5>3, FS_Subset
      <4>3. client \in DOMAIN clients => client \in K
        <5> SUFFICES ASSUME client \in DOMAIN clients, client \notin K PROVE FALSE
          OBVIOUS
        <5> DEFINE most == (DOMAIN clients) \ {c}
        <5>1. K \subseteq most /\ client \in most /\ client \notin K
          BY <4>1
        <5>2. IsFiniteSet(most) /\ Cardinality(most) = Cardinality(DOMAIN clients) - 1
          BY <3>2, FS_RemoveElement
        <5>3. Cardinality(most) = Cardinality(K)
          BY <3>2, <3>3, <4>1, <5>2
        <5> HIDE DEF most
        <5>4. K = most
          BY <5>1, <5>2, <5>3, FS_Subset
        <5>. QED BY <5>1, <5>4
      <4>4. \A k \in DOMAIN clients \cap DOMAIN clients' : k \in K
        BY <3>1, <4>3
      <4>5. \A k \in K : clients[k].last_seen \in Int /\ clients[c].last_seen \in Int
        BY KeptSound DEF RateInv, BucketSound, Bucket
      <4>6. \A k \in K : clients[k].last_seen >= clients[c].last_seen
        BY <4>1, <4>5
      <4>. QED BY <3>3, <4>4, <4>6
    <3>. QED BY <3>4, <3>5
  <2>. QED BY <2>2, <2>3 DEF Next
<1>. QED BY <1>1, RateInvariant, PTL DEF Spec, EvictsLeastRecent

-----------------------------------------------------------------------------
(* The breaker.  IndInv adds to its two invariants that a tripped breaker  *)
(* remembers the time of the last failure, which is what QuietAfterFailure *)
(* needs.                                                                  *)
LEMMA BreakerInit == CircuitInit => IndInv
BY CircuitConfig, ClockBound
DEF CircuitInit, IndInv, TypeOK, TripsOnStreak, OneTrialPerOutcome, Tripped,
    InitBreaker, Breaker, CircuitStates, Attempts

(* A recorded success closes the breaker, whatever state it was in.        *)
LEMMA SuccessKept ==
  ASSUME IndInv, Succeed, UNCHANGED now
  PROVE  /\ breaker' \in Breaker /\ streak' \in 0..FailureThreshold
         /\ failed_at' \in 0..now' /\ trials' \in Nat
         /\ TripsOnStreak' /\ OneTrialPerOutcome' /\ ~Tripped'
<1>1. /\ breaker'.state = "closed" /\ breaker'.consecutive_failures = 0
      /\ breaker'.probe_in_flight = FALSE /\ breaker' \in Breaker
  BY DEF IndInv, TypeOK, Succeed, RecordSuccess, Breaker, CircuitStates
<1>2. streak' = 0 /\ trials' = 0 /\ failed_at' \in 0..now'
  BY DEF IndInv, TypeOK, Succeed
<1>3. streak' # FailureThreshold /\ streak' \in 0..FailureThreshold
  BY <1>2, CircuitConfig
<1>4. TripsOnStreak' /\ ~Tripped'
  BY <1>1, <1>2, <1>3 DEF TripsOnStreak, Tripped
<1>5. OneTrialPerOutcome'
  BY <1>1, <1>2 DEF OneTrialPerOutcome
<1>. QED BY <1>1, <1>2, <1>3, <1>4, <1>5

(* A recorded failure counts once towards the threshold while the breaker  *)
(* is closed, and puts a tripped breaker back into the open state.         *)
LEMMA FailureKept ==
  ASSUME IndInv, Fail, UNCHANGED now
  PROVE  /\ breaker' \in Breaker /\ streak' \in 0..FailureThreshold
         /\ failed_at' \in 0..now' /\ trials' \in Nat
         /\ TripsOnStreak' /\ OneTrialPerOutcome'
         /\ (Tripped => breaker.opened_at = failed_at)'
<1>1. /\ breaker \in Breaker /\ now \in Nat /\ streak \in 0..FailureThreshold
      /\ failed_at' = now /\ trials' = 0 /\ now' = now
      /\ streak' = UpTo(FailureThreshold, streak + 1)
      /\ breaker' = RecordFailure(breaker, now)
      /\ breaker.consecutive_failures = streak
      /\ breaker.state # "closed" <=> streak = FailureThreshold
      /\ breaker.probe_in_flight <=> breaker.state = "half_open"
  BY ClockBound
  DEF IndInv, TypeOK, TripsOnStreak, OneTrialPerOutcome, Tripped, Fail
<1>2. CASE breaker.state # "closed"
  <2>1. /\ breaker'.state = "open" /\ breaker'.opened_at = now
        /\ breaker'.consecutive_failures = FailureThreshold
        /\ breaker'.probe_in_flight = FALSE /\ breaker' \in Breaker
    BY <1>1, <1>2, CircuitConfig
    DEF RecordFailure, Reopen, Breaker, CircuitStates
  <2>2. streak' = FailureThreshold
    BY <1>1, <1>2, CircuitConfig DEF UpTo
  <2>. QED BY <1>1, <2>1, <2>2, CircuitConfig
           DEF TripsOnStreak, OneTrialPerOutcome, Tripped
<1>3. CASE breaker.state = "closed" /\ streak + 1 >= FailureThreshold
  <2>0. breaker' = [Reopen(breaker, now) EXCEPT !.consecutive_failures = streak + 1]
    BY <1>1, <1>3 DEF RecordFailure
  <2>1. /\ breaker'.state = "open" /\ breaker'.opened_at = now
        /\ breaker'.consecutive_failures = streak + 1
        /\ breaker'.probe_in_flight = FALSE /\ breaker' \in Breaker
    <3>1. streak + 1 \in Nat
      BY <1>1, CircuitConfig
    <3>. QED BY <1>1, <2>0, <3>1 DEF Reopen, Breaker, CircuitStates
  <2>2. streak' = FailureThreshold /\ streak + 1 = FailureThreshold
    BY <1>1, <1>3, CircuitConfig DEF UpTo
  <2>3. TripsOnStreak'
    BY <2>1, <2>2 DEF TripsOnStreak, Tripped
  <2>4. OneTrialPerOutcome'
    BY <1>1, <2>1 DEF OneTrialPerOutcome
  <2>. QED BY <1>1, <2>1, <2>2, <2>3, <2>4, CircuitConfig
<1>4. CASE breaker.state = "closed" /\ streak + 1 < FailureThreshold
  <2>0. breaker' = [breaker EXCEPT !.consecutive_failures = streak + 1,
                                   !.probe_in_flight = FALSE]
    BY <1>1, <1>4, CircuitConfig DEF RecordFailure
  <2>1. /\ breaker'.state = "closed"
        /\ breaker'.consecutive_failures = streak + 1
        /\ breaker'.probe_in_flight = FALSE /\ breaker' \in Breaker
    <3>1. streak + 1 \in Nat
      BY <1>1, CircuitConfig
    <3>. QED BY <1>1, <1>4, <2>0, <3>1 DEF Breaker, CircuitStates
  <2>2. streak' = streak + 1 /\ streak' # FailureThreshold
    BY <1>1, <1>4, CircuitConfig DEF UpTo
  <2>3. TripsOnStreak' /\ ~Tripped'
    BY <2>1, <2>2 DEF TripsOnStreak, Tripped
  <2>4. OneTrialPerOutcome'
    BY <1>1, <2>1 DEF OneTrialPerOutcome
  <2>. QED BY <1>1, <1>4, <2>1, <2>2, <2>3, <2>4, CircuitConfig
<1>. QED BY <1>1, <1>2, <1>3, <1>4, CircuitConfig

LEMMA BreakerSteps == IndInv /\ [CircuitNext]_circuit_vars => IndInv'
<1> SUFFICES ASSUME IndInv, [CircuitNext]_circuit_vars PROVE IndInv'
  OBVIOUS
<1> USE CircuitConfig, ClockBound
<1>1. ASSUME NEW r \in Requests, Begin(r) PROVE IndInv'
  <2>1. /\ breaker' \in Breaker /\ breaker'.opened_at = breaker.opened_at
        /\ breaker'.consecutive_failures = breaker.consecutive_failures
        /\ breaker'.state # "closed" <=> breaker.state # "closed"
        /\ breaker'.state = "half_open" <=> breaker.state # "closed"
        /\ breaker'.probe_in_flight <=> breaker'.state = "half_open"
    BY <1>1 DEF Begin, Allows, AfterAllow, IndInv, TypeOK, OneTrialPerOutcome,
                Breaker, CircuitStates
  <2>2. Tripped => breaker.state = "open"
    BY <1>1 DEF Begin, Allows, IndInv, TypeOK, OneTrialPerOutcome, Tripped,
                Breaker, CircuitStates
  <2>3. trials' = IF breaker'.state = "half_open" THEN 1 ELSE 0
    BY <1>1, <2>1, <2>2 DEF Begin, IndInv, OneTrialPerOutcome, Tripped
  <2>4. attempt' \in [Requests -> Attempts]
    BY <1>1 DEF Begin, IndInv, TypeOK, Attempts
  <2>. QED BY <1>1, <2>1, <2>3, <2>4
           DEF Begin, IndInv, TypeOK, TripsOnStreak, OneTrialPerOutcome, Tripped
<1>2. ASSUME NEW r \in Requests, Refuse(r) PROVE IndInv'
  <2>1. breaker' = breaker
    BY <1>2 DEF Refuse, AfterAllow
  <2>. QED BY <1>2, <2>1
           DEF Refuse, IndInv, TypeOK, TripsOnStreak, OneTrialPerOutcome, Tripped
<1>3. ASSUME NEW r \in Requests, Header(r) PROVE IndInv'
  <2>1. attempt' \in [Requests -> Attempts]
    BY <1>3 DEF Header, IndInv, TypeOK, Attempts
  <2>. QED BY <1>3, <2>1, SuccessKept DEF Header, IndInv, TypeOK
<1>4. ASSUME NEW r \in Requests, Header5xx(r) PROVE IndInv'
  <2>1. attempt' \in [Requests -> Attempts]
    BY <1>4 DEF Header5xx, IndInv, TypeOK, Attempts
  <2>. QED BY <1>4, <2>1, FailureKept DEF Header5xx, IndInv, TypeOK
<1>5. ASSUME NEW r \in Requests, TransportError(r) PROVE IndInv'
  <2>1. attempt' \in [Requests -> Attempts]
    BY <1>5 DEF TransportError, End, UpTo, IndInv, TypeOK, Attempts
  <2>. QED BY <1>5, <2>1, FailureKept DEF TransportError, IndInv, TypeOK
<1>6. ASSUME NEW r \in Requests, Finish(r) \/ Abandon(r) PROVE IndInv'
  <2>1. attempt' \in [Requests -> Attempts]
    BY <1>6 DEF Finish, Abandon, End, IndInv, TypeOK, Attempts
  <2>. QED BY <1>6, <2>1
           DEF Finish, Abandon, IndInv, TypeOK, TripsOnStreak,
               OneTrialPerOutcome, Tripped
<1>7. CASE CircuitTick
  BY <1>7 DEF CircuitTick, Advance, IndInv, TypeOK, TripsOnStreak, OneTrialPerOutcome, Tripped
<1>8. CASE UNCHANGED circuit_vars
  BY <1>8
  DEF circuit_vars, IndInv, TypeOK, TripsOnStreak, OneTrialPerOutcome, Tripped
<1>. QED BY <1>1, <1>2, <1>3, <1>4, <1>5, <1>6, <1>7, <1>8 DEF CircuitNext

(* The inductive invariant holds of every reachable state.                 *)
THEOREM BreakerInvariant == CircuitSpec => []IndInv
BY BreakerInit, BreakerSteps, PTL DEF CircuitSpec

(* Every variable keeps its type, however many attempts overlap.           *)
THEOREM BreakerTypeCorrect == CircuitSpec => []TypeOK
<1>1. IndInv => TypeOK
  BY DEF IndInv
<1>. QED BY <1>1, BreakerInvariant, PTL

(* The breaker trips on FailureThreshold failures in a row, never before,  *)
(* and no trip survives a success.                                         *)
THEOREM AlwaysTripsOnStreak == CircuitSpec => []TripsOnStreak
<1>1. IndInv => TripsOnStreak
  BY DEF IndInv
<1>. QED BY <1>1, BreakerInvariant, PTL

(* A tripped breaker lets one attempt through between two outcomes.        *)
THEOREM AlwaysOneTrialPerOutcome == CircuitSpec => []OneTrialPerOutcome
<1>1. IndInv => OneTrialPerOutcome
  BY DEF IndInv
<1>. QED BY <1>1, BreakerInvariant, PTL

(* A tripped route is left alone for the whole recovery interval.          *)
THEOREM AlwaysQuietAfterFailure == CircuitSpec => QuietAfterFailure
<1>1. IndInv /\ [CircuitNext]_circuit_vars =>
        [\A r \in Requests :
           Tripped /\ attempt[r] = "idle" /\ attempt'[r] # "idle"
             => now >= failed_at + RecoveryTimeout]_circuit_vars
  <2> SUFFICES ASSUME IndInv, [CircuitNext]_circuit_vars, NEW r \in Requests,
                      Tripped, attempt[r] = "idle", attempt'[r] # "idle"
               PROVE  now >= failed_at + RecoveryTimeout
    OBVIOUS
  <2>1. Begin(r)
    <3>1. attempt \in [Requests -> Attempts]
      BY DEF IndInv, TypeOK
    <3>. QED BY <3>1 DEF CircuitNext, circuit_vars, Begin, Refuse, Header, Header5xx,
                         TransportError, Finish, Abandon, CircuitTick, Advance, End
  <2>2. breaker.state = "open" /\ RecoveryElapsed(breaker, now)
    BY <2>1 DEF Begin, Allows, IndInv, TypeOK, OneTrialPerOutcome, Tripped,
                Breaker, CircuitStates
  <2>. QED BY <2>2, CircuitConfig, ClockBound
           DEF RecoveryElapsed, IndInv, TypeOK
<1>. QED BY <1>1, BreakerInvariant, PTL DEF CircuitSpec, QuietAfterFailure
-----------------------------------------------------------------------------
(* The reward: schema validity and the decisions, a fifth each.              *)
LEMMA DecisionsCounted ==
  ASSUME NEW D \in SUBSET Decisions
  PROVE  /\ Cardinality(D) \in 0..4
         /\ Cardinality(D) = 4 <=> D = Decisions
<1>1. IsFiniteSet(Decisions) /\ Cardinality(Decisions) = 4
  <2> DEFINE A == {"urgency"}
             B == A \cup {"ambiguity_flag"}
             C == B \cup {"tool_choice"}
  <2>1. IsFiniteSet(A) /\ Cardinality(A) = 1
    BY FS_Singleton
  <2>2. IsFiniteSet(B) /\ Cardinality(B) = 2
    BY <2>1, FS_AddElement
  <2>3. IsFiniteSet(C) /\ Cardinality(C) = 3
    BY <2>2, FS_AddElement
  <2>4. IsFiniteSet(C \cup {"tool_arguments_structural"})
        /\ Cardinality(C \cup {"tool_arguments_structural"}) = 4
    BY <2>3, FS_AddElement
  <2>5. Decisions = C \cup {"tool_arguments_structural"}
    BY DEF Decisions
  <2>. QED BY <2>4, <2>5
<1>2. IsFiniteSet(D) /\ Cardinality(D) <= Cardinality(Decisions)
      /\ (Cardinality(D) = Cardinality(Decisions) => D = Decisions)
  BY <1>1, FS_Subset
<1>3. Cardinality(D) \in Nat
  BY <1>2, FS_CardinalityType
<1>. QED BY <1>1, <1>2, <1>3

LEMMA ScoreFields ==
  ASSUME NEW l, NEW o, IsParsed(o)
  PROVE  /\ Score(l, o).valid = IsSchemaValid(o)
         /\ Score(l, o).decisions = DecisionChecks(l, o)
         /\ Score(l, o).secondary = SecondaryMetrics(l, o)
         /\ Score(l, o).success = (IsSchemaValid(o) /\ DecisionChecks(l, o) = Decisions)
         /\ Score(l, o).reward = Cardinality(DecisionChecks(l, o)) + (IF IsSchemaValid(o) THEN 1 ELSE 0)
BY DEF Score

(* The reward is full exactly on success.                                    *)
LEMMA FullOnSuccess ==
  ASSUME NEW l, NEW o, o.parsed \in BOOLEAN
  PROVE  Score(l, o).reward \in 0..5 /\ ((Score(l, o).reward = 5) <=> Score(l, o).success)
<1>1. CASE ~IsParsed(o)
  BY <1>1 DEF Score, Zero
<1>2. CASE IsParsed(o)
  <2>1. DecisionChecks(l, o) \in SUBSET Decisions
    BY DEF DecisionChecks
  <2> DEFINE n == Cardinality(DecisionChecks(l, o))
             full == DecisionChecks(l, o) = Decisions
  <2>2. n \in 0..4 /\ (n = 4 <=> full)
    BY <2>1, DecisionsCounted
  <2>3. Score(l, o).success <=> IsSchemaValid(o) /\ full
    BY <1>2 DEF Score
  <2>4. Score(l, o).reward = n + (IF IsSchemaValid(o) THEN 1 ELSE 0)
    BY <1>2 DEF Score
  <2> HIDE DEF n, full
  <2>5. CASE IsSchemaValid(o)
    BY <2>2, <2>3, <2>4, <2>5
  <2>6. CASE ~IsSchemaValid(o)
    BY <2>2, <2>3, <2>4, <2>6
  <2>. QED BY <2>5, <2>6
<1>. QED BY <1>1, <1>2

(* An answer, as a ticket with its arguments.                                *)
LEMMA AnswerShape ==
  ASSUME NEW o \in Answers
  PROVE  /\ o.parsed \in BOOLEAN
         /\ IsParsed(o) =>
              /\ o = [parsed |-> TRUE, product |-> o.product, issue |-> o.issue, company |-> o.company,
                      urgency |-> o.urgency, flag |-> o.flag, tool |-> o.tool, args |-> o.args]
              /\ o.args = [shape |-> o.args.shape, meaning |-> o.args.meaning]
<1>1. CASE o = Unparsed
  BY <1>1 DEF Unparsed, IsParsed
<1>2. CASE o = Ticket(o.product, o.issue, o.company, o.urgency, o.flag, o.tool,
                      Arguments(o.args.shape, o.args.meaning))
  <2> DEFINE a == Arguments(o.args.shape, o.args.meaning)
             r == [parsed |-> TRUE, product |-> o.product, issue |-> o.issue, company |-> o.company,
                   urgency |-> o.urgency, flag |-> o.flag, tool |-> o.tool, args |-> a]
  <2>1. o = r
    BY <1>2 DEF Ticket
  <2>2. r.args = a /\ r.parsed = TRUE
    OBVIOUS
  <2> HIDE DEF r
  <2>3. o.args = a /\ o.parsed = TRUE
    BY <2>1, <2>2
  <2>. QED BY <2>1, <2>3 DEF Arguments, r
<1>. QED BY <1>1, <1>2, AnswersAssumption

(* What does not decide does not pay.                                        *)
Reworded(o, p, i, c, m) ==
    [o EXCEPT !.product = p, !.issue = i, !.company = c, !.args = Arguments(@.shape, m)]

LEMMA MetadataDoesNotPay ==
  ASSUME NEW l, NEW o \in Answers, IsParsed(o), IsSchemaValid(o),
         NEW p \in Products, NEW i \in Texts, NEW c \in Texts \cup {"null"},
         NEW m \in BOOLEAN
  PROVE  Score(l, Reworded(o, p, i, c, m)).reward = Score(l, o).reward
<1> DEFINE a == Arguments(o.args.shape, m)
           x == [o EXCEPT !.product = p, !.issue = i, !.company = c, !.args = a]
<1>1. o = [parsed |-> TRUE, product |-> o.product, issue |-> o.issue, company |-> o.company,
           urgency |-> o.urgency, flag |-> o.flag, tool |-> o.tool, args |-> o.args]
  BY AnswerShape
<1>2. a.shape = o.args.shape
  BY DEF Arguments
<1> HIDE DEF a
<1>3. /\ x.parsed = TRUE /\ x.product = p /\ x.issue = i /\ x.company = c
      /\ x.urgency = o.urgency /\ x.flag = o.flag /\ x.tool = o.tool /\ x.args = a
  <2>1. DOMAIN o = {"parsed", "product", "issue", "company", "urgency", "flag", "tool", "args"}
        /\ o.parsed = TRUE
    BY <1>1
  <2>. QED BY <2>1
<1> HIDE DEF x
<1>4. IsParsed(x) /\ IsSchemaValid(x)
  BY <1>2, <1>3 DEF IsParsed, IsSchemaValid, ArgumentsValid, Texts
<1>5. DecisionChecks(l, x) = DecisionChecks(l, o)
  BY <1>2, <1>3 DEF DecisionChecks, ArgumentsValid
<1>6. Score(l, x).reward = Score(l, o).reward
  BY <1>4, <1>5, ScoreFields
<1>. QED BY <1>6 DEF x, a, Reworded

(* A derived label is what derive_label asserts of it, and the funnel accepts *)
(* it back unless it quotes a text that says too little.                     *)
LEMMA DerivedSound ==
  ASSUME NEW r \in Rows
  PROVE  /\ IsSchemaValid(DeriveLabel(r))
         /\ Score(DeriveLabel(r), DeriveLabel(r)).success
         /\ Score(DeriveLabel(r), DeriveLabel(r)).reward = 5
         /\ DeriveLabel(r).company = "null" => DeriveLabel(r).tool = "request_more_info"
         /\ IsAbstention(DeriveLabel(r)) <=> MissingFields(r) # {}
         /\ Accepted(Score(DeriveLabel(r), DeriveLabel(r))) <=>
               \/ MissingFields(r) # {} \/ r.resolved
               \/ r.issue = "telling" /\ (r.high \/ r.company = "telling")
<1> DEFINE l == DeriveLabel(r)
           tool == ToolOf(r)
           missing == MissingFields(r) # {}
           quotes == Quotes(tool, r.issue, r.company)
<1>1. /\ l.parsed = TRUE /\ l.product = "card"
      /\ l.issue = (IF r.issue = "absent" THEN "unspecified" ELSE r.issue)
      /\ l.company = (IF r.company = "absent" THEN "null" ELSE r.company)
      /\ l.urgency = UrgencyOf(r)
      /\ l.flag = (IF missing THEN "true" ELSE "false")
      /\ l.tool = tool /\ l.args = ArgumentsFor(r, tool)
  BY DEF DeriveLabel, Ticket
<1>2. tool \in ToolNames /\ (tool = "request_more_info" <=> missing)
  BY DEF ToolOf, ToolNames
<1>3. /\ r.issue = "absent" => missing
      /\ r.company = "absent" => missing
      /\ r.issue \in {"slight", "telling", "absent"}
      /\ r.company \in {"slight", "telling", "absent"}
      /\ r.high \in BOOLEAN /\ r.resolved \in BOOLEAN
  BY DEF MissingFields, Rows, Texts
<1>4. l.args.shape = tool /\ l.args.meaning = quotes
  BY <1>1, <1>2, <1>3 DEF ArgumentsFor, Arguments, ToolNames
<1>5. \E i \in 1..3 : Urgencies[i] = l.urgency
  <2>1. Urgencies[1] = "low" /\ Urgencies[2] = "medium" /\ Urgencies[3] = "high"
    BY DEF Urgencies
  <2>2. l.urgency \in {"low", "medium", "high"}
    BY <1>1 DEF UrgencyOf
  <2>. QED BY <2>1, <2>2
<1>6. /\ tool = "close_no_action" => quotes
      /\ quotes <=> \/ missing \/ r.resolved
                    \/ r.issue = "telling" /\ (r.high \/ r.company = "telling")
  <2>1. CASE missing
    BY <1>2, <2>1 DEF Quotes
  <2>2. CASE ~missing /\ r.resolved
    BY <2>2 DEF ToolOf, Quotes
  <2>3. CASE ~missing /\ ~r.resolved /\ r.high
    <3>1. tool = "escalate_to_regulator"
      BY <2>3 DEF ToolOf, UrgencyOf
    <3>. QED BY <1>3, <2>3, <3>1 DEF Quotes, Meaningful
  <2>4. CASE ~missing /\ ~r.resolved /\ ~r.high
    <3>1. tool \in {"route_to_company", "start_refund_workflow"}
      BY <2>4 DEF ToolOf, UrgencyOf
    <3>. QED BY <1>3, <2>4, <3>1 DEF Quotes, Meaningful
  <2>. QED BY <1>3, <2>1, <2>2, <2>3, <2>4
<1> HIDE DEF l, tool, missing, quotes
<1>7. IsSchemaValid(l)
  BY <1>1, <1>2, <1>3, <1>4, <1>5 DEF IsSchemaValid, IsParsed, ArgumentsValid, Products
<1>8. DecisionChecks(l, l) = Decisions
  BY <1>1, <1>2, <1>4 DEF DecisionChecks, Decisions, ArgumentsValid
<1>9. "arguments_semantic" \in SecondaryMetrics(l, l) <=> quotes
  BY <1>1, <1>2, <1>4, <1>6 DEF SecondaryMetrics, SemanticallyValid, ArgumentsValid
<1>10. Score(l, l).valid /\ Score(l, l).success /\ Score(l, l).reward = 5
  <2>1. Score(l, l).valid /\ Score(l, l).success
    BY <1>1, <1>7, <1>8, ScoreFields DEF IsParsed
  <2>2. l.parsed \in BOOLEAN
    BY <1>1
  <2>3. (Score(l, l).reward = 5) <=> Score(l, l).success
    BY <2>2, FullOnSuccess
  <2>. QED BY <2>1, <2>3
<1>11. Accepted(Score(l, l)) <=> quotes
  BY <1>1, <1>9, <1>10, ScoreFields DEF Accepted, IsParsed
<1>12. /\ l.company = "null" => l.tool = "request_more_info"
       /\ IsAbstention(l) <=> missing
  BY <1>1, <1>2, <1>3 DEF IsAbstention
<1>. QED BY <1>6, <1>7, <1>10, <1>11, <1>12 DEF l, missing

(* An accepted answer has the label's urgency: the next one in the cycle is  *)
(* valid and pays less.                                                      *)
LEMMA CycleIsWorse ==
  ASSUME NEW l, NEW o \in Answers, Accepted(Score(l, o))
  PROVE  /\ IsSchemaValid(o) /\ IsSchemaValid(CycleUrgency(o))
         /\ Score(l, CycleUrgency(o)).reward < Score(l, o).reward
<1>1. IsParsed(o) /\ IsSchemaValid(o) /\ DecisionChecks(l, o) = Decisions /\ Score(l, o).success
  <2>1. IsParsed(o)
    BY DEF Accepted, Score, Zero
  <2>. QED BY <2>1, ScoreFields DEF Accepted
<1>2. o.urgency = l.urgency
  BY <1>1 DEF DecisionChecks, Decisions
<1> DEFINE i == CHOOSE n \in 1..3 : Urgencies[n] = o.urgency
           next == Urgencies[(i % 3) + 1]
           x == CycleUrgency(o)
<1>3. i \in 1..3 /\ Urgencies[i] = o.urgency
  BY <1>1 DEF IsSchemaValid
<1>4. x = [o EXCEPT !.urgency = next]
  BY DEF CycleUrgency
<1>5. next # o.urgency /\ \E n \in 1..3 : Urgencies[n] = next
  <2>1. Urgencies[1] = "low" /\ Urgencies[2] = "medium" /\ Urgencies[3] = "high"
    BY DEF Urgencies
  <2> HIDE DEF i
  <2>2. (i % 3) + 1 \in 1..3 /\ (i % 3) + 1 # i
    <3>1. i \in {1, 2, 3}
      BY <1>3
    <3>. QED BY <3>1
  <2>. QED BY <1>3, <2>1, <2>2
<1> HIDE DEF i, next, x
<1>6. /\ x.parsed = o.parsed /\ x.product = o.product /\ x.issue = o.issue /\ x.company = o.company
      /\ x.flag = o.flag /\ x.tool = o.tool /\ x.args = o.args /\ x.urgency = next
  <2>1. o = [parsed |-> TRUE, product |-> o.product, issue |-> o.issue, company |-> o.company,
             urgency |-> o.urgency, flag |-> o.flag, tool |-> o.tool, args |-> o.args]
    BY <1>1, AnswerShape
  <2>2. DOMAIN o = {"parsed", "product", "issue", "company", "urgency", "flag", "tool", "args"}
    BY <2>1
  <2>. QED BY <1>4, <2>2
<1>7. IsParsed(x) /\ IsSchemaValid(x) /\ x.parsed \in BOOLEAN
  BY <1>1, <1>5, <1>6, AnswerShape DEF IsParsed, IsSchemaValid
<1>8. "urgency" \notin DecisionChecks(l, x)
  BY <1>2, <1>5, <1>6 DEF DecisionChecks
<1>9. ~Score(l, x).success
  BY <1>7, <1>8, ScoreFields DEF Decisions
<1>10. Score(l, x).reward \in 0..5 /\ Score(l, x).reward # 5 /\ Score(l, o).reward = 5
  <2>1. o.parsed \in BOOLEAN
    BY AnswerShape
  <2>2. Score(l, o).reward = 5
    BY <1>1, <2>1, FullOnSuccess
  <2>3. Score(l, x).reward \in 0..5 /\ Score(l, x).reward # 5
    BY <1>7, <1>9, FullOnSuccess
  <2>. QED BY <2>2, <2>3
<1>. QED BY <1>1, <1>7, <1>10 DEF x

(* From every place of the taxonomy the urgency is reached, so the first     *)
(* perturbation that is valid and pays less exists.                          *)
LEMMA NearMissFound ==
  ASSUME NEW l, NEW o \in Answers, Accepted(Score(l, o)),
         NEW start \in 0..2, NEW offset, NEW source
  PROVE  /\ IsSchemaValid(PerturbNearMiss(o, l, start, offset, source))
         /\ Score(l, PerturbNearMiss(o, l, start, offset, source)).reward < Score(l, o).reward
<1> DEFINE name(k) == Taxonomy[((start + k) % 3) + 1]
           miss(k) == ApplyPerturbation(name(k), o, offset, source)
           lower(k) == /\ IsSchemaValid(miss(k))
                       /\ Score(l, miss(k)).reward < Score(l, o).reward
           first == CHOOSE k \in 0..2 : lower(k) /\ \A j \in 0..(k - 1) : ~lower(j)
<1>1. PerturbNearMiss(o, l, start, offset, source)
        = IF \E k \in 0..2 : lower(k) THEN miss(first) ELSE Unparsed
  BY DEF PerturbNearMiss
<1>2. PICK k \in 0..2 : (start + k) % 3 = 0
  <2>1. CASE start = 0
    BY <2>1
  <2>2. CASE start = 1
    BY <2>2
  <2>3. CASE start = 2
    BY <2>3
  <2>. QED BY <2>1, <2>2, <2>3
<1>3. miss(k) = CycleUrgency(o)
  BY <1>2 DEF Taxonomy, ApplyPerturbation
<1>4. lower(k)
  BY <1>3, CycleIsWorse
<1> HIDE DEF lower
<1>5. \E n \in 0..2 : lower(n) /\ \A j \in 0..(n - 1) : ~lower(j)
  <2>1. CASE lower(0)
    BY <2>1
  <2>2. CASE ~lower(0) /\ lower(1)
    BY <2>2
  <2>3. CASE ~lower(0) /\ ~lower(1)
    <3>1. lower(2)
      BY <1>2, <1>4, <2>3
    <3>2. \A j \in 0..1 : ~lower(j)
      BY <2>3
    <3>. QED BY <3>1, <3>2
  <2>. QED BY <2>1, <2>2, <2>3
<1>6. lower(first)
  BY <1>5
<1>. QED BY <1>1, <1>4, <1>6 DEF lower

(* A label is a derived one, an answer one of the answers, and a pair was    *)
(* made of an accepted answer.                                               *)
ScoringInv ==
    /\ row \in Rows
    /\ label # None => \E r \in Rows : label = DeriveLabel(r)
    /\ answer # None => label # None /\ answer \in Answers
    /\ rejected # None =>
          /\ answer # None /\ IsSchemaValid(answer) /\ IsSchemaValid(rejected)
          /\ Score(label, rejected).reward < Score(label, answer).reward

THEOREM ScoringInvariant == ScoringSpec => []ScoringInv
<1>1. ScoringInit => ScoringInv
  BY DEF ScoringInit, ScoringInv
<1>2. ASSUME ScoringInv, [ScoringNext]_scoring_vars PROVE ScoringInv'
  <2>1. CASE Derive
    <3>1. row' \in Rows
      BY <1>2, <2>1 DEF Derive, ScoringInv, Rows, Texts
    <3>2. answer' = None /\ rejected' = None
      BY <1>2, <2>1 DEF Derive, ScoringInv
    <3>. QED BY <1>2, <2>1, <3>1, <3>2 DEF Derive, ScoringInv
  <2>2. ASSUME NEW o \in Answers, Answer(o) PROVE ScoringInv'
    BY <1>2, <2>2 DEF Answer, ScoringInv
  <2>3. ASSUME NEW start \in 0..2, NEW offset \in 0..4, Pair(start, offset) PROVE ScoringInv'
    <3>1. answer \in Answers /\ Accepted(Score(label, answer))
          /\ rejected' = PerturbNearMiss(answer, label, start, offset, row.company)
          /\ UNCHANGED <<row, label, answer>>
      BY <1>2, <2>3 DEF Pair, ScoringInv
    <3>2. /\ IsSchemaValid(rejected') /\ IsSchemaValid(answer)
          /\ Score(label, rejected').reward < Score(label, answer).reward
      BY <3>1, NearMissFound, CycleIsWorse
    <3>. QED BY <1>2, <2>3, <3>1, <3>2 DEF Pair, ScoringInv
  <2>4. CASE UNCHANGED scoring_vars
    BY <1>2, <2>4 DEF scoring_vars, ScoringInv
  <2>. QED BY <1>2, <2>1, <2>2, <2>3, <2>4 DEF ScoringNext, Done
<1>. QED BY <1>1, <1>2, PTL DEF ScoringSpec

(* LabelsAreSound (derive_label): every label is schema valid, scores full   *)
(* marks against itself, abstains exactly when a field is missing, and is    *)
(* refused by the funnel only for a text it quotes.                          *)
THEOREM AlwaysLabelsAreSound == ScoringSpec => []LabelsAreSound
<1>1. ScoringInv => LabelsAreSound
  BY DerivedSound DEF ScoringInv, LabelsAreSound
<1>. QED BY <1>1, ScoringInvariant, PTL

(* RewardIsForDecisions (score): the reward is full exactly on success, and  *)
(* no product, issue, company or wording moves it.                           *)
THEOREM AlwaysRewardIsForDecisions == ScoringSpec => []RewardIsForDecisions
<1>1. ScoringInv => RewardIsForDecisions
  <2> SUFFICES ASSUME ScoringInv, answer # None
               PROVE  /\ (Score(label, answer).reward = 5) <=> Score(label, answer).success
                      /\ (IsParsed(answer) /\ Score(label, answer).valid) =>
                           \A p \in Products, i \in Texts, c \in Texts \cup {"null"},
                              m \in BOOLEAN :
                             Score(label, [answer EXCEPT !.product = p, !.issue = i, !.company = c,
                                                         !.args = Arguments(@.shape, m)]).reward
                               = Score(label, answer).reward
    BY DEF RewardIsForDecisions
  <2>1. answer \in Answers
    BY DEF ScoringInv
  <2>2. IsParsed(answer) => Score(label, answer).valid = IsSchemaValid(answer)
    BY ScoreFields
  <2>3. (Score(label, answer).reward = 5) <=> Score(label, answer).success
    <3>1. answer.parsed \in BOOLEAN
      BY <2>1, AnswerShape
    <3>. QED BY <3>1, FullOnSuccess
  <2>4. ASSUME IsParsed(answer), Score(label, answer).valid,
               NEW p \in Products, NEW i \in Texts, NEW c \in Texts \cup {"null"},
               NEW m \in BOOLEAN
        PROVE  Score(label, [answer EXCEPT !.product = p, !.issue = i, !.company = c,
                                           !.args = Arguments(@.shape, m)]).reward
                 = Score(label, answer).reward
    <3>1. IsSchemaValid(answer)
      BY <2>2, <2>4
    <3>2. Score(label, Reworded(answer, p, i, c, m)).reward = Score(label, answer).reward
      BY <2>1, <2>4, <3>1, MetadataDoesNotPay
    <3>. QED BY <3>2 DEF Reworded
  <2>. QED BY <2>3, <2>4
<1>. QED BY <1>1, ScoringInvariant, PTL

(* NearMissIsWorse (perturb_near_miss): an accepted answer always has a      *)
(* rejected partner that is valid and pays strictly less.                    *)
THEOREM AlwaysNearMissIsWorse == ScoringSpec => []NearMissIsWorse
<1>1. ScoringInv => NearMissIsWorse
  BY DEF ScoringInv, NearMissIsWorse
<1>. QED BY <1>1, ScoringInvariant, PTL
=============================================================================
