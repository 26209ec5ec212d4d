----------------------------- MODULE RateLimiter -----------------------------
(***************************************************************************)
(* The per-client rate limiter (gateway/src/rate_limiter.cpp): a token     *)
(* bucket for requests and one for work per client, in a map of at most    *)
(* MaxClients clients.                                                     *)
(*                                                                         *)
(* The doubles of the code are fractions here: a token is counted in Unit  *)
(* equal parts, and rates, bursts and buckets are whole numbers of parts,  *)
(* so that Unit = 50 and RequestRate = 1 are 0.02 requests per tick.  What *)
(* is abstracted is the rounding error of the doubles.  A tick of the      *)
(* clock is a millisecond, and a wait is rounded up to a tick as in the    *)
(* code.  allow holds the mutex throughout and is always called with the   *)
(* steady clock's present time.                                            *)
(***************************************************************************)
EXTENDS SteadyClock, FiniteSets

CONSTANTS
  Clients,
  Unit,          \* the parts in a token or a request
  RequestRate,   \* requests_per_second, in parts per tick
  RequestBurst,  \* request_burst, in parts
  TokenRate,     \* tokens_per_second, in parts per tick
  TokenBurst,    \* token_burst, in parts
  MaxClients,    \* max_clients
  IdleTtl,       \* idle_ttl
  Works          \* the estimates that requests bring, in whole tokens

(* The constructor refuses rates that are not positive and bursts below    *)
(* one; all others, taken as fractions, have some common Unit.             *)
ASSUME RateLimitConfig ==
  /\ Unit \in Nat \ {0}
  /\ RequestRate \in Nat \ {0} /\ RequestBurst \in Nat /\ RequestBurst >= Unit
  /\ TokenRate \in Nat \ {0} /\ TokenBurst \in Nat /\ TokenBurst >= Unit
  /\ MaxClients \in Nat \ {0}
  /\ IdleTtl \in Nat
  /\ Works \subseteq Nat

VARIABLES
  clients,  \* clients_: a bucket for each known client
  granted   \* history: since when each bucket exists and what it let through

vars == <<clients, now, granted>>

Bucket == [request_tokens : Nat, work_tokens : Nat,
           updated_at : Nat, last_seen : Nat]

FullBucket ==
  [request_tokens |-> RequestBurst, work_tokens |-> TokenBurst,
   updated_at |-> now, last_seen |-> now]

LeastOf(a, b) == IF a < b THEN a ELSE b
LargestOf(a, b) == IF a > b THEN a ELSE b
CeilDiv(a, b) == (a + b - 1) \div b

(* Mutant of RefillLocked: the same elapsed time is credited again.        *)
RefillAgain(bucket, time) ==
  LET elapsed == LargestOf(time, bucket.updated_at) - bucket.updated_at IN
  [bucket EXCEPT
     !.request_tokens = LeastOf(RequestBurst, @ + elapsed * RequestRate),
     !.work_tokens = LeastOf(TokenBurst, @ + elapsed * TokenRate)]

RefillLocked(bucket, time) ==
  LET elapsed == LargestOf(time, bucket.updated_at) - bucket.updated_at IN
  [bucket EXCEPT
     !.request_tokens = LeastOf(RequestBurst, @ + elapsed * RequestRate),
     !.work_tokens = LeastOf(TokenBurst, @ + elapsed * TokenRate),
     !.updated_at = time]

(* Mutant: the most recently seen client is the victim. *)
KeptStale ==
  IF Cardinality(DOMAIN clients) < MaxClients THEN {DOMAIN clients}
  ELSE {K \in SUBSET DOMAIN clients :
          /\ Cardinality(K) = MaxClients - 1
          /\ \A k \in K, victim \in DOMAIN clients \ K :
               clients[k].last_seen <= clients[victim].last_seen}

(* prune_locked: at the bound the idle clients go, and if that is not      *)
(* enough the least recently seen do; which of several seen at the same    *)
(* time is up to the order of the hash map.                                *)
Kept ==
  LET live == {c \in DOMAIN clients : now - clients[c].last_seen < IdleTtl} IN
  IF Cardinality(DOMAIN clients) < MaxClients THEN {DOMAIN clients}
  ELSE IF Cardinality(live) < MaxClients THEN {live}
  ELSE {K \in SUBSET live :
          /\ Cardinality(K) = MaxClients - 1
          /\ \A k \in K, victim \in live \ K :
               clients[victim].last_seen <= clients[k].last_seen}

(* The bucket a call finds once the map is pruned to the clients in K.     *)
FoundBucket(client, K) ==
  IF client \in K
  THEN [RefillLocked(clients[client], now) EXCEPT !.last_seen = now]
  ELSE FullBucket

Admits(bucket, work) ==
  bucket.request_tokens >= Unit /\ bucket.work_tokens >= work * Unit

Spend(bucket, work) ==
  [bucket EXCEPT !.request_tokens = @ - Unit, !.work_tokens = @ - work * Unit]

(* Mutant of RetryAfter: the two waits are added up.                       *)
RetryAfterSum(bucket, work) ==
  LET request_wait == IF bucket.request_tokens >= Unit THEN 0
                      ELSE CeilDiv(Unit - bucket.request_tokens, RequestRate)
      token_wait == IF bucket.work_tokens >= work * Unit THEN 0
                    ELSE CeilDiv(work * Unit - bucket.work_tokens, TokenRate)
  IN request_wait + token_wait

RetryAfter(bucket, work) ==
  LET request_wait == IF bucket.request_tokens >= Unit THEN 0
                      ELSE CeilDiv(Unit - bucket.request_tokens, RequestRate)
      token_wait == IF bucket.work_tokens >= work * Unit THEN 0
                    ELSE CeilDiv(work * Unit - bucket.work_tokens, TokenRate)
  IN LargestOf(request_wait, token_wait)

-----------------------------------------------------------------------------
Init ==
  /\ clients = [c \in {} |-> FullBucket]
  /\ now = 0
  /\ granted = [c \in Clients |-> [since |-> 0, requests |-> 0, work |-> 0]]

(* The history of a client whose bucket is new starts over.                *)
HistoryOf(client, K) ==
  IF client \in K THEN granted[client]
  ELSE [since |-> now, requests |-> 0, work |-> 0]

Allow(client, work) ==
  \E K \in Kept :
    LET bucket == FoundBucket(client, K)
        history == HistoryOf(client, K)
        allowed == Admits(bucket, work)
    IN /\ clients' = [c \in K \cup {client} |->
                        IF c # client THEN clients[c]
                        ELSE IF allowed THEN Spend(bucket, work) ELSE bucket]
       /\ granted' = [granted EXCEPT ![client] =
                        IF allowed
                        THEN [history EXCEPT !.requests = @ + 1,
                                             !.work = @ + work]
                        ELSE history]
       /\ UNCHANGED now

Tick ==
  /\ Advance
  /\ UNCHANGED <<clients, granted>>

Next ==
  \/ \E client \in Clients, work \in Works : Allow(client, work)
  \/ Tick

Spec == Init /\ [][Next]_vars

-----------------------------------------------------------------------------
(* As long as a bucket lives, its client is granted no more than one burst *)
(* and what the rate has added since, whatever the pattern of its calls.   *)
BudgetSinceInsertion ==
  \A c \in DOMAIN clients :
    LET age == now - granted[c].since IN
    /\ granted[c].requests * Unit <= RequestBurst + age * RequestRate
    /\ granted[c].work * Unit <= TokenBurst + age * TokenRate

(* A Retry-After is exact: the call it answers succeeds if repeated after  *)
(* that wait and would fail one tick earlier.  A request for more work     *)
(* than a full bucket holds is the exception.                              *)
RetryAfterExact ==
  \A client \in Clients, work \in Works, K \in Kept :
    LET bucket == FoundBucket(client, K)
        wait == RetryAfter(bucket, work)
    IN ~Admits(bucket, work) /\ work * Unit <= TokenBurst =>
         /\ Admits(RefillLocked(bucket, now + wait), work)
         /\ ~Admits(RefillLocked(bucket, now + wait - 1), work)

(* The map keeps within its bound, and a client loses its bucket, and with *)
(* it what it owes, only when the map is at that bound, and only if it was *)
(* idle or no survivor was seen before it did.                             *)
EvictsLeastRecent ==
  [][/\ Cardinality(DOMAIN clients') <= MaxClients
     /\ \A c \in DOMAIN clients \ DOMAIN clients' :
          /\ Cardinality(DOMAIN clients) >= MaxClients
          /\ \/ now - clients[c].last_seen >= IdleTtl
             \/ \A k \in DOMAIN clients \cap DOMAIN clients' :
                  clients[k].last_seen >= clients[c].last_seen]_vars
=============================================================================
