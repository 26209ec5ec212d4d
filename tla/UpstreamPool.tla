----------------------------- MODULE UpstreamPool -----------------------------
(***************************************************************************)
(* One upstream route of the gateway (gateway/src/upstream_pool.cpp): its  *)
(* health flag, its circuit breaker and its bounded pool of keep-alive     *)
(* connections, as operators on the route's state.                         *)
(*                                                                         *)
(* A connection's socket is "closed", "opening" (async_connect is pending) *)
(* or "open".  Closing it aborts the operation pending on it.              *)
(***************************************************************************)
EXTENDS CircuitBreaker

CONSTANT PoolSize  \* connection_pool_size

ASSUME PoolConfig == PoolSize \in Nat \ {0}

Connections == 1..PoolSize
Sockets == {"closed", "opening", "open"}

Upstream ==
  [healthy : BOOLEAN, breaker : Breaker,
   in_use : [Connections -> BOOLEAN], socket : [Connections -> Sockets]]

InitUpstream ==
  [healthy |-> TRUE, breaker |-> InitBreaker,
   in_use |-> [c \in Connections |-> FALSE],
   socket |-> [c \in Connections |-> "closed"]]

Available(u, now) == u.healthy /\ PeekAvailable(u.breaker, now)

(* allow_attempt: an unhealthy route does not ask the breaker.             *)
AllowsAttempt(u, now) == u.healthy /\ Allows(u.breaker, now)

AfterAllowAttempt(u, now) ==
  IF u.healthy THEN [u EXCEPT !.breaker = AfterAllow(@, now)] ELSE u

RecordSuccessOn(u) == [u EXCEPT !.breaker = RecordSuccess(@)]
RecordFailureOn(u, now) == [u EXCEPT !.breaker = RecordFailure(@, now)]

(* acquire takes the first connection not in use; an idle socket that the  *)
(* upstream has closed, or sent bytes on, is closed first.                 *)
FreeConnections(u) == {c \in Connections : ~u.in_use[c]}

FirstFree(u) ==
  CHOOSE c \in FreeConnections(u) : \A d \in FreeConnections(u) : c <= d

StaleIdle(u, c) == IF u.socket[c] = "open" THEN BOOLEAN ELSE {FALSE}

Acquire(u, c, stale) ==
  [u EXCEPT !.in_use[c] = TRUE,
            !.socket[c] = IF stale THEN "closed" ELSE @]

SetSocket(u, c, socket) == [u EXCEPT !.socket[c] = socket]

(* Mutant of Release: a connection that is closed is not given back.       *)
ReleaseReusable(u, c, reusable) ==
  IF reusable THEN [u EXCEPT !.in_use[c] = FALSE]
  ELSE SetSocket(u, c, "closed")

Release(u, c, reusable) ==
  [u EXCEPT !.in_use[c] = FALSE,
            !.socket[c] = IF reusable THEN @ ELSE "closed"]

(* cancel closes the connection, whoever is using it by now; stop cancels  *)
(* every connection of the pool.                                           *)
CancelConnection(u, c) == SetSocket(u, c, "closed")

CancelAll(u) == [u EXCEPT !.socket = [c \in Connections |-> "closed"]]
=============================================================================
