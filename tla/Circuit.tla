------------------------------- MODULE Circuit -------------------------------
(***************************************************************************)
(* One route's circuit breaker among the requests proxied over the route.  *)
(*                                                                         *)
(* A request asks allow before its attempt.  proxy_request then records an *)
(* outcome when the response header arrives (5xx is a failure, anything    *)
(* else a success), and a failure for a transport error before or after    *)
(* the header.  It records nothing when the client has gone, when no pool  *)
(* connection was obtained, or when the attempt ends after its header      *)
(* without an upstream error.  Attempts of several requests overlap freely.*)
(*                                                                         *)
(* streak, failed_at and trials are history variables: what was recorded   *)
(* and let through, kept apart from the breaker's own fields.  Init, Next  *)
(* and Spec carry the module's name, so that RateLimiter, which runs by    *)
(* the same clock, can be extended beside this module.                     *)
(***************************************************************************)
EXTENDS CircuitBreaker, SteadyClock, FiniteSets

CONSTANT Requests  \* the requests that may be under way at once

VARIABLES
  breaker,    \* the breaker
  attempt,    \* each request's attempt
  streak,     \* failures recorded since the last success, up to the threshold
  failed_at,  \* the time of the last recorded failure
  trials      \* attempts let through a tripped breaker since an outcome

circuit_vars == <<breaker, now, attempt, streak, failed_at, trials>>

Attempts == {"idle", "in_flight", "responded"}

CircuitInit ==
  /\ breaker = InitBreaker
  /\ now = 0
  /\ attempt = [r \in Requests |-> "idle"]
  /\ streak = 0
  /\ failed_at = 0
  /\ trials = 0

Tripped == breaker.state # "closed"

UpTo(bound, n) == IF n > bound THEN bound ELSE n

(* proxy_request begins: the attempt is let through, or the request fails  *)
(* with 503.                                                               *)
Begin(r) ==
  /\ attempt[r] = "idle"
  /\ Allows(breaker, now)
  /\ breaker' = AfterAllow(breaker, now)
  /\ attempt' = [attempt EXCEPT ![r] = "in_flight"]
  /\ trials' = IF Tripped THEN trials + 1 ELSE trials
  /\ UNCHANGED <<now, streak, failed_at>>

Refuse(r) ==
  /\ attempt[r] = "idle"
  /\ ~Allows(breaker, now)
  /\ breaker' = AfterAllow(breaker, now)
  /\ UNCHANGED <<now, attempt, streak, failed_at, trials>>

Succeed ==
  /\ breaker' = RecordSuccess(breaker)
  /\ streak' = 0
  /\ trials' = 0
  /\ UNCHANGED failed_at

Fail ==
  /\ breaker' = RecordFailure(breaker, now)
  /\ streak' = UpTo(FailureThreshold, streak + 1)
  /\ failed_at' = now
  /\ trials' = 0

End(r) == attempt' = [attempt EXCEPT ![r] = "idle"]

Header(r) ==
  /\ attempt[r] = "in_flight"
  /\ Succeed
  /\ attempt' = [attempt EXCEPT ![r] = "responded"]
  /\ UNCHANGED now

Header5xx(r) ==
  /\ attempt[r] = "in_flight"
  /\ Fail
  /\ attempt' = [attempt EXCEPT ![r] = "responded"]
  /\ UNCHANGED now

TransportError(r) ==
  /\ attempt[r] # "idle"
  /\ Fail
  /\ End(r)
  /\ UNCHANGED now

Finish(r) ==
  /\ attempt[r] = "responded"
  /\ End(r)
  /\ UNCHANGED <<breaker, now, streak, failed_at, trials>>

(* The client has gone or no connection was obtained: nothing is recorded. *)
Abandon(r) ==
  /\ attempt[r] = "in_flight"
  /\ End(r)
  /\ UNCHANGED <<breaker, now, streak, failed_at, trials>>

CircuitTick ==
  /\ Advance
  /\ UNCHANGED <<breaker, attempt, streak, failed_at, trials>>

CircuitNext ==
  \/ \E r \in Requests :
       \/ Begin(r)
       \/ Refuse(r)
       \/ Header(r)
       \/ Header5xx(r)
       \/ TransportError(r)
       \/ Finish(r)
       \/ Abandon(r)
  \/ CircuitTick

CircuitSpec == CircuitInit /\ [][CircuitNext]_circuit_vars

-----------------------------------------------------------------------------
(* Every variable has its type.                                            *)
TypeOK ==
  /\ breaker \in Breaker
  /\ now \in 0..MaxTime
  /\ attempt \in [Requests -> Attempts]
  /\ streak \in 0..FailureThreshold
  /\ failed_at \in 0..now
  /\ trials \in Nat

(* The breaker is tripped exactly while the last FailureThreshold outcomes *)
(* recorded were failures, however the outcomes of overlapping attempts    *)
(* were ordered: no early trip, no trip survives a success.                *)
TripsOnStreak ==
  /\ Tripped <=> streak = FailureThreshold
  /\ breaker.consecutive_failures = streak

(* Between two recorded outcomes a tripped breaker lets one attempt        *)
(* through, and half_open always means it is still unanswered: allow's     *)
(* last case, a second probe in the half-open state, is never reached.     *)
OneTrialPerOutcome ==
  /\ trials = (IF breaker.state = "half_open" THEN 1 ELSE 0)
  /\ breaker.probe_in_flight <=> breaker.state = "half_open"

(* After a failure that leaves the breaker tripped the route is left alone *)
(* for the whole recovery interval, counted from the latest failure.       *)
QuietAfterFailure ==
  [][\A r \in Requests :
       Tripped /\ attempt[r] = "idle" /\ attempt'[r] # "idle"
         => now >= failed_at + RecoveryTimeout]_circuit_vars

(* The two invariants and what makes them inductive.                       *)
IndInv ==
  /\ TypeOK
  /\ TripsOnStreak
  /\ OneTrialPerOutcome
  /\ Tripped => breaker.opened_at = failed_at
=============================================================================
