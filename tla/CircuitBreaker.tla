---------------------------- MODULE CircuitBreaker ----------------------------
(***************************************************************************)
(* The per-route circuit breaker (gateway/src/circuit_breaker.cpp), as     *)
(* operators on its state.  Each method holds the breaker's mutex          *)
(* throughout, so a call is one operator; allow is split into what it      *)
(* answers (Allows) and what it leaves behind (AfterAllow).                *)
(***************************************************************************)
EXTENDS Integers

CONSTANTS
  FailureThreshold,  \* failure_threshold
  RecoveryTimeout    \* recovery_timeout

(* The constructor refuses every other configuration.                      *)
ASSUME CircuitConfig ==
  /\ FailureThreshold \in Nat \ {0}
  /\ RecoveryTimeout \in Nat \ {0}

CircuitStates == {"closed", "open", "half_open"}

Breaker ==
  [state : CircuitStates, consecutive_failures : Nat,
   probe_in_flight : BOOLEAN, opened_at : Nat]

InitBreaker ==
  [state |-> "closed", consecutive_failures |-> 0,
   probe_in_flight |-> FALSE, opened_at |-> 0]

RecoveryElapsed(b, now) == now - b.opened_at >= RecoveryTimeout

(* Mutant of PeekAvailable: the recovery interval is not waited for.       *)
PeekAnyTime(b, now) == b.state # "half_open" \/ ~b.probe_in_flight

PeekAvailable(b, now) ==
  \/ b.state = "closed"
  \/ b.state = "half_open" /\ ~b.probe_in_flight
  \/ b.state = "open" /\ RecoveryElapsed(b, now)

(* allow: the same three cases; outside the closed state the attempt it    *)
(* lets through is the probe.                                              *)
Allows(b, now) ==
  \/ b.state = "closed"
  \/ b.state = "open" /\ RecoveryElapsed(b, now)
  \/ b.state = "half_open" /\ ~b.probe_in_flight

(* Mutant of AfterAllow: the probe is not noted.                           *)
AfterAllowUnnoted(b, now) ==
  IF b.state = "closed" \/ ~Allows(b, now) THEN b
  ELSE [b EXCEPT !.state = "half_open"]

AfterAllow(b, now) ==
  IF b.state = "closed" \/ ~Allows(b, now) THEN b
  ELSE [b EXCEPT !.state = "half_open", !.probe_in_flight = TRUE]

(* Mutant of RecordSuccess: the count of failures goes on.                 *)
RecordSuccessUncounted(b) ==
  [b EXCEPT !.state = "closed", !.probe_in_flight = FALSE]

RecordSuccess(b) ==
  [b EXCEPT !.state = "closed", !.consecutive_failures = 0,
            !.probe_in_flight = FALSE]

(* record_failure: a failed probe or a late failure reopens or keeps open; *)
(* a closed circuit opens at the threshold.                                *)
Reopen(b, now) ==
  [b EXCEPT !.state = "open", !.probe_in_flight = FALSE, !.opened_at = now]

(* Mutant of RecordFailure: a failure in the open state changes nothing.   *)
RecordFailureOnce(b, now) ==
  CASE b.state = "half_open" ->
         [Reopen(b, now) EXCEPT !.consecutive_failures = FailureThreshold]
    [] b.state = "open" -> b
    [] b.state = "closed" ->
         LET failures == b.consecutive_failures + 1 IN
         IF failures >= FailureThreshold
         THEN [Reopen(b, now) EXCEPT !.consecutive_failures = failures]
         ELSE [b EXCEPT !.consecutive_failures = failures]

RecordFailure(b, now) ==
  CASE b.state = "half_open" ->
         [Reopen(b, now) EXCEPT !.consecutive_failures = FailureThreshold]
    [] b.state = "open" -> Reopen(b, now)
    [] b.state = "closed" ->
         LET failures == b.consecutive_failures + 1 IN
         IF failures >= FailureThreshold
         THEN [Reopen(b, now) EXCEPT !.consecutive_failures = failures]
         ELSE [b EXCEPT !.consecutive_failures = failures,
                        !.probe_in_flight = FALSE]
=============================================================================
