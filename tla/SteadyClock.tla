----------------------------- MODULE SteadyClock -----------------------------
(***************************************************************************)
(* The steady clock by which the gateway's admission controller, rate      *)
(* limiter, circuit breakers and timers decide (std::chrono::steady_clock, *)
(* injected as a parameter in the code): a counter of ticks that never     *)
(* goes back.                                                              *)
(***************************************************************************)
EXTENDS Integers

CONSTANT MaxTime  \* bound: the last instant of the clock

ASSUME ClockBound == MaxTime \in Nat

VARIABLE now

Advance ==
  /\ now < MaxTime
  /\ now' = now + 1
=============================================================================
