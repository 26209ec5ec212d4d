------------------------- MODULE AdmissionController -------------------------
(***************************************************************************)
(* The token-budget admission controller of the gateway                    *)
(* (gateway/src/admission.cpp), as operators on the controller's state.    *)
(*                                                                         *)
(* Every public method of the C++ class holds one mutex from its first to  *)
(* its last access, so a call is one operator from a controller state to a *)
(* controller state and an answer.  The state is the record                *)
(*                                                                         *)
(*   next_id          next_id_, the one counter tickets and leases share   *)
(*   active_tokens    active_primary_tokens_ and active_fallback_tokens_   *)
(*   active           active_, the leases that hold capacity               *)
(*   queue            queue_, a set: push_back always appends the greatest *)
(*                    id and nothing reorders, so deque order is id order  *)
(*   queue_tokens     queue_tokens_                                        *)
(*   ready            ready_, leases granted to tickets, not yet polled    *)
(*   terminal         terminal_, the tickets that expired in the queue     *)
(*   max_requests     max_observed_queue_requests_                         *)
(*   max_tokens       max_observed_queue_tokens_                           *)
(*   ewma             service_time_ewma_ms_, rounded to a natural          *)
(*                                                                         *)
(* A std::optional is a set of at most one element.  Retry-after hints and *)
(* reason strings are left out: no decision reads them.                    *)
(***************************************************************************)
EXTENDS Integers, FiniteSets

CONSTANTS
  PrimaryCapacity,     \* primary_token_capacity
  FallbackCapacity,    \* fallback_token_capacity
  MaxQueueRequests,    \* max_queue_requests
  MaxQueueTokens,      \* max_queue_tokens
  DegradeNum,          \* degrade_utilization is DegradeNum / DegradeDen
  DegradeDen,
  InitialServiceTime,  \* initial_service_time
  MinExecutionBudget,  \* minimum_execution_budget
  MaxUInt64            \* the greatest std::uint64_t

(* The constructor refuses every other configuration; the capacities are   *)
(* themselves std::uint64_t.                                               *)
ASSUME AdmissionConfig ==
  /\ MaxUInt64 \in Nat
  /\ PrimaryCapacity \in 1..MaxUInt64
  /\ FallbackCapacity \in 1..MaxUInt64
  /\ MaxQueueRequests \in Nat \ {0}
  /\ MaxQueueTokens \in 1..MaxUInt64
  /\ DegradeDen \in Nat \ {0}
  /\ DegradeNum \in 0..DegradeDen
  /\ InitialServiceTime \in Nat \ {0}
  /\ MinExecutionBudget \in Nat

Routes == {"primary", "fallback"}

Capacity(route) ==
  IF route = "primary" THEN PrimaryCapacity ELSE FallbackCapacity

Availability == [primary : BOOLEAN, fallback : BOOLEAN]

Lease == [id : Nat, route : Routes, tokens : Nat]
QueueEntry == [id : Nat, tokens : Nat, deadline : Nat, allow_degrade : BOOLEAN]
ReadyEntry == [ticket : Nat, lease : Lease]

Controller ==
  [next_id : Nat \ {0}, active_tokens : [Routes -> Nat], active : SUBSET Lease,
   queue : SUBSET QueueEntry, queue_tokens : Nat, ready : SUBSET ReadyEntry,
   terminal : SUBSET Nat, max_requests : Nat, max_tokens : Nat, ewma : Nat]

InitController ==
  [next_id |-> 1, active_tokens |-> [r \in Routes |-> 0], active |-> {},
   queue |-> {}, queue_tokens |-> 0, ready |-> {}, terminal |-> {},
   max_requests |-> 0, max_tokens |-> 0, ewma |-> InitialServiceTime]

-----------------------------------------------------------------------------
(* A set of leases or queue entries, counted in tokens: each record stands *)
(* for as many units as it has tokens, and the sum is how many there are.  *)

Units(S) == UNION {{e.id} \X (1..e.tokens) : e \in S}
TokensOf(S) == Cardinality(Units(S))

LeasesOn(c, route) == {l \in c.active : l.route = route}
ReadyTickets(c) == {g.ticket : g \in c.ready}
ReadyLeases(c) == {g.lease : g \in c.ready}
QueuedTickets(c) == {e.id : e \in c.queue}

(* Mutant of SaturatingAdd: the sum wraps at 64 bits.                      *)
WrappingAdd(lhs, rhs) == (lhs + rhs) % (MaxUInt64 + 1)

SaturatingAdd(lhs, rhs) ==
  IF rhs > MaxUInt64 - lhs THEN MaxUInt64 ELSE lhs + rhs

TotalTokens(cost) == SaturatingAdd(cost.prompt_tokens, cost.output_tokens)

LargerOf(a, b) == IF a > b THEN a ELSE b

-----------------------------------------------------------------------------
RouteFits(c, route, tokens) ==
  /\ tokens <= Capacity(route)
  /\ c.active_tokens[route] <= Capacity(route) - tokens

NewLease(c, route, tokens) ==
  [id |-> c.next_id, route |-> route, tokens |-> tokens]

MakeLease(c, lease) ==
  [c EXCEPT !.next_id = @ + 1,
            !.active_tokens[lease.route] = @ + lease.tokens,
            !.active = @ \cup {lease}]

ReleaseLease(c, lease) ==
  [c EXCEPT !.active_tokens[lease.route] = @ - lease.tokens,
            !.active = @ \ {lease}]

(* expire_locked: the entries with no execution budget left become         *)
(* terminal answers.                                                       *)
Expired(e, now) == e.deadline <= now + MinExecutionBudget

(* Mutant of ExpireLocked: queue_tokens_ keeps what expired.               *)
ExpireUncounted(c, now) ==
  LET dead == {e \in c.queue : Expired(e, now)} IN
  [c EXCEPT !.queue = @ \ dead, !.terminal = @ \cup {e.id : e \in dead}]

ExpireLocked(c, now) ==
  LET dead == {e \in c.queue : Expired(e, now)} IN
  [c EXCEPT !.queue = @ \ dead,
            !.queue_tokens = @ - TokensOf(dead),
            !.terminal = @ \cup {e.id : e \in dead}]

(* One iteration of the loop of promote_locked: grant the head of the      *)
(* queue a lease, on the primary if it fits there, or stop.                *)
(* Mutant of Front: the youngest entry is served first.                    *)
Back(c) == CHOOSE e \in c.queue : \A f \in c.queue : f.id <= e.id

Front(c) == CHOOSE e \in c.queue : \A f \in c.queue : e.id <= f.id

PromotionRoute(c, available) ==
  LET e == Front(c) IN
  IF available.primary /\ RouteFits(c, "primary", e.tokens) THEN "primary"
  ELSE IF /\ e.allow_degrade
          /\ available.fallback
          /\ RouteFits(c, "fallback", e.tokens) THEN "fallback"
  ELSE "none"

PromoteFront(c, available) ==
  IF c.queue = {} THEN c
  ELSE IF PromotionRoute(c, available) = "none" THEN c
  ELSE LET e == Front(c)
           lease == NewLease(c, PromotionRoute(c, available), e.tokens)
       IN [MakeLease(c, lease) EXCEPT
             !.queue = @ \ {e},
             !.queue_tokens = @ - e.tokens,
             !.ready = @ \cup {[ticket |-> e.id, lease |-> lease]}]

(* The loop: at most one iteration per queued entry changes anything.      *)
PromoteLocked(c, available) ==
  LET run[k \in 0..Cardinality(c.queue)] ==
        IF k = 0 THEN c ELSE PromoteFront(run[k - 1], available)
  IN run[Cardinality(c.queue)]

(* Mutant of Refresh: promotion comes before expiry.                       *)
PromoteFirst(c, available, now) == ExpireLocked(PromoteLocked(c, available), now)

Refresh(c, available, now) == PromoteLocked(ExpireLocked(c, now), available)

PredictedWait(c, additional_tokens) ==
  LET work == SaturatingAdd(
                SaturatingAdd(c.active_tokens["primary"], c.queue_tokens),
                additional_tokens)
      batches == work \div PrimaryCapacity
                   + (IF work % PrimaryCapacity = 0 THEN 0 ELSE 1)
  IN c.ewma * LargerOf(1, batches)

-----------------------------------------------------------------------------
(* admit, after the refresh: which answer the request gets.  "primary" and *)
(* "fallback" are an admission on that route.                              *)
(* Mutant of Oversize: a request that must not degrade may still queue for *)
(* the fallback's capacity.                                                *)
OversizeEverywhere(tokens, allow_degrade) ==
  tokens = 0 \/ (tokens > PrimaryCapacity /\ tokens > FallbackCapacity)

Oversize(tokens, allow_degrade) ==
  \/ tokens = 0
  \/ /\ tokens > PrimaryCapacity
     /\ ~allow_degrade \/ tokens > FallbackCapacity

PrimaryLoaded(c) ==
  SaturatingAdd(c.active_tokens["primary"], c.queue_tokens) * DegradeDen
    >= DegradeNum * PrimaryCapacity

PrimaryFits(c, tokens, available) ==
  available.primary /\ RouteFits(c, "primary", tokens)

Degrades(c, tokens, allow_degrade, available) ==
  /\ allow_degrade
  /\ ~PrimaryFits(c, tokens, available) \/ PrimaryLoaded(c)
  /\ available.fallback
  /\ RouteFits(c, "fallback", tokens)

QueueFull(c, tokens) ==
  \/ Cardinality(c.queue) >= MaxQueueRequests
  \/ tokens > MaxQueueTokens - c.queue_tokens

Decide(c, tokens, deadline, allow_degrade, available, now) ==
  IF Oversize(tokens, allow_degrade) THEN "rejected_oversize"
  ELSE IF deadline <= now + MinExecutionBudget THEN "rejected_deadline"
  ELSE IF Degrades(c, tokens, allow_degrade, available) THEN "fallback"
  ELSE IF PrimaryFits(c, tokens, available) THEN "primary"
  ELSE IF ~available.primary THEN "rejected_unavailable"
  ELSE IF QueueFull(c, tokens) THEN "rejected_overload"
  ELSE IF deadline <= now + PredictedWait(c, tokens) + MinExecutionBudget
       THEN "rejected_deadline"
  ELSE "queued"

Enqueue(c, tokens, deadline, allow_degrade) ==
  [c EXCEPT !.next_id = @ + 1,
            !.queue = @ \cup {[id |-> c.next_id, tokens |-> tokens,
                               deadline |-> deadline,
                               allow_degrade |-> allow_degrade]},
            !.queue_tokens = @ + tokens,
            !.max_requests = LargerOf(@, Cardinality(c.queue) + 1),
            !.max_tokens = LargerOf(@, c.queue_tokens + tokens)]

Answer(c, kind, lease, ticket) ==
  [ctl |-> c, kind |-> kind, lease |-> lease, ticket |-> ticket]

Admit(before, cost, deadline, allow_degrade, available, now) ==
  LET c == Refresh(before, available, now)
      tokens == TotalTokens(cost)
      decision == Decide(c, tokens, deadline, allow_degrade, available, now)
      lease == NewLease(c, decision, tokens)
  IN IF decision \in Routes
     THEN Answer(MakeLease(c, lease), "admitted", {lease}, {})
     ELSE IF decision = "queued"
     THEN Answer(Enqueue(c, tokens, deadline, allow_degrade), "queued", {},
                 {c.next_id})
     ELSE Answer(c, decision, {}, {})

(* Mutants of Poll: the controller is not refreshed first; the ready lease *)
(* or the terminal answer stays after it was handed out.                   *)
PollUnrefreshed(c, ticket, available, now) ==
  LET granted == {g \in c.ready : g.ticket = ticket} IN
  IF granted # {}
  THEN Answer([c EXCEPT !.ready = @ \ granted], "admitted",
              {g.lease : g \in granted}, {})
  ELSE IF ticket \in c.terminal
  THEN Answer([c EXCEPT !.terminal = @ \ {ticket}], "rejected_deadline", {}, {})
  ELSE IF ticket \in QueuedTickets(c) THEN Answer(c, "queued", {}, {ticket})
  ELSE Answer(c, "cancelled", {}, {})

PollForgetsNothing(before, ticket, available, now) ==
  LET c == Refresh(before, available, now)
      granted == {g \in c.ready : g.ticket = ticket}
  IN IF granted # {} THEN Answer(c, "admitted", {g.lease : g \in granted}, {})
     ELSE IF ticket \in c.terminal THEN Answer(c, "rejected_deadline", {}, {})
     ELSE IF ticket \in QueuedTickets(c) THEN Answer(c, "queued", {}, {ticket})
     ELSE Answer(c, "cancelled", {}, {})

(* Mutant of Poll: it promotes the ticket that asks, past older ones.      *)
PollOvertakes(before, ticket, available, now) ==
  LET c == ExpireLocked(before, now)
      own == {e \in c.queue : e.id = ticket}
      d == PromoteLocked([c EXCEPT !.queue = own], available)
  IN PollUnrefreshed([d EXCEPT !.queue = @ \cup (c.queue \ own)], ticket, available, now)

(* poll: a ready lease and a terminal answer are handed out exactly once.  *)
Poll(before, ticket, available, now) ==
  LET c == Refresh(before, available, now)
      granted == {g \in c.ready : g.ticket = ticket}
  IN IF granted # {}
     THEN Answer([c EXCEPT !.ready = @ \ granted], "admitted",
                 {g.lease : g \in granted}, {})
     ELSE IF ticket \in c.terminal
     THEN Answer([c EXCEPT !.terminal = @ \ {ticket}], "rejected_deadline",
                 {}, {})
     ELSE IF ticket \in QueuedTickets(c) THEN Answer(c, "queued", {}, {ticket})
     ELSE Answer(c, "cancelled", {}, {})

(* Mutants of Cancel: a granted lease is dropped without being released; a *)
(* queued entry is not looked for.                                         *)
CancelUnreleased(c, ticket) ==
  LET queued == {e \in c.queue : e.id = ticket} IN
  [c EXCEPT !.queue = @ \ queued,
            !.queue_tokens = @ - TokensOf(queued),
            !.ready = {g \in @ : g.ticket # ticket},
            !.terminal = @ \ {ticket}]

CancelGrantedOnly(c, ticket) ==
  LET granted == {g \in c.ready : g.ticket = ticket} IN
  IF granted = {} THEN c
  ELSE LET g == CHOOSE g \in granted : TRUE
       IN [ReleaseLease(c, g.lease) EXCEPT !.ready = @ \ {g}]

(* cancel: the ticket leaves the queue, or gives up its granted lease, or  *)
(* its terminal answer is forgotten.                                       *)
Cancel(c, ticket) ==
  LET queued == {e \in c.queue : e.id = ticket}
      granted == {g \in c.ready : g.ticket = ticket}
  IN IF queued # {}
     THEN [c EXCEPT !.queue = @ \ queued,
                    !.queue_tokens = @ - TokensOf(queued),
                    !.terminal = @ \ {ticket}]
     ELSE IF granted # {}
     THEN LET g == CHOOSE g \in granted : TRUE
          IN [ReleaseLease(c, g.lease) EXCEPT !.ready = @ \ {g}]
     ELSE [c EXCEPT !.terminal = @ \ {ticket}]

(* complete: release what was recorded for the lease, once.  The EWMA      *)
(* moves by a fifth of the way towards the sample; only its direction and  *)
(* range matter here, so it may land anywhere between the two.             *)
EwmaAfter(c, service_time) ==
  IF service_time = 0 THEN {c.ewma}
  ELSE (c.ewma .. service_time) \cup (service_time .. c.ewma)

(* Mutant of Complete: the lease stays in active_ and is released again.   *)
CompleteAgain(c, id, ewma) ==
  LET recorded == {l \in c.active : l.id = id}
      released == ReleaseLease(c, CHOOSE l \in recorded : TRUE)
  IN IF recorded = {} THEN c
     ELSE [released EXCEPT !.active = c.active, !.ewma = ewma]

Complete(c, id, ewma) ==
  LET recorded == {l \in c.active : l.id = id}
  IN IF recorded = {} THEN c
     ELSE [ReleaseLease(c, CHOOSE l \in recorded : TRUE) EXCEPT !.ewma = ewma]
-----------------------------------------------------------------------------
(* The controller's representation invariant, part by part: what every     *)
(* method may rely on when it takes the mutex and must restore before it   *)
(* gives the mutex back.                                                   *)

UniqueIds(S) == \A e, f \in S : e.id = f.id => e = f

LeasesOK(c) ==
  /\ UniqueIds(c.active)
  /\ \A route \in Routes :
       /\ IsFiniteSet(Units(LeasesOn(c, route)))
       /\ c.active_tokens[route] = TokensOf(LeasesOn(c, route))
       /\ c.active_tokens[route] <= Capacity(route)

QueueOK(c) ==
  /\ UniqueIds(c.queue)
  /\ IsFiniteSet(c.queue)
  /\ IsFiniteSet(Units(c.queue))
  /\ c.queue_tokens = TokensOf(c.queue)
  /\ c.queue_tokens <= c.max_tokens
  /\ c.max_tokens <= MaxQueueTokens
  /\ Cardinality(c.queue) <= c.max_requests
  /\ c.max_requests <= MaxQueueRequests

ReadyOK(c) ==
  /\ ReadyLeases(c) \subseteq c.active
  /\ \A g, h \in c.ready : g.ticket = h.ticket \/ g.lease = h.lease => g = h

Tickets(c) == QueuedTickets(c) \cup ReadyTickets(c) \cup c.terminal

IdsOK(c) ==
  /\ \A l \in c.active : l.id \in 1..(c.next_id - 1) /\ l.id \notin Tickets(c)
  /\ \A ticket \in Tickets(c) : ticket \in 1..(c.next_id - 1)
  /\ QueuedTickets(c) \cap ReadyTickets(c) = {}
  /\ QueuedTickets(c) \cap c.terminal = {}
  /\ ReadyTickets(c) \cap c.terminal = {}

WellFormed(c) ==
  c \in Controller /\ LeasesOK(c) /\ QueueOK(c) /\ ReadyOK(c) /\ IdsOK(c)
=============================================================================
