------------------------------ MODULE Admission ------------------------------
(***************************************************************************)
(* The admission controller among callers that keep its contract: a caller *)
(* that was told "queued" owns a ticket and polls or cancels it, a caller  *)
(* that was given a lease completes it.  A completed lease may be          *)
(* completed again, and any number may be polled or cancelled: the class   *)
(* promises to ignore what it does not know.                               *)
(*                                                                         *)
(* The clock is the injected steady clock; each call sees the availability *)
(* of the routes at that moment.                                           *)
(***************************************************************************)
EXTENDS AdmissionController, SteadyClock

CONSTANTS
  Costs,         \* the request costs callers bring
  ServiceTimes,  \* the service times completions report
  MaxId          \* bound: no call is admitted once next_id exceeds it

ASSUME AdmissionBounds ==
  /\ \A cost \in Costs : /\ cost.prompt_tokens \in 0..MaxUInt64
                         /\ cost.output_tokens \in 0..MaxUInt64
  /\ ServiceTimes \subseteq Nat
  /\ MaxId \in Nat

VARIABLES
  ctl,      \* the controller
  waiting,  \* tickets whose callers have no answer yet
  held      \* leases handed to callers and not completed

vars == <<ctl, now, waiting, held>>

Init ==
  /\ ctl = InitController
  /\ now = 0
  /\ waiting = {}
  /\ held = {}

AdmitRequest(cost, deadline, allow_degrade, available) ==
  LET answer == Admit(ctl, cost, deadline, allow_degrade, available, now) IN
  /\ ctl.next_id <= MaxId
  /\ ctl' = answer.ctl
  /\ waiting' = waiting \cup answer.ticket
  /\ held' = held \cup answer.lease
  /\ UNCHANGED now

PollTicket(ticket, available) ==
  LET answer == Poll(ctl, ticket, available, now) IN
  /\ ctl' = answer.ctl
  /\ waiting' = IF answer.kind = "queued" THEN waiting ELSE waiting \ {ticket}
  /\ held' = held \cup answer.lease
  /\ UNCHANGED now

CancelTicket(ticket) ==
  /\ ctl' = Cancel(ctl, ticket)
  /\ waiting' = waiting \ {ticket}
  /\ UNCHANGED <<now, held>>

(* AdmissionGuard's destructor completes a lease once; the class also      *)
(* accepts a second completion of it.                                      *)
CompleteLease(id, service_time) ==
  /\ id \notin {g.lease.id : g \in ctl.ready}
  /\ \E ewma \in EwmaAfter(ctl, service_time) : ctl' = Complete(ctl, id, ewma)
  /\ held' = {l \in held : l.id # id}
  /\ UNCHANGED <<now, waiting>>

Tick ==
  /\ Advance
  /\ UNCHANGED <<ctl, waiting, held>>

(* Every id the controller has issued so far.                              *)
Issued == 1..(ctl.next_id - 1)

Next ==
  \/ \E cost \in Costs, deadline \in now..MaxTime,
        allow_degrade \in BOOLEAN, available \in Availability :
          AdmitRequest(cost, deadline, allow_degrade, available)
  \/ \E ticket \in Issued, available \in Availability :
          PollTicket(ticket, available)
  \/ \E ticket \in Issued : CancelTicket(ticket)
  \/ \E id \in Issued, service_time \in ServiceTimes :
          CompleteLease(id, service_time)
  \/ Tick

Spec == Init /\ [][Next]_vars

-----------------------------------------------------------------------------
(* Every variable has its type.                                            *)
TypeOK ==
  /\ ctl \in Controller
  /\ now \in 0..MaxTime
  /\ waiting \subseteq Nat
  /\ held \subseteq Lease

(* The token counters are exactly what the leases in active_ add up to, so *)
(* no path releases a lease twice, forgets to release one or lets the      *)
(* unsigned counter wrap (make_lease_locked, cancel and complete agree),   *)
(* and no interleaving puts more tokens on a route than its capacity.      *)
LeasesAccounted == LeasesOK(ctl)

(* queue_tokens_ is what the queued entries add up to, through enqueueing, *)
(* expiry, promotion and cancellation; both queue bounds hold, and the     *)
(* high-watermarks are never below what was really queued.                 *)
QueueAccounted == QueueOK(ctl)

(* A waiting ticket is in exactly one of queue_, ready_ and terminal_, and *)
(* nothing else is in them: no ticket is lost, none is answered twice and  *)
(* no entry outlives its caller.  No ticket has the id of a lease.         *)
TicketsResolvedOnce == waiting = Tickets(ctl) /\ IdsOK(ctl)

(* Capacity never leaks: every active lease is in the hands of one caller  *)
(* or ready for exactly one ticket, never both and never neither.          *)
NoLeakedLease ==
  /\ ctl.active = held \cup ReadyLeases(ctl)
  /\ held \cap ReadyLeases(ctl) = {}
  /\ ReadyOK(ctl)

(* The five together are inductive: this is what the proofs rest on.       *)
IndInv ==
  /\ TypeOK
  /\ LeasesAccounted
  /\ QueueAccounted
  /\ TicketsResolvedOnce
  /\ NoLeakedLease

(* Each request that callers may bring is charged for all it may use: a    *)
(* sum beyond the 64 bits must not come back as a small charge that fits   *)
(* (saturating_add).                                                       *)
ChargedInFull ==
  ctl.next_id <= MaxId =>
  \A cost \in Costs, deadline \in now..MaxTime,
     allow_degrade \in BOOLEAN, available \in Availability :
       \A lease \in Admit(ctl, cost, deadline, allow_degrade, available,
                          now).lease :
         /\ lease.tokens >= cost.prompt_tokens
         /\ lease.tokens >= cost.output_tokens

(* The queue is first in, first out: a ticket gets a lease only when no    *)
(* older ticket stays behind in the queue.                                 *)
PromotedInOrder ==
  [][\A ticket \in ReadyTickets(ctl)' \ ReadyTickets(ctl) :
       \A older \in QueuedTickets(ctl)' : older > ticket]_vars

(* No lease is granted to a queued request whose execution budget is gone: *)
(* promotion sees the queue only after expiry.                             *)
PromotedInTime ==
  [][\A e \in ctl.queue :
       e.id \in ReadyTickets(ctl)' => e.deadline > now + MinExecutionBudget]_vars

(* Nobody waits on an idle gateway: after an admission or a poll that saw  *)
(* both routes up, a request that is still queued waits for a lease that   *)
(* is out and will be completed.  An entry that no idle route can hold, or *)
(* capacity a lost lease still occupies, would block the head of the queue *)
(* with nothing left to wait for.                                          *)
NobodyWaitsOnIdle ==
  [][ctl'.active = {} /\ ctl'.queue # {} =>
       \A available \in Availability :
         available.primary /\ available.fallback =>
           /\ \A ticket \in Issued : ~PollTicket(ticket, available)
           /\ \A cost \in Costs, deadline \in now..MaxTime, allow_degrade \in BOOLEAN :
                ~AdmitRequest(cost, deadline, allow_degrade, available)]_vars

-----------------------------------------------------------------------------
LeasesFit(leases) ==
  \A route \in Routes :
    TokensOf({l \in leases : l.route = route}) <= Capacity(route)

Ledger == INSTANCE TokenLedger WITH
  issued <- ctl.next_id - 1, line <- QueuedTickets(ctl), promised <- ctl.ready,
  refused <- ctl.terminal, held <- ctl.active \ ReadyLeases(ctl), Fits <- LeasesFit

(* To its callers the controller is a ledger: whatever admit, poll, cancel *)
(* and complete do inside, each call is one of the ledger's steps.  No     *)
(* ticket is answered before an older one that stays in line, even when it *)
(* is promoted and collected in the same poll; no promise is broken; what  *)
(* was answered, withdrawn or returned never comes back.                   *)
ImplementsLedger == Ledger!Spec
=============================================================================
