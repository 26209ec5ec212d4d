--------------------------- MODULE AdmissionProofs ---------------------------
(***************************************************************************)
(* The safety of Admission for every configuration of the controller, every *)
(* number of callers and every run.  The five invariants of Admission are  *)
(* inductive together; what each method does to them is proved in          *)
(* AdmissionControllerProofs, and here the callers' side is added.         *)
(***************************************************************************)
EXTENDS Admission, AdmissionControllerProofs

(* The inductive invariant says that the controller is well formed, that   *)
(* its tickets are the ones awaited, and that its leases are held or ready.*)
LEMMA IndInvMeans ==
  ASSUME TypeOK
  PROVE  IndInv <=> /\ WellFormed(ctl)
                    /\ waiting = Tickets(ctl)
                    /\ held = CallersLeases(ctl)
<1>1. ReadyOK(ctl) => ReadyLeases(ctl) \subseteq ctl.active
  BY DEF ReadyOK
<1>2. ReadyOK(ctl) =>
        (/\ ctl.active = held \cup ReadyLeases(ctl)
         /\ held \cap ReadyLeases(ctl) = {}
         <=> held = CallersLeases(ctl))
  BY <1>1 DEF CallersLeases
<1>. QED BY <1>2 DEF IndInv, TypeOK, LeasesAccounted, QueueAccounted,
                    TicketsResolvedOnce, NoLeakedLease, WellFormed

LEMMA InitEstablishes == Init => IndInv
<1> SUFFICES ASSUME Init PROVE IndInv
  OBVIOUS
<1>1. WellFormed(ctl) /\ Tickets(ctl) = {} /\ CallersLeases(ctl) = {}
  BY InitControllerOK DEF Init
<1>2. TypeOK
  BY <1>1, AdmissionBounds, ClockBound DEF Init, TypeOK, WellFormed
<1>. QED BY <1>1, <1>2, IndInvMeans DEF Init

LEMMA NextPreserves == IndInv /\ [Next]_vars => IndInv'
<1> SUFFICES ASSUME IndInv, [Next]_vars PROVE IndInv'
  OBVIOUS
<1>1. /\ TypeOK /\ WellFormed(ctl) /\ waiting = Tickets(ctl)
      /\ held = CallersLeases(ctl) /\ now \in Nat /\ MaxTime \in Nat
      /\ now <= MaxTime
  BY IndInvMeans, AdmissionBounds, ClockBound DEF IndInv, TypeOK
<1>2. SUFFICES /\ WellFormed(ctl)' /\ (waiting = Tickets(ctl))'
               /\ (held = CallersLeases(ctl))' /\ now' \in 0..MaxTime
  <2>1. /\ CallersLeases(ctl)' \subseteq Lease /\ Tickets(ctl)' \subseteq Nat
        /\ ctl' \in Controller
    BY <1>2 DEF WellFormed, CallersLeases, Controller, IdsOK
  <2>2. TypeOK'
    BY <1>2, <2>1 DEF TypeOK
  <2>3. (IndInv <=> /\ WellFormed(ctl) /\ waiting = Tickets(ctl)
                    /\ held = CallersLeases(ctl))'
    BY <2>2, IndInvMeans, PTL
  <2>. QED BY <1>2, <2>3
<1>3. ASSUME NEW cost \in Costs, NEW deadline \in now..MaxTime,
             NEW allow_degrade \in BOOLEAN, NEW available \in Availability,
             AdmitRequest(cost, deadline, allow_degrade, available)
      PROVE  /\ WellFormed(ctl)' /\ (waiting = Tickets(ctl))'
             /\ (held = CallersLeases(ctl))' /\ now' \in 0..MaxTime
  <2>1. /\ cost.prompt_tokens \in 0..MaxUInt64
        /\ cost.output_tokens \in 0..MaxUInt64 /\ deadline \in Nat
    BY <1>1, AdmissionBounds, ClockBound
  <2> DEFINE a == Admit(ctl, cost, deadline, allow_degrade, available, now)
  <2>2. /\ WellFormed(a.ctl) /\ Tickets(a.ctl) = Tickets(ctl) \cup a.ticket
        /\ CallersLeases(a.ctl) = CallersLeases(ctl) \cup a.lease
    <3>1. WellFormed(ctl) /\ now \in Nat
      BY <1>1
    <3>2. LET d == Admit(ctl, cost, deadline, allow_degrade, available, now)
          IN  /\ WellFormed(d.ctl) /\ Tickets(d.ctl) = Tickets(ctl) \cup d.ticket
              /\ CallersLeases(d.ctl) = CallersLeases(ctl) \cup d.lease
              /\ GrantsInOrder(ctl, d.ctl, now)
      BY <2>1, <3>1, AdmitOK
    <3>. QED BY <3>2
  <2>3. /\ ctl' = a.ctl /\ waiting' = waiting \cup a.ticket
        /\ held' = held \cup a.lease /\ now' = now
    BY <1>3 DEF AdmitRequest
  <2> HIDE DEF a
  <2>. QED BY <1>1, <2>2, <2>3
<1>4. ASSUME NEW ticket \in Issued, NEW available \in Availability,
             PollTicket(ticket, available)
      PROVE  /\ WellFormed(ctl)' /\ (waiting = Tickets(ctl))'
             /\ (held = CallersLeases(ctl))' /\ now' \in 0..MaxTime
  <2> DEFINE a == Poll(ctl, ticket, available, now)
  <2>1. /\ WellFormed(a.ctl)
        /\ Tickets(a.ctl) = IF a.kind = "queued" THEN Tickets(ctl)
                            ELSE Tickets(ctl) \ {ticket}
        /\ CallersLeases(a.ctl) = CallersLeases(ctl) \cup a.lease
    BY <1>1, PollOK
  <2>2. /\ ctl' = a.ctl /\ held' = held \cup a.lease /\ now' = now
        /\ waiting' = IF a.kind = "queued" THEN waiting ELSE waiting \ {ticket}
    BY <1>4 DEF PollTicket
  <2> HIDE DEF a
  <2>. QED BY <1>1, <2>1, <2>2
<1>5. ASSUME NEW ticket \in Issued, CancelTicket(ticket)
      PROVE  /\ WellFormed(ctl)' /\ (waiting = Tickets(ctl))'
             /\ (held = CallersLeases(ctl))' /\ now' \in 0..MaxTime
  <2>1. /\ WellFormed(Cancel(ctl, ticket))
        /\ Tickets(Cancel(ctl, ticket)) = Tickets(ctl) \ {ticket}
        /\ CallersLeases(Cancel(ctl, ticket)) = CallersLeases(ctl)
    BY <1>1, CancelOK
  <2>. QED BY <1>1, <1>5, <2>1 DEF CancelTicket
<1>6. ASSUME NEW id \in Issued, NEW service_time \in ServiceTimes,
             CompleteLease(id, service_time)
      PROVE  /\ WellFormed(ctl)' /\ (waiting = Tickets(ctl))'
             /\ (held = CallersLeases(ctl))' /\ now' \in 0..MaxTime
  <2>1. PICK ewma \in EwmaAfter(ctl, service_time) :
          ctl' = Complete(ctl, id, ewma)
    BY <1>6 DEF CompleteLease
  <2>2. ewma \in Nat
    BY <1>1, AdmissionBounds, ClockBound DEF EwmaAfter, WellFormed, Controller
  <2>3. id \notin {g.lease.id : g \in ctl.ready}
    BY <1>6 DEF CompleteLease
  <2>4. /\ WellFormed(Complete(ctl, id, ewma))
        /\ Tickets(Complete(ctl, id, ewma)) = Tickets(ctl)
        /\ CallersLeases(Complete(ctl, id, ewma))
             = {l \in CallersLeases(ctl) : l.id # id}
    BY <1>1, <2>2, <2>3, CompleteOK
  <2>. QED BY <1>1, <1>6, <2>1, <2>4 DEF CompleteLease
<1>7. CASE Tick
  BY <1>1, <1>7 DEF Tick, Advance
<1>8. CASE UNCHANGED vars
  BY <1>1, <1>8 DEF vars
<1>. QED BY <1>3, <1>4, <1>5, <1>6, <1>7, <1>8 DEF Next

(* The inductive invariant holds of every reachable state.                 *)
THEOREM Inductive == Spec => []IndInv
BY InitEstablishes, NextPreserves, PTL DEF Spec

(* Every variable always has its type.                                     *)
THEOREM TypeCorrect == Spec => []TypeOK
<1>1. IndInv => TypeOK
  BY DEF IndInv
<1>. QED BY <1>1, Inductive, PTL

(* The token counters equal what the active leases add up to, whatever the *)
(* capacities and the interleaving of calls.                               *)
THEOREM LeasesAlwaysAccounted == Spec => []LeasesAccounted
<1>1. IndInv => LeasesAccounted
  BY DEF IndInv
<1>. QED BY <1>1, Inductive, PTL

(* The queue's token counter is exact and both queue bounds hold.          *)
THEOREM QueueAlwaysAccounted == Spec => []QueueAccounted
<1>1. IndInv => QueueAccounted
  BY DEF IndInv
<1>. QED BY <1>1, Inductive, PTL

(* Every awaited ticket is queued, ready or terminal, in one way only.     *)
THEOREM TicketsAlwaysResolvable == Spec => []TicketsResolvedOnce
<1>1. IndInv => TicketsResolvedOnce
  BY DEF IndInv
<1>. QED BY <1>1, Inductive, PTL

(* Every active lease is held by one caller or ready for one ticket.       *)
THEOREM CapacityNeverLeaks == Spec => []NoLeakedLease
<1>1. IndInv => NoLeakedLease
  BY DEF IndInv
<1>. QED BY <1>1, Inductive, PTL

-----------------------------------------------------------------------------
(* No step grants a lease to a ticket behind a queued one, or to a ticket  *)
(* that had expired when the step began.                                   *)
LEMMA NextGrantsInOrder ==
  IndInv /\ [Next]_vars => GrantsInOrder(ctl, ctl', now)
<1> SUFFICES ASSUME IndInv, [Next]_vars PROVE GrantsInOrder(ctl, ctl', now)
  OBVIOUS
<1>1. TypeOK /\ WellFormed(ctl) /\ now \in Nat
  BY IndInvMeans, AdmissionBounds, ClockBound DEF IndInv, TypeOK
<1>2. ReadyTickets(ctl') \subseteq ReadyTickets(ctl)
      => GrantsInOrder(ctl, ctl', now)
  BY DEF GrantsInOrder
<1>3. ASSUME NEW cost \in Costs, NEW deadline \in now..MaxTime,
             NEW allow_degrade \in BOOLEAN, NEW available \in Availability,
             AdmitRequest(cost, deadline, allow_degrade, available)
      PROVE  GrantsInOrder(ctl, ctl', now)
  <2>1. /\ cost.prompt_tokens \in 0..MaxUInt64
        /\ cost.output_tokens \in 0..MaxUInt64 /\ deadline \in Nat
    BY <1>1, AdmissionBounds, ClockBound
  <2>2. LET d == Admit(ctl, cost, deadline, allow_degrade, available, now)
        IN  /\ WellFormed(d.ctl) /\ Tickets(d.ctl) = Tickets(ctl) \cup d.ticket
            /\ CallersLeases(d.ctl) = CallersLeases(ctl) \cup d.lease
            /\ GrantsInOrder(ctl, d.ctl, now)
    BY <1>1, <2>1, AdmitOK
  <2>. QED BY <1>3, <2>2 DEF AdmitRequest
<1>4. ASSUME NEW ticket \in Issued, NEW available \in Availability,
             PollTicket(ticket, available)
      PROVE  GrantsInOrder(ctl, ctl', now)
  <2>1. GrantsInOrder(ctl, Poll(ctl, ticket, available, now).ctl, now)
    BY <1>1, PollOK
  <2>. QED BY <1>4, <2>1 DEF PollTicket
<1>5. ASSUME NEW ticket \in Issued, CancelTicket(ticket)
      PROVE  GrantsInOrder(ctl, ctl', now)
  <2>1. ReadyTickets(Cancel(ctl, ticket)) \subseteq ReadyTickets(ctl)
    BY <1>1, CancelOK
  <2>. QED BY <1>2, <1>5, <2>1 DEF CancelTicket
<1>6. ASSUME NEW id \in Issued, NEW service_time \in ServiceTimes,
             CompleteLease(id, service_time)
      PROVE  GrantsInOrder(ctl, ctl', now)
  <2>1. PICK ewma \in EwmaAfter(ctl, service_time) :
          ctl' = Complete(ctl, id, ewma)
    BY <1>6 DEF CompleteLease
  <2>2. ewma \in Nat
    BY <1>1, AdmissionBounds, ClockBound DEF EwmaAfter, WellFormed, Controller
  <2>3. id \notin {g.lease.id : g \in ctl.ready}
    BY <1>6 DEF CompleteLease
  <2>4. ReadyTickets(Complete(ctl, id, ewma)) = ReadyTickets(ctl)
    BY <1>1, <2>2, <2>3, CompleteOK
  <2>. QED BY <1>2, <2>1, <2>4
<1>7. CASE Tick
  BY <1>2, <1>7 DEF Tick, Advance
<1>8. CASE UNCHANGED vars
  BY <1>2, <1>8 DEF vars
<1>. QED BY <1>3, <1>4, <1>5, <1>6, <1>7, <1>8 DEF Next

(* The queue is first in, first out, in every run.                         *)
THEOREM AlwaysPromotedInOrder == Spec => PromotedInOrder
<1>1. IndInv /\ [Next]_vars =>
        [\A ticket \in ReadyTickets(ctl)' \ ReadyTickets(ctl) :
           \A older \in QueuedTickets(ctl)' : older > ticket]_vars
  BY NextGrantsInOrder DEF GrantsInOrder
<1>. QED BY <1>1, Inductive, PTL DEF Spec, PromotedInOrder

(* No lease is granted to a request whose execution budget is gone.        *)
THEOREM AlwaysPromotedInTime == Spec => PromotedInTime
<1>1. IndInv /\ [Next]_vars =>
        \A e \in ctl.queue :
          e.id \in ReadyTickets(ctl)' => e.deadline > now + MinExecutionBudget
  <2> SUFFICES ASSUME IndInv, [Next]_vars, NEW e \in ctl.queue,
                      e.id \in ReadyTickets(ctl)'
               PROVE  e.deadline > now + MinExecutionBudget
    OBVIOUS
  <2>1. TypeOK /\ WellFormed(ctl) /\ now \in Nat
    BY IndInvMeans, AdmissionBounds, ClockBound DEF IndInv, TypeOK
  <2>2. /\ UniqueIds(ctl.queue) /\ IdsOK(ctl)
        /\ e.deadline \in Nat /\ MinExecutionBudget \in Nat
    BY <2>1, AdmissionConfig DEF WellFormed, QueueOK, Controller, QueueEntry
  <2>3. e.id \notin ReadyTickets(ctl)
    BY <2>2 DEF IdsOK, QueuedTickets
  <2>4. e.id \in QueuedTickets(ExpireLocked(ctl, now))
    BY <2>3, NextGrantsInOrder DEF GrantsInOrder
  <2>5. ExpireLocked(ctl, now).queue = {f \in ctl.queue : ~Expired(f, now)}
    BY <2>1, ExpireLockedOK
  <2>6. ~Expired(e, now)
    BY <2>2, <2>4, <2>5 DEF QueuedTickets, UniqueIds
  <2>. QED BY <2>1, <2>2, <2>6 DEF Expired
<1>. QED BY <1>1, Inductive, PTL DEF Spec, PromotedInTime

-----------------------------------------------------------------------------
(* A request is charged for all it may use, whatever the controller holds. *)
THEOREM AlwaysChargedInFull == Spec => []ChargedInFull
<1>1. ChargedInFull
  <2> SUFFICES ASSUME NEW cost \in Costs, NEW deadline, NEW allow_degrade,
                      NEW available, NEW lease,
                      lease \in Admit(ctl, cost, deadline, allow_degrade,
                                      available, now).lease
               PROVE  /\ lease.tokens >= cost.prompt_tokens
                      /\ lease.tokens >= cost.output_tokens
    BY DEF ChargedInFull
  <2>1. lease.tokens = TotalTokens(cost)
    BY DEF Admit, Answer, NewLease
  <2>2. /\ cost.prompt_tokens \in 0..MaxUInt64
        /\ cost.output_tokens \in 0..MaxUInt64
    BY AdmissionBounds, ClockBound
  <2>3. /\ TotalTokens(cost) \in 0..MaxUInt64
        /\ cost.prompt_tokens <= TotalTokens(cost)
        /\ cost.output_tokens <= TotalTokens(cost)
    BY <2>2, TotalTokensType
  <2>. QED BY <2>1, <2>2, <2>3, AdmissionConfig
<1>. QED BY <1>1, PTL

(* The strengthening that NobodyWaitsOnIdle needs: each entry fits some    *)
(* route it may use once that route is idle.                               *)
NoHopelessEntry ==
  \A e \in ctl.queue :
    \/ e.tokens <= PrimaryCapacity
    \/ e.allow_degrade /\ e.tokens <= FallbackCapacity

(* Only admit adds to the queue, and what it adds passed Oversize.         *)
LEMMA NextKeepsHope ==
  IndInv /\ NoHopelessEntry /\ [Next]_vars => NoHopelessEntry'
<1> SUFFICES ASSUME IndInv, NoHopelessEntry, [Next]_vars
             PROVE  NoHopelessEntry'
  OBVIOUS
<1>1. TypeOK /\ WellFormed(ctl) /\ now \in Nat
  BY IndInvMeans, AdmissionBounds, ClockBound DEF IndInv, TypeOK
<1>2. ctl'.queue \subseteq ctl.queue => NoHopelessEntry'
  BY DEF NoHopelessEntry
<1>3. ASSUME NEW available \in Availability
      PROVE  Refresh(ctl, available, now).queue \subseteq ctl.queue
  <2>1. Promotes(ExpireLocked(ctl, now), Refresh(ctl, available, now))
    BY <1>1, RefreshOK
  <2>2. ExpireLocked(ctl, now).queue \subseteq ctl.queue
    BY <1>1, ExpireLockedOK
  <2>. QED BY <2>1, <2>2 DEF Promotes
<1>4. ASSUME NEW cost \in Costs, NEW deadline \in now..MaxTime,
             NEW allow_degrade \in BOOLEAN, NEW available \in Availability,
             AdmitRequest(cost, deadline, allow_degrade, available)
      PROVE  NoHopelessEntry'
  <2> DEFINE c == Refresh(ctl, available, now)
             tokens == TotalTokens(cost)
  <2>1. /\ c.queue \subseteq ctl.queue
        /\ ctl' = Admit(ctl, cost, deadline, allow_degrade, available, now).ctl
        /\ tokens \in Nat
    <3>1. tokens \in 0..MaxUInt64
      BY AdmissionBounds, ClockBound, TotalTokensType
    <3>. QED BY <1>3, <1>4, <3>1, AdmissionConfig DEF AdmitRequest
  <2>2. CASE Decide(c, tokens, deadline, allow_degrade, available, now)
               = "queued"
    <3>1. ctl' = Enqueue(c, tokens, deadline, allow_degrade)
      BY <2>1, <2>2 DEF Admit, Answer, Routes
    <3>2. ~Oversize(tokens, allow_degrade)
      BY <2>2 DEF Decide
    <3>3. ctl'.queue \subseteq
            ctl.queue \cup {[id |-> c.next_id, tokens |-> tokens,
                             deadline |-> deadline,
                             allow_degrade |-> allow_degrade]}
      <4>1. c \in Controller
        <5>1. WellFormed(c)
          BY <1>1, RefreshOK
        <5>. QED BY <5>1 DEF WellFormed
      <4> HIDE DEF c, tokens
      <4>. QED BY <2>1, <3>1, <4>1 DEF Enqueue, Controller
    <3> HIDE DEF c, tokens
    <3>. QED BY <2>1, <3>2, <3>3, AdmissionConfig
             DEF NoHopelessEntry, Oversize
  <2>3. CASE Decide(c, tokens, deadline, allow_degrade, available, now)
               # "queued"
    <3>1. ctl' = c \/ \E lease : ctl' = MakeLease(c, lease)
      BY <2>1, <2>3 DEF Admit, Answer
    <3>2. c \in Controller
      <4>1. WellFormed(c)
        BY <1>1, RefreshOK
      <4>. QED BY <4>1 DEF WellFormed
    <3> HIDE DEF c
    <3>3. ctl'.queue = c.queue
      BY <3>1, <3>2 DEF MakeLease, Controller
    <3>. QED BY <1>2, <2>1, <3>3
  <2>. QED BY <2>2, <2>3
<1>5. ASSUME NEW ticket \in Issued, NEW available \in Availability,
             PollTicket(ticket, available)
      PROVE  NoHopelessEntry'
  <2> DEFINE c == Refresh(ctl, available, now)
  <2>1. c.queue \subseteq ctl.queue /\ c \in Controller
    <3>1. WellFormed(c)
      BY <1>1, RefreshOK
    <3>. QED BY <1>3, <3>1 DEF WellFormed
  <2>2. \/ ctl' = c
        \/ \E S : ctl' = [c EXCEPT !.ready = S]
        \/ \E S : ctl' = [c EXCEPT !.terminal = S]
    BY <1>5 DEF PollTicket, Poll, Answer
  <2> HIDE DEF c
  <2>3. ctl'.queue = c.queue
    BY <2>1, <2>2 DEF Controller
  <2>. QED BY <1>2, <2>1, <2>3
<1>6. ASSUME NEW ticket \in Issued, CancelTicket(ticket)
      PROVE  NoHopelessEntry'
  <2>1. ctl' = Cancel(ctl, ticket) /\ ctl \in Controller
    BY <1>1, <1>6 DEF CancelTicket, WellFormed
  <2>2. Cancel(ctl, ticket).queue \subseteq ctl.queue
    BY <2>1 DEF Cancel, ReleaseLease, Controller
  <2>. QED BY <1>2, <2>1, <2>2
<1>7. ASSUME NEW id \in Issued, NEW service_time \in ServiceTimes,
             CompleteLease(id, service_time)
      PROVE  NoHopelessEntry'
  <2>1. PICK ewma : ctl' = Complete(ctl, id, ewma)
    BY <1>7 DEF CompleteLease
  <2>2. Complete(ctl, id, ewma).queue = ctl.queue
    BY <1>1 DEF Complete, ReleaseLease, Controller, WellFormed
  <2>. QED BY <1>2, <2>1, <2>2
<1>8. CASE Tick \/ UNCHANGED vars
  BY <1>2, <1>8 DEF Tick, Advance, vars
<1>. QED BY <1>4, <1>5, <1>6, <1>7, <1>8 DEF Next

(* With no lease out and both routes up, the loop of promote_locked stops  *)
(* at an empty queue only.                                                 *)
LEMMA IdleEmptiesQueue ==
  ASSUME NEW d, WellFormed(d), NEW available,
         available.primary, available.fallback, Stuck(d, available),
         d.active = {},
         \A e \in d.queue : \/ e.tokens <= PrimaryCapacity
                            \/ e.allow_degrade /\ e.tokens <= FallbackCapacity
  PROVE  /\ d.queue = {}
         /\ \A route \in Routes : d.active_tokens[route] = 0
<1>1. \A route \in Routes : d.active_tokens[route] = 0
  BY TokensOfNone DEF WellFormed, LeasesOK, LeasesOn
<1>2. ASSUME d.queue # {} PROVE FALSE
  <2> DEFINE e == Front(d)
  <2>1. e \in d.queue /\ e.tokens \in Nat
    BY <1>2, FrontOfQueue DEF WellFormed, Controller, QueueEntry
  <2>2. \/ e.tokens <= PrimaryCapacity
        \/ e.allow_degrade /\ e.tokens <= FallbackCapacity
    BY <2>1
  <2> HIDE DEF e
  <2>3. \/ RouteFits(d, "primary", e.tokens)
        \/ e.allow_degrade /\ RouteFits(d, "fallback", e.tokens)
    BY <1>1, <2>1, <2>2, AdmissionConfig DEF RouteFits, Capacity, Routes
  <2>4. PromotionRoute(d, available) # "none"
    BY <2>3 DEF PromotionRoute, e
  <2>. QED BY <1>2, <2>4 DEF Stuck
<1>. QED BY <1>1, <1>2

(* Nobody waits on an idle gateway, whatever its capacities and bounds.    *)
THEOREM AlwaysNobodyWaitsOnIdle == Spec => NobodyWaitsOnIdle
<1> DEFINE Waits == ctl'.active = {} /\ ctl'.queue # {} =>
                      \A available \in Availability :
                        available.primary /\ available.fallback =>
                          /\ \A ticket \in Issued : ~PollTicket(ticket, available)
                          /\ \A cost \in Costs, deadline \in now..MaxTime,
                               allow_degrade \in BOOLEAN :
                               ~AdmitRequest(cost, deadline, allow_degrade, available)
<1>1. Init => NoHopelessEntry
  BY DEF Init, InitController, NoHopelessEntry
<1>2. IndInv /\ NoHopelessEntry /\ [Next]_vars => Waits
  <2> SUFFICES ASSUME IndInv, NoHopelessEntry, [Next]_vars,
                      ctl'.active = {}, ctl'.queue # {},
                      NEW available \in Availability,
                      available.primary, available.fallback
               PROVE  /\ \A ticket \in Issued : ~PollTicket(ticket, available)
                      /\ \A cost \in Costs, deadline \in now..MaxTime,
                           allow_degrade \in BOOLEAN :
                           ~AdmitRequest(cost, deadline, allow_degrade, available)
    OBVIOUS
  <2> DEFINE d == Refresh(ctl, available, now)
  <2>1. TypeOK /\ WellFormed(ctl) /\ now \in Nat
    BY IndInvMeans, AdmissionBounds, ClockBound DEF IndInv, TypeOK
  <2>2. /\ WellFormed(d) /\ d \in Controller /\ Stuck(d, available)
        /\ d.queue \subseteq ctl.queue
    <3>1. /\ WellFormed(d) /\ Stuck(d, available)
          /\ Promotes(ExpireLocked(ctl, now), d)
      BY <2>1, RefreshOK
    <3>2. ExpireLocked(ctl, now).queue \subseteq ctl.queue
      BY <2>1, ExpireLockedOK
    <3>. QED BY <3>1, <3>2 DEF Promotes, WellFormed
  <2> HIDE DEF d
  <2>3. ASSUME d.active = {}
        PROVE  d.queue = {} /\ \A route \in Routes : d.active_tokens[route] = 0
    BY <2>2, <2>3, IdleEmptiesQueue DEF NoHopelessEntry
  <2>4. ASSUME NEW ticket \in Issued, PollTicket(ticket, available) PROVE FALSE
    <3>1. \/ ctl' = d
          \/ \E S : ctl' = [d EXCEPT !.ready = S]
          \/ \E S : ctl' = [d EXCEPT !.terminal = S]
      BY <2>4 DEF PollTicket, Poll, Answer, d
    <3>2. ctl'.queue = d.queue /\ ctl'.active = d.active
      BY <2>2, <3>1 DEF Controller
    <3>. QED BY <2>3, <3>2
  <2>5. ASSUME NEW cost \in Costs, NEW deadline \in now..MaxTime,
               NEW allow_degrade \in BOOLEAN,
               AdmitRequest(cost, deadline, allow_degrade, available)
        PROVE  FALSE
    <3> DEFINE tokens == TotalTokens(cost)
               decision == Decide(d, tokens, deadline, allow_degrade, available, now)
    <3>1. tokens \in Nat
      <4>1. tokens \in 0..MaxUInt64
        BY AdmissionBounds, ClockBound, TotalTokensType
      <4>. QED BY <4>1, AdmissionConfig
    <3>2. ctl' = Admit(ctl, cost, deadline, allow_degrade, available, now).ctl
      BY <2>5 DEF AdmitRequest
    <3>3. CASE decision \in Routes
      <4>1. \E lease : ctl' = MakeLease(d, lease)
        BY <3>2, <3>3 DEF Admit, Answer, d
      <4>2. ctl'.active # {}
        BY <2>2, <4>1 DEF MakeLease, Controller
      <4>. QED BY <4>2
    <3>4. CASE decision = "queued"
      <4>1. ctl' = Enqueue(d, tokens, deadline, allow_degrade)
        BY <3>2, <3>4 DEF Admit, Answer, Routes, d
      <4>2. /\ ~Oversize(tokens, allow_degrade)
            /\ ~Degrades(d, tokens, allow_degrade, available)
            /\ ~PrimaryFits(d, tokens, available)
        BY <3>4 DEF Decide
      <4> HIDE DEF tokens, decision
      <4>3. d.active = {}
        BY <2>2, <4>1 DEF Enqueue, Controller
      <4>4. d.active_tokens["primary"] = 0 /\ d.active_tokens["fallback"] = 0
        BY <2>3, <4>3 DEF Routes
      <4>5. tokens > PrimaryCapacity
        BY <3>1, <4>2, <4>4, AdmissionConfig DEF PrimaryFits, RouteFits, Capacity
      <4>6. allow_degrade /\ tokens <= FallbackCapacity
        BY <3>1, <4>2, <4>5, AdmissionConfig DEF Oversize
      <4>. QED BY <3>1, <4>2, <4>4, <4>6, AdmissionConfig
               DEF Degrades, RouteFits, Capacity
    <3>5. CASE decision \notin Routes /\ decision # "queued"
      <4>1. ctl' = d
        BY <3>2, <3>5 DEF Admit, Answer, d
      <4>. QED BY <2>3, <4>1
    <3>. QED BY <3>3, <3>4, <3>5
  <2>. QED BY <2>4, <2>5
<1>3. IndInv /\ NoHopelessEntry /\ [Next]_vars => [Waits]_vars
  BY <1>2
<1>. QED BY <1>1, <1>3, NextKeepsHope, Inductive, PTL DEF Spec, NobodyWaitsOnIdle

-----------------------------------------------------------------------------
(* The controller as a ledger.  Tickets and leases are the controller's,   *)
(* and a lease is with a caller or waits for a ticket.                     *)
LEMMA LedgerMeans ==
  ASSUME WellFormed(ctl)
  PROVE  /\ Ledger!PromisedTickets = ReadyTickets(ctl)
         /\ Ledger!Awaited = Tickets(ctl)
         /\ Ledger!Leased = ctl.active
<1>1. ReadyLeases(ctl) \subseteq ctl.active
  BY DEF WellFormed, ReadyOK
<1>2. Ledger!PromisedTickets = ReadyTickets(ctl)
  BY DEF Ledger!PromisedTickets, ReadyTickets
<1>3. Ledger!Leased = ctl.active
  BY <1>1 DEF Ledger!Leased, ReadyLeases
<1>4. Ledger!Awaited = Tickets(ctl)
  BY <1>2 DEF Ledger!Awaited, Tickets
<1>. QED BY <1>2, <1>3, <1>4

LEMMA LedgerIsSound ==
  ASSUME WellFormed(ctl)
  PROVE  Ledger!Sound
<1>1. LeasesOK(ctl) /\ ReadyOK(ctl) /\ IdsOK(ctl)
  BY DEF WellFormed
<1>2. /\ QueuedTickets(ctl) \cap ReadyTickets(ctl) = {}
      /\ ctl.terminal \cap (QueuedTickets(ctl) \cup ReadyTickets(ctl)) = {}
  BY <1>1 DEF IdsOK
<1>3. /\ \A p, q \in ctl.ready : p.ticket = q.ticket \/ p.lease = q.lease => p = q
      /\ \A p \in ctl.ready : p.lease \notin ctl.active \ ReadyLeases(ctl)
  BY <1>1 DEF ReadyOK, ReadyLeases
<1>4. \A l, m \in ctl.active : l.id = m.id => l = m
  BY <1>1 DEF LeasesOK, UniqueIds
<1>5. /\ \A l \in ctl.active : l.id \in 1..(ctl.next_id - 1) /\ l.id \notin Tickets(ctl)
      /\ Tickets(ctl) \subseteq 1..(ctl.next_id - 1)
  BY <1>1 DEF IdsOK
<1>6. LeasesFit(ctl.active)
  <2> SUFFICES ASSUME NEW route \in Routes
               PROVE  TokensOf({l \in ctl.active : l.route = route}) <= Capacity(route)
    BY DEF LeasesFit
  <2>. QED BY <1>1 DEF LeasesOK, LeasesOn
<1>. QED BY <1>2, <1>3, <1>4, <1>5, <1>6, LedgerMeans DEF Ledger!Sound

(* A step that settles, given what Settles says of the controllers before  *)
(* and after, but for the ticket that is answered.                         *)
LEMMA SettleStep ==
  ASSUME WellFormed(ctl), WellFormed(ctl)', NEW answered,
         ctl.next_id <= ctl'.next_id,
         Tickets(ctl) \ answered \subseteq Tickets(ctl'),
         {g \in ctl.ready : g.ticket \notin answered} \subseteq ctl'.ready,
         ctl.terminal \ answered \subseteq ctl'.terminal,
         ctl'.terminal \ ctl.terminal \subseteq QueuedTickets(ctl),
         \A g \in ctl'.ready \ ctl.ready :
           /\ g.ticket \in QueuedTickets(ctl)
           /\ g.lease.id \in ctl.next_id..(ctl'.next_id - 1)
           /\ \A behind \in QueuedTickets(ctl') : g.ticket < behind
  PROVE  Ledger!Settle(answered)
<1>1. Ledger!Awaited = Tickets(ctl)
  BY LedgerMeans
<1>2. (Ledger!Awaited = Tickets(ctl))'
  BY LedgerMeans, PTL
<1>3. ctl.next_id \in Nat /\ ctl'.next_id \in Nat
  BY DEF WellFormed, Controller
<1>4. \A id \in ctl.next_id..(ctl'.next_id - 1) : Ledger!New(id)
  BY <1>3 DEF Ledger!New
<1>5. ctl.next_id - 1 <= ctl'.next_id - 1
  BY <1>3
<1>. QED BY <1>1, <1>2, <1>4, <1>5 DEF Ledger!Settle

(* admit lends a lease, queues a ticket, or answers without either.        *)
LEMMA AdmitIsLedgerStep ==
  ASSUME WellFormed(ctl), WellFormed(ctl)', now \in Nat,
         NEW cost \in Costs, NEW deadline \in now..MaxTime,
         NEW allow_degrade \in BOOLEAN, NEW available \in Availability,
         AdmitRequest(cost, deadline, allow_degrade, available)
  PROVE  Ledger!Next
<1> DEFINE b == Refresh(ctl, available, now)
           tokens == TotalTokens(cost)
           decision == Decide(b, tokens, deadline, allow_degrade, available, now)
           lease == NewLease(b, decision, tokens)
           a == Admit(ctl, cost, deadline, allow_degrade, available, now)
<1>1. WellFormed(b) /\ Settles(ctl, b)
  BY RefreshOK, RefreshSettles
<1>2. ctl' = IF decision \in Routes THEN MakeLease(b, lease)
             ELSE IF decision = "queued" THEN Enqueue(b, tokens, deadline, allow_degrade)
             ELSE b
  BY DEF Admit, AdmitRequest, Answer
<1> HIDE DEF b, tokens, decision
<1>3. /\ b \in Controller /\ ReadyOK(b) /\ IdsOK(b) /\ b.next_id \in Nat /\ ctl.next_id \in Nat
  BY <1>1 DEF WellFormed, Controller
<1>4. CASE decision \in Routes
  <2>1. /\ ctl'.queue = b.queue /\ ctl'.ready = b.ready /\ ctl'.terminal = b.terminal
        /\ ctl'.active = b.active \cup {lease} /\ ctl'.next_id = b.next_id + 1
        /\ lease.id = b.next_id
    BY <1>2, <1>3, <1>4 DEF MakeLease, NewLease, Controller
  <2> HIDE DEF lease
  <2>2. /\ QueuedTickets(ctl') = QueuedTickets(b) /\ Tickets(ctl') = Tickets(b)
        /\ ReadyLeases(ctl') = ReadyLeases(b)
    BY <2>1 DEF QueuedTickets, Tickets, ReadyTickets, ReadyLeases
  <2>3. Ledger!Settle({})
    <3>1. /\ ctl.next_id <= ctl'.next_id /\ Tickets(ctl) \ {} \subseteq Tickets(ctl')
          /\ {g \in ctl.ready : g.ticket \notin {}} \subseteq ctl'.ready
          /\ ctl.terminal \ {} \subseteq ctl'.terminal
          /\ ctl'.terminal \ ctl.terminal \subseteq QueuedTickets(ctl)
      BY <1>1, <1>3, <2>1, <2>2 DEF Settles
    <3>2. \A g \in ctl'.ready \ ctl.ready :
            /\ g.ticket \in QueuedTickets(ctl)
            /\ g.lease.id \in ctl.next_id..(ctl'.next_id - 1)
            /\ \A behind \in QueuedTickets(ctl') : g.ticket < behind
      BY <1>1, <1>3, <2>1, <2>2 DEF Settles
    <3>. QED BY <3>1, <3>2, SettleStep
  <2>4. lease \notin b.active
    BY <1>3, <2>1 DEF IdsOK
  <2>5. Ledger!New(lease.id)
    BY <1>1, <1>3, <2>1 DEF Ledger!New, Settles
  <2>6. ctl'.active \ ReadyLeases(ctl') = (ctl.active \ ReadyLeases(ctl)) \cup {lease}
    <3>1. lease \notin ReadyLeases(b)
      BY <1>3, <2>4 DEF ReadyOK
    <3>. QED BY <1>1, <2>1, <2>2, <3>1 DEF Settles, CallersLeases
  <2>7. lease \notin ctl.active \ ReadyLeases(ctl)
    BY <1>1, <2>4 DEF Settles, CallersLeases
  <2>8. QueuedTickets(ctl') \subseteq QueuedTickets(ctl)
    BY <1>1, <2>2 DEF Settles
  <2>9. Ledger!Lend
    BY <2>3, <2>5, <2>6, <2>7, <2>8 DEF Ledger!Lend
  <2>. QED BY <2>9 DEF Ledger!Next
<1>5. CASE decision \notin Routes /\ decision = "queued"
  <2>1. /\ ctl'.ready = b.ready /\ ctl'.terminal = b.terminal
        /\ ctl'.active = b.active /\ ctl'.next_id = b.next_id + 1
        /\ QueuedTickets(ctl') = QueuedTickets(b) \cup {b.next_id}
    <3> DEFINE e == [id |-> b.next_id, tokens |-> tokens,
                     deadline |-> deadline, allow_degrade |-> allow_degrade]
    <3>1. /\ ctl'.ready = b.ready /\ ctl'.terminal = b.terminal
          /\ ctl'.active = b.active /\ ctl'.next_id = b.next_id + 1
          /\ ctl'.queue = b.queue \cup {e} /\ e.id = b.next_id
      BY <1>2, <1>3, <1>5 DEF Enqueue, Controller
    <3> HIDE DEF e
    <3>2. QueuedTickets(ctl') = {f.id : f \in b.queue \cup {e}}
      BY <3>1 DEF QueuedTickets
    <3>3. {f.id : f \in b.queue \cup {e}} = QueuedTickets(b) \cup {e.id}
      BY DEF QueuedTickets
    <3>. QED BY <3>1, <3>2, <3>3
  <2>2. Tickets(ctl') = Tickets(b) \cup {b.next_id} /\ ReadyLeases(ctl') = ReadyLeases(b)
    BY <2>1 DEF Tickets, ReadyTickets, ReadyLeases
  <2>3. Ledger!Settle({})
    <3>1. /\ ctl.next_id <= ctl'.next_id /\ Tickets(ctl) \ {} \subseteq Tickets(ctl')
          /\ {g \in ctl.ready : g.ticket \notin {}} \subseteq ctl'.ready
          /\ ctl.terminal \ {} \subseteq ctl'.terminal
          /\ ctl'.terminal \ ctl.terminal \subseteq QueuedTickets(ctl)
      BY <1>1, <1>3, <2>1, <2>2 DEF Settles
    <3>2. \A g \in b.ready : g.ticket < b.next_id
      BY <1>3 DEF IdsOK, Tickets, ReadyTickets
    <3>3. \A g \in ctl'.ready \ ctl.ready :
            /\ g.ticket \in QueuedTickets(ctl)
            /\ g.lease.id \in ctl.next_id..(ctl'.next_id - 1)
            /\ \A behind \in QueuedTickets(ctl') : g.ticket < behind
      BY <1>1, <1>3, <2>1, <3>2 DEF Settles
    <3>. QED BY <3>1, <3>3, SettleStep
  <2>4. Ledger!New(b.next_id)
    BY <1>1, <1>3, <2>1 DEF Ledger!New, Settles
  <2>5. ctl'.active \ ReadyLeases(ctl') = ctl.active \ ReadyLeases(ctl)
    BY <1>1, <2>1, <2>2 DEF Settles, CallersLeases
  <2>6. /\ b.next_id \in QueuedTickets(ctl')
        /\ QueuedTickets(ctl') \ {b.next_id} \subseteq QueuedTickets(ctl)
    BY <1>1, <2>1 DEF Settles
  <2>7. Ledger!Enqueue
    BY <2>3, <2>4, <2>5, <2>6 DEF Ledger!Enqueue
  <2>. QED BY <2>7 DEF Ledger!Next
<1>6. CASE decision \notin Routes /\ decision # "queued"
  <2>1. ctl' = b
    BY <1>2, <1>6
  <2>2. Settles(ctl, ctl')
    BY <1>1, <2>1
  <2>3. Ledger!Settle({})
    BY <2>2, SettleStep DEF Settles
  <2>4. /\ ctl'.active \ ReadyLeases(ctl') = ctl.active \ ReadyLeases(ctl)
        /\ QueuedTickets(ctl') \subseteq QueuedTickets(ctl)
    BY <2>2 DEF Settles, CallersLeases
  <2>5. Ledger!Defer
    BY <2>3, <2>4 DEF Ledger!Defer
  <2>. QED BY <2>5 DEF Ledger!Next
<1>. QED BY <1>4, <1>5, <1>6

(* poll answers its ticket, or tells it to ask again.                      *)
LEMMA PollIsLedgerStep ==
  ASSUME WellFormed(ctl), WellFormed(ctl)', now \in Nat,
         NEW ticket \in Issued, NEW available \in Availability,
         PollTicket(ticket, available)
  PROVE  Ledger!Next
<1> DEFINE b == Refresh(ctl, available, now)
           granted == {g \in b.ready : g.ticket = ticket}
<1>1. WellFormed(b) /\ Settles(ctl, b)
  BY RefreshOK, RefreshSettles
<1>2. ctl' = IF granted # {} THEN [b EXCEPT !.ready = @ \ granted]
             ELSE IF ticket \in b.terminal THEN [b EXCEPT !.terminal = @ \ {ticket}]
             ELSE b
  BY DEF PollTicket, Poll, Answer
<1> HIDE DEF b
<1>3. /\ b \in Controller /\ ReadyOK(b) /\ IdsOK(b) /\ b.next_id \in Nat /\ ctl.next_id \in Nat
      /\ ReadyOK(ctl)
  BY <1>1 DEF WellFormed, Controller
<1>4. Ledger!Awaited = Tickets(ctl) /\ (Ledger!Awaited = Tickets(ctl))'
  BY LedgerMeans, PTL
<1>5. CASE granted # {}
  <2>1. PICK g \in b.ready : g.ticket = ticket
    BY <1>5
  <2>2. granted = {g} /\ g.lease \in b.active
    BY <1>3, <2>1 DEF ReadyOK, ReadyLeases
  <2>3. /\ ctl'.queue = b.queue /\ ctl'.ready = b.ready \ {g} /\ ctl'.terminal = b.terminal
        /\ ctl'.active = b.active /\ ctl'.next_id = b.next_id
    BY <1>2, <1>3, <1>5, <2>2 DEF Controller
  <2>4. QueuedTickets(ctl') = QueuedTickets(b) /\ Tickets(ctl') = Tickets(b) \ {ticket}
    BY <1>3, <2>1, <2>3 DEF QueuedTickets, Tickets, ReadyTickets, IdsOK, ReadyOK
  <2>5. ReadyLeases(ctl') = ReadyLeases(b) \ {g.lease} /\ g.lease \in ReadyLeases(b)
    BY <1>3, <2>1, <2>3 DEF ReadyLeases, ReadyOK
  <2>6. ctl'.active \ ReadyLeases(ctl') = (ctl.active \ ReadyLeases(ctl)) \cup {g.lease}
    BY <1>1, <2>2, <2>3, <2>5 DEF Settles, CallersLeases
  <2>7. Ledger!Settle({ticket})
    <3>1. /\ ctl.next_id <= ctl'.next_id /\ Tickets(ctl) \ {ticket} \subseteq Tickets(ctl')
          /\ {h \in ctl.ready : h.ticket \notin {ticket}} \subseteq ctl'.ready
          /\ ctl.terminal \ {ticket} \subseteq ctl'.terminal
          /\ ctl'.terminal \ ctl.terminal \subseteq QueuedTickets(ctl)
      BY <1>1, <2>1, <2>3, <2>4 DEF Settles
    <3>2. \A h \in ctl'.ready \ ctl.ready :
            /\ h.ticket \in QueuedTickets(ctl)
            /\ h.lease.id \in ctl.next_id..(ctl'.next_id - 1)
            /\ \A behind \in QueuedTickets(ctl') : h.ticket < behind
      BY <1>1, <2>3, <2>4 DEF Settles
    <3>. QED BY <3>1, <3>2, SettleStep
  <2>8. ticket \in Tickets(ctl) /\ ticket \notin Tickets(ctl')
        /\ QueuedTickets(ctl') \subseteq QueuedTickets(ctl)
    BY <1>1, <2>1, <2>4 DEF Settles, Tickets, ReadyTickets
  <2>9. CASE g \in ctl.ready
    <3>1. \E p \in ctl.ready : p.ticket = ticket
            /\ ctl'.active \ ReadyLeases(ctl')
                 = (ctl.active \ ReadyLeases(ctl)) \cup {p.lease}
      BY <2>1, <2>6, <2>9
    <3>2. Ledger!Respond(ticket)
      BY <1>4, <2>7, <2>8, <3>1 DEF Ledger!Respond
    <3>. QED BY <1>4, <2>8, <3>2 DEF Ledger!Next
  <2>10. CASE g \notin ctl.ready
    <3>1. /\ ticket \in QueuedTickets(ctl)
          /\ g.lease.id \in ctl.next_id..(b.next_id - 1)
          /\ \A behind \in QueuedTickets(ctl') : ticket < behind
      BY <1>1, <2>1, <2>4, <2>10 DEF Settles
    <3>2. Ledger!New(g.lease.id)
      BY <1>3, <2>3, <3>1 DEF Ledger!New
    <3>3. \E l \in ctl'.active \ ReadyLeases(ctl') :
            /\ Ledger!New(l.id)
            /\ ctl'.active \ ReadyLeases(ctl') = (ctl.active \ ReadyLeases(ctl)) \cup {l}
      BY <2>6, <3>2
    <3>4. Ledger!Respond(ticket)
      BY <1>4, <2>7, <2>8, <3>1, <3>3 DEF Ledger!Respond
    <3>. QED BY <1>4, <2>8, <3>4 DEF Ledger!Next
  <2>. QED BY <2>9, <2>10
<1>6. CASE granted = {} /\ ticket \in b.terminal
  <2>1. /\ ctl'.queue = b.queue /\ ctl'.ready = b.ready
        /\ ctl'.terminal = b.terminal \ {ticket}
        /\ ctl'.active = b.active /\ ctl'.next_id = b.next_id
    BY <1>2, <1>3, <1>6 DEF Controller
  <2>2. /\ QueuedTickets(ctl') = QueuedTickets(b) /\ ReadyTickets(ctl') = ReadyTickets(b)
        /\ ReadyLeases(ctl') = ReadyLeases(b)
    BY <2>1 DEF QueuedTickets, ReadyTickets, ReadyLeases
  <2>3. Tickets(ctl') = Tickets(b) \ {ticket}
    BY <1>3, <1>6, <2>1, <2>2 DEF Tickets, IdsOK
  <2>4. Ledger!Settle({ticket})
    <3>1. /\ ctl.next_id <= ctl'.next_id /\ Tickets(ctl) \ {ticket} \subseteq Tickets(ctl')
          /\ {h \in ctl.ready : h.ticket \notin {ticket}} \subseteq ctl'.ready
          /\ ctl.terminal \ {ticket} \subseteq ctl'.terminal
          /\ ctl'.terminal \ ctl.terminal \subseteq QueuedTickets(ctl)
      BY <1>1, <2>1, <2>3 DEF Settles
    <3>2. \A h \in ctl'.ready \ ctl.ready :
            /\ h.ticket \in QueuedTickets(ctl)
            /\ h.lease.id \in ctl.next_id..(ctl'.next_id - 1)
            /\ \A behind \in QueuedTickets(ctl') : h.ticket < behind
      BY <1>1, <2>1, <2>2 DEF Settles
    <3>. QED BY <3>1, <3>2, SettleStep
  <2>5. /\ ticket \in QueuedTickets(ctl) \cup ctl.terminal
        /\ ticket \in Tickets(ctl) /\ ticket \notin Tickets(ctl')
        /\ QueuedTickets(ctl') \subseteq QueuedTickets(ctl)
    BY <1>1, <1>6, <2>2, <2>3 DEF Settles, Tickets
  <2>6. ctl'.active \ ReadyLeases(ctl') = ctl.active \ ReadyLeases(ctl)
    BY <1>1, <2>1, <2>2 DEF Settles, CallersLeases
  <2>7. Ledger!Respond(ticket)
    BY <1>4, <2>4, <2>5, <2>6 DEF Ledger!Respond
  <2>. QED BY <1>4, <2>5, <2>7 DEF Ledger!Next
<1>7. CASE granted = {} /\ ticket \notin b.terminal
  <2>1. Settles(ctl, ctl')
    BY <1>1, <1>2, <1>7
  <2>2. Ledger!Settle({})
    BY <2>1, SettleStep DEF Settles
  <2>3. /\ ctl'.active \ ReadyLeases(ctl') = ctl.active \ ReadyLeases(ctl)
        /\ QueuedTickets(ctl') \subseteq QueuedTickets(ctl)
    BY <2>1 DEF Settles, CallersLeases
  <2>4. Ledger!Defer
    BY <2>2, <2>3 DEF Ledger!Defer
  <2>. QED BY <2>4 DEF Ledger!Next
<1>. QED BY <1>5, <1>6, <1>7

(* cancel withdraws its ticket, and does nothing for a number that nobody  *)
(* waits for.                                                              *)
LEMMA CancelIsLedgerStep ==
  ASSUME WellFormed(ctl), NEW ticket, CancelTicket(ticket)
  PROVE  Ledger!Next \/ UNCHANGED Ledger!ledger
<1>1. ctl' = Cancel(ctl, ticket)
  BY DEF CancelTicket
<1>2. ctl \in Controller /\ ReadyOK(ctl) /\ IdsOK(ctl)
  BY DEF WellFormed
<1>3. /\ QueuedTickets(ctl') = QueuedTickets(ctl) \ {ticket}
      /\ ctl'.ready = {g \in ctl.ready : g.ticket # ticket}
      /\ ctl'.terminal = ctl.terminal \ {ticket}
      /\ ctl'.next_id = ctl.next_id
  <2>1. CASE ticket \in QueuedTickets(ctl)
    <3>1. /\ ctl'.queue = ctl.queue \ {e \in ctl.queue : e.id = ticket}
          /\ ctl'.ready = ctl.ready /\ ctl'.terminal = ctl.terminal \ {ticket}
          /\ ctl'.next_id = ctl.next_id
      BY <1>1, <1>2, <2>1 DEF Cancel, QueuedTickets, Controller
    <3>2. \A g \in ctl.ready : g.ticket # ticket
      BY <1>2, <2>1 DEF IdsOK, ReadyTickets
    <3>. QED BY <3>1, <3>2 DEF QueuedTickets
  <2>2. CASE ticket \in ReadyTickets(ctl)
    <3>1. {e \in ctl.queue : e.id = ticket} = {} /\ ticket \notin ctl.terminal
      BY <1>2, <2>2 DEF IdsOK, QueuedTickets
    <3>2. PICK g \in ctl.ready : g.ticket = ticket
      BY <2>2 DEF ReadyTickets
    <3>3. {h \in ctl.ready : h.ticket = ticket} = {g}
      BY <1>2, <3>2 DEF ReadyOK
    <3>4. (CHOOSE h \in {g} : TRUE) = g
      OBVIOUS
    <3>5. ctl' = [ReleaseLease(ctl, g.lease) EXCEPT !.ready = @ \ {g}]
      BY <1>1, <3>1, <3>3, <3>4 DEF Cancel
    <3>6. /\ ctl'.queue = ctl.queue /\ ctl'.ready = ctl.ready \ {g}
          /\ ctl'.terminal = ctl.terminal /\ ctl'.next_id = ctl.next_id
      BY <1>2, <3>5 DEF ReleaseLease, Controller
    <3>7. QueuedTickets(ctl') = QueuedTickets(ctl) /\ ticket \notin QueuedTickets(ctl)
      BY <3>1, <3>6 DEF QueuedTickets
    <3>. QED BY <3>1, <3>3, <3>6, <3>7
  <2>3. CASE ticket \notin QueuedTickets(ctl) \cup ReadyTickets(ctl)
    <3>1. /\ {e \in ctl.queue : e.id = ticket} = {}
          /\ {g \in ctl.ready : g.ticket = ticket} = {}
      BY <2>3 DEF QueuedTickets, ReadyTickets
    <3>2. ctl' = [ctl EXCEPT !.terminal = @ \ {ticket}]
      BY <1>1, <3>1 DEF Cancel
    <3>3. /\ ctl'.queue = ctl.queue /\ ctl'.ready = ctl.ready
          /\ ctl'.terminal = ctl.terminal \ {ticket} /\ ctl'.next_id = ctl.next_id
      BY <1>2, <3>2 DEF Controller
    <3>. QED BY <2>3, <3>1, <3>3 DEF QueuedTickets
  <2>. QED BY <2>1, <2>2, <2>3
<1>4. ctl'.active \ ReadyLeases(ctl') = ctl.active \ ReadyLeases(ctl)
  BY <1>1, CancelOK DEF CallersLeases
<1>5. Ledger!Withdraw(ticket)
  BY <1>3, <1>4 DEF Ledger!Withdraw
<1>6. CASE ticket \in Tickets(ctl)
  BY <1>5, <1>6, LedgerMeans DEF Ledger!Next
<1>7. CASE ticket \notin Tickets(ctl)
  <2>1. /\ QueuedTickets(ctl') = QueuedTickets(ctl) /\ ctl'.ready = ctl.ready
        /\ ctl'.terminal = ctl.terminal
    BY <1>3, <1>7 DEF Tickets, ReadyTickets
  <2>. QED BY <1>3, <1>4, <2>1 DEF Ledger!ledger
<1>. QED BY <1>6, <1>7

(* complete returns the lease it names, and ignores a number that is not   *)
(* a lease's.                                                              *)
LEMMA CompleteIsLedgerStep ==
  ASSUME WellFormed(ctl), NEW id, NEW service_time \in ServiceTimes,
         CompleteLease(id, service_time)
  PROVE  Ledger!Next \/ UNCHANGED Ledger!ledger
<1>1. PICK ewma \in EwmaAfter(ctl, service_time) : ctl' = Complete(ctl, id, ewma)
  BY DEF CompleteLease
<1>2. ctl \in Controller /\ LeasesOK(ctl) /\ ewma \in Nat
  BY AdmissionBounds DEF WellFormed, EwmaAfter, Controller
<1>3. ctl'.active \ ReadyLeases(ctl')
        = {l \in ctl.active \ ReadyLeases(ctl) : l.id # id}
  BY <1>1, <1>2, CompleteOK DEF CallersLeases, CompleteLease
<1>4. /\ ctl'.queue = ctl.queue /\ ctl'.ready = ctl.ready
      /\ ctl'.terminal = ctl.terminal /\ ctl'.next_id = ctl.next_id
  BY <1>1, <1>2 DEF Complete, ReleaseLease, Controller
<1>5. QueuedTickets(ctl') = QueuedTickets(ctl)
  BY <1>4 DEF QueuedTickets
<1>6. CASE \E l \in ctl.active \ ReadyLeases(ctl) : l.id = id
  <2>1. PICK l \in ctl.active \ ReadyLeases(ctl) : l.id = id
    BY <1>6
  <2>2. {m \in ctl.active \ ReadyLeases(ctl) : m.id # id}
          = (ctl.active \ ReadyLeases(ctl)) \ {l}
    BY <1>2, <2>1 DEF LeasesOK, UniqueIds
  <2>3. Ledger!Return(l)
    BY <1>3, <1>4, <1>5, <2>2 DEF Ledger!Return
  <2>. QED BY <2>1, <2>3 DEF Ledger!Next
<1>7. CASE \A l \in ctl.active \ ReadyLeases(ctl) : l.id # id
  <2>1. {l \in ctl.active \ ReadyLeases(ctl) : l.id # id} = ctl.active \ ReadyLeases(ctl)
    BY <1>7
  <2>. QED BY <1>3, <1>4, <1>5, <2>1 DEF Ledger!ledger
<1>. QED BY <1>6, <1>7

LEMMA StepOfTheLedger == IndInv /\ IndInv' /\ [Next]_vars => [Ledger!Next]_(Ledger!ledger)
<1> SUFFICES ASSUME IndInv, IndInv', [Next]_vars
             PROVE  Ledger!Next \/ UNCHANGED Ledger!ledger
  OBVIOUS
<1>1. WellFormed(ctl) /\ now \in Nat
  BY IndInvMeans, ClockBound DEF IndInv, TypeOK
<1>2. WellFormed(ctl)'
  <2>1. (IndInv => WellFormed(ctl))'
    BY IndInvMeans, PTL DEF IndInv
  <2>. QED BY <2>1
<1>3. ASSUME NEW cost \in Costs, NEW deadline \in now..MaxTime,
             NEW allow_degrade \in BOOLEAN, NEW available \in Availability,
             AdmitRequest(cost, deadline, allow_degrade, available)
      PROVE  Ledger!Next
  BY <1>1, <1>2, <1>3, AdmitIsLedgerStep
<1>4. ASSUME NEW ticket \in Issued, NEW available \in Availability,
             PollTicket(ticket, available)
      PROVE  Ledger!Next
  BY <1>1, <1>2, <1>4, PollIsLedgerStep
<1>5. ASSUME NEW ticket \in Issued, CancelTicket(ticket)
      PROVE  Ledger!Next \/ UNCHANGED Ledger!ledger
  BY <1>1, <1>5, CancelIsLedgerStep
<1>6. ASSUME NEW id \in Issued, NEW service_time \in ServiceTimes,
             CompleteLease(id, service_time)
      PROVE  Ledger!Next \/ UNCHANGED Ledger!ledger
  BY <1>1, <1>6, CompleteIsLedgerStep
<1>7. CASE Tick \/ UNCHANGED vars
  <2>1. ctl' = ctl
    BY <1>7 DEF Tick, vars
  <2>. QED BY <2>1 DEF Ledger!ledger, QueuedTickets, ReadyLeases
<1>. QED BY <1>3, <1>4, <1>5, <1>6, <1>7 DEF Next

(* Every run of the controller is a run of the ledger: to its callers each *)
(* call does one thing the ledger allows.                                  *)
THEOREM ImplementsTheLedger == Spec => ImplementsLedger
<1>1. Init => Ledger!Init
  <2> SUFFICES ASSUME Init PROVE Ledger!Init
    OBVIOUS
  <2>1. /\ ctl.next_id = 1 /\ ctl.queue = {} /\ ctl.ready = {} /\ ctl.terminal = {}
        /\ ctl.active = {}
    BY DEF Init, InitController
  <2>2. QueuedTickets(ctl) = {}
    BY <2>1 DEF QueuedTickets
  <2>. QED BY <2>1, <2>2 DEF Ledger!Init
<1>2. IndInv => Ledger!Sound
  BY IndInvMeans, LedgerIsSound DEF IndInv
<1>. QED BY <1>1, <1>2, StepOfTheLedger, Inductive, PTL DEF Spec, ImplementsLedger, Ledger!Spec
=============================================================================
