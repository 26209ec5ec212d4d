---------------------------- MODULE GatewayProofs ----------------------------
(***************************************************************************)
(* The safety of the gateway server for any number of client connections,  *)
(* any capacities, pool sizes, thresholds and timeouts: what the admission *)
(* controller and the connection pools have given out is what the sessions *)
(* have, whatever the order in which coroutines, watchers, health probes   *)
(* and the shutdown run.  The lemmas of AdmissionControllerProofs say what *)
(* a call of the controller does; here they meet the coroutines.           *)
(***************************************************************************)
EXTENDS Gateway, AdmissionControllerProofs

HoldingAwaits == UpstreamAwaits \cup DownstreamAwaits

(* What a suspended coroutine holds is told by where it is suspended.      *)
WellSuspended(me) ==
  /\ me.ticket = {} <=> me.pc # "polling"
  /\ me.pc = "polling" => \E x \in me.ticket : me.ticket = {x}
  /\ me.lease = {} <=> me.pc \notin ProxyAwaits
  /\ me.pc \in ProxyAwaits => \E l \in me.lease : me.lease = {l}
  /\ me.conn = {} <=> me.pc \notin HoldingAwaits
  /\ me.pc \in HoldingAwaits => \E c \in Connections : me.conn = {c}
  /\ me.attached # {} => /\ me.lease # {}
                         /\ \E c \in Connections : me.attached = {c}

TypeOK ==
  /\ WellFormed(ctl)
  /\ upstream \in [Routes -> Upstream]
  /\ session \in [Sessions -> Session]
  /\ stopping \in BOOLEAN
  /\ now \in Nat
  /\ \A s \in Sessions : WellSuspended(session[s]) /\ session[s].started <= now

(* A connection is in use exactly while one session has it, and is being   *)
(* connected only by that session.                                         *)
ConnectionsOwned ==
  \A r \in Routes, c \in Connections :
    /\ upstream[r].in_use[c] <=> \E s \in Sessions : Uses(s, r, c)
    /\ \A s, t \in Sessions : Uses(s, r, c) /\ Uses(t, r, c) => s = t
    /\ upstream[r].socket[c] = "opening" =>
         \E s \in Sessions : Uses(s, r, c) /\ session[s].pc = "connecting"

(* What the controller has out is what the sessions have, or was leaked.   *)
ControllerOwned ==
  /\ Tickets(ctl) = UNION {session[s].ticket : s \in Sessions}
  /\ \A s \in Sessions : session[s].lease \subseteq CallersLeases(ctl)
  /\ \A s, t \in Sessions : s # t =>
       /\ session[s].ticket \cap session[t].ticket = {}
       /\ session[s].lease \cap session[t].lease = {}

GatewayInv == TypeOK /\ ConnectionsOwned /\ ControllerOwned

-----------------------------------------------------------------------------
(* The only element of a set of one.                                       *)
LEMMA TheOnly == ASSUME NEW x PROVE The({x}) = x
BY DEF The

(* The route of a lease was seen available.                                *)
OnAvailable(l, available) ==
  /\ l.route = "primary" => available.primary
  /\ l.route = "fallback" => available.fallback

(* What a request is answered: a lease that no caller has, a ticket that   *)
(* nobody has, or neither.                                                 *)
FreshAnswer(c, a, available) ==
  /\ \/ a.lease = {}
     \/ \E l \in Lease : /\ a.lease = {l} /\ l \notin CallersLeases(c)
                         /\ OnAvailable(l, available)
  /\ IF a.kind = "queued"
     THEN /\ a.lease = {}
          /\ \E x \in Nat : a.ticket = {x} /\ x \notin Tickets(c)
     ELSE a.ticket = {}

LEMMA AdmitAnswer ==
  ASSUME NEW c, WellFormed(c), NEW cost, cost.prompt_tokens \in 0..MaxUInt64,
         cost.output_tokens \in 0..MaxUInt64, NEW deadline \in Nat,
         NEW allow_degrade \in BOOLEAN, NEW available \in Availability,
         NEW time \in Nat
  PROVE  FreshAnswer(c, Admit(c, cost, deadline, allow_degrade, available, time),
                     available)
<1> DEFINE b == Refresh(c, available, time)
           tokens == TotalTokens(cost)
           decision == Decide(b, tokens, deadline, allow_degrade, available, time)
           lease == NewLease(b, decision, tokens)
           a == Admit(c, cost, deadline, allow_degrade, available, time)
<1>1. /\ WellFormed(b) /\ Tickets(b) = Tickets(c)
      /\ CallersLeases(b) = CallersLeases(c)
  BY RefreshOK DEF CallersLeases
<1>2. tokens \in Nat
  BY TotalTokensType, AdmissionConfig
<1>3. a = IF decision \in Routes
          THEN Answer(MakeLease(b, lease), "admitted", {lease}, {})
          ELSE IF decision = "queued"
          THEN Answer(Enqueue(b, tokens, deadline, allow_degrade), "queued", {},
                      {b.next_id})
          ELSE Answer(b, decision, {}, {})
  BY DEF Admit
<1>4. /\ decision = "primary" => available.primary
      /\ decision = "fallback" => available.fallback
  <2> HIDE DEF b, tokens
  <2>. QED BY DEF Decide, Degrades, PrimaryFits
<1> HIDE DEF b, tokens, decision, a
<1>5. b.next_id \in Nat /\ IdsOK(b)
  BY <1>1 DEF WellFormed, Controller
<1>6. \A i \in 1..(b.next_id - 1) : i # b.next_id
  BY <1>5
<1>7. CASE decision \in Routes
  <2>1. a.lease = {lease} /\ a.ticket = {} /\ a.kind = "admitted"
    BY <1>3, <1>7 DEF Answer
  <2>2. lease \in Lease /\ lease.route = decision /\ lease.id = b.next_id
    BY <1>2, <1>5, <1>7 DEF NewLease, Lease
  <2>3. lease \notin b.active
    BY <1>5, <1>6, <2>2 DEF IdsOK
  <2>4. OnAvailable(lease, available)
    BY <1>4, <2>2 DEF OnAvailable
  <2> HIDE DEF lease
  <2>. QED BY <1>1, <2>1, <2>2, <2>3, <2>4 DEF CallersLeases, FreshAnswer, a
<1>8. CASE decision \notin Routes /\ decision = "queued"
  <2>1. a.lease = {} /\ a.ticket = {b.next_id} /\ a.kind = "queued"
    BY <1>3, <1>8 DEF Answer
  <2>2. b.next_id \notin Tickets(c)
    BY <1>1, <1>5, <1>6 DEF IdsOK
  <2>. QED BY <1>5, <2>1, <2>2 DEF FreshAnswer, a
<1>9. CASE decision \notin Routes /\ decision # "queued"
  BY <1>3, <1>9 DEF Answer, FreshAnswer, a
<1>. QED BY <1>7, <1>8, <1>9

LEMMA PollAnswer ==
  ASSUME NEW c, WellFormed(c), NEW ticket, NEW available \in Availability,
         NEW time \in Nat
  PROVE  LET a == Poll(c, ticket, available, time)
         IN  /\ \/ a.lease = {}
                \/ \E l \in Lease : a.lease = {l} /\ l \notin CallersLeases(c)
             /\ a.kind = "queued" => a.lease = {}
<1> DEFINE b == Refresh(c, available, time)
           granted == {g \in b.ready : g.ticket = ticket}
           a == Poll(c, ticket, available, time)
<1>1. WellFormed(b) /\ CallersLeases(b) = CallersLeases(c)
  BY RefreshOK DEF CallersLeases
<1>2. a = IF granted # {}
          THEN Answer([b EXCEPT !.ready = @ \ granted], "admitted",
                      {g.lease : g \in granted}, {})
          ELSE IF ticket \in b.terminal
          THEN Answer([b EXCEPT !.terminal = @ \ {ticket}], "rejected_deadline", {}, {})
          ELSE IF ticket \in QueuedTickets(b)
          THEN Answer(b, "queued", {}, {ticket})
          ELSE Answer(b, "cancelled", {}, {})
  BY DEF Poll
<1> HIDE DEF b, a
<1>3. b \in Controller /\ ReadyOK(b)
  BY <1>1 DEF WellFormed
<1>4. CASE granted # {}
  <2>1. a.kind = "admitted" /\ a.lease = {g.lease : g \in granted}
    BY <1>2, <1>4 DEF Answer
  <2>2. PICK g \in b.ready : granted = {g}
    BY <1>3, <1>4 DEF ReadyOK
  <2>3. a.lease = {g.lease} /\ g.lease \in Lease
    BY <1>3, <2>1, <2>2 DEF Controller, ReadyEntry
  <2>4. g.lease \in ReadyLeases(b)
    BY DEF ReadyLeases
  <2>. QED BY <1>1, <2>1, <2>3, <2>4 DEF CallersLeases, a
<1>5. CASE granted = {}
  BY <1>2, <1>5 DEF Answer, a
<1>. QED BY <1>4, <1>5

-----------------------------------------------------------------------------
(* The operations of a route keep its types; only acquire, release and     *)
(* those named after sockets touch the pool.                               *)
LEMMA BreakerOpsTyped ==
  ASSUME NEW b \in Breaker, NEW time \in Nat
  PROVE  /\ AfterAllow(b, time) \in Breaker
         /\ RecordSuccess(b) \in Breaker /\ RecordFailure(b, time) \in Breaker
<1>1. AfterAllow(b, time) \in Breaker /\ RecordSuccess(b) \in Breaker
  BY DEF AfterAllow, RecordSuccess, Breaker, CircuitStates
<1>2. /\ Reopen(b, time) \in Breaker
      /\ \A n \in Nat : [Reopen(b, time) EXCEPT !.consecutive_failures = n] \in Breaker
  BY DEF Reopen, Breaker, CircuitStates
<1>3. FailureThreshold \in Nat /\ b.consecutive_failures + 1 \in Nat
  BY CircuitConfig DEF Breaker
<1>4. [b EXCEPT !.consecutive_failures = b.consecutive_failures + 1,
                !.probe_in_flight = FALSE] \in Breaker
  BY <1>3 DEF Breaker
<1>5. b.state \in CircuitStates
  BY DEF Breaker
<1>6. RecordFailure(b, time) \in Breaker
  <2>1. CASE b.state = "half_open"
    BY <1>2, <1>3, <2>1 DEF RecordFailure
  <2>2. CASE b.state = "open"
    BY <1>2, <2>2 DEF RecordFailure
  <2>3. CASE b.state = "closed"
    BY <1>2, <1>3, <1>4, <2>3 DEF RecordFailure
  <2>. QED BY <1>5, <2>1, <2>2, <2>3 DEF CircuitStates
<1>. QED BY <1>1, <1>6

LEMMA RouteOpsTyped ==
  ASSUME NEW u \in Upstream, NEW time \in Nat
  PROVE  \A v \in {AfterAllowAttempt(u, time), RecordSuccessOn(u), RecordFailureOn(u, time)} :
           v \in Upstream /\ v.in_use = u.in_use /\ v.socket = u.socket
<1>1. u.breaker \in Breaker
  BY DEF Upstream
<1>2. \A b \in Breaker :
        /\ [u EXCEPT !.breaker = b] \in Upstream
        /\ [u EXCEPT !.breaker = b].in_use = u.in_use
        /\ [u EXCEPT !.breaker = b].socket = u.socket
  BY DEF Upstream
<1>3. \/ AfterAllowAttempt(u, time) = u
      \/ AfterAllowAttempt(u, time) = [u EXCEPT !.breaker = AfterAllow(u.breaker, time)]
  BY DEF AfterAllowAttempt
<1>4. /\ RecordSuccessOn(u) = [u EXCEPT !.breaker = RecordSuccess(u.breaker)]
      /\ RecordFailureOn(u, time) = [u EXCEPT !.breaker = RecordFailure(u.breaker, time)]
  BY DEF RecordSuccessOn, RecordFailureOn
<1>5. /\ AfterAllow(u.breaker, time) \in Breaker
      /\ RecordSuccess(u.breaker) \in Breaker /\ RecordFailure(u.breaker, time) \in Breaker
  BY <1>1, BreakerOpsTyped
<1> DEFINE Kept(v) == v \in Upstream /\ v.in_use = u.in_use /\ v.socket = u.socket
<1>6. ASSUME NEW b \in Breaker PROVE Kept([u EXCEPT !.breaker = b])
  BY <1>2
<1>7. Kept(u)
  OBVIOUS
<1> HIDE DEF Kept
<1>8. Kept(RecordSuccessOn(u)) /\ Kept(RecordFailureOn(u, time))
  BY <1>4, <1>5, <1>6
<1>9. Kept(AfterAllowAttempt(u, time))
  BY <1>3, <1>5, <1>6, <1>7
<1>. QED BY <1>8, <1>9 DEF Kept

LEMMA AcquireTyped ==
  ASSUME NEW u \in Upstream, NEW c \in Connections, NEW stale \in BOOLEAN
  PROVE  LET v == Acquire(u, c, stale)
         IN /\ v \in Upstream /\ v.in_use = [u.in_use EXCEPT ![c] = TRUE]
            /\ \A d \in Connections : v.socket[d] \in {u.socket[d], "closed"}
BY DEF Acquire, Upstream, Sockets

LEMMA ReleaseTyped ==
  ASSUME NEW u \in Upstream, NEW c \in Connections, NEW reusable \in BOOLEAN
  PROVE  LET v == Release(u, c, reusable)
         IN /\ v \in Upstream /\ v.in_use = [u.in_use EXCEPT ![c] = FALSE]
            /\ \A d \in Connections \ {c} : v.socket[d] = u.socket[d]
            /\ v.socket[c] = IF reusable THEN u.socket[c] ELSE "closed"
BY DEF Release, Upstream, Sockets

LEMMA SetSocketTyped ==
  ASSUME NEW u \in Upstream, NEW c \in Connections, NEW k \in Sockets
  PROVE  LET v == SetSocket(u, c, k)
         IN /\ v \in Upstream /\ v.in_use = u.in_use
            /\ v.socket = [u.socket EXCEPT ![c] = k]
BY DEF SetSocket, Upstream

LEMMA RouteOpsAvailable == TypeOK => RouteAvailability \in Availability
<1> SUFFICES ASSUME TypeOK PROVE RouteAvailability \in Availability
  OBVIOUS
<1>1. /\ upstream["primary"].healthy \in BOOLEAN /\ upstream["fallback"].healthy \in BOOLEAN
  BY DEF TypeOK, Upstream, Routes
<1>2. FallbackEnabled \in BOOLEAN
  BY GatewayConfig, ClockBound
<1>. QED BY <1>1, <1>2 DEF RouteAvailability, Availability, Available, PeekAvailable

(* The least free connection is free.                                      *)
LEMMA FirstFreeIsFree ==
  ASSUME NEW u, FreeConnections(u) # {}
  PROVE  FirstFree(u) \in Connections /\ ~u.in_use[FirstFree(u)]
<1> DEFINE F == FreeConnections(u)
<1>1. F \subseteq Nat /\ F # {}
  BY PoolConfig DEF FreeConnections, Connections
<1>2. \E c \in F : \A d \in F : c <= d
  <2> HIDE DEF F
  <2>1. PICK x \in F : \A y \in F : ~(<<y, x>> \in OpToRel(<, Nat))
    BY <1>1, NatLessThanWellFounded, WFMin, Zenon
  <2>2. \A y \in F : ~(y < x)
    <3> SUFFICES ASSUME NEW y \in F, y < x PROVE FALSE
      OBVIOUS
    <3>1. <<y, x>> \in OpToRel(<, Nat)
      BY <1>1 DEF OpToRel
    <3>. QED BY <2>1, <3>1
  <2>. QED BY <1>1, <2>2
<1>3. FirstFree(u) \in F
  BY <1>2 DEF FirstFree
<1>. QED BY <1>3 DEF FreeConnections

-----------------------------------------------------------------------------
(* A session goes on with lease l: with no connection and the pools as     *)
(* they were, or with a connection of the route that nobody had.           *)
SamePools ==
  \A r \in Routes : /\ upstream'[r].in_use = upstream[r].in_use
                    /\ upstream'[r].socket = upstream[r].socket

TakesConnection(l, c) ==
  /\ ~upstream[l.route].in_use[c]
  /\ upstream'[l.route].in_use = [upstream[l.route].in_use EXCEPT ![c] = TRUE]
  /\ \A d \in Connections : upstream'[l.route].socket[d] \in {upstream[l.route].socket[d], "closed"}
  /\ \A r \in Routes \ {l.route} : upstream'[r] = upstream[r]

GoesOn(s, l) ==
  /\ upstream' \in [Routes -> Upstream]
  /\ \E n \in Session :
       /\ Suspend(s, n) /\ WellSuspended(n) /\ n.lease = {l} /\ n.started <= now
       /\ \/ n.conn = {} /\ SamePools
          \/ \E c \in Connections : n.conn = {c} /\ TakesConnection(l, c)

LEMMA TryAcquireOutcome ==
  ASSUME TypeOK, NEW s \in Sessions, NEW me \in Session, NEW l \in Lease,
         me.lease = {l}, me.ticket = {}, me.conn = {}, me.started <= now,
         me.attached = {} \/ \E c \in Connections : me.attached = {c},
         NEW u \in Upstream, u.in_use = upstream[l.route].in_use,
         u.socket = upstream[l.route].socket, TryAcquire(s, me, u)
  PROVE  GoesOn(s, l)
<1>1. RouteOf(me) = l.route /\ l.route \in Routes
  BY TheOnly DEF RouteOf, Lease
<1>2. CASE FreeConnections(u) = {}
  <2> DEFINE n == [me EXCEPT !.pc = "acquiring"]
  <2>1. Suspend(s, n) /\ upstream' = [upstream EXCEPT ![l.route] = u]
    BY <1>1, <1>2 DEF TryAcquire
  <2>2. n \in Session /\ n.lease = {l} /\ n.conn = {} /\ n.started <= now
    BY DEF Session, Awaits, ProxyAwaits
  <2>3. WellSuspended(n)
    BY DEF WellSuspended, Session, ProxyAwaits, HoldingAwaits, UpstreamAwaits, DownstreamAwaits
  <2>4. upstream' \in [Routes -> Upstream] /\ SamePools
    BY <1>1, <2>1 DEF TypeOK, SamePools
  <2>. QED BY <2>1, <2>2, <2>3, <2>4 DEF GoesOn
<1>3. CASE FreeConnections(u) # {}
  <2> DEFINE c == FirstFree(u)
  <2>1. c \in Connections /\ ~u.in_use[c]
    BY <1>3, FirstFreeIsFree
  <2> HIDE DEF c
  <2>2. PICK stale \in BOOLEAN :
          LET acquired == Acquire(u, c, stale)
              connected == acquired.socket[c] = "open"
          IN /\ Suspend(s, [me EXCEPT
                              !.pc = IF connected THEN "writing" ELSE "resolving",
                              !.conn = {c}, !.attached = {c}])
             /\ upstream' = [upstream EXCEPT ![RouteOf(me)] = acquired]
    BY <1>3 DEF TryAcquire, StaleIdle, c
  <2> DEFINE a == Acquire(u, c, stale)
  <2>3. /\ a \in Upstream /\ a.in_use = [u.in_use EXCEPT ![c] = TRUE]
        /\ \A d \in Connections : a.socket[d] \in {u.socket[d], "closed"}
    BY <2>1, AcquireTyped
  <2>4. upstream' = [upstream EXCEPT ![l.route] = a]
    BY <1>1, <2>2
  <2>5. PICK pc \in {"writing", "resolving"} :
          Suspend(s, [me EXCEPT !.pc = pc, !.conn = {c}, !.attached = {c}])
    BY <2>2
  <2> HIDE DEF a
  <2> DEFINE n == [me EXCEPT !.pc = pc, !.conn = {c}, !.attached = {c}]
  <2>6. n \in Session /\ n.lease = {l} /\ n.conn = {c} /\ n.started <= now
    BY <2>1 DEF Session, Awaits, ProxyAwaits, UpstreamAwaits
  <2>7. WellSuspended(n)
    BY <2>1 DEF WellSuspended, Session, ProxyAwaits, HoldingAwaits, UpstreamAwaits, DownstreamAwaits
  <2>8. upstream' \in [Routes -> Upstream] /\ TakesConnection(l, c)
    BY <1>1, <2>1, <2>3, <2>4 DEF TypeOK, TakesConnection
  <2>. QED BY <2>1, <2>5, <2>6, <2>7, <2>8 DEF GoesOn
<1>. QED BY <1>2, <1>3

LEMMA StartProxyOutcome ==
  ASSUME TypeOK, NEW s \in Sessions, NEW base \in Session, NEW l \in Lease,
         base.conn = {}, base.attached = {}, StartProxy(s, base, l)
  PROVE  GoesOn(s, l)
<1> DEFINE me == [base EXCEPT !.lease = {l}, !.ticket = {}, !.started = now,
                              !.watching = "proxy"]
           u == upstream[l.route]
           entered == AfterAllowAttempt(u, now)
<1>1. l.route \in Routes /\ u \in Upstream /\ now \in Nat
  BY DEF TypeOK, Lease
<1>2. entered \in Upstream /\ entered.in_use = u.in_use /\ entered.socket = u.socket
  BY <1>1, RouteOpsTyped
<1>3. /\ me \in Session /\ me.lease = {l} /\ me.ticket = {} /\ me.conn = {}
      /\ me.attached = {} /\ me.started = now
  BY <1>1 DEF Session
<1>4. \/ Suspend(s, [me EXCEPT !.pc = "sending_error"]) /\ UNCHANGED upstream
      \/ /\ Suspend(s, [me EXCEPT !.pc = "sending_error"])
         /\ upstream' = [upstream EXCEPT ![l.route] = entered]
      \/ TryAcquire(s, me, entered)
  BY DEF StartProxy
<1>7. now <= now
  BY <1>1
<1> HIDE DEF me, entered
<1>5. CASE Suspend(s, [me EXCEPT !.pc = "sending_error"])
           /\ (UNCHANGED upstream \/ upstream' = [upstream EXCEPT ![l.route] = entered])
  <2> DEFINE n == [me EXCEPT !.pc = "sending_error"]
  <2>1. n \in Session /\ n.lease = {l} /\ n.conn = {} /\ n.started <= now
    BY <1>3, <1>7 DEF Session, Awaits, ProxyAwaits
  <2>2. WellSuspended(n)
    BY <1>3 DEF WellSuspended, Session, ProxyAwaits, HoldingAwaits, UpstreamAwaits, DownstreamAwaits
  <2>3. upstream' \in [Routes -> Upstream] /\ SamePools
    BY <1>1, <1>2, <1>5 DEF TypeOK, SamePools
  <2>. QED BY <1>5, <2>1, <2>2, <2>3 DEF GoesOn
<1>6. CASE TryAcquire(s, me, entered)
  BY <1>2, <1>3, <1>6, <1>7, TryAcquireOutcome
<1>. QED BY <1>4, <1>5, <1>6

-----------------------------------------------------------------------------
(* What a step does to the connections.                                    *)
KeepsConnections ==
  /\ \A t \in Sessions : /\ session'[t].conn = session[t].conn
                         /\ session[t].conn # {} => session'[t].lease = session[t].lease
  /\ \A r \in Routes : upstream'[r].in_use = upstream[r].in_use
  /\ \A r \in Routes, c \in Connections : upstream'[r].socket[c] = "opening" =>
       \E t \in Sessions : Uses(t, r, c) /\ session'[t].pc = "connecting"

GainsConnection(s) ==
  /\ session[s].conn = {}
  /\ \A t \in Sessions \ {s} : session'[t] = session[t]
  /\ \E l \in Lease, c \in Connections :
       session'[s].conn = {c} /\ session'[s].lease = {l} /\ TakesConnection(l, c)

GivesConnection(s) ==
  /\ session'[s].conn = {}
  /\ \A t \in Sessions \ {s} : session'[t] = session[t]
  /\ \E r \in Routes, c \in Connections :
       /\ Uses(s, r, c) /\ session[s].conn = {c}
       /\ upstream'[r].in_use = [upstream[r].in_use EXCEPT ![c] = FALSE]
       /\ \A d \in Connections \ {c} : upstream'[r].socket[d] = upstream[r].socket[d]
       /\ upstream'[r].socket[c] # "opening"
       /\ \A q \in Routes \ {r} : upstream'[q] = upstream[q]

LEMMA KeptConnectionsOwned ==
  ASSUME TypeOK, ConnectionsOwned, KeepsConnections PROVE ConnectionsOwned'
<1>1. \A s \in Sessions, r \in Routes, c \in Connections : Uses(s, r, c)' <=> Uses(s, r, c)
  BY DEF KeepsConnections, Uses, RouteOf
<1>. QED BY <1>1 DEF KeepsConnections, ConnectionsOwned

LEMMA GainedConnectionOwned ==
  ASSUME TypeOK, ConnectionsOwned, NEW s \in Sessions, GainsConnection(s)
  PROVE  ConnectionsOwned'
<1>1. PICK l \in Lease, c \in Connections :
        session'[s].conn = {c} /\ session'[s].lease = {l} /\ TakesConnection(l, c)
  BY DEF GainsConnection
<1>2. /\ session[s].conn = {} /\ l.route \in Routes
      /\ \A t \in Sessions \ {s} : session'[t] = session[t]
  BY DEF GainsConnection, Lease
<1>3. \A r \in Routes, d \in Connections :
        /\ ~Uses(s, r, d)
        /\ Uses(s, r, d)' <=> r = l.route /\ d = c
  BY <1>1, <1>2, TheOnly DEF Uses, RouteOf
<1>4. \A t \in Sessions \ {s}, r \in Routes, d \in Connections : Uses(t, r, d)' <=> Uses(t, r, d)
  BY <1>2 DEF Uses, RouteOf
<1>5. \A t \in Sessions : ~Uses(t, l.route, c)
  BY <1>1, <1>2 DEF ConnectionsOwned, TakesConnection
<1>6. ASSUME NEW r \in Routes, NEW d \in Connections
      PROVE  /\ r = l.route /\ d = c => upstream'[r].in_use[d]
             /\ r # l.route \/ d # c => upstream'[r].in_use[d] = upstream[r].in_use[d]
             /\ upstream'[r].socket[d] = "opening" => upstream[r].socket[d] = "opening"
  <2>1. upstream[r].in_use \in [Connections -> BOOLEAN]
    BY DEF TypeOK, Upstream
  <2>2. CASE r = l.route
    BY <1>1, <2>1, <2>2 DEF TakesConnection
  <2>3. CASE r # l.route
    BY <1>1, <2>3 DEF TakesConnection
  <2>. QED BY <2>2, <2>3
<1>7. ASSUME NEW r \in Routes, NEW d \in Connections
      PROVE  /\ upstream'[r].in_use[d] <=> \E t \in Sessions : Uses(t, r, d)'
             /\ \A t, q \in Sessions : Uses(t, r, d)' /\ Uses(q, r, d)' => t = q
             /\ upstream'[r].socket[d] = "opening" =>
                  \E t \in Sessions : Uses(t, r, d)' /\ session'[t].pc = "connecting"
  <2>1. upstream'[r].in_use[d] <=> \E t \in Sessions : Uses(t, r, d)'
    <3>1. CASE r = l.route /\ d = c
      BY <1>3, <1>6, <3>1
    <3>2. CASE ~(r = l.route /\ d = c)
      <4>1. \A t \in Sessions : Uses(t, r, d)' <=> Uses(t, r, d)
        BY <1>3, <1>4, <3>2
      <4>. QED BY <1>6, <3>2, <4>1 DEF ConnectionsOwned
    <3>. QED BY <3>1, <3>2
  <2>2. \A t, q \in Sessions : Uses(t, r, d)' /\ Uses(q, r, d)' => t = q
    BY <1>3, <1>4, <1>5 DEF ConnectionsOwned
  <2>3. upstream'[r].socket[d] = "opening" =>
          \E t \in Sessions : Uses(t, r, d)' /\ session'[t].pc = "connecting"
    BY <1>2, <1>3, <1>4, <1>6 DEF ConnectionsOwned
  <2>. QED BY <2>1, <2>2, <2>3
<1>. QED BY <1>7 DEF ConnectionsOwned

LEMMA GivenConnectionOwned ==
  ASSUME TypeOK, ConnectionsOwned, NEW s \in Sessions, GivesConnection(s)
  PROVE  ConnectionsOwned'
<1>1. PICK r \in Routes, c \in Connections :
       /\ Uses(s, r, c) /\ session[s].conn = {c}
       /\ upstream'[r].in_use = [upstream[r].in_use EXCEPT ![c] = FALSE]
       /\ \A d \in Connections \ {c} : upstream'[r].socket[d] = upstream[r].socket[d]
       /\ upstream'[r].socket[c] # "opening"
       /\ \A q \in Routes \ {r} : upstream'[q] = upstream[q]
  BY DEF GivesConnection
<1>2. /\ session'[s].conn = {} /\ \A t \in Sessions \ {s} : session'[t] = session[t]
  BY DEF GivesConnection
<1>3. \A q \in Routes, d \in Connections :
        /\ ~Uses(s, q, d)'
        /\ Uses(s, q, d) <=> q = r /\ d = c
  BY <1>1, <1>2 DEF Uses
<1>4. \A t \in Sessions \ {s}, q \in Routes, d \in Connections : Uses(t, q, d)' <=> Uses(t, q, d)
  BY <1>2 DEF Uses, RouteOf
<1>5. \A t \in Sessions \ {s} : ~Uses(t, r, c)
  BY <1>1 DEF ConnectionsOwned
<1>6. ASSUME NEW q \in Routes, NEW d \in Connections
      PROVE  /\ q = r /\ d = c => ~upstream'[q].in_use[d] /\ upstream'[q].socket[d] # "opening"
             /\ q # r \/ d # c => /\ upstream'[q].in_use[d] = upstream[q].in_use[d]
                                  /\ upstream'[q].socket[d] = upstream[q].socket[d]
  <2>1. upstream[q].in_use \in [Connections -> BOOLEAN]
    BY DEF TypeOK, Upstream
  <2>2. CASE q = r
    BY <1>1, <2>1, <2>2
  <2>3. CASE q # r
    BY <1>1, <2>3
  <2>. QED BY <2>2, <2>3
<1>7. ASSUME NEW q \in Routes, NEW d \in Connections
      PROVE  /\ upstream'[q].in_use[d] <=> \E t \in Sessions : Uses(t, q, d)'
             /\ \A t, w \in Sessions : Uses(t, q, d)' /\ Uses(w, q, d)' => t = w
             /\ upstream'[q].socket[d] = "opening" =>
                  \E t \in Sessions : Uses(t, q, d)' /\ session'[t].pc = "connecting"
  <2>1. upstream'[q].in_use[d] <=> \E t \in Sessions : Uses(t, q, d)'
    <3>1. CASE q = r /\ d = c
      BY <1>3, <1>4, <1>5, <1>6, <3>1
    <3>2. CASE ~(q = r /\ d = c)
      <4>1. \A t \in Sessions : Uses(t, q, d)' <=> Uses(t, q, d)
        BY <1>3, <1>4, <3>2
      <4>. QED BY <1>6, <3>2, <4>1 DEF ConnectionsOwned
    <3>. QED BY <3>1, <3>2
  <2>2. \A t, w \in Sessions : Uses(t, q, d)' /\ Uses(w, q, d)' => t = w
    BY <1>3, <1>4 DEF ConnectionsOwned
  <2>3. upstream'[q].socket[d] = "opening" =>
          \E t \in Sessions : Uses(t, q, d)' /\ session'[t].pc = "connecting"
    BY <1>2, <1>3, <1>4, <1>6 DEF ConnectionsOwned
  <2>. QED BY <2>1, <2>2, <2>3
<1>. QED BY <1>7 DEF ConnectionsOwned

-----------------------------------------------------------------------------
(* What a step does to the controller.                                     *)
KeepsControl ==
  /\ ctl' = ctl
  /\ \A t \in Sessions : /\ session'[t].ticket = session[t].ticket
                         /\ session'[t].lease = session[t].lease

GetsAnswer(s) ==
  /\ WellFormed(ctl')
  /\ \A t \in Sessions \ {s} : session'[t] = session[t]
  /\ session[s].lease = {}
  /\ Tickets(ctl') = (Tickets(ctl) \ session[s].ticket) \cup session'[s].ticket
  /\ session'[s].ticket \cap Tickets(ctl) \subseteq session[s].ticket
  /\ CallersLeases(ctl) \subseteq CallersLeases(ctl')
  /\ session'[s].lease \subseteq CallersLeases(ctl') \ CallersLeases(ctl)
  /\ \/ CallersLeases(ctl') \subseteq CallersLeases(ctl) \cup session'[s].lease
     \/ session[s].pc = "polling" /\ session[s].client_gone /\ session'[s].pc = "done"

EndsLease(s) ==
  /\ \A t \in Sessions \ {s} : session'[t] = session[t]
  /\ session'[s].lease = {} /\ session'[s].ticket = {} /\ session[s].ticket = {}
  /\ \E l \in Lease, ewma \in Nat :
       session[s].lease = {l} /\ ctl' = Complete(ctl, l.id, ewma)

LEMMA KeptControlOwned ==
  ASSUME TypeOK, ControllerOwned, KeepsControl
  PROVE  WellFormed(ctl') /\ ControllerOwned' /\ Leaked' = Leaked
<1>1. WellFormed(ctl') /\ Leaked' = Leaked
  BY DEF KeepsControl, TypeOK, Leaked, Holds
<1>2. UNION {session'[s].ticket : s \in Sessions} = UNION {session[s].ticket : s \in Sessions}
  BY DEF KeepsControl
<1>. QED BY <1>1, <1>2 DEF KeepsControl, ControllerOwned

LEMMA AnswerOwned ==
  ASSUME TypeOK, ControllerOwned, NEW s \in Sessions, GetsAnswer(s)
  PROVE  /\ WellFormed(ctl') /\ ControllerOwned'
         /\ \/ Leaked' \subseteq Leaked
            \/ session[s].pc = "polling" /\ session[s].client_gone /\ session'[s].pc = "done"
<1>1. Tickets(ctl)' = Tickets(ctl') /\ CallersLeases(ctl)' = CallersLeases(ctl')
  OBVIOUS
<1>2. \A t \in Sessions \ {s} : session'[t] = session[t]
  BY DEF GetsAnswer
<1>3. Tickets(ctl') = UNION {session'[t].ticket : t \in Sessions}
  <2>1. ASSUME NEW x \in Tickets(ctl') PROVE \E t \in Sessions : x \in session'[t].ticket
    <3>1. CASE x \in session'[s].ticket
      BY <3>1
    <3>2. CASE x \notin session'[s].ticket
      <4>1. x \in Tickets(ctl) \ session[s].ticket
        BY <2>1, <3>2 DEF GetsAnswer
      <4>2. PICK t \in Sessions : x \in session[t].ticket
        BY <4>1 DEF ControllerOwned
      <4>. QED BY <1>2, <4>1, <4>2
    <3>. QED BY <3>1, <3>2
  <2>2. ASSUME NEW t \in Sessions, NEW x \in session'[t].ticket PROVE x \in Tickets(ctl')
    <3>1. CASE t = s
      BY <3>1 DEF GetsAnswer
    <3>2. CASE t # s
      <4>1. x \in session[t].ticket /\ x \in Tickets(ctl) /\ x \notin session[s].ticket
        BY <1>2, <3>2 DEF ControllerOwned
      <4>. QED BY <4>1 DEF GetsAnswer
    <3>. QED BY <3>1, <3>2
  <2>. QED BY <2>1, <2>2
<1>4. \A t \in Sessions : session'[t].lease \subseteq CallersLeases(ctl')
  BY <1>2 DEF GetsAnswer, ControllerOwned
<1>5. ASSUME NEW t \in Sessions, NEW q \in Sessions, t # q
      PROVE  /\ session'[t].ticket \cap session'[q].ticket = {}
             /\ session'[t].lease \cap session'[q].lease = {}
  <2>1. ASSUME NEW w \in Sessions \ {s}
        PROVE  /\ session'[s].ticket \cap session[w].ticket = {}
               /\ session'[s].lease \cap session[w].lease = {}
    <3>1. session[w].ticket \subseteq Tickets(ctl) /\ session[w].ticket \cap session[s].ticket = {}
      BY DEF ControllerOwned
    <3>2. session[w].lease \subseteq CallersLeases(ctl)
      BY DEF ControllerOwned
    <3>. QED BY <3>1, <3>2 DEF GetsAnswer
  <2>. QED BY <1>2, <1>5, <2>1 DEF ControllerOwned
<1>6. ControllerOwned'
  BY <1>1, <1>3, <1>4, <1>5 DEF ControllerOwned
<1>7. Leaked = {l \in CallersLeases(ctl) : \A t \in Sessions : l \notin session[t].lease}
  BY DEF Leaked, Holds, CallersLeases
<1>8. Leaked' = {l \in CallersLeases(ctl') : \A t \in Sessions : l \notin session'[t].lease}
  BY DEF Leaked, Holds, CallersLeases
<1>9. CASE CallersLeases(ctl') \subseteq CallersLeases(ctl) \cup session'[s].lease
  <2>1. Leaked' \subseteq Leaked
    BY <1>2, <1>7, <1>8, <1>9 DEF GetsAnswer
  <2>. QED BY <1>6, <2>1 DEF GetsAnswer
<1>. QED BY <1>6, <1>9 DEF GetsAnswer

LEMMA EndedLeaseOwned ==
  ASSUME TypeOK, ControllerOwned, NEW s \in Sessions, EndsLease(s)
  PROVE  WellFormed(ctl') /\ ControllerOwned' /\ Leaked' \subseteq Leaked
<1>1. PICK l \in Lease, ewma \in Nat :
        session[s].lease = {l} /\ ctl' = Complete(ctl, l.id, ewma)
  BY DEF EndsLease
<1>2. /\ \A t \in Sessions \ {s} : session'[t] = session[t]
      /\ session'[s].lease = {} /\ session'[s].ticket = {} /\ session[s].ticket = {}
  BY DEF EndsLease
<1>3. WellFormed(ctl) /\ UniqueIds(ctl.active) /\ ReadyLeases(ctl) \subseteq ctl.active
  BY DEF TypeOK, WellFormed, LeasesOK, ReadyOK
<1>4. l \in CallersLeases(ctl) /\ CallersLeases(ctl) \subseteq ctl.active
  BY <1>1 DEF ControllerOwned, CallersLeases
<1>5. l.id \notin {g.lease.id : g \in ctl.ready}
  BY <1>3, <1>4 DEF UniqueIds, CallersLeases, ReadyLeases
<1>6. /\ WellFormed(ctl') /\ Tickets(ctl') = Tickets(ctl)
      /\ CallersLeases(ctl') = {k \in CallersLeases(ctl) : k.id # l.id}
  BY <1>1, <1>3, <1>5, CompleteOK
<1>7. CallersLeases(ctl') = CallersLeases(ctl) \ {l}
  BY <1>3, <1>4, <1>6 DEF UniqueIds
<1>8. Tickets(ctl)' = Tickets(ctl') /\ CallersLeases(ctl)' = CallersLeases(ctl')
  OBVIOUS
<1>9. \A t \in Sessions : session'[t].ticket = session[t].ticket
  BY <1>2
<1>10. UNION {session'[t].ticket : t \in Sessions} = UNION {session[t].ticket : t \in Sessions}
  BY <1>9
<1>11. \A t \in Sessions \ {s} : l \notin session[t].lease
  BY <1>1 DEF ControllerOwned
<1>12. ControllerOwned'
  BY <1>2, <1>6, <1>7, <1>8, <1>9, <1>10, <1>11 DEF ControllerOwned
<1>13. Leaked = {k \in CallersLeases(ctl) : \A t \in Sessions : k \notin session[t].lease}
  BY DEF Leaked, Holds, CallersLeases
<1>14. Leaked' = {k \in CallersLeases(ctl') : \A t \in Sessions : k \notin session'[t].lease}
  BY DEF Leaked, Holds, CallersLeases
<1>15. Leaked' \subseteq Leaked
  BY <1>1, <1>2, <1>7, <1>13, <1>14
<1>. QED BY <1>6, <1>12, <1>15

-----------------------------------------------------------------------------
(* What each action has to show: its effect on the connections is one of   *)
(* the three above, so is its effect on the controller, and the rest is    *)
(* well typed.  Only an arrival and a poll of the queue get answers.       *)
RestTyped ==
  /\ upstream \in [Routes -> Upstream]
  /\ session \in [Sessions -> Session]
  /\ stopping \in BOOLEAN
  /\ now \in Nat
  /\ \A s \in Sessions : WellSuspended(session[s]) /\ session[s].started <= now

ConnectionEffect == KeepsConnections
                    \/ \E s \in Sessions : GainsConnection(s) \/ GivesConnection(s)

ControlEffect == KeepsControl \/ \E s \in Sessions : EndsLease(s)

StepOK == RestTyped' /\ ConnectionEffect /\ ControlEffect

AnswerOK(s) == RestTyped' /\ ConnectionEffect /\ GetsAnswer(s)

LEMMA TypedRest == TypeOK <=> WellFormed(ctl) /\ RestTyped
BY DEF TypeOK, RestTyped

(* A coroutine that suspends leaves the other sessions alone.              *)
LEMMA Suspended ==
  ASSUME TypeOK, NEW s \in Sessions, NEW n \in Session, Suspend(s, n),
         WellSuspended(n), n.started <= now, upstream' \in [Routes -> Upstream],
         UNCHANGED <<stopping, now>>
  PROVE  /\ RestTyped'
         /\ session'[s] = n
         /\ \A t \in Sessions \ {s} : session'[t] = session[t]
BY DEF TypeOK, RestTyped, Suspend

LEMMA EndedTyped ==
  Ended \in Session /\ WellSuspended(Ended) /\ Ended.lease = {} /\ Ended.ticket = {}
  /\ Ended.conn = {} /\ Ended.started = 0 /\ Ended.pc = "done"
<1>1. NewSession \in Session
  BY DEF NewSession, Session, Awaits
<1>2. "done" \in Awaits
  BY DEF Awaits
<1>3. /\ Ended \in Session /\ Ended.pc = "done" /\ Ended.ticket = {} /\ Ended.lease = {}
      /\ Ended.started = 0 /\ Ended.conn = {} /\ Ended.attached = {}
  BY <1>1, <1>2 DEF Ended, NewSession, Session
<1>4. WellSuspended(Ended)
  BY <1>3 DEF WellSuspended, ProxyAwaits, HoldingAwaits, UpstreamAwaits, DownstreamAwaits
<1>. QED BY <1>3, <1>4

(* What a proxying session holds.                                          *)
LEMMA Proxying ==
  ASSUME TypeOK, NEW s \in Sessions, session[s].pc \in ProxyAwaits
  PROVE  /\ session[s] \in Session /\ session[s].started \in Nat
         /\ session[s].started <= now /\ session[s].ticket = {}
         /\ \E l \in Lease : /\ session[s].lease = {l} /\ The(session[s].lease) = l
                             /\ RouteOf(session[s]) = l.route /\ l.route \in Routes
<1>1. session[s] \in Session /\ WellSuspended(session[s]) /\ session[s].started <= now
  BY DEF TypeOK
<1>2. session[s].lease \subseteq Lease /\ session[s].started \in Nat
  BY <1>1 DEF Session
<1>3. session[s].ticket = {}
  BY <1>1 DEF WellSuspended, ProxyAwaits, UpstreamAwaits, DownstreamAwaits
<1>4. PICK l \in session[s].lease : session[s].lease = {l}
  BY <1>1 DEF WellSuspended
<1>5. The(session[s].lease) = l
  BY <1>4, TheOnly
<1>. QED BY <1>1, <1>2, <1>3, <1>4, <1>5 DEF RouteOf, Lease

LEMMA Holding ==
  ASSUME TypeOK, NEW s \in Sessions, session[s].pc \in HoldingAwaits
  PROVE  \E c \in Connections : /\ session[s].conn = {c} /\ The(session[s].conn) = c
                                /\ ConnectionOf(s) = c
                                /\ Uses(s, RouteOf(session[s]), c)
<1>1. PICK c \in Connections : session[s].conn = {c}
  BY DEF TypeOK, WellSuspended
<1>2. The(session[s].conn) = c
  BY <1>1, TheOnly
<1>. QED BY <1>1, <1>2 DEF ConnectionOf, Uses

LEMMA EndProxyEffect ==
  ASSUME TypeOK, NEW s \in Sessions, session[s].pc \in ProxyAwaits,
         EndProxy(s, session[s]), upstream' \in [Routes -> Upstream],
         UNCHANGED <<stopping, now>>
  PROVE  /\ EndsLease(s) /\ RestTyped' /\ session'[s] = Ended
         /\ \A t \in Sessions \ {s} : session'[t] = session[t]
<1>1. PICK l \in Lease : session[s].lease = {l} /\ The(session[s].lease) = l
  BY Proxying
<1>2. session[s].ticket = {} /\ session[s].started \in Nat /\ session[s].started <= now
  BY Proxying
<1>3. now \in Nat /\ ctl.ewma \in Nat
  BY DEF TypeOK, WellFormed, Controller
<1>4. EwmaAfter(ctl, now - session[s].started) \subseteq Nat
  BY <1>2, <1>3 DEF EwmaAfter
<1>5. \E ewma \in Nat : ctl' = Complete(ctl, l.id, ewma)
  BY <1>1, <1>4 DEF EndProxy
<1>6. Suspend(s, Ended) /\ 0 <= now
  BY <1>3 DEF EndProxy
<1>7. /\ RestTyped' /\ session'[s] = Ended
      /\ \A t \in Sessions \ {s} : session'[t] = session[t]
  BY <1>6, EndedTyped, Suspended
<1>. QED BY <1>1, <1>2, <1>5, <1>7, EndedTyped DEF EndsLease

-----------------------------------------------------------------------------
(* The upstream exchange: every await succeeds on the session's own        *)
(* connection, and only connecting leaves it half connected.               *)
LEMMA ExchangeMoves ==
  ASSUME TypeOK, NEW s \in Sessions, session[s].pc \in HoldingAwaits,
         NEW to \in HoldingAwaits, Suspend(s, [session[s] EXCEPT !.pc = to]),
         upstream' \in [Routes -> Upstream], UNCHANGED <<ctl, stopping, now>>
  PROVE  /\ RestTyped' /\ KeepsControl
         /\ \A t \in Sessions : /\ session'[t].conn = session[t].conn
                                /\ session'[t].lease = session[t].lease
         /\ \A t \in Sessions \ {s} : session'[t] = session[t]
         /\ session'[s].pc = to
<1> DEFINE me == session[s]
           n == [me EXCEPT !.pc = to]
<1>1. me \in Session /\ WellSuspended(me) /\ me.started <= now
  BY DEF TypeOK
<1>2. to \in Awaits /\ to \in ProxyAwaits /\ to # "polling" /\ me.pc \in ProxyAwaits
      /\ me.pc # "polling"
  BY DEF HoldingAwaits, Awaits, ProxyAwaits, UpstreamAwaits, DownstreamAwaits
<1>3. /\ n \in Session /\ n.pc = to /\ n.ticket = me.ticket /\ n.lease = me.lease
      /\ n.conn = me.conn /\ n.attached = me.attached /\ n.started = me.started
  BY <1>1, <1>2 DEF Session
<1>4. WellSuspended(n)
  BY <1>1, <1>2, <1>3 DEF WellSuspended
<1>5. /\ RestTyped' /\ session'[s] = n
      /\ \A t \in Sessions \ {s} : session'[t] = session[t]
  BY <1>1, <1>3, <1>4, Suspended
<1>. QED BY <1>3, <1>5 DEF KeepsControl

LEMMA UpstreamStepOK ==
  ASSUME GatewayInv, NEW s \in Sessions, NEW from \in UpstreamAwaits, NEW sockets,
         NEW to \in HoldingAwaits, NEW after \in Upstream,
         UpstreamStep(s, from, sockets, to, after),
         after.in_use = UpstreamOf(s).in_use,
         \A d \in Connections \ {ConnectionOf(s)} :
           after.socket[d] = UpstreamOf(s).socket[d],
         after.socket[ConnectionOf(s)] = "opening" => to = "connecting"
  PROVE  StepOK
<1> DEFINE route == RouteOf(session[s])
<1>1. session[s].pc \in HoldingAwaits /\ session[s].pc \in ProxyAwaits
  BY DEF UpstreamStep, HoldingAwaits, ProxyAwaits
<1>2. PICK c \in Connections :
        session[s].conn = {c} /\ ConnectionOf(s) = c /\ Uses(s, route, c)
  BY <1>1, Holding DEF GatewayInv
<1>3. route \in Routes
  BY <1>1, Proxying DEF GatewayInv
<1>4. /\ upstream' = [upstream EXCEPT ![route] = after]
      /\ upstream \in [Routes -> Upstream] /\ upstream' \in [Routes -> Upstream]
  BY <1>3 DEF UpstreamStep, GatewayInv, TypeOK
<1>5. /\ RestTyped' /\ KeepsControl
      /\ \A t \in Sessions : /\ session'[t].conn = session[t].conn
                             /\ session'[t].lease = session[t].lease
      /\ \A t \in Sessions \ {s} : session'[t] = session[t]
      /\ session'[s].pc = to
  BY <1>1, <1>4, ExchangeMoves DEF GatewayInv, UpstreamStep
<1>6. /\ upstream'[route].in_use = upstream[route].in_use
      /\ \A d \in Connections \ {c} : upstream'[route].socket[d] = upstream[route].socket[d]
      /\ upstream'[route].socket[c] = "opening" => to = "connecting"
      /\ \A r \in Routes \ {route} : upstream'[r] = upstream[r]
  BY <1>2, <1>3, <1>4 DEF UpstreamOf
<1>7. ASSUME NEW r \in Routes, NEW d \in Connections, upstream'[r].socket[d] = "opening"
      PROVE  \E t \in Sessions : Uses(t, r, d) /\ session'[t].pc = "connecting"
  <2>1. CASE r = route /\ d = c
    BY <1>2, <1>5, <1>6, <1>7, <2>1
  <2>2. CASE ~(r = route /\ d = c)
    <3>1. upstream[r].socket[d] = "opening"
      BY <1>6, <1>7, <2>2
    <3>2. PICK t \in Sessions : Uses(t, r, d) /\ session[t].pc = "connecting"
      BY <3>1 DEF GatewayInv, ConnectionsOwned
    <3>3. t # s
      BY <1>2, <2>2, <3>2 DEF Uses
    <3>. QED BY <1>5, <3>2, <3>3
  <2>. QED BY <2>1, <2>2
<1>8. KeepsConnections
  BY <1>5, <1>6, <1>7 DEF KeepsConnections
<1>. QED BY <1>5, <1>8 DEF StepOK, ConnectionEffect, ControlEffect

LEMMA ExchangeOK ==
  ASSUME GatewayInv, NEW s \in Sessions,
         Resolved(s) \/ Connected(s) \/ Written(s) \/ HeaderRead(s) \/ BodyRead(s)
  PROVE  StepOK
<1> DEFINE u == UpstreamOf(s)
           c == ConnectionOf(s)
<1>1. session[s].pc \in UpstreamAwaits
  BY DEF Resolved, Connected, Written, HeaderRead, BodyRead, UpstreamStep, UpstreamAwaits
<1>2. session[s].pc \in HoldingAwaits /\ session[s].pc \in ProxyAwaits
  BY <1>1 DEF HoldingAwaits, ProxyAwaits
<1>3. c \in Connections
  BY <1>2, Holding DEF GatewayInv
<1>4. u \in Upstream /\ now \in Nat
  BY <1>2, Proxying DEF GatewayInv, TypeOK, UpstreamOf
<1>5. /\ {"connecting", "writing", "reading_header", "writing_header", "writing_body",
          "writing_last"} \subseteq HoldingAwaits
      /\ {"resolving", "connecting", "writing", "reading_header", "reading_body"}
           \subseteq UpstreamAwaits
  BY DEF HoldingAwaits, UpstreamAwaits, DownstreamAwaits
<1>6. u.socket \in [Connections -> Sockets]
  BY <1>4 DEF Upstream
<1>7. CASE Resolved(s) \/ Connected(s)
  <2>1. ASSUME NEW k \in Sockets
        PROVE  LET v == SetSocket(u, c, k)
               IN  /\ v \in Upstream /\ v.in_use = u.in_use
                   /\ \A d \in Connections \ {c} : v.socket[d] = u.socket[d]
                   /\ v.socket[c] = k
    <3> DEFINE v == SetSocket(u, c, k)
    <3> HIDE DEF u, c
    <3>1. v \in Upstream /\ v.in_use = u.in_use /\ v.socket = [u.socket EXCEPT ![c] = k]
      BY <1>3, <1>4, SetSocketTyped
    <3> HIDE DEF v
    <3>2. v.socket[c] = k /\ \A d \in Connections \ {c} : v.socket[d] = u.socket[d]
      BY <1>3, <1>6, <3>1
    <3>. QED BY <3>1, <3>2 DEF v
  <2>2. "opening" \in Sockets /\ "open" \in Sockets
    BY DEF Sockets
  <2>3. CASE Resolved(s)
    <3> DEFINE v == SetSocket(u, c, "opening")
    <3>1. UpstreamStep(s, "resolving", {"closed"}, "connecting", v)
      BY <2>3 DEF Resolved
    <3>2. /\ v \in Upstream /\ v.in_use = u.in_use
          /\ \A d \in Connections \ {c} : v.socket[d] = u.socket[d]
      BY <2>1, <2>2
    <3> HIDE DEF v, u, c
    <3>. QED BY <1>5, <3>1, <3>2, UpstreamStepOK DEF u, c
  <2>4. CASE Connected(s)
    <3> DEFINE v == SetSocket(u, c, "open")
    <3>1. UpstreamStep(s, "connecting", {"opening"}, "writing", v)
      BY <2>4 DEF Connected
    <3>2. /\ v \in Upstream /\ v.in_use = u.in_use
          /\ \A d \in Connections \ {c} : v.socket[d] = u.socket[d]
          /\ v.socket[c] = "open"
      BY <2>1, <2>2
    <3> HIDE DEF v, u, c
    <3>. QED BY <1>5, <3>1, <3>2, UpstreamStepOK DEF u, c
  <2>. QED BY <1>7, <2>3, <2>4
<1>8. CASE Written(s) \/ HeaderRead(s) \/ BodyRead(s)
  <2> DEFINE Same(v) == v \in Upstream /\ v.in_use = u.in_use /\ v.socket = u.socket
  <2>1. /\ Same(u) /\ Same(RecordSuccessOn(u)) /\ Same(RecordFailureOn(u, now))
    BY <1>4, RouteOpsTyped
  <2>2. PICK from \in {"writing", "reading_header", "reading_body"},
             to \in {"reading_header", "writing_header", "writing_body", "writing_last"},
             v \in {u, RecordSuccessOn(u), RecordFailureOn(u, now)} :
          UpstreamStep(s, from, {"open"}, to, v)
    <3> HIDE DEF u, Same
    <3>1. CASE UpstreamStep(s, "writing", {"open"}, "reading_header", u)
      BY <3>1
    <3>2. CASE UpstreamStep(s, "reading_header", {"open"}, "writing_header", RecordSuccessOn(u))
      BY <3>2
    <3>3. CASE UpstreamStep(s, "reading_header", {"open"}, "writing_header",
                            RecordFailureOn(u, now))
      BY <3>3
    <3>4. CASE UpstreamStep(s, "reading_body", {"open"}, "writing_body", u)
      BY <3>4
    <3>5. CASE UpstreamStep(s, "reading_body", {"open"}, "writing_last", u)
      BY <3>5
    <3>. QED BY <1>8, <3>1, <3>2, <3>3, <3>4, <3>5 DEF Written, HeaderRead, BodyRead, u
  <2>3. Same(v)
    <3> HIDE DEF Same
    <3>. QED BY <2>1, <2>2
  <2>4. v.socket[c] = "open"
    BY <2>2, <2>3 DEF UpstreamStep
  <2> HIDE DEF u, c
  <2>. QED BY <1>5, <2>2, <2>3, <2>4, UpstreamStepOK DEF u, c
<1>. QED BY <1>7, <1>8

(* The downstream response: nothing but the point of suspension changes.   *)
LEMMA ResponseOK ==
  ASSUME GatewayInv, NEW s \in Sessions, HeaderWritten(s) \/ ChunkWritten(s)
  PROVE  StepOK
<1>1. PICK from \in {"writing_header", "writing_body"},
           to \in {"reading_body", "writing_last"} : DownstreamStep(s, from, to)
  BY DEF HeaderWritten, ChunkWritten
<1>2. session[s].pc \in HoldingAwaits /\ to \in HoldingAwaits
  BY <1>1 DEF DownstreamStep, HoldingAwaits, UpstreamAwaits, DownstreamAwaits
<1>3. upstream' = upstream /\ upstream' \in [Routes -> Upstream]
  BY <1>1 DEF DownstreamStep, GatewayInv, TypeOK
<1>4. /\ RestTyped' /\ KeepsControl
      /\ \A t \in Sessions : /\ session'[t].conn = session[t].conn
                             /\ session'[t].lease = session[t].lease
      /\ \A t \in Sessions \ {s} : session'[t] = session[t]
  BY <1>1, <1>2, <1>3, ExchangeMoves DEF GatewayInv, DownstreamStep
<1>5. session[s].pc # "connecting"
  BY <1>1 DEF DownstreamStep
<1>6. KeepsConnections
  BY <1>3, <1>4, <1>5 DEF KeepsConnections, GatewayInv, ConnectionsOwned
<1>. QED BY <1>4, <1>6 DEF StepOK, ConnectionEffect, ControlEffect

-----------------------------------------------------------------------------
(* A step of a session that has no connection, before or after it.         *)
LEMMA WithoutConnection ==
  ASSUME GatewayInv, NEW s \in Sessions, session[s].conn = {}, session'[s].conn = {},
         \A t \in Sessions \ {s} : session'[t] = session[t], SamePools
  PROVE  KeepsConnections
<1>1. \A r \in Routes, c \in Connections : ~Uses(s, r, c)
  BY DEF Uses
<1>2. ASSUME NEW r \in Routes, NEW c \in Connections, upstream'[r].socket[c] = "opening"
      PROVE  \E t \in Sessions : Uses(t, r, c) /\ session'[t].pc = "connecting"
  <2>1. PICK t \in Sessions : Uses(t, r, c) /\ session[t].pc = "connecting"
    BY <1>2 DEF GatewayInv, ConnectionsOwned, SamePools
  <2>. QED BY <1>1, <2>1
<1>. QED BY <1>2 DEF KeepsConnections, SamePools

LEMMA GoesOnEffect ==
  ASSUME GatewayInv, NEW s \in Sessions, session[s].conn = {}, NEW l \in Lease,
         GoesOn(s, l), UNCHANGED <<stopping, now>>
  PROVE  /\ RestTyped' /\ ConnectionEffect
         /\ session'[s].lease = {l} /\ session'[s].ticket = {}
         /\ \A t \in Sessions \ {s} : session'[t] = session[t]
<1>1. PICK n \in Session :
       /\ Suspend(s, n) /\ WellSuspended(n) /\ n.lease = {l} /\ n.started <= now
       /\ \/ n.conn = {} /\ SamePools
          \/ \E c \in Connections : n.conn = {c} /\ TakesConnection(l, c)
  BY DEF GoesOn
<1>2. /\ RestTyped' /\ session'[s] = n
      /\ \A t \in Sessions \ {s} : session'[t] = session[t]
  BY <1>1, Suspended DEF GoesOn, GatewayInv
<1>3. n.ticket = {}
  BY <1>1 DEF WellSuspended, ProxyAwaits, UpstreamAwaits, DownstreamAwaits
<1>4. CASE n.conn = {} /\ SamePools
  <2>1. session'[s].conn = {}
    BY <1>2, <1>4
  <2>2. KeepsConnections
    BY <1>2, <1>4, <2>1, WithoutConnection
  <2>. QED BY <1>1, <1>2, <1>3, <2>2 DEF ConnectionEffect
<1>5. CASE \E c \in Connections : n.conn = {c} /\ TakesConnection(l, c)
  <2>1. GainsConnection(s)
    BY <1>1, <1>2, <1>5 DEF GainsConnection
  <2>. QED BY <1>1, <1>2, <1>3, <2>1 DEF ConnectionEffect
<1>. QED BY <1>1, <1>2, <1>3, <1>4, <1>5

(* A connection that is given back is idle, and not half connected.        *)
LEMMA ReleaseEffect ==
  ASSUME GatewayInv, NEW s \in Sessions, session[s].pc \in HoldingAwaits,
         NEW reusable \in BOOLEAN, reusable => session[s].pc # "connecting",
         NEW w \in Upstream,
         w.in_use = Release(UpstreamOf(s), ConnectionOf(s), reusable).in_use,
         w.socket = Release(UpstreamOf(s), ConnectionOf(s), reusable).socket,
         upstream' = [upstream EXCEPT ![RouteOf(session[s])] = w],
         session'[s].conn = {}, \A t \in Sessions \ {s} : session'[t] = session[t]
  PROVE  GivesConnection(s)
<1> DEFINE route == RouteOf(session[s])
           u == upstream[route]
<1>1. PICK c \in Connections :
        session[s].conn = {c} /\ ConnectionOf(s) = c /\ Uses(s, route, c)
  BY Holding DEF GatewayInv
<1>2. route \in Routes
  BY Proxying DEF GatewayInv, HoldingAwaits, ProxyAwaits
<1>3. u \in Upstream /\ upstream \in [Routes -> Upstream] /\ UpstreamOf(s) = u
  BY <1>2 DEF GatewayInv, TypeOK, UpstreamOf
<1>4. u.socket[c] = "opening" => session[s].pc = "connecting"
  BY <1>1, <1>2 DEF GatewayInv, ConnectionsOwned
<1> HIDE DEF u
<1>5. /\ w.in_use = [u.in_use EXCEPT ![c] = FALSE]
      /\ \A d \in Connections \ {c} : w.socket[d] = u.socket[d]
      /\ w.socket[c] = IF reusable THEN u.socket[c] ELSE "closed"
  BY <1>1, <1>3, ReleaseTyped
<1>6. w.socket[c] # "opening"
  BY <1>4, <1>5
<1>7. upstream'[route] = w /\ \A q \in Routes \ {route} : upstream'[q] = upstream[q]
  BY <1>2, <1>3
<1> HIDE DEF route
<1>8. /\ Uses(s, route, c) /\ session[s].conn = {c}
      /\ upstream'[route].in_use = [upstream[route].in_use EXCEPT ![c] = FALSE]
      /\ \A d \in Connections \ {c} : upstream'[route].socket[d] = upstream[route].socket[d]
      /\ upstream'[route].socket[c] # "opening"
      /\ \A q \in Routes \ {route} : upstream'[q] = upstream[q]
  BY <1>1, <1>5, <1>6, <1>7 DEF u
<1>. QED BY <1>2, <1>8 DEF GivesConnection

LEMMA CatchFailureEffect ==
  ASSUME TypeOK, NEW s \in Sessions, session[s].pc \in ProxyAwaits,
         NEW headers_sent, CatchFailure(s, session[s], headers_sent),
         upstream' \in [Routes -> Upstream], UNCHANGED <<stopping, now>>
  PROVE  /\ RestTyped' /\ (EndsLease(s) \/ KeepsControl) /\ session'[s].conn = {}
         /\ \A t \in Sessions \ {s} : session'[t] = session[t]
<1> DEFINE me == session[s]
           n == [me EXCEPT !.pc = "sending_error", !.conn = {}]
<1>1. CASE EndProxy(s, me)
  BY <1>1, EndProxyEffect, EndedTyped
<1>2. CASE Suspend(s, n) /\ UNCHANGED ctl
  <2>1. PICK l \in Lease : me.lease = {l}
    BY Proxying
  <2>2. me \in Session /\ me.ticket = {} /\ me.started <= now /\ WellSuspended(me)
    BY Proxying DEF TypeOK
  <2>3. "sending_error" \in Awaits
    BY DEF Awaits, ProxyAwaits
  <2>4. /\ n \in Session /\ n.pc = "sending_error" /\ n.conn = {} /\ n.lease = {l}
        /\ n.ticket = {} /\ n.attached = me.attached /\ n.started = me.started
    BY <2>1, <2>2, <2>3 DEF Session
  <2>5. WellSuspended(n)
    BY <2>1, <2>2, <2>4 DEF WellSuspended, ProxyAwaits, HoldingAwaits, UpstreamAwaits,
       DownstreamAwaits
  <2> HIDE DEF n
  <2>6. /\ RestTyped' /\ session'[s] = n
        /\ \A t \in Sessions \ {s} : session'[t] = session[t]
    BY <1>2, <2>2, <2>4, <2>5, Suspended
  <2>7. KeepsControl
    BY <1>2, <2>1, <2>2, <2>4, <2>6 DEF KeepsControl
  <2>. QED BY <2>4, <2>6, <2>7
<1>. QED BY <1>1, <1>2 DEF CatchFailure

LEMMA UpstreamFailsOK ==
  ASSUME GatewayInv, NEW s \in Sessions, UpstreamFails(s) PROVE StepOK
<1> DEFINE me == session[s]
           released == Release(UpstreamOf(s), ConnectionOf(s), FALSE)
<1>1. /\ me.pc \in HoldingAwaits /\ me.pc \in ProxyAwaits
      /\ CatchFailure(s, me, me.pc = "reading_body") /\ UNCHANGED <<client, stopping, now>>
  BY DEF UpstreamFails, HoldingAwaits, ProxyAwaits
<1>2. RouteOf(me) \in Routes /\ ConnectionOf(s) \in Connections
  BY <1>1, Proxying, Holding DEF GatewayInv
<1>3. UpstreamOf(s) \in Upstream /\ now \in Nat /\ upstream \in [Routes -> Upstream]
  BY <1>2 DEF GatewayInv, TypeOK, UpstreamOf
<1>4. released \in Upstream
  BY <1>2, <1>3, ReleaseTyped
<1>5. \E w \in {released, RecordFailureOn(released, now)} :
        upstream' = [upstream EXCEPT ![RouteOf(me)] = w]
  BY DEF UpstreamFails, UpstreamOf, ConnectionOf
<1> HIDE DEF released
<1>6. PICK w \in Upstream : /\ w.in_use = released.in_use /\ w.socket = released.socket
                            /\ upstream' = [upstream EXCEPT ![RouteOf(me)] = w]
  BY <1>3, <1>4, <1>5, RouteOpsTyped
<1>7. upstream' \in [Routes -> Upstream]
  BY <1>2, <1>3, <1>6
<1>8. /\ RestTyped' /\ (EndsLease(s) \/ KeepsControl) /\ session'[s].conn = {}
      /\ \A t \in Sessions \ {s} : session'[t] = session[t]
  BY <1>1, <1>7, CatchFailureEffect DEF GatewayInv
<1>9. GivesConnection(s)
  BY <1>1, <1>6, <1>8, ReleaseEffect DEF released
<1>. QED BY <1>8, <1>9 DEF StepOK, ConnectionEffect, ControlEffect

LEMMA ResponseEndsOK ==
  ASSUME GatewayInv, NEW s \in Sessions, DownstreamFails(s) \/ LastWritten(s)
  PROVE  StepOK
<1> DEFINE me == session[s]
<1>1. /\ me.pc \in {"writing_header", "writing_body", "writing_last"}
      /\ EndProxy(s, me) /\ UNCHANGED <<client, stopping, now>>
  BY DEF DownstreamFails, LastWritten
<1>2. me.pc \in HoldingAwaits /\ me.pc \in ProxyAwaits /\ me.pc # "connecting"
  BY <1>1 DEF HoldingAwaits, ProxyAwaits, DownstreamAwaits
<1>3. RouteOf(me) \in Routes /\ ConnectionOf(s) \in Connections
  BY <1>2, Proxying, Holding DEF GatewayInv
<1>4. UpstreamOf(s) \in Upstream /\ upstream \in [Routes -> Upstream]
  BY <1>3 DEF GatewayInv, TypeOK, UpstreamOf
<1>5. PICK reusable \in BOOLEAN : upstream' = [upstream EXCEPT ![RouteOf(me)] =
        Release(UpstreamOf(s), ConnectionOf(s), reusable)]
  BY DEF DownstreamFails, LastWritten, UpstreamOf, ConnectionOf
<1> DEFINE w == Release(UpstreamOf(s), ConnectionOf(s), reusable)
<1>6. w \in Upstream
  BY <1>3, <1>4, ReleaseTyped
<1>7. upstream' \in [Routes -> Upstream]
  BY <1>3, <1>4, <1>5, <1>6
<1>8. /\ EndsLease(s) /\ RestTyped' /\ session'[s] = Ended
      /\ \A t \in Sessions \ {s} : session'[t] = session[t]
  BY <1>1, <1>2, <1>7, EndProxyEffect DEF GatewayInv
<1>9. GivesConnection(s)
  <2>1. session'[s].conn = {}
    BY <1>8, EndedTyped
  <2>. QED BY <1>2, <1>5, <1>6, <1>8, <2>1, ReleaseEffect
<1>. QED BY <1>8, <1>9 DEF StepOK, ConnectionEffect, ControlEffect

LEMMA ErrorSentOK ==
  ASSUME GatewayInv, NEW s \in Sessions, ErrorSent(s) \/ Rejected(s)
  PROVE  StepOK
<1>1. UNCHANGED <<upstream, stopping, now>> /\ upstream' \in [Routes -> Upstream]
  BY DEF ErrorSent, Rejected, GatewayInv, TypeOK
<1>2. SamePools /\ session[s].pc \in {"sending_error", "rejecting"}
  BY <1>1 DEF SamePools, ErrorSent, Rejected
<1>3. session[s].conn = {} /\ session[s].ticket = {}
  BY <1>2 DEF GatewayInv, TypeOK, WellSuspended, HoldingAwaits, UpstreamAwaits,
     DownstreamAwaits
<1>4. /\ RestTyped' /\ ControlEffect /\ session'[s] = Ended
      /\ \A t \in Sessions \ {s} : session'[t] = session[t]
  <2>1. CASE ErrorSent(s)
    <3>1. session[s].pc \in ProxyAwaits
      BY <2>1 DEF ErrorSent, ProxyAwaits
    <3>. QED BY <1>1, <2>1, <3>1, EndProxyEffect DEF ErrorSent, GatewayInv, ControlEffect
  <2>2. CASE Rejected(s)
    <3>1. session[s].lease = {} /\ Suspend(s, Ended) /\ ctl' = ctl /\ 0 <= now
      BY <2>2 DEF Rejected, GatewayInv, TypeOK, WellSuspended, ProxyAwaits, UpstreamAwaits,
         DownstreamAwaits
    <3>2. /\ RestTyped' /\ session'[s] = Ended
          /\ \A t \in Sessions \ {s} : session'[t] = session[t]
      BY <1>1, <3>1, EndedTyped, Suspended DEF GatewayInv
    <3>. QED BY <1>3, <3>1, <3>2, EndedTyped DEF KeepsControl, ControlEffect
  <2>. QED BY <2>1, <2>2
<1>5. KeepsConnections
  <2>1. session'[s].conn = {}
    BY <1>4, EndedTyped
  <2>. QED BY <1>2, <1>3, <1>4, <2>1, WithoutConnection
<1>. QED BY <1>4, <1>5 DEF StepOK, ConnectionEffect

LEMMA RetryAcquireOK ==
  ASSUME GatewayInv, NEW s \in Sessions, RetryAcquire(s) PROVE StepOK
<1> DEFINE me == session[s]
<1>1. me.pc = "acquiring" /\ me.pc \in ProxyAwaits /\ UNCHANGED <<client, stopping, now>>
  BY DEF RetryAcquire, ProxyAwaits
<1>2. me \in Session /\ WellSuspended(me) /\ me.started <= now
  BY DEF GatewayInv, TypeOK
<1>3. me.conn = {} /\ me.ticket = {}
  BY <1>1, <1>2 DEF WellSuspended, HoldingAwaits, UpstreamAwaits, DownstreamAwaits
<1>4. PICK l \in Lease : me.lease = {l} /\ RouteOf(me) = l.route /\ l.route \in Routes
  BY <1>1, Proxying DEF GatewayInv
<1>5. upstream \in [Routes -> Upstream] /\ upstream[l.route] \in Upstream
  BY <1>4 DEF GatewayInv, TypeOK
<1>6. CASE CatchFailure(s, me, FALSE) /\ UNCHANGED upstream
  <2>1. /\ RestTyped' /\ (EndsLease(s) \/ KeepsControl) /\ session'[s].conn = {}
        /\ \A t \in Sessions \ {s} : session'[t] = session[t]
    BY <1>1, <1>5, <1>6, CatchFailureEffect DEF GatewayInv
  <2>2. KeepsConnections
    BY <1>3, <1>6, <2>1, WithoutConnection DEF SamePools
  <2>. QED BY <2>1, <2>2 DEF StepOK, ConnectionEffect, ControlEffect
<1>7. CASE TryAcquire(s, me, upstream[l.route]) /\ UNCHANGED ctl
  <2>1. me.attached = {} \/ \E c \in Connections : me.attached = {c}
    BY <1>2 DEF WellSuspended
  <2>2. GoesOn(s, l)
    BY <1>2, <1>3, <1>4, <1>5, <1>7, <2>1, TryAcquireOutcome DEF GatewayInv
  <2>3. /\ RestTyped' /\ ConnectionEffect
        /\ session'[s].lease = {l} /\ session'[s].ticket = {}
        /\ \A t \in Sessions \ {s} : session'[t] = session[t]
    BY <1>1, <1>3, <2>2, GoesOnEffect
  <2>4. KeepsControl
    BY <1>3, <1>4, <1>7, <2>3 DEF KeepsControl
  <2>. QED BY <2>3, <2>4 DEF StepOK, ControlEffect
<1>. QED BY <1>4, <1>6, <1>7 DEF RetryAcquire

-----------------------------------------------------------------------------
(* Arrivals and the queue timer.                                           *)
LEMMA ProceedEffect ==
  ASSUME GatewayInv, NEW s \in Sessions, session[s].conn = {},
         NEW base \in Session, base.conn = {}, base.attached = {}, base.lease = {},
         base.started <= now,
         NEW answer, answer.lease = {} \/ \E l \in Lease : answer.lease = {l},
         Proceed(s, base, answer), UNCHANGED <<stopping, now>>
  PROVE  /\ RestTyped' /\ ConnectionEffect
         /\ session'[s].lease = answer.lease /\ session'[s].ticket = {}
         /\ \A t \in Sessions \ {s} : session'[t] = session[t]
<1>1. CASE answer.lease # {}
  <2>1. PICK l \in Lease : answer.lease = {l}
    BY <1>1
  <2>2. The(answer.lease) = l
    BY <2>1, TheOnly
  <2>3. StartProxy(s, base, l)
    BY <1>1, <2>2 DEF Proceed
  <2>4. GoesOn(s, l)
    BY <2>3, StartProxyOutcome DEF GatewayInv
  <2>. QED BY <2>1, <2>4, GoesOnEffect
<1>2. CASE answer.lease = {}
  <2> DEFINE n == [base EXCEPT !.pc = "rejecting", !.ticket = {}, !.watching = "nothing"]
  <2>1. Suspend(s, n) /\ UNCHANGED upstream
    BY <1>2 DEF Proceed
  <2>2. "rejecting" \in Awaits
    BY DEF Awaits
  <2>3. /\ n \in Session /\ n.pc = "rejecting" /\ n.ticket = {} /\ n.lease = {}
        /\ n.conn = {} /\ n.attached = {} /\ n.started = base.started
    BY <2>2 DEF Session
  <2> HIDE DEF n
  <2>4. WellSuspended(n)
    BY <2>3 DEF WellSuspended, ProxyAwaits, HoldingAwaits, UpstreamAwaits, DownstreamAwaits
  <2>5. upstream' \in [Routes -> Upstream] /\ SamePools
    BY <2>1 DEF GatewayInv, TypeOK, SamePools
  <2>6. /\ RestTyped' /\ session'[s] = n
        /\ \A t \in Sessions \ {s} : session'[t] = session[t]
    BY <2>1, <2>3, <2>4, <2>5, Suspended DEF GatewayInv
  <2>7. KeepsConnections
    <3>1. session'[s].conn = {}
      BY <2>3, <2>6
    <3>. QED BY <2>5, <2>6, <3>1, WithoutConnection
  <2>. QED BY <1>2, <2>3, <2>6, <2>7 DEF ConnectionEffect
<1>. QED BY <1>1, <1>2

LEMMA ArriveOK ==
  ASSUME GatewayInv, NEW s \in Sessions, NEW cost \in Costs, NEW timeout \in Timeouts,
         NEW degrade \in BOOLEAN, Arrive(s, cost, timeout, degrade)
  PROVE  AnswerOK(s)
<1> DEFINE me == [NewSession EXCEPT !.deadline = now + timeout]
           a == Admit(ctl, cost, now + timeout, FallbackEnabled /\ degrade,
                      RouteAvailability, now)
<1>1. /\ session[s].pc = "new" /\ ctl' = a.ctl /\ UNCHANGED <<client, stopping, now>>
      /\ IF a.kind = "queued"
         THEN /\ Suspend(s, [me EXCEPT !.pc = "polling", !.watching = "queue",
                                       !.ticket = a.ticket])
              /\ UNCHANGED upstream
         ELSE Proceed(s, me, a)
  BY DEF Arrive
<1>2. session[s].conn = {} /\ session[s].lease = {} /\ session[s].ticket = {}
  BY <1>1 DEF GatewayInv, TypeOK, WellSuspended, ProxyAwaits, HoldingAwaits,
     UpstreamAwaits, DownstreamAwaits
<1>3. /\ WellFormed(ctl) /\ now \in Nat /\ now + timeout \in Nat /\ 0 <= now
      /\ cost.prompt_tokens \in 0..MaxUInt64 /\ cost.output_tokens \in 0..MaxUInt64
      /\ FallbackEnabled \in BOOLEAN
  BY GatewayConfig, ClockBound DEF GatewayInv, TypeOK
<1>4. (FallbackEnabled /\ degrade) \in BOOLEAN /\ RouteAvailability \in Availability
  BY <1>3, RouteOpsAvailable DEF GatewayInv
<1>5. /\ WellFormed(a.ctl) /\ Tickets(a.ctl) = Tickets(ctl) \cup a.ticket
      /\ CallersLeases(a.ctl) = CallersLeases(ctl) \cup a.lease
  BY <1>3, <1>4, AdmitOK
<1>6. FreshAnswer(ctl, a, RouteAvailability)
  BY <1>3, <1>4, AdmitAnswer
<1> HIDE DEF a
<1>7. /\ a.lease = {} \/ \E l \in Lease : a.lease = {l} /\ l \notin CallersLeases(ctl)
      /\ IF a.kind = "queued"
         THEN /\ a.lease = {}
              /\ \E x \in Nat : a.ticket = {x} /\ x \notin Tickets(ctl)
         ELSE a.ticket = {}
  BY <1>6 DEF FreshAnswer
<1>8. /\ me \in Session /\ me.conn = {} /\ me.attached = {} /\ me.lease = {}
      /\ me.ticket = {} /\ me.started = 0
  BY <1>3 DEF NewSession, Session, Awaits
<1> HIDE DEF me
<1>9. /\ RestTyped' /\ ConnectionEffect
      /\ session'[s].lease = a.lease /\ session'[s].ticket = a.ticket
      /\ \A t \in Sessions \ {s} : session'[t] = session[t]
  <2>1. CASE a.kind = "queued"
    <3> DEFINE n == [me EXCEPT !.pc = "polling", !.watching = "queue", !.ticket = a.ticket]
    <3>1. "polling" \in Awaits
      BY DEF Awaits
    <3>2. PICK x \in Nat : a.ticket = {x}
      BY <1>7, <2>1
    <3>3. /\ n \in Session /\ n.pc = "polling" /\ n.ticket = {x} /\ n.lease = {}
          /\ n.conn = {} /\ n.attached = {} /\ n.started = 0
      BY <1>8, <3>1, <3>2 DEF Session
    <3>4. Suspend(s, n) /\ UNCHANGED upstream
      BY <1>1, <2>1
    <3> HIDE DEF n
    <3>5. WellSuspended(n)
      BY <3>3 DEF WellSuspended, ProxyAwaits, HoldingAwaits, UpstreamAwaits, DownstreamAwaits
    <3>6. upstream' \in [Routes -> Upstream] /\ SamePools
      BY <3>4 DEF GatewayInv, TypeOK, SamePools
    <3>7. /\ RestTyped' /\ session'[s] = n
          /\ \A t \in Sessions \ {s} : session'[t] = session[t]
      BY <1>1, <1>3, <3>3, <3>4, <3>5, <3>6, Suspended DEF GatewayInv
    <3>8. KeepsConnections
      <4>1. session'[s].conn = {}
        BY <3>3, <3>7
      <4>. QED BY <1>2, <3>6, <3>7, <4>1, WithoutConnection
    <3>. QED BY <1>7, <2>1, <3>2, <3>3, <3>7, <3>8 DEF ConnectionEffect
  <2>2. CASE a.kind # "queued"
    <3>1. Proceed(s, me, a) /\ me.started <= now /\ UNCHANGED <<stopping, now>>
      BY <1>1, <1>3, <1>8, <2>2
    <3>2. a.lease = {} \/ \E l \in Lease : a.lease = {l}
      BY <1>7
    <3>3. /\ RestTyped' /\ ConnectionEffect
          /\ session'[s].lease = a.lease /\ session'[s].ticket = {}
          /\ \A t \in Sessions \ {s} : session'[t] = session[t]
      BY <1>2, <1>8, <3>1, <3>2, ProceedEffect
    <3>. QED BY <1>7, <2>2, <3>3
  <2>. QED BY <2>1, <2>2
<1>10. a.ticket \cap Tickets(ctl) = {} /\ a.lease \cap CallersLeases(ctl) = {}
  BY <1>7
<1>. QED BY <1>1, <1>2, <1>5, <1>9, <1>10 DEF AnswerOK, GetsAnswer

LEMMA PollQueueOK ==
  ASSUME GatewayInv, NEW s \in Sessions, PollQueue(s) PROVE AnswerOK(s)
<1> DEFINE me == session[s]
           ticket == The(me.ticket)
           a == Poll(ctl, ticket, RouteAvailability, now)
<1>1. /\ me.pc = "polling" /\ UNCHANGED <<client, stopping, now>>
      /\ IF me.client_gone
         THEN /\ ctl' = Cancel(a.ctl, ticket)
              /\ Suspend(s, Ended)
              /\ UNCHANGED upstream
         ELSE /\ ctl' = a.ctl
              /\ IF a.kind = "queued" THEN UNCHANGED <<session, upstream>>
                 ELSE Proceed(s, me, a)
  BY DEF PollQueue
<1>2. me \in Session /\ WellSuspended(me) /\ me.started <= now
  BY DEF GatewayInv, TypeOK
<1>3. me.conn = {} /\ me.lease = {} /\ me.attached = {}
  BY <1>1, <1>2 DEF WellSuspended, ProxyAwaits, HoldingAwaits, UpstreamAwaits,
     DownstreamAwaits
<1>4. PICK x \in me.ticket : me.ticket = {x}
  BY <1>1, <1>2 DEF WellSuspended
<1>5. ticket = x
  BY <1>4, TheOnly
<1>6. /\ WellFormed(ctl) /\ now \in Nat /\ 0 <= now /\ RouteAvailability \in Availability
      /\ upstream \in [Routes -> Upstream]
  BY RouteOpsAvailable DEF GatewayInv, TypeOK
<1>7. /\ WellFormed(a.ctl)
      /\ Tickets(a.ctl) = IF a.kind = "queued" THEN Tickets(ctl) ELSE Tickets(ctl) \ {ticket}
      /\ CallersLeases(a.ctl) = CallersLeases(ctl) \cup a.lease
  BY <1>6, PollOK
<1>8. /\ a.lease = {} \/ \E l \in Lease : a.lease = {l} /\ l \notin CallersLeases(ctl)
      /\ a.kind = "queued" => a.lease = {}
  BY <1>6, PollAnswer
<1> HIDE DEF a, ticket
<1>9. CASE me.client_gone
  <2> DEFINE d == Cancel(a.ctl, ticket)
  <2>1. /\ WellFormed(d) /\ Tickets(d) = Tickets(a.ctl) \ {ticket}
        /\ CallersLeases(d) = CallersLeases(a.ctl)
    BY <1>7, CancelOK
  <2>2. ctl' = d /\ Suspend(s, Ended) /\ UNCHANGED upstream
    BY <1>1, <1>9
  <2> HIDE DEF d
  <2>3. /\ RestTyped' /\ session'[s] = Ended
        /\ \A t \in Sessions \ {s} : session'[t] = session[t]
    BY <1>1, <1>6, <2>2, EndedTyped, Suspended DEF GatewayInv
  <2>4. KeepsConnections
    <3>1. session'[s].conn = {} /\ SamePools
      BY <2>2, <2>3, EndedTyped DEF SamePools
    <3>. QED BY <1>3, <2>3, <3>1, WithoutConnection
  <2>5. Tickets(d) = Tickets(ctl) \ me.ticket
    BY <1>4, <1>5, <1>7, <2>1
  <2>6. GetsAnswer(s)
    BY <1>1, <1>3, <1>7, <1>9, <2>1, <2>2, <2>3, <2>5, EndedTyped DEF GetsAnswer
  <2>. QED BY <2>3, <2>4, <2>6 DEF AnswerOK, ConnectionEffect
<1>10. CASE ~me.client_gone /\ a.kind = "queued"
  <2>1. UNCHANGED <<session, upstream, stopping, now>> /\ ctl' = a.ctl
    BY <1>1, <1>10
  <2>2. RestTyped'
    BY <2>1 DEF GatewayInv, TypeOK, RestTyped
  <2>3. KeepsConnections
    BY <1>3, <2>1, WithoutConnection DEF SamePools
  <2>4. me.ticket \subseteq Tickets(ctl)
    BY DEF GatewayInv, ControllerOwned
  <2>5. GetsAnswer(s)
    BY <1>3, <1>7, <1>8, <1>10, <2>1, <2>4 DEF GetsAnswer
  <2>. QED BY <2>2, <2>3, <2>5 DEF AnswerOK, ConnectionEffect
<1>11. CASE ~me.client_gone /\ a.kind # "queued"
  <2>1. Proceed(s, me, a) /\ UNCHANGED <<stopping, now>> /\ ctl' = a.ctl
    BY <1>1, <1>11
  <2>2. a.lease = {} \/ \E l \in Lease : a.lease = {l}
    BY <1>8
  <2>3. /\ RestTyped' /\ ConnectionEffect
        /\ session'[s].lease = a.lease /\ session'[s].ticket = {}
        /\ \A t \in Sessions \ {s} : session'[t] = session[t]
    BY <1>2, <1>3, <2>1, <2>2, ProceedEffect
  <2>4. Tickets(ctl') = Tickets(ctl) \ me.ticket
    BY <1>4, <1>5, <1>7, <1>11, <2>1
  <2>5. a.lease \cap CallersLeases(ctl) = {}
    BY <1>8
  <2>6. GetsAnswer(s)
    BY <1>3, <1>7, <2>1, <2>3, <2>4, <2>5 DEF GetsAnswer
  <2>. QED BY <2>3, <2>6 DEF AnswerOK
<1>. QED BY <1>9, <1>10, <1>11

-----------------------------------------------------------------------------
(* The watchers, the health probes, the clients, the shutdown, the clock.  *)
LEMMA WatcherOK ==
  ASSUME GatewayInv, NEW s \in Sessions, WatcherSeesBytes(s) \/ WatcherSeesEnd(s)
  PROVE  StepOK
<1> DEFINE me == session[s]
<1>1. me \in Session /\ WellSuspended(me) /\ me.started <= now
      /\ upstream \in [Routes -> Upstream]
  BY DEF GatewayInv, TypeOK
<1>2. /\ upstream' \in [Routes -> Upstream]
      /\ \A r \in Routes : upstream'[r].in_use = upstream[r].in_use
      /\ \A r \in Routes, c \in Connections :
           upstream'[r].socket[c] = "opening" => upstream[r].socket[c] = "opening"
  <2>1. CASE UNCHANGED upstream
    BY <1>1, <2>1
  <2>2. CASE WatcherSeesEnd(s) /\ me.attached # {}
    <3>1. PICK c \in Connections : me.attached = {c}
      BY <1>1, <2>2 DEF WellSuspended
    <3>2. me.pc \in ProxyAwaits
      BY <1>1, <2>2 DEF WellSuspended
    <3>3. RouteOf(me) \in Routes
      BY <3>2, Proxying DEF GatewayInv
    <3> DEFINE u == upstream[RouteOf(me)]
               w == SetSocket(u, c, "closed")
    <3>4. The(me.attached) = c
      BY <3>1, TheOnly
    <3>5. upstream' = [upstream EXCEPT ![RouteOf(me)] = w]
      BY <2>2, <3>4 DEF WatcherSeesEnd, CancelConnection
    <3>6. u \in Upstream /\ "closed" \in Sockets
      BY <1>1, <3>3 DEF Sockets
    <3> HIDE DEF u
    <3>7. /\ w \in Upstream /\ w.in_use = u.in_use
          /\ w.socket = [u.socket EXCEPT ![c] = "closed"]
      BY <3>6, SetSocketTyped
    <3>8. u.socket \in [Connections -> Sockets]
      BY <3>6 DEF Upstream
    <3> HIDE DEF w
    <3>9. \A d \in Connections : w.socket[d] = "opening" => u.socket[d] = "opening"
      BY <3>7, <3>8
    <3>. QED BY <1>1, <3>3, <3>5, <3>7, <3>9 DEF u
  <2>. QED BY <2>1, <2>2 DEF WatcherSeesBytes, WatcherSeesEnd
<1>3. PICK gone \in BOOLEAN :
        Suspend(s, [me EXCEPT !.watching = "nothing", !.client_gone = gone])
        /\ UNCHANGED <<ctl, stopping, now>>
  <2>1. CASE WatcherSeesBytes(s)
    <3>1. [me EXCEPT !.watching = "nothing"] =
            [me EXCEPT !.watching = "nothing", !.client_gone = me.client_gone]
      BY <1>1 DEF Session
    <3>2. me.client_gone \in BOOLEAN
      BY <1>1 DEF Session
    <3>. QED BY <2>1, <3>1, <3>2 DEF WatcherSeesBytes
  <2>2. CASE WatcherSeesEnd(s)
    BY <2>2 DEF WatcherSeesEnd
  <2>. QED BY <2>1, <2>2
<1> DEFINE n == [me EXCEPT !.watching = "nothing", !.client_gone = gone]
<1>4. /\ n \in Session /\ n.pc = me.pc /\ n.ticket = me.ticket /\ n.lease = me.lease
      /\ n.conn = me.conn /\ n.attached = me.attached /\ n.started = me.started
  BY <1>1 DEF Session
<1> HIDE DEF n
<1>5. WellSuspended(n)
  BY <1>1, <1>4 DEF WellSuspended
<1>6. /\ RestTyped' /\ session'[s] = n
      /\ \A t \in Sessions \ {s} : session'[t] = session[t]
  BY <1>1, <1>2, <1>3, <1>4, <1>5, Suspended DEF GatewayInv, n
<1>7. KeepsControl
  BY <1>3, <1>4, <1>6 DEF KeepsControl
<1>8. \A t \in Sessions : /\ session'[t].pc = session[t].pc
                          /\ session'[t].conn = session[t].conn
                          /\ session'[t].lease = session[t].lease
  BY <1>4, <1>6
<1>9. KeepsConnections
  BY <1>2, <1>8 DEF KeepsConnections, GatewayInv, ConnectionsOwned
<1>. QED BY <1>6, <1>7, <1>9 DEF StepOK, ConnectionEffect, ControlEffect

LEMMA EnvironmentOK ==
  ASSUME GatewayInv,
         \/ \E s \in Sessions : ClientActs(s)
         \/ \E r \in Routes : HealthChecked(r)
         \/ Stop \/ Tick \/ UNCHANGED vars
  PROVE  StepOK /\ session' = session
<1>1. /\ upstream \in [Routes -> Upstream] /\ now \in Nat /\ stopping \in BOOLEAN
      /\ \A s \in Sessions : session[s].started \in Nat
  BY DEF GatewayInv, TypeOK, Session
<1>2. /\ UNCHANGED <<session, ctl>>
      /\ stopping' \in BOOLEAN /\ now' \in Nat /\ now <= now'
  <2>1. now <= now /\ now + 1 \in Nat /\ now <= now + 1
    BY <1>1
  <2>2. CASE Tick
    BY <1>1, <2>1, <2>2 DEF Tick, Advance
  <2>3. CASE Stop
    BY <1>1, <2>1, <2>3 DEF Stop
  <2>4. CASE \E s \in Sessions : ClientActs(s)
    BY <1>1, <2>1, <2>4 DEF ClientActs
  <2>5. CASE \E r \in Routes : HealthChecked(r)
    BY <1>1, <2>1, <2>5 DEF HealthChecked
  <2>6. CASE UNCHANGED vars
    BY <1>1, <2>1, <2>6 DEF vars
  <2>. QED BY <2>2, <2>3, <2>4, <2>5, <2>6
<1>3. /\ upstream' \in [Routes -> Upstream]
      /\ \A r \in Routes : upstream'[r].in_use = upstream[r].in_use
      /\ \A r \in Routes, c \in Connections :
           upstream'[r].socket[c] = "opening" => upstream[r].socket[c] = "opening"
  <2>1. CASE UNCHANGED upstream
    BY <1>1, <2>1
  <2>2. CASE \E r \in Routes : HealthChecked(r)
    <3>1. PICK r \in Routes, healthy \in BOOLEAN :
            upstream' = [upstream EXCEPT ![r].healthy = healthy]
      BY <2>2 DEF HealthChecked
    <3>2. /\ [upstream[r] EXCEPT !.healthy = healthy] \in Upstream
          /\ [upstream[r] EXCEPT !.healthy = healthy].in_use = upstream[r].in_use
          /\ [upstream[r] EXCEPT !.healthy = healthy].socket = upstream[r].socket
      BY <1>1 DEF Upstream
    <3>. QED BY <1>1, <3>1, <3>2
  <2>3. CASE Stop
    <3>1. \A r \in Routes : /\ CancelAll(upstream[r]) \in Upstream
                            /\ CancelAll(upstream[r]).in_use = upstream[r].in_use
                            /\ \A c \in Connections :
                                 CancelAll(upstream[r]).socket[c] # "opening"
      BY <1>1 DEF CancelAll, Upstream, Sockets
    <3>. QED BY <2>3, <3>1 DEF Stop
  <2>. QED BY <2>1, <2>2, <2>3 DEF ClientActs, Tick, Advance, vars
<1>4. \A s \in Sessions : session[s].started <= now'
  BY <1>1, <1>2 DEF GatewayInv, TypeOK
<1>5. RestTyped'
  BY <1>2, <1>3, <1>4 DEF GatewayInv, TypeOK, RestTyped
<1>6. KeepsConnections
  BY <1>2, <1>3 DEF KeepsConnections, GatewayInv, ConnectionsOwned
<1>7. KeepsControl
  BY <1>2 DEF KeepsControl
<1>. QED BY <1>2, <1>5, <1>6, <1>7 DEF StepOK, ConnectionEffect, ControlEffect

-----------------------------------------------------------------------------
Arrival(s) == \E cost \in Costs, timeout \in Timeouts, degrade \in BOOLEAN :
                Arrive(s, cost, timeout, degrade)

LEMMA StepCases ==
  ASSUME GatewayInv, [Next]_vars
  PROVE  \/ StepOK
         \/ \E s \in Sessions : (Arrival(s) \/ PollQueue(s)) /\ AnswerOK(s)
<1>1. ASSUME NEW s \in Sessions, Arrival(s) \/ PollQueue(s) PROVE AnswerOK(s)
  BY <1>1, ArriveOK, PollQueueOK DEF Arrival
<1>2. ASSUME NEW s \in Sessions, Resume(s), ~PollQueue(s) PROVE StepOK
  BY <1>2, RetryAcquireOK, ExchangeOK, UpstreamFailsOK, ResponseOK, ResponseEndsOK,
     ErrorSentOK DEF Resume
<1>3. ASSUME NEW s \in Sessions, WatcherSeesBytes(s) \/ WatcherSeesEnd(s) PROVE StepOK
  BY <1>3, WatcherOK
<1>4. CASE \E s \in Sessions : Arrival(s) \/ PollQueue(s)
  BY <1>1, <1>4
<1>5. CASE \E s \in Sessions : Resume(s) /\ ~PollQueue(s)
  BY <1>2, <1>5
<1>6. CASE \E s \in Sessions : WatcherSeesBytes(s) \/ WatcherSeesEnd(s)
  BY <1>3, <1>6
<1>7. CASE \/ \E s \in Sessions : ClientActs(s)
           \/ \E r \in Routes : HealthChecked(r)
           \/ Stop \/ Tick \/ UNCHANGED vars
  BY <1>7, EnvironmentOK
<1>. QED BY <1>4, <1>5, <1>6, <1>7 DEF Next, Arrival

(* The inductive step, and what it says about leaks.                       *)
LEMMA GatewayStep ==
  ASSUME GatewayInv, [Next]_vars
  PROVE  /\ GatewayInv'
         /\ \/ Leaked' \subseteq Leaked
            \/ \E s \in Sessions : /\ session[s].pc = "polling" /\ session[s].client_gone
                                   /\ session'[s].pc = "done"
<1>1. ASSUME RestTyped', ConnectionEffect, WellFormed(ctl'), ControllerOwned'
      PROVE  GatewayInv'
  <2>1. TypeOK'
    BY <1>1 DEF TypeOK, RestTyped
  <2>2. ConnectionsOwned'
    BY <1>1, KeptConnectionsOwned, GainedConnectionOwned, GivenConnectionOwned
       DEF GatewayInv, ConnectionEffect
  <2>. QED BY <1>1, <2>1, <2>2 DEF GatewayInv
<1>2. CASE StepOK
  <2>1. WellFormed(ctl') /\ ControllerOwned' /\ Leaked' \subseteq Leaked
    BY <1>2, KeptControlOwned, EndedLeaseOwned DEF GatewayInv, StepOK, ControlEffect
  <2>. QED BY <1>1, <1>2, <2>1 DEF StepOK
<1>3. CASE \E s \in Sessions : AnswerOK(s)
  <2>1. PICK s \in Sessions : AnswerOK(s)
    BY <1>3
  <2>2. /\ WellFormed(ctl') /\ ControllerOwned'
        /\ \/ Leaked' \subseteq Leaked
           \/ session[s].pc = "polling" /\ session[s].client_gone /\ session'[s].pc = "done"
    BY <2>1, AnswerOwned DEF GatewayInv, AnswerOK
  <2>. QED BY <1>1, <2>1, <2>2 DEF AnswerOK
<1>. QED BY <1>2, <1>3, StepCases

LEMMA GatewayStart == Init => GatewayInv
<1> SUFFICES ASSUME Init PROVE GatewayInv
  OBVIOUS
<1>1. NewSession \in Session
  BY DEF NewSession, Session, Awaits
<1>2. /\ NewSession.ticket = {} /\ NewSession.lease = {} /\ NewSession.conn = {}
      /\ NewSession.attached = {} /\ NewSession.pc = "new" /\ NewSession.started = 0
  BY DEF NewSession
<1>3. WellSuspended(NewSession)
  BY <1>2 DEF WellSuspended, ProxyAwaits, HoldingAwaits, UpstreamAwaits, DownstreamAwaits
<1>4. InitBreaker \in Breaker
  BY DEF InitBreaker, Breaker, CircuitStates
<1>5. InitUpstream \in Upstream
  BY <1>4 DEF InitUpstream, Upstream, Sockets
<1>6. TypeOK
  <2>1. WellFormed(ctl) /\ now \in Nat /\ stopping \in BOOLEAN
    BY InitControllerOK DEF Init
  <2>2. upstream \in [Routes -> Upstream] /\ session \in [Sessions -> Session]
    BY <1>1, <1>5 DEF Init
  <2>3. now = 0 /\ 0 <= 0 /\ \A s \in Sessions : session[s] = NewSession
    BY DEF Init
  <2>. QED BY <1>2, <1>3, <2>1, <2>2, <2>3 DEF TypeOK
<1>7. \A r \in Routes, c \in Connections : /\ ~upstream[r].in_use[c]
                                           /\ upstream[r].socket[c] = "closed"
  BY DEF Init, InitUpstream
<1>8. ConnectionsOwned
  BY <1>2, <1>7 DEF Init, ConnectionsOwned, Uses
<1>9. ControllerOwned
  <2>1. Tickets(ctl) = {} /\ \A s \in Sessions : session[s].ticket = {} /\ session[s].lease = {}
    BY <1>2, InitControllerOK DEF Init
  <2>. QED BY <2>1 DEF ControllerOwned
<1>. QED BY <1>6, <1>8, <1>9 DEF GatewayInv

(* Every reachable state of the server satisfies the inductive invariant:  *)
(* each coroutine holds what its point of suspension says, and what the    *)
(* controller and the pools have out is exactly what the sessions hold.    *)
THEOREM GatewayInvariant == Spec => []GatewayInv
<1>1. GatewayInv /\ [Next]_vars => GatewayInv'
  BY GatewayStep
<1>. QED BY <1>1, GatewayStart, PTL DEF Spec

(* in_use of a pooled connection is set exactly while one session has it,  *)
(* and no idle connection is left half connected, whatever the way out of  *)
(* proxy_request: success, upstream error, deadline, client gone, stop.    *)
THEOREM ConnectionsAlwaysAccounted == Spec => []ConnectionsAccounted
<1>1. GatewayInv => ConnectionsAccounted
  <2> SUFFICES ASSUME GatewayInv, NEW r \in Routes, NEW c \in Connections
               PROVE  IF upstream[r].in_use[c]
                      THEN Cardinality({s \in Sessions : Uses(s, r, c)}) = 1
                      ELSE /\ \A s \in Sessions : ~Uses(s, r, c)
                           /\ upstream[r].socket[c] # "opening"
    BY DEF ConnectionsAccounted
  <2> DEFINE S == {s \in Sessions : Uses(s, r, c)}
  <2>1. CASE upstream[r].in_use[c]
    <3>1. PICK s \in Sessions : Uses(s, r, c)
      BY <2>1 DEF GatewayInv, ConnectionsOwned
    <3>2. S = {s}
      BY <3>1 DEF GatewayInv, ConnectionsOwned
    <3>3. Cardinality(S) = 1
      BY <3>2, FS_Singleton
    <3>. QED BY <2>1, <3>3
  <2>2. CASE ~upstream[r].in_use[c]
    BY <2>2 DEF GatewayInv, ConnectionsOwned
  <2>. QED BY <2>1, <2>2
<1>. QED BY <1>1, GatewayInvariant, PTL

(* The tickets the controller knows are those of the polling sessions, one *)
(* each; a lease is used by one session, promised to no ticket, and never  *)
(* used after its tokens were given back.                                  *)
THEOREM SessionsAlwaysAccounted == Spec => []SessionsAccounted
<1>1. GatewayInv => TicketsOwned
  <2> SUFFICES ASSUME GatewayInv PROVE TicketsOwned
    OBVIOUS
  <2>1. ASSUME NEW s \in Sessions
        PROVE  Cardinality(session[s].ticket) = IF session[s].pc = "polling" THEN 1 ELSE 0
    <3>1. WellSuspended(session[s])
      BY DEF GatewayInv, TypeOK
    <3>2. CASE session[s].pc = "polling"
      <4>1. PICK x \in session[s].ticket : session[s].ticket = {x}
        BY <3>1, <3>2 DEF WellSuspended
      <4>2. Cardinality(session[s].ticket) = 1
        BY <4>1, FS_Singleton
      <4>. QED BY <3>2, <4>2
    <3>3. CASE session[s].pc # "polling"
      <4>1. session[s].ticket = {}
        BY <3>1, <3>3 DEF WellSuspended
      <4>2. Cardinality(session[s].ticket) = 0
        BY <4>1, FS_EmptySet
      <4>. QED BY <3>3, <4>2
    <3>. QED BY <3>2, <3>3
  <2>. QED BY <2>1 DEF GatewayInv, ControllerOwned, TicketsOwned
<1>2. GatewayInv => LeasesUsedOnce
  <2> SUFFICES ASSUME GatewayInv PROVE LeasesUsedOnce
    OBVIOUS
  <2>1. ASSUME NEW s \in Sessions
        PROVE  Cardinality(session[s].lease) = IF session[s].pc \in ProxyAwaits THEN 1 ELSE 0
    <3>1. WellSuspended(session[s])
      BY DEF GatewayInv, TypeOK
    <3>2. CASE session[s].pc \in ProxyAwaits
      <4>1. PICK l \in session[s].lease : session[s].lease = {l}
        BY <3>1, <3>2 DEF WellSuspended
      <4>2. Cardinality(session[s].lease) = 1
        BY <4>1, FS_Singleton
      <4>. QED BY <3>2, <4>2
    <3>3. CASE session[s].pc \notin ProxyAwaits
      <4>1. session[s].lease = {}
        BY <3>1, <3>3 DEF WellSuspended
      <4>2. Cardinality(session[s].lease) = 0
        BY <4>1, FS_EmptySet
      <4>. QED BY <3>3, <4>2
    <3>. QED BY <3>2, <3>3
  <2>. QED BY <2>1 DEF GatewayInv, ControllerOwned, LeasesUsedOnce, CallersLeases
<1>3. GatewayInv => SessionsAccounted
  BY <1>1, <1>2 DEF SessionsAccounted
<1>. QED BY <1>3, GatewayInvariant, PTL

(* A lease is lost for good only by a client that leaves while its request *)
(* is queued: poll has just taken the lease out of ready_ and cancel no    *)
(* longer finds it.                                                        *)
THEOREM OnlyTheQueueLeaks == Spec => LeaksOnlyFromQueue
<1>1. GatewayInv /\ [Next]_vars =>
        [\A l \in Leaked' \ Leaked :
           \E s \in Sessions :
             /\ session[s].pc = "polling" /\ session[s].client_gone
             /\ session'[s].pc = "done"]_vars
  BY GatewayStep
<1>. QED BY <1>1, GatewayInvariant, PTL DEF Spec, LeaksOnlyFromQueue

-----------------------------------------------------------------------------
(* A request that arrives while the server runs and is given a lease: the  *)
(* route it was admitted to was available, so the breaker lets it through, *)
(* and its deadline lies ahead, so acquire waits rather than throws.       *)
LEMMA ArrivalIsAllowed ==
  ASSUME GatewayInv, NEW s \in Sessions, NEW cost \in Costs, NEW timeout \in Timeouts,
         NEW degrade \in BOOLEAN, Arrive(s, cost, timeout, degrade), ~stopping,
         session'[s].lease # {}
  PROVE  session'[s].pc # "sending_error"
<1> DEFINE me == [NewSession EXCEPT !.deadline = now + timeout]
           a == Admit(ctl, cost, now + timeout, FallbackEnabled /\ degrade,
                      RouteAvailability, now)
<1>1. IF a.kind = "queued"
      THEN Suspend(s, [me EXCEPT !.pc = "polling", !.watching = "queue",
                                 !.ticket = a.ticket])
      ELSE Proceed(s, me, a)
  BY DEF Arrive
<1>2. /\ WellFormed(ctl) /\ now \in Nat /\ now + timeout \in Nat /\ ~(now >= now + timeout)
      /\ cost.prompt_tokens \in 0..MaxUInt64 /\ cost.output_tokens \in 0..MaxUInt64
      /\ (FallbackEnabled /\ degrade) \in BOOLEAN /\ RouteAvailability \in Availability
      /\ session \in [Sessions -> Session]
  BY GatewayConfig, ClockBound, RouteOpsAvailable DEF GatewayInv, TypeOK
<1>3. FreshAnswer(ctl, a, RouteAvailability)
  BY <1>2, AdmitAnswer
<1> HIDE DEF a
<1>4. me \in Session /\ me.lease = {} /\ me.deadline = now + timeout
  BY <1>2 DEF NewSession, Session, Awaits
<1> HIDE DEF me
<1>5. a.kind # "queued" /\ a.lease # {}
  <2>1. ASSUME NEW n \in Session, n.lease = {}, Suspend(s, n) PROVE FALSE
    BY <1>2, <2>1 DEF Suspend
  <2>2. CASE a.kind = "queued"
    <3> DEFINE n == [me EXCEPT !.pc = "polling", !.watching = "queue", !.ticket = a.ticket]
    <3>1. session' = [session EXCEPT ![s] = n] /\ n.lease = {}
      BY <1>1, <1>4, <2>2 DEF Suspend, Session
    <3>. QED BY <1>2, <3>1
  <2>3. CASE a.kind # "queued" /\ a.lease = {}
    <3> DEFINE n == [me EXCEPT !.pc = "rejecting", !.ticket = {}, !.watching = "nothing"]
    <3>1. session' = [session EXCEPT ![s] = n] /\ n.lease = {}
      BY <1>1, <1>4, <2>3 DEF Suspend, Session, Proceed
    <3>. QED BY <1>2, <3>1
  <2>. QED BY <2>2, <2>3
<1>6. PICK l \in Lease : a.lease = {l} /\ OnAvailable(l, RouteAvailability)
  BY <1>3, <1>5 DEF FreshAnswer
<1> DEFINE u == upstream[l.route]
           begun == [me EXCEPT !.lease = {l}, !.ticket = {}, !.started = now,
                               !.watching = "proxy"]
<1>7. AllowsAttempt(u, now)
  <2>1. l.route = "primary" \/ l.route = "fallback"
    BY DEF Lease, Routes
  <2>2. Available(u, now)
    BY <1>6, <2>1 DEF RouteAvailability, OnAvailable
  <2>. QED BY <2>2 DEF Available, AllowsAttempt, PeekAvailable, Allows
<1>8. /\ begun \in Session /\ begun.deadline = now + timeout /\ begun.lease = {l}
  BY <1>2, <1>4 DEF Session
<1>9. TryAcquire(s, begun, AfterAllowAttempt(u, now))
  <2>1. StartProxy(s, me, l)
    BY <1>1, <1>5, <1>6, TheOnly DEF Proceed
  <2> HIDE DEF begun
  <2>2. ~AcquireThrows(begun, AfterAllowAttempt(u, now))
    BY <1>2, <1>8 DEF AcquireThrows
  <2>. QED BY <1>7, <2>1, <2>2 DEF StartProxy, begun
<1> HIDE DEF u, begun
<1>10. PICK pc \in {"acquiring", "writing", "resolving"} :
         session'[s].pc = pc
  <2> DEFINE v == AfterAllowAttempt(u, now)
  <2>1. ASSUME NEW n, Suspend(s, n) PROVE session'[s] = n
    BY <1>2, <2>1 DEF Suspend
  <2>2. CASE Suspend(s, [begun EXCEPT !.pc = "acquiring"])
    BY <1>8, <2>1, <2>2 DEF Session
  <2>3. CASE \E pc \in {"writing", "resolving"}, c \in {FirstFree(v)} :
               Suspend(s, [begun EXCEPT !.pc = pc, !.conn = {c}, !.attached = {c}])
    BY <1>8, <2>1, <2>3 DEF Session
  <2>. QED BY <1>9, <2>2, <2>3 DEF TryAcquire
<1>. QED BY <1>10

(* A request admitted on arrival is never refused by the breaker or the    *)
(* health flag it was admitted by: nothing runs between route_availability *)
(* and allow_attempt, and the two agree.                                   *)
THEOREM AdmittedIsAllowed == Spec => AdmittedMeansAllowed
<1>1. GatewayInv /\ [Next]_vars =>
        [\A s \in Sessions :
           session[s].pc = "new" /\ session'[s].lease # {} /\ ~stopping
             => session'[s].pc # "sending_error"]_vars
  <2> SUFFICES ASSUME GatewayInv, [Next]_vars, NEW s \in Sessions,
                      session[s].pc = "new", session'[s].lease # {}, ~stopping
               PROVE  session'[s].pc # "sending_error"
    OBVIOUS
  <2>1. session[s].lease = {}
    BY DEF GatewayInv, TypeOK, WellSuspended, ProxyAwaits, UpstreamAwaits, DownstreamAwaits
  <2>2. CASE StepOK
    BY <2>1, <2>2 DEF StepOK, ControlEffect, KeepsControl, EndsLease
  <2>3. CASE \E t \in Sessions : (Arrival(t) \/ PollQueue(t)) /\ AnswerOK(t)
    <3>1. PICK t \in Sessions : (Arrival(t) \/ PollQueue(t)) /\ AnswerOK(t)
      BY <2>3
    <3>2. t = s
      BY <2>1, <3>1 DEF AnswerOK, GetsAnswer
    <3>3. Arrival(s)
      BY <3>1, <3>2 DEF PollQueue
    <3>. QED BY <3>3, ArrivalIsAllowed DEF Arrival
  <2>. QED BY <2>2, <2>3, StepCases
<1>. QED BY <1>1, GatewayInvariant, PTL DEF Spec, AdmittedMeansAllowed
=============================================================================
