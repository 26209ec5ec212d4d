------------------------------- MODULE Gateway -------------------------------
(***************************************************************************)
(* The gateway server (gateway/src/gateway_server.cpp): one coroutine per  *)
(* client connection, a watcher coroutine per wait for the client, the     *)
(* admission controller and the upstream routes.                           *)
(*                                                                         *)
(* All coroutines run on one strand, so an action here is what a coroutine *)
(* does between two suspensions; pc names the await it is suspended at:    *)
(*                                                                         *)
(*   polling         the queue timer (handle_session)                      *)
(*   acquiring       the retry timer of UpstreamPool::acquire              *)
(*   resolving, connecting                ensure_connected                 *)
(*   writing, reading_header, reading_body       the upstream exchange     *)
(*   writing_header, writing_body, writing_last  the downstream response   *)
(*   sending_error   send_json_error with the lease still held             *)
(*   rejecting       send_json_error without a lease                       *)
(*                                                                         *)
(* A request that fails before admit (bad JSON, rate limit, ...) touches   *)
(* no shared state but the rate limiter, which has a module of its own,    *)
(* and is left out.  So are metrics, bodies and the rewriting of model.    *)
(***************************************************************************)
EXTENDS AdmissionController, UpstreamPool, SteadyClock

CONSTANTS
  Sessions,         \* the client connections
  Costs,            \* the estimated costs requests may have
  Timeouts,         \* the request timeouts clients may ask for
  FallbackEnabled   \* fallback_enabled

ASSUME GatewayConfig ==
  /\ \A cost \in Costs : /\ cost.prompt_tokens \in 0..MaxUInt64
                         /\ cost.output_tokens \in 0..MaxUInt64
  /\ Timeouts \subseteq Nat \ {0}
  /\ FallbackEnabled \in BOOLEAN

VARIABLES
  ctl,       \* admission_
  upstream,  \* primary_ and fallback_
  session,   \* the coroutine of each client connection
  client,    \* what each client has done to its connection
  stopping   \* stopping_ of the server and of both pools

vars == <<ctl, upstream, session, client, stopping, now>>

UpstreamAwaits ==
  {"resolving", "connecting", "writing", "reading_header", "reading_body"}
DownstreamAwaits == {"writing_header", "writing_body", "writing_last"}
ProxyAwaits ==
  {"acquiring", "sending_error"} \cup UpstreamAwaits \cup DownstreamAwaits
Awaits == {"new", "polling", "rejecting", "done"} \cup ProxyAwaits

(* conn is the connection between acquire and release, attached what the   *)
(* CancellationState still refers to after release.  watching says which   *)
(* wait a watcher guards whose finished flag is not yet set.               *)
Session ==
  [pc : Awaits, deadline : Nat, ticket : SUBSET Nat, lease : SUBSET Lease,
   started : Nat, conn : SUBSET Connections, attached : SUBSET Connections,
   client_gone : BOOLEAN, watching : {"nothing", "queue", "proxy"}]

NewSession ==
  [pc |-> "new", deadline |-> 0, ticket |-> {}, lease |-> {}, started |-> 0,
   conn |-> {}, attached |-> {}, client_gone |-> FALSE, watching |-> "nothing"]

Ended == [NewSession EXCEPT !.pc = "done"]

Init ==
  /\ ctl = InitController
  /\ upstream = [r \in Routes |-> InitUpstream]
  /\ session = [s \in Sessions |-> NewSession]
  /\ client = [s \in Sessions |-> "present"]
  /\ stopping = FALSE
  /\ now = 0

The(S) == CHOOSE x \in S : TRUE
RouteOf(me) == The(me.lease).route

Suspend(s, me) == session' = [session EXCEPT ![s] = me]

RouteAvailability ==
  [primary |-> Available(upstream["primary"], now),
   fallback |-> FallbackEnabled /\ Available(upstream["fallback"], now)]

-----------------------------------------------------------------------------
(* UpstreamPool::acquire and what follows up to the next suspension: the   *)
(* connection is attached to the cancellation state, and an open one is    *)
(* written to at once.                                                     *)
AcquireThrows(me, u) ==
  stopping \/ (FreeConnections(u) = {} /\ now >= me.deadline)

TryAcquire(s, me, u) ==
  IF FreeConnections(u) = {}
  THEN /\ Suspend(s, [me EXCEPT !.pc = "acquiring"])
       /\ upstream' = [upstream EXCEPT ![RouteOf(me)] = u]
  ELSE LET c == FirstFree(u) IN
       \E stale \in StaleIdle(u, c) :
         LET acquired == Acquire(u, c, stale)
             connected == acquired.socket[c] = "open"
         IN /\ Suspend(s, [me EXCEPT
                             !.pc = IF connected THEN "writing" ELSE "resolving",
                             !.conn = {c}, !.attached = {c}])
            /\ upstream' = [upstream EXCEPT ![RouteOf(me)] = acquired]

(* A lease in hand: the guard starts, the proxy watcher is spawned and     *)
(* proxy_request runs up to its first suspension.                          *)
StartProxy(s, base, lease) ==
  LET me == [base EXCEPT !.lease = {lease}, !.ticket = {}, !.started = now,
                         !.watching = "proxy"]
      u == upstream[lease.route]
      entered == AfterAllowAttempt(u, now)
  IN IF ~AllowsAttempt(u, now)
     THEN Suspend(s, [me EXCEPT !.pc = "sending_error"]) /\ UNCHANGED upstream
     ELSE IF AcquireThrows(me, entered)
     THEN /\ Suspend(s, [me EXCEPT !.pc = "sending_error"])
          /\ upstream' = [upstream EXCEPT ![lease.route] = entered]
     ELSE TryAcquire(s, me, entered)

(* What handle_session does with an answer that is not "queued".           *)
Proceed(s, me, answer) ==
  IF answer.lease # {} THEN StartProxy(s, me, The(answer.lease))
  ELSE /\ Suspend(s, [me EXCEPT !.pc = "rejecting", !.ticket = {},
                                !.watching = "nothing"])
       /\ UNCHANGED upstream

(* handle_session up to its first suspension after reading the request; a  *)
(* connection accepted before the server stops is still served.            *)
Arrive(s, cost, timeout, degrade) ==
  LET me == [NewSession EXCEPT !.deadline = now + timeout]
      answer == Admit(ctl, cost, now + timeout, FallbackEnabled /\ degrade,
                      RouteAvailability, now)
  IN /\ session[s].pc = "new"
     /\ ctl' = answer.ctl
     /\ IF answer.kind = "queued"
        THEN /\ Suspend(s, [me EXCEPT !.pc = "polling", !.watching = "queue",
                                      !.ticket = answer.ticket])
             /\ UNCHANGED upstream
        ELSE Proceed(s, me, answer)
     /\ UNCHANGED <<client, stopping, now>>

(* The queue timer fires: poll first, and only then look whether the       *)
(* client has gone; if it has, cancel the ticket and return.               *)
PollQueue(s) ==
  LET me == session[s]
      ticket == The(me.ticket)
      answer == Poll(ctl, ticket, RouteAvailability, now)
  IN /\ me.pc = "polling"
     /\ IF me.client_gone
        THEN /\ ctl' = Cancel(answer.ctl, ticket)
             /\ Suspend(s, Ended)
             /\ UNCHANGED upstream
        ELSE /\ ctl' = answer.ctl
             /\ IF answer.kind = "queued" THEN UNCHANGED <<session, upstream>>
                ELSE Proceed(s, me, answer)
     /\ UNCHANGED <<client, stopping, now>>

(* handle_session returns: the guard completes the lease.                  *)
EndProxy(s, me) ==
  /\ Suspend(s, Ended)
  /\ \E ewma \in EwmaAfter(ctl, now - me.started) :
       ctl' = Complete(ctl, The(me.lease).id, ewma)

(* Mutant of CatchFailure: with the client gone, nobody completes.         *)
CatchFailureUncompleted(s, me, headers_sent) ==
  IF me.client_gone \/ headers_sent THEN Suspend(s, Ended) /\ UNCHANGED ctl
  ELSE /\ Suspend(s, [me EXCEPT !.pc = "sending_error", !.conn = {}])
       /\ UNCHANGED ctl

(* A ProxyFailure reaches handle_session.                                  *)
CatchFailure(s, me, headers_sent) ==
  IF me.client_gone \/ headers_sent THEN EndProxy(s, me)
  ELSE /\ Suspend(s, [me EXCEPT !.pc = "sending_error", !.conn = {}])
       /\ UNCHANGED ctl

RetryAcquire(s) ==
  LET me == session[s]
      u == upstream[RouteOf(me)]
  IN /\ me.pc = "acquiring"
     /\ IF AcquireThrows(me, u)
        THEN CatchFailure(s, me, FALSE) /\ UNCHANGED upstream
        ELSE TryAcquire(s, me, u) /\ UNCHANGED ctl
     /\ UNCHANGED <<client, stopping, now>>

-----------------------------------------------------------------------------
(* The upstream exchange.  Every operation shares the absolute deadline; a *)
(* pending one succeeds only on a socket that nobody has closed.           *)
UpstreamOf(s) == upstream[RouteOf(session[s])]
ConnectionOf(s) == The(session[s].conn)

UpstreamStep(s, from, sockets, to, after) ==
  /\ session[s].pc = from
  /\ now < session[s].deadline
  /\ UpstreamOf(s).socket[ConnectionOf(s)] \in sockets
  /\ Suspend(s, [session[s] EXCEPT !.pc = to])
  /\ upstream' = [upstream EXCEPT ![RouteOf(session[s])] = after]
  /\ UNCHANGED <<ctl, client, stopping, now>>

(* While the name is being resolved there is no socket to close.           *)
Resolved(s) ==
  UpstreamStep(s, "resolving", {"closed"}, "connecting",
               SetSocket(UpstreamOf(s), ConnectionOf(s), "opening"))

Connected(s) ==
  UpstreamStep(s, "connecting", {"opening"}, "writing",
               SetSocket(UpstreamOf(s), ConnectionOf(s), "open"))

Written(s) ==
  UpstreamStep(s, "writing", {"open"}, "reading_header", UpstreamOf(s))

HeaderRead(s) ==
  \/ UpstreamStep(s, "reading_header", {"open"}, "writing_header",
                  RecordSuccessOn(UpstreamOf(s)))
  \/ UpstreamStep(s, "reading_header", {"open"}, "writing_header",
                  RecordFailureOn(UpstreamOf(s), now))

BodyRead(s) ==
  \/ UpstreamStep(s, "reading_body", {"open"}, "writing_body", UpstreamOf(s))
  \/ UpstreamStep(s, "reading_body", {"open"}, "writing_last", UpstreamOf(s))

(* A transport error, a timeout, or an operation aborted by a close: the   *)
(* connection goes back closed and the failure is recorded, unless the     *)
(* client is known to have gone.                                           *)
UpstreamFails(s) ==
  LET me == session[s]
      released == Release(upstream[RouteOf(me)], The(me.conn), FALSE)
  IN /\ me.pc \in UpstreamAwaits
     /\ upstream' = [upstream EXCEPT ![RouteOf(me)] =
                       IF me.client_gone THEN released
                       ELSE RecordFailureOn(released, now)]
     /\ CatchFailure(s, me, me.pc = "reading_body")
     /\ UNCHANGED <<client, stopping, now>>

(* The downstream response.  A write may fail once the client has gone or  *)
(* the deadline has passed.                                                *)
DownstreamStep(s, from, to) ==
  /\ session[s].pc = from
  /\ now < session[s].deadline
  /\ Suspend(s, [session[s] EXCEPT !.pc = to])
  /\ UNCHANGED <<ctl, upstream, client, stopping, now>>

HeaderWritten(s) ==
  \/ DownstreamStep(s, "writing_header", "reading_body")
  \/ DownstreamStep(s, "writing_header", "writing_last")

ChunkWritten(s) ==
  \/ DownstreamStep(s, "writing_body", "reading_body")
  \/ DownstreamStep(s, "writing_body", "writing_last")

DownstreamFails(s) ==
  LET me == session[s] IN
  /\ me.pc \in {"writing_header", "writing_body"}
  /\ client[s] # "present" \/ now >= me.deadline
  /\ upstream' = [upstream EXCEPT ![RouteOf(me)] =
                    Release(@, The(me.conn), FALSE)]
  /\ EndProxy(s, me)
  /\ UNCHANGED <<client, stopping, now>>

(* The last chunk is out, or could not be written: the connection is kept  *)
(* if the upstream allows it and the client got everything.                *)
LastWritten(s) ==
  LET me == session[s] IN
  /\ me.pc = "writing_last"
  /\ \E reusable \in BOOLEAN :
       /\ reusable => now < me.deadline
       /\ upstream' = [upstream EXCEPT ![RouteOf(me)] =
                         Release(@, The(me.conn), reusable)]
  /\ EndProxy(s, me)
  /\ UNCHANGED <<client, stopping, now>>

ErrorSent(s) ==
  /\ session[s].pc = "sending_error"
  /\ EndProxy(s, session[s])
  /\ UNCHANGED <<upstream, client, stopping, now>>

Rejected(s) ==
  /\ session[s].pc = "rejecting"
  /\ Suspend(s, Ended)
  /\ UNCHANGED <<ctl, upstream, client, stopping, now>>

-----------------------------------------------------------------------------
(* watch_client_disconnect: the client's socket becomes readable.  Bytes   *)
(* end the watch; an end of stream is noted and closes the upstream        *)
(* connection the cancellation state refers to.                            *)
WatcherSeesBytes(s) ==
  /\ session[s].watching # "nothing"
  /\ client[s] = "wrote"
  /\ Suspend(s, [session[s] EXCEPT !.watching = "nothing"])
  /\ UNCHANGED <<ctl, upstream, client, stopping, now>>

WatcherSeesEnd(s) ==
  LET me == session[s] IN
  /\ me.watching # "nothing"
  /\ client[s] = "gone"
  /\ Suspend(s, [me EXCEPT !.watching = "nothing", !.client_gone = TRUE])
  /\ upstream' = IF me.attached = {} THEN upstream
                 ELSE [upstream EXCEPT ![RouteOf(me)] =
                         CancelConnection(@, The(me.attached))]
  /\ UNCHANGED <<ctl, client, stopping, now>>

(* The environment: clients leave, or send more bytes than the request;    *)
(* time passes; the server is told to stop; health probes report, also the *)
(* one that is under way when the server stops.                            *)
ClientActs(s) ==
  /\ client[s] = "present"
  /\ session[s].pc \notin {"new", "done"}
  /\ \E act \in {"gone", "wrote"} : client' = [client EXCEPT ![s] = act]
  /\ UNCHANGED <<ctl, upstream, session, stopping, now>>

HealthChecked(r) ==
  /\ r = "primary" \/ FallbackEnabled
  /\ \E healthy \in BOOLEAN :
       upstream' = [upstream EXCEPT ![r].healthy = healthy]
  /\ UNCHANGED <<ctl, session, client, stopping, now>>

Stop ==
  /\ ~stopping
  /\ stopping' = TRUE
  /\ upstream' = [r \in Routes |-> CancelAll(upstream[r])]
  /\ UNCHANGED <<ctl, session, client, now>>

Tick ==
  /\ Advance
  /\ UNCHANGED <<ctl, upstream, session, client, stopping>>

(* What one session's own coroutine does.                                  *)
Resume(s) ==
  \/ PollQueue(s)
  \/ RetryAcquire(s)
  \/ Resolved(s)
  \/ Connected(s)
  \/ Written(s)
  \/ HeaderRead(s)
  \/ BodyRead(s)
  \/ UpstreamFails(s)
  \/ HeaderWritten(s)
  \/ ChunkWritten(s)
  \/ DownstreamFails(s)
  \/ LastWritten(s)
  \/ ErrorSent(s)
  \/ Rejected(s)

Next ==
  \/ \E s \in Sessions :
       \/ \E cost \in Costs, timeout \in Timeouts, degrade \in BOOLEAN :
            now + timeout <= MaxTime /\ Arrive(s, cost, timeout, degrade)
       \/ Resume(s)
       \/ WatcherSeesBytes(s)
       \/ WatcherSeesEnd(s)
       \/ ClientActs(s)
  \/ \E r \in Routes : HealthChecked(r)
  \/ Stop
  \/ Tick

Spec == Init /\ [][Next]_vars

(* Every await has a timer or a peer that ends it, and the clock runs.     *)
Fairness ==
  /\ \A s \in Sessions : WF_vars(Resume(s))
  /\ WF_vars(Tick)

FairSpec == Spec /\ Fairness

-----------------------------------------------------------------------------
Holds(s, lease) == lease \in session[s].lease
Uses(s, r, c) == c \in session[s].conn /\ RouteOf(session[s]) = r

(* No pooled connection is lost or shared on any of the ways out of        *)
(* proxy_request: in_use is set exactly while one session has it, and an   *)
(* idle connection is never left half connected.                           *)
ConnectionsAccounted ==
  \A r \in Routes, c \in Connections :
    IF upstream[r].in_use[c]
    THEN Cardinality({s \in Sessions : Uses(s, r, c)}) = 1
    ELSE /\ \A s \in Sessions : ~Uses(s, r, c)
         /\ upstream[r].socket[c] # "opening"

(* No queue entry outlives its session: the tickets the controller knows   *)
(* are those of polling sessions, one each, however clients leave.         *)
TicketsOwned ==
  /\ Tickets(ctl) = UNION {session[s].ticket : s \in Sessions}
  /\ \A s \in Sessions :
       Cardinality(session[s].ticket) = IF session[s].pc = "polling" THEN 1 ELSE 0
  /\ \A s, t \in Sessions :
       s # t => session[s].ticket \cap session[t].ticket = {}

(* No lease is used by two sessions, or used by one and promised to a      *)
(* ticket, or used after its tokens were given back.                       *)
LeasesUsedOnce ==
  /\ \A s \in Sessions : session[s].lease \subseteq ctl.active \ ReadyLeases(ctl)
  /\ \A s \in Sessions :
       Cardinality(session[s].lease) = IF session[s].pc \in ProxyAwaits THEN 1 ELSE 0
  /\ \A s, t \in Sessions :
       s # t => session[s].lease \cap session[t].lease = {}

(* What the controller has out is what the sessions have, one ticket or one  *)
(* lease each, on every way through and out of handle_session.               *)
SessionsAccounted == TicketsOwned /\ LeasesUsedOnce

Leaked ==
  {l \in ctl.active : l \notin ReadyLeases(ctl)
                      /\ \A s \in Sessions : ~Holds(s, l)}

(* The only way to lose a lease for good is a client that leaves while its *)
(* request is queued: every other way out gives the tokens back.           *)
LeaksOnlyFromQueue ==
  [][\A l \in Leaked' \ Leaked :
       \E s \in Sessions :
         /\ session[s].pc = "polling" /\ session[s].client_gone
         /\ session'[s].pc = "done"]_vars

(* What route_availability saw, allow_attempt grants: a request admitted   *)
(* on arrival is never refused by the breaker or the health flag it was    *)
(* admitted by.                                                            *)
AdmittedMeansAllowed ==
  [][\A s \in Sessions :
       session[s].pc = "new" /\ session'[s].lease # {} /\ ~stopping
         => session'[s].pc # "sending_error"]_vars

(* Every request gets to its end: no wait in the queue, for a connection,  *)
(* for the upstream or for the client is unbounded, also while the server  *)
(* stops.                                                                  *)
EverySessionEnds ==
  \A s \in Sessions : session[s].pc # "new" ~> session[s].pc = "done"

-----------------------------------------------------------------------------
(* README: the watcher "cancels the queued ticket or closes the leased     *)
(* upstream connection, then releases the token lease".                    *)

(* ... so that no lease stays active without a session or a ticket.        *)
EveryLeaseOwned == Leaked = {}
=============================================================================
