---------------------- MODULE AdmissionControllerProofs ----------------------
(***************************************************************************)
(* Every method of the admission controller keeps WellFormed, moves no     *)
(* ticket and no caller's lease it should not, and grants no more than the *)
(* capacity of a route.  The lemmas are about the operators alone, so any  *)
(* module that embeds a controller can cite them.                          *)
(***************************************************************************)
EXTENDS AdmissionController, FiniteSetTheorems, TLAPS

(* Induction over the naturals, with the predicate given as a set: the     *)
(* least counterexample has a predecessor that is none.                    *)
LEMMA NatSetInduction ==
  ASSUME NEW S, 0 \in S, \A n \in Nat : n \in S => n + 1 \in S
  PROVE  Nat \subseteq S
<1> DEFINE T == Nat \ S
<1>1. SUFFICES ASSUME T # {} PROVE FALSE
  OBVIOUS
<1>2. PICK x \in T : \A y \in T : ~(<<y, x>> \in OpToRel(<, Nat))
  <2>1. T \subseteq Nat
    OBVIOUS
  <2> HIDE DEF T
  <2>. QED BY <1>1, <2>1, NatLessThanWellFounded, WFMin, Zenon
<1>3. x \in Nat /\ x # 0 /\ x - 1 \in Nat /\ x - 1 < x
  OBVIOUS
<1>4. <<x - 1, x>> \in OpToRel(<, Nat)
  BY <1>3 DEF OpToRel
<1>5. x - 1 \in S
  BY <1>2, <1>3, <1>4
<1>. QED BY <1>3, <1>5

-----------------------------------------------------------------------------
(* Counting tokens: one record, none, two sets that share no id, and a set *)
(* without some of its members.                                            *)

LEMMA TokensOfNone == IsFiniteSet(Units({})) /\ TokensOf({}) = 0
<1>1. Units({}) = {}
  BY DEF Units
<1>2. IsFiniteSet({}) /\ Cardinality({}) = 0
  BY FS_EmptySet
<1>. QED BY <1>1, <1>2 DEF TokensOf

LEMMA TokensOfOne ==
  ASSUME NEW e, e.tokens \in Nat
  PROVE  IsFiniteSet(Units({e})) /\ TokensOf({e}) = e.tokens
<1>1. Units({e}) = {e.id} \X (1..e.tokens)
  BY DEF Units
<1>2. IsFiniteSet(1..e.tokens) /\ Cardinality(1..e.tokens) = e.tokens
  BY FS_Interval
<1>3. IsFiniteSet({e.id}) /\ Cardinality({e.id}) = 1
  BY FS_Singleton
<1>4. /\ IsFiniteSet({e.id} \X (1..e.tokens))
      /\ Cardinality({e.id} \X (1..e.tokens)) = 1 * e.tokens
  BY <1>2, <1>3, FS_Product
<1>5. 1 * e.tokens = e.tokens
  OBVIOUS
<1>6. TokensOf({e}) = Cardinality(Units({e}))
  BY DEF TokensOf
<1>. QED BY <1>1, <1>4, <1>5, <1>6

LEMMA TokensOfUnion ==
  ASSUME NEW S, NEW T, \A s \in S : \A t \in T : s.id # t.id,
         IsFiniteSet(Units(S)), IsFiniteSet(Units(T))
  PROVE  /\ IsFiniteSet(Units(S \cup T))
         /\ TokensOf(S \cup T) = TokensOf(S) + TokensOf(T)
         /\ TokensOf(S) \in Nat /\ TokensOf(T) \in Nat
<1>1. Units(S \cup T) = Units(S) \cup Units(T)
  BY DEF Units
<1>2. Units(S) \cap Units(T) = {}
  BY DEF Units
<1>3. Cardinality(Units(S) \cap Units(T)) = 0
  BY <1>2, FS_EmptySet, Zenon
<1>4. /\ IsFiniteSet(Units(S) \cup Units(T))
      /\ Cardinality(Units(S) \cup Units(T)) =
           Cardinality(Units(S)) + Cardinality(Units(T))
             - Cardinality(Units(S) \cap Units(T))
  BY FS_Union
<1>5. Cardinality(Units(S)) \in Nat /\ Cardinality(Units(T)) \in Nat
  BY FS_CardinalityType
<1>6. /\ TokensOf(S) = Cardinality(Units(S))
      /\ TokensOf(T) = Cardinality(Units(T))
      /\ TokensOf(S \cup T) = Cardinality(Units(S) \cup Units(T))
  BY <1>1 DEF TokensOf
<1>7. Cardinality(Units(S) \cup Units(T)) =
        Cardinality(Units(S)) + Cardinality(Units(T))
  BY <1>3, <1>4, <1>5
<1>. QED BY <1>1, <1>4, <1>5, <1>6, <1>7

LEMMA TokensOfRest ==
  ASSUME NEW S, NEW D \in SUBSET S, UniqueIds(S), IsFiniteSet(Units(S))
  PROVE  /\ IsFiniteSet(Units(S \ D)) /\ IsFiniteSet(Units(D))
         /\ TokensOf(S \ D) = TokensOf(S) - TokensOf(D)
         /\ TokensOf(S) \in Nat /\ TokensOf(D) \in Nat
         /\ TokensOf(S \ D) \in Nat
<1>1. Units(S \ D) \subseteq Units(S) /\ Units(D) \subseteq Units(S)
  BY DEF Units
<1>2. IsFiniteSet(Units(S \ D)) /\ IsFiniteSet(Units(D))
  BY <1>1, FS_Subset
<1>3. \A s \in S \ D : \A t \in D : s.id # t.id
  BY DEF UniqueIds
<1>4. (S \ D) \cup D = S
  OBVIOUS
<1>5. /\ TokensOf((S \ D) \cup D) = TokensOf(S \ D) + TokensOf(D)
      /\ TokensOf(S \ D) \in Nat /\ TokensOf(D) \in Nat
  BY <1>2, <1>3, TokensOfUnion
<1>6. TokensOf(S) = TokensOf(S \ D) + TokensOf(D)
  BY <1>4, <1>5
<1>. QED BY <1>2, <1>5, <1>6

-----------------------------------------------------------------------------
(* make_lease_locked, on a route the tokens fit: the new lease is charged  *)
(* and the route stays within its capacity.                                *)
LEMMA MakeLeaseOK ==
  ASSUME NEW c \in Controller, LeasesOK(c),
         \A l \in c.active : l.id < c.next_id,
         NEW route \in Routes, NEW tokens \in Nat, RouteFits(c, route, tokens)
  PROVE  LET lease == NewLease(c, route, tokens)
             d == MakeLease(c, lease)
         IN  /\ d \in Controller /\ LeasesOK(d) /\ lease \in Lease
             /\ lease \notin c.active
             /\ d.active = c.active \cup {lease}
             /\ d.next_id = c.next_id + 1
             /\ lease.id = c.next_id
<1> DEFINE lease == NewLease(c, route, tokens)
           d == MakeLease(c, lease)
<1>1. /\ lease \in Lease /\ lease.id = c.next_id /\ lease.route = route
      /\ lease.tokens = tokens /\ lease.tokens \in Nat /\ c.next_id \in Nat
  BY DEF NewLease, Lease, Controller
<1>2. /\ d.active = c.active \cup {lease}
      /\ d.next_id = c.next_id + 1
      /\ d.active_tokens = [c.active_tokens EXCEPT ![route] = @ + tokens]
  BY <1>1 DEF MakeLease, Controller
<1>3. d \in Controller
  <2>1. d.active_tokens \in [Routes -> Nat]
    BY <1>1, <1>2 DEF Controller
  <2>2. d.active \in SUBSET Lease /\ d.next_id \in Nat \ {0}
    BY <1>1, <1>2 DEF Controller
  <2>. QED BY <2>1, <2>2 DEF MakeLease, Controller
<1>4. \A l \in c.active : l.id # lease.id
  BY <1>1 DEF Controller, Lease
<1>5. UniqueIds(d.active)
  BY <1>2, <1>4 DEF LeasesOK, UniqueIds
<1>6. ASSUME NEW r \in Routes
      PROVE  /\ IsFiniteSet(Units(LeasesOn(d, r)))
             /\ d.active_tokens[r] = TokensOf(LeasesOn(d, r))
             /\ d.active_tokens[r] <= Capacity(r)
  <2>1. /\ IsFiniteSet(Units(LeasesOn(c, r)))
        /\ c.active_tokens[r] = TokensOf(LeasesOn(c, r))
        /\ c.active_tokens[r] <= Capacity(r)
    BY DEF LeasesOK
  <2>2. CASE r = route
    <3>1. LeasesOn(d, r) = LeasesOn(c, r) \cup {lease}
      BY <1>1, <1>2, <2>2 DEF LeasesOn
    <3>2. IsFiniteSet(Units({lease})) /\ TokensOf({lease}) = tokens
      BY <1>1, TokensOfOne
    <3>3. \A s \in LeasesOn(c, r) : \A t \in {lease} : s.id # t.id
      BY <1>4 DEF LeasesOn
    <3>4. /\ IsFiniteSet(Units(LeasesOn(c, r) \cup {lease}))
          /\ TokensOf(LeasesOn(c, r) \cup {lease})
               = TokensOf(LeasesOn(c, r)) + TokensOf({lease})
      BY <2>1, <3>2, <3>3, TokensOfUnion
    <3>5. d.active_tokens[r] = c.active_tokens[r] + tokens
      BY <1>2, <2>2 DEF Controller
    <3>6. c.active_tokens[r] + tokens <= Capacity(r)
      BY <2>2, AdmissionConfig DEF RouteFits, Capacity, Controller
    <3>. QED BY <2>1, <3>1, <3>2, <3>4, <3>5, <3>6
  <2>3. CASE r # route
    <3>1. LeasesOn(d, r) = LeasesOn(c, r)
      BY <1>1, <1>2, <2>3 DEF LeasesOn
    <3>2. d.active_tokens[r] = c.active_tokens[r]
      BY <1>2, <2>3 DEF Controller
    <3>. QED BY <2>1, <3>1, <3>2
  <2>. QED BY <2>2, <2>3
<1>7. LeasesOK(d)
  BY <1>5, <1>6 DEF LeasesOK
<1>8. lease \notin c.active
  BY <1>4
<1>. QED BY <1>1, <1>2, <1>3, <1>7, <1>8

(* Releasing an active lease gives back exactly what it was charged.       *)
LEMMA ReleaseLeaseOK ==
  ASSUME NEW c \in Controller, LeasesOK(c), NEW lease \in c.active
  PROVE  LET d == ReleaseLease(c, lease)
         IN  /\ d \in Controller /\ LeasesOK(d)
             /\ d.active = c.active \ {lease}
<1> DEFINE d == ReleaseLease(c, lease)
<1>1. /\ lease \in Lease /\ lease.route \in Routes /\ lease.tokens \in Nat
      /\ c.active_tokens \in [Routes -> Nat]
  BY DEF Controller, Lease
<1>2. /\ d.active = c.active \ {lease}
      /\ d.active_tokens =
           [c.active_tokens EXCEPT ![lease.route] = @ - lease.tokens]
  BY DEF ReleaseLease, Controller
<1>3. UniqueIds(d.active)
  BY <1>2 DEF LeasesOK, UniqueIds
<1>4. ASSUME NEW r \in Routes
      PROVE  /\ IsFiniteSet(Units(LeasesOn(d, r)))
             /\ d.active_tokens[r] = TokensOf(LeasesOn(d, r))
             /\ d.active_tokens[r] <= Capacity(r)
             /\ d.active_tokens[r] \in Nat
  <2>1. /\ IsFiniteSet(Units(LeasesOn(c, r)))
        /\ c.active_tokens[r] = TokensOf(LeasesOn(c, r))
        /\ c.active_tokens[r] <= Capacity(r)
        /\ UniqueIds(LeasesOn(c, r))
        /\ c.active_tokens[r] \in Nat
    BY <1>1 DEF LeasesOK, UniqueIds, LeasesOn
  <2>2. CASE r = lease.route
    <3>1. LeasesOn(d, r) = LeasesOn(c, r) \ {lease}
      BY <1>2 DEF LeasesOn
    <3>2. {lease} \in SUBSET LeasesOn(c, r)
      BY <2>2 DEF LeasesOn
    <3>3. TokensOf({lease}) = lease.tokens
      BY <1>1, TokensOfOne
    <3>4. /\ IsFiniteSet(Units(LeasesOn(c, r) \ {lease}))
          /\ TokensOf(LeasesOn(c, r) \ {lease})
               = TokensOf(LeasesOn(c, r)) - TokensOf({lease})
          /\ TokensOf(LeasesOn(c, r) \ {lease}) \in Nat
      BY <2>1, <3>2, TokensOfRest
    <3>5. d.active_tokens[r] = c.active_tokens[r] - lease.tokens
      BY <1>1, <1>2, <2>2
    <3>6. Capacity(r) \in Nat
      BY AdmissionConfig DEF Capacity
    <3>. QED BY <1>1, <2>1, <3>1, <3>3, <3>4, <3>5, <3>6
  <2>3. CASE r # lease.route
    <3>1. LeasesOn(d, r) = LeasesOn(c, r)
      BY <1>2, <2>3 DEF LeasesOn
    <3>2. d.active_tokens[r] = c.active_tokens[r]
      BY <1>1, <1>2, <2>3
    <3>. QED BY <2>1, <3>1, <3>2
  <2>. QED BY <2>2, <2>3
<1>5. d.active_tokens \in [Routes -> Nat]
  BY <1>1, <1>2, <1>4
<1>6. d \in Controller
  BY <1>2, <1>5 DEF ReleaseLease, Controller
<1>. QED BY <1>2, <1>3, <1>4, <1>6 DEF LeasesOK

-----------------------------------------------------------------------------
(* Taking entries out of the queue, as expiry, promotion and cancellation  *)
(* do.                                                                     *)
LEMMA DequeueOK ==
  ASSUME NEW c \in Controller, QueueOK(c), NEW D \in SUBSET c.queue, NEW d,
         d.queue = c.queue \ D, d.queue_tokens = c.queue_tokens - TokensOf(D),
         d.max_requests = c.max_requests, d.max_tokens = c.max_tokens
  PROVE  QueueOK(d) /\ d.queue_tokens \in Nat
<1>1. /\ UniqueIds(c.queue) /\ IsFiniteSet(c.queue)
      /\ IsFiniteSet(Units(c.queue))
      /\ c.queue_tokens = TokensOf(c.queue) /\ c.queue_tokens <= c.max_tokens
      /\ c.max_tokens <= MaxQueueTokens /\ c.max_tokens \in Nat
      /\ Cardinality(c.queue) <= c.max_requests
      /\ c.max_requests <= MaxQueueRequests /\ c.max_requests \in Nat
  BY DEF QueueOK, Controller
<1>2. /\ IsFiniteSet(Units(c.queue \ D))
      /\ TokensOf(c.queue \ D) = TokensOf(c.queue) - TokensOf(D)
      /\ TokensOf(c.queue) \in Nat /\ TokensOf(D) \in Nat
      /\ TokensOf(c.queue \ D) \in Nat
  BY <1>1, TokensOfRest
<1>3. /\ IsFiniteSet(c.queue \ D)
      /\ Cardinality(c.queue \ D) <= Cardinality(c.queue)
  <2>1. c.queue \ D \in SUBSET c.queue
    OBVIOUS
  <2>. QED BY <1>1, <2>1, FS_Subset
<1>4. Cardinality(c.queue \ D) \in Nat /\ Cardinality(c.queue) \in Nat
  BY <1>1, <1>3, FS_CardinalityType
<1>5. Cardinality(d.queue) <= d.max_requests
  BY <1>1, <1>3, <1>4
<1>6. d.queue_tokens = TokensOf(d.queue) /\ d.queue_tokens <= d.max_tokens
  BY <1>1, <1>2
<1>7. UniqueIds(d.queue)
  BY <1>1 DEF UniqueIds
<1>. QED BY <1>1, <1>2, <1>3, <1>5, <1>6, <1>7 DEF QueueOK

(* expire_locked only turns queued tickets into terminal ones.             *)
LEMMA ExpireLockedOK ==
  ASSUME NEW c, WellFormed(c), NEW now \in Nat
  PROVE  LET d == ExpireLocked(c, now)
         IN  /\ WellFormed(d)
             /\ Tickets(d) = Tickets(c)
             /\ d.active = c.active /\ d.ready = c.ready
             /\ d.next_id = c.next_id
             /\ d.queue = {e \in c.queue : ~Expired(e, now)}
<1> DEFINE dead == {e \in c.queue : Expired(e, now)}
           d == ExpireLocked(c, now)
<1>1. c \in Controller /\ LeasesOK(c) /\ QueueOK(c) /\ ReadyOK(c) /\ IdsOK(c)
  BY DEF WellFormed
<1>2. /\ d.queue = c.queue \ dead
      /\ d.queue_tokens = c.queue_tokens - TokensOf(dead)
      /\ d.terminal = c.terminal \cup {e.id : e \in dead}
      /\ d.active = c.active /\ d.active_tokens = c.active_tokens
      /\ d.ready = c.ready /\ d.next_id = c.next_id
      /\ d.max_requests = c.max_requests /\ d.max_tokens = c.max_tokens
  BY <1>1 DEF ExpireLocked, Controller
<1>3. QueueOK(d) /\ d.queue_tokens \in Nat
  <2>1. dead \in SUBSET c.queue
    OBVIOUS
  <2> HIDE DEF d, dead
  <2>. QED BY <1>1, <1>2, <2>1, DequeueOK
<1>4. d \in Controller
  <2>1. d.terminal \in SUBSET Nat /\ d.queue \in SUBSET QueueEntry
    BY <1>1, <1>2 DEF Controller, QueueEntry
  <2>. QED BY <1>1, <1>3, <2>1 DEF ExpireLocked, Controller
<1>5. LeasesOK(d)
  BY <1>1, <1>2 DEF LeasesOK, LeasesOn
<1>6. ReadyOK(d) /\ ReadyTickets(d) = ReadyTickets(c)
  BY <1>1, <1>2 DEF ReadyOK, ReadyLeases, ReadyTickets
<1>7. /\ QueuedTickets(d) \cup {e.id : e \in dead} = QueuedTickets(c)
      /\ QueuedTickets(d) \cap {e.id : e \in dead} = {}
  <2>1. UniqueIds(c.queue) /\ QueuedTickets(d) = {e.id : e \in c.queue \ dead}
    BY <1>1, <1>2 DEF QueuedTickets, QueueOK
  <2>2. \A e \in c.queue \ dead, f \in dead : e.id # f.id
    BY <2>1 DEF UniqueIds
  <2>. QED BY <2>1, <2>2 DEF QueuedTickets
<1>8. Tickets(d) = Tickets(c)
  BY <1>2, <1>6, <1>7 DEF Tickets
<1>9. IdsOK(d)
  BY <1>1, <1>2, <1>6, <1>7, <1>8 DEF IdsOK
<1>10. d.queue = {e \in c.queue : ~Expired(e, now)}
  BY <1>2
<1>. QED BY <1>2, <1>3, <1>4, <1>5, <1>6, <1>8, <1>9, <1>10 DEF WellFormed

-----------------------------------------------------------------------------
(* A queue with an entry has a front, and nothing is older than it.        *)
LEMMA FrontOfQueue ==
  ASSUME NEW c \in Controller, c.queue # {}
  PROVE  /\ Front(c) \in c.queue
         /\ \A f \in c.queue : Front(c).id <= f.id
<1> DEFINE I == {e.id : e \in c.queue}
<1>1. I \subseteq Nat /\ I # {}
  BY DEF Controller, QueueEntry
<1>2. \E x \in I : \A y \in I : ~(<<y, x>> \in OpToRel(<, Nat))
  <2> HIDE DEF I
  <2>. QED BY <1>1, NatLessThanWellFounded, WFMin, Zenon
<1>3. PICK x \in I : \A y \in I : ~(<<y, x>> \in OpToRel(<, Nat))
  BY <1>2
<1>4. ASSUME NEW y \in I PROVE x <= y
  <2>1. x \in Nat /\ y \in Nat
    BY <1>1
  <2>2. SUFFICES ASSUME y < x PROVE FALSE
    BY <2>1
  <2>3. <<y, x>> \in OpToRel(<, Nat)
    BY <2>1, <2>2 DEF OpToRel
  <2>. QED BY <1>3, <2>3
<1>5. \E e \in c.queue : \A f \in c.queue : e.id <= f.id
  BY <1>4
<1>. QED BY <1>5 DEF Front

-----------------------------------------------------------------------------
(* How promotions may change a controller: tickets and callers' leases     *)
(* stay, the tickets that become ready left the queue from its front, and  *)
(* their leases have new ids.                                              *)
Promotes(c, d) ==
  /\ Tickets(d) = Tickets(c)
  /\ d.active \ ReadyLeases(d) = c.active \ ReadyLeases(c)
  /\ d.queue \subseteq c.queue
  /\ c.ready \subseteq d.ready
  /\ \A l \in d.active \ c.active : l.id \in Nat /\ c.next_id <= l.id
  /\ d.terminal = c.terminal
  /\ c.next_id <= d.next_id
  /\ \A ticket \in ReadyTickets(d) \ ReadyTickets(c) :
       /\ ticket \in QueuedTickets(c)
       /\ \A older \in QueuedTickets(d) : older > ticket

LEMMA PromotesReflexive ==
  ASSUME NEW c \in Controller PROVE Promotes(c, c)
BY DEF Promotes, Controller

LEMMA PromotesTransitive ==
  ASSUME NEW a \in Controller, NEW b \in Controller, NEW d \in Controller,
         Promotes(a, b), Promotes(b, d)
  PROVE  Promotes(a, d)
<1>1. /\ QueuedTickets(d) \subseteq QueuedTickets(b)
      /\ QueuedTickets(b) \subseteq QueuedTickets(a)
  BY DEF Promotes, QueuedTickets
<1>2. ASSUME NEW ticket \in ReadyTickets(d) \ ReadyTickets(a)
      PROVE  /\ ticket \in QueuedTickets(a)
             /\ \A older \in QueuedTickets(d) : older > ticket
  BY <1>1, <1>2 DEF Promotes
<1>3. a.next_id <= d.next_id
  BY DEF Promotes, Controller
<1>4. ASSUME NEW l \in d.active \ a.active
      PROVE  l.id \in Nat /\ a.next_id <= l.id
  BY <1>4 DEF Promotes, Controller
<1>. QED BY <1>2, <1>3, <1>4 DEF Promotes

(* One grant of promote_locked, and so a whole run of its loop.            *)
LEMMA PromoteFrontOK ==
  ASSUME NEW c, WellFormed(c), NEW available \in Availability
  PROVE  LET d == PromoteFront(c, available)
         IN  WellFormed(d) /\ Promotes(c, d)
<1> DEFINE d == PromoteFront(c, available)
           e == Front(c)
           route == PromotionRoute(c, available)
           lease == NewLease(c, route, e.tokens)
           m == MakeLease(c, lease)
<1>1. c \in Controller /\ LeasesOK(c) /\ QueueOK(c) /\ ReadyOK(c) /\ IdsOK(c)
  BY DEF WellFormed
<1>2. CASE c.queue = {} \/ route = "none"
  <2>1. d = c
    BY <1>2 DEF PromoteFront
  <2>. QED BY <2>1, <1>1, PromotesReflexive
<1>3. CASE c.queue # {} /\ route # "none"
  <2>1. /\ e \in c.queue /\ (\A f \in c.queue : e.id <= f.id)
        /\ e \in QueueEntry /\ e.tokens \in Nat /\ e.id \in Nat
    BY <1>1, <1>3, FrontOfQueue DEF Controller, QueueEntry
  <2>2. route \in Routes /\ RouteFits(c, route, e.tokens)
    BY <1>3 DEF PromotionRoute, Routes
  <2>3. \A l \in c.active : l.id < c.next_id
    BY <1>1 DEF IdsOK, Controller, Lease
  <2>4. /\ m \in Controller /\ LeasesOK(m) /\ lease \in Lease
        /\ lease \notin c.active /\ m.active = c.active \cup {lease}
        /\ m.next_id = c.next_id + 1 /\ lease.id = c.next_id
    BY <1>1, <2>1, <2>2, <2>3, MakeLeaseOK
  <2>5. d = [m EXCEPT !.queue = @ \ {e},
                      !.queue_tokens = @ - e.tokens,
                      !.ready = @ \cup {[ticket |-> e.id, lease |-> lease]}]
    BY <1>3 DEF PromoteFront
  <2>6. /\ m.queue = c.queue /\ m.queue_tokens = c.queue_tokens
        /\ m.ready = c.ready /\ m.terminal = c.terminal
        /\ m.max_requests = c.max_requests /\ m.max_tokens = c.max_tokens
    BY <1>1 DEF MakeLease, Controller
  <2> DEFINE g == [ticket |-> e.id, lease |-> lease]
  <2>7. /\ d.queue = c.queue \ {e} /\ d.queue_tokens = c.queue_tokens - e.tokens
        /\ d.ready = c.ready \cup {g} /\ d.terminal = c.terminal
        /\ d.active = c.active \cup {lease}
        /\ d.active_tokens = m.active_tokens
        /\ d.next_id = c.next_id + 1
        /\ d.max_requests = c.max_requests /\ d.max_tokens = c.max_tokens
    BY <2>4, <2>5, <2>6 DEF Controller
  <2>8. g \in ReadyEntry
    BY <2>1, <2>4 DEF ReadyEntry
  <2>9. QueueOK(d) /\ d.queue_tokens \in Nat
    <3>1. {e} \in SUBSET c.queue /\ TokensOf({e}) = e.tokens
      BY <2>1, TokensOfOne
    <3>2. d.queue_tokens = c.queue_tokens - TokensOf({e})
      BY <2>7, <3>1
    <3> HIDE DEF d, e
    <3>. QED BY <1>1, <2>7, <3>1, <3>2, DequeueOK
  <2>10. d \in Controller
    <3>1. d.queue \in SUBSET QueueEntry /\ d.ready \in SUBSET ReadyEntry
      BY <1>1, <2>7, <2>8 DEF Controller
    <3>. QED BY <2>4, <2>5, <2>9, <3>1 DEF Controller
  <2>11. LeasesOK(d)
    BY <2>4, <2>7 DEF LeasesOK, LeasesOn
  <2> HIDE DEF d, e, route, lease, m
  <2>12. /\ QueuedTickets(d) = QueuedTickets(c) \ {e.id}
         /\ e.id \in QueuedTickets(c)
         /\ ReadyTickets(d) = ReadyTickets(c) \cup {e.id}
         /\ ReadyLeases(d) = ReadyLeases(c) \cup {lease}
    <3>1. UniqueIds(c.queue)
      BY <1>1 DEF QueueOK
    <3>2. QueuedTickets(d) = QueuedTickets(c) \ {e.id}
      BY <2>1, <2>7, <3>1 DEF QueuedTickets, UniqueIds
    <3>3. e.id \in QueuedTickets(c)
      BY <2>1 DEF QueuedTickets
    <3>4. g.ticket = e.id /\ g.lease = lease
      OBVIOUS
    <3> HIDE DEF g
    <3>5. ReadyTickets(d) = ReadyTickets(c) \cup {e.id}
      BY <2>7, <3>4 DEF ReadyTickets
    <3>6. ReadyLeases(d) = ReadyLeases(c) \cup {lease}
      BY <2>7, <3>4 DEF ReadyLeases
    <3>. QED BY <3>2, <3>3, <3>5, <3>6
  <2>13. Tickets(d) = Tickets(c)
    BY <2>7, <2>12 DEF Tickets
  <2>14. IdsOK(d)
    <3>1. e.id \notin ReadyTickets(c) /\ e.id \notin c.terminal
      BY <1>1, <2>12 DEF IdsOK
    <3>2. c.next_id \in Nat /\ lease.id \in 1..(d.next_id - 1)
      <4>1. e.id \in 1..(c.next_id - 1)
        BY <1>1, <2>12 DEF IdsOK, Tickets
      <4>2. c.next_id \in Nat
        BY <1>1 DEF Controller
      <4>. QED BY <4>1, <4>2, <2>4, <2>7
    <3>3. lease.id \notin Tickets(c)
      BY <1>1, <2>4, <3>2 DEF IdsOK
    <3>4. \A i \in 1..(c.next_id - 1) : i \in 1..(d.next_id - 1)
      BY <2>7, <3>2
    <3>. QED BY <1>1, <2>7, <2>12, <2>13, <3>1, <3>2, <3>3, <3>4 DEF IdsOK
  <2>15. ReadyOK(d)
    <3>1. \A h \in c.ready : h.ticket # e.id /\ h.lease # lease
      BY <1>1, <2>4, <2>12 DEF IdsOK, ReadyOK, ReadyTickets, ReadyLeases
    <3>. QED BY <1>1, <2>7, <2>12, <3>1 DEF ReadyOK
  <2>16. Promotes(c, d)
    <3>1. d.active \ ReadyLeases(d) = c.active \ ReadyLeases(c)
      BY <2>4, <2>7, <2>12
    <3>2. \A older \in QueuedTickets(d) : older > e.id
      <4>1. \A f \in d.queue : f.id \in Nat /\ e.id <= f.id /\ f.id # e.id
        BY <1>1, <2>1, <2>7 DEF Controller, QueueEntry, QueueOK, UniqueIds
      <4>. QED BY <2>1, <4>1 DEF QueuedTickets
    <3>3. c.next_id <= d.next_id
      BY <1>1, <2>7 DEF Controller
    <3>4. \A l \in d.active \ c.active : l.id \in Nat /\ c.next_id <= l.id
      BY <1>1, <2>4, <2>7 DEF Controller
    <3>. QED BY <2>7, <2>12, <2>13, <3>1, <3>2, <3>3, <3>4 DEF Promotes
  <2>. QED BY <2>9, <2>10, <2>11, <2>14, <2>15, <2>16 DEF WellFormed, d
<1>. QED BY <1>2, <1>3

(* The loop of promote_locked has nothing left to do.                      *)
Stuck(c, available) ==
  c.queue = {} \/ PromotionRoute(c, available) = "none"

LEMMA PromoteFrontShrinks ==
  ASSUME NEW c, WellFormed(c), NEW available
  PROVE  LET d == PromoteFront(c, available)
         IN  /\ Stuck(c, available) => d = c
             /\ ~Stuck(c, available) =>
                  Cardinality(d.queue) = Cardinality(c.queue) - 1
<1>1. ASSUME Stuck(c, available) PROVE PromoteFront(c, available) = c
  BY <1>1 DEF Stuck, PromoteFront
<1>2. ASSUME ~Stuck(c, available)
      PROVE  Cardinality(PromoteFront(c, available).queue) = Cardinality(c.queue) - 1
  <2> DEFINE e == Front(c)
  <2>1. c \in Controller /\ QueueOK(c) /\ c.queue # {}
    BY <1>2 DEF WellFormed, Stuck
  <2>2. e \in c.queue
    BY <2>1, FrontOfQueue
  <2>3. \E lease : PromoteFront(c, available) =
                     [MakeLease(c, lease) EXCEPT
                        !.queue = @ \ {e}, !.queue_tokens = @ - e.tokens,
                        !.ready = @ \cup {[ticket |-> e.id, lease |-> lease]}]
    BY <1>2 DEF Stuck, PromoteFront
  <2> HIDE DEF e
  <2>4. PromoteFront(c, available).queue = c.queue \ {e}
    BY <2>1, <2>3 DEF MakeLease, Controller
  <2>5. IsFiniteSet(c.queue)
    BY <2>1 DEF QueueOK
  <2>. QED BY <2>2, <2>4, <2>5, FS_RemoveElement
<1>. QED BY <1>1, <1>2

LEMMA PromoteLockedOK ==
  ASSUME NEW c, WellFormed(c), NEW available \in Availability
  PROVE  LET d == PromoteLocked(c, available)
         IN  WellFormed(d) /\ Promotes(c, d) /\ Stuck(d, available)
<1> DEFINE N == Cardinality(c.queue)
           IsRun(g, n) == g = [k \in 0..n |->
                                 IF k = 0 THEN c
                                 ELSE PromoteFront(g[k - 1], available)]
           S == {n \in Nat : \E g : IsRun(g, n)}
<1>1. N \in Nat /\ c \in Controller
  BY FS_CardinalityType DEF WellFormed, QueueOK
<1>2. Nat \subseteq S
  <2>1. 0 \in S
    <3>1. IsRun([k \in 0..0 |-> c], 0)
      OBVIOUS
    <3>. QED BY <3>1
  <2>2. ASSUME NEW n \in Nat, n \in S PROVE n + 1 \in S
    <3>1. PICK g : IsRun(g, n)
      BY <2>2
    <3> DEFINE h == [k \in 0..(n + 1) |->
                       IF k = n + 1 THEN PromoteFront(g[n], available)
                       ELSE g[k]]
    <3>2. ASSUME NEW k \in 0..(n + 1)
          PROVE  h[k] = IF k = 0 THEN c ELSE PromoteFront(h[k - 1], available)
      <4>1. CASE k = 0
        BY <3>1, <4>1
      <4>2. CASE k = n + 1
        <5>1. h[k] = PromoteFront(g[n], available)
          BY <4>2
        <5>2. h[k - 1] = g[n]
          BY <4>2
        <5>. QED BY <4>2, <5>1, <5>2
      <4>3. CASE k # 0 /\ k # n + 1
        <5>1. k \in 0..n /\ h[k] = g[k] /\ h[k - 1] = g[k - 1]
          BY <4>3
        <5>2. g[k] = PromoteFront(g[k - 1], available)
          BY <3>1, <4>3, <5>1
        <5>. QED BY <4>3, <5>1, <5>2
      <4>. QED BY <4>1, <4>2, <4>3
    <3>3. IsRun(h, n + 1)
      BY <3>2
    <3> HIDE DEF h, IsRun
    <3>4. n + 1 \in Nat /\ \E f : IsRun(f, n + 1)
      BY <3>3
    <3>. QED BY <3>4
  <2> HIDE DEF S
  <2>. QED BY <2>1, <2>2, NatSetInduction
<1>3. \E g : IsRun(g, N)
  BY <1>1, <1>2
<1> DEFINE run == CHOOSE g : IsRun(g, N)
<1>4. IsRun(run, N)
  BY <1>3
<1>5. PromoteLocked(c, available) = run[N]
  BY DEF PromoteLocked
<1> HIDE DEF run
<1>6. run[0] = c
  BY <1>1, <1>4
<1>7. \A k \in 1..N : run[k] = PromoteFront(run[k - 1], available)
  BY <1>1, <1>4
<1> DEFINE Moved(n) == \/ Stuck(run[n], available)
                       \/ Cardinality(run[n].queue) = N - n
           T == {n \in Nat : n <= N =>
                   WellFormed(run[n]) /\ Promotes(c, run[n]) /\ Moved(n)}
<1>8. Nat \subseteq T
  <2>1. 0 \in T
    <3>1. WellFormed(run[0]) /\ Promotes(c, run[0])
      BY <1>1, <1>6, PromotesReflexive
    <3>2. Cardinality(run[0].queue) = N - 0
      BY <1>1, <1>6
    <3>. QED BY <3>1, <3>2
  <2>2. ASSUME NEW n \in Nat, n \in T, n + 1 <= N
        PROVE  WellFormed(run[n + 1]) /\ Promotes(c, run[n + 1]) /\ Moved(n + 1)
    <3>1. WellFormed(run[n]) /\ Promotes(c, run[n]) /\ Moved(n)
      BY <1>1, <2>2
    <3>2. run[n + 1] = PromoteFront(run[n], available)
      BY <1>1, <1>7, <2>2
    <3>3. WellFormed(run[n + 1]) /\ Promotes(run[n], run[n + 1])
      BY <3>1, <3>2, PromoteFrontOK
    <3>4. Promotes(c, run[n + 1])
      BY <1>1, <3>1, <3>3, PromotesTransitive DEF WellFormed
    <3> HIDE DEF N
    <3>5. CASE Stuck(run[n], available)
      <4>1. run[n + 1] = run[n]
        BY <3>1, <3>2, <3>5, PromoteFrontShrinks
      <4>. QED BY <3>3, <3>4, <3>5, <4>1
    <3>6. CASE ~Stuck(run[n], available)
      <4>1. Cardinality(run[n + 1].queue) = Cardinality(run[n].queue) - 1
        BY <3>1, <3>2, <3>6, PromoteFrontShrinks
      <4>2. Cardinality(run[n].queue) = N - n
        BY <3>1, <3>6
      <4>3. Cardinality(run[n + 1].queue) = N - (n + 1)
        BY <1>1, <2>2, <4>1, <4>2
      <4>. QED BY <3>3, <3>4, <4>3
    <3>. QED BY <3>5, <3>6
  <2> HIDE DEF N
  <2>3. \A n \in Nat : n \in T => n + 1 \in T
    BY <2>2
  <2> HIDE DEF T
  <2>. QED BY <2>1, <2>3, NatSetInduction
<1>9. WellFormed(run[N]) /\ Promotes(c, run[N]) /\ Moved(N)
  BY <1>1, <1>8
<1>10. Stuck(run[N], available)
  <2>1. CASE Cardinality(run[N].queue) = 0
    <3>1. IsFiniteSet(run[N].queue)
      BY <1>9 DEF WellFormed, QueueOK
    <3>2. run[N].queue = {}
      BY <2>1, <3>1, FS_EmptySet
    <3>. QED BY <3>2 DEF Stuck
  <2>2. Cardinality(run[N].queue) = 0 \/ Stuck(run[N], available)
    <3> HIDE DEF N
    <3>. QED BY <1>1, <1>9
  <2>. QED BY <2>1, <2>2
<1>. QED BY <1>5, <1>9, <1>10

(* Every admission and every poll starts with this: expire, then promote.  *)
LEMMA RefreshOK ==
  ASSUME NEW c, WellFormed(c), NEW available \in Availability, NEW now \in Nat
  PROVE  LET d == Refresh(c, available, now)
         IN  /\ WellFormed(d)
             /\ Promotes(ExpireLocked(c, now), d)
             /\ Tickets(d) = Tickets(c)
             /\ d.active \ ReadyLeases(d) = c.active \ ReadyLeases(c)
             /\ ReadyLeases(c) \subseteq ReadyLeases(d)
             /\ c.next_id <= d.next_id
             /\ Stuck(d, available)
<1> DEFINE b == ExpireLocked(c, now)
           d == Refresh(c, available, now)
<1>1. /\ WellFormed(b) /\ Tickets(b) = Tickets(c) /\ b.active = c.active
      /\ b.ready = c.ready /\ b.next_id = c.next_id
  BY ExpireLockedOK
<1>2. d = PromoteLocked(b, available)
  BY DEF Refresh
<1> HIDE DEF b, d
<1>3. WellFormed(d) /\ Promotes(b, d) /\ Stuck(d, available)
  BY <1>1, <1>2, PromoteLockedOK
<1>4. ReadyLeases(b) = ReadyLeases(c) /\ ReadyLeases(b) \subseteq ReadyLeases(d)
  BY <1>1, <1>3 DEF Promotes, ReadyLeases
<1>. QED BY <1>1, <1>3, <1>4 DEF Promotes, b, d

(* The leases that callers hold.                                           *)
CallersLeases(c) == c.active \ ReadyLeases(c)

(* What a caller may see of a refresh: tickets are refused or promised new *)
(* leases from the front of the queue, and everything else is as it was.   *)
Settles(c, d) ==
  /\ c.next_id <= d.next_id
  /\ Tickets(d) = Tickets(c)
  /\ CallersLeases(d) = CallersLeases(c)
  /\ QueuedTickets(d) \subseteq QueuedTickets(c)
  /\ c.ready \subseteq d.ready
  /\ c.terminal \subseteq d.terminal
  /\ d.terminal \ c.terminal \subseteq QueuedTickets(c)
  /\ \A g \in d.ready \ c.ready :
       /\ g.ticket \in QueuedTickets(c)
       /\ g.lease.id \in c.next_id..(d.next_id - 1)
       /\ \A behind \in QueuedTickets(d) : g.ticket < behind

LEMMA RefreshSettles ==
  ASSUME NEW c, WellFormed(c), NEW available \in Availability, NEW now \in Nat
  PROVE  Settles(c, Refresh(c, available, now))
<1> DEFINE b == ExpireLocked(c, now)
           d == Refresh(c, available, now)
<1>1. /\ WellFormed(b) /\ Tickets(b) = Tickets(c) /\ b.active = c.active
      /\ b.ready = c.ready /\ b.next_id = c.next_id
      /\ b.queue \subseteq c.queue
  BY ExpireLockedOK
<1>2. /\ WellFormed(d) /\ Promotes(b, d) /\ Tickets(d) = Tickets(c)
      /\ d.active \ ReadyLeases(d) = c.active \ ReadyLeases(c)
      /\ c.next_id <= d.next_id
  BY RefreshOK
<1>3. b.terminal = c.terminal \cup {e.id : e \in {f \in c.queue : Expired(f, now)}}
  BY DEF ExpireLocked, WellFormed, Controller
<1> HIDE DEF b, d
<1>4. /\ c \in Controller /\ ReadyOK(c) /\ d \in Controller /\ ReadyOK(d) /\ IdsOK(d)
      /\ IdsOK(b)
  BY <1>1, <1>2 DEF WellFormed
<1>5. QueuedTickets(d) \subseteq QueuedTickets(b) /\ QueuedTickets(b) \subseteq QueuedTickets(c)
  BY <1>1, <1>2 DEF Promotes, QueuedTickets
<1>6. d.terminal = b.terminal /\ c.ready \subseteq d.ready
  BY <1>1, <1>2 DEF Promotes
<1>7. c.terminal \subseteq d.terminal /\ d.terminal \ c.terminal \subseteq QueuedTickets(c)
  BY <1>3, <1>6 DEF QueuedTickets
<1>8. ASSUME NEW g \in d.ready \ c.ready
      PROVE  /\ g.ticket \in QueuedTickets(c)
             /\ g.lease.id \in c.next_id..(d.next_id - 1)
             /\ \A behind \in QueuedTickets(d) : g.ticket < behind
  <2>1. \A h \in c.ready : h.ticket # g.ticket /\ h.lease # g.lease
    BY <1>4, <1>6, <1>8 DEF ReadyOK
  <2>2. g.ticket \in ReadyTickets(d) \ ReadyTickets(b)
    BY <1>1, <2>1, <1>8 DEF ReadyTickets
  <2>3. /\ g.ticket \in QueuedTickets(b)
        /\ \A behind \in QueuedTickets(d) : behind > g.ticket
    BY <1>2, <2>2 DEF Promotes
  <2>4. g.lease \in ReadyLeases(d) /\ g.lease \notin ReadyLeases(c) /\ g.lease \in d.active
    BY <1>4, <1>8, <2>1 DEF ReadyOK, ReadyLeases
  <2>5. g.lease \notin c.active
    BY <1>2, <2>4
  <2>6. g.lease.id \in Nat /\ c.next_id <= g.lease.id
    BY <1>1, <1>2, <2>4, <2>5 DEF Promotes
  <2>7. g.lease.id \in 1..(d.next_id - 1)
    BY <1>4, <2>4 DEF IdsOK
  <2>8. c.next_id \in Nat /\ d.next_id \in Nat
    BY <1>4 DEF Controller
  <2>9. \A behind \in QueuedTickets(d) : behind \in Nat
    BY <1>4 DEF QueuedTickets, Controller, QueueEntry
  <2>10. g.ticket \in Nat
    BY <1>4, <1>8 DEF Controller, ReadyEntry
  <2>11. g.lease.id \in c.next_id..(d.next_id - 1)
    BY <2>6, <2>7, <2>8
  <2>12. \A behind \in QueuedTickets(d) : g.ticket < behind
    BY <2>3, <2>9, <2>10
  <2>. QED BY <1>5, <2>3, <2>11, <2>12
<1>. QED BY <1>2, <1>5, <1>6, <1>7, <1>8 DEF Settles, CallersLeases, d

-----------------------------------------------------------------------------
(* admit's push_back: the queue stays within both of its bounds.           *)
LEMMA EnqueueOK ==
  ASSUME NEW c, WellFormed(c), NEW tokens \in Nat, ~QueueFull(c, tokens),
         NEW deadline \in Nat, NEW allow_degrade \in BOOLEAN
  PROVE  LET d == Enqueue(c, tokens, deadline, allow_degrade)
         IN  /\ WellFormed(d)
             /\ Tickets(d) = Tickets(c) \cup {c.next_id}
             /\ QueuedTickets(d) = QueuedTickets(c) \cup {c.next_id}
             /\ d.active = c.active /\ d.ready = c.ready
<1> DEFINE d == Enqueue(c, tokens, deadline, allow_degrade)
           e == [id |-> c.next_id, tokens |-> tokens, deadline |-> deadline,
                 allow_degrade |-> allow_degrade]
<1>1. c \in Controller /\ LeasesOK(c) /\ QueueOK(c) /\ ReadyOK(c) /\ IdsOK(c)
  BY DEF WellFormed
<1>2. /\ e \in QueueEntry /\ e.id = c.next_id /\ e.tokens = tokens
      /\ c.next_id \in Nat
  BY <1>1 DEF QueueEntry, Controller
<1>3. /\ d.queue = c.queue \cup {e} /\ d.queue_tokens = c.queue_tokens + tokens
      /\ d.ready = c.ready /\ d.terminal = c.terminal /\ d.active = c.active
      /\ d.active_tokens = c.active_tokens /\ d.next_id = c.next_id + 1
      /\ d.max_requests = LargerOf(c.max_requests, Cardinality(c.queue) + 1)
      /\ d.max_tokens = LargerOf(c.max_tokens, c.queue_tokens + tokens)
  BY <1>1 DEF Enqueue, Controller
<1>4. Cardinality(c.queue) \in Nat
  BY <1>1, FS_CardinalityType DEF QueueOK
<1>5. d \in Controller
  <2>1. /\ d.queue \in SUBSET QueueEntry /\ d.queue_tokens \in Nat
        /\ d.max_requests \in Nat /\ d.max_tokens \in Nat
        /\ d.next_id \in Nat \ {0}
    BY <1>1, <1>2, <1>3, <1>4 DEF Controller, LargerOf
  <2>. QED BY <1>1, <2>1 DEF Enqueue, Controller
<1>6. \A f \in c.queue : f.id # e.id
  BY <1>1, <1>2 DEF IdsOK, Tickets, QueuedTickets
<1>7. QueueOK(d)
  <2> HIDE DEF d, e
  <2>1. /\ IsFiniteSet(c.queue \cup {e})
        /\ Cardinality(c.queue \cup {e}) = Cardinality(c.queue) + 1
    BY <1>1, <1>6, FS_AddElement DEF QueueOK
  <2>2. IsFiniteSet(Units({e})) /\ TokensOf({e}) = tokens
    BY <1>2, TokensOfOne
  <2>3. \A s \in c.queue : \A t \in {e} : s.id # t.id
    BY <1>6
  <2>4. IsFiniteSet(Units(c.queue)) /\ c.queue_tokens = TokensOf(c.queue)
    BY <1>1 DEF QueueOK
  <2>5. /\ IsFiniteSet(Units(c.queue \cup {e}))
        /\ TokensOf(c.queue \cup {e}) = TokensOf(c.queue) + TokensOf({e})
    BY <2>2, <2>3, <2>4, TokensOfUnion
  <2>6. UniqueIds(d.queue)
    BY <1>1, <1>3, <1>6 DEF QueueOK, UniqueIds
  <2>7. d.queue_tokens = TokensOf(d.queue)
    BY <1>3, <2>2, <2>4, <2>5
  <2>8. /\ c.queue_tokens \in Nat /\ c.max_tokens \in Nat
        /\ c.max_requests \in Nat /\ c.max_tokens <= MaxQueueTokens
        /\ c.max_requests <= MaxQueueRequests
        /\ MaxQueueTokens \in Nat /\ MaxQueueRequests \in Nat
    BY <1>1, AdmissionConfig DEF QueueOK, Controller
  <2>9. /\ Cardinality(c.queue) < MaxQueueRequests
        /\ c.queue_tokens + tokens <= MaxQueueTokens
    BY <1>4, <2>8 DEF QueueFull
  <2>10. d.queue_tokens <= d.max_tokens /\ d.max_tokens <= MaxQueueTokens
    BY <1>3, <2>8, <2>9 DEF LargerOf
  <2>11. /\ Cardinality(d.queue) <= d.max_requests
         /\ d.max_requests <= MaxQueueRequests
    BY <1>3, <1>4, <2>1, <2>8, <2>9 DEF LargerOf
  <2>. QED BY <1>3, <2>1, <2>5, <2>6, <2>7, <2>10, <2>11 DEF QueueOK
<1>8. QueuedTickets(d) = QueuedTickets(c) \cup {c.next_id}
  <2> HIDE DEF d, e
  <2>. QED BY <1>2, <1>3 DEF QueuedTickets
<1> HIDE DEF d, e
<1>9. LeasesOK(d) /\ ReadyOK(d) /\ ReadyTickets(d) = ReadyTickets(c)
  BY <1>1, <1>3 DEF LeasesOK, LeasesOn, ReadyOK, ReadyLeases, ReadyTickets
<1>10. Tickets(d) = Tickets(c) \cup {c.next_id}
  BY <1>3, <1>8, <1>9 DEF Tickets
<1>11. IdsOK(d)
  <2>1. \A i \in 1..(c.next_id - 1) : i \in 1..(d.next_id - 1) /\ i # c.next_id
    BY <1>2, <1>3
  <2>2. c.next_id \in 1..(d.next_id - 1)
    <3>1. c.next_id # 0
      BY <1>1 DEF Controller
    <3>. QED BY <1>2, <1>3, <3>1
  <2>3. c.next_id \notin Tickets(c)
    BY <1>1, <2>1 DEF IdsOK
  <2>4. c.next_id \notin ReadyTickets(c) /\ c.next_id \notin c.terminal
    BY <2>3 DEF Tickets
  <2>. QED BY <1>1, <1>3, <1>8, <1>9, <1>10, <2>1, <2>2, <2>3, <2>4 DEF IdsOK
<1>. QED BY <1>3, <1>5, <1>7, <1>8, <1>9, <1>10, <1>11 DEF WellFormed, d

-----------------------------------------------------------------------------
(* The order in which grants are made.                                     *)
GrantsInOrder(c, d, now) ==
  \A ticket \in ReadyTickets(d) \ ReadyTickets(c) :
    /\ ticket \in QueuedTickets(ExpireLocked(c, now))
    /\ \A older \in QueuedTickets(d) : older > ticket

LEMMA RefreshGrantsInOrder ==
  ASSUME NEW c, WellFormed(c), NEW available \in Availability, NEW now \in Nat
  PROVE  GrantsInOrder(c, Refresh(c, available, now), now)
<1> DEFINE b == ExpireLocked(c, now)
           d == Refresh(c, available, now)
<1>1. b.ready = c.ready /\ Promotes(b, d)
  BY ExpireLockedOK, RefreshOK
<1>2. ReadyTickets(b) = ReadyTickets(c)
  BY <1>1 DEF ReadyTickets
<1>. QED BY <1>1, <1>2 DEF Promotes, GrantsInOrder

LEMMA TotalTokensType ==
  ASSUME NEW cost, cost.prompt_tokens \in 0..MaxUInt64,
         cost.output_tokens \in 0..MaxUInt64
  PROVE  /\ TotalTokens(cost) \in 0..MaxUInt64
         /\ cost.prompt_tokens <= TotalTokens(cost)
         /\ cost.output_tokens <= TotalTokens(cost)
BY AdmissionConfig DEF TotalTokens, SaturatingAdd

(* admit: the request gets a lease that fits, or one ticket, or neither.   *)
LEMMA AdmitOK ==
  ASSUME NEW c, WellFormed(c), NEW cost, cost.prompt_tokens \in 0..MaxUInt64,
         cost.output_tokens \in 0..MaxUInt64, NEW deadline \in Nat,
         NEW allow_degrade \in BOOLEAN, NEW available \in Availability,
         NEW now \in Nat
  PROVE  LET a == Admit(c, cost, deadline, allow_degrade, available, now)
         IN  /\ WellFormed(a.ctl)
             /\ Tickets(a.ctl) = Tickets(c) \cup a.ticket
             /\ CallersLeases(a.ctl) = CallersLeases(c) \cup a.lease
             /\ GrantsInOrder(c, a.ctl, now)
<1> DEFINE b == Refresh(c, available, now)
           tokens == TotalTokens(cost)
           decision == Decide(b, tokens, deadline, allow_degrade, available, now)
           lease == NewLease(b, decision, tokens)
           a == Admit(c, cost, deadline, allow_degrade, available, now)
<1>1. /\ WellFormed(b) /\ Tickets(b) = Tickets(c)
      /\ CallersLeases(b) = CallersLeases(c) /\ GrantsInOrder(c, b, now)
  BY RefreshOK, RefreshGrantsInOrder DEF CallersLeases
<1>2. tokens \in Nat
  BY TotalTokensType, AdmissionConfig
<1>3. a = IF decision \in Routes
          THEN Answer(MakeLease(b, lease), "admitted", {lease}, {})
          ELSE IF decision = "queued"
          THEN Answer(Enqueue(b, tokens, deadline, allow_degrade), "queued", {},
                      {b.next_id})
          ELSE Answer(b, decision, {}, {})
  BY DEF Admit
<1>4. decision \in Routes => RouteFits(b, decision, tokens)
  <2> HIDE DEF b, tokens
  <2>. QED BY DEF Decide, Degrades, PrimaryFits, Routes
<1>5. decision = "queued" => ~QueueFull(b, tokens)
  <2> HIDE DEF b, tokens
  <2>. QED BY DEF Decide
<1> HIDE DEF b, tokens, decision, a
<1>6. /\ b \in Controller /\ LeasesOK(b) /\ QueueOK(b) /\ ReadyOK(b)
      /\ IdsOK(b) /\ b.next_id \in Nat \ {0}
  BY <1>1 DEF WellFormed, Controller
<1>7. CASE decision \in Routes
  <2> DEFINE d == MakeLease(b, lease)
  <2>1. a.ctl = d /\ a.lease = {lease} /\ a.ticket = {}
    BY <1>3, <1>7 DEF Answer
  <2>2. \A l \in b.active : l.id < b.next_id
    BY <1>6 DEF IdsOK, Controller, Lease
  <2>3. /\ d \in Controller /\ LeasesOK(d) /\ lease \in Lease
        /\ lease \notin b.active /\ d.active = b.active \cup {lease}
        /\ d.next_id = b.next_id + 1 /\ lease.id = b.next_id
    BY <1>2, <1>4, <1>6, <1>7, <2>2, MakeLeaseOK
  <2>4. /\ d.queue = b.queue /\ d.queue_tokens = b.queue_tokens
        /\ d.ready = b.ready /\ d.terminal = b.terminal
        /\ d.max_requests = b.max_requests /\ d.max_tokens = b.max_tokens
    BY <1>6 DEF MakeLease, Controller
  <2> HIDE DEF d, lease
  <2>5. /\ QueueOK(d) /\ ReadyTickets(d) = ReadyTickets(b)
        /\ QueuedTickets(d) = QueuedTickets(b)
        /\ ReadyLeases(d) = ReadyLeases(b) /\ Tickets(d) = Tickets(b)
    BY <1>6, <2>4 DEF QueueOK, ReadyTickets, QueuedTickets, ReadyLeases, Tickets
  <2>6. ReadyOK(d) /\ lease \notin ReadyLeases(b)
    BY <1>6, <2>3, <2>4, <2>5 DEF ReadyOK
  <2>7. IdsOK(d)
    <3>1. \A i \in 1..(b.next_id - 1) : i \in 1..(d.next_id - 1) /\ i # b.next_id
      BY <1>6, <2>3
    <3>2. b.next_id \in 1..(d.next_id - 1)
      BY <1>6, <2>3
    <3>3. lease.id \notin Tickets(b)
      BY <1>6, <2>3, <3>1 DEF IdsOK
    <3>. QED BY <1>6, <2>3, <2>4, <2>5, <3>1, <3>2, <3>3 DEF IdsOK
  <2>8. CallersLeases(d) = CallersLeases(b) \cup {lease}
    BY <2>3, <2>5, <2>6 DEF CallersLeases
  <2>9. GrantsInOrder(c, d, now)
    BY <1>1, <2>5 DEF GrantsInOrder
  <2>. QED BY <1>1, <2>1, <2>3, <2>5, <2>6, <2>7, <2>8, <2>9 DEF WellFormed, a
<1>8. CASE decision \notin Routes /\ decision = "queued"
  <2> DEFINE d == Enqueue(b, tokens, deadline, allow_degrade)
  <2>1. a.ctl = d /\ a.lease = {} /\ a.ticket = {b.next_id}
    BY <1>3, <1>8 DEF Answer
  <2>2. /\ WellFormed(d) /\ Tickets(d) = Tickets(b) \cup {b.next_id}
        /\ QueuedTickets(d) = QueuedTickets(b) \cup {b.next_id}
        /\ d.active = b.active /\ d.ready = b.ready
    BY <1>1, <1>2, <1>5, <1>8, EnqueueOK
  <2> HIDE DEF d
  <2>3. ReadyTickets(d) = ReadyTickets(b) /\ CallersLeases(d) = CallersLeases(b)
    BY <2>2 DEF ReadyTickets, CallersLeases, ReadyLeases
  <2>4. \A ticket \in ReadyTickets(b) : b.next_id > ticket
    BY <1>6 DEF IdsOK, Tickets
  <2>5. GrantsInOrder(c, d, now)
    BY <1>1, <2>2, <2>3, <2>4 DEF GrantsInOrder
  <2>. QED BY <1>1, <2>1, <2>2, <2>3, <2>5 DEF a
<1>9. CASE decision \notin Routes /\ decision # "queued"
  <2>1. a.ctl = b /\ a.lease = {} /\ a.ticket = {}
    BY <1>3, <1>9 DEF Answer
  <2>. QED BY <1>1, <2>1 DEF a
<1>. QED BY <1>7, <1>8, <1>9

(* poll: the answer takes the ticket with it, and a granted lease goes to  *)
(* the caller.                                                             *)
LEMMA PollOK ==
  ASSUME NEW c, WellFormed(c), NEW ticket, NEW available \in Availability,
         NEW now \in Nat
  PROVE  LET a == Poll(c, ticket, available, now)
         IN  /\ WellFormed(a.ctl)
             /\ Tickets(a.ctl) = IF a.kind = "queued" THEN Tickets(c)
                                 ELSE Tickets(c) \ {ticket}
             /\ CallersLeases(a.ctl) = CallersLeases(c) \cup a.lease
             /\ GrantsInOrder(c, a.ctl, now)
<1> DEFINE b == Refresh(c, available, now)
           granted == {g \in b.ready : g.ticket = ticket}
           d1 == [b EXCEPT !.ready = @ \ granted]
           d2 == [b EXCEPT !.terminal = @ \ {ticket}]
           a == Poll(c, ticket, available, now)
<1>1. /\ WellFormed(b) /\ Tickets(b) = Tickets(c)
      /\ CallersLeases(b) = CallersLeases(c) /\ GrantsInOrder(c, b, now)
  BY RefreshOK, RefreshGrantsInOrder DEF CallersLeases
<1>2. a = IF granted # {}
          THEN Answer(d1, "admitted", {g.lease : g \in granted}, {})
          ELSE IF ticket \in b.terminal
          THEN Answer(d2, "rejected_deadline", {}, {})
          ELSE IF ticket \in QueuedTickets(b)
          THEN Answer(b, "queued", {}, {ticket})
          ELSE Answer(b, "cancelled", {}, {})
  BY DEF Poll
<1> HIDE DEF b, a
<1>3. b \in Controller /\ LeasesOK(b) /\ QueueOK(b) /\ ReadyOK(b) /\ IdsOK(b)
  BY <1>1 DEF WellFormed
<1>4. CASE granted # {}
  <2>1. a.ctl = d1 /\ a.kind = "admitted" /\ a.lease = {g.lease : g \in granted}
    BY <1>2, <1>4 DEF Answer
  <2>2. /\ d1.ready = b.ready \ granted /\ d1.queue = b.queue
        /\ d1.terminal = b.terminal /\ d1.active = b.active
        /\ d1.next_id = b.next_id /\ d1.active_tokens = b.active_tokens
        /\ d1.queue_tokens = b.queue_tokens
        /\ d1.max_requests = b.max_requests /\ d1.max_tokens = b.max_tokens
        /\ d1 \in Controller
    BY <1>3 DEF Controller
  <2>3. ticket \in ReadyTickets(b) /\ granted \subseteq b.ready
    BY <1>4 DEF ReadyTickets
  <2>4. ReadyTickets(d1) = ReadyTickets(b) \ {ticket}
    BY <2>2 DEF ReadyTickets
  <2>5. ReadyLeases(d1) = ReadyLeases(b) \ a.lease /\ a.lease \subseteq b.active
    <3>1. \A g \in granted, h \in b.ready \ granted : g.lease # h.lease
      BY <1>3 DEF ReadyOK
    <3>2. ReadyLeases(b) \subseteq b.active
      BY <1>3 DEF ReadyOK
    <3> HIDE DEF d1
    <3>. QED BY <2>1, <2>2, <2>3, <3>1, <3>2 DEF ReadyLeases
  <2> HIDE DEF d1, granted
  <2>6. /\ QueuedTickets(d1) = QueuedTickets(b)
        /\ Tickets(d1) = Tickets(b) \ {ticket}
    <3>1. QueuedTickets(d1) = QueuedTickets(b)
      BY <2>2 DEF QueuedTickets
    <3>2. ticket \notin QueuedTickets(b) /\ ticket \notin b.terminal
      BY <1>3, <2>3 DEF IdsOK
    <3>. QED BY <2>2, <2>4, <3>1, <3>2 DEF Tickets
  <2>7. LeasesOK(d1) /\ QueueOK(d1)
    BY <1>3, <2>2 DEF LeasesOK, LeasesOn, QueueOK
  <2>8. ReadyOK(d1) /\ IdsOK(d1)
    BY <1>3, <2>2, <2>4, <2>5, <2>6 DEF ReadyOK, IdsOK
  <2>9. CallersLeases(d1) = CallersLeases(b) \cup a.lease
    BY <2>2, <2>5 DEF CallersLeases
  <2>10. GrantsInOrder(c, d1, now)
    BY <1>1, <2>4, <2>6 DEF GrantsInOrder
  <2>. QED BY <1>1, <2>1, <2>2, <2>6, <2>7, <2>8, <2>9, <2>10 DEF WellFormed, a
<1>5. CASE granted = {} /\ ticket \in b.terminal
  <2>1. a.ctl = d2 /\ a.kind = "rejected_deadline" /\ a.lease = {}
    BY <1>2, <1>5 DEF Answer
  <2>2. /\ d2.terminal = b.terminal \ {ticket} /\ d2.queue = b.queue
        /\ d2.ready = b.ready /\ d2.active = b.active
        /\ d2.next_id = b.next_id /\ d2.active_tokens = b.active_tokens
        /\ d2.queue_tokens = b.queue_tokens
        /\ d2.max_requests = b.max_requests /\ d2.max_tokens = b.max_tokens
        /\ d2 \in Controller
    BY <1>3 DEF Controller
  <2> HIDE DEF d2, granted
  <2>3. /\ QueuedTickets(d2) = QueuedTickets(b)
        /\ ReadyTickets(d2) = ReadyTickets(b)
        /\ ReadyLeases(d2) = ReadyLeases(b)
    BY <2>2 DEF QueuedTickets, ReadyTickets, ReadyLeases
  <2>4. Tickets(d2) = Tickets(b) \ {ticket}
    <3>1. ticket \notin QueuedTickets(b) /\ ticket \notin ReadyTickets(b)
      BY <1>3, <1>5 DEF IdsOK
    <3>. QED BY <2>2, <2>3, <3>1 DEF Tickets
  <2>5. LeasesOK(d2) /\ QueueOK(d2) /\ ReadyOK(d2) /\ IdsOK(d2)
    <3>1. LeasesOK(d2) /\ QueueOK(d2) /\ ReadyOK(d2)
      BY <1>3, <2>2, <2>3 DEF LeasesOK, LeasesOn, QueueOK, ReadyOK
    <3>2. IdsOK(d2)
      BY <1>3, <2>2, <2>3, <2>4 DEF IdsOK
    <3>. QED BY <3>1, <3>2
  <2>6. CallersLeases(d2) = CallersLeases(b) /\ GrantsInOrder(c, d2, now)
    BY <1>1, <2>2, <2>3 DEF CallersLeases, GrantsInOrder
  <2>. QED BY <1>1, <2>1, <2>2, <2>4, <2>5, <2>6 DEF WellFormed, a
<1>6. CASE granted = {} /\ ticket \notin b.terminal
  <2>1. a.ctl = b /\ a.lease = {}
    BY <1>2, <1>6 DEF Answer
  <2>2. a.kind # "queued" => ticket \notin Tickets(b)
    BY <1>2, <1>6 DEF Answer, Tickets, ReadyTickets
  <2>. QED BY <1>1, <2>1, <2>2 DEF a
<1>. QED BY <1>4, <1>5, <1>6

(* cancel: the ticket is gone, and with it the lease it had been granted.  *)
LEMMA CancelOK ==
  ASSUME NEW c, WellFormed(c), NEW ticket
  PROVE  LET d == Cancel(c, ticket)
         IN  /\ WellFormed(d)
             /\ Tickets(d) = Tickets(c) \ {ticket}
             /\ CallersLeases(d) = CallersLeases(c)
             /\ ReadyTickets(d) \subseteq ReadyTickets(c)
<1> DEFINE queued == {e \in c.queue : e.id = ticket}
           granted == {g \in c.ready : g.ticket = ticket}
           d == Cancel(c, ticket)
<1>1. c \in Controller /\ LeasesOK(c) /\ QueueOK(c) /\ ReadyOK(c) /\ IdsOK(c)
  BY DEF WellFormed
<1>2. CASE queued # {}
  <2>1. d = [c EXCEPT !.queue = @ \ queued,
                      !.queue_tokens = @ - TokensOf(queued),
                      !.terminal = @ \ {ticket}]
    BY <1>2 DEF Cancel
  <2>2. /\ d.queue = c.queue \ queued
        /\ d.queue_tokens = c.queue_tokens - TokensOf(queued)
        /\ d.terminal = c.terminal \ {ticket} /\ d.ready = c.ready
        /\ d.active = c.active /\ d.active_tokens = c.active_tokens
        /\ d.next_id = c.next_id
        /\ d.max_requests = c.max_requests /\ d.max_tokens = c.max_tokens
    BY <1>1, <2>1 DEF Controller
  <2>3. queued \in SUBSET c.queue /\ ticket \in QueuedTickets(c)
    BY <1>2 DEF QueuedTickets
  <2>4. QueuedTickets(d) = QueuedTickets(c) \ {ticket}
    BY <2>2 DEF QueuedTickets
  <2> HIDE DEF d, queued
  <2>5. QueueOK(d) /\ d.queue_tokens \in Nat
    BY <1>1, <2>2, <2>3, DequeueOK
  <2>6. d \in Controller
    <3>1. d.queue \in SUBSET QueueEntry /\ d.terminal \in SUBSET Nat
      BY <1>1, <2>2, <2>3 DEF Controller
    <3>. QED BY <1>1, <2>1, <2>5, <3>1 DEF Controller
  <2>7. ReadyTickets(d) = ReadyTickets(c) /\ ReadyLeases(d) = ReadyLeases(c)
    BY <2>2 DEF ReadyTickets, ReadyLeases
  <2>8. Tickets(d) = Tickets(c) \ {ticket}
    <3>1. ticket \notin ReadyTickets(c)
      BY <1>1, <2>3 DEF IdsOK
    <3>. QED BY <2>2, <2>4, <2>7, <3>1 DEF Tickets
  <2>9. LeasesOK(d) /\ ReadyOK(d)
    BY <1>1, <2>2, <2>7 DEF LeasesOK, LeasesOn, ReadyOK
  <2>10. IdsOK(d)
    BY <1>1, <2>2, <2>4, <2>7, <2>8 DEF IdsOK
  <2>11. CallersLeases(d) = CallersLeases(c)
    BY <2>2, <2>7 DEF CallersLeases
  <2>. QED BY <2>5, <2>6, <2>7, <2>8, <2>9, <2>10, <2>11 DEF WellFormed, d
<1>3. CASE queued = {} /\ granted # {}
  <2> DEFINE g == CHOOSE g \in granted : TRUE
             r == ReleaseLease(c, g.lease)
  <2>1. d = [r EXCEPT !.ready = @ \ {g}]
    BY <1>3 DEF Cancel
  <2>2. g \in c.ready /\ g.ticket = ticket /\ g.lease \in c.active
    BY <1>1, <1>3 DEF ReadyOK, ReadyLeases
  <2> HIDE DEF g
  <2>3. r \in Controller /\ LeasesOK(r) /\ r.active = c.active \ {g.lease}
    BY <1>1, <2>2, ReleaseLeaseOK
  <2>4. /\ r.queue = c.queue /\ r.queue_tokens = c.queue_tokens
        /\ r.ready = c.ready /\ r.terminal = c.terminal
        /\ r.max_requests = c.max_requests /\ r.max_tokens = c.max_tokens
        /\ r.next_id = c.next_id
    BY <1>1 DEF ReleaseLease, Controller
  <2> HIDE DEF r
  <2>5. /\ d.queue = c.queue /\ d.queue_tokens = c.queue_tokens
        /\ d.ready = c.ready \ {g} /\ d.terminal = c.terminal
        /\ d.max_requests = c.max_requests /\ d.max_tokens = c.max_tokens
        /\ d.next_id = c.next_id /\ d.active = c.active \ {g.lease}
        /\ d.active_tokens = r.active_tokens
        /\ d \in Controller
    BY <2>1, <2>3, <2>4 DEF Controller
  <2> HIDE DEF d
  <2>6. \A h \in c.ready \ {g} : h.ticket # ticket /\ h.lease # g.lease
    BY <1>1, <2>2 DEF ReadyOK
  <2>7. /\ ReadyTickets(d) = ReadyTickets(c) \ {ticket}
        /\ ReadyLeases(d) = ReadyLeases(c) \ {g.lease}
        /\ QueuedTickets(d) = QueuedTickets(c)
        /\ ticket \in ReadyTickets(c) /\ g.lease \in ReadyLeases(c)
    BY <2>2, <2>5, <2>6 DEF ReadyTickets, ReadyLeases, QueuedTickets
  <2>8. Tickets(d) = Tickets(c) \ {ticket}
    <3>1. ticket \notin QueuedTickets(c) /\ ticket \notin c.terminal
      BY <1>1, <2>7 DEF IdsOK
    <3>. QED BY <2>5, <2>7, <3>1 DEF Tickets
  <2>9. LeasesOK(d) /\ QueueOK(d)
    BY <1>1, <2>3, <2>5 DEF LeasesOK, LeasesOn, QueueOK
  <2>10. ReadyOK(d)
    BY <1>1, <2>5, <2>7 DEF ReadyOK
  <2>11. IdsOK(d)
    BY <1>1, <2>5, <2>7, <2>8 DEF IdsOK
  <2>12. CallersLeases(d) = CallersLeases(c)
    BY <2>5, <2>7 DEF CallersLeases
  <2>. QED BY <2>5, <2>7, <2>8, <2>9, <2>10, <2>11, <2>12 DEF WellFormed, d
<1>4. CASE queued = {} /\ granted = {}
  <2>1. d = [c EXCEPT !.terminal = @ \ {ticket}]
    BY <1>4 DEF Cancel
  <2>2. /\ d.queue = c.queue /\ d.queue_tokens = c.queue_tokens
        /\ d.ready = c.ready /\ d.terminal = c.terminal \ {ticket}
        /\ d.max_requests = c.max_requests /\ d.max_tokens = c.max_tokens
        /\ d.next_id = c.next_id /\ d.active = c.active
        /\ d.active_tokens = c.active_tokens /\ d \in Controller
    BY <1>1, <2>1 DEF Controller
  <2>3. ticket \notin QueuedTickets(c) /\ ticket \notin ReadyTickets(c)
    BY <1>4 DEF QueuedTickets, ReadyTickets
  <2> HIDE DEF d, queued, granted
  <2>4. /\ ReadyTickets(d) = ReadyTickets(c) /\ ReadyLeases(d) = ReadyLeases(c)
        /\ QueuedTickets(d) = QueuedTickets(c)
    BY <2>2 DEF ReadyTickets, ReadyLeases, QueuedTickets
  <2>5. Tickets(d) = Tickets(c) \ {ticket}
    BY <2>2, <2>3, <2>4 DEF Tickets
  <2>6. LeasesOK(d) /\ QueueOK(d) /\ ReadyOK(d)
    BY <1>1, <2>2, <2>4 DEF LeasesOK, LeasesOn, QueueOK, ReadyOK
  <2>7. IdsOK(d)
    BY <1>1, <2>2, <2>4, <2>5 DEF IdsOK
  <2>8. CallersLeases(d) = CallersLeases(c)
    BY <2>2, <2>4 DEF CallersLeases
  <2>. QED BY <2>2, <2>4, <2>5, <2>6, <2>7, <2>8 DEF WellFormed, d
<1>. QED BY <1>2, <1>3, <1>4

(* complete: a lease that is still recorded gives its tokens back, and     *)
(* nothing else changes; an unknown lease is ignored.                      *)
LEMMA CompleteOK ==
  ASSUME NEW c, WellFormed(c), NEW id, NEW ewma \in Nat,
         id \notin {g.lease.id : g \in c.ready}
  PROVE  LET d == Complete(c, id, ewma)
         IN  /\ WellFormed(d)
             /\ Tickets(d) = Tickets(c)
             /\ CallersLeases(d) = {l \in CallersLeases(c) : l.id # id}
             /\ ReadyTickets(d) = ReadyTickets(c)
<1> DEFINE recorded == {l \in c.active : l.id = id}
           d == Complete(c, id, ewma)
<1>1. c \in Controller /\ LeasesOK(c) /\ QueueOK(c) /\ ReadyOK(c) /\ IdsOK(c)
  BY DEF WellFormed
<1>2. CASE recorded = {}
  <2>1. d = c
    BY <1>2 DEF Complete
  <2>2. \A l \in c.active : l.id # id
    BY <1>2
  <2>. QED BY <2>1, <2>2 DEF CallersLeases
<1>3. CASE recorded # {}
  <2> DEFINE lease == CHOOSE l \in recorded : TRUE
             r == ReleaseLease(c, lease)
  <2>1. d = [r EXCEPT !.ewma = ewma]
    BY <1>3 DEF Complete
  <2>2. lease \in c.active /\ lease.id = id
    BY <1>3
  <2> HIDE DEF lease
  <2>3. r \in Controller /\ LeasesOK(r) /\ r.active = c.active \ {lease}
    BY <1>1, <2>2, ReleaseLeaseOK
  <2>4. /\ r.queue = c.queue /\ r.queue_tokens = c.queue_tokens
        /\ r.ready = c.ready /\ r.terminal = c.terminal
        /\ r.max_requests = c.max_requests /\ r.max_tokens = c.max_tokens
        /\ r.next_id = c.next_id
    BY <1>1 DEF ReleaseLease, Controller
  <2> HIDE DEF r
  <2>5. /\ d.queue = c.queue /\ d.queue_tokens = c.queue_tokens
        /\ d.ready = c.ready /\ d.terminal = c.terminal
        /\ d.max_requests = c.max_requests /\ d.max_tokens = c.max_tokens
        /\ d.next_id = c.next_id /\ d.active = c.active \ {lease}
        /\ d.active_tokens = r.active_tokens
        /\ d \in Controller
    BY <2>1, <2>3, <2>4 DEF Controller
  <2>6. \A l \in c.active : l.id = id <=> l = lease
    BY <1>1, <2>2 DEF LeasesOK, UniqueIds
  <2>7. lease \notin ReadyLeases(c)
    BY <2>2 DEF ReadyLeases
  <2> HIDE DEF d
  <2>8. /\ ReadyTickets(d) = ReadyTickets(c) /\ ReadyLeases(d) = ReadyLeases(c)
        /\ QueuedTickets(d) = QueuedTickets(c)
    BY <2>5 DEF ReadyTickets, ReadyLeases, QueuedTickets
  <2>9. Tickets(d) = Tickets(c)
    BY <2>5, <2>8 DEF Tickets
  <2>10. LeasesOK(d) /\ QueueOK(d)
    BY <1>1, <2>3, <2>5 DEF LeasesOK, LeasesOn, QueueOK
  <2>11. ReadyOK(d)
    BY <1>1, <2>5, <2>7, <2>8 DEF ReadyOK
  <2>12. IdsOK(d)
    BY <1>1, <2>5, <2>8, <2>9 DEF IdsOK
  <2>13. CallersLeases(d) = {l \in CallersLeases(c) : l.id # id}
    BY <2>5, <2>6, <2>8 DEF CallersLeases
  <2>. QED BY <2>5, <2>8, <2>9, <2>10, <2>11, <2>12, <2>13 DEF WellFormed, d
<1>. QED BY <1>2, <1>3

(* The empty controller, and what WellFormed says of capacity.             *)
LEMMA InitControllerOK ==
  /\ WellFormed(InitController)
  /\ Tickets(InitController) = {} /\ CallersLeases(InitController) = {}
<1> DEFINE c == InitController
<1>1. /\ c.active = {} /\ c.queue = {} /\ c.ready = {} /\ c.terminal = {}
      /\ c.queue_tokens = 0 /\ c.max_requests = 0 /\ c.max_tokens = 0
      /\ c.active_tokens = [r \in Routes |-> 0] /\ c.next_id = 1
      /\ c \in Controller
  BY AdmissionConfig DEF InitController, Controller
<1> HIDE DEF c
<1>2. LeasesOK(c)
  <2>1. \A r \in Routes : LeasesOn(c, r) = {} /\ c.active_tokens[r] = 0
    BY <1>1 DEF LeasesOn
  <2>2. \A r \in Routes : 0 <= Capacity(r)
    BY AdmissionConfig DEF Capacity
  <2>3. \A r \in Routes : /\ IsFiniteSet(Units(LeasesOn(c, r)))
                          /\ TokensOf(LeasesOn(c, r)) = 0
    BY <2>1, TokensOfNone, Zenon
  <2>. QED BY <1>1, <2>1, <2>2, <2>3 DEF LeasesOK, UniqueIds
<1>3. QueueOK(c)
  <2>1. IsFiniteSet({}) /\ Cardinality({}) = 0
    BY FS_EmptySet
  <2>2. /\ IsFiniteSet(c.queue) /\ Cardinality(c.queue) = 0
        /\ IsFiniteSet(Units(c.queue)) /\ TokensOf(c.queue) = 0
    BY <1>1, <2>1, TokensOfNone, Zenon
  <2>. QED BY <1>1, <2>2, AdmissionConfig DEF QueueOK, UniqueIds
<1>4. ReadyOK(c) /\ IdsOK(c) /\ Tickets(c) = {} /\ CallersLeases(c) = {}
  BY <1>1 DEF ReadyOK, IdsOK, Tickets, CallersLeases, ReadyLeases,
              ReadyTickets, QueuedTickets
<1>. QED BY <1>1, <1>2, <1>3, <1>4 DEF WellFormed, c
=============================================================================
