----------------------------- MODULE TokenLedger -----------------------------
(***************************************************************************)
(* What the admission controller promises its callers, whatever it decides *)
(* by.  A ticket waits in line, is promised a lease or is refused, and is  *)
(* answered once; whoever is in line first is served first; a promise is   *)
(* kept until it is collected or withdrawn; a lease is out until it is     *)
(* returned; no id is ever used again.                                     *)
(***************************************************************************)
EXTENDS Naturals

CONSTANT Fits(_)   \* whether the routes can hold a set of leases

VARIABLES
  issued,    \* the last id given to a ticket or a lease
  line,      \* tickets in the order of their ids
  promised,  \* tickets with the leases that wait for them
  refused,   \* tickets that nothing waits for any more
  held       \* leases in the hands of callers

ledger == <<issued, line, promised, refused, held>>

PromisedTickets == {p.ticket : p \in promised}
Awaited == line \cup PromisedTickets \cup refused
Leased == held \cup {p.lease : p \in promised}

(* Every id means one ticket at one stage, or one lease in one place, and  *)
(* the leases fit.                                                         *)
Sound ==
  /\ line \cap PromisedTickets = {}
  /\ refused \cap (line \cup PromisedTickets) = {}
  /\ \A p, q \in promised : p.ticket = q.ticket \/ p.lease = q.lease => p = q
  /\ \A p \in promised : p.lease \notin held
  /\ \A l, m \in Leased : l.id = m.id => l = m
  /\ \A l \in Leased : l.id \in 1..issued /\ l.id \notin Awaited
  /\ Awaited \subseteq 1..issued
  /\ Fits(Leased)

Init == issued = 0 /\ line = {} /\ promised = {} /\ refused = {} /\ held = {}

New(id) == issued < id /\ id <= issued'

(* Being asked for an answer, the controller first settles its line: it    *)
(* refuses some, and promises new leases to the oldest that remain.        *)
(* Nobody else who waits is forgotten, and no promise is broken.           *)
Settle(answered) ==
  /\ issued <= issued'
  /\ Awaited \ answered \subseteq Awaited'
  /\ {p \in promised : p.ticket \notin answered} \subseteq promised'
  /\ refused \ answered \subseteq refused' /\ refused' \ refused \subseteq line
  /\ \A p \in promised' \ promised :
       /\ p.ticket \in line /\ New(p.lease.id)
       /\ \A behind \in line' : p.ticket < behind

Lend ==
  /\ \E l \in held' \ held : New(l.id) /\ held' = held \cup {l}
  /\ Settle({}) /\ line' \subseteq line

Enqueue ==
  /\ \E t \in line' : New(t) /\ line' \ {t} \subseteq line
  /\ Settle({}) /\ held' = held

(* Turned away, or told to ask again later.                                *)
Defer == held' = held /\ line' \subseteq line /\ Settle({})

(* A ticket is answered: it is refused, it collects the lease it was       *)
(* promised, or it is served at once because nobody is in line before it.  *)
Respond(t) ==
  /\ t \notin Awaited' /\ line' \subseteq line
  /\ \/ t \in line \cup refused /\ held' = held
     \/ \E p \in promised : p.ticket = t /\ held' = held \cup {p.lease}
     \/ /\ t \in line /\ \A behind \in line' : t < behind
        /\ \E l \in held' : New(l.id) /\ held' = held \cup {l}
  /\ Settle({t})

Withdraw(t) ==
  /\ line' = line \ {t}
  /\ promised' = {p \in promised : p.ticket # t}
  /\ refused' = refused \ {t}
  /\ UNCHANGED <<issued, held>>

Return(l) ==
  /\ held' = held \ {l}
  /\ UNCHANGED <<issued, line, promised, refused>>

Next ==
  \/ Lend \/ Enqueue \/ Defer
  \/ \E t \in Awaited : Respond(t) \/ Withdraw(t)
  \/ \E l \in held : Return(l)

Spec == Init /\ [][Next]_ledger /\ []Sound
=============================================================================
