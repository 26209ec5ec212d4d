---------------------------- MODULE Measurements ----------------------------
(* What one run of a benchmark stage yields and how finished stages are      *)
(* compared: bench/loadgen.py and runner.py (the serving sweeps), and        *)
(* gateway/bench/phase5_bench.py, phase7_1_bench.py, phase7_1_sustained.py.  *)
(* Latencies and counts are abstracted to what a later decision reads: which *)
(* offered rates were stable, whether other load was on the host, and how    *)
(* the requests ended.                                                       *)
EXTENDS Naturals, FiniteSetsExt

CONSTANTS
  Rates,       \* offered rates of the capacity stage, in ascending order
  Archived,    \* capacity in the archived finite receipt (sustained runs)
  ScheduleOf,  \* what the workload of a configuration says: requests and offsets
  MaxDelta,    \* max_upstream_5xx_rate_delta
  Endings      \* how the requests of a "matrix" and of a "burst" may end

(* How the requests of a cell ended.  upstream: the rate of 5xx answers, over
   the requests that the campaign's gate counts; errors: the rate of all errors
   but the gateway's own rejections; statuses: each request has a status;
   sound: overload was rejected as the gate demands.  A rate is a number of
   parts, as is MaxDelta.                                                    *)
Ending(upstream, errors, statuses, sound) ==
    [upstream |-> upstream, errors |-> errors, statuses |-> statuses, sound |-> sound]

Served == Ending(0, 0, TRUE, TRUE)

EndingType == [upstream: Nat, errors: Nat, statuses: BOOLEAN, sound: BOOLEAN]

ASSUME RatesAssumption == Rates \subseteq Nat \ {0} /\ Archived \in Nat \ {0}
ASSUME EndingsAssumption ==
    MaxDelta \in Nat /\ DOMAIN Endings = {"matrix", "burst"}
      /\ \A family \in DOMAIN Endings : \A e \in Endings[family] : e \in EndingType

(* The last cell's load samplers run while the cell is warmed up and while
   it is measured. *)
Phases == {"warm-up", "measured"}

(* One run of a stage: when it began (its identity), the capacity its load
   was derived from, the capacity it measured, how its requests ended and
   when other load was seen.                                                 *)
Cell(id, offered, capacity, ending, loaded) ==
    [id |-> id, offered |-> offered, capacity |-> capacity, ending |-> ending, loaded |-> loaded]

(* A burst is offered at a multiple of a capacity, beside recovery probes.   *)
BurstCells(id, capacity, endings) ==
    {Cell(id, capacity, 0, e, l) : e \in endings, l \in SUBSET Phases}

Contaminated(cell) == cell.loaded # {}

(* The highest offered rate whose cell was stable; no rate, no stage.        *)
Capacities == {Max(stable) : stable \in SUBSET Rates \ {{}}}

CapacityCells(id) == {Cell(id, 0, c, Served, l) : c \in Capacities, l \in SUBSET Phases}

ProfileCells(id) == {Cell(id, 0, 0, Served, l) : l \in SUBSET Phases}

(* Phase 5 measures both endpoints of a matrix cell, or of a burst, in one
   stage, and compares their schedules before the stage is sealed.           *)
PairedCells(id) == {Cell(id, 0, 0, Served, l) : l \in SUBSET Phases}

PairedBursts(id, capacity) == BurstCells(id, capacity, {Served})

MatrixCells(id) == {Cell(id, 0, 0, e, l) : e \in Endings["matrix"], l \in SUBSET Phases}

(* Only the gateway rejects, so only its bursts can be unsound.              *)
EndpointEndings(stage) ==
    {e \in Endings["burst"] : stage \in {"bare", "overload-bare"} => e.sound}

EndpointBursts(id, stage, capacity) == BurstCells(id, capacity, EndpointEndings(stage))

SustainedBursts(id, stage) == BurstCells(id, Archived, EndpointEndings(stage))

(* A serving sweep warms up before its sampler is started.                   *)
SweepCells(id) == {Cell(id, 0, 0, Served, l) : l \in SUBSET {"measured"}}

-----------------------------------------------------------------------------
(* The stages of one receipt are s[name], each with its sample.              *)
Apart(a, b) == IF a > b THEN a - b ELSE b - a

UpstreamParity(direct, gateway) ==
    Apart(direct.sample.ending.upstream, gateway.sample.ending.upstream) <= MaxDelta

ErrorParity(direct, gateway) ==
    Apart(direct.sample.ending.errors, gateway.sample.ending.errors) <= MaxDelta

(* Mutant: the load derived from a capacity is not compared. *)
SameWorkload(direct, gateway) == ScheduleOf[direct.config] = ScheduleOf[gateway.config]

(* Two schedules have the same hash: the same requests at the same offsets,
   whatever else the two configurations say.                                 *)
SameLoad(direct, gateway) ==
    /\ ScheduleOf[direct.config] = ScheduleOf[gateway.config]
    /\ direct.sample.offered = gateway.sample.offered

(* The finite gate reads every status as a number: one request without a
   status makes the evaluation fail, not the gate.                           *)
FiniteEvaluable(s) ==
    \A name \in DOMAIN s \ {"capacity"} : s[name].sample.ending.statuses

FiniteGate(s) ==
    /\ UpstreamParity(s["matrix-bare"], s["matrix-gateway"])
    /\ ErrorParity(s["matrix-bare"], s["matrix-gateway"])
    /\ UpstreamParity(s["overload-bare"], s["overload-gateway"])
    /\ ErrorParity(s["overload-bare"], s["overload-gateway"])
    /\ s["overload-gateway"].sample.ending.sound

(* The sustained gate bounds the upstream errors only. *)
SustainedGate(s) ==
    /\ UpstreamParity(s["bare"], s["gateway"])
    /\ s["gateway"].sample.ending.sound

FinitePairs(s) ==
    /\ SameLoad(s["matrix-bare"], s["matrix-gateway"])
    /\ SameLoad(s["overload-bare"], s["overload-gateway"])

SustainedPairs(s) == SameLoad(s["bare"], s["gateway"])

ProfilePair(s) == SameLoad(s["profile-before"], s["profile-after"])

(* Every bare stage ended before the clean attempt of a gateway stage began. *)
BaselineFirst(bare, gateway) == \A b \in bare, g \in gateway : b.finished <= g.sample.id
=============================================================================
