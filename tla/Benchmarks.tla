----------------------------- MODULE Benchmarks -----------------------------
(* The benchmark campaigns: the phase 4 serving sweeps (bench/runner.py),    *)
(* the phase 5 stages, and the finite and sustained phase 7.1 stages of      *)
(* gateway/bench.  Commands are started by hand, one at a time, on a         *)
(* checkout that may move on between them, and may be killed between any two *)
(* of their writes; a stage that sampled other load on the host is kept and  *)
(* measured again, a sealed stage is reused; the last command seals a        *)
(* receipt and books it in runs.jsonl and in the GPU ledger.                 *)
EXTENDS Measurements, Sequences

CONSTANTS
  ConfigOf,      \* the configuration each commit of the checkout holds
  Campaigns,     \* the campaigns to be checked
  MaxTime,       \* per campaign: bound on commands and measurements
  MaxAttempts,   \* per campaign: bound on contaminated attempts in a row
  MaxDiscards    \* per campaign: bound on stages removed by hand

ASSUME CampaignsAssumption == Campaigns \subseteq {"serving", "phase5", "finite", "sustained"}
Commits == DOMAIN ConfigOf
ASSUME CommitsAssumption == Commits = 1..Len(ConfigOf) /\ Commits # {}

VARIABLES
  campaign,   \* which of the four campaigns this is
  disk,       \* files: <<stage, attempt, kind>>, attempt 0 for the sealed stage
  process,    \* the command that is running
  commit,     \* the commit of the checkout
  session,    \* commit of the sustained session receipt, or 0
  verified,   \* commit of the artifact verification receipt, or 0
  receipt,    \* the final receipt
  recorded,   \* its record in runs.jsonl
  charged,    \* its record in the GPU ledger
  now, discards

store == <<disk, receipt, recorded, charged>>
operator == <<campaign, commit, session, verified, discards>>
vars == <<store, operator, process, now>>

Absent == <<>>
Idle == [at |-> "idle", todo |-> <<>>, bad |-> <<>>, sample |-> Absent, seals |-> FALSE, source |-> 0]

Has(file) == file \in DOMAIN disk
Put(file, content) ==
    disk' = [f \in DOMAIN disk \cup {file} |-> IF f = file THEN content ELSE disk[f]]
Requests(stage) == <<stage, 0, "requests">>
Receipt(stage) == <<stage, 0, "receipt">>
Sealed(stage) == disk[Receipt(stage)]
Config == ConfigOf[commit]

-----------------------------------------------------------------------------
(* A command: the sealed stages it asks for, the stages it runs, and whether *)
(* it then seals the receipt.                                                *)
Command(needs, stages, seals) == [needs |-> needs, stages |-> stages, seals |-> seals]

ServingCommands == {Command({}, <<"sweep">>, FALSE)}

Phase5Commands ==
    {Command({}, <<s>>, FALSE) : s \in {"capacity", "profile-before", "profile-after"}}
      \cup {Command({"capacity", "profile-before", "profile-after"}, <<"direct-gateway", "overload">>, TRUE)}

Baseline == {"capacity", "matrix-bare", "overload-bare"}
FiniteStages == Baseline \cup {"matrix-gateway", "overload-gateway"}

FiniteCommands ==
    {Command({}, <<"capacity", "matrix-bare", "overload-bare">>, FALSE),
     Command(Baseline, <<"matrix-gateway">>, FALSE),
     Command(Baseline \cup {"matrix-gateway"}, <<"overload-gateway">>, TRUE)}

SustainedCommands ==
    {Command({}, <<"bare">>, FALSE), Command({"bare"}, <<"gateway">>, TRUE)}

FinalizeExisting == Command({"bare", "gateway"}, <<>>, TRUE)

Commands == [serving |-> ServingCommands, phase5 |-> Phase5Commands, finite |-> FiniteCommands,
             sustained |-> SustainedCommands \cup {FinalizeExisting}][campaign]

Stages == UNION {{c.stages[i] : i \in DOMAIN c.stages} : c \in Commands}
FinalStages == UNION {c.needs \cup {c.stages[i] : i \in DOMAIN c.stages} : c \in {x \in Commands : x.seals}}

-----------------------------------------------------------------------------
(* Phase 5 asks a stage it reuses for the configuration and the requests     *)
(* it names, phase 7.1 and the serving sweeps also for the commit.           *)
ReusablePhase5(stage) ==
    /\ Sealed(stage).config = Config
    /\ Has(Requests(stage)) /\ disk[Requests(stage)] = Sealed(stage).sample.id

ReusableFinite(stage) == ReusablePhase5(stage) /\ Sealed(stage).commit = commit

ReusableSweep(stage) == Sealed(stage).config = Config /\ Sealed(stage).commit = commit

Reusable(stage) ==
    CASE campaign = "serving" -> ReusableSweep(stage)
      [] campaign = "phase5" -> ReusablePhase5(stage)
      [] OTHER -> ReusableFinite(stage)

RequireStage(stage) == Has(Receipt(stage)) /\ ReusableFinite(stage)

RequireMeasurement(stage, source) ==
    Has(Receipt(stage)) /\ ReusablePhase5(stage) /\ Sealed(stage).commit = source

(* The final stage of phase 5 only asks whether the files are there.         *)
Required(command, source) ==
    \A stage \in command.needs :
        CASE campaign = "phase5" -> Has(Receipt(stage))
          [] command = FinalizeExisting -> RequireMeasurement(stage, source)
          [] OTHER -> RequireStage(stage)

RequireArtifact(source) == campaign = "finite" => verified = source
RequireSustainedArtifact(source) == campaign = "sustained" => verified = source

-----------------------------------------------------------------------------
Init ==
    /\ campaign \in Campaigns
    /\ disk = <<>> /\ process = Idle
    /\ commit = 1 /\ session = 0 /\ verified = 0
    /\ receipt = Absent /\ recorded = Absent /\ charged = Absent
    /\ now = 1 /\ discards = 0

(* Only finalize-existing may run from a later checkout than the one that
   measured.                                                                 *)
Source(command) == IF command = FinalizeExisting THEN session ELSE commit

Launch(command) ==
    /\ process = Idle /\ now < MaxTime[campaign]
    /\ campaign = "sustained" => Source(command) = session
    /\ RequireArtifact(Source(command)) /\ RequireSustainedArtifact(Source(command))
    /\ Required(command, Source(command))
    /\ process' = [Idle EXCEPT !.at = "stage", !.todo = command.stages,
                               !.seals = command.seals, !.source = Source(command)]
    /\ now' = now + 1
    /\ UNCHANGED <<store, operator>>

Stage == Head(process.todo)
AtStage == process.at = "stage" /\ process.todo # <<>>
Leave == process' = Idle

Reuse ==
    /\ AtStage /\ Has(Receipt(Stage))
    /\ IF Reusable(Stage) THEN process' = [process EXCEPT !.todo = Tail(@)] ELSE Leave
    /\ UNCHANGED <<store, operator, now>>

Cells(stage) ==
    CASE stage = "sweep" -> SweepCells(now)
      [] stage = "capacity" -> CapacityCells(now)
      [] stage \in {"profile-before", "profile-after"} -> ProfileCells(now)
      [] stage = "direct-gateway" -> PairedCells(now)
      [] stage = "overload" -> PairedBursts(now, Sealed("capacity").sample.capacity)
      [] stage \in {"matrix-bare", "matrix-gateway"} -> MatrixCells(now)
      [] stage \in {"overload-bare", "overload-gateway"} -> EndpointBursts(now, stage, Sealed("capacity").sample.capacity)
      [] OTHER -> SustainedBursts(now, stage)

Measure ==
    /\ AtStage /\ ~Has(Receipt(Stage)) /\ now < MaxTime[campaign]
    /\ \E cell \in Cells(Stage) :
         /\ Contaminated(cell) => Len(process.bad) < MaxAttempts[campaign]
         /\ process' = [process EXCEPT !.sample = cell,
                                       !.at = IF Contaminated(cell) THEN "retain" ELSE "requests"]
    /\ now' = now + 1
    /\ UNCHANGED <<store, operator>>

(* Mutant: an attempt does not count up. *)
AttemptFirst == 1

Attempt == Len(process.bad) + 1

NextAttempt == [process EXCEPT !.at = "stage", !.bad = Append(@, process.sample.id)]

(* A contaminated attempt is kept under its number; the serving runner keeps
   its metrics for the receipt and writes only its requests.                 *)
KeptKinds == IF campaign = "serving" THEN {"requests"} ELSE {"requests", "receipt"}

RetainRequests ==
    /\ process.at = "retain"
    /\ Put(<<Stage, Attempt, "requests">>, process.sample.id)
    /\ process' = IF "receipt" \notin KeptKinds THEN NextAttempt ELSE [process EXCEPT !.at = "retain receipt"]
    /\ UNCHANGED <<receipt, recorded, charged, operator, now>>

RetainReceipt ==
    /\ process.at = "retain receipt"
    /\ Put(<<Stage, Attempt, "receipt">>, process.sample.id)
    /\ process' = NextAttempt
    /\ UNCHANGED <<receipt, recorded, charged, operator, now>>

SealRequests ==
    /\ process.at = "requests"
    /\ Put(Requests(Stage), process.sample.id)
    /\ process' = [process EXCEPT !.at = "receipt"]
    /\ UNCHANGED <<receipt, recorded, charged, operator, now>>

SealedStage == [sample |-> process.sample, bad |-> process.bad, commit |-> commit,
                config |-> Config, finished |-> now]

SealReceipt ==
    /\ process.at = "receipt" /\ campaign # "serving"
    /\ Put(Receipt(Stage), SealedStage)
    /\ process' = [process EXCEPT !.at = "stage", !.todo = Tail(@), !.bad = <<>>, !.sample = Absent]
    /\ UNCHANGED <<receipt, recorded, charged, operator, now>>

(* The receipt of a sweep is the final one, and what is recorded.            *)
SealSweep ==
    /\ process.at = "receipt" /\ campaign = "serving"
    /\ Put(Receipt(Stage), SealedStage)
    /\ receipt' = SealedStage
    /\ process' = [process EXCEPT !.at = "record", !.todo = <<>>]
    /\ UNCHANGED <<recorded, charged, operator, now>>

-----------------------------------------------------------------------------
Collected == [stage \in FinalStages |-> Sealed(stage)]
Finished(passed) == [stages |-> Collected, commit |-> process.source, config |-> Config,
                     verified |-> verified, finished |-> now, passed |-> passed]

Phase5Receipt(s) == ProfilePair(s) /\ s["profile-after"].commit = commit

FiniteReceipt(s) ==
    /\ FinitePairs(s) /\ FiniteEvaluable(s)
    /\ BaselineFirst({s[b] : b \in Baseline}, {s["matrix-gateway"], s["overload-gateway"]})

SustainedReceipt(s) == SustainedPairs(s) /\ BaselineFirst({s["bare"]}, {s["gateway"]})

Acceptable(s) ==
    CASE campaign = "phase5" -> Phase5Receipt(s)
      [] campaign = "finite" -> FiniteReceipt(s)
      [] OTHER -> SustainedReceipt(s)

Gate(s) ==
    CASE campaign = "finite" -> FiniteGate(s)
      [] campaign = "sustained" -> SustainedGate(s)
      [] OTHER -> TRUE

(* The receipt is written over the one of an earlier launch, before the two
   books are asked whether they already hold another.                        *)
WriteFinal ==
    /\ process.at = "stage" /\ process.todo = <<>>
    /\ IF process.seals /\ Acceptable(Collected)
       THEN /\ receipt' = Finished(Gate(Collected))
            /\ process' = [process EXCEPT !.at = "record"]
       ELSE Leave /\ UNCHANGED receipt
    /\ UNCHANGED <<disk, recorded, charged, operator, now>>

(* Mutant: a record replaces the one of an earlier launch. *)
AppendAlways(book, record) == TRUE

AppendOnce(book, record) == book = Absent \/ book = record

Record ==
    /\ process.at = "record"
    /\ IF AppendOnce(recorded, receipt)
       THEN recorded' = receipt /\ process' = IF campaign = "serving" THEN Idle ELSE [process EXCEPT !.at = "charge"]
       ELSE Leave /\ UNCHANGED recorded
    /\ UNCHANGED <<disk, receipt, charged, operator, now>>

Charge ==
    /\ process.at = "charge"
    /\ charged' = IF AppendOnce(charged, receipt) THEN receipt ELSE charged
    /\ Leave
    /\ UNCHANGED <<disk, receipt, recorded, operator, now>>

-----------------------------------------------------------------------------
Kill == process # Idle /\ Leave /\ UNCHANGED <<store, operator, now>>

VerifyArtifact ==
    /\ process = Idle /\ campaign = "finite" /\ verified # commit
    /\ verified' = commit
    /\ UNCHANGED <<store, campaign, commit, session, discards, process, now>>

(* The first sustained command pins the commit that measures.                *)
VerifySustained ==
    /\ process = Idle /\ campaign = "sustained" /\ session \in {0, commit}
    /\ session' = commit /\ verified' = commit
    /\ UNCHANGED <<store, campaign, commit, discards, process, now>>

ImportFinal ==
    /\ process = Idle /\ campaign \in {"finite", "sustained"}
    /\ receipt # Absent /\ receipt.config = Config
    /\ recorded = Absent /\ recorded' = receipt
    /\ UNCHANGED <<disk, receipt, charged, operator, process, now>>

(* The checkout moves on; a stage is removed by hand, as a refusal to reuse
   it demands.                                                               *)
Checkout ==
    /\ process = Idle
    /\ \E c \in Commits : c > commit /\ commit' = c
    /\ UNCHANGED <<store, campaign, session, verified, discards, process, now>>

Discard(stage) ==
    /\ process = Idle /\ discards < MaxDiscards[campaign]
    /\ Has(Receipt(stage))
    /\ disk' = [f \in DOMAIN disk \ {Receipt(stage), Requests(stage)} |-> disk[f]]
    /\ discards' = discards + 1
    /\ UNCHANGED <<receipt, recorded, charged, campaign, commit, session, verified, process, now>>

Next ==
    \/ \E command \in Commands : Launch(command)
    \/ Reuse \/ Measure \/ RetainRequests \/ RetainReceipt
    \/ SealRequests \/ SealReceipt \/ SealSweep
    \/ WriteFinal \/ Record \/ Charge
    \/ Kill \/ VerifyArtifact \/ VerifySustained \/ ImportFinal \/ Checkout
    \/ \E stage \in Stages : Discard(stage)

Spec == Init /\ [][Next]_vars

-----------------------------------------------------------------------------
(* Contaminated attempts are retained and linked: a sealed stage is clean,   *)
(* its requests are its own, and each attempt it lists is on disk under its  *)
(* number, whatever commands were killed before (_run_clean_stage).          *)
EvidenceKept ==
    \A stage \in Stages : Has(Receipt(stage)) =>
        LET sealed == Sealed(stage) IN
        /\ sealed.sample.loaded \cap Phases = {}
        /\ Has(Requests(stage)) /\ disk[Requests(stage)] = sealed.sample.id
        /\ \A i \in DOMAIN sealed.bad, kind \in KeptKinds :
             Has(<<stage, i, kind>>) /\ disk[<<stage, i, kind>>] = sealed.bad[i]

OneSource(s) == \A stage \in DOMAIN s : s[stage].commit = receipt.commit /\ s[stage].config = receipt.config

GatewayAddsLittle(direct, gateway) ==
    LET d == direct.sample.ending  g == gateway.sample.ending IN
    g.statuses /\ g.upstream <= d.upstream + MaxDelta /\ g.errors <= d.errors + MaxDelta

(* A phase 7.1 receipt speaks of one experiment: stages, artifact check and  *)
(* receipt of one commit and configuration, both endpoints under the load    *)
(* derived from the capacity it reports, the baseline measured first,        *)
(* whatever was discarded and measured again on the way; and the finite gate *)
(* passes only where the gateway adds no more than MaxDelta to the errors of *)
(* either kind.  Phase 5 promises less: its two profiles answered the same   *)
(* requests at the same offsets, under configurations that may differ        *)
(* otherwise, and what it measured for itself has the receipt's own.         *)
ReceiptSound ==
    receipt # Absent =>
      LET s == receipt.stages IN
      CASE campaign = "finite" ->
             /\ OneSource(s) /\ receipt.verified = receipt.commit
             /\ s["overload-bare"].sample.offered = s["capacity"].sample.capacity
             /\ s["overload-gateway"].sample.offered = s["capacity"].sample.capacity
             /\ \A b \in Baseline : s[b].finished <= s["matrix-gateway"].sample.id
             /\ receipt.passed =>
                  /\ GatewayAddsLittle(s["matrix-bare"], s["matrix-gateway"])
                  /\ GatewayAddsLittle(s["overload-bare"], s["overload-gateway"])
        [] campaign = "sustained" ->
             /\ OneSource(s) /\ receipt.verified = receipt.commit
             /\ s["bare"].finished <= s["gateway"].sample.id
        [] campaign = "phase5" ->
             /\ s["profile-after"].commit = receipt.commit
             /\ ScheduleOf[s["profile-before"].config] = ScheduleOf[s["profile-after"].config]
             /\ s["direct-gateway"].config = receipt.config /\ s["overload"].config = receipt.config
        [] OTHER -> TRUE

(* The two books never tell of different receipts, although every launch     *)
(* after the first writes the receipt anew before it asks them.              *)
BooksAgree == charged # Absent => recorded = charged
=============================================================================
