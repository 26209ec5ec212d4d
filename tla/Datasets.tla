------------------------------ MODULE Datasets ------------------------------
(* The frozen dataset protocol of src/forge/data: ingest.py, splits.py,
   relabel.py and phase1_2.py each write payloads, an audit and last a manifest,
   and read what the stage before them sealed.

   A file is its content, so that equal hashes are equal contents.  A payload is
   replaced atomically; the process may be killed between any two files.  The
   commands run one at a time.  Between them someone may edit a file, remove
   what an unfinished stage left, or install the next label rules; new rules may
   also arrive while a stage runs.                                            *)
EXTENDS Naturals, Sequences, FiniteSets, SequencesExt

CONSTANTS
    SplitOrder,     \* SPLITS, in order
    OutputOf,       \* source slice -> output split
    Snapshots,      \* what the pinned sources may hold: sets of <<id, slice>>
    Absent,         \* a file that is not there
    MaxFaults       \* bound: kills and edits

Splits == ToSet(SplitOrder)
Stages == {"ingest", "splits", "relabel", "phase1_2"}
Order(s) == IF s = "ingest" THEN <<"artifact", "manifest">>
            ELSE SplitOrder \o <<"audit", "manifest">>
Payloads(s) == IF s = "ingest" THEN {"artifact"} ELSE Splits
FirstRules == 1
LastRules == 3

ASSUME DatasetsAssumption ==
    /\ SplitOrder \in Seq(Splits) /\ Splits \cap {"artifact", "audit", "manifest"} = {}
    /\ \A snapshot \in Snapshots : \A row \in snapshot : OutputOf[row[2]] \in Splits
    /\ Absent \notin Snapshots /\ MaxFaults \in Nat

VARIABLES
    pinned,     \* the rows the config pins by hash
    source,     \* the rows the upstream files hold
    rules,      \* the version of configs/label_rules.yaml
    payload,    \* stage -> file -> [rows, rules]
    audit,      \* stage -> the payloads it reports on
    manifest,   \* stage -> [rules, fingerprint, payloads, audit]
    run,        \* the command that runs, and what it has still to do
    faults

files == <<pinned, source, payload, audit, manifest>>
dvars == <<files, rules, run, faults>>

Idle == [stage |-> "none", todo |-> <<>>, rules |-> 0, fingerprint |-> Absent]
Nothing(s) == [n \in Payloads(s) |-> Absent]

-----------------------------------------------------------------------------
Ids(content) == {row[1] : row \in content.rows}
Unique(content) == Cardinality(Ids(content)) = Cardinality(content.rows)

(* Mutant: a manifest is trusted without hashing its payloads. *)
IntactUnread(s) == manifest[s] # Absent /\ Absent \notin {payload[s][n] : n \in Payloads(s)}

(* A manifest is there and every payload has the hash it names. *)
Intact(s) == manifest[s] # Absent /\ manifest[s].payloads = payload[s]

(* The membership hash of each split is the same in both versions. *)
SameMembers == \A n \in Splits : Ids(payload["splits"][n]) = Ids(payload["relabel"][n])

(* _verify_ingest, _verify_phase1 and _verify_source_artifacts. *)
IngestVerified == Intact("ingest")
Phase1Verified == rules = 2 /\ Intact("splits")
SourcesVerified ==
    /\ rules = 3
    /\ Intact("splits") /\ Intact("relabel") /\ SameMembers
    /\ manifest["relabel"].fingerprint.inputs = manifest["splits"]

UpstreamVerified(s) ==
    \/ s = "ingest"
    \/ s = "splits" /\ IngestVerified
    \/ s = "relabel" /\ Phase1Verified
    \/ s = "phase1_2" /\ SourcesVerified

Inputs(s) == CASE s = "ingest" -> pinned
               [] s = "splits" -> payload["ingest"]
               [] s = "relabel" -> manifest["splits"]
               [] s = "phase1_2" -> manifest["relabel"]

Fingerprint(s) == [inputs |-> Inputs(s), rules |-> IF s = "splits" THEN 0 ELSE rules]

(* The command answers that the stage is done: the frozen no-op. *)
Accepts(s) ==
    /\ UpstreamVerified(s) /\ Intact(s)
    /\ s # "ingest" => /\ manifest[s].fingerprint = Fingerprint(s)
                       /\ manifest[s].audit = audit[s]

(* Mutant: a manifest that does not verify is written anew. *)
ClearUnlessAccepted(s) == ~Accepts(s)

Clear(s) == manifest[s] = Absent /\ payload[s] = Nothing(s)

(* What each stage writes into one of its payloads.  A stage that labels loads
   the rules anew for every file, whatever version it started with.          *)
Ingested == [rows |-> source, rules |-> rules]
Sliced(n) == [payload["ingest"]["artifact"] EXCEPT !.rows = {row \in @ : OutputOf[row[2]] = n}]
Relabelled(n) == [payload["splits"][n] EXCEPT !.rules = rules]
RelabelledAgain(n) == [payload["relabel"][n] EXCEPT !.rules = rules]

Derived(s, n) == CASE s = "ingest" -> Ingested
                   [] s = "splits" -> Sliced(n)
                   [] s = "relabel" -> Relabelled(n)
                   [] s = "phase1_2" -> RelabelledAgain(n)

Disjoint(s) == \A m, n \in Splits : m # n => Ids(payload[s][m]) \cap Ids(payload[s][n]) = {}

(* The checks on the payloads just written. *)
Checked(s) == (\A n \in Splits : Unique(payload[s][n])) /\ (s = "splits" => Disjoint(s))

-----------------------------------------------------------------------------
Init ==
    /\ pinned \in Snapshots /\ source = pinned
    /\ rules = FirstRules
    /\ payload = [s \in Stages |-> Nothing(s)]
    /\ audit = [s \in Stages |-> Absent]
    /\ manifest = [s \in Stages |-> Absent]
    /\ run = Idle /\ faults = 0

CanStart(s) == UpstreamVerified(s) /\ Clear(s) /\ (s = "ingest" => source = pinned)

Start(s) ==
    /\ run = Idle /\ CanStart(s)
    /\ run' = [stage |-> s, todo |-> Order(s), rules |-> rules, fingerprint |-> Fingerprint(s)]
    /\ UNCHANGED <<files, rules, faults>>

Writing(s) == run.stage = s /\ run.todo # <<>>
Written == IF Len(run.todo) = 1 THEN Idle ELSE [run EXCEPT !.todo = Tail(@)]

WritePayload(s) ==
    /\ Writing(s) /\ Head(run.todo) \in Payloads(s)
    /\ payload' = [payload EXCEPT ![s][Head(run.todo)] = Derived(s, Head(run.todo))]
    /\ run' = Written
    /\ UNCHANGED <<pinned, source, audit, manifest, rules, faults>>

(* The payloads stay when a check on them fails. *)
FailCheck(s) ==
    /\ Writing(s) /\ Head(run.todo) = "audit" /\ ~Checked(s)
    /\ run' = Idle
    /\ UNCHANGED <<files, rules, faults>>

WriteAudit(s) ==
    /\ Writing(s) /\ Head(run.todo) = "audit" /\ Checked(s)
    /\ audit' = [audit EXCEPT ![s] = payload[s]]
    /\ run' = Written
    /\ UNCHANGED <<pinned, source, payload, manifest, rules, faults>>

Seal(s) ==
    /\ Writing(s) /\ Head(run.todo) = "manifest"
    /\ manifest' = [manifest EXCEPT ![s] =
          [rules |-> IF s = "ingest" THEN rules ELSE run.rules, fingerprint |-> run.fingerprint,
           payloads |-> payload[s], audit |-> audit[s]]]
    /\ run' = Written
    /\ UNCHANGED <<pinned, source, payload, audit, rules, faults>>

Fault == faults < MaxFaults /\ faults' = faults + 1

Kill == run # Idle /\ run' = Idle /\ Fault /\ UNCHANGED <<files, rules>>

(* Someone edits a file in place between two commands: a row goes, or labels. *)
Edited(content) == {[content EXCEPT !.rows = @ \ {row}] : row \in content.rows}
                   \cup {[content EXCEPT !.rules = 0]}

EditPayload(s, n) ==
    /\ run = Idle /\ payload[s][n] # Absent /\ Fault
    /\ \E content \in Edited(payload[s][n]) : payload' = [payload EXCEPT ![s][n] = content]
    /\ UNCHANGED <<pinned, source, audit, manifest, rules, run>>

EditSource ==
    /\ run = Idle /\ Fault
    /\ \E row \in source : source' = source \ {row}
    /\ UNCHANGED <<pinned, payload, audit, manifest, rules, run>>

(* A reviewer ticks a box of the audit's checklist. *)
TickAudit(s) ==
    /\ run = Idle /\ audit[s] # Absent /\ audit[s] # Nothing(s) /\ Fault
    /\ audit' = [audit EXCEPT ![s] = Nothing(s)]
    /\ UNCHANGED <<pinned, source, payload, manifest, rules, run>>

(* A sealed payload is put back from a copy. *)
Restore(s, n) ==
    /\ run = Idle /\ manifest[s] # Absent /\ payload[s][n] # manifest[s].payloads[n]
    /\ payload' = [payload EXCEPT ![s][n] = manifest[s].payloads[n]]
    /\ UNCHANGED <<pinned, source, audit, manifest, rules, run, faults>>

NewRules == rules < LastRules /\ rules' = rules + 1 /\ UNCHANGED <<files, run, faults>>

(* What a stage without a manifest left is removed by hand. *)
CleanUp(s) ==
    /\ run = Idle /\ manifest[s] = Absent /\ payload[s] # Nothing(s)
    /\ payload' = [payload EXCEPT ![s] = Nothing(s)]
    /\ UNCHANGED <<pinned, source, audit, manifest, rules, run, faults>>

(* A command that changes no file: a no-op, or a refusal. *)
Answer(s) == run = Idle /\ ~CanStart(s) /\ UNCHANGED dvars

RunStage(s) ==
    Start(s) \/ WritePayload(s) \/ FailCheck(s) \/ WriteAudit(s) \/ Seal(s) \/ Answer(s)

RunIngest == RunStage("ingest")
RunSplits == RunStage("splits")
RunRelabel == RunStage("relabel")
RunPhase12Labels == RunStage("phase1_2")

Next ==
    \/ RunIngest \/ RunSplits \/ RunRelabel \/ RunPhase12Labels
    \/ \E s \in Stages : \/ TickAudit(s) \/ CleanUp(s)
                         \/ \E n \in Payloads(s) : EditPayload(s, n) \/ Restore(s, n)
    \/ Kill \/ EditSource \/ NewRules

Spec == Init /\ [][Next]_dvars

-----------------------------------------------------------------------------
(* The versions a stage may have labelled its data with. *)
RulesOf(s) == CASE s \in {"ingest", "splits"} -> FirstRules..LastRules
                [] s = "relabel" -> {2}
                [] s = "phase1_2" -> {3}

Pristine(s, version) ==
    [n \in Payloads(s) |->
        [rows |-> {row \in pinned : n \in {"artifact", OutputOf[row[2]]}}, rules |-> version]]

(* Whatever was killed, edited or relabelled on the way, the data a stage
   answers for is the pinned snapshot, labelled by one version of the rules,
   that of the stage, each complaint in one split and once: although a stage
   reads the rules once per file and they may change under it.               *)
FrozenDataSound ==
    \A s \in Stages : Accepts(s) =>
        /\ \E version \in RulesOf(s) : payload[s] = Pristine(s, version)
        /\ s # "ingest" => Checked(s) /\ Disjoint(s)

(* No command rewrites a manifest, or a payload that a manifest seals. *)
SealedOnce ==
    [][\A s \in Stages : manifest[s] # Absent =>
          /\ manifest'[s] = manifest[s]
          /\ run # Idle => payload'[s] = payload[s]]_dvars
=============================================================================
