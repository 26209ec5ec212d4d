----------------------------- MODULE LabelRuns -----------------------------
(* The two paid labelling jobs on a CAL split, data/spot_label.py on version 1
   and data/api_calibrate.py on version 2, with the consumers of their ledgers:
   the report of data/calibrate.py, the rescore of data/phase1_2.py, and the
   freeze that teacher/freeze.py verifies before teacher data is generated.
   The dataset stages run around them and edit the files they read.          *)
EXTENDS Datasets, Integers

CONSTANTS
    CalSplit, Ambiguous,    \* the CAL split; the complaints spot_label selects from
    Limit, Budget, Costs    \* rows asked, cap, and costs an answer may report

NoCost == -1

ASSUME LabelAssumption ==
    /\ CalSplit \in Splits /\ Limit \in Nat \ {0} /\ Budget \in Nat
    /\ Costs \subseteq Nat \cup {NoCost}

VARIABLES
    job,        \* "spot" or "api"
    receipts,   \* the receipts file: a sequence of records
    ledger,     \* the ledger file
    reports,    \* the calibration report and the rescore
    config      \* what configs/teacher_data.yaml and the freeze pin

lvars == <<job, receipts, ledger, reports, config>>
vars == <<dvars, lvars>>

Torn == [status |-> "torn"]     \* the ledger is not written atomically

-----------------------------------------------------------------------------
Cal == payload[IF job = "api" THEN "relabel" ELSE "splits"][CalSplit]
DatasetHash == [rules |-> manifest["relabel"].rules, payloads |-> manifest["relabel"].payloads]
Dataset == IF job = "api" THEN DatasetHash ELSE Absent

(* The first complaints of a CAL file; the order of their ids stands for that
   of the hashes by which the code ranks them.                               *)
Selected(cal) ==
    LET all == IF job = "api" THEN Ids(cal) ELSE Ids(cal) \cap Ambiguous
    IN  {id \in all : Cardinality({other \in all : other < id}) < Limit}

RunFingerprint == [cal |-> Cal, with |-> IF job = "api" THEN Dataset ELSE rules]

Recorded == {receipts[k].id : k \in DOMAIN receipts}
CostOf(r) == IF r.cost = NoCost THEN 0 ELSE r.cost
SpentOn(records) == FoldSeq(LAMBDA r, total : CostOf(r) + total, 0, records)
Spent == SpentOn(receipts)
MissingCost ==
    \E k \in DOMAIN receipts : receipts[k].cost = NoCost /\ receipts[k].status # "request_failed"
AllOk == \A k \in DOMAIN receipts : receipts[k].status = "ok"

LoadableReceipts ==
    /\ \A k \in DOMAIN receipts : receipts[k].fingerprint = RunFingerprint
    /\ Cardinality(Recorded) = Len(receipts)

CanLabel ==
    /\ Cal # Absent
    /\ job = "api" => manifest["relabel"] # Absent
    /\ job = "spot" => Cardinality(Selected(Cal)) = Limit
    /\ ledger = Absent /\ LoadableReceipts

Complete == Len(receipts) = Limit /\ ~MissingCost /\ (job = "api" => AllOk)
WithinBudget == ~MissingCost /\ Spent <= Budget

Ledger ==
    [status |-> IF Complete THEN "complete" ELSE "incomplete", within_budget |-> WithinBudget,
     cal |-> run.fingerprint.cal, dataset |-> Dataset, receipts |-> receipts]

-----------------------------------------------------------------------------
LInit ==
    /\ Init
    /\ job \in {"spot", "api"}
    /\ receipts = <<>> /\ ledger = Absent
    /\ reports = [calibration |-> Absent, rescore |-> Absent] /\ config = Absent

StartLabel ==
    /\ run = Idle /\ CanLabel
    /\ run' = [stage |-> "label", todo |-> <<>>, rules |-> rules, fingerprint |-> RunFingerprint]
    /\ UNCHANGED <<files, rules, faults, lvars>>

Labelling == run.stage = "label"

(* What the process read at its start, without what the receipts answer. *)
Remaining == Selected(run.fingerprint.cal) \ Recorded
IsNext(id) == id \in Remaining /\ \A other \in Remaining : id <= other

WithinCap == Spent <= Budget

OverCap ==
    /\ Labelling /\ Remaining # {} /\ ~WithinCap
    /\ run' = Idle
    /\ UNCHANGED <<files, rules, faults, lvars>>

(* One complaint is asked, retried and recorded, a refusal too: a failed
   request of spot_label is free, one of api_calibrate reports no cost.      *)
Outcomes ==
    {[status |-> "ok", cost |-> c] : c \in Costs}
    \cup (IF job = "spot" THEN {[status |-> "invalid_teacher_output", cost |-> c] : c \in Costs}
                               \cup {[status |-> "request_failed", cost |-> 0]}
          ELSE {[status |-> "request_failed", cost |-> NoCost]})

Ask ==
    /\ Labelling /\ WithinCap
    /\ \E outcome \in Outcomes : \E id \in Remaining :
          /\ IsNext(id)
          /\ receipts' = Append(receipts, [id |-> id, fingerprint |-> run.fingerprint,
                                           status |-> outcome.status, cost |-> outcome.cost])
    /\ UNCHANGED <<dvars, job, ledger, reports, config>>

FinishLabel ==
    /\ Labelling /\ Remaining = {}
    /\ ledger' = Ledger /\ run' = Idle
    /\ UNCHANGED <<files, rules, faults, job, receipts, reports, config>>

KillWritingLedger ==
    /\ Labelling /\ Remaining = {} /\ Fault
    /\ ledger' = Torn /\ run' = Idle
    /\ UNCHANGED <<files, rules, job, receipts, reports, config>>

-----------------------------------------------------------------------------
(* Mutant: the budget of a complete ledger is taken for granted. *)
LedgerProvesCompletion(dataset) ==
    /\ ledger \notin {Absent, Torn} /\ ledger.status = "complete"
    /\ ledger.dataset = dataset /\ ledger.receipts = receipts

(* What both consumers check of the API ledger. *)
LedgerProves(dataset) ==
    /\ ledger \notin {Absent, Torn} /\ ledger.status = "complete" /\ ledger.within_budget
    /\ ledger.dataset = dataset /\ ledger.receipts = receipts

StandIn == <<>>

(* Without an API ledger the report shows the local stand-in, from no receipt. *)
CalibrationReport == IF ledger = Absent THEN StandIn ELSE receipts

Calibrate ==
    /\ run = Idle /\ job = "api" /\ manifest["relabel"] # Absent /\ Cal # Absent
    /\ ledger # Absent => LedgerProves(DatasetHash) /\ ledger.cal = Cal
    /\ reports' = [reports EXCEPT !.calibration = CalibrationReport]
    /\ UNCHANGED <<dvars, job, receipts, ledger, config>>

(* The receipts are scored again, against the labels of both versions. *)
RescoreReport == [receipts |-> receipts, before |-> payload["relabel"][CalSplit],
                  after |-> payload["phase1_2"][CalSplit]]

Rescore ==
    /\ run = Idle /\ job = "api" /\ Accepts("phase1_2") /\ LedgerProves(DatasetHash)
    /\ Len(receipts) = Limit /\ AllOk /\ Cardinality(Recorded) = Limit
    /\ \A s \in {"relabel", "phase1_2"} : Recorded \subseteq Ids(payload[s][CalSplit])
    /\ reports' = [reports EXCEPT !.rescore = RescoreReport]
    /\ UNCHANGED <<dvars, job, receipts, ledger, config>>

(* External: a human reviews the rescore and declares the freeze. *)
Freeze ==
    /\ run = Idle /\ config = Absent /\ reports.rescore # Absent /\ Accepts("phase1_2")
    /\ config' = [manifest |-> manifest["phase1_2"], rules |-> rules]
    /\ UNCHANGED <<dvars, job, receipts, ledger, reports>>

(* verify_frozen_source lets teacher generation start. *)
TeacherMayRead ==
    /\ config # Absent
    /\ manifest["phase1_2"] = config.manifest /\ rules = config.rules
    /\ \A n \in Splits \ {CalSplit} : payload["phase1_2"][n] = config.manifest.payloads[n]

RunLabels == StartLabel \/ OverCap \/ Ask \/ FinishLabel
RunSpotLabels == job = "spot" /\ RunLabels
RunApiCalibration == job = "api" /\ RunLabels

LNext ==
    \/ Next /\ UNCHANGED lvars
    \/ RunSpotLabels \/ RunApiCalibration \/ KillWritingLedger
    \/ Calibrate \/ Rescore \/ Freeze

LSpec == LInit /\ [][LNext]_vars

-----------------------------------------------------------------------------
ProvenWithinCap(records) ==
    /\ \A k \in DOMAIN records : records[k].cost # NoCost
    /\ SpentOn(records) <= Budget

Once(records) == \A j, k \in DOMAIN records : records[j].id = records[k].id => j = k

(* The answers are to one content of the CAL file, for one dataset. *)
SameFile(records) == \A j, k \in DOMAIN records : records[j].fingerprint = records[k].fingerprint

CalibrationSound ==
    reports.calibration \notin {Absent, StandIn} =>
        /\ ProvenWithinCap(reports.calibration) /\ Once(reports.calibration)
        /\ Len(reports.calibration) = Limit
        /\ SameFile(reports.calibration)

RescoreSound ==
    reports.rescore # Absent =>
        /\ ProvenWithinCap(reports.rescore.receipts) /\ Once(reports.rescore.receipts)
        /\ SameFile(reports.rescore.receipts)
        /\ reports.rescore.before.rows = Pristine("relabel", 2)[CalSplit].rows
        /\ reports.rescore.after = Pristine("phase1_2", 3)[CalSplit]

(* A number that a report takes from paid answers rests on one answer per
   complaint, all of them proven to have cost no more than the cap and to be
   about one content of the CAL file, and the rescore compares the two frozen
   labellings of that split: although a start accepts a complete ledger without
   its budget, killed runs resume, and the file asked about may have been edited
   between them.                                                             *)
ReportsSound == CalibrationSound /\ RescoreSound

(* Whatever was edited since the freeze, teacher generation starts only on the
   TRAIN and TEST rows of the pinned snapshot under the frozen rules.        *)
TeacherReadsFrozen ==
    TeacherMayRead => \A n \in Splits \ {CalSplit} : payload["phase1_2"][n] = Pristine("phase1_2", 3)[n]

(* Both readers of the frozen data, the reports and teacher generation, rest
   on what was sealed.                                                       *)
ReadersSound == ReportsSound /\ TeacherReadsFrozen
=============================================================================
