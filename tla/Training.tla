------------------------------ MODULE Training ------------------------------
(***************************************************************************)
(* The training ladder: scripts/remote/launch_phase3.sh starts one wrapper *)
(* (run_phase3_rung.sh) per job in its own tmux session; the wrapper runs  *)
(* the preflight, the trainer, the evaluation, the finalisation and the    *)
(* report, each a process of its own that leaves a receipt, and its EXIT   *)
(* trap bills what failed.  A job is a rung with a seed and a backend.     *)
(* A wrapper may be terminated (its trap runs) or lost with its pod (no    *)
(* trap runs) between any two steps, and be launched again.                *)
(***************************************************************************)
EXTENDS Integers, Sequences, FiniteSets, FiniteSetsExt

CONSTANTS
    Jobs,           \* the jobs of the ladder
    RunId,          \* the run a job publishes: rung, revision and seed, for R1 the backend too
    Parent,         \* the job whose adapter a job starts from, or Absent
    Guarded,        \* the GRPO jobs, which carry the reward-signal guard
    Unsloth,        \* the jobs that train with the Unsloth backend
    Reference,      \* R1 on TRL
    Candidate,      \* R1 on Unsloth
    Exporter,       \* the export task, which has a session and a wrapper too
    Exported,       \* the job whose adapter it exports
    Steps,          \* training steps of a job (max_steps)
    SaveSteps,      \* a checkpoint is saved every SaveSteps steps
    OpeningSteps,   \* the window the reward-signal guard watches
    Hours,          \* the GPU hours an attempt may take
    Projected,      \* projected_gpu_hours_per_run
    Ceiling,        \* project_gpu_hour_ceiling
    MaxAttempts,    \* per task, bound on the launches before and with one of it
    MaxCommits,     \* bound on commits made during the campaign
    Absent          \* a file that does not exist; a session that is not running

ASSUME TrainingAssumption ==
    /\ Guarded \subseteq {j \in Jobs : Parent[j] # Absent} /\ Unsloth \subseteq Jobs
    /\ Reference \in Jobs \ Unsloth /\ Candidate \in Unsloth
    /\ DOMAIN RunId = Jobs
    /\ \A j \in Jobs : RunId[j] \in {RunId[Reference], RunId[Candidate]} => j \in {Reference, Candidate}
    /\ RunId[Reference] # RunId[Candidate]
    /\ Exporter \notin Jobs /\ Exported \in Jobs
    /\ Parent \in [Jobs -> Jobs \cup {Absent}]
    /\ {Steps, SaveSteps, OpeningSteps} \subseteq Nat \ {0}
    /\ OpeningSteps <= SaveSteps /\ SaveSteps <= Steps
    /\ Hours \subseteq Nat /\ {Projected, Ceiling, MaxCommits} \subseteq Nat
    /\ MaxAttempts \in [Jobs \cup {Exporter} -> Nat]

(* What a training step logs as frac_reward_zero_std: 1.0, less, nothing. *)
Signals == {"flat", "varied", "missing"}

Stages == {"preflight", "train", "receipt", "evaluate", "finalize", "append ledger",
           "finalized", "completed", "trap", "merge", "quantize", "manifest", "durable"}

Wrappers == [at : Stages, started : Nat, hours : Nat, step : Nat, resumed : Nat,
             base : Nat, signal : Seq(Signals)]

Adapters == [by : Nat, base : Nat, signal : Seq(Signals)]

Evaluations == [adapter : Adapters \cup {Absent}, commit : Nat]

SignalReceipts == [job : Guarded, status : {"passed", "failed", "aborted"}]

(* What is absent is none of the things that can be there.                  *)
ASSUME AbsentAssumption ==
    Absent \notin Wrappers /\ Absent \notin Adapters /\ Absent \notin Evaluations
      /\ Absent \notin SignalReceipts

VARIABLES
    attempts,     \* launches so far; an attempt's number is its FORGE_STARTED_AT
    session,      \* per task, the wrapper that runs in its tmux session
    checkpoint,   \* per job, the latest checkpoint of the trainer
    adapter,      \* per job, the saved adapter
    trained,      \* per job, the training receipt: the adapter it hashed
    evaluated,    \* per job, the evaluation receipt
    signalled,    \* per run of a GRPO job, its reward-signal receipt
    runs,         \* results/runs.jsonl
    ledger,       \* results/phase3_gpu_ledger.jsonl
    policy,       \* results/phase3_backend_policy.json
    commit,       \* the commit that is checked out
    lost          \* history: the attempts whose pod died under them

files == <<checkpoint, adapter, trained, evaluated, signalled>>
books == <<runs, ledger, policy>>
vars == <<attempts, session, files, books, commit, lost>>

Tasks == Jobs \cup {Exporter}

SignalIds == {RunId[j] : j \in Guarded}

-----------------------------------------------------------------------------
(* The two append-only logs. *)

Conflicts(log, record) == \E r \in log : r.id = record.id /\ r # record

JobOf(t) == IF t = Exporter THEN Exported ELSE t

(* Past R1 two backends of one rung and seed are two jobs of one run id.    *)
RunRecord(j, hours) == [id |-> RunId[j], job |-> j, started |-> session[j].started,
                        adapter |-> evaluated[j].adapter, hours |-> hours]

(* The row of a finalised training is keyed by its run, every other row by  *)
(* its attempt.                                                             *)
LedgerId(t, status) ==
    IF status = "complete" /\ t \in Jobs THEN <<status, RunId[t], 0>>
    ELSE <<status, t, session[t].started>>

LedgerRow(t, status, hours) ==
    [id |-> LedgerId(t, status),
     status |-> status, job |-> JobOf(t), started |-> session[t].started, hours |-> hours]

EveryRow(rows) == rows

(* A completed receipt owns its attempt's interval: the failed row of the *)
(* same attempt is kept as evidence and not charged.                      *)
BillableRecords(rows) ==
    {r \in rows : \/ r.status = "complete"
                  \/ ~\E c \in rows : /\ c.status = "complete"
                                      /\ c.job = r.job /\ c.started = r.started}

ActualGpuHours == MapThenSumSet(LAMBDA r : r.hours, BillableRecords(ledger))

Finalized(j) == \E r \in runs : r.id = RunId[j]

-----------------------------------------------------------------------------
(* The preflight. *)

BackendAllowed(j) == j \in Unsloth \ {Candidate} => policy = "agreement_passed"

WithinBudget == ActualGpuHours + Projected <= Ceiling

ReferencePredictions == evaluated[Reference] # Absent

ReferenceReceipt == evaluated[Reference] # Absent /\ Finalized(Reference)

ParentSaved(j) == Parent[j] # Absent => adapter[Parent[j]] # Absent

Preflight(j) ==
    /\ BackendAllowed(j)
    /\ WithinBudget
    /\ j = Candidate => ReferenceReceipt
    /\ ParentSaved(j)

-----------------------------------------------------------------------------
(* The reward-signal guard of one trainer process, which sees the steps    *)
(* after the one it resumed from.                                          *)

ObservedByDefault(p) == p.resumed + 1 .. Len(p.signal)

Observed(p) == {s \in p.resumed + 1 .. Len(p.signal) : p.signal[s] # "missing"}

Opening == 1 .. OpeningSteps

AllZeroStd(p) == Observed(p) = Opening /\ \A s \in Opening : p.signal[s] = "flat"

GuardAborts(p) == p.step = OpeningSteps /\ (Observed(p) # Opening \/ AllZeroStd(p))

GuardProved(p) == Observed(p) = Opening /\ ~AllZeroStd(p)

-----------------------------------------------------------------------------
Init ==
    /\ attempts = 0 /\ commit = 0 /\ lost = {}
    /\ session = [t \in Tasks |-> Absent]
    /\ checkpoint = [j \in Jobs |-> Absent]
    /\ adapter = [j \in Jobs |-> Absent]
    /\ trained = [j \in Jobs |-> Absent]
    /\ evaluated = [j \in Jobs |-> Absent]
    /\ signalled = [id \in SignalIds |-> Absent]
    /\ runs = {} /\ ledger = {} /\ policy = "pending"

At(t, stage) == session[t] # Absent /\ session[t].at = stage

Goto(t, stage) == session' = [session EXCEPT ![t].at = stage]

OnGpu(t) == session[t] # Absent /\ session[t].at \in
    {"train", "receipt", "evaluate", "merge", "quantize"}

(* Both launchers: the GPU must be idle, the preflight green and the tmux   *)
(* session free.                                                            *)
Launch(t) ==
    /\ attempts < MaxAttempts[t]
    /\ session[t] = Absent
    /\ ~\E u \in Tasks : OnGpu(u)
    /\ Preflight(JobOf(t))
    /\ attempts' = attempts + 1
    /\ session' = [session EXCEPT ![t] =
           [at |-> "preflight", started |-> attempts', hours |-> 0,
            step |-> 0, resumed |-> 0, base |-> 0, signal |-> <<>>]]
    /\ UNCHANGED <<files, books, commit, lost>>

TrainerAgain(j) == [session[j] EXCEPT !.at = "train"]

(* The trainer loads the parent's adapter, and resumes from the latest      *)
(* checkpoint if there is one.                                              *)
ParentLoaded(j) == [session[j] EXCEPT !.at = "train",
                        !.base = IF Parent[j] = Absent THEN 0 ELSE adapter[Parent[j]].by]

Resumed(j, p) ==
    IF checkpoint[j] = Absent THEN p
    ELSE [p EXCEPT !.step = checkpoint[j].step, !.resumed = checkpoint[j].step,
                   !.signal = checkpoint[j].signal]

(* It is not run again where a training receipt exists.                     *)
Trainer(j) ==
    IF trained[j] # Absent THEN [session[j] EXCEPT !.at = "evaluate"]
    ELSE Resumed(j, ParentLoaded(j))

StartTrainer(j) ==
    /\ At(j, "preflight")
    /\ IF Preflight(j) THEN session' = [session EXCEPT ![j] = Trainer(j)] ELSE Goto(j, "trap")
    /\ UNCHANGED <<attempts, files, books, commit, lost>>

Stepped(p, signal) ==
    [p EXCEPT !.step = @ + 1,
              !.signal = IF p.step < OpeningSteps THEN Append(@, signal) ELSE @]

(* The receipt is replaced whenever the trainer fails or passes the guard.   *)
(* Its name is made of what the run id of a GRPO job is made of, so two      *)
(* backends of one seed write the same file.                                 *)
WriteSignal(j, status) ==
    signalled' = [signalled EXCEPT ![RunId[j]] = [job |-> j, status |-> status]]

(* One optimiser step: it is logged, the guard may abort on the log, then   *)
(* the checkpoint is saved.                                                 *)
TrainStep(j) ==
    /\ At(j, "train") /\ session[j].step < Steps
    /\ \E signal \in IF j \in Guarded THEN Signals ELSE {"missing"} :
         LET p == Stepped(session[j], signal)
             aborted == j \in Guarded /\ GuardAborts(p)
         IN /\ session' = [session EXCEPT ![j] = IF aborted THEN [p EXCEPT !.at = "trap"] ELSE p]
            /\ checkpoint' = IF aborted \/ p.step % SaveSteps # 0 THEN checkpoint
                             ELSE [checkpoint EXCEPT ![j] = [step |-> p.step, signal |-> p.signal]]
            /\ IF aborted THEN WriteSignal(j, IF AllZeroStd(p) THEN "aborted" ELSE "failed")
               ELSE UNCHANGED signalled
    /\ UNCHANGED <<attempts, adapter, trained, evaluated, books, commit, lost>>

(* After the last step the guard must have proved the whole opening window   *)
(* before the adapter is saved.                                              *)
SaveAdapter(j) ==
    /\ At(j, "train") /\ session[j].step = Steps
    /\ IF j \in Guarded /\ ~GuardProved(session[j])
       THEN WriteSignal(j, "failed") /\ Goto(j, "trap") /\ UNCHANGED adapter
       ELSE /\ adapter' = [adapter EXCEPT ![j] = [by |-> session[j].started,
                   base |-> session[j].base, signal |-> session[j].signal]]
            /\ IF j \in Guarded THEN WriteSignal(j, "passed") ELSE UNCHANGED signalled
            /\ Goto(j, "receipt")
    /\ UNCHANGED <<attempts, checkpoint, trained, evaluated, books, commit, lost>>

WriteTrainingReceipt(j) ==
    /\ At(j, "receipt")
    /\ trained' = [trained EXCEPT ![j] = adapter[j]]
    /\ Goto(j, "evaluate")
    /\ UNCHANGED <<attempts, checkpoint, adapter, evaluated, signalled, books, commit, lost>>

Evaluation(j) == [adapter |-> adapter[j], commit |-> commit]

(* A complete evaluation is kept; one of another commit is a conflict.      *)
Evaluate(j) ==
    /\ At(j, "evaluate")
    /\ \/ /\ evaluated[j] = Absent
          /\ evaluated' = [evaluated EXCEPT ![j] = Evaluation(j)]
          /\ Goto(j, "finalize")
       \/ /\ evaluated[j] # Absent
          /\ Goto(j, IF evaluated[j].commit = commit THEN "finalize" ELSE "trap")
          /\ UNCHANGED evaluated
    /\ UNCHANGED <<attempts, checkpoint, adapter, trained, signalled, books, commit, lost>>

(* finalize.py appends the run first and bills it second.                   *)
AppendRun(j) ==
    /\ At(j, "finalize")
    /\ \E h \in Hours :
         IF Conflicts(runs, RunRecord(j, h))
         THEN Goto(j, "trap") /\ UNCHANGED runs
         ELSE /\ runs' = runs \cup {RunRecord(j, h)}
              /\ session' = [session EXCEPT ![j].at = "append ledger", ![j].hours = h]
    /\ UNCHANGED <<attempts, files, ledger, policy, commit, lost>>

AppendLedger(j) ==
    /\ At(j, "append ledger")
    /\ LET row == LedgerRow(j, "complete", session[j].hours)
       IN IF Conflicts(ledger, row)
          THEN Goto(j, "trap") /\ UNCHANGED ledger
          ELSE Goto(j, "finalized") /\ ledger' = ledger \cup {row}
    /\ UNCHANGED <<attempts, files, runs, policy, commit, lost>>

(* The wrapper notes the completion: from here its trap bills nothing.      *)
NoteCompleted(j) ==
    /\ At(j, "finalized")
    /\ Goto(j, "completed")
    /\ UNCHANGED <<attempts, files, books, commit, lost>>

(* The Unsloth R1 is cross-checked against the TRL R1 and sets the policy;  *)
(* the report ends the session.                                             *)
Complete(j) ==
    /\ At(j, "completed")
    /\ policy' \in IF j = Candidate THEN {"agreement_passed", "agreement_failed"} ELSE {policy}
    /\ session' = [session EXCEPT ![j] = Absent]
    /\ UNCHANGED <<attempts, files, runs, ledger, commit, lost>>

(* The EXIT trap of a wrapper that has not completed bills the attempt.     *)
RecordFailure(t) ==
    /\ At(t, "trap")
    /\ \E h \in Hours :
         LET row == LedgerRow(t, "failed", h)
         IN ledger' = IF Conflicts(ledger, row) THEN ledger ELSE ledger \cup {row}
    /\ session' = [session EXCEPT ![t] = Absent]
    /\ UNCHANGED <<attempts, files, runs, policy, commit, lost>>

(* The environment: an operator stops a session, a pod dies, a commit lands. *)
Terminate(t) ==
    /\ session[t] # Absent /\ session[t].at # "trap"
    /\ session' = [session EXCEPT ![t] =
           IF session[t].at = "completed" THEN Absent ELSE [@ EXCEPT !.at = "trap"]]
    /\ UNCHANGED <<attempts, files, books, commit, lost>>

LosePod ==
    /\ \E t \in Tasks : session[t] # Absent
    /\ session' = [t \in Tasks |-> Absent]
    /\ lost' = lost \cup {session[t].started : t \in {u \in Tasks : session[u] # Absent}}
    /\ UNCHANGED <<attempts, files, books, commit>>

Commit ==
    /\ commit < MaxCommits
    /\ commit' = commit + 1
    /\ UNCHANGED <<attempts, session, files, books, lost>>

RunTrainer(j) == StartTrainer(j) \/ TrainStep(j) \/ SaveAdapter(j) \/ WriteTrainingReceipt(j)

(* The trainers of the three stages: SFT starts from the base model, DPO and *)
(* GRPO from a parent's adapter, and GRPO is guarded.                        *)
RunSft == \E j \in Jobs : Parent[j] = Absent /\ RunTrainer(j)
RunDpo == \E j \in Jobs \ Guarded : Parent[j] # Absent /\ RunTrainer(j)
RunGrpo == \E j \in Guarded : RunTrainer(j)

FinalizeFull(j) == AppendRun(j) \/ AppendLedger(j)

JobNext(j) == Evaluate(j) \/ FinalizeFull(j) \/ NoteCompleted(j) \/ Complete(j)

Next ==
    \/ RunSft \/ RunDpo \/ RunGrpo
    \/ \E j \in Jobs : JobNext(j)
    \/ \E t \in Tasks : Launch(t) \/ RecordFailure(t) \/ Terminate(t)
    \/ LosePod \/ Commit

-----------------------------------------------------------------------------
(* The GPU ledger charges every attempt once (ledger.py, finalize.py and    *)
(* the wrapper's trap together): never twice, whatever was interrupted      *)
(* between the two appends of the finalisation and the trap, and not at all *)
(* only while the attempt runs or when its pod died under it.               *)
LedgerSound ==
    \A a \in 1 .. attempts :
        LET charged == {r \in BillableRecords(ledger) : r.started = a}
        IN /\ Cardinality(charged) <= 1
           /\ \/ charged # {} \/ a \in lost
              \/ \E t \in Tasks : session[t] # Absent /\ session[t].started = a

(* A published run, its evaluation, its training receipt and the adapter on *)
(* disk speak of one and the same adapter, however often the job was        *)
(* stopped and launched again (runs.jsonl is the evidence of the ladder).   *)
(* The reward-signal receipt of a trained GRPO job is there and is not that *)
(* of a rejected attempt of this job; it may be that of the other backend   *)
(* (grpo.py names it by rung, revision and seed).                           *)
EvidenceAgrees ==
    \A j \in Jobs :
        /\ trained[j] # Absent => trained[j] = adapter[j]
        /\ trained[j] # Absent /\ j \in Guarded =>
              LET receipt == signalled[RunId[j]] IN
              receipt # Absent /\ (receipt.job = j => receipt.status = "passed")
        /\ evaluated[j] # Absent => evaluated[j].adapter = trained[j]
        /\ \A r \in runs : r.job = j => evaluated[j] # Absent /\ r.adapter = evaluated[j].adapter

(* No GRPO adapter comes from a training whose opening steps carried no     *)
(* reward signal (grpo.py's guard), whatever process trained which steps.   *)
SignalProved ==
    \A j \in Guarded : adapter[j] # Absent =>
        /\ \E s \in Opening : adapter[j].signal[s] = "varied"
        /\ \A s \in Opening : adapter[j].signal[s] # "missing"

(* Unsloth trains past R1 only after a paired agreement of two finalised R1 *)
(* runs (gate D4 of preflight.py and crosscheck.py).                        *)
UnslothGated ==
    \A j \in Unsloth \ {Candidate} : adapter[j] # Absent =>
        policy = "agreement_passed" /\ Finalized(Reference) /\ Finalized(Candidate)

(* What results/phase3_launch_plan.md says of every launch, "a resumable    *)
(* tmux task": a GRPO training whose opening steps proved their signal is   *)
(* not rejected at its last step because its process had been interrupted.  *)
ResumedRunAccepted ==
    \A j \in Guarded : At(j, "train") /\ session[j].step = Steps => GuardProved(session[j])
=============================================================================
