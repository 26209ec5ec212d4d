------------------------- MODULE TeacherGeneration -------------------------
(* teacher/generate.py: paid calls in batches, an append-only raw log, resume
   after a crash, the budget guard, the ledger, and the artifacts and manifests
   materialised from the log; with teacher/filters.py for the funnel and
   teacher/audit.py for its replay.

   The process may be killed between any two steps; what it wrote stays.  Files
   other than the log are replaced atomically.  The frozen source, the config
   and the prompt do not change, so the fingerprint is one value.            *)
EXTENDS Integers, Sequences, FiniteSets, SequencesExt

CONSTANTS
    NumIds,         \* the selected complaints, 1..NumIds in order of selection
    Concurrency, MaxRetries, Budget, PlanningCost,
    Answers,        \* what the provider may answer: [cost, grade]
    Similar,        \* pairs of distinct complaints MinHash finds similar
    Contaminated,   \* complaints sharing an n-gram with a TEST split
    Absent,         \* a file that is not there
    MaxCalls,       \* bound: calls the provider serves
    MaxStops        \* bound: kills and raises

NoCost == -1
Ids == 1..NumIds

ASSUME TeacherAssumption ==
    /\ NumIds \in Nat \ {0} /\ Concurrency \in Nat \ {0} /\ MaxRetries \in Nat \ {0}
    /\ Budget \in Nat /\ PlanningCost \in Nat
    /\ \A a \in Answers : a.cost \in Nat \cup {NoCost}
    /\ Contaminated \subseteq Ids /\ Similar \subseteq Ids \X Ids

(* An answer is bounded by max_tokens, so some answer costs the most; the
   similarity of two signatures does not depend on their order.              *)
ASSUME AnswersAssumption == \E a \in Answers : \A b \in Answers : b.cost <= a.cost
ASSUME SimilarAssumption == \A p \in Similar : p[1] # p[2] /\ <<p[2], p[1]>> \in Similar

VARIABLES
    mode,       \* "smoke" or "live": each has its own output directory
    log,        \* the raw log: a sequence of records
    torn,       \* the log ends in half a line
    ledger,     \* the generation ledger
    files,      \* the artifacts and manifests
    pc,         \* where the process is
    todo,       \* the complaints this process has still to call
    batch,      \* the calls in flight: id -> [tries, result, answer]
    calls,      \* calls the provider served (and bills)
    stops       \* kills and raises so far

(* A file that is not there is none that is. *)
Outcomes == {"schema_invalid", "verifier_score", "minhash_duplicate",
             "test_ngram_overlap", "accepted"}
Grades == {a.grade : a \in Answers} \cup {"accepted", "verifier_score", "schema_invalid", "none"}
LogRecord == [id : Ids, attempt : Nat, status : {"ok", "request_failed"},
              cost : Nat \cup {NoCost}, grade : Grades]
CostLedgers == [cost : Nat, within : BOOLEAN, log : Seq(LogRecord)]
DataCards == [mode : {"smoke", "live"}, funnel : Seq(Nat), duplicates : Nat,
              quarantined : SUBSET Ids, cost : Nat]
ASSUME AbsentAssumption ==
    /\ \A f \in (SUBSET Ids) \cup [Ids -> Outcomes] : Absent # f
    /\ Absent \notin CostLedgers /\ Absent \notin DataCards

disk == <<log, torn, ledger, files>>
vars == <<mode, log, torn, ledger, files, pc, todo, batch, calls, stops>>

-----------------------------------------------------------------------------
(* The log. *)
Ok(r) == r.status = "ok"
Attempts(id) == Cardinality({k \in DOMAIN log : log[k].id = id})
Successful == {log[k].id : k \in {j \in DOMAIN log : Ok(log[j])}}

(* The successful record of an id with the highest attempt. *)
SuccessOf(id) ==
    LET own == {k \in DOMAIN log : Ok(log[k]) /\ log[k].id = id}
    IN  log[CHOOSE k \in own : \A j \in own : log[j].attempt <= log[k].attempt]

FailedLatest ==
    {id \in Ids : \E k \in DOMAIN log :
        /\ log[k].id = id /\ ~Ok(log[k])
        /\ \A j \in DOMAIN log : log[j].id = id => log[j].attempt <= log[k].attempt}

(* The members of a set of complaints in the order of their selection. *)
InOrder(S) == CHOOSE q \in SetToSeqs(S) : \A i, j \in DOMAIN q : i < j => q[i] < q[j]

Total(f, S) == FoldSet(LAMBDA id, acc : acc + f[id], 0, S)
Reported(id) == IF SuccessOf(id).cost = NoCost THEN 0 ELSE SuccessOf(id).cost
RecordedCost == Total([id \in Successful |-> Reported(id)], Successful)

(* Mutant: a resumed run does not look at what the log answers. *)
MissingUnread == Ids

Missing == Ids \ Successful

MissingCost == {id \in Successful : SuccessOf(id).cost = NoCost}

(* A line that does not parse, a foreign fingerprint or a repeated pair of id
   and attempt makes the next start raise.                                   *)
Loadable ==
    /\ ~torn
    /\ \A j, k \in DOMAIN log :
          (log[j].id = log[k].id /\ log[j].attempt = log[k].attempt) => j = k

Ledger(status) ==
    [status |-> status, mode |-> mode, attempts |-> Len(log), ok |-> Successful,
     failed |-> FailedLatest, cost |-> RecordedCost, missing_cost |-> MissingCost,
     within_budget |-> MissingCost = {} /\ RecordedCost <= Budget, log |-> log]

Record(id, status, cost, grade) ==
    [id |-> id, attempt |-> Attempts(id) + 1, status |-> status,
     cost |-> cost, grade |-> grade]

(* The mock teacher: by sequence number one answer in five is wrong and one in
   five is not JSON; it costs nothing.                                       *)
MockGrade(id) ==
    CASE (id - 1) % 5 = 2 -> "verifier_score"
      [] (id - 1) % 5 = 3 -> "schema_invalid"
      [] OTHER -> "accepted"

MockRecord(id) == [Record(id, "ok", 0, MockGrade(id)) EXCEPT !.attempt = 1]

-----------------------------------------------------------------------------
(* The funnel. *)
OfGrade(grades) == {id \in Ids \cap Successful : SuccessOf(id).grade \in grades}
SchemaValid == OfGrade({"verifier_score", "accepted"})
VerifierValid == OfGrade({"accepted"})

(* Mutant: compared with every earlier record, the removed ones included. *)
DeduplicatedAgainstAll(ids) == {n \in ids : ~\E k \in ids : k < n /\ <<k, n>> \in Similar}

(* The first of each near-duplicate cluster, compared with the kept ones only. *)
Deduplicated(ids) ==
    LET kept[n \in 0..NumIds] ==
            IF n = 0 THEN {}
            ELSE IF n \in ids /\ ~\E k \in kept[n - 1] : <<k, n>> \in Similar
                 THEN kept[n - 1] \cup {n} ELSE kept[n - 1]
    IN  kept[NumIds]

Quarantined(ids) == ids \cap Contaminated
Clean == Deduplicated(VerifierValid) \ Quarantined(Deduplicated(VerifierValid))

Funnel == <<Cardinality(Ids), Cardinality(Ids), Cardinality(SchemaValid),
            Cardinality(VerifierValid), Cardinality(Deduplicated(VerifierValid)),
            Cardinality(Clean)>>

Outcome(id) ==
    CASE id \notin SchemaValid -> "schema_invalid"
      [] id \in SchemaValid \ VerifierValid -> "verifier_score"
      [] id \in VerifierValid \ Deduplicated(VerifierValid) -> "minhash_duplicate"
      [] id \in Quarantined(Deduplicated(VerifierValid)) -> "test_ngram_overlap"
      [] id \in Clean -> "accepted"

Corpora == {"sft_rule", "sft_distilled", "dpo_pairs"}

(* Mutant: the manifest is written before the data card it hashes. *)
WriteManifestEarly == <<"filter_funnel_log", "sft_rule", "sft_distilled", "dpo_pairs",
                        "quarantine", "cost_ledger", "manifest", "data_card", "tracked_manifest">>

(* The order of the writes; the last two are the manifest and its tracked copy. *)
WriteOrder == <<"filter_funnel_log", "sft_rule", "sft_distilled", "dpo_pairs",
                "quarantine", "cost_ledger", "data_card", "manifest", "tracked_manifest">>

Files == {WriteOrder[k] : k \in DOMAIN WriteOrder}
Sealed == Files \ {"manifest", "tracked_manifest"}

(* What the card tells its reader; the manifest hashes it. *)
DataCard ==
    [mode |-> mode, funnel |-> Funnel, duplicates |-> Cardinality(VerifierValid \ Deduplicated(VerifierValid)),
     quarantined |-> Quarantined(Deduplicated(VerifierValid)), cost |-> ledger.cost]

Manifest ==
    [status |-> "complete", mode |-> mode, log |-> log, attempts |-> ledger.attempts,
     funnel |-> Funnel, quarantined |-> Quarantined(Deduplicated(VerifierValid)),
     cost |-> ledger.cost, within |-> ledger.within_budget,
     hashes |-> [f \in Sealed |-> files[f]]]

Content(f) ==
    CASE f = "filter_funnel_log" -> [id \in Ids |-> Outcome(id)]
      [] f \in Corpora -> Clean
      [] f = "quarantine" -> Quarantined(Deduplicated(VerifierValid))
      [] f = "cost_ledger" -> [cost |-> ledger.cost, within |-> ledger.within_budget,
                               log |-> ledger.log]
      [] f = "data_card" -> DataCard
      [] f \in {"manifest", "tracked_manifest"} -> Manifest

-----------------------------------------------------------------------------
(* The replay of verify_completed_smoke_bundle, from the files alone. *)
ArtifactsMatch(m) == \A f \in Sealed : files[f] # Absent /\ files[f] = m.hashes[f]

SmokeBundleVerified ==
    /\ files["manifest"] # Absent /\ files["tracked_manifest"] = files["manifest"]
    /\ LET m == files["manifest"]
       IN  /\ m.status = "complete" /\ m.mode = "smoke"
           /\ ArtifactsMatch(m)
           /\ Loadable /\ Len(log) = NumIds /\ m.log = log
           /\ ledger.status = "complete" /\ ledger.mode = "smoke"
           /\ ledger.attempts = m.attempts /\ ledger.log = m.log
           /\ files["quarantine"] = m.quarantined
           /\ files["cost_ledger"].log = m.log /\ files["cost_ledger"].within

(* run_teacher_audit: the funnel recomputed from the raw log, every receipt. *)
AuditFunnel(m) ==
    /\ Cardinality(Successful) = m.funnel[1]
    /\ m.funnel = Funnel
    /\ files["quarantine"] = Quarantined(Deduplicated(VerifierValid))
    /\ files["quarantine"] = m.quarantined

AuditCorpora ==
    /\ DOMAIN files["filter_funnel_log"] = Successful
    /\ \A c \in Corpora : files[c] = Clean

AuditCost(m) ==
    /\ RecordedCost = m.cost /\ RecordedCost = ledger.cost
    /\ m.cost <= (IF mode = "smoke" THEN 0 ELSE Budget)
    /\ files["cost_ledger"].cost = m.cost /\ files["cost_ledger"].within

AuditPasses ==
    /\ files["manifest"] # Absent
    /\ LET m == files["manifest"]
       IN  /\ m.status = "complete" /\ m.mode = mode
           /\ m.log = log /\ ledger.log = log
           /\ AuditFunnel(m) /\ ArtifactsMatch(m) /\ AuditCorpora /\ AuditCost(m)

-----------------------------------------------------------------------------
Init ==
    /\ mode \in {"smoke", "live"}
    /\ log = <<>> /\ torn = FALSE
    /\ ledger = Absent
    /\ files = [f \in Files |-> Absent]
    /\ pc = "idle" /\ todo = <<>> /\ batch = <<>>
    /\ calls = 0 /\ stops = 0

Exit == pc' = "idle" /\ todo' = <<>> /\ batch' = <<>>
Raise == Exit /\ stops < MaxStops /\ stops' = stops + 1

(* A start: with a manifest it is a no-op, and otherwise the log is loaded. *)
Start ==
    /\ pc = "idle" /\ files["manifest"] = Absent /\ Loadable
    /\ todo' = InOrder(Missing)
    /\ pc' = IF mode = "smoke" THEN "mock" ELSE "next"
    /\ UNCHANGED <<mode, disk, batch, calls, stops>>

MockRecords == [k \in DOMAIN todo |-> MockRecord(todo[k])]

(* Smoke mode appends all mock records at once. *)
MockGenerate ==
    /\ pc = "mock"
    /\ log' = log \o MockRecords
    /\ pc' = "next" /\ todo' = <<>>
    /\ UNCHANGED <<mode, torn, ledger, files, batch, calls, stops>>

BatchIds == {todo[k] : k \in 1..(IF Len(todo) < Concurrency THEN Len(todo) ELSE Concurrency)}

(* Mutant: the plan of one call stands for the batch. *)
WithinPlanOfOne == RecordedCost + PlanningCost <= Budget

WithinPlan == RecordedCost + Cardinality(BatchIds) * PlanningCost <= Budget

SubmitBatch ==
    /\ pc = "next" /\ todo # <<>> /\ WithinPlan
    /\ batch' = [id \in BatchIds |-> [tries |-> 0, result |-> "pending", answer |-> Absent]]
    /\ todo' = SubSeq(todo, Cardinality(BatchIds) + 1, Len(todo))
    /\ pc' = "calling"
    /\ UNCHANGED <<mode, disk, calls, stops>>

BudgetGuard ==
    /\ pc = "next" /\ todo # <<>> /\ ~WithinPlan
    /\ Raise /\ UNCHANGED <<mode, disk, calls>>

Served == calls < MaxCalls /\ calls' = calls + 1

(* A call after one more request: answered (a record of the log), refused for
   good, retried or given up, or ended by an error no handler catches.       *)
Ended(c, result) == [c EXCEPT !.tries = @ + 1, !.result = result]
Answered(c, a) == [Ended(c, "ok") EXCEPT !.answer = a]
(* Mutant: one request too many. *)
RetriedOnceMore(c) == Ended(c, IF c.tries < MaxRetries THEN "pending" ELSE "request_failed")

Retried(c) == Ended(c, IF c.tries + 1 < MaxRetries THEN "pending" ELSE "request_failed")

Pending(id) == pc = "calling" /\ batch[id].result = "pending"

Request(id) ==
    /\ Pending(id)
    /\ \/ Served /\ \E a \in Answers : batch' = [batch EXCEPT ![id] = Answered(@, a)]
       \/ Served /\ batch' = [batch EXCEPT ![id] = Retried(@)]
       \/ Served /\ batch' = [batch EXCEPT ![id] = Ended(@, "raised")]
       \/ UNCHANGED calls /\ batch' = [batch EXCEPT ![id] = Ended(@, "request_failed")]
    /\ UNCHANGED <<mode, disk, pc, todo, stops>>

Resolved == pc = "calling" /\ \A id \in DOMAIN batch : batch[id].result # "pending"
SomeRaised == \E id \in DOMAIN batch : batch[id].result = "raised"

RecordOf(id) ==
    IF batch[id].result = "request_failed" THEN Record(id, "request_failed", 0, "none")
    ELSE Record(id, "ok", batch[id].answer.cost, batch[id].answer.grade)

BatchRecords ==
    LET order == InOrder(DOMAIN batch)
    IN  [k \in DOMAIN order |-> RecordOf(order[k])]

(* One future that raised loses the whole batch. *)
LoseBatch == Resolved /\ SomeRaised /\ Raise /\ UNCHANGED <<mode, disk, calls>>

AppendBatch ==
    /\ Resolved /\ ~SomeRaised
    /\ log' = log \o BatchRecords
    /\ pc' = "appended" /\ batch' = <<>>
    /\ UNCHANGED <<mode, torn, ledger, files, todo, calls, stops>>

Checkpoint ==
    /\ pc = "appended"
    /\ IF RecordedCost > Budget
       THEN Raise /\ UNCHANGED ledger
       ELSE /\ ledger' = Ledger("in_progress")
            /\ pc' = "next" /\ UNCHANGED <<todo, batch, stops>>
    /\ UNCHANGED <<mode, log, torn, files, calls>>

(* Mutant: an attempt counts as an answer. *)
FinalStatusAttempted ==
    IF \A id \in Ids : Attempts(id) > 0 THEN "complete" ELSE "incomplete"

FinalStatus == IF Missing = {} THEN "complete" ELSE "incomplete"

Finish ==
    /\ pc = "next" /\ todo = <<>>
    /\ ledger' = Ledger(FinalStatus)
    /\ IF ledger'.status = "complete" /\ ledger'.within_budget
       THEN pc' = "write" /\ todo' = WriteOrder /\ UNCHANGED <<batch, stops>>
       ELSE Raise
    /\ UNCHANGED <<mode, log, torn, files, calls>>

(* _materialize, one atomic replacement at a time. *)
WriteFile ==
    /\ pc = "write" /\ todo # <<>>
    /\ files' = [files EXCEPT ![Head(todo)] = Content(Head(todo))]
    /\ IF Len(todo) = 1 THEN Exit ELSE todo' = Tail(todo) /\ UNCHANGED <<pc, batch>>
    /\ UNCHANGED <<mode, log, torn, ledger, calls, stops>>

(* The process is killed. *)
Kill == pc # "idle" /\ Raise /\ UNCHANGED <<mode, disk, calls>>

Appending(records) ==
    /\ \E n \in 0..(Len(records) - 1) : log' = log \o SubSeq(records, 1, n)
    /\ torn' \in BOOLEAN

(* Killed in the middle of an append: a part of the records is there, and maybe
   half a line after them.  A cut just before a newline is not modelled.      *)
KillAppending ==
    /\ \/ pc = "mock" /\ todo # <<>> /\ Appending(MockRecords)
       \/ Resolved /\ ~SomeRaised /\ Appending(BatchRecords)
    /\ Raise
    /\ UNCHANGED <<mode, ledger, files, calls>>

(* A start that changes nothing: a finished bundle is a no-op, a log that does
   not load raises.                                                          *)
Refuse ==
    /\ pc = "idle" /\ (files["manifest"] # Absent \/ ~Loadable)
    /\ UNCHANGED vars

Spent == stops = MaxStops /\ UNCHANGED vars    \* the bound of the model

Next == \/ Start \/ MockGenerate \/ SubmitBatch \/ BudgetGuard
        \/ \E id \in DOMAIN batch : Request(id)
        \/ LoseBatch \/ AppendBatch \/ Checkpoint \/ Finish \/ WriteFile
        \/ Kill \/ KillAppending \/ Refuse \/ Spent

Spec == Init /\ [][Next]_vars

-----------------------------------------------------------------------------
(* Whatever is killed and resumed, an answer is in the log once per complaint,
   and the log never blocks itself with a repeated attempt number.           *)
AnsweredOnce ==
    /\ \A j, k \in DOMAIN log : Ok(log[j]) /\ Ok(log[k]) /\ log[j].id = log[k].id => j = k
    /\ Loadable \/ torn

(* What the provider bills and the log does not show is bounded by the retries
   of each record and by one batch per process that died.                    *)
InFlight == Total([id \in DOMAIN batch |-> batch[id].tries], DOMAIN batch)
CallsBounded == calls <= MaxRetries * (Len(log) + Concurrency * stops) + InFlight

(* The reported cost passes the cap by at most what one batch may cost over
   plan, over all the processes that worked on the log.                      *)
CostliestCall == CHOOSE c \in {a.cost : a \in Answers} : \A a \in Answers : a.cost <= c
CostCapped ==
    RecordedCost <= Budget +
        (IF CostliestCall > PlanningCost THEN Concurrency * (CostliestCall - PlanningCost) ELSE 0)

(* A manifest is the last word: its receipts match the files, the ledger and
   the log, and the offline audit and the replay of a smoke bundle pass.     *)
ManifestReplays ==
    /\ files["manifest"] # Absent => AuditPasses
    /\ (files["tracked_manifest"] # Absent /\ mode = "smoke") => SmokeBundleVerified

(* The training corpora are clean and not needlessly small: a verified answer
   is left out only for a TEST overlap or for an earlier kept near-duplicate. *)
CorporaSound ==
    files["manifest"] # Absent =>
        LET corpus == files["sft_rule"]
        IN  /\ corpus \cap Contaminated = {}
            /\ \A i, j \in corpus : <<i, j>> \notin Similar
            /\ \A j \in VerifierValid \ (corpus \cup Contaminated) :
                  \E i \in corpus \cup files["quarantine"] : i < j /\ <<i, j>> \in Similar

(* The job the log implements: answers accumulate, and the manifest seals them. *)
AsJob == INSTANCE Job WITH Items <- Ids, answered <- Successful,
                           sealed <- (files["manifest"] # Absent)
ImplementsJob == AsJob!Spec
=============================================================================
