# Frontier Forge in TLA+

Frontier Forge post-trains a small model, serves it, and puts a token-aware
gateway in front of it. This directory holds TLA+ models of the parts whose
correctness depends on the order in which things happen, the TLC configurations
that check them on small instances, and proofs that TLAPS checks for every
instance. It describes the source at the commit it is kept with; every
definition that stands for code is listed in `PROJECT.json` under `map` with the
lines it was written from.

How to run, inside this directory:

    tlc -workers 2 -config MCAdmission.cfg MCAdmission      # a model-checking run
    tlapm AdmissionProofs.tla                               # a proof module

Contents: [1 Inventory](#1-inventory) · [2 Modules](#2-modules-and-the-code) ·
[3 Runs](#3-runs) · [4 Disagreements found](#4-where-the-code-and-its-documents-disagree) ·
[5 Proofs](#5-proofs) · [6 Not modelled](#6-what-is-not-modelled) · [7 Plan](#7-plan)

## 1 Inventory

### The gateway (C++, `gateway/`)

| Component | State | Operations | Correct means |
|---|---|---|---|
| Admission controller `admission.cpp` | token counters per route, active leases, FIFO queue with its token count, ready leases, terminal answers, EWMA of service time, one id counter | `admit`, `poll`, `cancel`, `complete`, `snapshot` under one mutex | counters equal the leases; capacity and both queue bounds hold; each ticket has one fate; no lease is lost; FIFO among queued; nothing is promoted after its deadline |
| Circuit breaker `circuit_breaker.cpp` | state, consecutive failures, probe flag, time opened | `allow`, `peek_available`, `record_success`, `record_failure` under one mutex | trips exactly on a streak; one trial between outcomes; quiet for the recovery interval |
| Rate limiter `rate_limiter.cpp` | map of clients to two token buckets | `allow` (prune, refill, spend) under one mutex | no client gets more than burst and rate; the map is bounded; Retry-After is exact |
| Upstream pool `upstream_pool.cpp` | connections with `in_use` and a socket, health flag, breaker, `stopping_` | `acquire`, `ensure_connected`, `release`, `cancel`, `stop`, health loop | each connection has one user and comes back |
| Gateway server `gateway_server.cpp` | one coroutine per client connection, one watcher per wait for the client, `CancellationState` | `handle_session`, `proxy_request`, `watch_client_disconnect`, `start`, `stop` | every way out gives back lease, ticket and connection; a disconnect cancels this client's work and nobody else's; every request ends |
| Token estimator, metrics, configuration, `main` | none that is shared, counters, none | parsing, rendering | not about ordering |

Interaction: `handle_session` asks the rate limiter, then the admission
controller; a queued session polls it from a timer. With a lease in hand
`proxy_request` asks the route's breaker, takes a connection from the route's
pool, exchanges with the upstream, feeds the breaker, relays the response and
releases the connection; the `AdmissionGuard` completes the lease when the
coroutine ends. A watcher coroutine per wait shares a `CancellationState` with
the session and closes the upstream connection when the client leaves. All
coroutines run on **one strand** (`gateway_server.cpp:183`), so nothing happens
between two `co_await`s and anything may happen during one. That is where the
difficulty is: state read before an `await` and used after it, disconnects at
any await, timers against late answers, outcomes of overlapping attempts in any
order, and a shutdown while sessions are suspended anywhere.

### The training side (Python, `src/forge/`, `scripts/`, `gateway/bench/`)

Everything here is a chain of commands that leave files for the next one. The
commands take hours and cost money, so each is meant to be stopped and started
again, and each stage trusts what it finds on disk only as far as a hash, a status
or a commit lets it. The difficulty is a kill between two writes, and a later
command that meets what an earlier one left.

| Component | State | Operations | Hard behaviour | Correct means |
|---|---|---|---|---|
| Teacher generation, filters, audit `teacher/` | raw log, ledger, eight artifacts, two manifests | start, submit a batch, call with retries, append, checkpoint, materialise, audit, replay | kill inside an append, paid calls retried, one failing future of a batch, budget known only from what was logged | one answer per complaint, calls and cost bounded, a manifest only over files that replay from the log, corpora clean |
| Dataset freeze `data/ingest.py`, `splits.py`, `relabel.py`, `phase1_2.py` | payloads, audit, manifest of four stages; the label rules | run a stage, accept or refuse what is there | kills between files, files edited by hand, rules replaced while a stage runs | what a stage answers for is the pinned snapshot under one version of the rules; a seal is final |
| Paid labels `data/spot_label.py`, `api_calibrate.py`, `calibrate.py` | receipts, ledger, reports | ask, finish, calibrate, rescore, freeze | cap known only afterwards, ledger written in place, complete but unproven ledgers | published numbers rest on one answer per complaint, all about one CAL file, proven within the cap; teacher data starts from pinned rows only |
| Label rules, schema, verifier, near misses `data/labels.py`, `verify/`, `teacher/filters.py` | none | derive, validate, score, perturb | precedence of rules, hard AND, many combinations | labels valid and self-consistent, reward for decisions only, rejected answers strictly worse |
| Training ladder `train/`, `scripts/remote/` | sessions, checkpoints, adapters, receipts, `runs.jsonl`, GPU ledger, backend policy | launch, preflight, train, evaluate, finalise, bill, export | sessions stopped (trap runs) or lost with the pod (it does not) between any two steps, then launched again, beside others | each attempt charged once, evidence about one adapter, gates that no interruption opens |
| Benchmarks `bench/`, `gateway/bench/` | stage receipts, request files, contaminated attempts, final receipt, two books | measure, retain, seal, reuse, pair, gate, book | other load on the host, kills between writes, a checkout that moves, stages removed by hand | evidence linked, a receipt about one experiment, books that agree |
| Reports, release, deployment, demo | files | rendering, hashing, provisioning | external systems | see section 6 |

`PROJECT.json` lists every component with its status and every hazard at its line.

## 2 Modules and the code

| Module | Models | Built on |
|---|---|---|
| `SteadyClock` | the clock of the gateway: a bounded counter that never goes back | – |
| `AdmissionController` | `admission.cpp` as operators from a controller state to a controller state and an answer, and the representation invariant `WellFormed` | – |
| `TokenLedger` | abstract: tickets wait in line, are promised leases in order and answered once; leases are out until returned; ids are never used again | – |
| `Admission` | the controller among callers that keep its contract, with a clock; implements `TokenLedger` | `AdmissionController`, `SteadyClock`, `TokenLedger` (INSTANCE) |
| `CircuitBreaker` | `circuit_breaker.cpp` as operators | – |
| `Circuit` | one breaker among overlapping attempts | `CircuitBreaker`, `SteadyClock` |
| `RateLimiter` | `rate_limiter.cpp` with a clock | `SteadyClock` |
| `UpstreamPool` | one route: health, breaker, connections | `CircuitBreaker` |
| `Gateway` | the server: sessions, watchers, both routes, the controller, clients, shutdown | `AdmissionController`, `UpstreamPool`, `SteadyClock` |
| `Verifier` | label rules, ticket schema, scorer and near misses, as operators | – |
| `Scoring` | one complaint through rules, a model's answer, score and pairing | `Verifier` |
| `Job` | abstract: answers accumulate, and are sealed once when none is missing | – |
| `TeacherGeneration` | `teacher/generate.py` with filters and audit; implements `Job` | `Job` (INSTANCE) |
| `Datasets` | the four stages of the frozen data sets | – |
| `LabelRuns` | the two paid labelling jobs, their readers and the freeze, with the stages running around them | `Datasets` |
| `Training` | launch scripts, wrapper, trainers, guard, evaluation, finalisation, both books, policy | – |
| `Export` | the export task among the training sessions | `Training` |
| `Measurements` | what one run of a benchmark stage yields, how stages are paired and gated | – |
| `Benchmarks` | the four campaigns: commands, attempts, seals, final receipt, books | `Measurements` |
| `AdmissionControllerProofs`, `AdmissionProofs`, `GatewayProofs`, `TeacherGenerationProofs`, `TrainingProofs`, `DatasetsProofs`, `BenchmarksProofs` | proofs about the modules of these names; `TrainingProofs` covers `Export` too, `DatasetsProofs` covers `LabelRuns` | the module proved about |
| `GuardProofs` | proofs about the three small guards, each of which decides by itself: `RateLimiter`, `Circuit`, `Scoring` | these three |
| `MCAdmission`, `MCCircuit`, `MCRateLimiter`, `MCGateway`, `MCScoring`, `MCTeacher`, `MCLabelRuns`, `MCTraining`, `MCBenchmarks` | instances for TLC | |

**State.** The controller is one record whose fields carry the names of the C++
members. `queue_` is a set of entries: `push_back` always appends the greatest id
and nothing reorders, so deque order is id order. Token sums are counted, not
folded: a record stands for as many units as it has tokens (`Units`, `TokensOf`),
which keeps recursion out of the modules that are proved about. A
`std::optional` is a set of at most one element. Unsigned subtraction is plain
subtraction and the type invariant says it never goes below zero; `saturating_add`
is modelled with its greatest integer as the constant `MaxUInt64`.

**Actions.** Each public method of a mutex-guarded class is one step. In `Gateway`
an action is what one coroutine does between two suspensions, and a session's `pc`
names the await it is suspended at; the module's header lists them. The queue timer
is `PollQueue` (poll first, look at `client_gone` after, as in lines 349-370), the
2 ms retry of `acquire` is `RetryAcquire`, `UpstreamFails` is any transport error,
timeout or abort in the exchange, with the catch clauses of `proxy_request` and of
`handle_session` in it, and `EndProxy` is the destructor of `AdmissionGuard`.
A client is `present`, `gone` (end of stream or reset) or `wrote` (sent bytes after
its request, which ends the watch for good, as in `watch_client_disconnect`).

**Actions of the Python modules.** A step is what a process does between two writes
that a kill can separate; replacing a file atomically is one step, and an append, or a
file written in place, also has a step that leaves a part of it. A file is its content,
so "the hash matches" is equality. What the operating system or a person may do between
steps (kill, lose the pod, edit, remove, commit, move the checkout) is an action of its
own, bounded by a named constant. A refusal leaves everything as it was.

- `TeacherGeneration`: `pc` follows `run_teacher_data`; `batch` holds the futures in flight
  with the tries each has used; `Request` is one iteration of the retry loop, which the
  provider may serve and bill even if the caller sees a timeout; `WriteFile` takes the
  artifacts and manifests in the code's order.
- `Datasets`: `run` is the command and its list of files still to write; `Accepts(s)` is what
  the stage's own verification accepts and what its readers call.
- `LabelRuns`: `Remaining` is what the process selected from the CAL file it read, without
  what the receipts answer; `Ask` is one paid request with its receipt, `FinishLabel` the ledger,
  `KillWritingLedger` half of it; `TeacherMayRead` is `verify_frozen_source`.
- `Training`: `session[t]` is the wrapper of a task in its tmux session, with the process it
  runs and what that process knows; `Terminate` runs the EXIT trap, `LosePod` ends every
  session without it. An attempt is identified by its `FORGE_STARTED_AT`.
- `Benchmarks`: a measurement is identified by the moment it began; `disk` maps
  `<<stage, attempt, kind>>` to content, attempt 0 being the sealed stage; `Discard` is the
  removal by hand that a refusal ("conflicts with the config") asks for.

**What is abstract.** Reason strings, Retry-After of the controller, metrics,
bodies, headers and JSON are left out. Time is a counter of ticks. The EWMA may land
anywhere between its old value and the sample, of which the code's value is one.
Real-valued buckets are whole numbers of parts of a token (`Unit`),
so that any rational rate and burst is an instance; only the rounding error of doubles and
time below a millisecond is left out. A health probe is one nondeterministic
report, which may come at any time: more freedom than the interval gives. Requests
that fail before `admit` touch nothing shared except the rate limiter. Texts are what the
rules ask of them; MinHash similarity and n-gram contamination are a given relation and
a given set; training steps carry a reward signal or do not; a benchmark cell is its
identity, the load it was derived from, how its requests ended and when other load was
seen. A text is telling or slight, as `_meaningful_text` sees it. Two error rates are numbers of
parts, compared by their distance. Configurations do not change under a running command.

## 3 Runs

Ten runs verify properties; two show a disagreement (section 4).

| Run | Instance | Shows |
|---|---|---|
| `admission` | primary 2, fallback 3 tokens, queue of 2 requests / 4 tokens, costs 1, 2, 3 and one that saturates, `MaxTime` 5, `MaxId` 4 | the controller's accounting, bounds, ticket life cycle, FIFO promotion, expiry before promotion and full charge under every order of calls; nobody waits on an idle gateway; `TokenLedger` implemented |
| `circuit` | 3 overlapping attempts, threshold 2, recovery 2, `MaxTime` 6 | `TripsOnStreak`, `OneTrialPerOutcome`, `QuietAfterFailure` |
| `rate_limiter` | 3 clients on a map of 2, a token of 4 parts: bursts of 1.5 requests and 3.25 tokens, 0.25 requests and 1.5 tokens per tick, works 1, 3, 5, `MaxTime` 4 | budgets per bucket, exact Retry-After, the bound of the map and the choice of the victim |
| `gateway` | 2 sessions over both routes, primary of 2 tokens and fallback of 1, pools of 1 connection, timeout 1, `MaxTime` 2 | no connection is lost or shared on any way out; what admission saw available is not refused in the same step |
| `gateway_live` | 2 sessions, 1 primary slot, queue of 2, timeout 3, `MaxTime` 3, with fairness | ownership of tickets and leases on every way out; leases are lost on one path only; every request ends, also during shutdown |
| `scoring` | every row the rules can tell apart, every answer with a right or a wrong value in each field, every entry into the taxonomy | labels valid, full marks against themselves, accepted back exactly when what they quote says something; reward for decisions only, near misses strictly worse |
| `teacher` | 3 complaints, batches of 2, 2 tries, budget 3 at plan 1, 5 calls, 2 kills or raises | answers once, calls and cost bounded, manifests that replay, clean corpora, `Job` implemented |
| `labels` | 4 complaints over a CAL and a drift split, of which a job asks 2, 3 snapshots (one clean, two with a leak), 3 versions of the rules, budget 2, 1 kill or edit | frozen data sound, seals final, readers sound |
| `training` | R1 on both backends, R3 on TRL, R4 (GRPO) on both under one run id, and the export; 4 launches (of which the third is of GRPO or the export, the fourth of the second GRPO backend), 1 commit, 3 steps, checkpoint every 2, window of 2 | each attempt charged once, evidence agrees, reward signal proved, Unsloth gated, export sound |
| `bench` | rates 1 and 2; four commits, the third with another configuration of the same workload, the fourth with another workload; error rates that differ by less than, exactly and more than the allowed delta; 8 to 12 commands and measurements, up to 2 contaminated attempts, 1 discard (none in phase 5) | evidence kept, receipts about one experiment, books agree |

**Properties worth a word.** `LeaksOnlyFromQueue` is the strongest true statement
about lost leases: a lease gets lost only in the step in which a polling session,
whose client is known to have gone, returns. `gateway_leak` shows that this does
happen. `ImplementsLedger` speaks of what a caller can see of a call and not of how it is done. It sees
a ticket that is promoted and collected in one poll past an older one, which
`PromotedInOrder` cannot, because that ticket is never in `ready_` between two calls; and it
says that a promise is kept until it is collected or withdrawn, that only tickets in line
expire, and that an id that was answered never comes back. A direct admission may pass the
line, as in the code (section 4). `RetryAfterExact` says that the call succeeds after the wait *and* would
fail one tick earlier; a request for more than a full bucket is excluded, because
no wait can help it. `BudgetSinceInsertion` is stated since the bucket was inserted,
because eviction forgets what a client owes. `EvictsLeastRecent` allows the caller
itself to be the victim, which the code does: pruning precedes the lookup.
`NobodyWaitsOnIdle` catches both an entry that no route can ever hold and a lease
that was lost: either would leave the head of the queue waiting with nothing out.
`LabelsAreSound` asks whether the funnel of `generate.py` would accept a label as an
answer. It does not always: a routing or a refund quotes company and issue, an escalation
the issue, and `_meaningful_text` refuses fewer than three characters and the
placeholders, so the label of a complaint against "3M" has reward 5 and would be refused.
`CallsBounded` bounds what is billed and not logged by retries and by one batch per
process that died; `CostCapped` says by how much the reported cost may pass the cap.
`FrozenDataSound` needs the split check over the *rows*: in two of the snapshots one
complaint sits in two slices, and no stage may seal it. `ReadersSound` is about the
published report and rescore, not about the ledger, which may well be complete and
unproven. `LedgerSound` allows an uncharged attempt only while it runs or if its pod
died under it, which no trap survives. `EvidenceKept` says that a sealed stage links its
own attempts; it does not say that every attempt ever retained is still there (see
section 4). `EvidenceAgrees` speaks of a run id, because a run record does: past R1 two
backends share it. The reward-signal receipt beside a published GRPO run must be there,
and must say "passed" if the job it is of is the published one; the other backend may
have replaced it (section 4). `ReceiptSound` asks of phase 5 what its script checks: the two
profiles have one request schedule (configurations may differ otherwise), the second is of
the final commit, and what the final stage measured has its configuration. It does not ask
for the capacity the overload was derived from. For the finite campaign it says what a
passed gate means: neither kind of error grew by more than the delta.

**Bounds and why they are enough.** `MaxTime` and `MaxId` bound the clock and the
ids, nothing else is capped. Two tokens on the primary and three on the fallback
separate "fits no route", "fits the fallback only", "fits, but not now" and "fits".
A queue of two has a head and an overtaken entry. Four ids are two queued requests
with their leases. Cost `(7, 2)` with `MaxUInt64 = 7` makes the sum saturate, and a
wrapping sum would fit. In `Gateway` the predicted wait of a second request is two
service times, so the queue is reached only with a timeout of at least 3 ticks
where `InitialServiceTime` is 1: this fixes `Timeouts = {3}` in `gateway_live`
and `gateway_leak`. In `gateway` two sessions must hold leases of one route with one
connection, so the primary has two tokens and the pool one connection; the timeout
of 1 lets one give up and one succeed. A third session, so that two wait in the queue,
was checked once for the safety properties (736,210 states). Threshold 2 separates a count from a flag; with three attempts two
outcomes can be late. Sessions, clients and requests are interchangeable, so the
safety runs use symmetry; the run with liveness does not.

In `TeacherGeneration` two kills are a torn log and a crash while it is resumed; a budget of 3 with
three complaints and an answer of cost 2 reaches the guard. In `Datasets` one fault is
enough to meet each check alone (two faults, 1,628,288 states, were checked once and hold
too). In `Training` four launches are both R1, which the policy needs, and both backends of the GRPO
rung; or an attempt, its resumption and another task. A relaunch of R1 on Unsloth after
two others is left out to keep the run short. In `Benchmarks` two attempts tell "attempt
numbers count up" from "the last one is kept"; one discard makes a capacity or a
baseline younger than what depends on it; four commits are one that measures, one with
the same configuration, one with another of the same workload, one of another workload. The bounds on time leave room for every
command of a campaign and one launch more, so that a relaunch meets its own books.

**Deadlock.** `training` and `bench` do not check it: their commands are started by
hand a bounded number of times and the system really stops after the last. In `Gateway` a
client's report or a health probe is always possible, so the check says little there;
that nothing waits for ever is `EverySessionEnds`. `TeacherGeneration`, `Scoring` and
`Datasets` have explicit steps for a finished or refused command.

**Fairness** (`Gateway!FairSpec`). `WF(Resume(s))`: each await ends of itself, because
every one has a timer or an absolute deadline (queue timer, retry timer,
`stream.expires_at(deadline)`, the resolver's own timer, `downstream->expires_at`, and
for error responses the `expires_after` set when the request was read) and the strand
runs whatever is ready. `WF(Tick)`: the clock runs. Nothing is assumed of clients,
upstreams, watchers or health probes: `Resume` contains failing as well as
succeeding, and TLC finds a loop in the choices if there is one. Body chunks are
unbounded in the model; the deadline bounds them, as in the code.

## 4 Where the code and its documents disagree

| Run | Statement | What happens |
|---|---|---|
| `gateway_leak` | `gateway/README.md` 77-78: a disconnect "cancels the queued ticket ... then releases the token lease" | The loop polls, then looks at `client_gone`. If the client left during the wait and the poll hands out the lease, `cancel` finds nothing and no guard exists yet: those tokens stay leased until restart. |
| `training_resume` | `results/phase3_launch_plan.md` 27: "Each command starts a resumable tmux task" | A GRPO training interrupted after its opening window resumes from its checkpoint. The guard is new with the process, observes none of the opening steps, and rejects the training at its last step (`grpo.py` 412-420), at every later launch too. |

Noticed while modelling, without a run of their own:

- Gateway: a new small request may take the primary past an older queued one that does
  not fit (the queue is FIFO in itself, `PromotedInOrder`); `rejected_unavailable` is also
  the answer when the primary is down and the fallback is merely busy, where the
  README's table says "every route"; the degrade threshold counts queued tokens, where
  the table speaks of utilisation; a request for more than a full bucket is told to
  retry although no wait helps it.
- A disconnect. After a failed exchange the connection is back in the pool while
  `send_json_error` runs, and the `CancellationState` still refers to it: a client leaving
  now closes a connection another session may use (`gateway_server.cpp` 447). A disconnect
  seen while `acquire` waits finds nothing attached and is not looked at again (490). The
  README (77-78) says the watcher closes "the leased upstream connection".
- The breaker. A probe that ends without a recorded outcome leaves `probe_in_flight_` set and
  the route refused for good (588); a late failure of an attempt from before the trip
  clears the flag under a pending probe, so that a second joins it
  (`circuit_breaker.cpp` 75); README 80 promises "a single half-open probe ... after the
  recovery interval". `record_success` at the header resets the count before the failure
  of the same attempt (515): above a threshold of one, an upstream that always dies
  mid-stream never trips the breaker; the test of that name uses a threshold of one.
- Benchmarks: attempt numbers restart at 1 in every process, so a killed command's
  contaminated attempts are overwritten and are not in the later receipt, although
  `results/phase4_serving_report.md` 7 says they "remain linked from the raw receipt".
  A relaunched final stage overwrites the final receipt with new timestamps and then meets
  the append-only conflict; after a kill between the two books the ledger is never
  charged. A serving sweep whose process dies between receipt and run record is never
  recorded: later launches return early. The finite gate raises on a request
  without a status; the sustained script no longer does. The final stage of phase 5 reads the
  capacity and profile receipts without asking for their configuration or hashes (1544-1553) and
  compares the profiles by their request schedule (1319-1323): profiles of different
  configurations may be sealed, and an overload stage may be derived from a capacity that
  was measured again since.
- Training: the GPU-idle check sees trainers and evaluators only; the path of the
  reward-signal receipt and the ids of R3 and R4 do not name the backend, so the second
  backend of a seed replaces the receipt (`report.py` 350, 390 then calls R4 aborted for an
  attempt that is not the published one) and can never append its own run record; a candidate run
  terminated between finalisation and cross-check sets no policy when it is launched
  again; a parent adapter without a training receipt passes the preflight.
- Data: rules replaced while `relabel.py` runs can give splits of two versions under one
  seal. The stage itself no longer answers for them (`FrozenDataSound`), but
  `phase1_2.py` accepts them by hash; it labels every row again. `phase1_2.py` also loads
  receipts without comparing the CAL hash. A request the
  calibration recorded as failed is never asked again. Neither `api_calibrate.py` nor
  `calibrate.py` compares the CAL file with the manifest, only with each other's ledger
  (`calibrate.py` 223): on a file edited before the job starts, outside or inside the
  selection, the calibration report is written all the same, with the hash of the frozen
  dataset. `ReportsSound` therefore says "one content of the CAL file" of its answers, not "the
  frozen one"; the rescore does compare with the seals.

## 5 Proofs

TLC checks small instances; the proofs hold for every capacity, bound, threshold, rate,
number of sessions, jobs, complaints and splits, and every length of run. Each property
that a theorem states is the one a run checks, and every inductive invariant was
model-checked before it was proved.

**Assumptions.** All are on constants, stated in the modules that declare these, and
evaluated by TLC on every run:

- `AdmissionConfig`, `CircuitConfig`, `RateLimitConfig`, `PoolConfig`: what the constructors
  check (of rates and bursts, in parts of a token: positive rates, bursts of at least one), and the range of the parameters' types; `GatewayConfig` the same for the server;
  `ClockBound`, `AdmissionBounds`: the bounds of the models are naturals.
- `Scoring!AnswersAssumption`: an answer is unparsed, or has the fields of a ticket; their
  values are left open.
- `TeacherAssumption`: counts and prices are naturals. `TeacherGeneration!AnswersAssumption`:
  some answer costs the most, which `max_tokens` ensures. `SimilarAssumption`: near-duplication is symmetric and
  relates different complaints, as the comparison of MinHash signatures does.
- `TrainingAssumption`: the reference backend is not the candidate, the two R1 jobs have a run id
  each of their own and any other jobs may share one, guarded jobs have a
  parent, the export is no job, and the guard's opening window ends no later than the first
  checkpoint, which is due no later than the last step.
- `DatasetsAssumption`: no split is called like an audit, an artifact or a manifest, and
  every source slice goes to a split. `LabelAssumption`: CAL is one of the splits.
- `RatesAssumption`, `EndingsAssumption`: rates are positive, and every ending is a pair of error
  rates and two flags. `CampaignsAssumption`, `CommitsAssumption`: the campaigns are among the four,
  and commits are numbered from 1, each with a configuration.
- `AbsentAssumption` (twice): a file's content is not the mark of a missing file.

| Module | Proved |
|---|---|
| `AdmissionProofs` | type correctness and all nine properties of the run `admission`, the refinement `ImplementsLedger` among them |
| `GuardProofs` | type correctness of the breaker, and all of the runs `circuit` (`TripsOnStreak`, `OneTrialPerOutcome`, `QuietAfterFailure`), `rate_limiter` (`BudgetSinceInsertion`, `RetryAfterExact`, `EvictsLeastRecent`) and `scoring` (`LabelsAreSound`, `RewardIsForDecisions`, `NearMissIsWorse`) |
| `GatewayProofs` | `ConnectionsAccounted`, `SessionsAccounted`, `LeaksOnlyFromQueue`, `AdmittedMeansAllowed`: all the safety of the runs `gateway` and `gateway_live` |
| `TeacherGenerationProofs` | `AnsweredOnce`, `CallsBounded`, `CostCapped`, `ManifestReplays`, `CorporaSound`, and the refinement `ImplementsJob`: all of the run `teacher` |
| `TrainingProofs` | type correctness, `LedgerSound`, `EvidenceAgrees`, `SignalProved`, `UnslothGated`, `ExportSound`: all of the run `training` |
| `DatasetsProofs` | `FrozenDataSound`, `SealedOnce`, `ReadersSound`: all of the run `labels` |
| `BenchmarksProofs` | `EvidenceKept`, `ReceiptSound`, `BooksAgree`: all of the run `bench` |

**The argument for admission.** None of the invariants is inductive alone. Releasing
a lease keeps the counter exact only if ids are unique among leases; ids stay unique
because leases and tickets share one counter; `cancel` releases the right lease only
if ready leases are active and no lease is promised twice; and the counter never
goes negative because it is the sum of the leases. `IndInv` is therefore the
conjunction of type, `LeasesAccounted`, `QueueAccounted`, `TicketsResolvedOnce` and
`NoLeakedLease`. It is equivalent to `WellFormed(ctl)` plus two facts on the callers'
side (`IndInvMeans`), so the work is per method and about one controller:

1. `TokensOfUnion`, `TokensOfRest`: sums of tokens over disjoint sets and over what
   is left after removal, from the cardinality of unions and products.
2. `MakeLeaseOK`, `ReleaseLeaseOK`, `DequeueOK`, `EnqueueOK`: the elementary updates.
3. `ExpireLockedOK`, `PromoteFrontOK`, `PromoteLockedOK`, `RefreshOK`: the two loops.
   The loop of `promote_locked` is a recursive function on `0..n`; that it is defined
   and keeps `WellFormed` at each index uses `NatSetInduction`, which derives
   induction for a *set* of naturals from the well-foundedness of `<`, the library's
   induction theorem being out of reach. `Promotes` is the transitive relation that an
   iteration establishes; it carries the order of promotion.
4. `AdmitOK`, `PollOK`, `CancelOK`, `CompleteOK`: what each method does to
   well-formedness, tickets and the callers' leases.
5. `NextPreserves`, and `Inductive` by temporal logic.

`NobodyWaitsOnIdle` needs that every queued request fits an idle route it may use
(`NextKeepsHope`: only `admit` adds to the queue, after `Oversize`) and what the loop of
`promote_locked` does on an idle controller: as long as nothing is leased the head fits, so
the queue is empty or a lease is out when it stops (`IdleEmptiesQueue`). `ChargedInFull` holds of every call, whatever
the controller holds.

`ImplementsTheLedger` maps the line to `queue_`, the promises to `ready_`, the refused to
`terminal_` and the leases held to the active ones that are not ready, so the ledger knows
nothing of tokens, deadlines or service times. The capacities reach it as the parameter
`Fits`. That the ledger is sound in every state follows from `WellFormed` (`LedgerIsSound`).
Every admission and every poll begins with a refresh, of which `Settles` is what a caller
may see (`RefreshSettles`, from `Promotes`); `SettleStep` makes it a step of the ledger, up
to the one ticket that is answered. What is left is a lemma per method: `admit` lends,
queues or defers; `poll` answers or defers, and a ticket that it promotes and serves at once
is served because nobody stays in line before it; `cancel` withdraws from whichever
of the three places the ticket is in, and `complete` returns. Numbers nobody knows stutter.

**The argument for the breaker.** `IndInv` adds to the two invariants that a tripped
breaker's `opened_at` is the time of the latest failure; without it
`QuietAfterFailure` does not follow. `SuccessKept` and `FailureKept` treat the
outcomes once, for all the actions that record one.

**The argument for the rate limiter.** `RateInv` says that what a client was let through
and what is left in its bucket was paid for: it is at most one burst and what the rate has
added up to the last *refill*. The budget speaks of the time up to now, so it follows, but
is not inductive itself: a refill after an idle spell must not be able to add more than
the clock has. `CeilDivExact` is what Retry-After needs of rounding up. For
`EvictsLeastRecent` the map's bound is part of the invariant, so that one victim is enough.

**The argument for the gateway.** `GatewayInv` says three things. A coroutine holds what its
point of suspension says (`WellSuspended`): a ticket while it polls, a lease inside
`proxy_request`, a connection between `acquire` and `release`. A connection is in use
exactly while one session has it. And the tickets and leases the controller has out are
those of the sessions, or were leaked. The first is what makes the other two inductive:
without it nothing relates a `catch` clause to what there is to give back. The lemmas of
`AdmissionControllerProofs` say what each method does to tickets and leases; a lemma per way
out of a coroutine says what it gives back; each action is then one case.
`LeaksOnlyFromQueue` and `AdmittedMeansAllowed` are about one step and use the invariant.

**The argument for teacher generation.** `TeacherInv` joins the log (attempts of a complaint
are numbered without gaps, at most one is ok), the process (what is still to be called is
neither answered nor in flight; the batch in flight is within the plan that let it go), the
two bounds and the files (the writer has written everything before the file it is at, each
from the log as it is). `CostCapped` needs the plan of the batch, not only of the log;
`CallsBounded` needs that a batch lost by a raise counts as a stop. Sums over sets of
complaints are library folds defined by choice; `SumExists` and `TotalIsSum` give them
their recursive equation by induction on the size of the set, in the form of
`NatSetInduction`. The corpus filter is a recursive function, and `CorporaSound` follows from
its equation at every index. `ImplementsTheJob` maps answers to the ok records of the log and
the seal to the manifest: `AppendBatch` and the smoke run add answers, the manifest is the
seal, every other step stutters.

**The argument for training.** Three invariants, each about one kind of evidence. `LedgerInv`
identifies rows and attempts: a running attempt has no row before its wrapper has settled,
and an attempt that ended has one or was lost with its pod. `EvidenceInv` says what a stage of
a session knows of the job's files: training runs only without a receipt, a receipt is only
written of an adapter whose guard passed. Where two jobs share a run id, it says which of
them a run record or a reward-signal receipt is of: `SignalWritten` and
`OthersSignalStands` follow a write by one for the other. `PolicyInv` says that the policy is decided once,
after both R1 runs were finalised, and that no other Unsloth job runs before. `ExportInv`
follows the export's files in the same way. `StepCases` reduces the many actions to a handful
of effects (starts, moves, bills, leaves, idles), so that each invariant is shown for effects.

**The argument for the data.** `DataInv` says that each manifest seals the pinned rows under
versions its stage allows, and that a running stage relies on a sealed source nobody edits
meanwhile and has written everything before the file it is at. The splits of version 2 may
be sealed under two versions of the rules, and the proof shows where this is repaired: the
stage answers for them only while version 2 is installed, and rules only get newer.
That no complaint is in two splits is a fact about the snapshot (`PinnedClean`), checked once
by `splits.py` and inherited through the seals. `LabelInv` adds that the receipts are of one
CAL file, one per complaint, and that a ledger says what is true of the receipts it names.

**The argument for the scorer.** The run scores every answer with a right or a wrong value in
each field; the theorems hold for every set of answers with the fields of a ticket, whatever the
values. That the reward is full exactly on success is a count: four decisions and validity make
five only if none is missing (`DecisionsCounted`, `FullOnSuccess`). Which labels the funnel accepts
is a case for each tool (`Quotes`). That metadata does not pay
follows because no decision reads it (`MetadataDoesNotPay`). For the near miss the proof gives
the witness: the perturbations are tried cyclically, so the urgency is reached from every
entry (`NearMissFound`), and since an accepted answer has the urgency of its label, the next urgency in
the cycle is valid and loses that decision (`CycleIsWorse`).

**The argument for the benchmarks.** `EvidenceKept` is about sealed stages only, and says nothing
while a stage is measured. `EvidenceInv` adds what the process is about to rely on: as long as it
writes about a stage, that stage is not sealed (`FlightSound`), which is why a retained attempt
cannot overwrite one that a sealed stage lists although attempt numbers restart; the attempts
it remembers are on disk under their numbers (`AttemptsKept`); and what waits to be sealed is
clean. `ReceiptSound` follows from three facts about a command: its source does not move while it runs
(`SourcePinned`); every stage its receipt will name is either still to do or was accepted under
that source and is still there (`DoneIsRelied`), since nobody removes stages under a running
command; and a gateway burst younger than the capacity on disk carries that capacity's load
(`LoadDerived`). A burst older than the capacity may carry another load, after a removal by hand: `BaselineFirst` then refuses the receipt, because
the capacity, a baseline stage, was sealed after the burst was measured. `SameLoad` alone
would not do, because it compares the two overload stages with each other. What a passed gate
means follows from the distance of two rates (`ParityBounds`). `BooksInv` adds that
between the two books the process carries what it has just recorded.

**Only model-checked.** `EverySessionEnds`: liveness rests on fairness and `ENABLED`, which the
prover does not treat. The two runs of section 4 show that their statements are false. Every safety
property that a passing run checks is stated by a theorem. `UpstreamPool` has no
state machine of its own; the proofs about `Gateway` cover its operators.

## 6 What is not modelled

- Token estimator, metrics, configuration and `main` of the gateway: no shared state
  that a decision reads. The estimator's result enters as an arbitrary cost.
- Parsing, keep-alive headers, timeouts of reading the request, `/metrics`, `/healthz`.
- Numerics: losses, optimisers, generation, MinHash, agreement and latency statistics,
  the contents of an evaluation, the structured-output benchmark.
- Of the training ladder: R0 (evaluation only), the archive of rollouts, ablation and
  fresh pools, validation of the training rows, context audit, smoke runs, hardware and
  clean-tree checks, edits of a configuration between launches, torn lines in the two
  books, `make eval` by hand. `LosePod` ends all sessions at once.
- Of the data side: downloads, rendering of audits, two commands at the same time, a cut
  just before the newline of an append.
- Of the benchmarks: load generation, the optimisation evidence, hardware and identity
  checks (assumed to pass), bringing the gateway up and down around the stages,
  `validate_existing_receipt` (it only reads). Commands run one at a time; `import-final`
  runs on the disk that measured.
- Reports, release verification, demo: rendering and hashing of sealed files.
- Remote hosts, Kubernetes manifests and provisioning scripts: external systems.

## 7 Plan

What is done is marked.

1. `AdmissionController`, `Admission`, `CircuitBreaker`, `Circuit` with proofs; `RateLimiter`,
   `UpstreamPool`, `Gateway`: models and runs (done).
2. `TeacherGeneration` with `Job`; `Verifier` and `Scoring`; `Datasets` and `LabelRuns`;
   `Training` and `Export`; `Measurements` and `Benchmarks`: models and runs (done).
3. Proofs about `RateLimiter`, `Gateway`, `TeacherGeneration` with `Job`, `Training` with
   `Export`, `Datasets` with `LabelRuns` (done).
4. `TokenLedger`: the abstract promise of admission, with `Admission` shown to implement it
   by TLC and by proof (done).
5. Proofs about `Scoring` and `Benchmarks` (done).
6. Publication (`release.py`, `publish_phase6_hf.py`): a partial upload and its resumption.
