--------------------------- MODULE TrainingProofs ---------------------------
(***************************************************************************)
(* The safety of the training ladder and of the export task, for any set   *)
(* of jobs, any parents, any step counts and any number of launches,       *)
(* commits, terminations and lost pods.  First the types, then what a step *)
(* may do to the sessions and the ledger, then one inductive invariant per *)
(* safety property.                                                        *)
(***************************************************************************)
EXTENDS Export, FiniteSetTheorems, TLAPS

Checkpoints == [step : Nat, signal : Seq(Signals)]

(* The typing of the ladder's state.                                       *)
TypeOK ==
    /\ attempts \in Nat /\ commit \in Nat
    /\ session \in [Tasks -> Wrappers \cup {Absent}]
    /\ checkpoint \in [Jobs -> Checkpoints \cup {Absent}]
    /\ adapter \in [Jobs -> Adapters \cup {Absent}]
    /\ trained \in [Jobs -> Adapters \cup {Absent}]
    /\ evaluated \in [Jobs -> Evaluations \cup {Absent}]
    /\ signalled \in [SignalIds -> SignalReceipts \cup {Absent}]
    /\ policy \in {"pending", "agreement_passed", "agreement_failed"}

(* A step of the ladder or of the export, with the jobs of the three       *)
(* stages taken together: every action once.                               *)
LEMMA StepCases ==
  ASSUME ENext
  PROVE  \/ /\ UNCHANGED exports
            /\ \/ \E j \in Jobs :
                     \/ StartTrainer(j) \/ TrainStep(j) \/ SaveAdapter(j)
                     \/ WriteTrainingReceipt(j) \/ Evaluate(j) \/ AppendRun(j)
                     \/ AppendLedger(j) \/ NoteCompleted(j) \/ Complete(j)
               \/ \E t \in Tasks : Launch(t) \/ RecordFailure(t) \/ Terminate(t)
               \/ LosePod \/ Commit
         \/ StartExport \/ BeginMerge \/ FinishMerge \/ Quantize
         \/ WriteManifest \/ WriteDurable \/ BillExport \/ FinishExport
BY TrainingAssumption
DEF ENext, Next, RunSft, RunDpo, RunGrpo, RunTrainer, JobNext, FinalizeFull

(* A running session is a wrapper's record, and moving it on keeps it one. *)
LEMMA GotoTyped ==
  ASSUME TypeOK, NEW t \in Tasks, session[t] # Absent, NEW s \in Stages, Goto(t, s)
  PROVE  /\ session' \in [Tasks -> Wrappers \cup {Absent}]
         /\ session'[t] = [session[t] EXCEPT !.at = s] /\ session'[t] \in Wrappers
         /\ \A u \in Tasks \ {t} : session'[u] = session[u]
<1>1. session[t] \in Wrappers
  BY DEF TypeOK
<1>2. [session[t] EXCEPT !.at = s] \in Wrappers
  BY <1>1 DEF Wrappers
<1>. QED BY <1>2 DEF TypeOK, Goto

LEMMA InitTyped == EInit => TypeOK
BY DEF EInit, Init, TypeOK

(* The receipt of a job of this run id, and no other, is replaced.         *)
LEMMA SignalWritten ==
  ASSUME TypeOK, NEW j \in Guarded, NEW status \in {"passed", "failed", "aborted"},
         WriteSignal(j, status)
  PROVE  /\ signalled' \in [SignalIds -> SignalReceipts \cup {Absent}]
         /\ signalled'[RunId[j]] # Absent
         /\ signalled'[RunId[j]].job = j /\ signalled'[RunId[j]].status = status
         /\ \A id \in SignalIds \ {RunId[j]} : signalled'[id] = signalled[id]
<1>1. RunId[j] \in SignalIds /\ [job |-> j, status |-> status] \in SignalReceipts
  BY DEF SignalIds, SignalReceipts
<1>. QED BY <1>1, AbsentAssumption DEF WriteSignal, TypeOK

(* The trainer starts from a typed session, whatever it loads.             *)
LEMMA TrainerTyped ==
  ASSUME TypeOK, NEW j \in Jobs, session[j] # Absent, ParentSaved(j)
  PROVE  /\ Trainer(j) \in Wrappers
         /\ Trainer(j).started = session[j].started
         /\ Trainer(j).at = IF trained[j] # Absent THEN "evaluate" ELSE "train"
<1>1. session[j] \in Wrappers
  BY DEF TypeOK, Tasks
<1>2. CASE trained[j] # Absent
  BY <1>1, <1>2 DEF Trainer, Wrappers, Stages
<1>3. CASE trained[j] = Absent
  <2>1. (IF Parent[j] = Absent THEN 0 ELSE adapter[Parent[j]].by) \in Nat
    BY TrainingAssumption DEF TypeOK, ParentSaved, Adapters
  <2>2. /\ ParentLoaded(j) \in Wrappers
        /\ ParentLoaded(j).started = session[j].started /\ ParentLoaded(j).at = "train"
    BY <1>1, <2>1 DEF ParentLoaded, Wrappers, Stages
  <2>3. checkpoint[j] # Absent =>
          checkpoint[j].step \in Nat /\ checkpoint[j].signal \in Seq(Signals)
    BY DEF TypeOK, Checkpoints
  <2>4. DEFINE p == ParentLoaded(j)
  <2>5. /\ Resumed(j, p) \in Wrappers
        /\ Resumed(j, p).started = p.started /\ Resumed(j, p).at = p.at
    <3> HIDE DEF p
    <3>1. p \in Wrappers
      BY <2>2 DEF p
    <3>. QED BY <2>3, <3>1 DEF Resumed, Wrappers
  <2>. QED BY <1>3, <2>2, <2>5 DEF Trainer
<1>. QED BY <1>2, <1>3

(* A training step keeps the session a wrapper's record of the same        *)
(* attempt, still in training.                                             *)
LEMMA SteppedTyped ==
  ASSUME NEW p \in Wrappers, NEW signal \in Signals
  PROVE  /\ Stepped(p, signal) \in Wrappers
         /\ Stepped(p, signal).started = p.started /\ Stepped(p, signal).at = p.at
<1>1. Append(p.signal, signal) \in Seq(Signals)
  BY DEF Wrappers
<1>2. p.step + 1 \in Nat
  BY DEF Wrappers
<1>. QED BY <1>1, <1>2 DEF Stepped, Wrappers

(* Every step keeps the types.                                             *)
LEMMA NextTyped == TypeOK /\ [ENext]_allVars => TypeOK'
<1> SUFFICES ASSUME TypeOK, [ENext]_allVars PROVE TypeOK'
  OBVIOUS
<1> USE TrainingAssumption
<1>1. ASSUME NEW j \in Jobs, StartTrainer(j) PROVE TypeOK'
  <2>1. j \in Tasks /\ session[j] # Absent
    BY <1>1 DEF StartTrainer, At, Tasks
  <2>2. CASE Preflight(j)
    <3>1. Trainer(j) \in Wrappers
      BY <2>1, <2>2, TrainerTyped DEF Preflight
    <3>. QED BY <1>1, <2>1, <2>2, <3>1 DEF StartTrainer, TypeOK, files, books
  <2>3. CASE ~Preflight(j)
    <3>1. Goto(j, "trap") /\ UNCHANGED <<attempts, files, books, commit, lost>>
      BY <1>1, <2>3 DEF StartTrainer
    <3>. QED BY <2>1, <3>1, GotoTyped DEF TypeOK, files, books, Stages
  <2>. QED BY <2>2, <2>3
<1>2. ASSUME NEW j \in Jobs, TrainStep(j) PROVE TypeOK'
  <2>1. j \in Tasks /\ session[j] # Absent /\ session[j] \in Wrappers
    BY <1>2 DEF TrainStep, At, Tasks, TypeOK
  <2>2. PICK signal \in Signals :
          LET p == Stepped(session[j], signal)
              aborted == j \in Guarded /\ GuardAborts(p)
          IN /\ session' = [session EXCEPT ![j] = IF aborted THEN [p EXCEPT !.at = "trap"] ELSE p]
             /\ checkpoint' = IF aborted \/ p.step % SaveSteps # 0 THEN checkpoint
                              ELSE [checkpoint EXCEPT ![j] = [step |-> p.step, signal |-> p.signal]]
             /\ IF aborted THEN WriteSignal(j, IF AllZeroStd(p) THEN "aborted" ELSE "failed")
                ELSE UNCHANGED signalled
    BY <1>2 DEF TrainStep, Signals
  <2> DEFINE p == Stepped(session[j], signal)
  <2>3. p \in Wrappers
    BY <2>1, SteppedTyped
  <2> HIDE DEF p
  <2>4. [p EXCEPT !.at = "trap"] \in Wrappers /\ [step |-> p.step, signal |-> p.signal] \in Checkpoints
    BY <2>3 DEF Wrappers, Stages, Checkpoints
  <2>5. session' \in [Tasks -> Wrappers \cup {Absent}]
    BY <2>2, <2>3, <2>4 DEF TypeOK, p
  <2>6. checkpoint' \in [Jobs -> Checkpoints \cup {Absent}]
    BY <2>2, <2>4 DEF TypeOK, p
  <2>7. signalled' \in [SignalIds -> SignalReceipts \cup {Absent}]
    BY <2>2, SignalWritten DEF TypeOK
  <2>. QED BY <1>2, <2>5, <2>6, <2>7 DEF TrainStep, TypeOK, books
<1>3. ASSUME NEW j \in Jobs, SaveAdapter(j) PROVE TypeOK'
  <2>1. j \in Tasks /\ session[j] # Absent /\ session[j] \in Wrappers
    BY <1>3 DEF SaveAdapter, At, Tasks, TypeOK
  <2>2. /\ adapter' \in [Jobs -> Adapters \cup {Absent}]
    <3>1. [by |-> session[j].started, base |-> session[j].base, signal |-> session[j].signal] \in Adapters
      BY <2>1 DEF Wrappers, Adapters
    <3>. QED BY <1>3, <3>1 DEF SaveAdapter, TypeOK
  <2>3. signalled' \in [SignalIds -> SignalReceipts \cup {Absent}]
    BY <1>3, SignalWritten DEF SaveAdapter, TypeOK
  <2>4. Goto(j, "trap") \/ Goto(j, "receipt")
    BY <1>3 DEF SaveAdapter
  <2>5. session' \in [Tasks -> Wrappers \cup {Absent}]
    BY <2>1, <2>4, GotoTyped DEF Stages
  <2>. QED BY <1>3, <2>2, <2>3, <2>5 DEF SaveAdapter, TypeOK, books
<1>4. ASSUME NEW j \in Jobs, WriteTrainingReceipt(j) PROVE TypeOK'
  <2>1. j \in Tasks /\ session[j] # Absent
    BY <1>4 DEF WriteTrainingReceipt, At, Tasks
  <2>2. session' \in [Tasks -> Wrappers \cup {Absent}]
    BY <1>4, <2>1, GotoTyped DEF WriteTrainingReceipt, Stages
  <2>. QED BY <1>4, <2>2 DEF WriteTrainingReceipt, TypeOK, books
<1>5. ASSUME NEW j \in Jobs, Evaluate(j) PROVE TypeOK'
  <2>1. j \in Tasks /\ session[j] # Absent
    BY <1>5 DEF Evaluate, At, Tasks
  <2>2. Goto(j, "finalize") \/ Goto(j, "trap")
    BY <1>5 DEF Evaluate
  <2>3. session' \in [Tasks -> Wrappers \cup {Absent}]
    BY <2>1, <2>2, GotoTyped DEF Stages
  <2>4. Evaluation(j) \in Evaluations
    BY DEF Evaluation, Evaluations, TypeOK
  <2>5. evaluated' \in [Jobs -> Evaluations \cup {Absent}]
    BY <1>5, <2>4 DEF Evaluate, TypeOK
  <2>. QED BY <1>5, <2>3, <2>5 DEF Evaluate, TypeOK, books
<1>6. ASSUME NEW j \in Jobs, AppendRun(j) PROVE TypeOK'
  <2>1. j \in Tasks /\ session[j] # Absent /\ session[j] \in Wrappers
    BY <1>6 DEF AppendRun, At, Tasks, TypeOK
  <2>2. PICK h \in Hours :
          \/ Goto(j, "trap")
          \/ session' = [session EXCEPT ![j].at = "append ledger", ![j].hours = h]
    BY <1>6 DEF AppendRun
  <2>3. [session[j] EXCEPT !.at = "append ledger", !.hours = h] \in Wrappers
    BY <2>1 DEF Wrappers, Stages
  <2>4. session' \in [Tasks -> Wrappers \cup {Absent}]
    BY <2>1, <2>2, <2>3, GotoTyped DEF Stages, TypeOK
  <2>. QED BY <1>6, <2>4 DEF AppendRun, TypeOK, files
<1>7. ASSUME NEW j \in Jobs, AppendLedger(j) PROVE TypeOK'
  <2>1. j \in Tasks /\ session[j] # Absent
    BY <1>7 DEF AppendLedger, At, Tasks
  <2>2. Goto(j, "finalized") \/ Goto(j, "trap")
    BY <1>7 DEF AppendLedger
  <2>3. session' \in [Tasks -> Wrappers \cup {Absent}]
    BY <2>1, <2>2, GotoTyped DEF Stages
  <2>. QED BY <1>7, <2>3 DEF AppendLedger, TypeOK, files
<1>8. ASSUME NEW j \in Jobs, NoteCompleted(j) PROVE TypeOK'
  <2>1. j \in Tasks /\ session[j] # Absent
    BY <1>8 DEF NoteCompleted, At, Tasks
  <2>2. session' \in [Tasks -> Wrappers \cup {Absent}]
    BY <1>8, <2>1, GotoTyped DEF NoteCompleted, Stages
  <2>. QED BY <1>8, <2>2 DEF NoteCompleted, TypeOK, files, books
<1>9. ASSUME NEW j \in Jobs, Complete(j) PROVE TypeOK'
  BY <1>9 DEF Complete, TypeOK, files
<1>10. ASSUME NEW t \in Tasks, Launch(t) PROVE TypeOK'
  <2>1. [at |-> "preflight", started |-> attempts', hours |-> 0, step |-> 0,
         resumed |-> 0, base |-> 0, signal |-> <<>>] \in Wrappers
    <3>1. attempts' \in Nat /\ <<>> \in Seq(Signals)
      BY <1>10 DEF Launch, TypeOK
    <3>. QED BY <3>1 DEF Wrappers, Stages
  <2>. QED BY <1>10, <2>1 DEF Launch, TypeOK, files, books
<1>11. ASSUME NEW t \in Tasks, RecordFailure(t) PROVE TypeOK'
  BY <1>11 DEF RecordFailure, TypeOK, files
<1>12. ASSUME NEW t \in Tasks, Terminate(t) PROVE TypeOK'
  <2>1. [session[t] EXCEPT !.at = "trap"] \in Wrappers
    <3>1. session[t] \in Wrappers
      BY <1>12 DEF Terminate, TypeOK
    <3>. QED BY <3>1 DEF Wrappers, Stages
  <2>. QED BY <1>12, <2>1 DEF Terminate, TypeOK, files, books
<1>13. ASSUME LosePod PROVE TypeOK'
  BY <1>13 DEF LosePod, TypeOK, files, books
<1>14. ASSUME Commit PROVE TypeOK'
  BY <1>14 DEF Commit, TypeOK, files, books
<1>15. Exporter \in Tasks
  BY DEF Tasks
<1>16. ASSUME StartExport PROVE TypeOK'
  <2>1. session[Exporter] # Absent
    BY <1>16 DEF StartExport, At
  <2>2. \E s \in Stages : Goto(Exporter, s)
    BY <1>16 DEF StartExport, Stages
  <2>3. session' \in [Tasks -> Wrappers \cup {Absent}]
    BY <1>15, <2>1, <2>2, GotoTyped
  <2>. QED BY <1>16, <2>3 DEF StartExport, TypeOK, files, books
<1>17. ASSUME BeginMerge PROVE TypeOK'
  BY <1>17 DEF BeginMerge, vars, TypeOK, files, books
<1>18. ASSUME FinishMerge \/ Quantize \/ WriteManifest \/ WriteDurable PROVE TypeOK'
  <2>1. session[Exporter] # Absent
    BY <1>18 DEF FinishMerge, Quantize, WriteManifest, WriteDurable, At
  <2>2. \E s \in Stages : Goto(Exporter, s)
    BY <1>18 DEF FinishMerge, Quantize, WriteManifest, WriteDurable, Stages
  <2>3. session' \in [Tasks -> Wrappers \cup {Absent}]
    BY <1>15, <2>1, <2>2, GotoTyped
  <2>. QED BY <1>18, <2>3 DEF FinishMerge, Quantize, WriteManifest, WriteDurable,
                              TypeOK, files, books
<1>19. ASSUME BillExport PROVE TypeOK'
  <2>1. session[Exporter] # Absent
    BY <1>19 DEF BillExport, At
  <2>2. session' \in [Tasks -> Wrappers \cup {Absent}]
    BY <1>15, <1>19, <2>1, GotoTyped DEF BillExport, Stages
  <2>. QED BY <1>19, <2>2 DEF BillExport, TypeOK, files
<1>20. ASSUME FinishExport PROVE TypeOK'
  <2>1. session[Exporter] # Absent
    BY <1>20 DEF FinishExport, At
  <2>2. Goto(Exporter, "completed") \/ session' = [session EXCEPT ![Exporter] = Absent]
    BY <1>20 DEF FinishExport
  <2>3. session' \in [Tasks -> Wrappers \cup {Absent}]
    BY <1>15, <2>1, <2>2, GotoTyped DEF Stages, TypeOK
  <2>. QED BY <1>20, <2>3 DEF FinishExport, TypeOK, files, books
<1>21. CASE UNCHANGED allVars
  BY <1>21 DEF allVars, vars, TypeOK, files, books
<1>. QED
  BY StepCases, <1>1, <1>2, <1>3, <1>4, <1>5, <1>6, <1>7, <1>8, <1>9, <1>10, <1>11,
     <1>12, <1>13, <1>14, <1>16, <1>17, <1>18, <1>19, <1>20, <1>21

(* The ladder's state is always typed.                                     *)
THEOREM TypeCorrect == ESpec => []TypeOK
BY InitTyped, NextTyped, PTL DEF ESpec

-----------------------------------------------------------------------------
(* What a step does to the sessions and the ledger.  A wrapper has settled *)
(* once it is past its ledger row or in its trap.                          *)
Booked == {"finalized", "completed"}
Settled == Booked \cup {"trap"}

Opens(t) ==
    /\ session[t] = Absent /\ attempts' = attempts + 1
    /\ \E w \in Wrappers : /\ w.started = attempts + 1 /\ w.at = "preflight"
                           /\ session' = [session EXCEPT ![t] = w]
    /\ UNCHANGED <<ledger, lost>>

Moves(t) ==
    /\ session[t] # Absent
    /\ \E w \in Wrappers : /\ w.started = session[t].started
                           /\ w.at \in Booked => session[t].at \in Booked
                           /\ session[t].at \in Settled => w.at \in Settled
                           /\ session' = [session EXCEPT ![t] = w]
    /\ UNCHANGED <<attempts, ledger, lost>>

Bills(t) ==
    /\ At(t, "append ledger") /\ Goto(t, "finalized")
    /\ \E h \in Nat : ledger' = ledger \cup {LedgerRow(t, "complete", h)}
    /\ UNCHANGED <<attempts, lost>>

Leaves(t) ==
    /\ At(t, "completed") /\ session' = [session EXCEPT ![t] = Absent]
    /\ UNCHANGED <<attempts, ledger, lost>>

Idles == UNCHANGED <<attempts, session, ledger, lost>>

(* Going to a stage that is not past the ledger row moves a session that   *)
(* has not settled.                                                        *)
LEMMA GotoMoves ==
  ASSUME TypeOK, NEW t \in Tasks, session[t] # Absent, NEW s \in Stages, Goto(t, s),
         s \in Booked => session[t].at \in Booked,
         session[t].at \in Settled => s \in Settled,
         UNCHANGED <<attempts, ledger, lost>>
  PROVE  Moves(t)
<1>1. session[t] \in Wrappers
  BY DEF TypeOK
<1>2. [session[t] EXCEPT !.at = s] \in Wrappers
  BY <1>1 DEF Wrappers
<1>3. /\ [session[t] EXCEPT !.at = s].started = session[t].started
      /\ [session[t] EXCEPT !.at = s].at = s
  BY <1>1 DEF Wrappers
<1>4. session' = [session EXCEPT ![t] = [session[t] EXCEPT !.at = s]]
  BY DEF Goto
<1>. QED BY <1>2, <1>3, <1>4 DEF Moves

(* Every step opens a session, moves one, bills one, ends one that is      *)
(* billed, lets a trap bill one, loses the pod, or leaves all that alone.  *)
LEMMA StepShapes ==
  ASSUME TypeOK, [ENext]_allVars
  PROVE  \/ \E t \in Tasks : \/ Opens(t) \/ Moves(t) \/ Bills(t) \/ Leaves(t)
                             \/ RecordFailure(t)
         \/ LosePod \/ Idles
<1> USE TrainingAssumption DEF Tasks
<1>1. ASSUME NEW j \in Jobs, StartTrainer(j) PROVE Moves(j)
  <2>1. session[j] # Absent /\ session[j].at = "preflight" /\ j \in Tasks
    BY <1>1 DEF StartTrainer, At
  <2>2. CASE Preflight(j)
    BY <1>1, <2>1, <2>2, TrainerTyped
    DEF StartTrainer, Moves, Preflight, Booked, Settled, books
  <2>3. CASE ~Preflight(j)
    BY <1>1, <2>1, <2>3, GotoMoves DEF StartTrainer, Booked, Settled, Stages, books
  <2>. QED BY <2>2, <2>3
<1>2. ASSUME NEW j \in Jobs, TrainStep(j) PROVE Moves(j)
  <2>1. session[j] # Absent /\ session[j].at = "train" /\ session[j] \in Wrappers
    BY <1>2 DEF TrainStep, At, TypeOK
  <2>2. PICK signal \in Signals :
          LET p == Stepped(session[j], signal)
              aborted == j \in Guarded /\ GuardAborts(p)
          IN session' = [session EXCEPT ![j] = IF aborted THEN [p EXCEPT !.at = "trap"] ELSE p]
    BY <1>2 DEF TrainStep, Signals
  <2> DEFINE p == Stepped(session[j], signal)
  <2>3. p \in Wrappers /\ p.started = session[j].started /\ p.at = "train"
    BY <2>1, SteppedTyped
  <2>4. \E w \in {p, [p EXCEPT !.at = "trap"]} : session' = [session EXCEPT ![j] = w]
    BY <2>2
  <2> HIDE DEF p
  <2>5. /\ [p EXCEPT !.at = "trap"] \in Wrappers
        /\ [p EXCEPT !.at = "trap"].started = session[j].started
        /\ [p EXCEPT !.at = "trap"].at = "trap"
    BY <2>3 DEF Wrappers, Stages
  <2>. QED BY <1>2, <2>1, <2>3, <2>4, <2>5 DEF TrainStep, Moves, Booked, Settled, books
<1>3. ASSUME NEW j \in Jobs,
             SaveAdapter(j) \/ WriteTrainingReceipt(j) \/ Evaluate(j)
      PROVE  Moves(j)
  <2>1. /\ session[j] # Absent /\ session[j].at \in {"train", "receipt", "evaluate"}
        /\ UNCHANGED <<attempts, ledger, lost>>
    BY <1>3 DEF SaveAdapter, WriteTrainingReceipt, Evaluate, At, books
  <2>2. \E s \in {"trap", "receipt", "evaluate", "finalize"} : Goto(j, s)
    BY <1>3 DEF SaveAdapter, WriteTrainingReceipt, Evaluate
  <2>. QED BY <2>1, <2>2, GotoMoves DEF Booked, Settled, Stages
<1>4. ASSUME NEW j \in Jobs, AppendRun(j) PROVE Moves(j)
  <2>1. /\ session[j] # Absent /\ session[j].at = "finalize" /\ session[j] \in Wrappers
        /\ UNCHANGED <<attempts, ledger, lost>>
    BY <1>4 DEF AppendRun, At, TypeOK
  <2>2. PICK h \in Nat :
          \/ Goto(j, "trap")
          \/ session' = [session EXCEPT ![j].at = "append ledger", ![j].hours = h]
    BY <1>4 DEF AppendRun
  <2>3. CASE Goto(j, "trap")
    BY <2>1, <2>3, GotoMoves DEF Booked, Settled, Stages
  <2>4. CASE session' = [session EXCEPT ![j].at = "append ledger", ![j].hours = h]
    <3> DEFINE w == [session[j] EXCEPT !.at = "append ledger", !.hours = h]
    <3>1. w \in Wrappers /\ w.started = session[j].started /\ w.at = "append ledger"
      BY <2>1 DEF Wrappers, Stages
    <3>2. session' = [session EXCEPT ![j] = w]
      BY <2>1, <2>4 DEF TypeOK
    <3>. QED BY <2>1, <3>1, <3>2 DEF Moves, Booked, Settled
  <2>. QED BY <2>2, <2>3, <2>4
<1>5. ASSUME NEW j \in Jobs, AppendLedger(j) PROVE Moves(j) \/ Bills(j)
  <2>1. session[j] # Absent /\ session[j].at = "append ledger" /\ session[j].hours \in Nat
    BY <1>5 DEF AppendLedger, At, TypeOK, Wrappers
  <2>2. CASE Conflicts(ledger, LedgerRow(j, "complete", session[j].hours))
    BY <1>5, <2>1, <2>2, GotoMoves DEF AppendLedger, Booked, Settled, Stages
  <2>3. CASE ~Conflicts(ledger, LedgerRow(j, "complete", session[j].hours))
    BY <1>5, <2>1, <2>3 DEF AppendLedger, Bills
  <2>. QED BY <2>2, <2>3
<1>6. ASSUME NEW j \in Jobs, NoteCompleted(j) PROVE Moves(j)
  BY <1>6, GotoMoves DEF NoteCompleted, At, Booked, Settled, Stages, books
<1>7. ASSUME NEW j \in Jobs, Complete(j) PROVE Leaves(j)
  BY <1>7 DEF Complete, Leaves
<1>8. ASSUME NEW t \in Tasks, Launch(t) PROVE Opens(t)
  <2>1. <<>> \in Seq(Signals) /\ attempts + 1 \in Nat
    BY DEF TypeOK
  <2>. QED BY <1>8, <2>1 DEF Launch, Opens, Wrappers, Stages, books
<1>9. ASSUME NEW t \in Tasks, Terminate(t) PROVE Moves(t) \/ Leaves(t)
  <2>1. CASE session[t].at = "completed"
    BY <1>9, <2>1 DEF Terminate, Leaves, At, books
  <2>2. CASE session[t].at # "completed"
    <3>1. Goto(t, "trap") /\ session[t] # Absent /\ UNCHANGED <<attempts, ledger, lost>>
      BY <1>9, <2>2 DEF Terminate, Goto, books
    <3>. QED BY <3>1, GotoMoves DEF Booked, Settled, Stages
  <2>. QED BY <2>1, <2>2
<1>10. ASSUME Commit \/ UNCHANGED allVars PROVE Idles
  BY <1>10 DEF Commit, Idles, allVars, vars, books
<1>11. ASSUME StartExport \/ FinishMerge \/ Quantize \/ WriteManifest \/ WriteDurable
       PROVE  Moves(Exporter)
  <2>1. /\ session[Exporter] # Absent /\ UNCHANGED <<attempts, ledger, lost>>
        /\ session[Exporter].at \in {"preflight", "merge", "quantize", "manifest", "durable"}
    BY <1>11 DEF StartExport, FinishMerge, Quantize, WriteManifest, WriteDurable, At, books
  <2>2. \E s \in {"trap", "merge", "quantize", "manifest", "durable", "append ledger"} :
          Goto(Exporter, s)
    BY <1>11 DEF StartExport, FinishMerge, Quantize, WriteManifest, WriteDurable
  <2>. QED BY <2>1, <2>2, GotoMoves DEF Booked, Settled, Stages
<1>12. ASSUME BeginMerge PROVE Idles
  BY <1>12 DEF BeginMerge, Idles, vars, books
<1>13. ASSUME BillExport PROVE Bills(Exporter)
  BY <1>13 DEF BillExport, Bills
<1>14. ASSUME FinishExport PROVE Moves(Exporter) \/ Leaves(Exporter)
  BY <1>14, GotoMoves DEF FinishExport, Leaves, At, Booked, Settled, Stages, books
<1>. QED
  BY StepCases, <1>1, <1>2, <1>3, <1>4, <1>5, <1>6, <1>7, <1>8, <1>9, <1>10, <1>11,
     <1>12, <1>13, <1>14

-----------------------------------------------------------------------------
(* The books.                                                              *)
Running(t) == session[t] # Absent

(* Two running sessions are two attempts, and their numbers were given out. *)
AttemptsApart ==
    \A t \in Tasks : Running(t) =>
        /\ session[t].started \in 1 .. attempts
        /\ \A u \in Tasks : Running(u) /\ session[u].started = session[t].started => u = t

(* The identifier of a row tells its status, and of a failed row its       *)
(* attempt.                                                                *)
RowsKeyed ==
    \A r \in ledger :
        /\ r.started \in 1 .. attempts /\ r.status \in {"complete", "failed"}
        /\ r.id[1] = r.status /\ (r.status = "failed" => r.id[3] = r.started)

(* An attempt has at most one row of each status, for one job.             *)
RowsApart ==
    \A r, q \in ledger : r.started = q.started =>
        r.job = q.job /\ (r.status = q.status => r = q)

(* A running attempt has no row before it has settled, and then only that  *)
(* of its completion.                                                      *)
RowsSettled ==
    \A r \in ledger, t \in Tasks : Running(t) /\ r.started = session[t].started =>
        r.status = "complete" /\ r.job = JobOf(t) /\ session[t].at \in Settled

(* A wrapper past its ledger row has that row.                             *)
BookedHaveRow ==
    \A t \in Tasks : Running(t) /\ session[t].at \in Booked =>
        \E r \in ledger : r.started = session[t].started

(* An attempt has a row, runs, or was lost.                                *)
NoneForgotten ==
    \A a \in 1 .. attempts :
        \/ \E r \in ledger : r.started = a
        \/ a \in lost
        \/ \E t \in Tasks : Running(t) /\ session[t].started = a

LedgerInv ==
    /\ AttemptsApart /\ RowsKeyed /\ RowsApart
    /\ RowsSettled /\ BookedHaveRow /\ NoneForgotten

LEMMA LedgerInit == EInit => LedgerInv
<1> SUFFICES ASSUME EInit PROVE LedgerInv
  OBVIOUS
<1>1. attempts = 0 /\ ledger = {} /\ \A t \in Tasks : ~Running(t)
  BY DEF EInit, Init, Running
<1>. QED BY <1>1
  DEF LedgerInv, AttemptsApart, RowsKeyed, RowsApart, RowsSettled, BookedHaveRow, NoneForgotten

(* What the two kinds of rows say.                                         *)
LEMMA RowOf ==
  ASSUME NEW t \in Tasks, NEW status \in {"complete", "failed"}, NEW h
  PROVE  LET row == LedgerRow(t, status, h)
         IN /\ row.status = status /\ row.started = session[t].started
            /\ row.job = JobOf(t) /\ row.id[1] = status
            /\ status = "failed" => row.id[3] = row.started
BY DEF LedgerRow, LedgerId

(* A launch gives out a number that no row and no session has.             *)
LEMMA OpensKeepsLedger ==
  ASSUME TypeOK, LedgerInv, NEW t \in Tasks, Opens(t)
  PROVE  LedgerInv'
<1>1. PICK w \in Wrappers : /\ w.started = attempts + 1 /\ w.at = "preflight"
                            /\ session' = [session EXCEPT ![t] = w]
  BY DEF Opens
<1>2. /\ attempts' = attempts + 1 /\ ledger' = ledger /\ lost' = lost /\ attempts \in Nat
      /\ ~Running(t)
  BY DEF Opens, TypeOK, Running
<1>3. session'[t] = w /\ \A u \in Tasks \ {t} : session'[u] = session[u]
  BY <1>1 DEF TypeOK
<1>4. w # Absent
  BY AbsentAssumption
<1>5. \A u \in Tasks : Running(u) => session[u].started <= attempts
  BY <1>2 DEF LedgerInv, AttemptsApart
<1>6. AttemptsApart'
  BY <1>1, <1>2, <1>3, <1>5 DEF LedgerInv, AttemptsApart, Running
<1>7. RowsKeyed' /\ \A r \in ledger : r.started # attempts + 1
  BY <1>2 DEF LedgerInv, RowsKeyed
<1>8. RowsApart'
  BY <1>2 DEF LedgerInv, RowsApart
<1>9. RowsSettled'
  BY <1>1, <1>2, <1>3, <1>7 DEF LedgerInv, RowsSettled, Running
<1>10. BookedHaveRow'
  BY <1>1, <1>2, <1>3 DEF LedgerInv, BookedHaveRow, Running, Booked
<1>11. NoneForgotten'
  <2> SUFFICES ASSUME NEW a \in 1 .. attempts + 1
               PROVE  \/ \E r \in ledger : r.started = a
                      \/ a \in lost
                      \/ \E u \in Tasks : session'[u] # Absent /\ session'[u].started = a
    BY <1>2 DEF NoneForgotten, Running
  <2>1. CASE a = attempts + 1
    BY <1>1, <1>3, <1>4, <2>1
  <2>2. CASE a \in 1 .. attempts
    BY <1>2, <1>3, <2>2 DEF LedgerInv, NoneForgotten, Running
  <2>. QED BY <1>2, <2>1, <2>2
<1>. QED BY <1>6, <1>7, <1>8, <1>9, <1>10, <1>11 DEF LedgerInv

(* A session that moves on stays the same attempt, and settled if it was.  *)
LEMMA MovesKeepsLedger ==
  ASSUME TypeOK, LedgerInv, NEW t \in Tasks, Moves(t)
  PROVE  LedgerInv'
<1>1. PICK w \in Wrappers : /\ w.started = session[t].started
                            /\ w.at \in Booked => session[t].at \in Booked
                            /\ session[t].at \in Settled => w.at \in Settled
                            /\ session' = [session EXCEPT ![t] = w]
  BY DEF Moves
<1>2. attempts' = attempts /\ ledger' = ledger /\ lost' = lost /\ Running(t)
  BY DEF Moves, Running
<1>3. session'[t] = w /\ \A u \in Tasks \ {t} : session'[u] = session[u]
  BY <1>1 DEF TypeOK
<1>4. w # Absent
  BY AbsentAssumption
<1>5. \A u \in Tasks : /\ Running(u)' <=> Running(u)
                       /\ Running(u) => session'[u].started = session[u].started
  BY <1>1, <1>2, <1>3, <1>4 DEF Running
<1>6. AttemptsApart'
  BY <1>2, <1>5 DEF LedgerInv, AttemptsApart
<1>7. RowsKeyed' /\ RowsApart'
  BY <1>2 DEF LedgerInv, RowsKeyed, RowsApart
<1>8. RowsSettled'
  BY <1>1, <1>2, <1>3, <1>5 DEF LedgerInv, RowsSettled
<1>9. BookedHaveRow'
  BY <1>1, <1>2, <1>3, <1>5 DEF LedgerInv, BookedHaveRow
<1>10. NoneForgotten'
  BY <1>2, <1>5 DEF LedgerInv, NoneForgotten
<1>. QED BY <1>6, <1>7, <1>8, <1>9, <1>10 DEF LedgerInv

(* The row of a completion is the first of its attempt.                    *)
LEMMA BillsKeepsLedger ==
  ASSUME TypeOK, LedgerInv, NEW t \in Tasks, Bills(t)
  PROVE  LedgerInv'
<1>1. PICK h \in Nat : ledger' = ledger \cup {LedgerRow(t, "complete", h)}
  BY DEF Bills
<1> DEFINE row == LedgerRow(t, "complete", h)
<1>2. /\ row.status = "complete" /\ row.started = session[t].started
      /\ row.job = JobOf(t) /\ row.id[1] = "complete"
  BY RowOf
<1> HIDE DEF row
<1>3. /\ attempts' = attempts /\ lost' = lost /\ Running(t) /\ session[t].at = "append ledger"
      /\ ledger' = ledger \cup {row}
  BY <1>1 DEF Bills, Running, At, row
<1>4. /\ session'[t] = [session[t] EXCEPT !.at = "finalized"] /\ session'[t] \in Wrappers
      /\ \A u \in Tasks \ {t} : session'[u] = session[u]
  BY <1>3, GotoTyped DEF Bills, Running, Stages
<1>5. /\ session'[t].at = "finalized" /\ session'[t].started = session[t].started
      /\ session'[t] # Absent
  BY <1>3, <1>4, AbsentAssumption DEF TypeOK, Running, Wrappers
<1>6. \A u \in Tasks : /\ Running(u)' <=> Running(u)
                       /\ Running(u) => session'[u].started = session[u].started
  BY <1>3, <1>4, <1>5 DEF Running
<1>7. \A r \in ledger : r.started # row.started
  BY <1>2, <1>3 DEF LedgerInv, RowsSettled, Settled, Booked
<1>8. AttemptsApart'
  BY <1>3, <1>6 DEF LedgerInv, AttemptsApart
<1>9. RowsKeyed'
  BY <1>2, <1>3 DEF LedgerInv, RowsKeyed, AttemptsApart
<1>10. RowsApart'
  BY <1>3, <1>7 DEF LedgerInv, RowsApart
<1>11. ASSUME NEW r \in ledger', NEW u \in Tasks, Running(u)',
              r.started = session'[u].started
       PROVE  r.status = "complete" /\ r.job = JobOf(u) /\ session'[u].at \in Settled
  <2>1. Running(u) /\ r.started = session[u].started
    BY <1>6, <1>11
  <2>2. CASE u = t
    BY <1>2, <1>3, <1>5, <1>7, <2>1, <2>2 DEF Settled, Booked
  <2>3. CASE u # t
    <3>1. session'[u] = session[u]
      BY <1>4, <2>3
    <3>2. r # row
      BY <1>2, <1>3, <2>1, <2>3 DEF LedgerInv, AttemptsApart
    <3>3. r \in ledger
      BY <1>3, <3>2
    <3>. QED BY <2>1, <3>1, <3>3 DEF LedgerInv, RowsSettled
  <2>. QED BY <2>2, <2>3
<1>12. ASSUME NEW u \in Tasks, Running(u)', session'[u].at \in Booked
       PROVE  \E r \in ledger' : r.started = session'[u].started
  <2>1. CASE u = t
    BY <1>2, <1>3, <1>5, <2>1
  <2>2. CASE u # t
    BY <1>3, <1>4, <1>6, <1>12, <2>2 DEF LedgerInv, BookedHaveRow
  <2>. QED BY <2>1, <2>2
<1>13. NoneForgotten'
  BY <1>3, <1>6 DEF LedgerInv, NoneForgotten
<1>. QED BY <1>8, <1>9, <1>10, <1>11, <1>12, <1>13 DEF LedgerInv, RowsSettled, BookedHaveRow

(* A completed session leaves its row behind.                              *)
LEMMA LeavesKeepsLedger ==
  ASSUME TypeOK, LedgerInv, NEW t \in Tasks, Leaves(t)
  PROVE  LedgerInv'
<1>1. /\ attempts' = attempts /\ ledger' = ledger /\ lost' = lost
      /\ Running(t) /\ session[t].at \in Booked
  BY DEF Leaves, At, Running, Booked
<1>2. \A u \in Tasks : Running(u)' => Running(u) /\ session'[u] = session[u]
  BY DEF Leaves, Running, TypeOK
<1>3. \A u \in Tasks \ {t} : session'[u] = session[u]
  BY DEF Leaves, TypeOK
<1>4. \E r \in ledger : r.started = session[t].started
  BY <1>1 DEF LedgerInv, BookedHaveRow
<1>5. AttemptsApart' /\ RowsKeyed' /\ RowsApart'
  BY <1>1, <1>2 DEF LedgerInv, AttemptsApart, RowsKeyed, RowsApart
<1>6. RowsSettled' /\ BookedHaveRow'
  BY <1>1, <1>2 DEF LedgerInv, RowsSettled, BookedHaveRow
<1>7. NoneForgotten'
  BY <1>1, <1>3, <1>4 DEF LedgerInv, NoneForgotten, Running
<1>. QED BY <1>5, <1>6, <1>7 DEF LedgerInv

(* The trap's row is never in conflict, and is the first failed one of its *)
(* attempt.                                                                *)
LEMMA FailureKeepsLedger ==
  ASSUME TypeOK, LedgerInv, NEW t \in Tasks, RecordFailure(t)
  PROVE  LedgerInv'
<1>1. PICK h \in Hours :
        LET row == LedgerRow(t, "failed", h)
        IN ledger' = IF Conflicts(ledger, row) THEN ledger ELSE ledger \cup {row}
  BY DEF RecordFailure
<1> DEFINE row == LedgerRow(t, "failed", h)
<1>2. /\ row.status = "failed" /\ row.started = session[t].started
      /\ row.job = JobOf(t) /\ row.id[1] = "failed" /\ row.id[3] = row.started
  BY RowOf
<1>3. ledger' = IF Conflicts(ledger, row) THEN ledger ELSE ledger \cup {row}
  BY <1>1
<1> HIDE DEF row
<1>4. attempts' = attempts /\ lost' = lost /\ Running(t)
  BY DEF RecordFailure, Running, At
<1>5. /\ \A u \in Tasks : Running(u)' => u # t /\ Running(u) /\ session'[u] = session[u]
      /\ \A u \in Tasks \ {t} : session'[u] = session[u]
  BY DEF RecordFailure, Running, TypeOK
<1>6. \A r \in ledger : r.started = row.started => r.status = "complete" /\ r.job = row.job
  BY <1>2, <1>4 DEF LedgerInv, RowsSettled
<1>7. ~Conflicts(ledger, row)
  BY <1>2, <1>6 DEF Conflicts, LedgerInv, RowsKeyed
<1>8. ledger' = ledger \cup {row}
  BY <1>3, <1>7
<1>9. AttemptsApart'
  BY <1>4, <1>5 DEF LedgerInv, AttemptsApart
<1>10. RowsKeyed'
  BY <1>2, <1>4, <1>8 DEF LedgerInv, RowsKeyed, AttemptsApart
<1>11. RowsApart'
  BY <1>2, <1>6, <1>8 DEF LedgerInv, RowsApart
<1>12. RowsSettled'
  BY <1>2, <1>4, <1>5, <1>8 DEF LedgerInv, RowsSettled, AttemptsApart
<1>13. BookedHaveRow'
  BY <1>5, <1>8 DEF LedgerInv, BookedHaveRow
<1>14. NoneForgotten'
  BY <1>2, <1>4, <1>5, <1>8 DEF LedgerInv, NoneForgotten, Running
<1>. QED BY <1>9, <1>10, <1>11, <1>12, <1>13, <1>14 DEF LedgerInv

(* A pod's death takes every running attempt with it.                      *)
LEMMA LosePodKeepsLedger ==
  ASSUME TypeOK, LedgerInv, LosePod
  PROVE  LedgerInv'
<1>1. attempts' = attempts /\ ledger' = ledger
  BY DEF LosePod, books
<1>2. \A t \in Tasks : ~Running(t)'
  BY DEF LosePod, Running
<1>3. \A t \in Tasks : Running(t) => session[t].started \in lost'
  BY DEF LosePod, Running
<1>4. lost \subseteq lost'
  BY DEF LosePod
<1>. QED BY <1>1, <1>2, <1>3, <1>4
  DEF LedgerInv, AttemptsApart, RowsKeyed, RowsApart, RowsSettled, BookedHaveRow, NoneForgotten

LEMMA LedgerNext == TypeOK /\ LedgerInv /\ [ENext]_allVars => LedgerInv'
<1> SUFFICES ASSUME TypeOK, LedgerInv, [ENext]_allVars PROVE LedgerInv'
  OBVIOUS
<1>1. ASSUME Idles PROVE LedgerInv'
  BY <1>1
  DEF Idles, LedgerInv, AttemptsApart, RowsKeyed, RowsApart, RowsSettled, BookedHaveRow,
      NoneForgotten, Running
<1>. QED
  BY <1>1, StepShapes, OpensKeepsLedger, MovesKeepsLedger, BillsKeepsLedger,
     LeavesKeepsLedger, FailureKeepsLedger, LosePodKeepsLedger

(* A complete row is billed, and no failed row of its attempt with it.     *)
LEMMA LedgerInvSound == LedgerInv => LedgerSound
<1> SUFFICES ASSUME LedgerInv, NEW a \in 1 .. attempts
             PROVE  LET charged == {r \in BillableRecords(ledger) : r.started = a}
                    IN /\ Cardinality(charged) <= 1
                       /\ \/ charged # {} \/ a \in lost
                          \/ \E t \in Tasks : session[t] # Absent /\ session[t].started = a
  BY DEF LedgerSound
<1> DEFINE charged == {r \in BillableRecords(ledger) : r.started = a}
<1>1. \A r, q \in charged : r = q
  BY DEF BillableRecords, LedgerInv, RowsApart, RowsKeyed
<1>2. Cardinality(charged) <= 1
  <2>1. CASE charged = {}
    BY <2>1, FS_EmptySet
  <2>2. CASE charged # {}
    <3>1. PICK r : charged = {r}
      BY <1>1, <2>2
    <3>2. Cardinality({r}) = 1
      BY FS_Singleton
    <3>. QED BY <3>1, <3>2
  <2>. QED BY <2>1, <2>2
<1>3. ASSUME NEW r \in ledger, r.started = a PROVE charged # {}
  <2>1. CASE r \in BillableRecords(ledger)
    BY <1>3, <2>1
  <2>2. CASE r \notin BillableRecords(ledger)
    <3>1. PICK c \in ledger : c.status = "complete" /\ c.job = r.job /\ c.started = r.started
      BY <2>2 DEF BillableRecords
    <3>2. c \in charged
      BY <1>3, <3>1 DEF BillableRecords
    <3>. QED BY <3>2
  <2>. QED BY <2>1, <2>2
<1>. QED BY <1>2, <1>3 DEF LedgerInv, NoneForgotten, Running

(* Every attempt is charged at most once, and not at all only while it     *)
(* runs or when its pod died under it.                                     *)
THEOREM LedgerIsSound == ESpec => []LedgerSound
<1>1. EInit => TypeOK /\ LedgerInv
  BY InitTyped, LedgerInit
<1>2. TypeOK /\ LedgerInv /\ [ENext]_allVars => (TypeOK /\ LedgerInv)'
  BY NextTyped, LedgerNext
<1>. QED BY <1>1, <1>2, LedgerInvSound, PTL DEF ESpec

-----------------------------------------------------------------------------
(* The evidence.                                                           *)

(* The reward-signal receipt is there, and not of a rejected attempt of j. *)
SignalStands(j) ==
    /\ signalled[RunId[j]] # Absent
    /\ signalled[RunId[j]].job = j => signalled[RunId[j]].status = "passed"

(* What the stage of a job's session says of its files: training runs only *)
(* where there is no receipt, a receipt is written of a saved adapter that *)
(* the guard passed, and what is evaluated has its receipt.                *)
StageFiles ==
    \A j \in Jobs :
        /\ At(j, "train") \/ At(j, "receipt") => trained[j] = Absent
        /\ At(j, "receipt") =>
              adapter[j] # Absent /\ (j \in Guarded => SignalStands(j))
        /\ At(j, "evaluate") => trained[j] # Absent
        /\ At(j, "finalize") => evaluated[j] # Absent
        /\ evaluated[j] # Absent => trained[j] # Absent

EvidenceInv == StageFiles /\ EvidenceAgrees /\ SignalProved

LEMMA EvidenceInit == EInit => EvidenceInv
BY TrainingAssumption
DEF EInit, Init, EvidenceInv, StageFiles, EvidenceAgrees, SignalProved, At, Tasks

(* A step that leaves the evidence alone and takes no session into a stage *)
(* that claims something of it.                                            *)
LEMMA QuietKeepsEvidence ==
  ASSUME EvidenceInv, UNCHANGED <<adapter, trained, evaluated, signalled, runs>>,
         \A j \in Jobs : \/ session'[j] = Absent \/ session'[j] = session[j]
                         \/ session'[j].at \notin {"train", "receipt", "evaluate", "finalize"}
  PROVE  EvidenceInv'
<1>1. \A j \in Jobs, s \in {"train", "receipt", "evaluate", "finalize"} :
        At(j, s)' => At(j, s)
  BY DEF At
<1>2. StageFiles'
  BY <1>1 DEF EvidenceInv, StageFiles, SignalStands
<1>3. EvidenceAgrees'
  BY DEF EvidenceInv, EvidenceAgrees
<1>4. SignalProved'
  BY DEF EvidenceInv, SignalProved
<1>. QED BY <1>2, <1>3, <1>4 DEF EvidenceInv

(* A guarded adapter is saved only from a proved opening.                  *)
LEMMA ProvedOpening ==
  ASSUME NEW p \in Wrappers, GuardProved(p)
  PROVE  /\ \E s \in Opening : p.signal[s] = "varied"
         /\ \A s \in Opening : p.signal[s] # "missing"
<1>1. \A s \in Opening : s \in p.resumed + 1 .. Len(p.signal) /\ p.signal[s] # "missing"
  BY DEF GuardProved, Observed
<1>2. p.signal \in Seq(Signals) /\ p.resumed \in Nat
  BY DEF Wrappers
<1>3. \A s \in Opening : p.signal[s] \in Signals
  <2> SUFFICES ASSUME NEW s \in Opening PROVE p.signal[s] \in Signals
    OBVIOUS
  <2>1. s \in 1 .. Len(p.signal)
    BY <1>1, <1>2
  <2>. QED BY <1>2, <2>1
<1>4. PICK s \in Opening : p.signal[s] # "flat"
  BY DEF GuardProved, AllZeroStd
<1>. QED BY <1>1, <1>3, <1>4 DEF Signals

(* A step of the wrapper of j that goes to stage s.                        *)
LEMMA GotoStage ==
  ASSUME TypeOK, NEW j \in Jobs, session[j] # Absent, NEW s \in Stages, Goto(j, s)
  PROVE  /\ session'[j] # Absent /\ session'[j].at = s
         /\ \A k \in Jobs \ {j} : session'[k] = session[k]
<1>1. session'[j] \in Wrappers /\ session'[j] = [session[j] EXCEPT !.at = s]
  BY GotoTyped DEF Tasks
<1>2. session[j] \in Wrappers
  BY DEF TypeOK, Tasks
<1>3. session'[j].at = s
  BY <1>1, <1>2 DEF Wrappers
<1>. QED BY <1>1, <1>3, AbsentAssumption DEF Goto, TypeOK, Tasks

(* A receipt of one backend leaves the claims about the others.            *)
LEMMA OthersSignalStands ==
  ASSUME TypeOK, NEW j \in Guarded, NEW status \in {"passed", "failed", "aborted"},
         WriteSignal(j, status), NEW k \in Guarded \ {j}, SignalStands(k)
  PROVE  SignalStands(k)'
<1>1. RunId[k] \in SignalIds
  BY DEF SignalIds
<1>. QED BY <1>1, SignalWritten DEF SignalStands

LEMMA EvidenceNext == TypeOK /\ EvidenceInv /\ [ENext]_allVars => EvidenceInv'
<1> SUFFICES ASSUME TypeOK, EvidenceInv, [ENext]_allVars PROVE EvidenceInv'
  OBVIOUS
<1> USE TrainingAssumption
<1>1. ASSUME NEW j \in Jobs, StartTrainer(j) PROVE EvidenceInv'
  <2>1. /\ session[j] # Absent /\ UNCHANGED <<adapter, trained, evaluated, signalled, runs>>
    BY <1>1 DEF StartTrainer, At, files, books
  <2>2. CASE Preflight(j)
    <3>1. /\ session'[j] = Trainer(j) /\ \A k \in Jobs \ {j} : session'[k] = session[k]
      BY <1>1, <2>2 DEF StartTrainer, TypeOK, Tasks
    <3>2. session'[j].at = IF trained[j] # Absent THEN "evaluate" ELSE "train"
      BY <2>1, <2>2, <3>1, TrainerTyped DEF Preflight
    <3>3. StageFiles'
      BY <2>1, <3>1, <3>2 DEF EvidenceInv, StageFiles, At, SignalStands
    <3>. QED BY <2>1, <3>3 DEF EvidenceInv, EvidenceAgrees, SignalProved
  <2>3. CASE ~Preflight(j)
    BY <1>1, <2>1, <2>3, GotoStage, QuietKeepsEvidence DEF StartTrainer, Stages
  <2>. QED BY <2>2, <2>3
<1>2. ASSUME NEW j \in Jobs, TrainStep(j) PROVE EvidenceInv'
  <2>1. /\ session[j] # Absent /\ session[j].at = "train" /\ session[j] \in Wrappers
        /\ UNCHANGED <<adapter, trained, evaluated, runs>>
    BY <1>2 DEF TrainStep, At, TypeOK, Tasks, books
  <2>10. \A k \in Guarded \ {j} : SignalStands(k) => SignalStands(k)'
    <3>1. CASE signalled' = signalled
      BY <3>1 DEF SignalStands
    <3>2. CASE j \in Guarded /\ \E status \in {"failed", "aborted"} : WriteSignal(j, status)
      BY <3>2, OthersSignalStands
    <3>. QED BY <1>2, <3>1, <3>2 DEF TrainStep
  <2>2. PICK signal \in Signals :
          LET p == Stepped(session[j], signal)
              aborted == j \in Guarded /\ GuardAborts(p)
          IN session' = [session EXCEPT ![j] = IF aborted THEN [p EXCEPT !.at = "trap"] ELSE p]
    BY <1>2 DEF TrainStep, Signals
  <2> DEFINE p == Stepped(session[j], signal)
  <2>3. p \in Wrappers /\ p.at = "train"
    BY <2>1, SteppedTyped
  <2>4. /\ session'[j] \in {p, [p EXCEPT !.at = "trap"]}
        /\ \A k \in Jobs \ {j} : session'[k] = session[k]
    BY <2>2 DEF TypeOK, Tasks
  <2> HIDE DEF p
  <2>5. session'[j].at \in {"train", "trap"}
    BY <2>3, <2>4 DEF Wrappers
  <2>6. trained[j] = Absent /\ evaluated[j] = Absent
    BY <2>1 DEF EvidenceInv, StageFiles, At, SignalStands
  <2>7. StageFiles'
    BY <2>1, <2>4, <2>5, <2>6, <2>10 DEF EvidenceInv, StageFiles, At, SignalStands
  <2>8. EvidenceAgrees'
    BY <2>1, <2>6, <2>10 DEF EvidenceInv, EvidenceAgrees, SignalStands
  <2>9. SignalProved'
    BY <2>1 DEF EvidenceInv, SignalProved
  <2>. QED BY <2>7, <2>8, <2>9 DEF EvidenceInv
<1>3. ASSUME NEW j \in Jobs, SaveAdapter(j) PROVE EvidenceInv'
  <2>1. /\ session[j] # Absent /\ session[j].at = "train" /\ session[j] \in Wrappers
        /\ UNCHANGED <<trained, evaluated, runs>>
    BY <1>3 DEF SaveAdapter, At, TypeOK, Tasks, books
  <2>5. \A k \in Guarded \ {j} : SignalStands(k) => SignalStands(k)'
    <3>1. CASE signalled' = signalled
      BY <3>1 DEF SignalStands
    <3>2. CASE j \in Guarded /\ \E status \in {"passed", "failed"} : WriteSignal(j, status)
      BY <3>2, OthersSignalStands
    <3>. QED BY <1>3, <3>1, <3>2 DEF SaveAdapter
  <2>2. trained[j] = Absent /\ evaluated[j] = Absent
    BY <2>1 DEF EvidenceInv, StageFiles, At, SignalStands
  <2>3. CASE j \in Guarded /\ ~GuardProved(session[j])
    <3>1. Goto(j, "trap") /\ UNCHANGED adapter
      BY <1>3, <2>3 DEF SaveAdapter
    <3>2. /\ session'[j].at = "trap" /\ \A k \in Jobs \ {j} : session'[k] = session[k]
      BY <2>1, <3>1, GotoStage DEF Stages
    <3>3. StageFiles'
      BY <2>1, <2>2, <2>5, <3>1, <3>2 DEF EvidenceInv, StageFiles, At, SignalStands
    <3>4. EvidenceAgrees' /\ SignalProved'
      BY <2>1, <2>2, <2>5, <3>1 DEF EvidenceInv, EvidenceAgrees, SignalProved, SignalStands
    <3>. QED BY <3>3, <3>4 DEF EvidenceInv
  <2>4. CASE ~(j \in Guarded /\ ~GuardProved(session[j]))
    <3> DEFINE saved == [by |-> session[j].started, base |-> session[j].base,
                         signal |-> session[j].signal]
    <3>1. /\ adapter' = [adapter EXCEPT ![j] = saved] /\ Goto(j, "receipt")
          /\ j \in Guarded => WriteSignal(j, "passed")
      BY <1>3, <2>4 DEF SaveAdapter
    <3>2. saved \in Adapters /\ saved.signal = session[j].signal
      BY <2>1 DEF Wrappers, Adapters
    <3> HIDE DEF saved
    <3>3. /\ adapter'[j] = saved /\ saved # Absent
          /\ \A k \in Jobs \ {j} : adapter'[k] = adapter[k]
      BY <3>1, <3>2, AbsentAssumption DEF TypeOK
    <3>4. j \in Guarded => SignalStands(j)'
      BY <3>1, SignalWritten DEF SignalStands
    <3>5. /\ session'[j].at = "receipt" /\ \A k \in Jobs \ {j} : session'[k] = session[k]
      BY <2>1, <3>1, GotoStage DEF Stages
    <3>6. StageFiles'
      BY <2>1, <2>2, <2>5, <3>3, <3>4, <3>5 DEF EvidenceInv, StageFiles, At, SignalStands
    <3>7. EvidenceAgrees'
      BY <2>1, <2>2, <2>5, <3>3 DEF EvidenceInv, EvidenceAgrees, SignalStands
    <3>8. SignalProved'
      <4>1. j \in Guarded => /\ \E s \in Opening : saved.signal[s] = "varied"
                             /\ \A s \in Opening : saved.signal[s] # "missing"
        BY <2>1, <2>4, <3>2, ProvedOpening
      <4>. QED BY <3>3, <4>1 DEF EvidenceInv, SignalProved
    <3>. QED BY <3>6, <3>7, <3>8 DEF EvidenceInv
  <2>. QED BY <2>3, <2>4
<1>4. ASSUME NEW j \in Jobs, WriteTrainingReceipt(j) PROVE EvidenceInv'
  <2>1. /\ session[j] # Absent /\ At(j, "receipt") /\ Goto(j, "evaluate")
        /\ UNCHANGED <<adapter, evaluated, signalled, runs>>
        /\ trained' = [trained EXCEPT ![j] = adapter[j]]
    BY <1>4 DEF WriteTrainingReceipt, At, books
  <2>2. /\ session'[j].at = "evaluate" /\ \A k \in Jobs \ {j} : session'[k] = session[k]
    BY <2>1, GotoStage DEF Stages
  <2>3. trained'[j] = adapter[j] /\ \A k \in Jobs \ {j} : trained'[k] = trained[k]
    BY <2>1 DEF TypeOK
  <2>4. /\ adapter[j] # Absent /\ evaluated[j] = Absent
        /\ j \in Guarded => SignalStands(j)
    BY <2>1 DEF EvidenceInv, StageFiles
  <2>5. StageFiles'
    BY <2>1, <2>2, <2>3, <2>4 DEF EvidenceInv, StageFiles, At, SignalStands
  <2>6. EvidenceAgrees'
    BY <2>1, <2>3, <2>4 DEF EvidenceInv, EvidenceAgrees, SignalStands
  <2>7. SignalProved'
    BY <2>1 DEF EvidenceInv, SignalProved
  <2>. QED BY <2>5, <2>6, <2>7 DEF EvidenceInv
<1>5. ASSUME NEW j \in Jobs, Evaluate(j) PROVE EvidenceInv'
  <2>1. /\ session[j] # Absent /\ At(j, "evaluate")
        /\ UNCHANGED <<adapter, trained, signalled, runs>>
    BY <1>5 DEF Evaluate, At, books
  <2>2. PICK s \in {"finalize", "trap"} : Goto(j, s)
    BY <1>5 DEF Evaluate
  <2>3. /\ session'[j].at = s /\ \A k \in Jobs \ {j} : session'[k] = session[k]
    BY <2>1, <2>2, GotoStage DEF Stages
  <2>4. trained[j] # Absent /\ trained[j] = adapter[j]
    BY <2>1 DEF EvidenceInv, StageFiles, EvidenceAgrees
  <2>5. CASE evaluated[j] # Absent
    <3>1. UNCHANGED evaluated
      BY <1>5, <2>5 DEF Evaluate
    <3>2. StageFiles'
      BY <2>1, <2>3, <2>4, <2>5, <3>1 DEF EvidenceInv, StageFiles, At, SignalStands
    <3>. QED BY <2>1, <3>1, <3>2 DEF EvidenceInv, EvidenceAgrees, SignalProved
  <2>6. CASE evaluated[j] = Absent
    <3>1. evaluated' = [evaluated EXCEPT ![j] = Evaluation(j)]
      BY <1>5, <2>6 DEF Evaluate
    <3>2. Evaluation(j) \in Evaluations /\ Evaluation(j).adapter = adapter[j]
      BY DEF Evaluation, Evaluations, TypeOK
    <3>3. /\ evaluated'[j] = Evaluation(j) /\ evaluated'[j] # Absent
          /\ \A k \in Jobs \ {j} : evaluated'[k] = evaluated[k]
      BY <3>1, <3>2, AbsentAssumption DEF TypeOK
    <3>4. StageFiles'
      BY <2>1, <2>3, <2>4, <3>3 DEF EvidenceInv, StageFiles, At, SignalStands
    <3>5. EvidenceAgrees'
      BY <2>1, <2>4, <2>6, <3>2, <3>3 DEF EvidenceInv, EvidenceAgrees
    <3>6. SignalProved'
      BY <2>1 DEF EvidenceInv, SignalProved
    <3>. QED BY <3>4, <3>5, <3>6 DEF EvidenceInv
  <2>. QED BY <2>5, <2>6
<1>6. ASSUME NEW j \in Jobs, AppendRun(j) PROVE EvidenceInv'
  <2>1. /\ session[j] # Absent /\ At(j, "finalize") /\ session[j] \in Wrappers
        /\ UNCHANGED <<adapter, trained, evaluated, signalled>>
    BY <1>6 DEF AppendRun, At, files, TypeOK, Tasks
  <2>2. PICK h \in Hours :
          \/ Goto(j, "trap") /\ UNCHANGED runs
          \/ /\ runs' = runs \cup {RunRecord(j, h)}
             /\ session' = [session EXCEPT ![j].at = "append ledger", ![j].hours = h]
    BY <1>6 DEF AppendRun
  <2>3. CASE Goto(j, "trap") /\ UNCHANGED runs
    BY <2>1, <2>3, GotoStage, QuietKeepsEvidence DEF Stages
  <2>4. CASE /\ runs' = runs \cup {RunRecord(j, h)}
             /\ session' = [session EXCEPT ![j].at = "append ledger", ![j].hours = h]
    <3>1. /\ session'[j].at = "append ledger"
          /\ \A k \in Jobs \ {j} : session'[k] = session[k]
      BY <2>1, <2>4 DEF TypeOK, Tasks, Wrappers
    <3>2. evaluated[j] # Absent
      BY <2>1 DEF EvidenceInv, StageFiles
    <3>3. RunRecord(j, h).job = j /\ RunRecord(j, h).adapter = evaluated[j].adapter
      BY DEF RunRecord
    <3>4. StageFiles'
      BY <2>1, <3>1 DEF EvidenceInv, StageFiles, At, SignalStands
    <3>5. \A k \in Jobs : \A r \in runs' :
            r.job = k => evaluated'[k] # Absent /\ r.adapter = evaluated'[k].adapter
      <4> DEFINE record == RunRecord(j, h)
      <4>1. runs' = runs \cup {record} /\ record.job = j /\ record.adapter = evaluated[j].adapter
        BY <2>4, <3>3
      <4> HIDE DEF record
      <4>2. \A k \in Jobs : \A r \in runs :
              r.job = k => evaluated[k] # Absent /\ r.adapter = evaluated[k].adapter
        BY DEF EvidenceInv, EvidenceAgrees
      <4>. QED BY <2>1, <3>2, <4>1, <4>2
    <3>6. EvidenceAgrees'
      BY <2>1, <3>5 DEF EvidenceInv, EvidenceAgrees
    <3>7. SignalProved'
      BY <2>1 DEF EvidenceInv, SignalProved
    <3>. QED BY <3>4, <3>6, <3>7 DEF EvidenceInv
  <2>. QED BY <2>2, <2>3, <2>4
<1>7. ASSUME NEW j \in Jobs, AppendLedger(j) \/ NoteCompleted(j) PROVE EvidenceInv'
  <2>1. session[j] # Absent /\ UNCHANGED <<adapter, trained, evaluated, signalled, runs>>
    BY <1>7 DEF AppendLedger, NoteCompleted, At, files, books
  <2>2. PICK s \in {"trap", "finalized", "completed"} : Goto(j, s)
    BY <1>7 DEF AppendLedger, NoteCompleted
  <2>3. session'[j].at = s /\ \A k \in Jobs \ {j} : session'[k] = session[k]
    BY <2>1, <2>2, GotoStage DEF Stages
  <2>. QED BY <2>1, <2>3, QuietKeepsEvidence
<1>8. ASSUME NEW j \in Jobs, Complete(j) PROVE EvidenceInv'
  <2>1. UNCHANGED <<adapter, trained, evaluated, signalled, runs>>
    BY <1>8 DEF Complete, files
  <2>2. session' = [session EXCEPT ![j] = Absent]
    BY <1>8 DEF Complete
  <2>3. \A k \in Jobs : session'[k] = Absent \/ session'[k] = session[k]
    BY <2>2 DEF TypeOK, Tasks
  <2>. QED BY <2>1, <2>3, QuietKeepsEvidence
<1>9. ASSUME NEW t \in Tasks, Launch(t) PROVE EvidenceInv'
  BY <1>9, QuietKeepsEvidence DEF Launch, files, books, TypeOK, Tasks
<1>10. ASSUME NEW t \in Tasks, RecordFailure(t) PROVE EvidenceInv'
  BY <1>10, QuietKeepsEvidence DEF RecordFailure, files, TypeOK, Tasks
<1>11. ASSUME NEW t \in Tasks, Terminate(t) PROVE EvidenceInv'
  <2>1. [session[t] EXCEPT !.at = "trap"].at = "trap"
    BY <1>11 DEF Terminate, TypeOK, Wrappers
  <2>. QED BY <1>11, <2>1, QuietKeepsEvidence DEF Terminate, files, books, TypeOK, Tasks
<1>12. ASSUME LosePod PROVE EvidenceInv'
  BY <1>12, QuietKeepsEvidence DEF LosePod, files, books, Tasks
<1>13. ASSUME Commit \/ UNCHANGED allVars \/ BeginMerge PROVE EvidenceInv'
  BY <1>13, QuietKeepsEvidence DEF Commit, BeginMerge, allVars, vars, files, books
<1>14. ASSUME \/ StartExport \/ FinishMerge \/ Quantize \/ WriteManifest
              \/ WriteDurable \/ BillExport \/ FinishExport
       PROVE  EvidenceInv'
  <2>1. UNCHANGED <<adapter, trained, evaluated, signalled, runs>>
    BY <1>14 DEF StartExport, FinishMerge, Quantize, WriteManifest, WriteDurable,
                 BillExport, FinishExport, files, books
  <2>2. \/ \E s \in Stages : Goto(Exporter, s)
        \/ session' = [session EXCEPT ![Exporter] = Absent]
    BY <1>14 DEF StartExport, FinishMerge, Quantize, WriteManifest, WriteDurable,
                 BillExport, FinishExport, Stages
  <2>3. \A j \in Jobs : session'[j] = session[j]
    BY <2>2 DEF Goto, TypeOK, Tasks
  <2>. QED BY <2>1, <2>3, QuietKeepsEvidence
<1>. QED
  BY StepCases, <1>1, <1>2, <1>3, <1>4, <1>5, <1>6, <1>7, <1>8, <1>9, <1>10, <1>11,
     <1>12, <1>13, <1>14

LEMMA EvidenceAlways == ESpec => [](TypeOK /\ EvidenceInv)
<1>1. EInit => TypeOK /\ EvidenceInv
  BY InitTyped, EvidenceInit
<1>2. TypeOK /\ EvidenceInv /\ [ENext]_allVars => (TypeOK /\ EvidenceInv)'
  BY NextTyped, EvidenceNext
<1>. QED BY <1>1, <1>2, PTL DEF ESpec

(* The published run, the evaluation, the receipt and the adapter on disk  *)
(* agree, whatever was stopped and launched again, and the reward-signal   *)
(* receipt is of no rejected attempt of the same job, also where two       *)
(* backends of one seed share its file.                                    *)
THEOREM EvidenceIsSound == ESpec => []EvidenceAgrees
<1>1. EvidenceInv => EvidenceAgrees
  BY DEF EvidenceInv
<1>. QED BY <1>1, EvidenceAlways, PTL

(* The adapters of guarded jobs come from an opening with a reward signal. *)
THEOREM SignalIsProved == ESpec => []SignalProved
<1>1. EvidenceInv => SignalProved
  BY DEF EvidenceInv
<1>. QED BY <1>1, EvidenceAlways, PTL

-----------------------------------------------------------------------------
(* The backend policy.                                                     *)

(* The stages past the published run.                                      *)
Past == {"append ledger", "finalized", "completed"}

(* A run id has one published run, of an attempt that was launched.           *)
RunsApart ==
    \A r \in runs : /\ r.started \in 1 .. attempts
                    /\ \A q \in runs : q.id = r.id => q = r

(* A wrapper past the published run is the one that published it.          *)
PastHaveRun ==
    \A j \in Jobs : Running(j) /\ session[j].at \in Past =>
        \E r \in runs : r.id = RunId[j] /\ r.started = session[j].started

(* The policy is decided once, when the candidate's only published attempt *)
(* ends, and the candidate starts after the reference is finalised.        *)
PolicyDecided ==
    /\ Running(Candidate) \/ policy # "pending" => Finalized(Reference)
    /\ policy # "pending" => \E r \in runs :
          r.id = RunId[Candidate] /\ ~(Running(Candidate) /\ session[Candidate].started = r.started)

(* The other Unsloth jobs run only under an agreement.                     *)
UnslothRuns ==
    \A j \in Unsloth \ {Candidate} : Running(j) => policy = "agreement_passed"

PolicyInv == RunsApart /\ PastHaveRun /\ PolicyDecided /\ UnslothRuns /\ UnslothGated

LEMMA PolicyInit == EInit => PolicyInv
BY TrainingAssumption
DEF EInit, Init, PolicyInv, RunsApart, PastHaveRun, PolicyDecided, UnslothRuns, UnslothGated,
    Running, Tasks

(* A step that keeps the runs, the policy and the adapters, opens no       *)
(* session and takes none past the published run.                          *)
LEMMA QuietKeepsPolicy ==
  ASSUME PolicyInv, UNCHANGED <<attempts, runs, policy, adapter>>,
         \A j \in Jobs : Running(j)' =>
             /\ Running(j) /\ session'[j].started = session[j].started
             /\ session'[j].at \in Past => session[j].at \in Past
  PROVE  PolicyInv'
<1>1. Candidate \in Jobs /\ Unsloth \subseteq Jobs
  BY TrainingAssumption
<1>2. RunsApart' /\ UnslothGated'
  BY DEF PolicyInv, RunsApart, UnslothGated, Finalized
<1>3. PastHaveRun'
  BY DEF PolicyInv, PastHaveRun
<1>4. PolicyDecided'
  BY <1>1 DEF PolicyInv, PolicyDecided, Finalized
<1>5. UnslothRuns'
  BY <1>1 DEF PolicyInv, UnslothRuns
<1>. QED BY <1>2, <1>3, <1>4, <1>5 DEF PolicyInv

(* A wrapper that goes to a stage short of the published run.              *)
LEMMA GotoKeepsPolicy ==
  ASSUME TypeOK, PolicyInv, NEW t \in Tasks, session[t] # Absent, NEW s \in Stages, Goto(t, s),
         t \in Jobs /\ s \in Past => session[t].at \in Past,
         UNCHANGED <<attempts, runs, policy, adapter>>
  PROVE  PolicyInv'
<1>1. /\ session'[t] = [session[t] EXCEPT !.at = s]
      /\ \A u \in Tasks \ {t} : session'[u] = session[u]
  BY GotoTyped
<1>2. session'[t].at = s /\ session'[t].started = session[t].started
  BY <1>1 DEF TypeOK, Wrappers
<1>3. \A j \in Jobs : Running(j)' =>
             /\ Running(j) /\ session'[j].started = session[j].started
             /\ session'[j].at \in Past => session[j].at \in Past
  BY <1>1, <1>2 DEF Running, Tasks
<1>. QED BY <1>3, QuietKeepsPolicy

LEMMA PolicyNext == TypeOK /\ LedgerInv /\ PolicyInv /\ [ENext]_allVars => PolicyInv'
<1> SUFFICES ASSUME TypeOK, LedgerInv, PolicyInv, [ENext]_allVars PROVE PolicyInv'
  OBVIOUS
<1> USE TrainingAssumption
<1>0. /\ Candidate \in Jobs /\ Reference \in Jobs /\ Unsloth \subseteq Jobs
      /\ Jobs \subseteq Tasks /\ Exporter \in Tasks
  BY DEF Tasks
<1>1. ASSUME NEW j \in Jobs, StartTrainer(j) PROVE PolicyInv'
  <2>1. /\ session[j] # Absent /\ UNCHANGED <<attempts, adapter, runs, policy>>
    BY <1>1 DEF StartTrainer, At, files, books
  <2>2. CASE Preflight(j)
    <3>1. /\ session'[j] = Trainer(j) /\ \A k \in Jobs \ {j} : session'[k] = session[k]
      BY <1>1, <2>2 DEF StartTrainer, TypeOK, Tasks
    <3>2. /\ session'[j].at \notin Past /\ session'[j].started = session[j].started
      BY <2>1, <2>2, <3>1, TrainerTyped DEF Preflight, Past
    <3>. QED BY <2>1, <3>1, <3>2, QuietKeepsPolicy DEF Running
  <2>3. CASE ~Preflight(j)
    BY <1>0, <1>1, <2>1, <2>3, GotoKeepsPolicy DEF StartTrainer, Stages, Past
  <2>. QED BY <2>2, <2>3
<1>2. ASSUME NEW j \in Jobs, TrainStep(j) PROVE PolicyInv'
  <2>1. /\ session[j] # Absent /\ session[j] \in Wrappers /\ session[j].at = "train"
        /\ UNCHANGED <<attempts, adapter, runs, policy>>
    BY <1>2 DEF TrainStep, At, TypeOK, Tasks, books
  <2>2. PICK signal \in Signals :
          LET p == Stepped(session[j], signal)
              aborted == j \in Guarded /\ GuardAborts(p)
          IN session' = [session EXCEPT ![j] = IF aborted THEN [p EXCEPT !.at = "trap"] ELSE p]
    BY <1>2 DEF TrainStep, Signals
  <2> DEFINE p == Stepped(session[j], signal)
  <2>3. p \in Wrappers /\ p.at = "train" /\ p.started = session[j].started
    BY <2>1, SteppedTyped
  <2>4. /\ session'[j] \in {p, [p EXCEPT !.at = "trap"]}
        /\ \A k \in Jobs \ {j} : session'[k] = session[k]
    BY <2>2 DEF TypeOK, Tasks
  <2> HIDE DEF p
  <2>5. session'[j].at \notin Past /\ session'[j].started = session[j].started
    BY <2>3, <2>4 DEF Wrappers, Past
  <2>. QED BY <2>1, <2>4, <2>5, QuietKeepsPolicy DEF Running
<1>3. ASSUME NEW j \in Jobs, SaveAdapter(j) PROVE PolicyInv'
  <2>1. /\ session[j] # Absent /\ UNCHANGED <<attempts, runs, policy>>
        /\ \A k \in Jobs \ {j} : adapter'[k] = adapter[k]
    BY <1>3 DEF SaveAdapter, At, TypeOK, books
  <2>2. PICK s \in {"trap", "receipt"} : Goto(j, s)
    BY <1>3 DEF SaveAdapter
  <2>3. /\ session'[j] = [session[j] EXCEPT !.at = s] /\ session[j] \in Wrappers
        /\ \A u \in Jobs \ {j} : session'[u] = session[u]
    BY <1>0, <2>1, <2>2, GotoTyped DEF Stages, TypeOK
  <2>4. session'[j].at = s /\ session'[j].started = session[j].started
    BY <2>3 DEF Wrappers
  <2>5. RunsApart' /\ PastHaveRun'
    <3>1. RunsApart'
      BY <2>1 DEF PolicyInv, RunsApart
    <3>2. session'[j].at \notin Past
      BY <2>4 DEF Past
    <3>3. \A k \in Jobs : Running(k)' /\ session'[k].at \in Past =>
             Running(k) /\ session'[k] = session[k]
      BY <2>3, <3>2 DEF Running
    <3>. QED BY <2>1, <3>1, <3>3 DEF PolicyInv, PastHaveRun
  <2>6. PolicyDecided' /\ UnslothRuns'
    BY <1>0, <2>1, <2>3, <2>4 DEF PolicyInv, PolicyDecided, UnslothRuns, Running, Finalized
  <2>7. ASSUME NEW k \in Unsloth \ {Candidate}, adapter'[k] # Absent
        PROVE  policy = "agreement_passed" /\ Finalized(Reference) /\ Finalized(Candidate)
    <3>1. CASE k # j
      BY <1>0, <2>1, <2>7, <3>1 DEF PolicyInv, UnslothGated
    <3>2. CASE k = j
      BY <2>1, <3>2 DEF PolicyInv, UnslothRuns, PolicyDecided, Running, Finalized
    <3>. QED BY <3>1, <3>2
  <2>8. UnslothGated'
    BY <2>1, <2>7 DEF UnslothGated, Finalized
  <2>. QED BY <2>5, <2>6, <2>8 DEF PolicyInv
<1>4. ASSUME NEW j \in Jobs, WriteTrainingReceipt(j) \/ Evaluate(j) PROVE PolicyInv'
  <2>1. /\ session[j] # Absent /\ UNCHANGED <<attempts, adapter, runs, policy>>
    BY <1>4 DEF WriteTrainingReceipt, Evaluate, At, books
  <2>2. \E s \in {"evaluate", "finalize", "trap"} : Goto(j, s)
    BY <1>4 DEF WriteTrainingReceipt, Evaluate
  <2>. QED BY <1>0, <2>1, <2>2, GotoKeepsPolicy DEF Stages, Past
<1>5. ASSUME NEW j \in Jobs, AppendRun(j) PROVE PolicyInv'
  <2>1. /\ session[j] # Absent /\ session[j] \in Wrappers
        /\ UNCHANGED <<attempts, adapter, policy>>
    BY <1>5 DEF AppendRun, At, files, TypeOK, Tasks
  <2>2. PICK h \in Hours :
          IF Conflicts(runs, RunRecord(j, h))
          THEN Goto(j, "trap") /\ UNCHANGED runs
          ELSE /\ runs' = runs \cup {RunRecord(j, h)}
               /\ session' = [session EXCEPT ![j].at = "append ledger", ![j].hours = h]
    BY <1>5 DEF AppendRun
  <2>3. CASE Conflicts(runs, RunRecord(j, h))
    BY <1>0, <2>1, <2>2, <2>3, GotoKeepsPolicy DEF Stages, Past
  <2>4. CASE ~Conflicts(runs, RunRecord(j, h))
    <3> DEFINE record == RunRecord(j, h)
    <3>1. record.id = RunId[j] /\ record.started = session[j].started
      BY DEF RunRecord
    <3>2. \A r \in runs : r.id = record.id => r = record
      BY <2>4 DEF Conflicts
    <3>3. runs' = runs \cup {record}
      BY <2>2, <2>4
    <3> HIDE DEF record
    <3>4. /\ session'[j].started = session[j].started /\ session'[j] # Absent
          /\ \A k \in Jobs \ {j} : session'[k] = session[k]
      <4>1. session' = [session EXCEPT ![j] =
                          [session[j] EXCEPT !.at = "append ledger", !.hours = h]]
        BY <2>1, <2>2, <2>4 DEF TypeOK, Tasks
      <4>2. [session[j] EXCEPT !.at = "append ledger", !.hours = h] \in Wrappers
        BY <2>1 DEF Wrappers, Stages
      <4>. QED BY <1>0, <2>1, <4>1, <4>2, AbsentAssumption DEF TypeOK, Wrappers
    <3>5. record.started \in 1 .. attempts
      BY <1>0, <2>1, <3>1 DEF LedgerInv, AttemptsApart, Running
    <3>6. RunsApart'
      BY <2>1, <3>2, <3>3, <3>5 DEF PolicyInv, RunsApart
    <3>7. PastHaveRun'
      BY <3>1, <3>3, <3>4 DEF PolicyInv, PastHaveRun, Running
    <3>8. \A k \in Jobs : Running(k)' => Running(k) /\ session'[k].started = session[k].started
      BY <2>1, <3>4 DEF Running
    <3>9. PolicyDecided'
      BY <1>0, <2>1, <3>3, <3>8 DEF PolicyInv, PolicyDecided, Finalized
    <3>10. UnslothRuns'
      BY <1>0, <2>1, <3>8 DEF PolicyInv, UnslothRuns
    <3>11. UnslothGated'
      BY <2>1, <3>3 DEF PolicyInv, UnslothGated, Finalized
    <3>. QED BY <3>6, <3>7, <3>9, <3>10, <3>11 DEF PolicyInv
  <2>. QED BY <2>3, <2>4
<1>6. ASSUME NEW j \in Jobs, AppendLedger(j) \/ NoteCompleted(j) PROVE PolicyInv'
  <2>1. /\ session[j] # Absent /\ UNCHANGED <<attempts, adapter, runs, policy>>
        /\ session[j].at \in Past
    BY <1>6 DEF AppendLedger, NoteCompleted, At, files, books, Past
  <2>2. \E s \in {"trap", "finalized", "completed"} : Goto(j, s)
    BY <1>6 DEF AppendLedger, NoteCompleted
  <2>. QED BY <1>0, <2>1, <2>2, GotoKeepsPolicy DEF Stages
<1>7. ASSUME NEW j \in Jobs, Complete(j) PROVE PolicyInv'
  <2>1. /\ UNCHANGED <<attempts, adapter, runs>> /\ At(j, "completed")
        /\ session'[j] = Absent /\ \A k \in Jobs \ {j} : session'[k] = session[k]
    BY <1>0, <1>7 DEF Complete, files, TypeOK
  <2>2. CASE j # Candidate
    <3>1. policy' = policy
      BY <1>7, <2>2 DEF Complete
    <3>. QED BY <2>1, <3>1, QuietKeepsPolicy DEF Running
  <2>3. CASE j = Candidate
    <3>1. PICK r \in runs : r.id = RunId[Candidate] /\ r.started = session[Candidate].started
      BY <1>0, <2>1, <2>3 DEF PolicyInv, PastHaveRun, At, Running, Past
    <3>2. policy = "pending"
      BY <2>1, <2>3, <3>1 DEF PolicyInv, PolicyDecided, RunsApart, At, Running
    <3>3. Finalized(Reference)
      BY <2>1, <2>3 DEF PolicyInv, PolicyDecided, At, Running
    <3>4. RunsApart' /\ PastHaveRun'
      BY <2>1 DEF PolicyInv, RunsApart, PastHaveRun, Running
    <3>5. PolicyDecided'
      BY <2>1, <2>3, <3>1, <3>3 DEF PolicyDecided, Running, Finalized
    <3>6. UnslothRuns' /\ UnslothGated'
      BY <1>0, <2>1, <3>2 DEF PolicyInv, UnslothRuns, UnslothGated, Running
    <3>. QED BY <3>4, <3>5, <3>6 DEF PolicyInv
  <2>. QED BY <2>2, <2>3
<1>8. ASSUME NEW t \in Tasks, Launch(t) PROVE PolicyInv'
  <2>1. PICK w \in Wrappers : /\ w.started = attempts + 1 /\ w.at = "preflight"
                              /\ session' = [session EXCEPT ![t] = w]
    <3>1. <<>> \in Seq(Signals) /\ attempts + 1 \in Nat
      BY DEF TypeOK
    <3>. QED BY <1>8, <3>1 DEF Launch, Wrappers, Stages
  <2>2. /\ session[t] = Absent /\ attempts' = attempts + 1 /\ attempts \in Nat
        /\ Preflight(JobOf(t)) /\ UNCHANGED <<adapter, runs, policy>>
    BY <1>8 DEF Launch, files, books, TypeOK
  <2>3. session'[t] = w /\ \A u \in Tasks \ {t} : session'[u] = session[u]
    BY <2>1 DEF TypeOK
  <2>4. t \in Jobs => JobOf(t) = t
    BY DEF JobOf
  <2>5. RunsApart'
    BY <2>2 DEF PolicyInv, RunsApart
  <2>6. PastHaveRun'
    <3>1. t \in Jobs => session'[t].at \notin Past
      BY <2>1, <2>3 DEF Past
    <3>2. \A k \in Jobs : Running(k)' /\ session'[k].at \in Past =>
             Running(k) /\ session'[k] = session[k]
      BY <1>0, <2>3, <3>1 DEF Running
    <3>. QED BY <2>2, <3>2 DEF PolicyInv, PastHaveRun
  <2>7. t = Candidate => Finalized(Reference)
    BY <1>0, <2>2, <2>4 DEF Preflight, ReferenceReceipt
  <2>8. PolicyDecided'
    <3>1. (Running(Candidate) \/ policy # "pending" => Finalized(Reference))'
      BY <1>0, <2>2, <2>3, <2>7 DEF PolicyInv, PolicyDecided, Running, Finalized
    <3>2. ASSUME policy' # "pending"
          PROVE  \E r \in runs' : r.id = RunId[Candidate]
                    /\ ~(Running(Candidate)' /\ session'[Candidate].started = r.started)
      <4>1. PICK r \in runs : r.id = RunId[Candidate]
                    /\ ~(Running(Candidate) /\ session[Candidate].started = r.started)
        BY <2>2, <3>2 DEF PolicyInv, PolicyDecided
      <4>2. r.started \in 1 .. attempts
        BY DEF PolicyInv, RunsApart
      <4>3. ~(Running(Candidate)' /\ session'[Candidate].started = r.started)
        BY <1>0, <2>1, <2>2, <2>3, <4>1, <4>2 DEF Running
      <4>. QED BY <2>2, <4>1, <4>3
    <3>. QED BY <3>1, <3>2 DEF PolicyDecided
  <2>9. UnslothRuns'
    BY <1>0, <2>2, <2>3, <2>4 DEF PolicyInv, UnslothRuns, Running, Preflight, BackendAllowed
  <2>10. UnslothGated'
    BY <2>2 DEF PolicyInv, UnslothGated, Finalized
  <2>. QED BY <2>5, <2>6, <2>8, <2>9, <2>10 DEF PolicyInv
<1>9. ASSUME NEW t \in Tasks, RecordFailure(t) PROVE PolicyInv'
  BY <1>0, <1>9, QuietKeepsPolicy DEF RecordFailure, files, TypeOK, Running
<1>10. ASSUME NEW t \in Tasks, Terminate(t) PROVE PolicyInv'
  <2>1. CASE session[t].at = "completed"
    BY <1>0, <1>10, <2>1, QuietKeepsPolicy DEF Terminate, files, books, TypeOK, Running
  <2>2. CASE session[t].at # "completed"
    <3>1. /\ Goto(t, "trap") /\ session[t] # Absent
          /\ UNCHANGED <<attempts, adapter, runs, policy>>
      BY <1>10, <2>2 DEF Terminate, Goto, files, books
    <3>. QED BY <3>1, GotoKeepsPolicy DEF Past, Stages
  <2>. QED BY <2>1, <2>2
<1>11. ASSUME LosePod PROVE PolicyInv'
  BY <1>0, <1>11, QuietKeepsPolicy DEF LosePod, files, books, Running
<1>12. ASSUME Commit \/ UNCHANGED allVars \/ BeginMerge PROVE PolicyInv'
  BY <1>12, QuietKeepsPolicy DEF Commit, BeginMerge, allVars, vars, files, books, Running
<1>13. ASSUME \/ StartExport \/ FinishMerge \/ Quantize \/ WriteManifest
              \/ WriteDurable \/ BillExport \/ FinishExport
       PROVE  PolicyInv'
  <2>1. UNCHANGED <<attempts, adapter, runs, policy>>
    BY <1>13 DEF StartExport, FinishMerge, Quantize, WriteManifest, WriteDurable,
                 BillExport, FinishExport, files, books
  <2>2. \/ \E s \in Stages : Goto(Exporter, s)
        \/ session' = [session EXCEPT ![Exporter] = Absent]
    BY <1>13 DEF StartExport, FinishMerge, Quantize, WriteManifest, WriteDurable,
                 BillExport, FinishExport, Stages
  <2>3. \A j \in Jobs : session'[j] = session[j]
    BY <2>2 DEF Goto, TypeOK, Tasks
  <2>. QED BY <2>1, <2>3, QuietKeepsPolicy DEF Running
<1>. QED
  BY StepCases, <1>1, <1>2, <1>3, <1>4, <1>5, <1>6, <1>7, <1>8, <1>9, <1>10, <1>11,
     <1>12, <1>13

(* Unsloth trains past R1 only after an agreement of two finalised R1 runs. *)
THEOREM UnslothIsGated == ESpec => []UnslothGated
<1>1. EInit => TypeOK /\ LedgerInv /\ PolicyInv
  BY InitTyped, LedgerInit, PolicyInit
<1>2. TypeOK /\ LedgerInv /\ PolicyInv /\ [ENext]_allVars => (TypeOK /\ LedgerInv /\ PolicyInv)'
  BY NextTyped, LedgerNext, PolicyNext
<1>3. PolicyInv => UnslothGated
  BY DEF PolicyInv
<1>. QED BY <1>1, <1>2, <1>3, PTL DEF ESpec

-----------------------------------------------------------------------------
(* The export.                                                             *)
WholeMerge == [adapter |-> trained[Exported], written |-> "complete"]

AtOne(t, stages) == session[t] # Absent /\ session[t].at \in stages

(* The export runs only of a job with its receipt, works on directories    *)
(* that no manifest describes yet, and describes them once they are whole. *)
ExportInv ==
    /\ \/ AtOne(Exporter, {"merge", "quantize", "manifest", "durable"})
       \/ merged # Absent \/ manifest # Absent
       => trained[Exported] # Absent
    /\ merged # Absent =>
          merged = [adapter |-> trained[Exported], written |-> merged.written]
    /\ AtOne(Exporter, {"merge", "quantize", "manifest"}) => manifest = Absent
    /\ AtOne(Exporter, {"quantize", "manifest"}) => merged = WholeMerge
    /\ AtOne(Exporter, {"manifest"}) => quantized = WholeMerge
    /\ manifest # Absent =>
          manifest = [source |-> trained[Exported], merged |-> WholeMerge, quantized |-> WholeMerge]
    /\ durable \in {Absent, manifest}

LEMMA ExportInit == EInit => ExportInv
BY TrainingAssumption DEF EInit, Init, ExportInv, AtOne, Tasks

(* A training receipt is final.                                            *)
LEMMA ReceiptStays ==
  ASSUME TypeOK, EvidenceInv, [ENext]_allVars, NEW j \in Jobs, trained[j] # Absent
  PROVE  trained'[j] = trained[j] /\ trained[j] = adapter[j]
<1>1. ASSUME NEW k \in Jobs, WriteTrainingReceipt(k) PROVE trained'[j] = trained[j]
  <2>1. trained[k] = Absent
    BY <1>1 DEF WriteTrainingReceipt, EvidenceInv, StageFiles
  <2>. QED BY <1>1, <2>1 DEF WriteTrainingReceipt, TypeOK
<1>2. ASSUME ~\E k \in Jobs : WriteTrainingReceipt(k) PROVE trained' = trained
  BY <1>2, StepCases
  DEF StartTrainer, TrainStep, SaveAdapter, Evaluate, AppendRun, AppendLedger, NoteCompleted,
      Complete, Launch, RecordFailure, Terminate, LosePod, Commit, StartExport, BeginMerge,
      FinishMerge, Quantize, WriteManifest, WriteDurable, BillExport, FinishExport,
      allVars, vars, files
<1>. QED BY <1>1, <1>2 DEF EvidenceInv, EvidenceAgrees

(* What the export's stage may be after a step of the ladder.              *)
LEMMA LadderKeepsStage ==
  ASSUME TypeOK, [ENext]_allVars, UNCHANGED exports, ~FinishExport, ~BillExport,
         ~StartExport, ~FinishMerge, ~Quantize, ~WriteManifest, ~WriteDurable
  PROVE  \/ session'[Exporter] \in {session[Exporter], Absent}
         \/ session'[Exporter].at \in {"preflight", "trap"}
<1> USE TrainingAssumption
<1>1. ASSUME NEW j \in Jobs,
             \/ StartTrainer(j) \/ TrainStep(j) \/ SaveAdapter(j)
             \/ WriteTrainingReceipt(j) \/ Evaluate(j) \/ AppendRun(j)
             \/ AppendLedger(j) \/ NoteCompleted(j) \/ Complete(j)
      PROVE  session'[Exporter] = session[Exporter]
  BY <1>1 DEF StartTrainer, TrainStep, SaveAdapter, WriteTrainingReceipt, Evaluate, AppendRun,
              AppendLedger, NoteCompleted, Complete, Goto, TypeOK, Tasks
<1>2. ASSUME NEW t \in Tasks, Launch(t) \/ RecordFailure(t)
      PROVE  \/ session'[Exporter] \in {session[Exporter], Absent}
             \/ session'[Exporter].at = "preflight"
  BY <1>2 DEF Launch, RecordFailure, TypeOK, Tasks
<1>3. ASSUME NEW t \in Tasks, Terminate(t)
      PROVE  \/ session'[Exporter] \in {session[Exporter], Absent}
             \/ session'[Exporter].at = "trap"
  <2>1. [session[t] EXCEPT !.at = "trap"].at = "trap"
    BY <1>3 DEF Terminate, TypeOK, Wrappers
  <2>. QED BY <1>3, <2>1 DEF Terminate, TypeOK, Tasks
<1>4. ASSUME LosePod PROVE session'[Exporter] = Absent
  BY <1>4 DEF LosePod, Tasks
<1>5. ASSUME Commit \/ UNCHANGED allVars \/ BeginMerge PROVE session' = session
  BY <1>5 DEF Commit, BeginMerge, allVars, vars
<1>. QED BY StepCases, <1>1, <1>2, <1>3, <1>4, <1>5

LEMMA ExportNext == TypeOK /\ EvidenceInv /\ ExportInv /\ [ENext]_allVars => ExportInv'
<1> SUFFICES ASSUME TypeOK, EvidenceInv, ExportInv, [ENext]_allVars PROVE ExportInv'
  OBVIOUS
<1> USE TrainingAssumption
<1>1. /\ Exported \in Jobs /\ Exporter \in Tasks
      /\ trained[Exported] # Absent =>
            /\ trained'[Exported] = trained[Exported] /\ trained[Exported] = adapter[Exported]
            /\ WholeMerge' = WholeMerge
  BY ReceiptStays DEF Tasks, WholeMerge
<1>2. ASSUME NEW s \in Stages, Goto(Exporter, s), session[Exporter] # Absent
      PROVE  session'[Exporter].at = s
  <2>1. session'[Exporter] = [session[Exporter] EXCEPT !.at = s]
    BY <1>1, <1>2, GotoTyped
  <2>. QED BY <1>1, <1>2, <2>1 DEF TypeOK, Wrappers
<1>3. CASE StartExport
  <2>1. /\ session[Exporter] # Absent /\ UNCHANGED <<merged, quantized, manifest>>
    BY <1>3 DEF StartExport, At
  <2>2. CASE ~Preflight(Exported) \/ trained[Exported] = Absent
    <3>1. session'[Exporter].at = "trap" /\ durable' = durable
      BY <1>2, <1>3, <2>1, <2>2 DEF StartExport, Stages
    <3>. QED BY <1>1, <2>1, <3>1 DEF ExportInv, AtOne
  <2>3. CASE trained[Exported] # Absent /\ manifest # Absent /\ Preflight(Exported)
    <3>1. session'[Exporter].at = "append ledger" /\ durable' = manifest
      BY <1>2, <1>3, <2>1, <2>3 DEF StartExport, Stages
    <3>. QED BY <1>1, <2>1, <2>3, <3>1 DEF ExportInv, AtOne
  <2>4. CASE trained[Exported] # Absent /\ manifest = Absent /\ Preflight(Exported)
    <3>1. /\ durable' = durable
          /\ \/ merged = Absent /\ session'[Exporter].at = "merge"
             \/ merged # Absent /\ merged.written = "complete" /\ session'[Exporter].at = "quantize"
             \/ session'[Exporter].at = "trap"
      BY <1>2, <1>3, <2>1, <2>4 DEF StartExport, CompleteMergedExport, Stages
    <3>2. merged # Absent /\ merged.written = "complete" => merged = WholeMerge
      BY DEF ExportInv, WholeMerge
    <3>. QED BY <1>1, <2>1, <2>4, <3>1, <3>2 DEF ExportInv, AtOne
  <2>. QED BY <2>2, <2>3, <2>4
<1>4. CASE BeginMerge
  <2>1. /\ session' = session /\ AtOne(Exporter, {"merge"}) /\ trained' = trained
        /\ merged' = [adapter |-> adapter[Exported], written |-> "partial"]
        /\ UNCHANGED <<quantized, manifest, durable>>
    BY <1>4 DEF BeginMerge, At, AtOne, vars, files
  <2>2. trained[Exported] # Absent /\ merged' = [adapter |-> trained[Exported], written |-> merged'.written]
    BY <1>1, <2>1 DEF ExportInv, AtOne
  <2>. QED BY <1>1, <2>1, <2>2 DEF ExportInv, AtOne
<1>5. CASE FinishMerge
  <2>1. /\ session[Exporter] # Absent /\ AtOne(Exporter, {"merge"}) /\ merged # Absent
        /\ merged' = [merged EXCEPT !.written = "complete"]
        /\ UNCHANGED <<quantized, manifest, durable>>
    BY <1>5 DEF FinishMerge, At, AtOne
  <2>2. session'[Exporter].at = "quantize"
    BY <1>2, <1>5, <2>1 DEF FinishMerge, Stages
  <2>3. trained[Exported] # Absent /\ merged' = WholeMerge /\ merged'.written = "complete"
    BY <2>1 DEF ExportInv, AtOne, WholeMerge
  <2>. QED BY <1>1, <2>1, <2>2, <2>3 DEF ExportInv, AtOne, WholeMerge
<1>6. CASE Quantize
  <2>1. /\ session[Exporter] # Absent /\ AtOne(Exporter, {"quantize"})
        /\ quantized' = merged /\ UNCHANGED <<merged, manifest, durable>>
    BY <1>6 DEF Quantize, At, AtOne
  <2>2. session'[Exporter].at = "manifest"
    BY <1>2, <1>6, <2>1 DEF Quantize, Stages
  <2>. QED BY <1>1, <2>1, <2>2 DEF ExportInv, AtOne
<1>7. CASE WriteManifest
  <2>1. /\ session[Exporter] # Absent /\ AtOne(Exporter, {"manifest"})
        /\ manifest' = [source |-> adapter[Exported], merged |-> merged, quantized |-> quantized]
        /\ UNCHANGED <<merged, quantized, durable>>
    BY <1>7 DEF WriteManifest, At, AtOne
  <2>2. session'[Exporter].at = "durable"
    BY <1>2, <1>7, <2>1 DEF WriteManifest, Stages
  <2>. QED BY <1>1, <2>1, <2>2 DEF ExportInv, AtOne
<1>8. CASE WriteDurable
  <2>1. /\ session[Exporter] # Absent /\ durable' = manifest
        /\ UNCHANGED <<merged, quantized, manifest>>
    BY <1>8 DEF WriteDurable, At
  <2>2. session'[Exporter].at = "append ledger"
    BY <1>2, <1>8, <2>1 DEF WriteDurable, Stages
  <2>. QED BY <1>1, <2>1, <2>2 DEF ExportInv, AtOne
<1>9. CASE BillExport \/ FinishExport
  <2>1. UNCHANGED exports /\ session[Exporter] # Absent
    BY <1>9 DEF BillExport, FinishExport, At
  <2>2. session'[Exporter] = Absent \/ session'[Exporter].at \in {"finalized", "completed"}
    <3>1. \/ Goto(Exporter, "finalized") \/ Goto(Exporter, "completed")
          \/ session' = [session EXCEPT ![Exporter] = Absent]
      BY <1>9 DEF BillExport, FinishExport
    <3>. QED BY <1>1, <1>2, <2>1, <3>1 DEF Stages, TypeOK
  <2>. QED BY <1>1, <2>1, <2>2 DEF ExportInv, AtOne, exports
<1>10. CASE /\ ~StartExport /\ ~BeginMerge /\ ~FinishMerge /\ ~Quantize /\ ~WriteManifest
            /\ ~WriteDurable /\ ~BillExport /\ ~FinishExport
  <2>1. UNCHANGED exports
    BY <1>10 DEF ENext, allVars
  <2>2. \/ session'[Exporter] \in {session[Exporter], Absent}
        \/ session'[Exporter].at \in {"preflight", "trap"}
    BY <1>10, <2>1, LadderKeepsStage
  <2>. QED BY <1>1, <2>1, <2>2 DEF ExportInv, AtOne, exports
<1>. QED BY <1>3, <1>4, <1>5, <1>6, <1>7, <1>8, <1>9, <1>10

(* A durable manifest describes a whole merge of the adapter that the      *)
(* training receipt names and its quantisation.                            *)
THEOREM ExportIsSound == ESpec => []ExportSound
<1>1. EInit => ExportInv
  BY ExportInit
<1>2. TypeOK /\ EvidenceInv /\ ExportInv /\ [ENext]_allVars => ExportInv'
  BY ExportNext
<1>3. ExportInv => ExportSound
  BY DEF ExportInv, ExportSound, WholeMerge
<1>. QED BY <1>1, <1>2, <1>3, EvidenceAlways, PTL DEF ESpec
=============================================================================
