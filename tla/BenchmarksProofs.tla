--------------------------- MODULE BenchmarksProofs ---------------------------
(* What the benchmark campaigns promise for every set of rates, sequence of  *)
(* commits, bound on time, attempts and discards, and however requests end:  *)
(* the evidence behind a sealed stage, the soundness of a final receipt and  *)
(* the agreement of the two books, whatever command was killed on the way.   *)
EXTENDS Benchmarks, SequenceTheorems, TLAPS

Moments == {"idle", "stage", "retain", "retain receipt", "requests", "receipt", "record", "charge"}

(* A measurement that is not on disk yet as a sealed stage.                  *)
InFlight == process.at \in {"retain", "retain receipt", "requests", "receipt"}

(* A process keeps the six fields of Idle.                                   *)
ProcessShape ==
    /\ process = [at |-> process.at, todo |-> process.todo, bad |-> process.bad,
                  sample |-> process.sample, seals |-> process.seals, source |-> process.source]
    /\ process.at \in Moments
    /\ process.todo \in Seq(Stages)
    /\ process.bad \in Seq(Nat)
    /\ process.seals \in BOOLEAN
    /\ process.at = "idle" => process = Idle

(* What is measured has no sealed stage yet, is older than the clock, and is *)
(* written in the order of the code: its requests, then its receipt.         *)
FlightSound ==
    InFlight =>
        /\ process.todo # <<>> /\ ~Has(Receipt(Stage))
        /\ process.sample.id \in Nat /\ process.sample.id < now
        /\ process.at \in {"requests", "receipt"} => process.sample.loaded = {}
        /\ process.at = "receipt" =>
             Has(Requests(Stage)) /\ disk[Requests(Stage)] = process.sample.id
        /\ process.at = "retain receipt" =>
             /\ Has(<<Stage, Attempt, "requests">>)
             /\ disk[<<Stage, Attempt, "requests">>] = process.sample.id
        /\ process.sample.ending \in EndingType

(* The contaminated attempts a command has counted belong to the stage it is *)
(* at, which is not sealed, and are on disk under their numbers.             *)
AttemptsKept ==
    (process.bad # <<>> /\ (process.at = "stage" \/ InFlight)) =>
        /\ process.todo # <<>> /\ ~Has(Receipt(Stage))
        /\ \A i \in DOMAIN process.bad, kind \in KeptKinds :
             Has(<<Stage, i, kind>>) /\ disk[<<Stage, i, kind>>] = process.bad[i]

(* What a sealed stage says of itself.                                       *)
SealSound(stage) ==
    /\ Sealed(stage).sample.loaded = {}
    /\ Sealed(stage).sample.id \in Nat /\ Sealed(stage).sample.id < now
    /\ Sealed(stage).bad \in Seq(Nat)
    /\ Has(Requests(stage)) /\ disk[Requests(stage)] = Sealed(stage).sample.id
    /\ \A i \in DOMAIN Sealed(stage).bad, kind \in KeptKinds :
         Has(<<stage, i, kind>>) /\ disk[<<stage, i, kind>>] = Sealed(stage).bad[i]
    /\ Sealed(stage).sample.ending \in EndingType

EvidenceInv ==
    /\ campaign \in Campaigns /\ now \in Nat
    /\ ProcessShape /\ FlightSound /\ AttemptsKept
    /\ \A stage \in Stages : Has(Receipt(stage)) => SealSound(stage)

(* The source of a command is the commit that measures, and what it was      *)
(* launched under does not change while it runs.                             *)
SourcePinned ==
    process.at # "idle" =>
        /\ campaign \in {"finite", "sustained"} => verified = process.source
        /\ process.todo # <<>> \/ campaign = "phase5" => process.source = commit

(* A final stage the running command need not run again: its receipt is of   *)
(* the source and the configuration (in phase 5 only what that command runs  *)
(* itself is of the configuration).                                          *)
Relied(stage) ==
    /\ Has(Receipt(stage))
    /\ campaign # "phase5" => Sealed(stage).commit = process.source
    /\ campaign # "phase5" \/ stage \in {"direct-gateway", "overload"} =>
         Sealed(stage).config = Config

DoneIsRelied ==
    (process.at # "idle" /\ process.seals) =>
        \A stage \in FinalStages :
            Relied(stage) \/ \E i \in DOMAIN process.todo : process.todo[i] = stage

(* A gateway burst measured after the capacity on disk was sealed is of the  *)
(* load derived from that capacity; an older one may be of a discarded one.  *)
LoadDerived ==
    (campaign = "finite" /\ Has(Receipt("capacity"))) =>
        LET capacity == Sealed("capacity") IN
        /\ (InFlight /\ Stage = "overload-gateway") =>
             process.sample.offered = capacity.sample.capacity
        /\ Has(Receipt("overload-gateway")) =>
             LET burst == Sealed("overload-gateway") IN
             capacity.finished <= burst.sample.id =>
                 burst.sample.offered = capacity.sample.capacity

(* The part of the invariant that is about the command and its stages.       *)
CommandInv == SourcePinned /\ DoneIsRelied /\ LoadDerived

ReceiptInv == CommandInv /\ ReceiptSound

(* Between the two books the process still carries what it has recorded.     *)
BooksInv == BooksAgree /\ (process.at = "charge" => recorded = receipt)
-----------------------------------------------------------------------------
(* The commands of each campaign.                                            *)
LEMMA CampaignCases ==
  ASSUME campaign \in Campaigns
  PROVE  campaign \in {"serving", "phase5", "finite", "sustained"}
BY CampaignsAssumption

LEMMA CommandsAre ==
  /\ campaign = "serving" => Commands = ServingCommands
  /\ campaign = "phase5" => Commands = Phase5Commands
  /\ campaign = "finite" => Commands = FiniteCommands
  /\ campaign = "sustained" => Commands = SustainedCommands \cup {FinalizeExisting}
BY DEF Commands

(* A command's stages are stages of the campaign.                            *)
LEMMA CommandShape ==
  ASSUME campaign \in Campaigns, NEW c \in Commands
  PROVE  c.stages \in Seq(Stages) /\ c.seals \in BOOLEAN
<1>1. c.seals \in BOOLEAN /\ \E T : c.stages \in Seq(T)
  <2>1. CASE campaign = "serving"
    <3>1. c.stages = <<"sweep">> /\ c.seals = FALSE
      BY <2>1, CommandsAre DEF ServingCommands, Command
    <3>2. <<"sweep">> \in Seq({"sweep"})
      OBVIOUS
    <3>. QED BY <3>1, <3>2
  <2>2. CASE campaign = "phase5"
    <3>1. c \in Phase5Commands
      BY <2>2, CommandsAre
    <3>2. CASE \E s \in {"capacity", "profile-before", "profile-after"} : c = Command({}, <<s>>, FALSE)
      <4>1. PICK s \in {"capacity", "profile-before", "profile-after"} : c = Command({}, <<s>>, FALSE)
        BY <3>2
      <4>2. c.stages = <<s>> /\ c.seals = FALSE
        BY <4>1 DEF Command
      <4>3. <<s>> \in Seq({s})
        OBVIOUS
      <4>. QED BY <4>2, <4>3
    <3>3. CASE c = Command({"capacity", "profile-before", "profile-after"}, <<"direct-gateway", "overload">>, TRUE)
      <4>1. c.stages = <<"direct-gateway", "overload">> /\ c.seals = TRUE
        BY <3>3 DEF Command
      <4>2. <<"direct-gateway", "overload">> \in Seq({"direct-gateway", "overload"})
        OBVIOUS
      <4>. QED BY <4>1, <4>2
    <3>. QED BY <3>1, <3>2, <3>3 DEF Phase5Commands
  <2>3. CASE campaign = "finite"
    <3>1. \/ c.stages = <<"capacity", "matrix-bare", "overload-bare">> /\ c.seals = FALSE
          \/ c.stages = <<"matrix-gateway">> /\ c.seals = FALSE
          \/ c.stages = <<"overload-gateway">> /\ c.seals = TRUE
      BY <2>3, CommandsAre DEF FiniteCommands, Command
    <3>2. /\ <<"capacity", "matrix-bare", "overload-bare">> \in Seq(FiniteStages)
          /\ <<"matrix-gateway">> \in Seq(FiniteStages) /\ <<"overload-gateway">> \in Seq(FiniteStages)
      BY DEF FiniteStages, Baseline
    <3>. QED BY <3>1, <3>2
  <2>4. CASE campaign = "sustained"
    <3>1. \/ c.stages = <<"bare">> /\ c.seals = FALSE
          \/ c.stages = <<"gateway">> /\ c.seals = TRUE
          \/ c.stages = <<>> /\ c.seals = TRUE
      BY <2>4, CommandsAre DEF SustainedCommands, FinalizeExisting, Command
    <3>2. /\ <<"bare">> \in Seq({"bare", "gateway"}) /\ <<"gateway">> \in Seq({"bare", "gateway"})
          /\ <<>> \in Seq({"bare", "gateway"})
      OBVIOUS
    <3>. QED BY <3>1, <3>2
  <2>. QED BY <2>1, <2>2, <2>3, <2>4, CampaignCases
<1>2. \A i \in DOMAIN c.stages : c.stages[i] \in Stages
  BY DEF Stages
<1>3. PICK T : c.stages \in Seq(T)
  BY <1>1
<1>4. /\ Len(c.stages) \in Nat /\ DOMAIN c.stages = 1..Len(c.stages)
      /\ c.stages = [i \in 1..Len(c.stages) |-> c.stages[i]]
  BY <1>3
<1>5. c.stages \in [1..Len(c.stages) -> Stages]
  BY <1>2, <1>4
<1>. QED BY <1>1, <1>4, <1>5

(* The stages of the final receipt.                                          *)
LEMMA FinalStagesAre ==
  /\ campaign = "phase5" =>
       FinalStages = {"capacity", "profile-before", "profile-after", "direct-gateway", "overload"}
  /\ campaign = "finite" => FinalStages = FiniteStages
  /\ campaign = "sustained" => FinalStages = {"bare", "gateway"}
<1>1. CASE campaign = "phase5"
  <2> DEFINE last == Command({"capacity", "profile-before", "profile-after"}, <<"direct-gateway", "overload">>, TRUE)
  <2>1. {x \in Commands : x.seals} = {last}
    BY <1>1, CommandsAre DEF Phase5Commands, Command
  <2>2. {last.stages[i] : i \in DOMAIN last.stages} = {"direct-gateway", "overload"}
    BY DEF Command
  <2>3. last.needs = {"capacity", "profile-before", "profile-after"}
    BY DEF Command
  <2> HIDE DEF last
  <2>4. FinalStages = last.needs \cup {last.stages[i] : i \in DOMAIN last.stages}
    BY <2>1 DEF FinalStages
  <2>. QED BY <1>1, <2>2, <2>3, <2>4
<1>2. CASE campaign = "finite"
  <2> DEFINE last == Command(Baseline \cup {"matrix-gateway"}, <<"overload-gateway">>, TRUE)
  <2>1. {x \in Commands : x.seals} = {last}
    BY <1>2, CommandsAre DEF FiniteCommands, Command
  <2>2. {last.stages[i] : i \in DOMAIN last.stages} = {"overload-gateway"}
    BY DEF Command
  <2>3. last.needs = Baseline \cup {"matrix-gateway"}
    BY DEF Command
  <2> HIDE DEF last
  <2>4. FinalStages = last.needs \cup {last.stages[i] : i \in DOMAIN last.stages}
    BY <2>1 DEF FinalStages
  <2>. QED BY <1>2, <2>2, <2>3, <2>4 DEF FiniteStages
<1>3. CASE campaign = "sustained"
  <2> DEFINE last == Command({"bare"}, <<"gateway">>, TRUE)
  <2>1. {x \in Commands : x.seals} = {last, FinalizeExisting}
    BY <1>3, CommandsAre DEF SustainedCommands, FinalizeExisting, Command
  <2>2. {last.stages[i] : i \in DOMAIN last.stages} = {"gateway"} /\ last.needs = {"bare"}
    BY DEF Command
  <2>3. {FinalizeExisting.stages[i] : i \in DOMAIN FinalizeExisting.stages} = {}
    BY DEF Command, FinalizeExisting
  <2>4. FinalizeExisting.needs = {"bare", "gateway"}
    BY DEF Command, FinalizeExisting
  <2> HIDE DEF last
  <2>5. FinalStages = (last.needs \cup {last.stages[i] : i \in DOMAIN last.stages})
                        \cup (FinalizeExisting.needs
                                \cup {FinalizeExisting.stages[i] : i \in DOMAIN FinalizeExisting.stages})
    BY <2>1 DEF FinalStages
  <2>. QED BY <1>3, <2>2, <2>3, <2>4, <2>5
<1>. QED BY <1>1, <1>2, <1>3
-----------------------------------------------------------------------------
(* What does not change, and what a step leaves of the files of a stage.     *)
LEMMA CampaignStays == [Next]_vars => campaign' = campaign
BY DEF Next, vars, store, operator, Launch, Reuse, Measure, RetainRequests, RetainReceipt,
       SealRequests, SealReceipt, SealSweep, WriteFinal, Record, Charge, Kill, VerifyArtifact,
       VerifySustained, ImportFinal, Checkout, Discard

LEMMA CommandsStay ==
  ASSUME campaign' = campaign
  PROVE  /\ Commands' = Commands /\ Stages' = Stages /\ FinalStages' = FinalStages
         /\ KeptKinds' = KeptKinds
<1>1. Commands' = Commands
  BY DEF Commands
<1>. QED BY <1>1 DEF Stages, FinalStages, KeptKinds

SameFiles(stage) ==
    \A n, kind :
        /\ <<stage, n, kind>> \in DOMAIN disk' <=> <<stage, n, kind>> \in DOMAIN disk
        /\ <<stage, n, kind>> \in DOMAIN disk => disk'[<<stage, n, kind>>] = disk[<<stage, n, kind>>]

LEMMA PutFile ==
  ASSUME NEW file, NEW content, Put(file, content)
  PROVE  /\ DOMAIN disk' = DOMAIN disk \cup {file}
         /\ disk'[file] = content
         /\ \A f \in DOMAIN disk : f # file => disk'[f] = disk[f]
BY DEF Put

LEMMA OthersSame ==
  ASSUME NEW s, NEW n, NEW kind, NEW content, Put(<<s, n, kind>>, content), NEW stage, stage # s
  PROVE  SameFiles(stage)
<1> DEFINE file == <<s, n, kind>>
<1>1. \A m, k : <<stage, m, k>> # file
  OBVIOUS
<1>2. Put(file, content)
  OBVIOUS
<1> HIDE DEF file
<1>3. /\ DOMAIN disk' = DOMAIN disk \cup {file}
      /\ \A f \in DOMAIN disk : f # file => disk'[f] = disk[f]
  BY <1>2, PutFile
<1>. QED BY <1>1, <1>3 DEF SameFiles

LEMMA SealKept ==
  ASSUME NEW stage, SealSound(stage), Has(Receipt(stage)), SameFiles(stage),
         campaign' = campaign, now \in Nat, now' \in Nat, now <= now'
  PROVE  SealSound(stage)'
<1>1. /\ Receipt(stage) \in DOMAIN disk' /\ disk'[Receipt(stage)] = disk[Receipt(stage)]
  BY DEF Has, Receipt, SameFiles
<1>2. Sealed(stage)' = Sealed(stage)
  BY <1>1 DEF Sealed, Receipt
<1>3. Has(Requests(stage))' /\ disk'[Requests(stage)] = disk[Requests(stage)]
  BY DEF SealSound, Has, Requests, SameFiles
<1>4. KeptKinds' = KeptKinds
  BY CommandsStay
<1>5. \A i \in DOMAIN Sealed(stage).bad, kind \in KeptKinds :
        Has(<<stage, i, kind>>)' /\ disk'[<<stage, i, kind>>] = Sealed(stage).bad[i]
  BY DEF SealSound, Has, SameFiles
<1>6. Sealed(stage).sample.id < now'
  BY DEF SealSound
<1>7. (\A i \in DOMAIN Sealed(stage).bad, kind \in KeptKinds :
         Has(<<stage, i, kind>>) /\ disk[<<stage, i, kind>>] = Sealed(stage).bad[i])'
  BY <1>2, <1>4, <1>5 DEF Has
<1>8. (Has(Requests(stage)) /\ disk[Requests(stage)] = Sealed(stage).sample.id)'
  BY <1>2, <1>3 DEF SealSound, Requests, Has
<1>9. (Sealed(stage).sample.ending \in EndingType)'
  BY <1>2 DEF SealSound, EndingType
<1>. QED BY <1>2, <1>6, <1>7, <1>8, <1>9 DEF SealSound

(* Seals survive every step that touches no file of a stage that is sealed   *)
(* after it.                                                                 *)
LEMMA SealsKept ==
  ASSUME EvidenceInv, campaign' = campaign, now' \in Nat, now <= now',
         \A stage : Has(Receipt(stage))' => SameFiles(stage)
  PROVE  \A stage \in Stages' : Has(Receipt(stage))' => SealSound(stage)'
<1>1. Stages' = Stages
  BY CommandsStay
<1> SUFFICES ASSUME NEW stage \in Stages, Has(Receipt(stage))' PROVE SealSound(stage)'
  BY <1>1
<1>2. SameFiles(stage) /\ Has(Receipt(stage))
  BY DEF SameFiles, Has, Receipt
<1>3. SealSound(stage) /\ now \in Nat
  BY <1>2 DEF EvidenceInv
<1>. QED BY <1>2, <1>3, SealKept

LEMMA SameDisk ==
  ASSUME disk' = disk, NEW stage
  PROVE  SameFiles(stage)
BY DEF SameFiles

(* A step that leaves the files alone and takes the process out of a stage's *)
(* measurement, or to a stage with no attempts counted, keeps the evidence.  *)
LEMMA QuietStep ==
  ASSUME EvidenceInv, campaign' = campaign, disk' = disk, now' \in Nat, now <= now',
         ProcessShape', ~InFlight',
         process'.at = "stage" => process'.bad = <<>>
  PROVE  EvidenceInv'
<1>1. \A stage \in Stages' : Has(Receipt(stage))' => SealSound(stage)'
  BY SameDisk, SealsKept
<1>2. FlightSound' /\ AttemptsKept'
  BY DEF FlightSound, AttemptsKept
<1>. QED BY <1>1, <1>2 DEF EvidenceInv

LEMMA IdleShape == ASSUME process' = Idle PROVE ProcessShape' /\ ~InFlight' /\ process'.at # "stage"
BY DEF Idle, ProcessShape, InFlight, Moments, Absent

(* A command that ends, however it ends.                                     *)
LEMMA EndStep ==
  ASSUME EvidenceInv, campaign' = campaign, disk' = disk, now' = now, process' = Idle
  PROVE  EvidenceInv'
<1>1. now' \in Nat /\ now <= now'
  BY DEF EvidenceInv
<1>. QED BY <1>1, IdleShape, QuietStep

(* A process with another moment, list of stages, attempts or sample.        *)
LEMMA ShapeStep ==
  ASSUME EvidenceInv, campaign' = campaign,
         NEW a \in Moments \ {"idle"}, NEW t \in Seq(Stages), NEW b \in Seq(Nat), NEW x,
         process' = [at |-> a, todo |-> t, bad |-> b, sample |-> x,
                     seals |-> process.seals, source |-> process.source]
  PROVE  ProcessShape'
<1>1. Stages' = Stages
  BY CommandsStay
<1>. QED BY <1>1 DEF EvidenceInv, ProcessShape, Moments
-----------------------------------------------------------------------------
(* A run of a stage is known by the moment it began; the load of the finite  *)
(* gateway burst is the sealed capacity of that moment.                      *)
LEMMA CellFacts ==
  ASSUME NEW stage, NEW cell \in Cells(stage)
  PROVE  /\ cell.id = now
         /\ cell.ending \in EndingType
         /\ stage = "overload-gateway" => cell.offered = Sealed("capacity").sample.capacity
<1>1. Served \in EndingType
  BY DEF Served, Ending, EndingType
<1>2. \A e \in Endings["matrix"] \cup Endings["burst"] : e \in EndingType
  BY EndingsAssumption
<1>3. CASE stage \in {"sweep", "capacity", "profile-before", "profile-after", "direct-gateway"}
  BY <1>1, <1>3 DEF Cells, SweepCells, CapacityCells, ProfileCells, PairedCells, Cell
<1>4. CASE stage = "overload"
  BY <1>1, <1>4 DEF Cells, PairedBursts, BurstCells, Cell
<1>5. CASE stage \in {"matrix-bare", "matrix-gateway"}
  BY <1>2, <1>5 DEF Cells, MatrixCells, Cell
<1>6. CASE stage \in {"overload-bare", "overload-gateway"}
  BY <1>2, <1>6 DEF Cells, EndpointBursts, BurstCells, EndpointEndings, Cell
<1>7. CASE stage \notin {"sweep", "capacity", "profile-before", "profile-after", "direct-gateway",
                         "overload", "matrix-bare", "matrix-gateway", "overload-bare",
                         "overload-gateway"}
  <2>1. cell \in SustainedBursts(now, stage)
    BY <1>7 DEF Cells
  <2>. QED BY <1>2, <1>7, <2>1 DEF SustainedBursts, BurstCells, EndpointEndings, Cell
<1>. QED BY <1>3, <1>4, <1>5, <1>6, <1>7

(* The fields of a process, for steps that change some of them.              *)
LEMMA Fields ==
  ASSUME EvidenceInv
  PROVE  /\ process = [at |-> process.at, todo |-> process.todo, bad |-> process.bad,
                       sample |-> process.sample, seals |-> process.seals, source |-> process.source]
         /\ process.todo \in Seq(Stages) /\ process.bad \in Seq(Nat) /\ now \in Nat
BY DEF EvidenceInv, ProcessShape

LEMMA LaunchKeepsEvidence ==
  ASSUME EvidenceInv, NEW c \in Commands, Launch(c), campaign' = campaign
  PROVE  EvidenceInv'
<1>1. process' = [at |-> "stage", todo |-> c.stages, bad |-> <<>>, sample |-> Absent,
                  seals |-> c.seals, source |-> Source(c)]
  BY DEF Launch, Idle
<1>2. c.stages \in Seq(Stages) /\ c.seals \in BOOLEAN /\ <<>> \in Seq(Nat) /\ Stages' = Stages
  BY CommandShape, CommandsStay DEF EvidenceInv
<1>3. ProcessShape'
  BY <1>1, <1>2 DEF ProcessShape, Moments
<1>4. now \in Nat /\ now' = now + 1 /\ disk' = disk
  BY DEF Launch, EvidenceInv, store
<1>. QED BY <1>1, <1>3, <1>4, QuietStep DEF InFlight

LEMMA ReuseKeepsEvidence ==
  ASSUME EvidenceInv, Reuse, campaign' = campaign
  PROVE  EvidenceInv'
<1>1. disk' = disk /\ now' = now /\ now \in Nat
  BY DEF Reuse, store, EvidenceInv
<1>2. CASE process' = Idle
  BY <1>1, <1>2, EndStep
<1>3. CASE process' = [process EXCEPT !.todo = Tail(@)]
  <2>1. process.at = "stage" /\ process.todo # <<>> /\ Has(Receipt(Stage))
    BY DEF Reuse, AtStage
  <2>2. process.bad = <<>>
    BY <2>1 DEF EvidenceInv, AttemptsKept
  <2>3. Tail(process.todo) \in Seq(Stages)
    BY <2>1, Fields
  <2>4. process' = [at |-> "stage", todo |-> Tail(process.todo), bad |-> process.bad,
                    sample |-> process.sample, seals |-> process.seals, source |-> process.source]
    BY <1>3, <2>1, Fields
  <2>5. ProcessShape'
    BY <2>3, <2>4, Fields, ShapeStep DEF Moments
  <2>. QED BY <1>1, <2>2, <2>4, <2>5, QuietStep DEF InFlight
<1>. QED BY <1>2, <1>3 DEF Reuse, Leave

LEMMA MeasureKeepsEvidence ==
  ASSUME EvidenceInv, Measure, campaign' = campaign
  PROVE  EvidenceInv'
<1>1. /\ disk' = disk /\ now' = now + 1 /\ now \in Nat
      /\ process.at = "stage" /\ process.todo # <<>> /\ ~Has(Receipt(Stage))
  BY DEF Measure, AtStage, store, EvidenceInv
<1>2. PICK cell \in Cells(Stage) :
        process' = [process EXCEPT !.sample = cell,
                                   !.at = IF Contaminated(cell) THEN "retain" ELSE "requests"]
  BY DEF Measure
<1> DEFINE a == IF Contaminated(cell) THEN "retain" ELSE "requests"
<1>3. process' = [at |-> a, todo |-> process.todo, bad |-> process.bad,
                  sample |-> cell, seals |-> process.seals, source |-> process.source]
  BY <1>2, Fields
<1>4. a \in {"retain", "requests"} /\ (a = "requests" => cell.loaded = {})
  BY DEF Contaminated
<1> HIDE DEF a
<1>5. ProcessShape'
  BY <1>3, <1>4, Fields, ShapeStep DEF Moments
<1>6. Stage' = Stage /\ Receipt(Stage)' = Receipt(Stage) /\ KeptKinds' = KeptKinds
  BY <1>3, CommandsStay DEF Stage, Receipt
<1>7. FlightSound'
  <2>1. /\ process'.todo # <<>> /\ ~Has(Receipt(Stage))'
        /\ process'.sample = cell /\ process'.at \in {"retain", "requests"}
        /\ process'.at = "requests" => cell.loaded = {}
    BY <1>1, <1>3, <1>4, <1>6 DEF Has
  <2>2. /\ cell.id \in Nat /\ cell.id < now'
        /\ cell.ending \in EndingType
    BY <1>1, CellFacts
  <2>. QED BY <1>6, <2>1, <2>2 DEF FlightSound, EndingType
<1>8. AttemptsKept'
  <2>1. process.bad # <<>> =>
          \A i \in DOMAIN process.bad, kind \in KeptKinds :
            Has(<<Stage, i, kind>>) /\ disk[<<Stage, i, kind>>] = process.bad[i]
    BY <1>1 DEF EvidenceInv, AttemptsKept
  <2>. QED BY <1>1, <1>3, <1>6, <2>1 DEF AttemptsKept, Has
<1>9. \A stage \in Stages' : Has(Receipt(stage))' => SealSound(stage)'
  BY <1>1, SameDisk, SealsKept
<1>. QED BY <1>1, <1>5, <1>7, <1>8, <1>9 DEF EvidenceInv
(* A file of the stage that is measured is written, not yet its receipt.     *)
LEMMA PutKeepsSeals ==
  ASSUME EvidenceInv, campaign' = campaign, now' = now, NEW n, NEW kind, NEW content,
         Put(<<Stage, n, kind>>, content), ~Has(Receipt(Stage)), <<n, kind>> # <<0, "receipt">>
  PROVE  /\ \A stage \in Stages' : Has(Receipt(stage))' => SealSound(stage)'
         /\ Receipt(Stage) \notin DOMAIN disk'
<1>1. <<Stage, n, kind>> # Receipt(Stage)
  BY DEF Receipt
<1> DEFINE file == <<Stage, n, kind>>
<1>10. Put(file, content) /\ file # Receipt(Stage) /\ Receipt(Stage) \notin DOMAIN disk
  BY <1>1 DEF Has
<1>2. Receipt(Stage) \notin DOMAIN disk'
  BY <1>1, <1>10 DEF Put
<1>3. ASSUME NEW stage, Has(Receipt(stage))' PROVE SameFiles(stage)
  <2>1. stage # Stage
    BY <1>2, <1>3 DEF Has, Receipt
  <2>. QED BY <2>1, OthersSame
<1>4. now' \in Nat /\ now <= now'
  BY DEF EvidenceInv
<1>. QED BY <1>2, <1>3, <1>4, SealsKept

(* The attempts already counted stay on disk: the next has the next number.  *)
LEMMA CountedStay ==
  ASSUME EvidenceInv, process.at = "stage" \/ InFlight, NEW n \in Nat \ DOMAIN process.bad,
         NEW kind, NEW content, Put(<<Stage, n, kind>>, content)
  PROVE  \A i \in DOMAIN process.bad, k \in KeptKinds :
           <<Stage, i, k>> \in DOMAIN disk' /\ disk'[<<Stage, i, k>>] = process.bad[i]
<1> SUFFICES ASSUME NEW i \in DOMAIN process.bad, NEW k \in KeptKinds
             PROVE  <<Stage, i, k>> \in DOMAIN disk' /\ disk'[<<Stage, i, k>>] = process.bad[i]
  OBVIOUS
<1>1. process.bad # <<>>
  OBVIOUS
<1>2. <<Stage, i, k>> \in DOMAIN disk /\ disk[<<Stage, i, k>>] = process.bad[i]
  BY <1>1 DEF EvidenceInv, AttemptsKept, Has
<1>3. <<Stage, i, k>> # <<Stage, n, kind>>
  OBVIOUS
<1>. QED BY <1>2, <1>3, PutFile

LEMMA CountedNext ==
  ASSUME EvidenceInv, InFlight
  PROVE  /\ Attempt \in Nat \ DOMAIN process.bad /\ Attempt # 0
         /\ Append(process.bad, process.sample.id) \in Seq(Nat)
         /\ DOMAIN Append(process.bad, process.sample.id) = DOMAIN process.bad \cup {Attempt}
         /\ Append(process.bad, process.sample.id)[Attempt] = process.sample.id
         /\ \A i \in DOMAIN process.bad :
              Append(process.bad, process.sample.id)[i] = process.bad[i]
<1>1. process.bad \in Seq(Nat) /\ process.sample.id \in Nat
  BY DEF EvidenceInv, ProcessShape, FlightSound
<1>2. Len(process.bad) \in Nat /\ DOMAIN process.bad = 1..Len(process.bad)
  BY <1>1
<1>. QED BY <1>1, <1>2 DEF Attempt

(* A contaminated attempt with all its files on disk is counted.             *)
LEMMA CountKeepsEvidence ==
  ASSUME EvidenceInv, InFlight, campaign' = campaign, now' = now,
         NEW kind, NEW content, Put(<<Stage, Attempt, kind>>, content),
         process' = NextAttempt,
         \A k \in KeptKinds : <<Stage, Attempt, k>> \in DOMAIN disk'
                              /\ disk'[<<Stage, Attempt, k>>] = process.sample.id
  PROVE  EvidenceInv'
<1> DEFINE b == Append(process.bad, process.sample.id)
<1>1. process' = [at |-> "stage", todo |-> process.todo, bad |-> b, sample |-> process.sample,
                  seals |-> process.seals, source |-> process.source]
  BY Fields DEF NextAttempt
<1>2. b \in Seq(Nat)
  BY CountedNext
<1>3. ProcessShape'
  BY <1>1, <1>2, Fields, ShapeStep DEF Moments
<1>4. /\ \A stage \in Stages' : Has(Receipt(stage))' => SealSound(stage)'
      /\ Receipt(Stage) \notin DOMAIN disk' /\ process.todo # <<>>
  <2>1. ~Has(Receipt(Stage)) /\ process.todo # <<>>
    BY DEF EvidenceInv, FlightSound
  <2>2. <<Attempt, kind>> # <<0, "receipt">>
    BY CountedNext
  <2>. QED BY <2>1, <2>2, PutKeepsSeals
<1>5. Stage' = Stage /\ KeptKinds' = KeptKinds
  BY <1>1, CommandsStay DEF Stage
<1>6. \A i \in DOMAIN b, k \in KeptKinds :
        <<Stage, i, k>> \in DOMAIN disk' /\ disk'[<<Stage, i, k>>] = b[i]
  <2>1. \A i \in DOMAIN process.bad, k \in KeptKinds :
          <<Stage, i, k>> \in DOMAIN disk' /\ disk'[<<Stage, i, k>>] = process.bad[i]
    BY CountedNext, CountedStay
  <2>. QED BY <2>1, CountedNext
<1> HIDE DEF b
<1>7. AttemptsKept'
  BY <1>1, <1>4, <1>5, <1>6 DEF AttemptsKept, Has, Receipt
<1>8. FlightSound'
  <2>1. process'.at = "stage"
    BY <1>1
  <2>. QED BY <2>1 DEF FlightSound, InFlight
<1>9. campaign' \in Campaigns /\ now' \in Nat
  BY DEF EvidenceInv
<1>. QED BY <1>3, <1>4, <1>7, <1>8, <1>9 DEF EvidenceInv

(* The next file of the same measurement.                                    *)
LEMMA NextFileKeepsEvidence ==
  ASSUME EvidenceInv, InFlight, campaign' = campaign, now' = now,
         NEW n \in Nat \ DOMAIN process.bad, NEW kind, Put(<<Stage, n, kind>>, process.sample.id),
         kind = "requests",
         NEW a, \/ a = "retain receipt" /\ n = Attempt
                \/ a = "receipt" /\ n = 0 /\ process.at = "requests",
         process' = [process EXCEPT !.at = a]
  PROVE  EvidenceInv'
<1>1. process' = [at |-> a, todo |-> process.todo, bad |-> process.bad, sample |-> process.sample,
                  seals |-> process.seals, source |-> process.source]
  BY Fields
<1>2. ProcessShape'
  BY <1>1, Fields, ShapeStep DEF Moments
<1>3. /\ ~Has(Receipt(Stage)) /\ process.todo # <<>>
      /\ process.sample.id \in Nat /\ process.sample.id < now
      /\ process.at = "requests" => process.sample.loaded = {}
      /\ process.sample.ending \in EndingType
  BY DEF EvidenceInv, FlightSound
<1>4. /\ \A stage \in Stages' : Has(Receipt(stage))' => SealSound(stage)'
      /\ Receipt(Stage) \notin DOMAIN disk'
  <2>1. <<n, kind>> # <<0, "receipt">>
    OBVIOUS
  <2>. QED BY <1>3, <2>1, PutKeepsSeals
<1>5. Stage' = Stage /\ KeptKinds' = KeptKinds /\ Attempt' = Attempt
  BY <1>1, CommandsStay DEF Stage, Attempt
<1>6. <<Stage, n, kind>> \in DOMAIN disk' /\ disk'[<<Stage, n, kind>>] = process.sample.id
  BY PutFile
<1>7. FlightSound'
  <2>1. process'.todo # <<>> /\ ~Has(Receipt(Stage))'
    BY <1>1, <1>3, <1>4, <1>5 DEF Has, Receipt
  <2>2. /\ (process.sample.id \in Nat /\ process.sample.id < now)'
        /\ process'.at \in {"requests", "receipt"} => process'.sample.loaded = {}
    BY <1>1, <1>3
  <2>3. process'.at = "receipt" =>
          (Has(Requests(Stage)) /\ disk[Requests(Stage)] = process.sample.id)'
    BY <1>1, <1>5, <1>6 DEF Has, Requests
  <2>4. process'.at = "retain receipt" =>
          (/\ Has(<<Stage, Attempt, "requests">>)
           /\ disk[<<Stage, Attempt, "requests">>] = process.sample.id)'
    BY <1>1, <1>5, <1>6 DEF Has
  <2>5. (process.sample.ending \in EndingType)'
    BY <1>1, <1>3, <1>5 DEF EndingType
  <2>. QED BY <2>1, <2>2, <2>3, <2>4, <2>5 DEF FlightSound
<1>8. AttemptsKept'
  <2>1. \A i \in DOMAIN process.bad, k \in KeptKinds :
          <<Stage, i, k>> \in DOMAIN disk' /\ disk'[<<Stage, i, k>>] = process.bad[i]
    BY CountedStay
  <2>. QED BY <1>1, <1>3, <1>4, <1>5, <2>1 DEF AttemptsKept, Has, Receipt
<1>. QED BY <1>2, <1>4, <1>7, <1>8 DEF EvidenceInv

LEMMA RetainKeepsEvidence ==
  ASSUME EvidenceInv, RetainRequests \/ RetainReceipt, campaign' = campaign
  PROVE  EvidenceInv'
<1>1. now' = now /\ InFlight
  BY DEF RetainRequests, RetainReceipt, operator, InFlight
<1>2. CASE RetainRequests /\ "receipt" \notin KeptKinds
  <2>1. Put(<<Stage, Attempt, "requests">>, process.sample.id) /\ process' = NextAttempt
    BY <1>2 DEF RetainRequests
  <2>2. KeptKinds = {"requests"}
    BY <1>2 DEF KeptKinds
  <2>3. \A k \in KeptKinds : <<Stage, Attempt, k>> \in DOMAIN disk'
                             /\ disk'[<<Stage, Attempt, k>>] = process.sample.id
    BY <2>1, <2>2, PutFile
  <2>. QED BY <1>1, <2>1, <2>3, CountKeepsEvidence
<1>3. CASE RetainRequests /\ "receipt" \in KeptKinds
  <2>1. /\ Put(<<Stage, Attempt, "requests">>, process.sample.id)
        /\ process' = [process EXCEPT !.at = "retain receipt"]
    BY <1>3 DEF RetainRequests
  <2>. QED BY <1>1, <2>1, CountedNext, NextFileKeepsEvidence
<1>4. CASE RetainReceipt
  <2>1. /\ Put(<<Stage, Attempt, "receipt">>, process.sample.id) /\ process' = NextAttempt
        /\ process.at = "retain receipt"
    BY <1>4 DEF RetainReceipt
  <2>2. /\ <<Stage, Attempt, "requests">> \in DOMAIN disk
        /\ disk[<<Stage, Attempt, "requests">>] = process.sample.id
    BY <1>1, <2>1 DEF EvidenceInv, FlightSound, Has
  <2>3. <<Stage, Attempt, "requests">> # <<Stage, Attempt, "receipt">>
    OBVIOUS
  <2>4. \A k \in {"requests", "receipt"} : <<Stage, Attempt, k>> \in DOMAIN disk'
                             /\ disk'[<<Stage, Attempt, k>>] = process.sample.id
    BY <2>1, <2>2, <2>3, PutFile
  <2>5. KeptKinds \subseteq {"requests", "receipt"}
    BY DEF KeptKinds
  <2>. QED BY <1>1, <2>1, <2>4, <2>5, CountKeepsEvidence
<1>. QED BY <1>2, <1>3, <1>4

LEMMA SealRequestsKeepsEvidence ==
  ASSUME EvidenceInv, SealRequests, campaign' = campaign
  PROVE  EvidenceInv'
<1>1. /\ now' = now /\ InFlight /\ process.at = "requests"
      /\ Put(<<Stage, 0, "requests">>, process.sample.id)
      /\ process' = [process EXCEPT !.at = "receipt"]
  BY DEF SealRequests, operator, InFlight, Requests
<1>2. 0 \in Nat \ DOMAIN process.bad
  BY Fields
<1>. QED BY <1>1, <1>2, NextFileKeepsEvidence

(* The receipt of a measured stage is written last, after everything it      *)
(* speaks of.                                                                *)
LEMMA NewSealSound ==
  ASSUME EvidenceInv, process.at = "receipt", campaign' = campaign, now' = now,
         Put(Receipt(Stage), SealedStage)
  PROVE  \A stage \in Stages' : Has(Receipt(stage))' => SealSound(stage)'
<1>1. Stages' = Stages /\ KeptKinds' = KeptKinds
  BY CommandsStay
<1>2. now \in Nat /\ InFlight /\ process.bad \in Seq(Nat)
  BY DEF EvidenceInv, InFlight, ProcessShape
<1> SUFFICES ASSUME NEW stage \in Stages, Has(Receipt(stage))' PROVE SealSound(stage)'
  BY <1>1
<1>3. CASE stage # Stage
  <2>1. SameFiles(stage)
    BY <1>3, OthersSame DEF Receipt
  <2>2. Has(Receipt(stage))
    BY <2>1 DEF SameFiles, Has, Receipt
  <2>3. SealSound(stage)
    BY <2>2 DEF EvidenceInv
  <2>. QED BY <1>2, <2>1, <2>2, <2>3, SealKept
<1>4. CASE stage = Stage
  <2>1. /\ process.sample.loaded = {} /\ process.sample.id \in Nat /\ process.sample.id < now
        /\ Requests(stage) \in DOMAIN disk /\ disk[Requests(stage)] = process.sample.id
        /\ process.sample.ending \in EndingType
    BY <1>2, <1>4 DEF EvidenceInv, FlightSound, Has
  <2>2. \A i \in DOMAIN process.bad, kind \in KeptKinds :
          <<stage, i, kind>> \in DOMAIN disk /\ disk[<<stage, i, kind>>] = process.bad[i]
    <3>1. ASSUME NEW i \in DOMAIN process.bad PROVE process.bad # <<>>
      OBVIOUS
    <3>. QED BY <1>2, <1>4, <3>1 DEF EvidenceInv, AttemptsKept, Has
  <2>3. Sealed(stage)' = SealedStage
    BY <1>4 DEF Put, Sealed, Receipt
  <2>4. /\ SealedStage.sample = process.sample /\ SealedStage.bad = process.bad
    BY DEF SealedStage
  <2>5. \A f \in DOMAIN disk : f # Receipt(stage) => f \in DOMAIN disk' /\ disk'[f] = disk[f]
    BY <1>4 DEF Put
  <2>6. (Has(Requests(stage)) /\ disk[Requests(stage)] = Sealed(stage).sample.id)'
    <3>1. Requests(stage) # Receipt(stage)
      BY DEF Requests, Receipt
    <3>2. Requests(stage) \in DOMAIN disk' /\ disk'[Requests(stage)] = process.sample.id
      BY <2>1, <2>5, <3>1
    <3>. QED BY <2>3, <2>4, <3>2 DEF Has, Requests
  <2>7. (\A i \in DOMAIN Sealed(stage).bad, kind \in KeptKinds :
           Has(<<stage, i, kind>>) /\ disk[<<stage, i, kind>>] = Sealed(stage).bad[i])'
    <3>1. ASSUME NEW i \in DOMAIN process.bad, NEW kind \in KeptKinds
          PROVE  <<stage, i, kind>> \in DOMAIN disk' /\ disk'[<<stage, i, kind>>] = process.bad[i]
      <4>1. i # 0
        BY <1>2
      <4>2. <<stage, i, kind>> # Receipt(stage)
        BY <4>1 DEF Receipt
      <4>. QED BY <2>2, <2>5, <4>2
    <3>. QED BY <1>1, <2>3, <2>4, <3>1 DEF Has
  <2>8. (/\ Sealed(stage).sample.loaded = {}
         /\ Sealed(stage).sample.id \in Nat /\ Sealed(stage).sample.id < now
         /\ Sealed(stage).bad \in Seq(Nat))'
    BY <1>2, <2>1, <2>3, <2>4
  <2>9. (Sealed(stage).sample.ending \in EndingType)'
    BY <2>1, <2>3, <2>4 DEF EndingType
  <2>. QED BY <2>6, <2>7, <2>8, <2>9 DEF SealSound
<1>. QED BY <1>3, <1>4

LEMMA SealKeepsEvidence ==
  ASSUME EvidenceInv, SealReceipt \/ SealSweep, campaign' = campaign
  PROVE  EvidenceInv'
<1>1. /\ now' = now /\ process.at = "receipt" /\ Put(Receipt(Stage), SealedStage)
      /\ process.todo # <<>>
  BY DEF SealReceipt, SealSweep, operator, EvidenceInv, FlightSound, InFlight
<1>2. \A stage \in Stages' : Has(Receipt(stage))' => SealSound(stage)'
  BY <1>1, NewSealSound
<1>3. PICK a \in {"stage", "record"}, t \in {<<>>, Tail(process.todo)}, b \in {<<>>, process.bad},
           x \in {Absent, process.sample} :
        /\ process' = [at |-> a, todo |-> t, bad |-> b, sample |-> x, seals |-> process.seals,
                       source |-> process.source]
        /\ a = "stage" => b = <<>>
  <2>1. CASE SealReceipt
    <3>1. process' = [process EXCEPT !.at = "stage", !.todo = Tail(@), !.bad = <<>>, !.sample = Absent]
      BY <2>1 DEF SealReceipt
    <3>2. process' = [at |-> "stage", todo |-> Tail(process.todo), bad |-> <<>>, sample |-> Absent,
                      seals |-> process.seals, source |-> process.source]
      BY <3>1, Fields
    <3>. QED BY <3>2
  <2>2. CASE SealSweep
    <3>1. process' = [process EXCEPT !.at = "record", !.todo = <<>>]
      BY <2>2 DEF SealSweep
    <3>2. process' = [at |-> "record", todo |-> <<>>, bad |-> process.bad, sample |-> process.sample,
                      seals |-> process.seals, source |-> process.source]
      BY <3>1, Fields
    <3>. QED BY <3>2
  <2>. QED BY <2>1, <2>2
<1>4. t \in Seq(Stages) /\ b \in Seq(Nat)
  <2>1. process.todo \in Seq(Stages) /\ process.bad \in Seq(Nat)
    BY Fields
  <2>2. Tail(process.todo) \in Seq(Stages)
    BY <1>1, <2>1
  <2>3. <<>> \in Seq(Stages) /\ <<>> \in Seq(Nat)
    OBVIOUS
  <2>. QED BY <2>1, <2>2, <2>3
<1>5. ProcessShape'
  BY <1>3, <1>4, ShapeStep DEF Moments
<1>6. FlightSound' /\ AttemptsKept'
  <2>1. process'.at = a /\ process'.bad = b
    BY <1>3
  <2>. QED BY <1>3, <2>1 DEF FlightSound, AttemptsKept, InFlight
<1>7. campaign' \in Campaigns /\ now' \in Nat
  BY <1>1 DEF EvidenceInv
<1>. QED BY <1>2, <1>5, <1>6, <1>7 DEF EvidenceInv

LEMMA BookingKeepsEvidence ==
  ASSUME EvidenceInv, WriteFinal \/ Record \/ Charge \/ Kill, campaign' = campaign
  PROVE  EvidenceInv'
<1>1. /\ disk' = disk /\ now' = now
      /\ \/ process' = Idle
         \/ \E a \in {"record", "charge"} : process' = [process EXCEPT !.at = a]
  BY DEF WriteFinal, Record, Charge, Kill, Leave, store, operator
<1>2. CASE process' = Idle
  BY <1>1, <1>2, EndStep
<1>3. CASE \E a \in {"record", "charge"} : process' = [process EXCEPT !.at = a]
  <2>1. PICK a \in {"record", "charge"} : process' = [process EXCEPT !.at = a]
    BY <1>3
  <2>2. process' = [at |-> a, todo |-> process.todo, bad |-> process.bad, sample |-> process.sample,
                    seals |-> process.seals, source |-> process.source]
    BY <2>1, Fields
  <2>3. ProcessShape'
    BY <2>2, Fields, ShapeStep DEF Moments
  <2>4. process'.at = a /\ now' \in Nat /\ now <= now'
    BY <1>1, <2>2, Fields
  <2>. QED BY <1>1, <2>3, <2>4, QuietStep DEF InFlight
<1>. QED BY <1>1, <1>2, <1>3

(* What is done between commands.                                            *)
LEMMA BetweenKeepsEvidence ==
  ASSUME EvidenceInv, campaign' = campaign,
         VerifyArtifact \/ VerifySustained \/ ImportFinal \/ Checkout
         \/ (\E stage \in Stages : Discard(stage)) \/ UNCHANGED vars
  PROVE  EvidenceInv'
<1>1. CASE VerifyArtifact \/ VerifySustained \/ ImportFinal \/ Checkout
  <2>1. disk' = disk /\ now' = now /\ process = Idle /\ process' = process
    BY <1>1 DEF VerifyArtifact, VerifySustained, ImportFinal, Checkout, store, operator
  <2>. QED BY <2>1, EndStep
<1>2. CASE \E stage \in Stages : Discard(stage)
  <2>1. PICK gone \in Stages : Discard(gone)
    BY <1>2
  <2>2. /\ process' = Idle /\ now' = now /\ now' \in Nat /\ now <= now'
        /\ disk' = [f \in DOMAIN disk \ {Receipt(gone), Requests(gone)} |-> disk[f]]
    BY <2>1 DEF Discard, EvidenceInv
  <2>3. ASSUME NEW stage, Has(Receipt(stage))' PROVE SameFiles(stage)
    <3>1. stage # gone
      BY <2>2, <2>3 DEF Has, Receipt
    <3>2. \A n, kind : <<stage, n, kind>> # Receipt(gone) /\ <<stage, n, kind>> # Requests(gone)
      BY <3>1 DEF Receipt, Requests
    <3>. QED BY <2>2, <3>2 DEF SameFiles
  <2>4. \A stage \in Stages' : Has(Receipt(stage))' => SealSound(stage)'
    BY <2>2, <2>3, SealsKept
  <2>5. ProcessShape' /\ FlightSound' /\ AttemptsKept'
    BY <2>2, IdleShape DEF FlightSound, AttemptsKept
  <2>. QED BY <2>2, <2>4, <2>5 DEF EvidenceInv
<1>3. CASE UNCHANGED vars
  <2>1. /\ campaign' = campaign /\ disk' = disk /\ process' = process /\ now' = now
    BY <1>3 DEF vars, store, operator
  <2>2. \A stage \in Stages' : Has(Receipt(stage))' => SealSound(stage)'
    BY <2>1, SameDisk, SealsKept DEF EvidenceInv
  <2>3. Stages' = Stages /\ KeptKinds' = KeptKinds
    BY CommandsStay
  <2>4. ProcessShape'
    BY <2>1, <2>3 DEF EvidenceInv, ProcessShape, Idle, Absent
  <2>5. FlightSound' /\ AttemptsKept'
    BY <2>1, <2>3 DEF EvidenceInv, FlightSound, AttemptsKept, InFlight, Has, Receipt, Requests,
       Stage, Attempt, EndingType
  <2>. QED BY <2>1, <2>2, <2>4, <2>5 DEF EvidenceInv
<1>. QED BY <1>1, <1>2, <1>3

LEMMA EvidenceInit == Init => EvidenceInv
<1> SUFFICES ASSUME Init PROVE EvidenceInv
  OBVIOUS
<1>1. campaign \in Campaigns /\ disk = <<>> /\ process = Idle /\ now = 1
  BY DEF Init
<1>2. DOMAIN disk = {}
  BY <1>1
<1>. QED BY <1>1, <1>2
     DEF EvidenceInv, ProcessShape, FlightSound, AttemptsKept, InFlight, Idle, Moments, Has, Absent

(* Everything the evidence rests on, in every reachable state.               *)
THEOREM EvidenceInvariant == Spec => []EvidenceInv
<1>1. ASSUME EvidenceInv, [Next]_vars PROVE EvidenceInv'
  <2>1. campaign' = campaign
    BY <1>1, CampaignStays
  <2>2. ASSUME NEW c \in Commands, Launch(c) PROVE EvidenceInv'
    BY <1>1, <2>1, <2>2, LaunchKeepsEvidence
  <2>3. CASE Reuse
    BY <1>1, <2>1, <2>3, ReuseKeepsEvidence
  <2>4. CASE Measure
    BY <1>1, <2>1, <2>4, MeasureKeepsEvidence
  <2>5. CASE RetainRequests \/ RetainReceipt
    BY <1>1, <2>1, <2>5, RetainKeepsEvidence
  <2>6. CASE SealRequests
    BY <1>1, <2>1, <2>6, SealRequestsKeepsEvidence
  <2>7. CASE SealReceipt \/ SealSweep
    BY <1>1, <2>1, <2>7, SealKeepsEvidence
  <2>8. CASE WriteFinal \/ Record \/ Charge \/ Kill
    BY <1>1, <2>1, <2>8, BookingKeepsEvidence
  <2>9. CASE VerifyArtifact \/ VerifySustained \/ ImportFinal \/ Checkout
             \/ (\E stage \in Stages : Discard(stage)) \/ UNCHANGED vars
    BY <1>1, <2>1, <2>9, BetweenKeepsEvidence
  <2>. QED BY <1>1, <2>2, <2>3, <2>4, <2>5, <2>6, <2>7, <2>8, <2>9 DEF Next
<1>. QED BY EvidenceInit, <1>1, PTL DEF Spec

(* EvidenceKept (_run_clean_stage): a sealed stage is clean, its requests    *)
(* are its own, and every contaminated attempt it lists is on disk under its *)
(* number, whatever was killed, discarded or measured again.                 *)
THEOREM AlwaysEvidenceKept == Spec => []EvidenceKept
<1>1. EvidenceInv => EvidenceKept
  BY DEF EvidenceInv, EvidenceKept, SealSound
<1>. QED BY <1>1, EvidenceInvariant, PTL
-----------------------------------------------------------------------------
(* The two books.                                                            *)
THEOREM BooksInvariant == Spec => []BooksInv
<1>1. Init => BooksInv
  BY DEF Init, BooksInv, BooksAgree, Idle
<1>2. ASSUME EvidenceInv, BooksInv, [Next]_vars PROVE BooksInv'
  <2>1. CASE Record
    BY <1>2, <2>1, Fields DEF Record, AppendOnce, BooksInv, BooksAgree, Leave, Idle
  <2>2. CASE Charge
    BY <1>2, <2>2, Fields DEF Charge, AppendOnce, BooksInv, BooksAgree, Leave, Idle
  <2>3. CASE ImportFinal
    BY <1>2, <2>3 DEF ImportFinal, BooksInv, BooksAgree, Idle
  <2>4. ASSUME recorded' = recorded, charged' = charged,
               process'.at = "charge" => process' = process /\ receipt' = receipt
        PROVE  BooksInv'
    BY <1>2, <2>4 DEF BooksInv, BooksAgree
  <2>5. CASE \E c \in Commands : Launch(c)
    BY <2>4, <2>5 DEF Launch, Idle, store
  <2>6. CASE Reuse \/ Measure \/ RetainRequests \/ RetainReceipt \/ SealRequests
    <3>1. recorded' = recorded /\ charged' = charged
      BY <2>6 DEF Reuse, Measure, RetainRequests, RetainReceipt, SealRequests, store
    <3>2. process'.at # "charge"
      <4>1. CASE Reuse
        <5>1. process' = Idle \/ process' = [process EXCEPT !.todo = Tail(process.todo)]
          BY <4>1 DEF Reuse, Leave
        <5>2. process.at = "stage"
          BY <4>1 DEF Reuse, AtStage
        <5>. QED BY <1>2, <5>1, <5>2, Fields DEF Idle
      <4>2. CASE Measure
        BY <1>2, <4>2, Fields DEF Measure
      <4>3. CASE RetainRequests
        BY <1>2, <4>3, Fields DEF RetainRequests, NextAttempt
      <4>4. CASE RetainReceipt
        BY <1>2, <4>4, Fields DEF RetainReceipt, NextAttempt
      <4>5. CASE SealRequests
        BY <1>2, <4>5, Fields DEF SealRequests
      <4>. QED BY <2>6, <4>1, <4>2, <4>3, <4>4, <4>5
    <3>. QED BY <2>4, <3>1, <3>2
  <2>7. CASE SealReceipt \/ SealSweep \/ WriteFinal
    <3>1. recorded' = recorded /\ charged' = charged
      BY <2>7 DEF SealReceipt, SealSweep, WriteFinal, store
    <3>2. process'.at # "charge"
      <4>1. CASE SealReceipt
        BY <1>2, <4>1, Fields DEF SealReceipt
      <4>2. CASE SealSweep
        BY <1>2, <4>2, Fields DEF SealSweep
      <4>3. CASE WriteFinal
        BY <1>2, <4>3, Fields DEF WriteFinal, Leave, Idle
      <4>. QED BY <2>7, <4>1, <4>2, <4>3
    <3>. QED BY <2>4, <3>1, <3>2
  <2>8. CASE Kill \/ VerifyArtifact \/ VerifySustained \/ Checkout
             \/ (\E stage \in Stages : Discard(stage)) \/ UNCHANGED vars
    <3>1. recorded' = recorded /\ charged' = charged
      BY <2>8 DEF Kill, VerifyArtifact, VerifySustained, Checkout, Discard, vars, store
    <3>2. process' = Idle \/ (process' = process /\ receipt' = receipt)
      BY <2>8 DEF Kill, Leave, VerifyArtifact, VerifySustained, Checkout, Discard, vars, store
    <3>3. Idle.at # "charge"
      BY DEF Idle
    <3>. QED BY <2>4, <3>1, <3>2, <3>3
  <2>. QED BY <1>2, <2>1, <2>2, <2>3, <2>5, <2>6, <2>7, <2>8 DEF Next
<1>. QED BY <1>1, <1>2, EvidenceInvariant, PTL DEF Spec

(* BooksAgree (_append_jsonl_once and the GPU ledger): the run record and    *)
(* the ledger entry never tell of different receipts.                        *)
THEOREM AlwaysBooksAgree == Spec => []BooksAgree
<1>1. BooksInv => BooksAgree
  BY DEF BooksInv
<1>. QED BY <1>1, BooksInvariant, PTL
-----------------------------------------------------------------------------
(* What a final receipt relies on.  The stages a sealing command needs or    *)
(* runs are those of the receipt.                                            *)
LEMMA SealsCover ==
  ASSUME campaign \in Campaigns, NEW c \in Commands, c.seals, NEW stage \in FinalStages
  PROVE  stage \in c.needs \/ \E i \in DOMAIN c.stages : c.stages[i] = stage
<1>1. CASE campaign = "serving"
  <2>1. c.seals = FALSE
    BY <1>1, CommandsAre DEF ServingCommands, Command
  <2>. QED BY <2>1
<1>2. CASE campaign = "phase5"
  <2>1. /\ c.needs = {"capacity", "profile-before", "profile-after"}
        /\ c.stages = <<"direct-gateway", "overload">>
    BY <1>2, CommandsAre DEF Phase5Commands, Command
  <2>2. {1, 2} \subseteq DOMAIN c.stages /\ c.stages[1] = "direct-gateway" /\ c.stages[2] = "overload"
    BY <2>1
  <2>. QED BY <1>2, <2>1, <2>2, FinalStagesAre
<1>3. CASE campaign = "finite"
  <2>1. c.needs = Baseline \cup {"matrix-gateway"} /\ c.stages = <<"overload-gateway">>
    BY <1>3, CommandsAre DEF FiniteCommands, Command
  <2>2. 1 \in DOMAIN c.stages /\ c.stages[1] = "overload-gateway"
    BY <2>1
  <2>. QED BY <1>3, <2>1, <2>2, FinalStagesAre DEF FiniteStages
<1>4. CASE campaign = "sustained"
  <2>1. \/ c.needs = {"bare"} /\ c.stages = <<"gateway">>
        \/ c.needs = {"bare", "gateway"}
    BY <1>4, CommandsAre DEF SustainedCommands, FinalizeExisting, Command
  <2>2. c.stages = <<"gateway">> => 1 \in DOMAIN c.stages /\ c.stages[1] = "gateway"
    OBVIOUS
  <2>. QED BY <1>4, <2>1, <2>2, FinalStagesAre
<1>. QED BY <1>1, <1>2, <1>3, <1>4, CampaignCases

(* Only the sustained campaign finalizes what an earlier checkout measured,  *)
(* with a command that runs no stage.                                        *)
LEMMA FinalizesLater ==
  ASSUME NEW c \in Commands, c = FinalizeExisting, campaign \in Campaigns
  PROVE  campaign = "sustained" /\ c.stages = <<>> /\ c.needs = {"bare", "gateway"}
<1>1. c.stages = <<>> /\ c.needs = {"bare", "gateway"}
  BY DEF FinalizeExisting, Command
<1>2. campaign # "serving"
  BY <1>1, CommandsAre DEF ServingCommands, Command
<1>3. campaign # "phase5"
  <2>1. \A s : <<s>> # <<>>
    OBVIOUS
  <2>. QED BY <1>1, <2>1, CommandsAre DEF Phase5Commands, Command
<1>4. campaign # "finite"
  BY <1>1, CommandsAre DEF FiniteCommands, Command
<1>. QED BY <1>1, <1>2, <1>3, <1>4, CampaignCases

SameReceipts ==
    \A stage : /\ Receipt(stage) \in DOMAIN disk' <=> Receipt(stage) \in DOMAIN disk
               /\ Receipt(stage) \in DOMAIN disk => disk'[Receipt(stage)] = disk[Receipt(stage)]

LEMMA ReceiptsUntouched ==
  ASSUME NEW n, NEW kind, NEW content, Put(<<Stage, n, kind>>, content), <<n, kind>> # <<0, "receipt">>
  PROVE  SameReceipts
<1>1. \A stage : Receipt(stage) # <<Stage, n, kind>>
  BY DEF Receipt
<1>. QED BY <1>1 DEF SameReceipts, Put

LEMMA RelyKept ==
  ASSUME campaign' = campaign, commit' = commit, process'.source = process.source,
         NEW stage, Relied(stage), Receipt(stage) \in DOMAIN disk',
         disk'[Receipt(stage)] = disk[Receipt(stage)]
  PROVE  Relied(stage)'
BY DEF Relied, Sealed, Has, Receipt, Config

(* A step that seals nothing and neither begins nor ends a command.          *)
LEMMA WorkKeeps ==
  ASSUME CommandInv, UNCHANGED operator, SameReceipts, process.at # "idle",
         process'.source = process.source, process'.seals = process.seals,
         process'.todo = process.todo,
         (campaign = "finite" /\ Has(Receipt("capacity")) /\ InFlight' /\ Stage = "overload-gateway") =>
           process'.sample.offered = Sealed("capacity").sample.capacity
  PROVE  CommandInv'
<1>1. campaign' = campaign /\ commit' = commit /\ verified' = verified
  BY DEF operator
<1>2. FinalStages' = FinalStages
  BY <1>1, CommandsStay
<1>3. SourcePinned'
  BY <1>1 DEF CommandInv, SourcePinned
<1>4. DoneIsRelied'
  <2> SUFFICES ASSUME process.seals, NEW stage \in FinalStages
               PROVE  Relied(stage)' \/ \E i \in DOMAIN process.todo : process.todo[i] = stage
    BY <1>2 DEF DoneIsRelied
  <2>1. CASE Relied(stage)
    <3>1. Receipt(stage) \in DOMAIN disk' /\ disk'[Receipt(stage)] = disk[Receipt(stage)]
      BY <2>1 DEF Relied, Has, SameReceipts
    <3>. QED BY <1>1, <2>1, <3>1, RelyKept
  <2>. QED BY <2>1 DEF CommandInv, DoneIsRelied
<1>5. LoadDerived'
  <2>1. Stage' = Stage
    BY DEF Stage
  <2>2. \A stage : /\ Has(Receipt(stage))' <=> Has(Receipt(stage))
                   /\ Has(Receipt(stage)) => Sealed(stage)' = Sealed(stage)
    BY DEF SameReceipts, Has, Sealed, Receipt
  <2>. QED BY <1>1, <2>1, <2>2 DEF CommandInv, LoadDerived
<1>. QED BY <1>3, <1>4, <1>5 DEF CommandInv

(* No command runs after the step: the seals that remain are as they were.   *)
LEMMA IdleKeeps ==
  ASSUME CommandInv, campaign' = campaign, process' = Idle,
         \A stage : Receipt(stage) \in DOMAIN disk' =>
           Receipt(stage) \in DOMAIN disk /\ disk'[Receipt(stage)] = disk[Receipt(stage)]
  PROVE  CommandInv'
<1>1. process'.at = "idle" /\ ~InFlight'
  BY DEF Idle, InFlight
<1>2. \A stage : Has(Receipt(stage))' => Has(Receipt(stage)) /\ Sealed(stage)' = Sealed(stage)
  BY DEF Has, Sealed, Receipt
<1>3. SourcePinned' /\ DoneIsRelied'
  BY <1>1 DEF SourcePinned, DoneIsRelied
<1>4. LoadDerived'
  BY <1>1, <1>2 DEF CommandInv, LoadDerived
<1>. QED BY <1>3, <1>4 DEF CommandInv

LEMMA LaunchKeepsCommand ==
  ASSUME EvidenceInv, CommandInv, NEW c \in Commands, Launch(c)
  PROVE  CommandInv'
<1>1. process' = [at |-> "stage", todo |-> c.stages, bad |-> <<>>, sample |-> Absent,
                  seals |-> c.seals, source |-> Source(c)]
  BY DEF Launch, Idle
<1>2. /\ campaign' = campaign /\ commit' = commit /\ verified' = verified /\ disk' = disk
      /\ campaign \in Campaigns
  BY DEF Launch, operator, store, EvidenceInv
<1>3. SourcePinned'
  <2>1. campaign \in {"finite", "sustained"} => verified = Source(c)
    BY DEF Launch, RequireArtifact, RequireSustainedArtifact
  <2>2. c.stages # <<>> \/ campaign = "phase5" => Source(c) = commit
    BY <1>2, FinalizesLater DEF Source
  <2>. QED BY <1>1, <1>2, <2>1, <2>2 DEF SourcePinned
<1>4. DoneIsRelied'
  <2>1. FinalStages' = FinalStages
    BY <1>2, CommandsStay
  <2> SUFFICES ASSUME c.seals, NEW stage \in FinalStages, stage \in c.needs
               PROVE  Relied(stage)'
    BY <1>1, <1>2, <2>1, SealsCover DEF DoneIsRelied
  <2>2. Required(c, Source(c))
    BY DEF Launch
  <2>3. CASE campaign = "phase5"
    <3>1. stage \notin {"direct-gateway", "overload"}
      BY <1>2, <2>3, CommandsAre DEF Phase5Commands, Command
    <3>2. Has(Receipt(stage))
      BY <1>2, <2>2, <2>3, FinalizesLater DEF Required
    <3>. QED BY <1>2, <2>3, <3>1, <3>2 DEF Relied, Has, Receipt
  <2>4. CASE campaign # "phase5"
    <3>1. /\ Has(Receipt(stage)) /\ Sealed(stage).config = Config
          /\ Sealed(stage).commit = Source(c)
      BY <2>2, <2>4 DEF Required, RequireMeasurement, RequireStage, ReusableFinite, ReusablePhase5, Source
    <3>2. Sealed(stage)' = Sealed(stage) /\ Config' = Config /\ Has(Receipt(stage))'
      BY <1>2, <3>1 DEF Sealed, Config, Has, Receipt
    <3>. QED BY <1>1, <1>2, <3>1, <3>2 DEF Relied
  <2>. QED BY <2>3, <2>4
<1>5. LoadDerived'
  <2>1. ~InFlight'
    BY <1>1 DEF InFlight
  <2>2. \A stage : Has(Receipt(stage))' => Has(Receipt(stage)) /\ Sealed(stage)' = Sealed(stage)
    BY <1>2 DEF Has, Sealed, Receipt
  <2>. QED BY <1>2, <2>1, <2>2 DEF CommandInv, LoadDerived
<1>. QED BY <1>3, <1>4, <1>5 DEF CommandInv

(* A stage that was reused, or sealed just now, is what the receipt asks for. *)
LEMMA ReuseKeepsCommand ==
  ASSUME EvidenceInv, CommandInv, Reuse
  PROVE  CommandInv'
<1>1. /\ campaign' = campaign /\ commit' = commit /\ verified' = verified /\ disk' = disk
      /\ campaign \in Campaigns /\ process.at = "stage" /\ process.todo # <<>> /\ Has(Receipt(Stage))
  BY DEF Reuse, AtStage, operator, store, EvidenceInv
<1>2. CASE process' = Idle
  BY <1>1, <1>2, IdleKeeps
<1>3. CASE process' = [process EXCEPT !.todo = Tail(@)] /\ Reusable(Stage)
  <2>1. process' = [at |-> "stage", todo |-> Tail(process.todo), bad |-> process.bad,
                    sample |-> process.sample, seals |-> process.seals, source |-> process.source]
    BY <1>1, <1>3, Fields
  <2>2. process.todo \in Seq(Stages) /\ process.source = commit
    BY <1>1, Fields DEF CommandInv, SourcePinned
  <2>3. SourcePinned'
    BY <1>1, <2>1, <2>2 DEF CommandInv, SourcePinned
  <2>4. Relied(Stage)
    BY <1>1, <1>3, <2>2
       DEF Relied, Reusable, ReusableSweep, ReusablePhase5, ReusableFinite
  <2>5. DoneIsRelied'
    <3>1. FinalStages' = FinalStages
      BY <1>1, CommandsStay
    <3> SUFFICES ASSUME process.seals, NEW stage \in FinalStages
                 PROVE  Relied(stage)' \/ \E i \in DOMAIN Tail(process.todo) : Tail(process.todo)[i] = stage
      BY <2>1, <3>1 DEF DoneIsRelied
    <3>2. CASE Relied(stage)
      BY <1>1, <2>1, <3>2, RelyKept DEF Relied, Has
    <3>3. CASE ~Relied(stage)
      <4>1. PICK i \in DOMAIN process.todo : process.todo[i] = stage
        BY <1>1, <3>3 DEF CommandInv, DoneIsRelied
      <4>2. i # 1
        BY <2>4, <3>3, <4>1 DEF Stage
      <4>3. Len(process.todo) \in Nat /\ i \in 2..Len(process.todo)
        BY <2>2, <4>1, <4>2
      <4>4. i - 1 \in DOMAIN Tail(process.todo) /\ Tail(process.todo)[i - 1] = process.todo[i]
        BY <1>1, <2>2, <4>3
      <4>. QED BY <4>1, <4>4
    <3>. QED BY <3>2, <3>3
  <2>6. LoadDerived'
    <3>1. ~InFlight'
      BY <2>1 DEF InFlight
    <3>2. \A stage : Has(Receipt(stage))' => Has(Receipt(stage)) /\ Sealed(stage)' = Sealed(stage)
      BY <1>1 DEF Has, Sealed, Receipt
    <3>. QED BY <1>1, <3>1, <3>2 DEF CommandInv, LoadDerived
  <2>. QED BY <2>3, <2>5, <2>6 DEF CommandInv
<1>. QED BY <1>2, <1>3 DEF Reuse, Leave

LEMMA MeasuringKeepsCommand ==
  ASSUME EvidenceInv, CommandInv, Measure \/ RetainRequests \/ RetainReceipt \/ SealRequests
  PROVE  CommandInv'
<1>1. CASE Measure
  <2>1. PICK cell \in Cells(Stage) :
          process' = [process EXCEPT !.sample = cell,
                                     !.at = IF Contaminated(cell) THEN "retain" ELSE "requests"]
    BY <1>1 DEF Measure
  <2>2. /\ process'.source = process.source /\ process'.seals = process.seals
        /\ process'.todo = process.todo /\ process'.sample = cell
    BY <2>1, Fields
  <2>3. UNCHANGED operator /\ SameReceipts /\ process.at # "idle"
    BY <1>1 DEF Measure, AtStage, store, SameReceipts
  <2>4. Stage = "overload-gateway" => process'.sample.offered = Sealed("capacity").sample.capacity
    BY <2>2, CellFacts
  <2>. QED BY <2>2, <2>3, <2>4, WorkKeeps
<1>2. CASE RetainRequests \/ RetainReceipt \/ SealRequests
  <2>1. UNCHANGED operator /\ InFlight /\ process.at # "idle"
    BY <1>2 DEF RetainRequests, RetainReceipt, SealRequests, InFlight
  <2>2. SameReceipts
    <3>1. Attempt # 0
      BY <2>1, CountedNext
    <3>2. CASE RetainRequests
      <4>1. Put(<<Stage, Attempt, "requests">>, process.sample.id)
        BY <3>2 DEF RetainRequests
      <4>. QED BY <4>1, ReceiptsUntouched
    <3>3. CASE RetainReceipt
      <4>1. Put(<<Stage, Attempt, "receipt">>, process.sample.id)
        BY <3>3 DEF RetainReceipt
      <4>. QED BY <3>1, <4>1, ReceiptsUntouched
    <3>4. CASE SealRequests
      <4>1. Put(<<Stage, 0, "requests">>, process.sample.id)
        BY <3>4 DEF SealRequests, Requests
      <4>. QED BY <4>1, ReceiptsUntouched
    <3>. QED BY <1>2, <3>2, <3>3, <3>4
  <2>3. /\ process'.source = process.source /\ process'.seals = process.seals
        /\ process'.todo = process.todo /\ process'.sample = process.sample
    <3>1. process' = NextAttempt \/ \E a : process' = [process EXCEPT !.at = a]
      BY <1>2 DEF RetainRequests, RetainReceipt, SealRequests
    <3>2. CASE process' = NextAttempt
      BY <3>2, Fields DEF NextAttempt
    <3>3. CASE \E a : process' = [process EXCEPT !.at = a]
      <4>1. PICK a : process' = [process EXCEPT !.at = a]
        BY <3>3
      <4>2. process' = [at |-> a, todo |-> process.todo, bad |-> process.bad, sample |-> process.sample,
                        seals |-> process.seals, source |-> process.source]
        BY <4>1, Fields
      <4>. QED BY <4>2
    <3>. QED BY <3>1, <3>2, <3>3
  <2>4. (campaign = "finite" /\ Has(Receipt("capacity")) /\ Stage = "overload-gateway") =>
           process.sample.offered = Sealed("capacity").sample.capacity
    BY <2>1 DEF CommandInv, LoadDerived
  <2>. QED BY <2>1, <2>2, <2>3, <2>4, WorkKeeps
<1>. QED BY <1>1, <1>2

LEMMA SealingKeepsCommand ==
  ASSUME EvidenceInv, CommandInv, SealReceipt
  PROVE  CommandInv'
<1>1. /\ campaign' = campaign /\ commit' = commit /\ verified' = verified /\ now' = now
      /\ campaign \in Campaigns /\ process.at = "receipt" /\ InFlight /\ process.todo # <<>>
      /\ Put(Receipt(Stage), SealedStage) /\ campaign # "serving"
  BY DEF SealReceipt, operator, EvidenceInv, FlightSound, InFlight
<1>2. process' = [at |-> "stage", todo |-> Tail(process.todo), bad |-> <<>>, sample |-> Absent,
                  seals |-> process.seals, source |-> process.source]
  <2>1. process' = [process EXCEPT !.at = "stage", !.todo = Tail(@), !.bad = <<>>, !.sample = Absent]
    BY DEF SealReceipt
  <2>. QED BY <2>1, Fields
<1>3. process.todo \in Seq(Stages) /\ process.source = commit
  BY <1>1, Fields DEF CommandInv, SourcePinned
<1>4. /\ Receipt(Stage) \in DOMAIN disk' /\ disk'[Receipt(Stage)] = SealedStage
      /\ \A stage : stage # Stage =>
           /\ Receipt(stage) \in DOMAIN disk' <=> Receipt(stage) \in DOMAIN disk
           /\ Receipt(stage) \in DOMAIN disk => disk'[Receipt(stage)] = disk[Receipt(stage)]
  BY <1>1 DEF Put, Receipt, Sealed
<1>5. SourcePinned'
  BY <1>1, <1>2, <1>3 DEF CommandInv, SourcePinned
<1>6. DoneIsRelied'
  <2>1. FinalStages' = FinalStages
    BY <1>1, CommandsStay
  <2> SUFFICES ASSUME process.seals, NEW stage \in FinalStages
               PROVE  Relied(stage)' \/ \E i \in DOMAIN Tail(process.todo) : Tail(process.todo)[i] = stage
    BY <1>2, <2>1 DEF DoneIsRelied
  <2>2. CASE stage = Stage
    <3>1. Has(Receipt(stage))' /\ Sealed(stage)' = SealedStage
      BY <1>4, <2>2 DEF Has, Sealed, Receipt
    <3>2. SealedStage.commit = commit /\ SealedStage.config = Config
      BY DEF SealedStage
    <3>3. Config' = Config
      BY <1>1 DEF Config
    <3>. QED BY <1>1, <1>2, <1>3, <3>1, <3>2, <3>3 DEF Relied
  <2>3. CASE stage # Stage /\ Relied(stage)
    BY <1>1, <1>2, <1>4, <2>3, RelyKept DEF Relied, Has
  <2>4. CASE stage # Stage /\ ~Relied(stage)
    <3>1. PICK i \in DOMAIN process.todo : process.todo[i] = stage
      BY <1>1, <2>4 DEF CommandInv, DoneIsRelied
    <3>2. i # 1
      BY <2>4, <3>1 DEF Stage
    <3>3. Len(process.todo) \in Nat /\ i \in 2..Len(process.todo)
      BY <1>3, <3>1, <3>2
    <3>4. i - 1 \in DOMAIN Tail(process.todo) /\ Tail(process.todo)[i - 1] = process.todo[i]
      BY <1>1, <1>3, <3>3
    <3>. QED BY <3>1, <3>4
  <2>. QED BY <2>2, <2>3, <2>4
<1>7. LoadDerived'
  <2> SUFFICES ASSUME campaign = "finite", Has(Receipt("capacity"))',
                      Has(Receipt("overload-gateway"))',
                      (Sealed("capacity").finished <= Sealed("overload-gateway").sample.id)'
               PROVE  (Sealed("overload-gateway").sample.offered = Sealed("capacity").sample.capacity)'
    BY <1>1, <1>2 DEF LoadDerived, InFlight
  <2>1. CASE Stage = "capacity"
    <3>1. Sealed("capacity")' = SealedStage
      BY <1>4, <2>1 DEF Sealed, Receipt
    <3>2. /\ Receipt("overload-gateway") \in DOMAIN disk
          /\ Sealed("overload-gateway")' = Sealed("overload-gateway")
      BY <1>4, <2>1 DEF Sealed, Has, Receipt
    <3>3. "overload-gateway" \in Stages
      <4>1. Command(Baseline \cup {"matrix-gateway"}, <<"overload-gateway">>, TRUE) \in Commands
        BY CommandsAre DEF FiniteCommands
      <4>2. Command(Baseline \cup {"matrix-gateway"}, <<"overload-gateway">>, TRUE).stages
              = <<"overload-gateway">>
        BY DEF Command
      <4>3. 1 \in DOMAIN <<"overload-gateway">> /\ <<"overload-gateway">>[1] = "overload-gateway"
        OBVIOUS
      <4>4. \A c \in Commands : \A i \in DOMAIN c.stages : c.stages[i] \in Stages
        BY DEF Stages
      <4>. QED BY <4>1, <4>2, <4>3, <4>4
    <3>4. now \in Nat /\ Sealed("overload-gateway").sample.id \in Nat
          /\ Sealed("overload-gateway").sample.id < now
      BY <3>2, <3>3 DEF EvidenceInv, SealSound, Has
    <3>5. SealedStage.finished = now
      BY DEF SealedStage
    <3>. QED BY <3>1, <3>2, <3>4, <3>5
  <2>2. CASE Stage = "overload-gateway"
    <3>1. Sealed("overload-gateway")' = SealedStage
      BY <1>4, <2>2 DEF Sealed, Receipt
    <3>2. Receipt("capacity") \in DOMAIN disk /\ Sealed("capacity")' = Sealed("capacity")
      BY <1>4, <2>2 DEF Sealed, Has, Receipt
    <3>3. process.sample.offered = Sealed("capacity").sample.capacity
      BY <1>1, <2>2, <3>2 DEF CommandInv, LoadDerived, Has
    <3>4. SealedStage.sample = process.sample
      BY DEF SealedStage
    <3>. QED BY <3>1, <3>2, <3>3, <3>4
  <2>3. CASE Stage \notin {"capacity", "overload-gateway"}
    <3>1. \A s \in {"capacity", "overload-gateway"} :
            Has(Receipt(s)) /\ Sealed(s)' = Sealed(s)
      BY <1>4, <2>3 DEF Sealed, Has, Receipt
    <3>2. Sealed("capacity").finished <= Sealed("overload-gateway").sample.id
      BY <3>1
    <3>3. Sealed("overload-gateway").sample.offered = Sealed("capacity").sample.capacity
      BY <3>1, <3>2 DEF CommandInv, LoadDerived
    <3>. QED BY <3>1, <3>3
  <2>. QED BY <2>1, <2>2, <2>3
<1>. QED BY <1>5, <1>6, <1>7 DEF CommandInv

(* A sweep needs no other stage, and neither does a step of the books.       *)
LEMMA BookingKeepsCommand ==
  ASSUME EvidenceInv, CommandInv, SealSweep \/ WriteFinal \/ Record \/ Charge \/ Kill
  PROVE  CommandInv'
<1>1. CASE SealSweep
  <2>1. /\ campaign = "serving" /\ campaign' = campaign /\ commit' = commit /\ verified' = verified
        /\ process' = [process EXCEPT !.at = "record", !.todo = <<>>]
    BY <1>1 DEF SealSweep, operator
  <2>2. process' = [at |-> "record", todo |-> <<>>, bad |-> process.bad, sample |-> process.sample,
                    seals |-> process.seals, source |-> process.source]
    BY <2>1, Fields
  <2>3. FinalStages' = {}
    <3>1. {x \in Commands : x.seals} = {}
      BY <2>1, CommandsAre DEF ServingCommands, Command
    <3>2. FinalStages = {}
      BY <3>1 DEF FinalStages
    <3>. QED BY <2>1, <3>2, CommandsStay
  <2>4. LoadDerived' /\ SourcePinned'
    BY <2>1, <2>2 DEF LoadDerived, SourcePinned
  <2>5. DoneIsRelied'
    BY <2>3 DEF DoneIsRelied
  <2>. QED BY <2>4, <2>5 DEF CommandInv
<1>2. CASE WriteFinal \/ Record \/ Charge \/ Kill
  <2>1. /\ UNCHANGED operator /\ disk' = disk
        /\ \/ process' = Idle
           \/ /\ process.at \in {"stage", "record"}
              /\ \E a \in {"record", "charge"} : process' = [process EXCEPT !.at = a]
    BY <1>2 DEF WriteFinal, Record, Charge, Kill, Leave, store
  <2>2. CASE process' = Idle
    <3>1. campaign' = campaign
      BY <2>1 DEF operator
    <3>. QED BY <2>1, <2>2, <3>1, IdleKeeps
  <2>3. CASE process.at \in {"stage", "record"}
             /\ \E a \in {"record", "charge"} : process' = [process EXCEPT !.at = a]
    <3>1. PICK a \in {"record", "charge"} : process' = [process EXCEPT !.at = a]
      BY <2>3
    <3>2. process' = [at |-> a, todo |-> process.todo, bad |-> process.bad, sample |-> process.sample,
                      seals |-> process.seals, source |-> process.source]
      BY <3>1, Fields
    <3>3. SameReceipts /\ ~InFlight'
      BY <2>1, <3>2 DEF SameReceipts, InFlight
    <3>. QED BY <2>1, <2>3, <3>2, <3>3, WorkKeeps
  <2>. QED BY <2>1, <2>2, <2>3
<1>. QED BY <1>1, <1>2

(* Between commands nothing is pinned; what is discarded leaves no seal.     *)
LEMMA BetweenKeepsCommand ==
  ASSUME CommandInv, campaign' = campaign,
         VerifyArtifact \/ VerifySustained \/ ImportFinal \/ Checkout
         \/ (\E stage \in Stages : Discard(stage))
  PROVE  CommandInv'
<1>1. process' = Idle
  BY DEF VerifyArtifact, VerifySustained, ImportFinal, Checkout, Discard
<1>2. \A f \in DOMAIN disk' : f \in DOMAIN disk /\ disk'[f] = disk[f]
  BY DEF VerifyArtifact, VerifySustained, ImportFinal, Checkout, Discard, store
<1>. QED BY <1>1, <1>2, IdleKeeps

LEMMA ReceiptStays ==
  ASSUME ReceiptSound, campaign' = campaign, receipt' = receipt
  PROVE  ReceiptSound'
BY DEF ReceiptSound, OneSource

(* A final receipt of phase 7.1 is of one source.                            *)
LEMMA FinalIsOfOneSource ==
  ASSUME EvidenceInv, CommandInv, WriteFinal, receipt' = Finished(Gate(Collected)), process.seals
  PROVE  /\ receipt'.stages = Collected /\ receipt'.passed = Gate(Collected)
         /\ receipt'.commit = process.source /\ receipt'.config = Config
         /\ receipt'.verified = verified
         /\ \A stage \in FinalStages : Collected[stage] = Sealed(stage) /\ Relied(stage)
         /\ DOMAIN Collected = FinalStages
         /\ campaign = "phase5" => process.source = commit
         /\ campaign \in {"finite", "sustained"} => verified = process.source
<1>1. process.at = "stage" /\ process.todo = <<>>
  BY DEF WriteFinal
<1>2. \A stage \in FinalStages : Relied(stage)
  BY <1>1 DEF CommandInv, DoneIsRelied
<1>3. /\ campaign = "phase5" => process.source = commit
      /\ campaign \in {"finite", "sustained"} => verified = process.source
  BY <1>1 DEF CommandInv, SourcePinned
<1>. QED BY <1>2, <1>3 DEF Finished, Collected

(* What the two parities say of a gateway stage whose requests all have a    *)
(* status.                                                                   *)
LEMMA ParityBounds ==
  ASSUME NEW d, NEW g, d.sample.ending \in EndingType, g.sample.ending \in EndingType,
         g.sample.ending.statuses, UpstreamParity(d, g), ErrorParity(d, g)
  PROVE  GatewayAddsLittle(d, g)
<1>1. \A a, b \in Nat : Apart(a, b) <= MaxDelta => b <= a + MaxDelta
  BY EndingsAssumption DEF Apart
<1>2. /\ d.sample.ending.upstream \in Nat /\ g.sample.ending.upstream \in Nat
      /\ d.sample.ending.errors \in Nat /\ g.sample.ending.errors \in Nat
  BY DEF EndingType
<1>. QED BY <1>1, <1>2 DEF UpstreamParity, ErrorParity, GatewayAddsLittle

LEMMA FinalKeepsReceipt ==
  ASSUME EvidenceInv, CommandInv, ReceiptSound, WriteFinal
  PROVE  ReceiptSound'
<1>1. campaign' = campaign
  BY DEF WriteFinal, operator
<1>2. CASE receipt' = receipt
  BY <1>1, <1>2, ReceiptStays
<1>3. CASE receipt' = Finished(Gate(Collected)) /\ process.seals /\ Acceptable(Collected)
  <2> DEFINE s == Collected
  <2>1. /\ receipt'.stages = s /\ receipt'.passed = Gate(s)
        /\ receipt'.commit = process.source /\ receipt'.config = Config /\ receipt'.verified = verified
        /\ \A stage \in FinalStages : s[stage] = Sealed(stage) /\ Relied(stage)
        /\ DOMAIN s = FinalStages
        /\ campaign = "phase5" => process.source = commit
        /\ campaign \in {"finite", "sustained"} => verified = process.source
    BY <1>3, FinalIsOfOneSource
  <2>2. Acceptable(s)
    BY <1>3
  <2> HIDE DEF s
  <2>3. CASE campaign = "phase5"
    <3>1. SameLoad(s["profile-before"], s["profile-after"]) /\ s["profile-after"].commit = commit
      BY <2>2, <2>3 DEF Acceptable, Phase5Receipt, ProfilePair
    <3>2. s["direct-gateway"].config = Config /\ s["overload"].config = Config
      BY <2>1, <2>3, FinalStagesAre DEF Relied
    <3>. QED BY <1>1, <2>1, <2>3, <3>1, <3>2 DEF ReceiptSound, SameLoad
  <2>4. CASE campaign = "sustained"
    <3>1. s["bare"].finished <= s["gateway"].sample.id
      BY <2>2, <2>4 DEF Acceptable, SustainedReceipt, BaselineFirst
    <3>2. \A stage \in DOMAIN s : s[stage].commit = process.source /\ s[stage].config = Config
      BY <2>1, <2>4 DEF Relied
    <3>. QED BY <1>1, <2>1, <2>4, <3>1, <3>2 DEF ReceiptSound, OneSource
  <2>5. CASE campaign = "finite"
    <3>1. /\ FinitePairs(s) /\ FiniteEvaluable(s)
          /\ BaselineFirst({s[b] : b \in Baseline}, {s["matrix-gateway"], s["overload-gateway"]})
      BY <2>2, <2>5 DEF Acceptable, FiniteReceipt
    <3>2. FinalStages = FiniteStages /\ Baseline \subseteq FinalStages
      BY <2>5, FinalStagesAre DEF FiniteStages
    <3>3. \A stage \in DOMAIN s : s[stage].commit = process.source /\ s[stage].config = Config
      BY <2>1, <2>5 DEF Relied
    <3>4. \A b \in Baseline : /\ s[b].finished <= s["matrix-gateway"].sample.id
                              /\ s[b].finished <= s["overload-gateway"].sample.id
      BY <3>1 DEF BaselineFirst
    <3>5. s["overload-gateway"].sample.offered = s["capacity"].sample.capacity
      <4>1. /\ s["capacity"] = Sealed("capacity") /\ Has(Receipt("capacity"))
            /\ s["overload-gateway"] = Sealed("overload-gateway") /\ Has(Receipt("overload-gateway"))
        BY <2>1, <3>2 DEF FiniteStages, Baseline, Relied
      <4>2. Sealed("capacity").finished <= Sealed("overload-gateway").sample.id
        BY <3>4, <4>1 DEF Baseline
      <4>. QED BY <2>5, <4>1, <4>2 DEF CommandInv, LoadDerived
    <3>6. s["overload-bare"].sample.offered = s["overload-gateway"].sample.offered
      BY <3>1 DEF FinitePairs, SameLoad
    <3>7. \A e \in {"matrix-bare", "matrix-gateway", "overload-bare", "overload-gateway"} :
            s[e].sample.ending \in EndingType /\ s[e].sample.ending.statuses
      <4>1. \A e \in {"matrix-bare", "matrix-gateway", "overload-bare", "overload-gateway"} :
              /\ e \in FinalStages /\ e \in DOMAIN s \ {"capacity"}
              /\ s[e] = Sealed(e) /\ Has(Receipt(e))
        BY <2>1, <3>2 DEF FiniteStages, Baseline, Relied
      <4>2. FinalStages \subseteq Stages
        <5>1. /\ Command({}, <<"capacity", "matrix-bare", "overload-bare">>, FALSE) \in Commands
              /\ Command(Baseline, <<"matrix-gateway">>, FALSE) \in Commands
              /\ Command(Baseline \cup {"matrix-gateway"}, <<"overload-gateway">>, TRUE) \in Commands
          BY <2>5, CommandsAre DEF FiniteCommands
        <5>2. \A c \in Commands : \A i \in DOMAIN c.stages : c.stages[i] \in Stages
          BY DEF Stages
        <5>3. /\ \A i \in {1, 2, 3} : <<"capacity", "matrix-bare", "overload-bare">>[i] \in Stages
              /\ <<"matrix-gateway">>[1] \in Stages /\ <<"overload-gateway">>[1] \in Stages
          BY <5>1, <5>2 DEF Command
        <5>. QED BY <3>2, <5>3 DEF FiniteStages, Baseline
      <4>. QED BY <3>1, <4>1, <4>2 DEF EvidenceInv, SealSound, FiniteEvaluable
    <3>8. ASSUME Gate(s)
          PROVE  /\ GatewayAddsLittle(s["matrix-bare"], s["matrix-gateway"])
                 /\ GatewayAddsLittle(s["overload-bare"], s["overload-gateway"])
      BY <2>5, <3>7, <3>8, ParityBounds DEF Gate, FiniteGate
    <3>. QED BY <1>1, <2>1, <2>5, <3>2, <3>3, <3>4, <3>5, <3>6, <3>8 DEF ReceiptSound, OneSource, Baseline, GatewayAddsLittle
  <2>6. CASE campaign = "serving"
    BY <1>1, <2>6 DEF ReceiptSound
  <2>. QED BY <2>3, <2>4, <2>5, <2>6, CampaignCases DEF EvidenceInv
<1>. QED BY <1>2, <1>3 DEF WriteFinal

(* What a running command may rely on, and what its receipt then says.       *)
THEOREM ReceiptInvariant == Spec => []ReceiptInv
<1>1. Init => CommandInv /\ ReceiptSound
  <2>1. Init => process = Idle /\ disk = <<>> /\ receipt = Absent
    BY DEF Init
  <2>2. disk = <<>> => DOMAIN disk = {}
    OBVIOUS
  <2>. QED BY <2>1, <2>2 DEF CommandInv, SourcePinned, DoneIsRelied, LoadDerived, ReceiptSound, Idle, Has
<1>2. ASSUME EvidenceInv, CommandInv, ReceiptSound, [Next]_vars
      PROVE  CommandInv' /\ ReceiptSound'
  <2>1. campaign' = campaign
    BY <1>2, CampaignStays
  <2>2. CommandInv'
    <3>1. ASSUME NEW c \in Commands, Launch(c) PROVE CommandInv'
      BY <1>2, <3>1, LaunchKeepsCommand
    <3>2. CASE Reuse
      BY <1>2, <3>2, ReuseKeepsCommand
    <3>3. CASE Measure \/ RetainRequests \/ RetainReceipt \/ SealRequests
      BY <1>2, <3>3, MeasuringKeepsCommand
    <3>4. CASE SealReceipt
      BY <1>2, <3>4, SealingKeepsCommand
    <3>5. CASE SealSweep \/ WriteFinal \/ Record \/ Charge \/ Kill
      BY <1>2, <3>5, BookingKeepsCommand
    <3>6. CASE VerifyArtifact \/ VerifySustained \/ ImportFinal \/ Checkout
               \/ (\E stage \in Stages : Discard(stage))
      BY <1>2, <2>1, <3>6, BetweenKeepsCommand
    <3>7. CASE UNCHANGED vars
      <4>1. UNCHANGED operator /\ disk' = disk /\ process' = process
        BY <3>7 DEF vars, store
      <4>2. FinalStages' = FinalStages
        BY <2>1, CommandsStay
      <4>3. SourcePinned' /\ LoadDerived'
        BY <1>2, <4>1 DEF CommandInv, SourcePinned, LoadDerived, operator, InFlight, Has, Sealed, Receipt, Stage
      <4>4. DoneIsRelied'
        BY <1>2, <4>1, <4>2 DEF CommandInv, DoneIsRelied, operator, Relied, Has, Sealed, Receipt, Config
      <4>. QED BY <4>3, <4>4 DEF CommandInv
    <3>. QED BY <1>2, <3>1, <3>2, <3>3, <3>4, <3>5, <3>6, <3>7 DEF Next
  <2>3. ReceiptSound'
    <3>1. CASE receipt' = receipt
      BY <1>2, <2>1, <3>1, ReceiptStays
    <3>2. CASE WriteFinal
      BY <1>2, <3>2, FinalKeepsReceipt
    <3>3. CASE SealSweep
      BY <2>1, <3>3 DEF SealSweep, ReceiptSound
    <3>4. receipt' = receipt \/ WriteFinal \/ SealSweep
      BY <1>2 DEF Next, vars, store, Launch, Reuse, Measure, RetainRequests, RetainReceipt,
         SealRequests, SealReceipt, Record, Charge, Kill, VerifyArtifact, VerifySustained,
         ImportFinal, Checkout, Discard
    <3>. QED BY <3>1, <3>2, <3>3, <3>4
  <2>. QED BY <2>2, <2>3
<1>. QED BY <1>1, <1>2, EvidenceInvariant, PTL DEF Spec, ReceiptInv

(* ReceiptSound: a phase 7.1 receipt is of one commit, one configuration and *)
(* one artifact check, with both endpoints under the load derived from the   *)
(* capacity it reports and the baseline measured first; the finite gate      *)
(* passes only where the gateway adds at most MaxDelta to either rate of     *)
(* errors; and the profiles of a phase 5 receipt answered the same requests, *)
(* whatever was discarded and measured again.                                *)
THEOREM AlwaysReceiptSound == Spec => []ReceiptSound
<1>1. ReceiptInv => ReceiptSound
  BY DEF ReceiptInv
<1>. QED BY <1>1, ReceiptInvariant, PTL
=============================================================================
