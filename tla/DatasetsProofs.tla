--------------------------- MODULE DatasetsProofs ---------------------------
(* What the frozen data guarantees, for every snapshot, every list of splits
   and any number of kills and edits, to the stages that make it and to the
   readers of paid labels and frozen splits that run beside them.            *)
EXTENDS LabelRuns, SequenceTheorems, TLAPS

-----------------------------------------------------------------------------
(* The inductive invariant of the stages.                                  *)

RowsOf(n) == {row \in pinned : n \in {"artifact", OutputOf[row[2]]}}
Labelled(n, version) == [rows |-> RowsOf(n), rules |-> version]

(* The pinned snapshot has each complaint in one split and once.           *)
PinnedClean ==
    /\ \A n \in Splits : Unique(Labelled(n, FirstRules))
    /\ \A m, n \in Splits :
          m # n => Ids(Labelled(m, FirstRules)) \cap Ids(Labelled(n, FirstRules)) = {}

Shape ==
    /\ payload = [s \in Stages |-> [n \in Payloads(s) |-> payload[s][n]]]
    /\ manifest = [s \in Stages |-> manifest[s]]
    /\ rules \in FirstRules..LastRules

(* What a manifest of each stage seals.  The splits of version 2 may carry *)
(* two versions of the rules, none newer than those installed.             *)
IngestSealed ==
    manifest["ingest"] # Absent =>
        \E version \in FirstRules..LastRules :
            manifest["ingest"].payloads = Pristine("ingest", version)

SplitsSealed ==
    manifest["splits"] # Absent =>
        /\ PinnedClean
        /\ \E version \in FirstRules..LastRules :
              manifest["splits"].payloads = Pristine("splits", version)

RelabelSealed ==
    manifest["relabel"] # Absent =>
        /\ PinnedClean
        /\ manifest["relabel"].payloads
              = [n \in Splits |-> Labelled(n, manifest["relabel"].payloads[n].rules)]
        /\ \A n \in Splits : manifest["relabel"].payloads[n].rules \in 2..rules

Phase12Sealed ==
    manifest["phase1_2"] # Absent =>
        PinnedClean /\ manifest["phase1_2"].payloads = Pristine("phase1_2", LastRules)

Sealed == IngestSealed /\ SplitsSealed /\ RelabelSealed /\ Phase12Sealed

(* What a stage that runs has read, and what it has written of it.         *)
Source(s) ==
    /\ s = "ingest" => source = pinned
    /\ s = "splits" => Intact("ingest")
    /\ s = "relabel" => Intact("splits") /\ rules >= 2
    /\ s = "phase1_2" => Intact("relabel") /\ rules = LastRules

Version(s) == CASE s = "ingest" -> FirstRules..LastRules
                [] s = "splits" -> {payload["ingest"]["artifact"].rules}
                [] s = "relabel" -> 2..rules
                [] s = "phase1_2" -> {LastRules}

Good(s, n) == \E version \in Version(s) : payload[s][n] = Labelled(n, version)

Done(s, file) ==
    /\ file \in Payloads(s) => Good(s, file)
    /\ file = "audit" => Checked(s)

Progress(s) ==
    \E k \in DOMAIN Order(s) :
        /\ run.todo = SubSeq(Order(s), k, Len(Order(s)))
        /\ \A j \in 1..(k - 1) : Done(s, Order(s)[j])

Runs(s) == run.stage = s => manifest[s] = Absent /\ Source(s) /\ Progress(s)

DataInv == Shape /\ Sealed /\ \A s \in Stages : Runs(s)

-----------------------------------------------------------------------------
(* The order in which a stage writes its files.                            *)

LEMMA StageFacts ==
  /\ Stages = {"ingest", "splits", "relabel", "phase1_2"}
  /\ "none" \notin Stages /\ "label" \notin Stages
  /\ Idle.stage = "none"
BY DEF Stages, Idle

LEMMA OrderFacts ==
  ASSUME NEW s \in Stages
  PROVE  LET L == Len(Order(s)) IN
         /\ Order(s) \in Seq(Payloads(s) \cup {"audit", "manifest"}) /\ L >= 2
         /\ DOMAIN Order(s) = 1..L
         /\ \A j \in 1..L : (Order(s)[j] = "manifest") <=> (j = L)
         /\ \A j \in 1..L : (Order(s)[j] = "audit") <=> (j = L - 1 /\ s # "ingest")
         /\ \A n \in Payloads(s) : \E j \in 1..(L - 1) : Order(s)[j] = n
         /\ Payloads(s) \cap {"audit", "manifest"} = {}
<1>1. CASE s = "ingest"
  BY <1>1 DEF Order, Payloads
<1>2. CASE s # "ingest"
  <2> DEFINE t == <<"audit", "manifest">>
             N == Len(SplitOrder)
  <2>1. /\ SplitOrder \in Seq(Splits) /\ Splits \cap {"artifact", "audit", "manifest"} = {}
        /\ Splits = {SplitOrder[j] : j \in DOMAIN SplitOrder}
    BY DatasetsAssumption DEF Splits, ToSet
  <2>2. Order(s) = SplitOrder \o t /\ Payloads(s) = Splits
    BY <1>2 DEF Order, Payloads
  <2>3. N \in Nat /\ DOMAIN SplitOrder = 1..N /\ \A j \in 1..N : SplitOrder[j] \in Splits
    BY <2>1
  <2>4. /\ SplitOrder \in Seq(Splits \cup {"audit", "manifest"})
        /\ t \in Seq(Splits \cup {"audit", "manifest"})
    BY <2>1
  <2>5. /\ Order(s) \in Seq(Splits \cup {"audit", "manifest"}) /\ Len(Order(s)) = N + 2
        /\ \A j \in 1..N : Order(s)[j] = SplitOrder[j]
        /\ Order(s)[N + 1] = "audit" /\ Order(s)[N + 2] = "manifest"
    BY <2>2, <2>3, <2>4
  <2>6. \A j \in 1..(N + 2) : j \in 1..N \/ j = N + 1 \/ j = N + 2
    BY <2>3
  <2>7. \A n \in Splits : \E j \in 1..N : Order(s)[j] = n
    BY <2>1, <2>3, <2>5
  <2>8. \A j \in 1..N : Order(s)[j] \notin {"audit", "manifest"}
    BY <2>1, <2>3, <2>5
  <2>9. \A j \in 1..(N + 2) : /\ (Order(s)[j] = "manifest") <=> (j = N + 2)
                              /\ (Order(s)[j] = "audit") <=> (j = N + 1)
    BY <2>3, <2>5, <2>6, <2>8
  <2> HIDE DEF N, t
  <2>10. DOMAIN Order(s) = 1..Len(Order(s)) /\ Len(Order(s)) >= 2 /\ Len(Order(s)) - 1 = N + 1
    BY <2>3, <2>5
  <2>11. \A n \in Splits : \E j \in 1..(Len(Order(s)) - 1) : Order(s)[j] = n
    BY <2>3, <2>7, <2>10
  <2>. QED BY <1>2, <2>1, <2>2, <2>5, <2>9, <2>10, <2>11
<1>. QED BY <1>1, <1>2

(* A stage that has got to its k-th file writes it next.                   *)
LEMMA NextFile ==
  ASSUME NEW s \in Stages, NEW k \in DOMAIN Order(s),
         run.todo = SubSeq(Order(s), k, Len(Order(s)))
  PROVE  /\ Head(run.todo) = Order(s)[k]
         /\ Len(run.todo) = 1 <=> k = Len(Order(s))
         /\ k # Len(Order(s)) => /\ k + 1 \in DOMAIN Order(s)
                                 /\ Tail(run.todo) = SubSeq(Order(s), k + 1, Len(Order(s)))
<1> DEFINE L == Len(Order(s))
           q == SubSeq(Order(s), k, L)
<1>1. Order(s) \in Seq(Payloads(s) \cup {"audit", "manifest"}) /\ L \in Nat /\ DOMAIN Order(s) = 1..L
  BY OrderFacts
<1>2. q \in Seq(Payloads(s) \cup {"audit", "manifest"}) /\ Len(q) = L - k + 1
      /\ \A j \in 1..(L - k + 1) : q[j] = Order(s)[k + j - 1]
  BY <1>1
<1>3. Head(q) = Order(s)[k] /\ (Len(q) = 1 <=> k = L)
  BY <1>1, <1>2
<1>4. ASSUME k # L PROVE Tail(q) = SubSeq(Order(s), k + 1, L) /\ k + 1 \in DOMAIN Order(s)
  <2> DEFINE u == SubSeq(Order(s), k + 1, L)
             R == Payloads(s) \cup {"audit", "manifest"}
  <2>1. k + 1 \in 1..L
    BY <1>1, <1>4
  <2>2. Tail(q) \in Seq(R) /\ Len(Tail(q)) = L - k /\ \A j \in 1..(L - k) : Tail(q)[j] = q[j + 1]
    BY <1>2, <2>1, <1>1
  <2>3. u \in Seq(R) /\ Len(u) = L - k /\ \A j \in 1..(L - k) : u[j] = Order(s)[k + j]
    BY <1>1, <2>1
  <2>4. \A j \in 1..(L - k) : q[j + 1] = Order(s)[k + j]
    BY <1>1, <1>2, <2>1
  <2> HIDE DEF q, u, R, L
  <2>5. Tail(q) = u
    BY <2>2, <2>3, <2>4, SeqEqual
  <2>. QED BY <1>1, <2>1, <2>5 DEF u
<1>. QED BY <1>3, <1>4

-----------------------------------------------------------------------------
(* What the invariant says of the files that a manifest seals.             *)

LEMMA PristineMeans ==
  /\ \A version : Pristine("ingest", version) = [n \in {"artifact"} |-> Labelled(n, version)]
  /\ \A version : Pristine("splits", version) = [n \in Splits |-> Labelled(n, version)]
  /\ \A version : Pristine("relabel", version) = [n \in Splits |-> Labelled(n, version)]
  /\ \A version : Pristine("phase1_2", version) = [n \in Splits |-> Labelled(n, version)]
BY DEF Pristine, Labelled, RowsOf, Payloads

LEMMA PayloadNames ==
  /\ Payloads("ingest") = {"artifact"}
  /\ \A s \in Stages : s # "ingest" => Payloads(s) = Splits
BY DEF Payloads

(* A file that holds the pinned rows of its split has their ids.           *)
LEMMA RowsTell ==
  ASSUME NEW content, NEW n, content.rows = RowsOf(n)
  PROVE  /\ Ids(content) = Ids(Labelled(n, FirstRules))
         /\ Unique(content) <=> Unique(Labelled(n, FirstRules))
BY DEF Ids, Unique, Labelled

(* Splits that hold the pinned rows are as clean as these are.             *)
LEMMA CleanMeans ==
  ASSUME NEW s \in Stages, \A n \in Splits : payload[s][n].rows = RowsOf(n)
  PROVE  /\ PinnedClean <=> (\A n \in Splits : Unique(payload[s][n])) /\ Disjoint(s)
         /\ PinnedClean => Checked(s) /\ Disjoint(s)
         /\ s = "splits" /\ Checked(s) => PinnedClean
<1>1. \A n \in Splits : /\ Ids(payload[s][n]) = Ids(Labelled(n, FirstRules))
                        /\ Unique(payload[s][n]) <=> Unique(Labelled(n, FirstRules))
  BY RowsTell
<1>. QED BY <1>1 DEF PinnedClean, Disjoint, Checked

-----------------------------------------------------------------------------
(* The steps, one by one.                                                  *)

(* What is sealed stays so, under newer rules too.                         *)
LEMMA SealedStays ==
  ASSUME Shape, Shape', Sealed, UNCHANGED <<pinned, manifest>>, rules' >= rules
  PROVE  Sealed'
<1>1. PinnedClean' <=> PinnedClean
  BY DEF PinnedClean, Labelled, RowsOf, Unique, Ids
<1>2. \A s, version : Pristine(s, version)' = Pristine(s, version)
  BY DEF Pristine
<1>3. \A n, version : Labelled(n, version)' = Labelled(n, version)
  BY DEF Labelled, RowsOf
<1>4. IngestSealed' /\ SplitsSealed' /\ Phase12Sealed'
  BY <1>1, <1>2 DEF Sealed, IngestSealed, SplitsSealed, Phase12Sealed
<1>5. RelabelSealed'
  <2>1. SUFFICES ASSUME manifest["relabel"] # Absent PROVE RelabelSealed'
    BY DEF RelabelSealed
  <2>2. \A n \in Splits : manifest["relabel"].payloads[n].rules \in 2..rules'
    <3>1. rules \in Nat /\ rules' \in Nat
      BY DEF Shape, FirstRules, LastRules
    <3>2. \A n \in Splits : manifest["relabel"].payloads[n].rules \in 2..rules
      BY <2>1 DEF Sealed, RelabelSealed
    <3>3. 2..rules \subseteq 2..rules'
      BY <3>1
    <3>. QED BY <3>2, <3>3
  <2>. QED BY <1>1, <1>3, <2>1, <2>2 DEF Sealed, RelabelSealed
<1>. QED BY <1>4, <1>5 DEF Sealed

(* Steps that leave the data, the manifests and the rules alone.           *)
LEMMA QuietKeepsData ==
  ASSUME DataInv, UNCHANGED <<pinned, payload, manifest, rules>>,
         \/ run'.stage \notin Stages
         \/ run' = run /\ source' = source
  PROVE  DataInv'
<1>1. Shape'
  BY DEF DataInv, Shape
<1>2. Sealed'
  BY <1>1, SealedStays DEF DataInv, Shape, FirstRules, LastRules
<1>3. ASSUME NEW s \in Stages PROVE Runs(s)'
  <2>1. CASE run'.stage \notin Stages
    BY <1>3, <2>1 DEF Runs
  <2>2. CASE run' = run /\ source' = source
    <3>1. \A n : Good(s, n)' <=> Good(s, n)
      BY DEF Good, Version, Labelled, RowsOf
    <3>2. Checked(s)' <=> Checked(s)
      BY DEF Checked, Disjoint, Unique, Ids
    <3>3. \A file : Done(s, file)' <=> Done(s, file)
      BY <3>1, <3>2 DEF Done
    <3>4. Progress(s)' <=> Progress(s)
      BY <2>2, <3>3 DEF Progress
    <3>5. Source(s)' <=> Source(s)
      BY <2>2 DEF Source, Intact
    <3>. QED BY <2>2, <3>4, <3>5 DEF DataInv, Runs
  <2>. QED BY <2>1, <2>2
<1>. QED BY <1>1, <1>2, <1>3 DEF DataInv

LEMMA InitData == Init => DataInv
<1> SUFFICES ASSUME Init PROVE DataInv
  OBVIOUS
<1>1. Shape
  BY DEF Init, Shape, Nothing, FirstRules, LastRules
<1>2. Sealed
  BY StageFacts DEF Init, Sealed, IngestSealed, SplitsSealed, RelabelSealed, Phase12Sealed
<1>3. \A s \in Stages : Runs(s)
  BY StageFacts DEF Init, Runs
<1>. QED BY <1>1, <1>2, <1>3 DEF DataInv

(* What a stage verifies before it starts is what it relies on.            *)
LEMMA StartKeepsData ==
  ASSUME DataInv, NEW s \in Stages, Start(s)
  PROVE  DataInv'
<1>1. UNCHANGED <<pinned, source, payload, manifest, rules>> /\ run'.stage = s
      /\ run'.todo = Order(s)
  BY DEF Start, files
<1>2. Shape' /\ Sealed'
  <2>1. Shape'
    BY <1>1 DEF DataInv, Shape
  <2>. QED BY <1>1, <2>1, SealedStays DEF DataInv, Shape, FirstRules, LastRules
<1>3. manifest[s] = Absent /\ Source(s)
  BY DEF Start, CanStart, Clear, UpstreamVerified, IngestVerified, Phase1Verified,
         SourcesVerified, Source, LastRules
<1>4. Progress(s)'
  <2>1. 1 \in DOMAIN Order(s) /\ Order(s) = SubSeq(Order(s), 1, Len(Order(s)))
    <3>1. /\ Order(s) \in Seq(Payloads(s) \cup {"audit", "manifest"})
          /\ DOMAIN Order(s) = 1..Len(Order(s)) /\ Len(Order(s)) >= 2
      BY OrderFacts
    <3> DEFINE R == Payloads(s) \cup {"audit", "manifest"}
               q == Order(s)
               u == SubSeq(q, 1, Len(q))
    <3>2. q \in Seq(R) /\ Len(q) \in Nat /\ Len(q) >= 2 /\ DOMAIN q = 1..Len(q)
      BY <3>1
    <3> HIDE DEF q, R
    <3>3. u \in Seq(R) /\ Len(u) = Len(q) /\ \A j \in 1..Len(u) : u[j] = q[j]
      BY <3>2
    <3>4. u = q
      BY <3>2, <3>3, SeqEqual
    <3>. QED BY <3>2, <3>4 DEF q
  <2>. QED BY <1>1, <2>1 DEF Progress
<1>5. ASSUME NEW r \in Stages PROVE Runs(r)'
  BY <1>1, <1>3, <1>4, <1>5 DEF Runs, Source, Intact
<1>. QED BY <1>2, <1>5 DEF DataInv

(* Edits, repairs and clean-ups happen while nothing runs, and keep the    *)
(* manifests.                                                              *)
LEMMA EditKeepsData ==
  ASSUME DataInv, NEW s \in Stages, NEW p, run = Idle,
         payload' = [payload EXCEPT ![s] = p], p = [n \in Payloads(s) |-> p[n]],
         UNCHANGED <<pinned, manifest, rules, run>>
  PROVE  DataInv'
<1>1. Shape'
  BY DEF DataInv, Shape
<1>2. Sealed'
  BY <1>1, SealedStays DEF DataInv, Shape, FirstRules, LastRules
<1>3. \A r \in Stages : Runs(r)'
  BY StageFacts DEF Runs
<1>. QED BY <1>1, <1>2, <1>3 DEF DataInv

(* New rules may arrive at any time: a stage that labels version 2 goes on *)
(* with them.                                                              *)
LEMMA NewRulesKeepData ==
  ASSUME DataInv, NewRules
  PROVE  DataInv'
<1>1. UNCHANGED <<pinned, source, payload, manifest, run>>
      /\ rules \in FirstRules..LastRules /\ rules # LastRules /\ rules' = rules + 1
  BY DEF NewRules, files, DataInv, Shape, FirstRules, LastRules
<1>2. Shape'
  BY <1>1 DEF DataInv, Shape, FirstRules, LastRules
<1>3. Sealed'
  BY <1>1, <1>2, SealedStays DEF DataInv, FirstRules, LastRules
<1>4. ASSUME NEW s \in Stages PROVE Runs(s)'
  <2>1. SUFFICES ASSUME run.stage = s PROVE Runs(s)'
    BY <1>1 DEF Runs
  <2>2. manifest[s] = Absent /\ Source(s) /\ Progress(s)
    BY <2>1 DEF DataInv, Runs
  <2>3. Source(s)'
    BY <1>1, <2>2 DEF Source, Intact, FirstRules, LastRules
  <2>4. \A n : Good(s, n) => Good(s, n)'
    <3>1. Version(s) \subseteq Version(s)'
      BY <1>1, StageFacts DEF Version, FirstRules, LastRules
    <3>2. \A n, version : Labelled(n, version)' = Labelled(n, version)
      BY <1>1 DEF Labelled, RowsOf
    <3>. QED BY <1>1, <3>1, <3>2 DEF Good
  <2>5. Checked(s)' <=> Checked(s)
    BY <1>1 DEF Checked, Disjoint, Unique, Ids
  <2>6. \A file : Done(s, file) => Done(s, file)'
    BY <2>4, <2>5 DEF Done
  <2>7. Progress(s)'
    BY <1>1, <2>2, <2>6 DEF Progress
  <2>. QED BY <1>1, <2>2, <2>3, <2>7 DEF Runs
<1>. QED BY <1>2, <1>3, <1>4 DEF DataInv

(* The file that a stage writes next holds the pinned rows of its split,   *)
(* labelled by the rules of that moment.                                   *)
LEMMA DerivedIsGood ==
  ASSUME DataInv, NEW s \in Stages, run.stage = s, NEW n \in Payloads(s)
  PROVE  /\ s = "ingest" => Derived(s, n) = Labelled(n, rules)
         /\ s = "splits" => Derived(s, n) = Labelled(n, payload["ingest"]["artifact"].rules)
         /\ s = "relabel" => Derived(s, n) = Labelled(n, rules)
         /\ s = "phase1_2" => Derived(s, n) = Labelled(n, LastRules)
<1>1. Source(s)
  BY DEF DataInv, Runs
<1>2. CASE s = "ingest"
  <2>1. n = "artifact" /\ RowsOf("artifact") = source
    BY <1>1, <1>2 DEF Source, Payloads, RowsOf
  <2>. QED BY <1>2, <2>1 DEF Derived, Ingested, Labelled
<1>3. CASE s = "splits"
  <2>1. n \in Splits /\ n # "artifact"
    BY <1>3, DatasetsAssumption DEF Payloads
  <2>2. PICK version : payload["ingest"] = Pristine("ingest", version)
    BY <1>1, <1>3 DEF Source, Intact, DataInv, Sealed, IngestSealed
  <2>3. payload["ingest"]["artifact"] = [rows |-> pinned, rules |-> version]
    <3>1. RowsOf("artifact") = pinned
      BY DEF RowsOf
    <3>2. payload["ingest"] = [m \in {"artifact"} |-> Labelled(m, version)]
      BY <2>2, PristineMeans
    <3>. QED BY <3>1, <3>2 DEF Labelled
  <2>4. {row \in pinned : OutputOf[row[2]] = n} = RowsOf(n)
    BY <2>1 DEF RowsOf
  <2>5. Derived(s, n) = Sliced(n)
    BY <1>3 DEF Derived
  <2>6. Sliced(n) = [rows |-> {row \in pinned : OutputOf[row[2]] = n}, rules |-> version]
    <3> DEFINE c == payload["ingest"]["artifact"]
    <3>1. Sliced(n) = [c EXCEPT !.rows = {row \in c.rows : OutputOf[row[2]] = n}]
      BY DEF Sliced
    <3> HIDE DEF c
    <3>2. c = [rows |-> pinned, rules |-> version]
      BY <2>3 DEF c
    <3>. QED BY <3>1, <3>2
  <2>. QED BY <1>3, <2>3, <2>4, <2>5, <2>6 DEF Labelled
<1>4. CASE s = "relabel"
  <2>1. n \in Splits
    BY <1>4 DEF Payloads
  <2>2. PICK version : payload["splits"] = Pristine("splits", version)
    BY <1>1, <1>4 DEF Source, Intact, DataInv, Sealed, SplitsSealed
  <2>3. payload["splits"][n] = Labelled(n, version)
    BY <2>1, <2>2, PristineMeans
  <2>. QED BY <1>4, <2>3 DEF Derived, Relabelled, Labelled
<1>5. CASE s = "phase1_2"
  <2>1. n \in Splits /\ rules = LastRules
    BY <1>1, <1>5 DEF Payloads, Source
  <2>2. payload["relabel"][n] = Labelled(n, payload["relabel"][n].rules)
    <3>1. payload["relabel"] = [m \in Splits |-> Labelled(m, payload["relabel"][m].rules)]
      BY <1>1, <1>5 DEF Source, Intact, DataInv, Sealed, RelabelSealed
    <3>. QED BY <2>1, <3>1
  <2>. QED BY <1>5, <2>1, <2>2 DEF Derived, RelabelledAgain, Labelled
<1>. QED BY <1>2, <1>3, <1>4, <1>5, StageFacts

(* After the file it was at, the stage is at the next one, or done.        *)
LEMMA WrittenAdvances ==
  ASSUME NEW s \in Stages, run.stage = s, NEW k \in DOMAIN Order(s),
         run.todo = SubSeq(Order(s), k, Len(Order(s))), run' = Written
  PROVE  \/ run'.stage \notin Stages
         \/ /\ run'.stage = s /\ k + 1 \in DOMAIN Order(s)
            /\ run'.todo = SubSeq(Order(s), k + 1, Len(Order(s)))
<1>1. CASE k = Len(Order(s))
  BY <1>1, NextFile, StageFacts DEF Written
<1>2. CASE k # Len(Order(s))
  BY <1>2, NextFile DEF Written
<1>. QED BY <1>1, <1>2

LEMMA WritePayloadKeepsData ==
  ASSUME DataInv, NEW s \in Stages, WritePayload(s)
  PROVE  DataInv'
<1>0. PICK n, new : n \in Payloads(s) /\ n = Head(run.todo) /\ new = Derived(s, n)
  BY DEF WritePayload
<1>1. /\ run.stage = s /\ run' = Written
      /\ payload' = [payload EXCEPT ![s][n] = new]
      /\ UNCHANGED <<pinned, source, manifest, rules>>
  BY <1>0 DEF WritePayload, Writing
<1>2. manifest[s] = Absent /\ Source(s) /\ Progress(s)
  BY <1>1 DEF DataInv, Runs
<1>3. PICK k \in DOMAIN Order(s) :
         /\ run.todo = SubSeq(Order(s), k, Len(Order(s)))
         /\ \A j \in 1..(k - 1) : Done(s, Order(s)[j])
  BY <1>2 DEF Progress
<1>4. n = Order(s)[k]
  BY <1>0, <1>3, NextFile
<1>5. /\ payload'[s][n] = new
      /\ \A m \in Payloads(s) : m # n => payload'[s][m] = payload[s][m]
      /\ \A r \in Stages : r # s => payload'[r] = payload[r]
  <2>1. payload = [r \in Stages |-> payload[r]] /\ payload[s] = [m \in Payloads(s) |-> payload[s][m]]
    BY DEF DataInv, Shape
  <2>. QED BY <1>0, <1>1, <2>1
<1>6. Shape'
  <2>. QED BY <1>1 DEF DataInv, Shape
<1>7. Sealed'
  BY <1>1, <1>6, SealedStays DEF DataInv, Shape, FirstRules, LastRules
<1>8. Source(s)'
  BY <1>1, <1>2, <1>5, StageFacts DEF Source, Intact
<1>9. \A m, version : Labelled(m, version)' = Labelled(m, version)
  BY <1>1 DEF Labelled, RowsOf
<1>10. Version(s)' = Version(s)
  BY <1>1, <1>5, StageFacts DEF Version
<1>11. Good(s, n)'
  <2>1. rules \in FirstRules..LastRules /\ (s = "relabel" => rules \in 2..rules)
    BY <1>2 DEF DataInv, Shape, Source, FirstRules, LastRules
  <2>2. \E version \in Version(s) : new = Labelled(n, version)
    BY <1>0, <1>1, <2>1, DerivedIsGood, StageFacts DEF Version
  <2>. QED BY <1>5, <1>9, <1>10, <2>2 DEF Good
<1>12. \A m \in Payloads(s) : Good(s, m) => Good(s, m)'
  BY <1>5, <1>9, <1>10, <1>11 DEF Good
<1>13. \A j \in 1..(k - 1) : Done(s, Order(s)[j])' /\ Order(s)[j] # "audit"
  <2>1. \A j \in 1..(k - 1) : j \in 1..Len(Order(s)) /\ k - 1 < Len(Order(s)) /\ k \in 1..Len(Order(s))
    BY <1>3, OrderFacts
  <2>2. /\ n # "manifest" /\ n # "audit" /\ Len(Order(s)) \in Nat
        /\ \A j \in 1..Len(Order(s)) : (Order(s)[j] = "manifest") <=> (j = Len(Order(s)))
        /\ \A j \in 1..Len(Order(s)) : Order(s)[j] = "audit" => j = Len(Order(s)) - 1
        /\ k \in 1..Len(Order(s))
    <3>1. Len(Order(s)) \in Nat
      BY OrderFacts
    <3>. QED BY <1>0, <1>3, <3>1, OrderFacts
  <2>3. k < Len(Order(s))
    BY <1>4, <2>2
  <2>4. \A j \in 1..(k - 1) : Order(s)[j] # "audit"
    BY <2>2, <2>3
  <2>. QED BY <1>3, <1>12, <2>4 DEF Done
<1>14. Done(s, n)'
  <2>1. n # "audit"
    BY <1>0, OrderFacts
  <2>. QED BY <1>11, <2>1 DEF Done
<1>15. ASSUME NEW r \in Stages PROVE Runs(r)'
  <2>1. CASE run'.stage \notin Stages
    BY <2>1, <1>15 DEF Runs
  <2>2. CASE /\ run'.stage = s /\ k + 1 \in DOMAIN Order(s)
             /\ run'.todo = SubSeq(Order(s), k + 1, Len(Order(s)))
    <3>1. \A j \in 1..(k + 1 - 1) : j \in 1..(k - 1) \/ j = k
      BY <1>3, OrderFacts
    <3>2. Progress(s)'
      <4>1. \A j \in 1..(k + 1 - 1) : Done(s, Order(s)[j])'
        BY <1>4, <1>13, <1>14, <3>1
      <4>2. PICK next \in DOMAIN Order(s) : next = k + 1
        BY <2>2
      <4>3. run'.todo = SubSeq(Order(s), next, Len(Order(s)))
        BY <2>2, <4>2
      <4>4. 1..(next - 1) = 1..(k + 1 - 1)
        <5>1. k \in Nat
          BY <1>3, OrderFacts
        <5>. QED BY <4>2, <5>1
      <4>5. \A j \in 1..(next - 1) : Done(s, Order(s)[j])'
        BY <4>1, <4>4, Zenon
      <4>. QED BY <4>3, <4>5 DEF Progress
    <3>. QED BY <1>1, <1>2, <1>8, <2>2, <3>2 DEF Runs
  <2>. QED BY <1>1, <1>3, <2>1, <2>2, WrittenAdvances
<1>. QED BY <1>6, <1>7, <1>15 DEF DataInv

LEMMA WriteAuditKeepsData ==
  ASSUME DataInv, NEW s \in Stages, WriteAudit(s)
  PROVE  DataInv'
<1>1. /\ run.stage = s /\ Head(run.todo) = "audit" /\ run' = Written /\ Checked(s)
      /\ UNCHANGED <<pinned, source, payload, manifest, rules>>
  BY DEF WriteAudit, Writing
<1>2. manifest[s] = Absent /\ Source(s) /\ Progress(s)
  BY <1>1 DEF DataInv, Runs
<1>3. PICK k \in DOMAIN Order(s) :
         /\ run.todo = SubSeq(Order(s), k, Len(Order(s)))
         /\ \A j \in 1..(k - 1) : Done(s, Order(s)[j])
  BY <1>2 DEF Progress
<1>4. Order(s)[k] = "audit"
  BY <1>1, <1>3, NextFile
<1>5. Shape'
  BY <1>1 DEF DataInv, Shape
<1>6. Sealed'
  BY <1>1, <1>5, SealedStays DEF DataInv, Shape, FirstRules, LastRules
<1>7. \A file : Done(s, file) => Done(s, file)'
  <2>1. \A n : Good(s, n)' <=> Good(s, n)
    BY <1>1 DEF Good, Version, Labelled, RowsOf
  <2>2. Checked(s)' <=> Checked(s)
    BY <1>1 DEF Checked, Disjoint, Unique, Ids
  <2>. QED BY <2>1, <2>2 DEF Done
<1>8. Done(s, Order(s)[k])'
  <2>1. "audit" \notin Payloads(s)
    BY OrderFacts
  <2>2. Done(s, "audit")
    BY <1>1, <2>1 DEF Done
  <2>. QED BY <1>4, <1>7, <2>2
<1>9. ASSUME NEW r \in Stages PROVE Runs(r)'
  <2>1. CASE run'.stage \notin Stages
    BY <2>1, <1>9 DEF Runs
  <2>2. CASE /\ run'.stage = s /\ k + 1 \in DOMAIN Order(s)
             /\ run'.todo = SubSeq(Order(s), k + 1, Len(Order(s)))
    <3>1. k \in Nat
      BY <1>3, OrderFacts
    <3>2. PICK next \in DOMAIN Order(s) : next = k + 1
      BY <2>2
    <3>3. run'.todo = SubSeq(Order(s), next, Len(Order(s)))
      BY <2>2, <3>2
    <3>4. \A j \in 1..(next - 1) : j \in 1..(k - 1) \/ j = k
      BY <3>1, <3>2
    <3>5. \A j \in 1..(next - 1) : Done(s, Order(s)[j])'
      BY <1>3, <1>7, <1>8, <3>4
    <3>6. Progress(s)'
      BY <3>3, <3>5 DEF Progress
    <3>7. Source(s)'
      BY <1>1, <1>2 DEF Source, Intact
    <3>. QED BY <1>1, <1>2, <2>2, <3>6, <3>7 DEF Runs
  <2>. QED BY <1>1, <1>3, <2>1, <2>2, WrittenAdvances
<1>. QED BY <1>5, <1>6, <1>9 DEF DataInv

(* A stage that gets to its manifest has written every payload, each from  *)
(* the pinned snapshot, and has passed its checks.                         *)
LEMMA SealReady ==
  ASSUME DataInv, NEW s \in Stages, run.stage = s, Head(run.todo) = "manifest"
  PROVE  /\ Source(s)
         /\ \A n \in Payloads(s) : Good(s, n)
         /\ s # "ingest" => Checked(s)
         /\ Len(run.todo) = 1
<1>1. Source(s) /\ Progress(s)
  BY DEF DataInv, Runs
<1>2. PICK k \in DOMAIN Order(s) :
         /\ run.todo = SubSeq(Order(s), k, Len(Order(s)))
         /\ \A j \in 1..(k - 1) : Done(s, Order(s)[j])
  BY <1>1 DEF Progress
<1>3. Order(s)[k] = "manifest" /\ (Len(run.todo) = 1 <=> k = Len(Order(s)))
  BY <1>2, NextFile
<1>4. k = Len(Order(s)) /\ k \in Nat /\ k >= 2
  <2>1. Len(Order(s)) \in Nat /\ Len(Order(s)) >= 2 /\ k \in 1..Len(Order(s))
    <3>1. Len(Order(s)) \in Nat
      BY OrderFacts
    <3>. QED BY <1>2, <3>1, OrderFacts
  <2>2. k = Len(Order(s))
    BY <1>3, <2>1, OrderFacts
  <2>. QED BY <2>1, <2>2
<1>5. \A n \in Payloads(s) : Done(s, n)
  <2>1. TAKE n \in Payloads(s)
  <2>2. PICK j \in 1..(k - 1) : Order(s)[j] = n
    BY <1>4, OrderFacts
  <2>. QED BY <1>2, <2>2
<1>6. s # "ingest" => Done(s, "audit")
  <2>1. SUFFICES ASSUME s # "ingest" PROVE Done(s, "audit")
    OBVIOUS
  <2>2. k - 1 \in 1..(k - 1) /\ k - 1 \in 1..k
    BY <1>4
  <2>3. Order(s)[k - 1] = "audit"
    BY <1>4, <2>1, <2>2, OrderFacts
  <2>. QED BY <1>2, <2>2, <2>3
<1>. QED BY <1>1, <1>3, <1>4, <1>5, <1>6 DEF Done

LEMMA SealKeepsData ==
  ASSUME DataInv, NEW s \in Stages, Seal(s)
  PROVE  DataInv'
<1>1. /\ run.stage = s /\ Head(run.todo) = "manifest" /\ run' = Written
      /\ UNCHANGED <<pinned, source, payload, rules>>
  BY DEF Seal, Writing
<1>2. PICK new : manifest' = [manifest EXCEPT ![s] = new] /\ new.payloads = payload[s]
  <2> DEFINE w == [rules |-> IF s = "ingest" THEN rules ELSE run.rules,
                   fingerprint |-> run.fingerprint, payloads |-> payload[s], audit |-> audit[s]]
  <2>1. manifest' = [manifest EXCEPT ![s] = w] /\ w.payloads = payload[s]
    BY DEF Seal
  <2> HIDE DEF w
  <2>. QED BY <2>1
<1>3. /\ Source(s) /\ \A n \in Payloads(s) : Good(s, n)
      /\ s # "ingest" => Checked(s)
      /\ run'.stage \notin Stages
  BY <1>1, SealReady, StageFacts DEF Written
<1>4. /\ manifest'[s].payloads = payload[s]
      /\ \A r \in Stages : r # s => manifest'[r] = manifest[r]
      /\ payload[s] = [n \in Payloads(s) |-> payload[s][n]]
      /\ rules \in FirstRules..LastRules
  BY <1>2 DEF DataInv, Shape
<1>5. Shape'
  BY <1>1, <1>2 DEF DataInv, Shape
<1>6. PinnedClean' <=> PinnedClean
  BY <1>1 DEF PinnedClean, Labelled, RowsOf, Unique, Ids
<1>7. /\ \A r, version : Pristine(r, version)' = Pristine(r, version)
      /\ \A n, version : Labelled(n, version)' = Labelled(n, version)
  BY <1>1 DEF Pristine, Labelled, RowsOf
<1>8. IngestSealed'
  <2>1. CASE s = "ingest"
    <3>1. PICK version \in FirstRules..LastRules : payload[s]["artifact"] = Labelled("artifact", version)
      BY <1>3, <2>1 DEF Good, Version, Payloads
    <3>2. payload[s] = Pristine("ingest", version)
      BY <1>4, <2>1, <3>1, PristineMeans DEF Payloads
    <3>. QED BY <1>4, <1>7, <2>1, <3>2 DEF IngestSealed
  <2>2. CASE s # "ingest"
    BY <1>4, <1>7, <2>2, StageFacts DEF DataInv, Sealed, IngestSealed
  <2>. QED BY <2>1, <2>2
<1>9. s # "ingest" => /\ \A n \in Splits : payload[s][n].rows = RowsOf(n)
                      /\ \A n \in Splits : payload[s][n] = Labelled(n, payload[s][n].rules)
  <2>1. s # "ingest" => Payloads(s) = Splits
    BY PayloadNames
  <2>2. \A n, version : Labelled(n, version).rules = version /\ Labelled(n, version).rows = RowsOf(n)
    BY DEF Labelled
  <2>3. s # "ingest" => \A n \in Splits : \E version : payload[s][n] = Labelled(n, version)
    BY <1>3, <2>1 DEF Good
  <2>. QED BY <2>2, <2>3
<1>10. SplitsSealed'
  <2>1. CASE s = "splits"
    <3>1. PICK version : payload["ingest"] = Pristine("ingest", version) /\ version \in FirstRules..LastRules
      BY <1>3, <2>1 DEF Source, Intact, DataInv, Sealed, IngestSealed
    <3>2. payload["ingest"]["artifact"].rules = version
      BY <3>1, PristineMeans DEF Labelled
    <3>3. \A n \in Splits : payload[s][n] = Labelled(n, version)
      BY <1>3, <2>1, <3>2 DEF Good, Version, Payloads
    <3>4. payload[s] = Pristine("splits", version)
      BY <1>4, <2>1, <3>3, PristineMeans DEF Payloads
    <3>5. PinnedClean
      BY <1>3, <1>9, <2>1, CleanMeans
    <3>. QED BY <1>4, <1>6, <1>7, <2>1, <3>1, <3>4, <3>5 DEF SplitsSealed
  <2>2. CASE s # "splits"
    BY <1>4, <1>6, <1>7, <2>2, StageFacts DEF DataInv, Sealed, SplitsSealed
  <2>. QED BY <2>1, <2>2
<1>11. RelabelSealed'
  <2>1. CASE s = "relabel"
    <3>1. PinnedClean
      BY <1>3, <2>1 DEF Source, Intact, DataInv, Sealed, SplitsSealed
    <3>2. payload[s] = [n \in Splits |-> Labelled(n, payload[s][n].rules)]
      BY <1>4, <1>9, <2>1 DEF Payloads
    <3>3. \A n \in Splits : payload[s][n].rules \in 2..rules
      <4>1. \A n \in Splits : \E version \in 2..rules : payload[s][n] = Labelled(n, version)
        BY <1>3, <2>1 DEF Good, Version, Payloads
      <4>2. \A n, version : Labelled(n, version).rules = version
        BY DEF Labelled
      <4>. QED BY <4>1, <4>2
    <3>. QED BY <1>1, <1>4, <1>6, <1>7, <2>1, <3>1, <3>2, <3>3 DEF RelabelSealed
  <2>2. CASE s # "relabel"
    BY <1>1, <1>4, <1>6, <1>7, <2>2, StageFacts DEF DataInv, Sealed, RelabelSealed
  <2>. QED BY <2>1, <2>2
<1>12. Phase12Sealed'
  <2>1. CASE s = "phase1_2"
    <3>1. PinnedClean
      BY <1>3, <2>1 DEF Source, Intact, DataInv, Sealed, RelabelSealed
    <3>2. \A n \in Splits : payload[s][n] = Labelled(n, LastRules)
      BY <1>3, <2>1 DEF Good, Version, Payloads
    <3>3. payload[s] = Pristine("phase1_2", LastRules)
      BY <1>4, <2>1, <3>2, PristineMeans DEF Payloads
    <3>. QED BY <1>4, <1>6, <1>7, <2>1, <3>1, <3>3 DEF Phase12Sealed
  <2>2. CASE s # "phase1_2"
    BY <1>4, <1>6, <1>7, <2>2, StageFacts DEF DataInv, Sealed, Phase12Sealed
  <2>. QED BY <2>1, <2>2
<1>13. \A r \in Stages : Runs(r)'
  BY <1>3 DEF Runs
<1>. QED BY <1>5, <1>8, <1>10, <1>11, <1>12, <1>13 DEF DataInv, Sealed

-----------------------------------------------------------------------------
(* All steps together: those of the stages, and those of the labelling     *)
(* jobs and of the readers, which leave the data alone.                    *)

(* A step of a stage.                                                      *)
LEMMA StageKeepsData ==
  ASSUME DataInv, NEW s \in Stages, RunStage(s)
  PROVE  DataInv'
<1>1. CASE Start(s)
  BY <1>1, StartKeepsData
<1>2. CASE WritePayload(s)
  BY <1>2, WritePayloadKeepsData
<1>3. CASE FailCheck(s)
  BY <1>3, QuietKeepsData, StageFacts DEF FailCheck, files
<1>4. CASE WriteAudit(s)
  BY <1>4, WriteAuditKeepsData
<1>5. CASE Seal(s)
  BY <1>5, SealKeepsData
<1>6. CASE Answer(s)
  BY <1>6, QuietKeepsData DEF Answer, dvars, files
<1>. QED BY <1>1, <1>2, <1>3, <1>4, <1>5, <1>6 DEF RunStage

(* What people do to the files between two commands.                       *)
LEMMA PeopleKeepData ==
  ASSUME DataInv, NEW s \in Stages,
         \/ TickAudit(s) \/ CleanUp(s)
         \/ \E n \in Payloads(s) : EditPayload(s, n) \/ Restore(s, n)
  PROVE  DataInv'
<1>0. payload = [r \in Stages |-> payload[r]] /\ payload[s] = [n \in Payloads(s) |-> payload[s][n]]
  BY DEF DataInv, Shape
<1>1. CASE TickAudit(s)
  BY <1>1, QuietKeepsData DEF TickAudit
<1>2. CASE CleanUp(s)
  BY <1>2, EditKeepsData DEF CleanUp, Nothing
<1>3. ASSUME NEW n \in Payloads(s), NEW content, payload' = [payload EXCEPT ![s][n] = content],
             run = Idle, UNCHANGED <<pinned, manifest, rules, run>>
      PROVE  DataInv'
  <2> DEFINE p == [payload[s] EXCEPT ![n] = content]
  <2>1. payload' = [payload EXCEPT ![s] = p] /\ p = [m \in Payloads(s) |-> p[m]]
    BY <1>0, <1>3
  <2> HIDE DEF p
  <2>2. PICK q : q = p
    OBVIOUS
  <2>. QED BY <1>3, <2>1, <2>2, EditKeepsData
<1>4. ASSUME NEW n \in Payloads(s), EditPayload(s, n) PROVE DataInv'
  BY <1>3, <1>4 DEF EditPayload
<1>5. ASSUME NEW n \in Payloads(s), Restore(s, n) PROVE DataInv'
  <2>1. PICK content : content = manifest[s].payloads[n]
    OBVIOUS
  <2>. QED BY <1>3, <1>5, <2>1 DEF Restore
<1>. QED BY <1>1, <1>2, <1>4, <1>5

LEMMA DatasetsKeepData ==
  ASSUME DataInv, [Next]_dvars
  PROVE  DataInv'
<1>1. CASE RunIngest \/ RunSplits \/ RunRelabel \/ RunPhase12Labels
  BY <1>1, StageKeepsData, StageFacts DEF RunIngest, RunSplits, RunRelabel, RunPhase12Labels
<1>2. ASSUME NEW s \in Stages,
             \/ TickAudit(s) \/ CleanUp(s)
             \/ \E n \in Payloads(s) : EditPayload(s, n) \/ Restore(s, n)
      PROVE  DataInv'
  BY <1>2, PeopleKeepData
<1>3. CASE Kill
  BY <1>3, QuietKeepsData, StageFacts DEF Kill, files
<1>4. CASE EditSource
  BY <1>4, QuietKeepsData, StageFacts DEF EditSource
<1>5. CASE NewRules
  BY <1>5, NewRulesKeepData
<1>6. CASE UNCHANGED dvars
  BY <1>6, QuietKeepsData DEF dvars, files
<1>. QED BY <1>1, <1>2, <1>3, <1>4, <1>5, <1>6 DEF Next

LEMMA LabelsKeepData ==
  ASSUME DataInv, RunLabels \/ KillWritingLedger \/ Calibrate \/ Rescore \/ Freeze
  PROVE  DataInv'
<1>1. UNCHANGED <<pinned, source, payload, manifest, rules>>
  BY DEF RunLabels, StartLabel, OverCap, Ask, FinishLabel, KillWritingLedger, Calibrate, Rescore,
         Freeze, dvars, files
<1>2. run' = run \/ run'.stage \in {"none", "label"}
  BY StageFacts DEF RunLabels, StartLabel, OverCap, Ask, FinishLabel, KillWritingLedger, Calibrate,
         Rescore, Freeze, dvars
<1>. QED BY <1>1, <1>2, QuietKeepsData, StageFacts

LEMMA NextKeepsData == DataInv /\ [LNext]_vars => DataInv'
<1> SUFFICES ASSUME DataInv, [LNext]_vars PROVE DataInv'
  OBVIOUS
<1>. QED BY DatasetsKeepData, LabelsKeepData DEF LNext, RunSpotLabels, RunApiCalibration, vars

(* Whatever is killed, edited or relabelled, the data invariant holds.     *)
THEOREM DataInvariant == LSpec => []DataInv
<1>1. LInit => DataInv
  BY InitData DEF LInit
<1>. QED BY <1>1, NextKeepsData, PTL DEF LSpec

(* Data that a stage answers for is the pinned snapshot, labelled by the   *)
(* stage's own version of the rules, each complaint in one split and once, *)
(* although the rules may be replaced while a stage reads them per file.   *)
THEOREM FrozenDataIsSound == LSpec => []FrozenDataSound
<1>1. DataInv => FrozenDataSound
  <2> SUFFICES ASSUME DataInv, NEW s \in Stages, Accepts(s)
               PROVE  /\ \E version \in RulesOf(s) : payload[s] = Pristine(s, version)
                      /\ s # "ingest" => Checked(s) /\ Disjoint(s)
    BY DEF FrozenDataSound
  <2>1. manifest[s] # Absent /\ payload[s] = manifest[s].payloads /\ UpstreamVerified(s)
    BY DEF Accepts, Intact
  <2>2. \A n, version : Labelled(n, version).rows = RowsOf(n)
    BY DEF Labelled
  <2>3. CASE s = "ingest"
    BY <2>1, <2>3 DEF DataInv, Sealed, IngestSealed, RulesOf
  <2>4. CASE s = "splits"
    <3>1. PICK version \in FirstRules..LastRules : payload[s] = Pristine("splits", version)
      BY <2>1, <2>4 DEF DataInv, Sealed, SplitsSealed
    <3>2. \A n \in Splits : payload[s][n].rows = RowsOf(n)
      BY <2>2, <3>1, PristineMeans
    <3>3. PinnedClean
      BY <2>1, <2>4 DEF DataInv, Sealed, SplitsSealed
    <3>. QED BY <2>4, <3>1, <3>2, <3>3, CleanMeans DEF RulesOf
  <2>5. CASE s = "relabel"
    <3>1. /\ PinnedClean
          /\ payload[s] = [n \in Splits |-> Labelled(n, payload[s][n].rules)]
          /\ \A n \in Splits : payload[s][n].rules \in 2..rules
      BY <2>1, <2>5 DEF DataInv, Sealed, RelabelSealed
    <3>2. rules = 2
      BY <2>1, <2>5 DEF UpstreamVerified, Phase1Verified
    <3>3. \A n \in Splits : payload[s][n].rules = 2
      BY <3>1, <3>2
    <3>4. payload[s] = Pristine("relabel", 2)
      BY <3>1, <3>3, PristineMeans
    <3>5. \A n \in Splits : payload[s][n].rows = RowsOf(n)
      BY <2>2, <3>4, PristineMeans
    <3>. QED BY <2>5, <3>1, <3>4, <3>5, CleanMeans DEF RulesOf
  <2>6. CASE s = "phase1_2"
    <3>1. PinnedClean /\ payload[s] = Pristine("phase1_2", LastRules)
      BY <2>1, <2>6 DEF DataInv, Sealed, Phase12Sealed
    <3>2. \A n \in Splits : payload[s][n].rows = RowsOf(n)
      BY <2>2, <3>1, PristineMeans
    <3>. QED BY <2>6, <3>1, <3>2, CleanMeans DEF RulesOf, LastRules
  <2>. QED BY <2>3, <2>4, <2>5, <2>6, StageFacts
<1>. QED BY <1>1, DataInvariant, PTL

(* No command rewrites a manifest, or a payload that a manifest seals; by  *)
(* hand only payloads can be changed, while nothing runs.                  *)
THEOREM AlwaysSealedOnce == LSpec => SealedOnce
<1> DEFINE Kept == \A s \in Stages : manifest[s] # Absent =>
                      /\ manifest'[s] = manifest[s]
                      /\ run # Idle => payload'[s] = payload[s]
<1>1. DataInv /\ [LNext]_vars => [Kept]_dvars
  <2> SUFFICES ASSUME DataInv, [LNext]_vars PROVE Kept
    OBVIOUS
  <2>0. /\ payload = [r \in Stages |-> payload[r]] /\ manifest = [r \in Stages |-> manifest[r]]
        /\ \A r \in Stages : payload[r] = [m \in Payloads(r) |-> payload[r][m]]
    BY DEF DataInv, Shape
  <2>1. CASE UNCHANGED <<payload, manifest>>
    BY <2>1
  <2>2. ASSUME NEW s \in Stages, WritePayload(s) \/ Seal(s) PROVE Kept
    <3>1. manifest[s] = Absent
      BY <2>2 DEF WritePayload, Seal, Writing, DataInv, Runs
    <3>2. CASE WritePayload(s)
      <4>1. PICK n, content : payload' = [payload EXCEPT ![s][n] = content]
        <5>1. PICK n, content : n = Head(run.todo) /\ content = Derived(s, n)
          OBVIOUS
        <5>. QED BY <3>2, <5>1 DEF WritePayload
      <4>2. manifest' = manifest
        BY <3>2 DEF WritePayload
      <4>3. \A r \in Stages : r # s => payload'[r] = payload[r]
        BY <2>0, <4>1
      <4>. QED BY <3>1, <4>2, <4>3
    <3>3. CASE Seal(s)
      <4>1. PICK content : manifest' = [manifest EXCEPT ![s] = content]
        BY <3>3 DEF Seal
      <4>2. payload' = payload
        BY <3>3 DEF Seal
      <4>. QED BY <2>0, <3>1, <4>1, <4>2
    <3>. QED BY <2>2, <3>2, <3>3
  <2>3. CASE run = Idle /\ manifest' = manifest
    BY <2>3
  <2>4. ASSUME NEW s \in Stages, RunStage(s) PROVE Kept
    BY <2>1, <2>2, <2>4 DEF RunStage, Start, FailCheck, WriteAudit, Answer, dvars, files
  <2>5. ASSUME NEW s \in Stages, \/ TickAudit(s) \/ CleanUp(s)
                                 \/ \E n \in Payloads(s) : EditPayload(s, n) \/ Restore(s, n)
        PROVE  Kept
    BY <2>3, <2>5 DEF TickAudit, CleanUp, EditPayload, Restore
  <2>6. CASE Kill \/ EditSource \/ NewRules \/ UNCHANGED dvars
    BY <2>1, <2>6 DEF Kill, EditSource, NewRules, dvars, files
  <2>7. CASE Next
    BY <2>4, <2>5, <2>6, <2>7, StageFacts
       DEF Next, RunIngest, RunSplits, RunRelabel, RunPhase12Labels
  <2>8. CASE RunLabels \/ KillWritingLedger \/ Calibrate \/ Rescore \/ Freeze
    BY <2>1, <2>8 DEF RunLabels, StartLabel, OverCap, Ask, FinishLabel, KillWritingLedger,
                      Calibrate, Rescore, Freeze, dvars, files
  <2>. QED BY <2>6, <2>7, <2>8 DEF LNext, RunSpotLabels, RunApiCalibration, vars
<1>. QED BY <1>1, DataInvariant, PTL DEF LSpec, SealedOnce

-----------------------------------------------------------------------------
(* The readers of paid labels and of frozen data.                          *)

(* The receipts are answers to one content of the CAL file, one for each   *)
(* complaint, and a process that asks goes on with that content.           *)
ReceiptsSound ==
    /\ receipts \in Seq({receipts[k] : k \in DOMAIN receipts})
    /\ Once(receipts) /\ SameFile(receipts)
    /\ Labelling => \A k \in DOMAIN receipts : receipts[k].fingerprint = run.fingerprint

(* What a ledger says of itself is true of the receipts it names.          *)
TrueOf(records) ==
    /\ ledger.status = "complete" =>
          Len(records) = Limit /\ (job = "api" => \A k \in DOMAIN records : records[k].status = "ok")
    /\ ledger.within_budget =>
          /\ \A k \in DOMAIN records : records[k].cost = NoCost => records[k].status = "request_failed"
          /\ SpentOn(records) <= Budget

LedgerTrue == ledger \notin {Absent, Torn} => TrueOf(ledger.receipts)

FreezePinned ==
    config # Absent => config.manifest.payloads = Pristine("phase1_2", LastRules)

TwoReports == reports = [calibration |-> reports.calibration, rescore |-> reports.rescore]

LabelInv == ReceiptsSound /\ LedgerTrue /\ TwoReports /\ ReportsSound /\ FreezePinned

LEMMA InitLabels == LInit => LabelInv
<1> SUFFICES ASSUME LInit PROVE LabelInv
  OBVIOUS
<1>1. ReceiptsSound
  BY DEF LInit, ReceiptsSound, Once, SameFile
<1>2. LedgerTrue /\ TwoReports /\ ReportsSound /\ FreezePinned
  BY DEF LInit, LedgerTrue, TwoReports, ReportsSound, CalibrationSound, RescoreSound, FreezePinned
<1>. QED BY <1>1, <1>2 DEF LabelInv

(* The pinned snapshot never changes.                                      *)
LEMMA PinnedStays ==
  ASSUME [LNext]_vars
  PROVE  /\ pinned' = pinned
         /\ \A s, version : Pristine(s, version)' = Pristine(s, version)
<1>1. pinned' = pinned
  BY DEF LNext, vars, Next, RunIngest, RunSplits, RunRelabel, RunPhase12Labels, RunStage, Start,
         WritePayload, FailCheck, WriteAudit, Seal, Answer, TickAudit, CleanUp, EditPayload,
         Restore, Kill, EditSource, NewRules, RunSpotLabels, RunApiCalibration, RunLabels,
         StartLabel, OverCap, Ask, FinishLabel, KillWritingLedger, Calibrate, Rescore, Freeze,
         dvars, files
<1>. QED BY <1>1 DEF Pristine

(* A number is published from receipts that a ledger proves.               *)
LEMMA ProvenReceipts ==
  ASSUME LabelInv, job = "api", NEW dataset, LedgerProves(dataset)
  PROVE  /\ ProvenWithinCap(receipts) /\ Once(receipts) /\ SameFile(receipts)
         /\ Len(receipts) = Limit
BY DEF LedgerProves, LabelInv, LedgerTrue, TrueOf, ReceiptsSound, ProvenWithinCap

(* The stages and the people leave receipts, ledger and reports alone, and *)
(* never run a command beside a labelling job.                             *)
LEMMA DatasetsKeepLabels ==
  ASSUME LabelInv, [LNext]_vars, [Next]_dvars, UNCHANGED lvars
  PROVE  LabelInv'
<1>1. UNCHANGED <<job, receipts, ledger, reports, config>>
  BY DEF lvars
<1>2. Labelling' => run' = run
  <2> SUFFICES ASSUME Labelling', Next PROVE run' = run
    BY DEF dvars
  <2>1. ASSUME NEW s \in Stages, RunStage(s) PROVE run' = run
    <3>1. CASE Start(s) \/ FailCheck(s)
      BY <3>1, StageFacts DEF Start, FailCheck, Labelling
    <3>2. CASE WritePayload(s) \/ WriteAudit(s) \/ Seal(s)
      <4>1. run.stage = s /\ run' = Written
        BY <3>2 DEF WritePayload, WriteAudit, Seal, Writing
      <4>. QED BY <4>1, StageFacts DEF Written, Labelling
    <3>3. CASE Answer(s)
      BY <3>3 DEF Answer, dvars
    <3>. QED BY <2>1, <3>1, <3>2, <3>3 DEF RunStage
  <2>2. CASE Kill
    BY <2>2, StageFacts DEF Kill, Labelling
  <2>. QED BY <2>1, <2>2, StageFacts
           DEF Next, RunIngest, RunSplits, RunRelabel, RunPhase12Labels, TickAudit, CleanUp,
               EditPayload, Restore, EditSource, NewRules
<1>3. ReceiptsSound'
  <2>1. Once(receipts)' /\ SameFile(receipts)' /\ (receipts \in Seq({receipts[k] : k \in DOMAIN receipts}))'
    BY <1>1 DEF LabelInv, ReceiptsSound
  <2>2. Labelling' => Labelling /\ run'.fingerprint = run.fingerprint
    BY <1>2 DEF Labelling
  <2>3. Labelling' => \A k \in DOMAIN receipts' : receipts'[k].fingerprint = run'.fingerprint
    BY <1>1, <2>2 DEF LabelInv, ReceiptsSound
  <2>. QED BY <2>1, <2>3 DEF ReceiptsSound
<1>4. LedgerTrue'
  BY <1>1 DEF LabelInv, LedgerTrue, TrueOf
<1>5. TwoReports' /\ ReportsSound' /\ FreezePinned'
  BY <1>1, PinnedStays DEF LabelInv, TwoReports, ReportsSound, CalibrationSound, RescoreSound, FreezePinned
<1>. QED BY <1>3, <1>4, <1>5 DEF LabelInv

(* A resumed job loads the receipts only if all are of its own CAL file.   *)
LEMMA StartKeepsLabels ==
  ASSUME LabelInv, [LNext]_vars, StartLabel
  PROVE  LabelInv'
<1>1. UNCHANGED <<job, receipts, ledger, reports, config>>
  BY DEF StartLabel, lvars
<1>2. run'.fingerprint = RunFingerprint /\ LoadableReceipts
  BY DEF StartLabel, CanLabel
<1>3. ReceiptsSound'
  <2>1. Once(receipts)' /\ SameFile(receipts)' /\ (receipts \in Seq({receipts[k] : k \in DOMAIN receipts}))'
    BY <1>1 DEF LabelInv, ReceiptsSound
  <2>2. \A k \in DOMAIN receipts' : receipts'[k].fingerprint = run'.fingerprint
    BY <1>1, <1>2 DEF LoadableReceipts
  <2>. QED BY <2>1, <2>2 DEF ReceiptsSound
<1>4. LedgerTrue'
  BY <1>1 DEF LabelInv, LedgerTrue, TrueOf
<1>5. TwoReports' /\ ReportsSound' /\ FreezePinned'
  BY <1>1, PinnedStays DEF LabelInv, TwoReports, ReportsSound, CalibrationSound, RescoreSound, FreezePinned
<1>. QED BY <1>3, <1>4, <1>5 DEF LabelInv

(* Only what the receipts do not answer is asked.                          *)
LEMMA AskKeepsLabels ==
  ASSUME LabelInv, [LNext]_vars, Ask
  PROVE  LabelInv'
<1>1. UNCHANGED <<job, ledger, reports, config, run>> /\ Labelling
  BY DEF Ask, dvars
<1>2. PICK id, receipt : /\ id \notin Recorded
                         /\ receipts' = Append(receipts, receipt)
                         /\ receipt.id = id /\ receipt.fingerprint = run.fingerprint
  <2>1. PICK id \in Remaining, outcome \in Outcomes :
          receipts' = Append(receipts, [id |-> id, fingerprint |-> run.fingerprint,
                                        status |-> outcome.status, cost |-> outcome.cost])
    BY DEF Ask
  <2> DEFINE receipt == [id |-> id, fingerprint |-> run.fingerprint,
                         status |-> outcome.status, cost |-> outcome.cost]
  <2>2. receipts' = Append(receipts, receipt) /\ receipt.id = id /\ receipt.fingerprint = run.fingerprint
    BY <2>1
  <2>3. id \notin Recorded
    BY DEF Remaining
  <2> HIDE DEF receipt
  <2>. QED BY <2>2, <2>3
<1> DEFINE R == {receipts[k] : k \in DOMAIN receipts}
           N == Len(receipts)
<1>3. receipts \in Seq(R) /\ Once(receipts) /\ N \in Nat /\ DOMAIN receipts = 1..N
      /\ \A k \in 1..N : receipts[k].fingerprint = run.fingerprint
  BY <1>1 DEF LabelInv, ReceiptsSound
<1>4. /\ receipts' \in Seq(R \cup {receipt}) /\ DOMAIN receipts' = 1..(N + 1)
      /\ \A k \in 1..N : receipts'[k] = receipts[k]
      /\ receipts'[N + 1] = receipt
  <2>1. receipts \in Seq(R \cup {receipt}) /\ receipt \in R \cup {receipt}
    BY <1>3
  <2> HIDE DEF R
  <2>. QED BY <1>2, <1>3, <2>1
<1>5. \A k \in 1..(N + 1) : k \in 1..N \/ k = N + 1
  BY <1>3
<1>6. \A k \in 1..N : receipts[k].id # id
  BY <1>2, <1>3 DEF Recorded
<1> PICK n : n = N
  OBVIOUS
<1> HIDE DEF N, R
<1>7. ReceiptsSound'
  <2>1. (receipts \in Seq({receipts[k] : k \in DOMAIN receipts}))'
    <3> DEFINE V == {receipts'[j] : j \in DOMAIN receipts'}
    <3>1. PICK S : receipts' \in Seq(S)
      BY <1>4
    <3>2. Len(receipts') \in Nat /\ DOMAIN receipts' = 1..Len(receipts')
          /\ receipts' = [k \in 1..Len(receipts') |-> receipts'[k]]
      BY <3>1
    <3>3. \A k \in 1..Len(receipts') : receipts'[k] \in V
      BY <3>2
    <3> HIDE DEF V
    <3>4. receipts' \in Seq(V)
      BY <3>2, <3>3
    <3>. QED BY <3>4 DEF V
  <2>2. Once(receipts')
    BY <1>2, <1>3, <1>4, <1>5, <1>6 DEF Once
  <2>3. \A k \in DOMAIN receipts' : receipts'[k].fingerprint = run.fingerprint
    BY <1>2, <1>3, <1>4, <1>5
  <2>4. SameFile(receipts')
    BY <2>3 DEF SameFile
  <2>. QED BY <1>1, <2>1, <2>2, <2>3, <2>4 DEF ReceiptsSound
<1>8. LedgerTrue'
  BY <1>1 DEF LabelInv, LedgerTrue, TrueOf
<1>9. TwoReports' /\ ReportsSound' /\ FreezePinned'
  BY <1>1, PinnedStays DEF LabelInv, TwoReports, ReportsSound, CalibrationSound, RescoreSound, FreezePinned
<1>. QED BY <1>7, <1>8, <1>9 DEF LabelInv

(* The ledger says of the receipts what they are.                          *)
LEMMA FinishKeepsLabels ==
  ASSUME LabelInv, [LNext]_vars, FinishLabel \/ KillWritingLedger \/ OverCap
  PROVE  LabelInv'
<1>1. UNCHANGED <<job, receipts, reports, config>> /\ ~Labelling'
  BY StageFacts DEF FinishLabel, KillWritingLedger, OverCap, Labelling, lvars
<1>2. ReceiptsSound'
  BY <1>1 DEF LabelInv, ReceiptsSound
<1>3. LedgerTrue'
  <2>1. CASE FinishLabel
    <3>1. /\ ledger' = Ledger /\ Ledger.receipts = receipts
          /\ Ledger.status = "complete" => Complete
          /\ Ledger.within_budget = WithinBudget
      BY <2>1 DEF FinishLabel, Ledger
    <3>2. Complete => /\ Len(receipts) = Limit
                      /\ job = "api" => \A k \in DOMAIN receipts : receipts[k].status = "ok"
      BY DEF Complete, AllOk
    <3>3. WithinBudget =>
            /\ \A k \in DOMAIN receipts : receipts[k].cost = NoCost => receipts[k].status = "request_failed"
            /\ SpentOn(receipts) <= Budget
      BY DEF WithinBudget, MissingCost, Spent
    <3>. QED BY <1>1, <3>1, <3>2, <3>3 DEF LedgerTrue, TrueOf
  <2>2. CASE KillWritingLedger
    BY <2>2 DEF KillWritingLedger, LedgerTrue, Torn
  <2>3. CASE OverCap
    BY <1>1, <2>3 DEF OverCap, lvars, LabelInv, LedgerTrue, TrueOf
  <2>. QED BY <2>1, <2>2, <2>3
<1>4. TwoReports' /\ ReportsSound' /\ FreezePinned'
  BY <1>1, PinnedStays DEF LabelInv, TwoReports, ReportsSound, CalibrationSound, RescoreSound, FreezePinned
<1>. QED BY <1>2, <1>3, <1>4 DEF LabelInv

(* The rescore, the freeze and the report of the calibration.              *)
LEMMA ReadersKeepLabels ==
  ASSUME DataInv, LabelInv, [LNext]_vars, Calibrate \/ Rescore \/ Freeze
  PROVE  LabelInv'
<1>1. UNCHANGED <<job, receipts, ledger, run>> /\ run' = run /\ run = Idle
  BY DEF Calibrate, Rescore, Freeze, dvars
<1>2. ReceiptsSound'
  <2>1. ~Labelling'
    BY <1>1, StageFacts DEF Labelling
  <2>. QED BY <1>1, <2>1 DEF LabelInv, ReceiptsSound
<1>3. LedgerTrue'
  BY <1>1 DEF LabelInv, LedgerTrue, TrueOf
<1>4. CASE Calibrate
  <2>1. PICK report : report = CalibrationReport
    OBVIOUS
  <2>2. reports' = [reports EXCEPT !.calibration = report] /\ config' = config
    BY <1>4, <2>1 DEF Calibrate
  <2>3. reports'.calibration = report /\ reports'.rescore = reports.rescore /\ TwoReports'
    BY <2>2 DEF LabelInv, TwoReports
  <2>4. job = "api" /\ (ledger # Absent => LedgerProves(DatasetHash))
    BY <1>4 DEF Calibrate
  <2>5. report # StandIn => /\ ProvenWithinCap(report) /\ Once(report) /\ SameFile(report)
                            /\ Len(report) = Limit
    BY <2>1, <2>4, ProvenReceipts DEF CalibrationReport
  <2>6. CalibrationSound'
    BY <2>3, <2>5 DEF CalibrationSound
  <2>7. RescoreSound' /\ FreezePinned'
    BY <2>2, <2>3, PinnedStays DEF LabelInv, ReportsSound, RescoreSound, FreezePinned
  <2>. QED BY <1>2, <1>3, <2>3, <2>6, <2>7 DEF LabelInv, ReportsSound
<1>5. CASE Rescore
  <2>1. PICK report : report = RescoreReport
    OBVIOUS
  <2>2. reports' = [reports EXCEPT !.rescore = report] /\ config' = config
    BY <1>5, <2>1 DEF Rescore
  <2>3. reports'.rescore = report /\ reports'.calibration = reports.calibration /\ TwoReports'
    BY <2>2 DEF LabelInv, TwoReports
  <2>4. job = "api" /\ LedgerProves(DatasetHash) /\ Accepts("phase1_2")
    BY <1>5 DEF Rescore
  <2>5. CalSplit \in Splits
    BY LabelAssumption
  <2>6. payload["relabel"][CalSplit].rows = Pristine("relabel", 2)[CalSplit].rows
    <3>1. payload["relabel"] = [n \in Splits |-> Labelled(n, payload["relabel"][n].rules)]
      BY <2>4, StageFacts DEF Accepts, UpstreamVerified, SourcesVerified, Intact, DataInv, Sealed,
                              RelabelSealed
    <3>2. payload["relabel"][CalSplit] = Labelled(CalSplit, payload["relabel"][CalSplit].rules)
      BY <2>5, <3>1
    <3>3. Pristine("relabel", 2)[CalSplit] = Labelled(CalSplit, 2)
      BY <2>5, PristineMeans
    <3>4. \A version : Labelled(CalSplit, version).rows = RowsOf(CalSplit)
      BY DEF Labelled
    <3>. QED BY <3>2, <3>3, <3>4
  <2>7. payload["phase1_2"] = Pristine("phase1_2", 3)
    BY <2>4 DEF Accepts, Intact, DataInv, Sealed, Phase12Sealed, LastRules
  <2>8. /\ report.receipts = receipts
        /\ report.before = payload["relabel"][CalSplit]
        /\ report.after = payload["phase1_2"][CalSplit]
    BY <2>1 DEF RescoreReport
  <2>9. RescoreSound'
    BY <2>3, <2>4, <2>6, <2>7, <2>8, PinnedStays, ProvenReceipts DEF RescoreSound
  <2>10. CalibrationSound' /\ FreezePinned'
    BY <2>2, <2>3, PinnedStays DEF LabelInv, ReportsSound, CalibrationSound, FreezePinned
  <2>. QED BY <1>2, <1>3, <2>3, <2>9, <2>10 DEF LabelInv, ReportsSound
<1>6. CASE Freeze
  <2>1. config'.manifest = manifest["phase1_2"] /\ Accepts("phase1_2") /\ reports' = reports
    BY <1>6 DEF Freeze
  <2>2. manifest["phase1_2"].payloads = Pristine("phase1_2", LastRules)
    BY <2>1 DEF Accepts, Intact, DataInv, Sealed, Phase12Sealed
  <2>3. FreezePinned'
    BY <2>1, <2>2, PinnedStays DEF FreezePinned
  <2>4. TwoReports' /\ ReportsSound'
    BY <2>1, PinnedStays DEF LabelInv, TwoReports, ReportsSound, CalibrationSound, RescoreSound
  <2>. QED BY <1>2, <1>3, <2>3, <2>4 DEF LabelInv
<1>. QED BY <1>4, <1>5, <1>6

LEMMA NextKeepsLabels == DataInv /\ LabelInv /\ [LNext]_vars => LabelInv'
<1> SUFFICES ASSUME DataInv, LabelInv, [LNext]_vars PROVE LabelInv'
  OBVIOUS
<1>1. CASE [Next]_dvars /\ UNCHANGED lvars
  BY <1>1, DatasetsKeepLabels
<1>2. CASE RunLabels
  BY <1>2, StartKeepsLabels, AskKeepsLabels, FinishKeepsLabels DEF RunLabels
<1>3. CASE KillWritingLedger
  BY <1>3, FinishKeepsLabels
<1>4. CASE Calibrate \/ Rescore \/ Freeze
  BY <1>4, ReadersKeepLabels
<1>. QED BY <1>1, <1>2, <1>3, <1>4 DEF LNext, RunSpotLabels, RunApiCalibration, vars

(* Receipts, ledger, reports and freeze fit together in every state.       *)
THEOREM LabelInvariant == LSpec => []LabelInv
<1>. QED BY InitLabels, NextKeepsLabels, DataInvariant, PTL DEF LSpec

(* A published number rests on one answer per complaint, all about one     *)
(* content of the CAL file and proven to have cost no more than the cap;   *)
(* the rescore compares the two frozen labellings; and teacher generation  *)
(* starts only on the pinned TRAIN and TEST rows under the frozen rules.   *)
THEOREM ReadersAreSound == LSpec => []ReadersSound
<1>1. LabelInv => ReadersSound
  <2> SUFFICES ASSUME LabelInv PROVE TeacherReadsFrozen
    BY DEF LabelInv, ReadersSound
  <2> SUFFICES ASSUME TeacherMayRead, NEW n \in Splits \ {CalSplit}
               PROVE  payload["phase1_2"][n] = Pristine("phase1_2", 3)[n]
    BY DEF TeacherReadsFrozen
  <2>. QED BY DEF TeacherMayRead, LabelInv, FreezePinned, LastRules
<1>. QED BY <1>1, LabelInvariant, PTL
=============================================================================
