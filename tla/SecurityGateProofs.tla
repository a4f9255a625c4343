------------------------- MODULE SecurityGateProofs -------------------------
(***************************************************************************)
(* Proofs about a job of the security gate, for any registry of scanners,  *)
(* any requirements, severities and limits.                                *)
(***************************************************************************)
EXTENDS SecurityGate, FiniteSetTheorems, TLAPS

-----------------------------------------------------------------------------
(* The order of the steps *)

\* The steps in order, spelled out for the provers.
LEMMA StepFacts ==
    /\ Len(Steps) = 12 /\ \A k \in 1..12 : Steps[k] \in StepNames
    /\ Steps[1] = "setup" /\ Steps[2] = "prepare" /\ Steps[3] = "source_scan"
    /\ Steps[4] = "active_scan" /\ Steps[5] = "active_required" /\ Steps[6] = "api_scan"
    /\ Steps[7] = "threagile_scan" /\ Steps[8] = "normalize"
    /\ Steps[9] = "threat_model_update" /\ Steps[10] = "severity_gate"
    /\ Steps[11] = "upload" /\ Steps[12] = "enforce"
<1>1. /\ Len(Steps) = 12
      /\ Steps[1] = "setup" /\ Steps[2] = "prepare" /\ Steps[3] = "source_scan"
      /\ Steps[4] = "active_scan" /\ Steps[5] = "active_required" /\ Steps[6] = "api_scan"
      /\ Steps[7] = "threagile_scan" /\ Steps[8] = "normalize"
      /\ Steps[9] = "threat_model_update" /\ Steps[10] = "severity_gate"
      /\ Steps[11] = "upload" /\ Steps[12] = "enforce"
    BY DEF Steps
<1>2. \A k \in 1..12 : k = 1 \/ k = 2 \/ k = 3 \/ k = 4 \/ k = 5 \/ k = 6 \/ k = 7 \/ k = 8
                       \/ k = 9 \/ k = 10 \/ k = 11 \/ k = 12
    OBVIOUS
<1> QED BY <1>1, <1>2 DEF StepNames

\* No step occurs twice.
LEMMA StepsDiffer == \A j, k \in 1..12 : Steps[j] = Steps[k] => j = k
<1>1. \A k \in 1..12 : k = 1 \/ k = 2 \/ k = 3 \/ k = 4 \/ k = 5 \/ k = 6 \/ k = 7 \/ k = 8
                       \/ k = 9 \/ k = 10 \/ k = 11 \/ k = 12
    OBVIOUS
<1> QED BY <1>1, StepFacts

\* A step has an outcome exactly when the job is past it.
Order ==
    /\ at \in 1..13
    /\ \A k \in 1..12 : k < at <=> outcome[Steps[k]] # "none"

\* The end of a step keeps the order.
LEMMA EndInOrder ==
    ASSUME TypeOK, Order, Running,
           NEW result \in {"success", "failure", "skipped", "cancelled"},
           outcome' = [outcome EXCEPT ![Steps[at]] = result],
           at' = at + 1
    PROVE  /\ Order'
           /\ outcome' \in [StepNames -> {"none", "success", "failure", "skipped", "cancelled"}]
           /\ outcome'[Steps[at]] = result
           /\ \A step \in StepNames : step # Steps[at] => outcome'[step] = outcome[step]
<1>1. at \in 1..12 /\ Steps[at] \in StepNames
    BY StepFacts DEF Order, Running
<1>2. /\ outcome' \in [StepNames -> {"none", "success", "failure", "skipped", "cancelled"}]
      /\ outcome'[Steps[at]] = result
      /\ \A step \in StepNames : step # Steps[at] => outcome'[step] = outcome[step]
    BY <1>1 DEF TypeOK
<1>3. ASSUME NEW k \in 1..12
      PROVE  k < at' <=> outcome'[Steps[k]] # "none"
    <2>1. CASE k = at
        BY <1>1, <1>2, <2>1
    <2>2. CASE k # at
        <3>1. Steps[k] # Steps[at] /\ Steps[k] \in StepNames
            BY <1>1, <2>2, StepFacts, StepsDiffer
        <3>2. outcome'[Steps[k]] = outcome[Steps[k]]
            BY <1>2, <3>1
        <3>3. k < at' <=> k < at
            BY <1>1, <2>2
        <3> QED BY <3>2, <3>3 DEF Order
    <2> QED BY <2>1, <2>2
<1>4. at' \in 1..13
    BY <1>1
<1> QED BY <1>2, <1>3, <1>4 DEF Order

-----------------------------------------------------------------------------
(* The scanner suite *)

\* What required scanners of a phase owe the job.
RanIn(p) == \A s \in Required[p] : meta[s] = "ran" /\ PhaseOf[s] = p

\* One invocation of the suite: it types, it takes nothing back of other phases, and
\* unless it fails its required scanners ran and no error is new.
LEMMA SuiteRecords ==
    ASSUME TypeOK, NEW p \in Phases, NEW results \in [Selected(p) -> Results],
           Suite(p, results)
    PROVE  /\ phases' \in SUBSET Phases /\ reports' \in SUBSET Sources
           /\ worked' \in SUBSET Scanners
           /\ meta' \in [Scanners -> {"none", "ran", "error", "skipped"}]
           /\ \A q \in Phases : q # p /\ RanIn(q) => RanIn(q)'
           /\ ~SuiteFails(p, Records(results)) =>
                 /\ RanIn(p)'
                 /\ \A s \in Scanners : meta'[s] = "error" => meta[s] = "error"
           /\ \A s \in Scanners :
                 PhaseOf[s] # p /\ meta[s] \in {"ran", "error"} => meta'[s] = meta[s]
<1> DEFINE records == Records(results)
<1>1. \A s \in Scanners : records[s] \in {"ran", "error", "skipped"}
    BY DEF Records, Status
<1>2. \A s \in Scanners : records[s] = "ran" => PhaseOf[s] = p
    BY DEF Records, Selected
<1>3. /\ meta' = [s \in Scanners |->
              IF PhaseOf[s] # p /\ meta[s] \in {"ran", "error"} THEN meta[s] ELSE records[s]]
      /\ phases' = phases \cup {p}
      /\ reports' = reports \cup {s \in DOMAIN results : results[s].reports}
      /\ worked' = worked \cup {s \in DOMAIN results : results[s].worked}
    BY DEF Suite, Merged
<1>4. DOMAIN results \subseteq Scanners
    BY DEF Selected
<1>5. ~SuiteFails(p, records) =>
          /\ \A s \in Required[p] : records[s] = "ran"
          /\ \A s \in Scanners : records[s] # "error"
    BY DEF SuiteFails
<1>6. \A q \in Phases : Required[q] \subseteq Scanners
    BY GateAssumption
<1> HIDE DEF records
<1>7. meta' \in [Scanners -> {"none", "ran", "error", "skipped"}]
    BY <1>1, <1>3 DEF TypeOK
<1>8. \A s \in Scanners : meta'[s] =
          IF PhaseOf[s] # p /\ meta[s] \in {"ran", "error"} THEN meta[s] ELSE records[s]
    BY <1>3
<1>9. \A q \in Phases : q # p /\ RanIn(q) => RanIn(q)'
    BY <1>6, <1>8 DEF RanIn
<1>10. ~SuiteFails(p, records) => RanIn(p)'
    BY <1>2, <1>5, <1>6, <1>8 DEF RanIn
<1>11. ~SuiteFails(p, records) => \A s \in Scanners : meta'[s] = "error" => meta[s] = "error"
    BY <1>5, <1>8
<1>12. reports' \in SUBSET Sources /\ worked' \in SUBSET Scanners /\ phases' \in SUBSET Phases
    BY <1>3, <1>4 DEF TypeOK, Sources
<1> QED BY <1>7, <1>8, <1>9, <1>10, <1>11, <1>12 DEF records

-----------------------------------------------------------------------------
(* What a job knows that nothing has stopped *)

Honest == ~broken /\ ~cancelled

SuiteSteps == {"source_scan", "api_scan", "threagile_scan"}

\* The meaning of each outcome, while no step has failed that stops the job.
ScansMean ==
    /\ "shift-left" \in phases /\ outcome["source_scan"] # "failure" => RanIn("shift-left")
    /\ outcome["source_scan"] = "success" => RanIn("shift-left") /\ RanIn("sbom")
    /\ outcome["source_scan"] # "skipped"
    /\ outcome["api_scan"] = "success" => RanIn("api")
    /\ outcome["api_scan"] = "skipped" => ~inputs.openapi
    /\ outcome["threagile_scan"] = "success" => RanIn("threatmodel")
    /\ outcome["threagile_scan"] = "skipped" => ~inputs.threagile
    /\ (\E s \in Scanners : meta[s] = "error")
           => \E step \in SuiteSteps : outcome[step] = "failure"

ActiveMeans ==
    /\ outcome["active_scan"] = "success" => artifacts >= MinArtifacts
    /\ outcome["active_scan"] = "skipped" => ~inputs.target
    /\ outcome["active_required"] # "success"
    /\ outcome["active_required"] = "skipped" => ~inputs.requireActive \/ inputs.target

VerdictMeans ==
    /\ outcome["normalize"] = "success" => findings = reports
    /\ outcome["normalize"] # "skipped"
    /\ outcome["threat_model_update"] = "success" => register = findings
    /\ outcome["threat_model_update"] = "skipped" => outcome["normalize"] # "success"
    /\ outcome["severity_gate"] = "success" => ~Breached
    /\ outcome["severity_gate"] = "skipped" => outcome["normalize"] # "success"
    /\ outcome["enforce"] \in {"none", "success"}
    /\ outcome["enforce"] = "success" => \A step \in Checked : outcome[step] # "failure"

Meaning ==
    /\ \A step \in StepNames : outcome[step] # "cancelled"
    /\ ScansMean /\ ActiveMeans /\ VerdictMeans

GInv == TypeOK /\ Order /\ (Honest => Meaning)

\* A step that is due is the one the job is at.
LEMMA NowAt ==
    ASSUME TypeOK, Order, NEW step \in StepNames, Now(step)
    PROVE  /\ Running /\ at \in 1..12 /\ Steps[at] = step
           /\ Wanted(step)
           /\ \A k \in 1..12 : k >= at <=> outcome[Steps[k]] = "none"
<1>1. at \in 1..12
    BY StepFacts DEF Now, Running, Order
<1> QED BY <1>1 DEF Now, Due, Order

\* What the end of a step does, whichever step it is.
LEMMA EndStep ==
    ASSUME TypeOK, Order, NEW step \in StepNames, Running, Steps[at] = step,
           NEW result \in {"success", "failure", "skipped"}, End(step, result)
    PROVE  /\ Order'
           /\ outcome' \in [StepNames -> {"none", "success", "failure", "skipped", "cancelled"}]
           /\ outcome'[step] = result
           /\ \A other \in StepNames : other # step => outcome'[other] = outcome[other]
           /\ broken' \in BOOLEAN /\ UNCHANGED <<inputs, cancelled>>
           /\ Honest' => Honest /\ (result # "failure" \/ step \in ContinueOnError)
<1>1. /\ outcome' = [outcome EXCEPT ![Steps[at]] = result]
      /\ at' = at + 1
      /\ broken' = (broken \/ (result = "failure" /\ step \notin ContinueOnError))
      /\ UNCHANGED <<inputs, cancelled>>
    BY DEF End
<1>2. /\ Order'
      /\ outcome' \in [StepNames -> {"none", "success", "failure", "skipped", "cancelled"}]
      /\ outcome'[Steps[at]] = result
      /\ \A other \in StepNames : other # Steps[at] => outcome'[other] = outcome[other]
    BY <1>1, EndInOrder
<1>3. broken' \in BOOLEAN
    BY <1>1
<1>4. Honest' => Honest /\ (result # "failure" \/ step \in ContinueOnError)
    BY <1>1 DEF Honest
<1> QED BY <1>1, <1>2, <1>3, <1>4

\* A step keeps the meaning of what it does not touch.
LEMMA ScansKept ==
    ASSUME ScansMean, UNCHANGED <<inputs, phases, meta>>,
           \A step \in SuiteSteps : outcome'[step] = outcome[step]
    PROVE  ScansMean'
BY DEF ScansMean, SuiteSteps, RanIn

LEMMA ActiveKept ==
    ASSUME ActiveMeans, UNCHANGED <<inputs, artifacts>>,
           \A step \in {"active_scan", "active_required"} : outcome'[step] = outcome[step]
    PROVE  ActiveMeans'
BY DEF ActiveMeans

VerdictSteps == {"normalize", "threat_model_update", "severity_gate", "enforce"}

LEMMA VerdictKept ==
    ASSUME VerdictMeans, UNCHANGED <<reports, findings, register>>,
           outcome["enforce"] = "none",
           \A step \in VerdictSteps : outcome'[step] = outcome[step]
    PROVE  VerdictMeans'
BY DEF VerdictMeans, VerdictSteps, Breached, Observed

\* Nothing has been concluded yet.
LEMMA VerdictOpen ==
    ASSUME \A step \in VerdictSteps : outcome'[step] = "none"
    PROVE  VerdictMeans'
BY DEF VerdictMeans, VerdictSteps

-----------------------------------------------------------------------------
(* Every action keeps the invariant *)

\* The part of the type invariant that End does not see to.
DataOK ==
    /\ phases \in SUBSET Phases
    /\ meta \in [Scanners -> {"none", "ran", "error", "skipped"}]
    /\ reports \in SUBSET Sources
    /\ artifacts \in 0..Artifacts
    /\ prepared \in BOOLEAN
    /\ findings \in SUBSET Sources /\ register \in SUBSET Sources
    /\ worked \in SUBSET Scanners

\* What is left to show of an action that ends a step.
LEMMA StepKeeps ==
    ASSUME GInv, NEW step \in StepNames, Running, Steps[at] = step,
           NEW result \in {"success", "failure", "skipped"}, End(step, result),
           DataOK',
           Honest' /\ Meaning => ScansMean' /\ ActiveMeans' /\ VerdictMeans'
    PROVE  GInv'
<1>1. TypeOK /\ Order
    BY DEF GInv
<1>2. /\ Order'
      /\ outcome' \in [StepNames -> {"none", "success", "failure", "skipped", "cancelled"}]
      /\ outcome'[step] = result
      /\ \A other \in StepNames : other # step => outcome'[other] = outcome[other]
      /\ broken' \in BOOLEAN /\ UNCHANGED <<inputs, cancelled>>
      /\ Honest' => Honest
    BY <1>1, EndStep
<1>3. TypeOK'
    BY <1>1, <1>2, StepFacts DEF TypeOK, DataOK, Order
<1>4. ASSUME Honest'
      PROVE  Meaning'
    <2>1. Meaning
        BY <1>2, <1>4 DEF GInv
    <2>2. \A other \in StepNames : outcome'[other] # "cancelled"
        BY <1>2, <2>1 DEF Meaning
    <2> QED BY <1>4, <2>1, <2>2 DEF Meaning
<1> QED BY <1>2, <1>3, <1>4 DEF GInv

\* Before the normalisation nothing has been concluded, and a step keeps it so.
LEMMA StaysOpen ==
    ASSUME TypeOK, Order, NEW step \in StepNames \ VerdictSteps, Now(step),
           at <= 7,
           \A other \in StepNames : other # step => outcome'[other] = outcome[other]
    PROVE  VerdictMeans'
<1>1. \A k \in 1..12 : k >= at <=> outcome[Steps[k]] = "none"
    BY NowAt
<1>2. at \in 1..12
    BY NowAt
<1>3. \A other \in VerdictSteps : other \in StepNames /\ outcome[other] = "none"
    BY <1>1, <1>2, StepFacts DEF VerdictSteps, StepNames
<1>4. \A other \in VerdictSteps : outcome'[other] = "none"
    BY <1>3
<1> QED BY <1>4, VerdictOpen

LEMMA SetUpKeeps == GInv /\ SetUp => GInv'
<1> SUFFICES ASSUME GInv, SetUp
             PROVE  GInv'
    OBVIOUS
<1>1. "setup" \in StepNames \ VerdictSteps /\ Now("setup") /\ UNCHANGED data
    BY DEF StepNames, VerdictSteps, SetUp
<1>2. PICK result \in {"success", "failure"} : End("setup", result)
    BY DEF SetUp
<1>3. TypeOK /\ Order /\ DataOK /\ DataOK'
    BY <1>1 DEF GInv, TypeOK, DataOK, data
<1>4. /\ \A other \in StepNames : other # "setup" => outcome'[other] = outcome[other]
      /\ UNCHANGED inputs
    BY <1>1, <1>2, <1>3, NowAt, EndStep
<1>5. at <= 7
    BY <1>1, <1>3, NowAt, StepFacts, StepsDiffer
<1>6. ASSUME Meaning
      PROVE  ScansMean' /\ ActiveMeans' /\ VerdictMeans'
    <2>1. ScansMean'
        BY <1>1, <1>4, <1>6, ScansKept DEF Meaning, data, SuiteSteps, StepNames
    <2>2. ActiveMeans'
        BY <1>1, <1>4, <1>6, ActiveKept DEF Meaning, data, StepNames
    <2>3. VerdictMeans'
        BY <1>1, <1>3, <1>4, <1>5, StaysOpen
    <2> QED BY <2>1, <2>2, <2>3
<1> QED BY <1>1, <1>2, <1>3, <1>6, NowAt, StepKeeps

LEMMA PrepareKeeps == GInv /\ Prepare => GInv'
<1> SUFFICES ASSUME GInv, Prepare
             PROVE  GInv'
    OBVIOUS
<1>1. /\ "prepare" \in StepNames \ VerdictSteps /\ Now("prepare") /\ prepared' \in BOOLEAN
      /\ UNCHANGED <<phases, meta, reports, artifacts, findings, register, worked>>
    BY DEF StepNames, VerdictSteps, Prepare
<1>2. PICK result \in {"success", "failure"} : End("prepare", result)
    BY DEF Prepare
<1>3. TypeOK /\ Order /\ DataOK'
    BY <1>1 DEF GInv, TypeOK, DataOK
<1>4. /\ \A other \in StepNames : other # "prepare" => outcome'[other] = outcome[other]
      /\ UNCHANGED inputs
    BY <1>1, <1>2, <1>3, NowAt, EndStep
<1>5. at <= 7
    BY <1>1, <1>3, NowAt, StepFacts, StepsDiffer
<1>6. ASSUME Meaning
      PROVE  ScansMean' /\ ActiveMeans' /\ VerdictMeans'
    <2>1. ScansMean'
        BY <1>1, <1>4, <1>6, ScansKept DEF Meaning, SuiteSteps, StepNames
    <2>2. ActiveMeans'
        BY <1>1, <1>4, <1>6, ActiveKept DEF Meaning, StepNames
    <2>3. VerdictMeans'
        BY <1>1, <1>3, <1>4, <1>5, StaysOpen
    <2> QED BY <2>1, <2>2, <2>3
<1> QED BY <1>1, <1>2, <1>3, <1>6, NowAt, StepKeeps

\* The first half of the source scan, whether or not it ends the step.
LEMMA ShiftLeftKeeps == GInv /\ ShiftLeft => GInv'
<1> SUFFICES ASSUME GInv, ShiftLeft
             PROVE  GInv'
    OBVIOUS
<1>1. /\ "source_scan" \in StepNames \ VerdictSteps /\ Now("source_scan")
      /\ "shift-left" \in Phases /\ "shift-left" \notin phases
    BY DEF StepNames, VerdictSteps, Phases, ShiftLeft
<1>2. PICK results \in [Selected("shift-left") -> Results] :
          /\ Suite("shift-left", results)
          /\ IF SuiteFails("shift-left", Records(results))
             THEN End("source_scan", "failure")
             ELSE UNCHANGED <<inputs, at, outcome, broken, cancelled>>
    BY DEF ShiftLeft
<1>3. TypeOK /\ Order
    BY DEF GInv
<1>4. /\ phases' \in SUBSET Phases /\ reports' \in SUBSET Sources
      /\ worked' \in SUBSET Scanners
      /\ meta' \in [Scanners -> {"none", "ran", "error", "skipped"}]
      /\ \A q \in Phases : q # "shift-left" /\ RanIn(q) => RanIn(q)'
      /\ ~SuiteFails("shift-left", Records(results)) =>
            /\ RanIn("shift-left")'
            /\ \A s \in Scanners : meta'[s] = "error" => meta[s] = "error"
      /\ UNCHANGED <<artifacts, prepared, findings, register>>
    BY <1>1, <1>2, <1>3, SuiteRecords DEF Suite
<1>5. DataOK'
    BY <1>3, <1>4 DEF TypeOK, DataOK
<1>6. at <= 7 /\ outcome["source_scan"] = "none"
    BY <1>1, <1>3, NowAt, StepFacts, StepsDiffer
<1>7. CASE SuiteFails("shift-left", Records(results))
    <2>1. End("source_scan", "failure")
        BY <1>2, <1>7
    <2>2. /\ \A other \in StepNames : other # "source_scan" => outcome'[other] = outcome[other]
          /\ outcome'["source_scan"] = "failure"
          /\ UNCHANGED inputs
        BY <1>1, <1>3, <2>1, NowAt, EndStep
    <2>3. ASSUME Meaning
          PROVE  ScansMean' /\ ActiveMeans' /\ VerdictMeans'
        <3>1. ScansMean'
            BY <1>4, <2>2, <2>3 DEF Meaning, ScansMean, SuiteSteps, StepNames, Phases
        <3>2. ActiveMeans'
            BY <1>4, <2>2, <2>3, ActiveKept DEF Meaning, StepNames
        <3>3. VerdictMeans'
            BY <1>1, <1>3, <1>6, <2>2, StaysOpen
        <3> QED BY <3>1, <3>2, <3>3
    <2> QED BY <1>1, <1>3, <1>5, <2>1, <2>3, NowAt, StepKeeps
<1>8. CASE ~SuiteFails("shift-left", Records(results))
    <2>1. UNCHANGED <<inputs, at, outcome, broken, cancelled>>
        BY <1>2, <1>8
    <2>2. TypeOK' /\ Order'
        BY <1>3, <1>5, <2>1 DEF TypeOK, DataOK, Order
    <2>3. ASSUME Honest'
          PROVE  Meaning'
        <3>1. Meaning
            BY <2>1, <2>3 DEF GInv, Honest
        <3>2. ScansMean'
            BY <1>4, <1>6, <1>8, <2>1, <3>1 DEF Meaning, ScansMean, Phases
        <3>3. ActiveMeans'
            BY <1>4, <2>1, <3>1 DEF Meaning, ActiveMeans
        <3>4. VerdictMeans'
            <4>1. \A k \in 1..12 : k >= at <=> outcome[Steps[k]] = "none"
                BY <1>1, <1>3, NowAt
            <4>2. \A step \in VerdictSteps : outcome[step] = "none"
                BY <1>6, <4>1, <1>3, StepFacts DEF VerdictSteps, Order
            <4> QED BY <2>1, <4>2, VerdictOpen
        <3> QED BY <2>1, <3>1, <3>2, <3>3, <3>4 DEF Meaning
    <2> QED BY <2>2, <2>3 DEF GInv
<1> QED BY <1>7, <1>8

\* The second half of the source scan.
LEMMA SbomKeeps == GInv /\ Sbom => GInv'
<1> SUFFICES ASSUME GInv, Sbom
             PROVE  GInv'
    OBVIOUS
<1>1. /\ "source_scan" \in StepNames \ VerdictSteps /\ Now("source_scan")
      /\ "sbom" \in Phases /\ "shift-left" \in phases
    BY DEF StepNames, VerdictSteps, Phases, Sbom, Scan
<1>2. PICK results \in [Selected("sbom") -> Results] :
          /\ Suite("sbom", results)
          /\ End("source_scan", IF SuiteFails("sbom", Records(results))
                 THEN "failure" ELSE "success")
    BY DEF Sbom, Scan
<1> DEFINE result == IF SuiteFails("sbom", Records(results)) THEN "failure" ELSE "success"
<1>3. TypeOK /\ Order /\ result \in {"success", "failure"} /\ End("source_scan", result)
    BY <1>2 DEF GInv
<1>4. /\ phases' \in SUBSET Phases /\ reports' \in SUBSET Sources
      /\ worked' \in SUBSET Scanners
      /\ meta' \in [Scanners -> {"none", "ran", "error", "skipped"}]
      /\ \A q \in Phases : q # "sbom" /\ RanIn(q) => RanIn(q)'
      /\ result = "success" =>
            /\ RanIn("sbom")'
            /\ \A s \in Scanners : meta'[s] = "error" => meta[s] = "error"
      /\ phases' = phases \cup {"sbom"}
      /\ UNCHANGED <<artifacts, prepared, findings, register>>
    BY <1>1, <1>2, <1>3, SuiteRecords DEF Suite
<1> HIDE DEF result
<1>5. DataOK'
    BY <1>3, <1>4 DEF TypeOK, DataOK
<1>6. at <= 7 /\ outcome["source_scan"] = "none"
    BY <1>1, <1>3, NowAt, StepFacts, StepsDiffer
<1>7. /\ \A other \in StepNames : other # "source_scan" => outcome'[other] = outcome[other]
      /\ outcome'["source_scan"] = result
      /\ UNCHANGED inputs
    BY <1>1, <1>3, NowAt, EndStep
<1>8. ASSUME Meaning
      PROVE  ScansMean' /\ ActiveMeans' /\ VerdictMeans'
    <2>1. ScansMean'
        BY <1>1, <1>3, <1>4, <1>6, <1>7, <1>8
           DEF Meaning, ScansMean, SuiteSteps, StepNames, Phases
    <2>2. ActiveMeans'
        BY <1>4, <1>7, <1>8, ActiveKept DEF Meaning, StepNames
    <2>3. VerdictMeans'
        BY <1>1, <1>3, <1>6, <1>7, StaysOpen
    <2> QED BY <2>1, <2>2, <2>3
<1> QED BY <1>1, <1>3, <1>5, <1>8, NowAt, StepKeeps

LEMMA ApiScanKeeps == GInv /\ ApiScan => GInv'
<1> SUFFICES ASSUME GInv, ApiScan
             PROVE  GInv'
    OBVIOUS
<1>1. /\ "api_scan" \in StepNames \ VerdictSteps /\ Now("api_scan")
      /\ "api" \in Phases
    BY DEF StepNames, VerdictSteps, Phases, ApiScan, Scan
<1>2. PICK results \in [Selected("api") -> Results] :
          /\ Suite("api", results)
          /\ End("api_scan", IF SuiteFails("api", Records(results))
                 THEN "failure" ELSE "success")
    BY DEF ApiScan, Scan
<1> DEFINE result == IF SuiteFails("api", Records(results)) THEN "failure" ELSE "success"
<1>3. TypeOK /\ Order /\ result \in {"success", "failure"} /\ End("api_scan", result)
    BY <1>2 DEF GInv
<1>4. /\ phases' \in SUBSET Phases /\ reports' \in SUBSET Sources
      /\ worked' \in SUBSET Scanners
      /\ meta' \in [Scanners -> {"none", "ran", "error", "skipped"}]
      /\ \A q \in Phases : q # "api" /\ RanIn(q) => RanIn(q)'
      /\ result = "success" =>
            /\ RanIn("api")'
            /\ \A s \in Scanners : meta'[s] = "error" => meta[s] = "error"
      /\ phases' = phases \cup {"api"}
      /\ UNCHANGED <<artifacts, prepared, findings, register>>
    BY <1>1, <1>2, <1>3, SuiteRecords DEF Suite
<1> HIDE DEF result
<1>5. DataOK'
    BY <1>3, <1>4 DEF TypeOK, DataOK
<1>6. at <= 7 /\ outcome["api_scan"] = "none"
    BY <1>1, <1>3, NowAt, StepFacts, StepsDiffer
<1>7. /\ \A other \in StepNames : other # "api_scan" => outcome'[other] = outcome[other]
      /\ outcome'["api_scan"] = result
      /\ UNCHANGED inputs
    BY <1>1, <1>3, NowAt, EndStep
<1>8. ASSUME Meaning
      PROVE  ScansMean' /\ ActiveMeans' /\ VerdictMeans'
    <2>1. ScansMean'
        BY <1>1, <1>3, <1>4, <1>6, <1>7, <1>8
           DEF Meaning, ScansMean, SuiteSteps, StepNames, Phases
    <2>2. ActiveMeans'
        BY <1>4, <1>7, <1>8, ActiveKept DEF Meaning, StepNames
    <2>3. VerdictMeans'
        BY <1>1, <1>3, <1>6, <1>7, StaysOpen
    <2> QED BY <2>1, <2>2, <2>3
<1> QED BY <1>1, <1>3, <1>5, <1>8, NowAt, StepKeeps

LEMMA ThreagileScanKeeps == GInv /\ ThreagileScan => GInv'
<1> SUFFICES ASSUME GInv, ThreagileScan
             PROVE  GInv'
    OBVIOUS
<1>1. /\ "threagile_scan" \in StepNames \ VerdictSteps /\ Now("threagile_scan")
      /\ "threatmodel" \in Phases
    BY DEF StepNames, VerdictSteps, Phases, ThreagileScan, Scan
<1>2. PICK results \in [Selected("threatmodel") -> Results] :
          /\ Suite("threatmodel", results)
          /\ End("threagile_scan", IF SuiteFails("threatmodel", Records(results))
                 THEN "failure" ELSE "success")
    BY DEF ThreagileScan, Scan
<1> DEFINE result == IF SuiteFails("threatmodel", Records(results)) THEN "failure" ELSE "success"
<1>3. TypeOK /\ Order /\ result \in {"success", "failure"} /\ End("threagile_scan", result)
    BY <1>2 DEF GInv
<1>4. /\ phases' \in SUBSET Phases /\ reports' \in SUBSET Sources
      /\ worked' \in SUBSET Scanners
      /\ meta' \in [Scanners -> {"none", "ran", "error", "skipped"}]
      /\ \A q \in Phases : q # "threatmodel" /\ RanIn(q) => RanIn(q)'
      /\ result = "success" =>
            /\ RanIn("threatmodel")'
            /\ \A s \in Scanners : meta'[s] = "error" => meta[s] = "error"
      /\ phases' = phases \cup {"threatmodel"}
      /\ UNCHANGED <<artifacts, prepared, findings, register>>
    BY <1>1, <1>2, <1>3, SuiteRecords DEF Suite
<1> HIDE DEF result
<1>5. DataOK'
    BY <1>3, <1>4 DEF TypeOK, DataOK
<1>6. at <= 7 /\ outcome["threagile_scan"] = "none"
    BY <1>1, <1>3, NowAt, StepFacts, StepsDiffer
<1>7. /\ \A other \in StepNames : other # "threagile_scan" => outcome'[other] = outcome[other]
      /\ outcome'["threagile_scan"] = result
      /\ UNCHANGED inputs
    BY <1>1, <1>3, NowAt, EndStep
<1>8. ASSUME Meaning
      PROVE  ScansMean' /\ ActiveMeans' /\ VerdictMeans'
    <2>1. ScansMean'
        BY <1>1, <1>3, <1>4, <1>6, <1>7, <1>8
           DEF Meaning, ScansMean, SuiteSteps, StepNames, Phases
    <2>2. ActiveMeans'
        BY <1>4, <1>7, <1>8, ActiveKept DEF Meaning, StepNames
    <2>3. VerdictMeans'
        BY <1>1, <1>3, <1>6, <1>7, StaysOpen
    <2> QED BY <2>1, <2>2, <2>3
<1> QED BY <1>1, <1>3, <1>5, <1>8, NowAt, StepKeeps

LEMMA ActiveScanKeeps == GInv /\ ActiveScan => GInv'
<1> SUFFICES ASSUME GInv, ActiveScan
             PROVE  GInv'
    OBVIOUS
<1> DEFINE result == IF artifacts' < MinArtifacts THEN "failure" ELSE "success"
<1>1. /\ "active_scan" \in StepNames \ VerdictSteps /\ Now("active_scan")
      /\ End("active_scan", result) /\ result \in {"success", "failure"}
      /\ UNCHANGED <<phases, meta, prepared, findings, register, worked>>
    BY DEF StepNames, VerdictSteps, ActiveScan
<1>2. artifacts' \in 0..Artifacts
    BY GateAssumption DEF ActiveScan
<1>3. TypeOK /\ Order /\ reports' \in {reports, reports \cup {"blackbox"}}
    BY DEF GInv, ActiveScan
<1>4. DataOK'
    BY <1>1, <1>2, <1>3 DEF TypeOK, DataOK, Sources
<1>5. result = "success" => artifacts' >= MinArtifacts
    BY <1>2, GateAssumption
<1> HIDE DEF result
<1>6. /\ \A other \in StepNames : other # "active_scan" => outcome'[other] = outcome[other]
      /\ outcome'["active_scan"] = result
      /\ UNCHANGED inputs
    BY <1>1, <1>3, NowAt, EndStep
<1>7. at <= 7
    BY <1>1, <1>3, NowAt, StepFacts, StepsDiffer
<1>8. ASSUME Meaning
      PROVE  ScansMean' /\ ActiveMeans' /\ VerdictMeans'
    <2>1. ScansMean'
        BY <1>1, <1>6, <1>8, ScansKept DEF Meaning, SuiteSteps, StepNames
    <2>2. ActiveMeans'
        BY <1>1, <1>5, <1>6, <1>8 DEF Meaning, ActiveMeans, StepNames
    <2>3. VerdictMeans'
        BY <1>1, <1>3, <1>6, <1>7, StaysOpen
    <2> QED BY <2>1, <2>2, <2>3
<1> QED BY <1>1, <1>3, <1>4, <1>8, NowAt, StepKeeps

LEMMA ActiveRequiredKeeps == GInv /\ ActiveRequired => GInv'
<1> SUFFICES ASSUME GInv, ActiveRequired
             PROVE  GInv'
    OBVIOUS
<1>1. /\ "active_required" \in StepNames \ VerdictSteps /\ Now("active_required")
      /\ End("active_required", "failure") /\ UNCHANGED data
    BY DEF StepNames, VerdictSteps, ActiveRequired
<1>2. TypeOK /\ Order /\ DataOK'
    BY <1>1 DEF GInv, TypeOK, DataOK, data
<1>3. /\ \A other \in StepNames : other # "active_required" => outcome'[other] = outcome[other]
      /\ outcome'["active_required"] = "failure"
      /\ UNCHANGED inputs
    BY <1>1, <1>2, NowAt, EndStep
<1>4. at <= 7
    BY <1>1, <1>2, NowAt, StepFacts, StepsDiffer
<1>5. ASSUME Meaning
      PROVE  ScansMean' /\ ActiveMeans' /\ VerdictMeans'
    <2>1. ScansMean'
        BY <1>1, <1>3, <1>5, ScansKept DEF Meaning, data, SuiteSteps, StepNames
    <2>2. ActiveMeans'
        BY <1>1, <1>3, <1>5 DEF Meaning, ActiveMeans, data, StepNames
    <2>3. VerdictMeans'
        BY <1>1, <1>2, <1>3, <1>4, StaysOpen
    <2> QED BY <2>1, <2>2, <2>3
<1> QED BY <1>1, <1>2, <1>5, NowAt, StepKeeps

LEMMA NormalizeKeeps == GInv /\ Normalize => GInv'
<1> SUFFICES ASSUME GInv, Normalize
             PROVE  GInv'
    OBVIOUS
<1>1. /\ "normalize" \in StepNames /\ Now("normalize")
      /\ UNCHANGED <<phases, meta, reports, artifacts, prepared, register, worked>>
      /\ findings' \in {findings, reports}
    BY DEF StepNames, Normalize
<1>2. PICK result \in {"success", "failure"} :
          End("normalize", result) /\ (result = "success" => findings' = reports)
    BY DEF Normalize
<1>3. TypeOK /\ Order /\ DataOK'
    BY <1>1 DEF GInv, TypeOK, DataOK
<1>4. /\ \A other \in StepNames : other # "normalize" => outcome'[other] = outcome[other]
      /\ outcome'["normalize"] = result
      /\ UNCHANGED inputs
    BY <1>1, <1>2, <1>3, NowAt, EndStep
<1>5. /\ outcome["threat_model_update"] = "none" /\ outcome["severity_gate"] = "none"
      /\ outcome["enforce"] = "none"
    BY <1>1, <1>3, NowAt, StepFacts, StepsDiffer
<1>6. ASSUME Meaning
      PROVE  ScansMean' /\ ActiveMeans' /\ VerdictMeans'
    <2>1. ScansMean'
        BY <1>1, <1>4, <1>6, ScansKept DEF Meaning, SuiteSteps, StepNames
    <2>2. ActiveMeans'
        BY <1>1, <1>4, <1>6, ActiveKept DEF Meaning, StepNames
    <2>3. VerdictMeans'
        BY <1>1, <1>2, <1>4, <1>5 DEF VerdictMeans, StepNames
    <2> QED BY <2>1, <2>2, <2>3
<1> QED BY <1>1, <1>2, <1>3, <1>6, NowAt, StepKeeps

LEMMA UpdateModelKeeps == GInv /\ UpdateModel => GInv'
<1> SUFFICES ASSUME GInv, UpdateModel
             PROVE  GInv'
    OBVIOUS
<1>1. /\ "threat_model_update" \in StepNames /\ Now("threat_model_update")
      /\ UNCHANGED <<phases, meta, reports, artifacts, prepared, findings, worked>>
      /\ register' \in {register, findings}
    BY DEF StepNames, UpdateModel
<1>2. PICK result \in {"success", "failure"} :
          End("threat_model_update", result) /\ (result = "success" => register' = findings)
    BY DEF UpdateModel
<1>3. TypeOK /\ Order /\ DataOK'
    BY <1>1 DEF GInv, TypeOK, DataOK
<1>4. /\ \A other \in StepNames :
             other # "threat_model_update" => outcome'[other] = outcome[other]
      /\ outcome'["threat_model_update"] = result
      /\ UNCHANGED inputs
    BY <1>1, <1>2, <1>3, NowAt, EndStep
<1>5. outcome["severity_gate"] = "none" /\ outcome["enforce"] = "none"
    BY <1>1, <1>3, NowAt, StepFacts, StepsDiffer
<1>6. ASSUME Meaning
      PROVE  ScansMean' /\ ActiveMeans' /\ VerdictMeans'
    <2>1. ScansMean'
        BY <1>1, <1>4, <1>6, ScansKept DEF Meaning, SuiteSteps, StepNames
    <2>2. ActiveMeans'
        BY <1>1, <1>4, <1>6, ActiveKept DEF Meaning, StepNames
    <2>3. VerdictMeans'
        BY <1>1, <1>2, <1>4, <1>5, <1>6 DEF Meaning, VerdictMeans, StepNames
    <2> QED BY <2>1, <2>2, <2>3
<1> QED BY <1>1, <1>2, <1>3, <1>6, NowAt, StepKeeps

LEMMA SeverityGateKeeps == GInv /\ SeverityGate => GInv'
<1> SUFFICES ASSUME GInv, SeverityGate
             PROVE  GInv'
    OBVIOUS
<1>1. "severity_gate" \in StepNames /\ Now("severity_gate") /\ UNCHANGED data
    BY DEF StepNames, SeverityGate
<1>2. PICK result \in {"success", "failure"} :
          End("severity_gate", result) /\ (result = "success" => ~Breached)
    BY DEF SeverityGate
<1>3. TypeOK /\ Order /\ DataOK'
    BY <1>1 DEF GInv, TypeOK, DataOK, data
<1>4. /\ \A other \in StepNames : other # "severity_gate" => outcome'[other] = outcome[other]
      /\ outcome'["severity_gate"] = result
      /\ UNCHANGED inputs
    BY <1>1, <1>2, <1>3, NowAt, EndStep
<1>5. outcome["enforce"] = "none"
    BY <1>1, <1>3, NowAt, StepFacts, StepsDiffer
<1>6. Breached' = Breached
    BY <1>1 DEF data, Breached, Observed
<1>7. ASSUME Meaning
      PROVE  ScansMean' /\ ActiveMeans' /\ VerdictMeans'
    <2>1. ScansMean'
        BY <1>1, <1>4, <1>7, ScansKept DEF Meaning, data, SuiteSteps, StepNames
    <2>2. ActiveMeans'
        BY <1>1, <1>4, <1>7, ActiveKept DEF Meaning, data, StepNames
    <2>3. VerdictMeans'
        BY <1>1, <1>2, <1>4, <1>5, <1>6, <1>7 DEF Meaning, VerdictMeans, data, StepNames
    <2> QED BY <2>1, <2>2, <2>3
<1> QED BY <1>1, <1>2, <1>3, <1>7, NowAt, StepKeeps

LEMMA UploadKeeps == GInv /\ Upload => GInv'
<1> SUFFICES ASSUME GInv, Upload
             PROVE  GInv'
    OBVIOUS
<1>1. "upload" \in StepNames /\ Now("upload") /\ UNCHANGED data
    BY DEF StepNames, Upload
<1>2. PICK result \in {"success", "failure"} : End("upload", result)
    BY DEF Upload
<1>3. TypeOK /\ Order /\ DataOK'
    BY <1>1 DEF GInv, TypeOK, DataOK, data
<1>4. /\ \A other \in StepNames : other # "upload" => outcome'[other] = outcome[other]
      /\ UNCHANGED inputs
    BY <1>1, <1>2, <1>3, NowAt, EndStep
<1>5. outcome["enforce"] = "none"
    BY <1>1, <1>3, NowAt, StepFacts, StepsDiffer
<1>6. ASSUME Meaning
      PROVE  ScansMean' /\ ActiveMeans' /\ VerdictMeans'
    <2>1. ScansMean'
        BY <1>1, <1>4, <1>6, ScansKept DEF Meaning, data, SuiteSteps, StepNames
    <2>2. ActiveMeans'
        BY <1>1, <1>4, <1>6, ActiveKept DEF Meaning, data, StepNames
    <2>3. VerdictMeans'
        BY <1>1, <1>4, <1>5, <1>6, VerdictKept DEF Meaning, data, VerdictSteps, StepNames
    <2> QED BY <2>1, <2>2, <2>3
<1> QED BY <1>1, <1>2, <1>3, <1>6, NowAt, StepKeeps

LEMMA EnforceKeeps == GInv /\ Enforce => GInv'
<1> SUFFICES ASSUME GInv, Enforce
             PROVE  GInv'
    OBVIOUS
<1>1. /\ "enforce" \in StepNames /\ "enforce" \notin ContinueOnError /\ Now("enforce")
      /\ UNCHANGED data
    BY DEF StepNames, ContinueOnError, Enforce
<1>2. PICK result \in {"success", "failure"} :
          /\ End("enforce", result)
          /\ result = "success" => \A step \in Checked : outcome[step] # "failure"
    BY DEF Enforce
<1>3. TypeOK /\ Order /\ DataOK'
    BY <1>1 DEF GInv, TypeOK, DataOK, data
<1>4. /\ \A other \in StepNames : other # "enforce" => outcome'[other] = outcome[other]
      /\ outcome'["enforce"] = result
      /\ UNCHANGED inputs
      /\ Honest' => result # "failure"
    BY <1>1, <1>2, <1>3, NowAt, EndStep
<1>5. Breached' = Breached
    BY <1>1 DEF data, Breached, Observed
<1>6. ASSUME Honest', Meaning
      PROVE  ScansMean' /\ ActiveMeans' /\ VerdictMeans'
    <2>1. ScansMean'
        BY <1>1, <1>4, <1>6, ScansKept DEF Meaning, data, SuiteSteps, StepNames
    <2>2. ActiveMeans'
        BY <1>1, <1>4, <1>6, ActiveKept DEF Meaning, data, StepNames
    <2>3. \A step \in Checked : outcome'[step] = outcome[step]
        BY <1>4 DEF Checked, ContinueOnError, StepNames
    <2>4. VerdictMeans'
        BY <1>1, <1>2, <1>4, <1>5, <1>6, <2>3 DEF Meaning, VerdictMeans, data, StepNames
    <2> QED BY <2>1, <2>2, <2>4
<1> QED BY <1>1, <1>2, <1>3, <1>6, NowAt, StepKeeps

\* While nothing has stopped the job, a step is skipped for its own condition only.
LEMMA SkipKeeps == GInv /\ Skip => GInv'
<1> SUFFICES ASSUME GInv, Skip
             PROVE  GInv'
    OBVIOUS
<1> DEFINE step == Steps[at]
<1>1. /\ Running /\ ~Due(step) /\ End(step, "skipped") /\ UNCHANGED data
      /\ TypeOK /\ Order /\ DataOK'
    BY DEF Skip, GInv, TypeOK, DataOK, data
<1>2. step \in StepNames /\ at \in 1..12
    BY <1>1, StepFacts DEF Running, Order
<1>3. \A k \in 1..12 : k >= at => outcome[Steps[k]] = "none"
    BY <1>1, <1>2 DEF Order
<1> HIDE DEF step
<1>4. step = Steps[at]
    BY DEF step
<1>5. /\ \A other \in StepNames : other # step => outcome'[other] = outcome[other]
      /\ outcome'[step] = "skipped"
      /\ UNCHANGED inputs
      /\ Honest' => Honest
    BY <1>1, <1>2, <1>4, EndStep
<1>6. outcome["enforce"] = "none"
    BY <1>2, <1>3, StepFacts
<1>7. Breached' = Breached
    BY <1>1 DEF data, Breached, Observed
<1>8. outcome[step] = "none"
    BY <1>2, <1>3, <1>4
<1>9. ASSUME Honest', Meaning
      PROVE  ScansMean' /\ ActiveMeans' /\ VerdictMeans'
    <2>1. ~Wanted(step)
        BY <1>1, <1>5, <1>9 DEF Due, Honest
    <2>2. \/ step = "active_scan" /\ ~inputs.target
          \/ step = "active_required" /\ ~(inputs.requireActive /\ ~inputs.target)
          \/ step = "api_scan" /\ ~inputs.openapi
          \/ step = "threagile_scan" /\ ~inputs.threagile
          \/ /\ step \in {"threat_model_update", "severity_gate"}
             /\ outcome["normalize"] # "success"
        BY <2>1 DEF Wanted
    <2>3. ScansMean'
        <3>1. UNCHANGED <<inputs, phases, meta>> /\ ScansMean /\ SuiteSteps \subseteq StepNames
            BY <1>1, <1>5, <1>9 DEF Meaning, data, SuiteSteps, StepNames
        <3>2. \A other \in SuiteSteps : outcome'[other] = outcome[other] \/ other = step
            BY <1>5, <3>1
        <3>3. \A other \in SuiteSteps : outcome[other] = "failure" => outcome'[other] = "failure"
            BY <1>8, <3>2
        <3>4. step # "source_scan"
            BY <2>2
        <3> QED BY <1>5, <2>2, <3>1, <3>2, <3>3, <3>4 DEF ScansMean, RanIn, SuiteSteps
    <2>4. ActiveMeans'
        BY <1>1, <1>5, <1>9, <2>2 DEF Meaning, ActiveMeans, data, StepNames
    <2>5. VerdictMeans'
        BY <1>1, <1>5, <1>6, <1>7, <1>9, <2>2 DEF Meaning, VerdictMeans, data, StepNames
    <2> QED BY <2>3, <2>4, <2>5
<1> QED BY <1>1, <1>2, <1>4, <1>9, StepKeeps

LEMMA CancelKeeps == GInv /\ Cancel => GInv'
<1> SUFFICES ASSUME GInv, Cancel
             PROVE  GInv'
    OBVIOUS
<1>1. /\ Running /\ TypeOK /\ Order /\ UNCHANGED <<inputs, broken, data>>
      /\ cancelled' = TRUE /\ at' = at + 1
      /\ outcome' = [outcome EXCEPT ![Steps[at]] = "cancelled"]
    BY DEF GInv, Cancel
<1>2. /\ Order'
      /\ outcome' \in [StepNames -> {"none", "success", "failure", "skipped", "cancelled"}]
    BY <1>1, EndInOrder
<1>3. TypeOK'
    BY <1>1, <1>2, StepFacts DEF TypeOK, data, Order
<1> QED BY <1>1, <1>2, <1>3 DEF GInv, Honest

-----------------------------------------------------------------------------
(* Theorems *)

LEMMA InitGInv == Init => GInv
<1> SUFFICES ASSUME Init
             PROVE  GInv
    OBVIOUS
<1>1. TypeOK
    <2>1. Artifacts \in Nat /\ Len(Steps) = 12
        BY GateAssumption, StepFacts
    <2>2. at \in 1..(Len(Steps) + 1) /\ artifacts \in 0..Artifacts
        BY <2>1 DEF Init
    <2>3. /\ inputs \in [target : BOOLEAN, requireActive : BOOLEAN, openapi : BOOLEAN,
                          threagile : BOOLEAN, docker : BOOLEAN]
          /\ outcome \in [StepNames -> {"none", "success", "failure", "skipped", "cancelled"}]
          /\ meta \in [Scanners -> {"none", "ran", "error", "skipped"}]
        BY DEF Init
    <2> QED BY <2>2, <2>3 DEF Init, TypeOK
<1>2. Order
    BY StepFacts DEF Init, Order
<1>3. \A step \in StepNames : outcome[step] = "none"
    BY DEF Init
<1>4. ScansMean
    BY <1>3 DEF Init, ScansMean, StepNames
<1>5. ActiveMeans /\ VerdictMeans
    BY <1>3 DEF ActiveMeans, VerdictMeans, StepNames
<1> QED BY <1>1, <1>2, <1>3, <1>4, <1>5 DEF GInv, Meaning

LEMMA NextGInv == GInv /\ [Next]_vars => GInv'
<1> SUFFICES ASSUME GInv, [Next]_vars
             PROVE  GInv'
    OBVIOUS
<1>1. CASE UNCHANGED vars
    <2>1. UNCHANGED <<inputs, at, outcome, broken, cancelled, phases, meta, reports, artifacts,
                      prepared, findings, register, worked>>
        BY <1>1 DEF vars, data
    <2>2. TypeOK' /\ Order'
        BY <2>1 DEF GInv, TypeOK, Order
    <2>3. ASSUME Honest'
          PROVE  Meaning'
        <3>1. Meaning
            BY <2>1, <2>3 DEF GInv, Honest
        <3>2. ScansMean' /\ ActiveMeans'
            BY <2>1, <3>1, ScansKept, ActiveKept DEF Meaning
        <3>3. VerdictMeans'
            BY <2>1, <3>1 DEF Meaning, VerdictMeans, Breached, Observed
        <3> QED BY <2>1, <3>1, <3>2, <3>3 DEF Meaning
    <2> QED BY <2>2, <2>3 DEF GInv
<1>2. CASE Next
    BY <1>2, SetUpKeeps, PrepareKeeps, ShiftLeftKeeps, SbomKeeps, ActiveScanKeeps,
       ActiveRequiredKeeps, ApiScanKeeps, ThreagileScanKeeps, NormalizeKeeps,
       UpdateModelKeeps, SeverityGateKeeps, UploadKeeps, EnforceKeeps, SkipKeeps, CancelKeeps
       DEF Next, Step
<1> QED BY <1>1, <1>2

\* The inductive invariant: while nothing has stopped the job, each outcome means what
\* the last step takes it for, whichever steps failed or were skipped before.
THEOREM GateInvariant == Spec => []GInv
BY InitGInv, NextGInv, PTL DEF Spec

\* A job is always at one of its steps or over, whatever failed, and its files hold what
\* scanners can have written.
THEOREM GateTypeCorrect == Spec => []TypeOK
<1>1. GInv => TypeOK
    BY DEF GInv
<1> QED BY <1>1, GateInvariant, PTL

\* What every check found, once a job has passed: all steps have an outcome, none of them
\* failed, and each outcome has its meaning.
LEMMA PassedAll ==
    ASSUME GInv, Conclusion = "success"
    PROVE  /\ Meaning
           /\ \A step \in StepNames : outcome[step] \notin {"none", "failure"} \/ step \notin Checked
           /\ outcome["normalize"] = "success"
<1>1. ~Running /\ Honest
    BY DEF Conclusion, Honest
<1>2. at = 13 /\ Meaning
    BY <1>1, StepFacts DEF GInv, Running, Order
<1>3. \A k \in 1..12 : outcome[Steps[k]] # "none"
    BY <1>2 DEF GInv, Order
<1>4. \A step \in StepNames : outcome[step] # "none"
    BY <1>3, StepFacts DEF StepNames
<1>5. outcome["enforce"] = "success"
    BY <1>2, <1>4 DEF Meaning, VerdictMeans, StepNames
<1>6. \A step \in Checked : outcome[step] # "failure"
    BY <1>2, <1>5 DEF Meaning, VerdictMeans
<1>7. outcome["normalize"] = "success"
    BY <1>2, <1>4, <1>6
       DEF Meaning, VerdictMeans, Checked, ContinueOnError, StepNames, GInv, TypeOK
<1> QED BY <1>2, <1>4, <1>6, <1>7

\* A job passes only if all required scanners are on record as having run, no scanner as
\* having failed, and a black-box scan that was asked for left its evidence.
THEOREM PassingJobsHaveEvidence == Spec => []PassHasEvidence
<1>1. GInv => PassHasEvidence
    <2> SUFFICES ASSUME GInv, Conclusion = "success"
                 PROVE  /\ \A s \in RequiredNow : meta[s] = "ran"
                        /\ \A s \in Scanners : meta[s] # "error"
                        /\ inputs.requireActive => inputs.target
                        /\ inputs.target => artifacts >= MinArtifacts
        BY DEF PassHasEvidence
    <2>1. /\ ScansMean /\ ActiveMeans
          /\ \A step \in StepNames : outcome[step] # "cancelled"
          /\ \A step \in ContinueOnError : outcome[step] \notin {"none", "failure"}
        BY PassedAll DEF Meaning, Checked, ContinueOnError, StepNames
    <2>2. \A step \in ContinueOnError : outcome[step] \in {"success", "skipped"}
        BY <2>1 DEF ContinueOnError, StepNames, GInv, TypeOK
    <2>3. RanIn("shift-left") /\ RanIn("sbom")
        BY <2>1, <2>2 DEF ScansMean, ContinueOnError
    <2>4. (inputs.openapi => RanIn("api")) /\ (inputs.threagile => RanIn("threatmodel"))
        BY <2>1, <2>2 DEF ScansMean, ContinueOnError
    <2>5. \A s \in RequiredNow : meta[s] = "ran"
        BY <2>3, <2>4 DEF RequiredNow, RanIn
    <2>6. \A s \in Scanners : meta[s] # "error"
        BY <2>1 DEF ScansMean, SuiteSteps, ContinueOnError
    <2>7. inputs.requireActive => inputs.target
        BY <2>1, <2>2 DEF ActiveMeans, ContinueOnError
    <2>8. inputs.target => artifacts >= MinArtifacts
        BY <2>1, <2>2 DEF ActiveMeans, ContinueOnError
    <2> QED BY <2>5, <2>6, <2>7, <2>8
<1> QED BY <1>1, GateInvariant, PTL

\* A job passes only if all that any scanner wrote went into the findings and the
\* threat model: the normalisation comes after the last scan.
THEOREM PassingJobsSawEverything == Spec => []NothingUnseen
<1>1. GInv => NothingUnseen
    <2> SUFFICES ASSUME GInv, Conclusion = "success"
                 PROVE  reports \subseteq findings /\ findings \subseteq register
        BY DEF NothingUnseen
    <2>1. VerdictMeans /\ outcome["normalize"] = "success"
        BY PassedAll DEF Meaning
    <2>2. outcome["threat_model_update"] = "success"
        BY <2>1, PassedAll
           DEF VerdictMeans, Meaning, Checked, ContinueOnError, StepNames, GInv, TypeOK
    <2> QED BY <2>1, <2>2 DEF VerdictMeans
<1> QED BY <1>1, GateInvariant, PTL

\* A job passes only if the outputs of all scanners together stay within the limits.
THEOREM PassingJobsAreWithinLimits == Spec => []WithinLimits
<1>1. GInv => WithinLimits
    <2> SUFFICES ASSUME GInv, Conclusion = "success", NEW v \in Gated, Limit[v] >= 0
                 PROVE  Cardinality({s \in reports : Severity[s] = v}) <= Limit[v]
        BY DEF WithinLimits
    <2>1. VerdictMeans /\ outcome["normalize"] = "success"
        BY PassedAll DEF Meaning
    <2>2. outcome["severity_gate"] = "success"
        BY <2>1, PassedAll
           DEF VerdictMeans, Meaning, Checked, ContinueOnError, StepNames, GInv, TypeOK
    <2>3. findings = reports /\ ~(Observed(v) > Limit[v])
        BY <2>1, <2>2 DEF VerdictMeans, Breached
    <2>4. IsFiniteSet(reports)
        <3>1. IsFiniteSet(Sources)
            BY GateAssumption, FS_AddElement DEF Sources
        <3> QED BY <3>1, FS_Subset DEF GInv, TypeOK
    <2>5. IsFiniteSet({s \in reports : Severity[s] = v})
        BY <2>4, FS_Subset
    <2>6. Cardinality({s \in reports : Severity[s] = v}) \in Nat
        BY <2>5, FS_CardinalityType
    <2>7. Limit[v] \in Int
        BY GateAssumption
    <2>8. Observed(v) = Cardinality({s \in reports : Severity[s] = v})
        BY <2>3 DEF Observed
    <2> QED BY <2>3, <2>6, <2>7, <2>8
<1> QED BY <1>1, GateInvariant, PTL

-----------------------------------------------------------------------------
(* What the phases record *)

\* A scanner has a record of its own only from its phase, and a phase that is over is
\* not run again.
Recorded ==
    /\ \A s \in Scanners : meta[s] \in {"ran", "error"} => PhaseOf[s] \in phases
    /\ "sbom" \in phases => outcome["source_scan"] # "none"
    /\ "api" \in phases => outcome["api_scan"] # "none"
    /\ "threatmodel" \in phases => outcome["threagile_scan"] # "none"

Remembered == \A s \in Scanners : meta[s] \in {"ran", "error"} => meta'[s] = meta[s]

\* The first invocation of a phase.
LEMMA SuiteRemembers ==
    ASSUME TypeOK, Recorded, NEW p \in Phases, p \notin phases,
           NEW results \in [Selected(p) -> Results], Suite(p, results)
    PROVE  /\ Remembered
           /\ \A s \in Scanners : meta'[s] \in {"ran", "error"} => PhaseOf[s] \in phases'
           /\ phases' = phases \cup {p}
<1>1. \A s \in Scanners : PhaseOf[s] # p => Records(results)[s] = "skipped"
    BY DEF Records, Selected
<1>2. \A s \in Scanners : meta'[s] =
          IF PhaseOf[s] # p /\ meta[s] \in {"ran", "error"} THEN meta[s] ELSE Records(results)[s]
    BY DEF Suite, Merged
<1>3. \A s \in Scanners : meta[s] \in {"ran", "error"} => PhaseOf[s] \in phases
    BY DEF Recorded
<1>4. phases' = phases \cup {p}
    BY DEF Suite
<1>5. Remembered
    BY <1>2, <1>3 DEF Remembered
<1>6. \A s \in Scanners : meta'[s] \in {"ran", "error"} => PhaseOf[s] \in phases'
    BY <1>1, <1>2, <1>3, <1>4
<1> QED BY <1>4, <1>5, <1>6

\* Outcomes are not taken back.
Monotone == \A step \in StepNames : outcome[step] # "none" => outcome'[step] # "none"

\* A step that ends keeps the outcomes there are and gives itself one.
LEMMA EndIsMonotone ==
    ASSUME TypeOK, NEW step \in StepNames, NEW result \in {"success", "failure", "skipped"},
           End(step, result)
    PROVE  Monotone /\ outcome'[step] # "none"
BY DEF TypeOK, End, Monotone

\* A step that invokes the suite once.
LEMMA ScanRemembers ==
    ASSUME TypeOK, Order, Recorded,
           NEW step \in StepNames, NEW p \in Phases, Scan(step, p),
           p \in phases => outcome[step] # "none",
           <<step, p>> \in {<<"source_scan", "sbom">>, <<"api_scan", "api">>,
                            <<"threagile_scan", "threatmodel">>}
    PROVE  Remembered /\ Recorded'
<1>1. Now(step)
    BY DEF Scan
<1>2. PICK results \in [Selected(p) -> Results], result \in {"success", "failure"} :
          Suite(p, results) /\ End(step, result)
    BY DEF Scan
<1>3. \E k \in 1..12 : k >= at /\ Steps[k] = step
    BY <1>1, NowAt
<1>4. p \notin phases
    BY <1>1, <1>3, NowAt
<1>5. /\ Remembered /\ phases' = phases \cup {p}
      /\ \A s \in Scanners : meta'[s] \in {"ran", "error"} => PhaseOf[s] \in phases'
    BY <1>2, <1>4, SuiteRemembers
<1>6. Monotone /\ outcome'[step] # "none"
    BY <1>2, EndIsMonotone
<1> QED BY <1>5, <1>6 DEF Recorded, Monotone, StepNames

\* A step that leaves the records alone.
LEMMA OthersRemember ==
    ASSUME Recorded, UNCHANGED <<phases, meta>>, Monotone
    PROVE  Remembered /\ Recorded'
BY DEF Recorded, Remembered, Monotone, StepNames

LEMMA NextRemembers == GInv /\ Recorded /\ [Next]_vars => Remembered /\ Recorded'
<1> SUFFICES ASSUME GInv, Recorded, [Next]_vars
             PROVE  Remembered /\ Recorded'
    OBVIOUS
<1>1. TypeOK /\ Order
    BY DEF GInv
<1>2. CASE UNCHANGED vars
    BY <1>2 DEF vars, data, Recorded, Remembered
<1>3. CASE ShiftLeft
    <2>1. PICK results \in [Selected("shift-left") -> Results] :
              /\ Suite("shift-left", results)
              /\ \/ End("source_scan", "failure")
                 \/ UNCHANGED <<inputs, at, outcome, broken, cancelled>>
        BY <1>3 DEF ShiftLeft
    <2>2. /\ Remembered /\ phases' = phases \cup {"shift-left"}
          /\ \A s \in Scanners : meta'[s] \in {"ran", "error"} => PhaseOf[s] \in phases'
        BY <1>1, <1>3, <2>1, SuiteRemembers DEF ShiftLeft, Phases
    <2>3. Monotone
        BY <1>1, <2>1, EndIsMonotone DEF Monotone, StepNames
    <2> QED BY <2>2, <2>3 DEF Recorded, Monotone, StepNames
<1>4. CASE Sbom
    BY <1>1, <1>4, ScanRemembers DEF Sbom, Recorded, StepNames, Phases
<1>5. CASE ApiScan
    BY <1>1, <1>5, ScanRemembers DEF ApiScan, Recorded, StepNames, Phases
<1>6. CASE ThreagileScan
    BY <1>1, <1>6, ScanRemembers DEF ThreagileScan, Recorded, StepNames, Phases
<1>7. CASE SetUp \/ Prepare \/ ActiveScan \/ ActiveRequired
    <2>1. UNCHANGED <<phases, meta>>
        BY <1>7 DEF SetUp, Prepare, ActiveScan, ActiveRequired, data
    <2>2. PICK step \in StepNames, result \in {"success", "failure"} : End(step, result)
        BY <1>7 DEF SetUp, Prepare, ActiveScan, ActiveRequired, StepNames
    <2> QED BY <1>1, <2>1, <2>2, EndIsMonotone, OthersRemember
<1>8. CASE Normalize \/ UpdateModel \/ SeverityGate \/ Upload \/ Enforce
    <2>1. UNCHANGED <<phases, meta>>
        BY <1>8 DEF Normalize, UpdateModel, SeverityGate, Upload, Enforce, data
    <2>2. PICK step \in StepNames, result \in {"success", "failure"} : End(step, result)
        BY <1>8 DEF Normalize, UpdateModel, SeverityGate, Upload, Enforce, StepNames
    <2> QED BY <1>1, <2>1, <2>2, EndIsMonotone, OthersRemember
<1>9. CASE Skip
    <2>1. Steps[at] \in StepNames
        BY <1>1, <1>9, StepFacts DEF Skip, Running, Order
    <2>2. Monotone
        BY <1>1, <1>9, <2>1, EndIsMonotone DEF Skip
    <2> QED BY <1>9, <2>2, OthersRemember DEF Skip, data
<1>10. CASE Cancel
    <2>1. Monotone
        BY <1>1, <1>10 DEF Cancel, Monotone, TypeOK
    <2> QED BY <1>10, <2>1, OthersRemember DEF Cancel, data
<1> QED BY <1>2, <1>3, <1>4, <1>5, <1>6, <1>7, <1>8, <1>9, <1>10 DEF Next, Step

\* The phases share one suite_meta.json: what a phase recorded of a scanner that it ran,
\* no later phase takes back, for whatever registry of scanners.
THEOREM RecordsOfScannersAreKept == Spec => MetaRemembers
<1>1. Init => Recorded
    BY DEF Init, Recorded
<1>2. GInv /\ Recorded /\ [Next]_vars
        => [\A s \in Scanners : meta[s] \in {"ran", "error"} => meta'[s] = meta[s]]_vars
    BY NextRemembers DEF Remembered
<1>3. GInv /\ Recorded /\ [Next]_vars => Recorded'
    BY NextRemembers
<1> QED BY <1>1, <1>2, <1>3, GateInvariant, PTL DEF Spec, MetaRemembers
-----------------------------------------------------------------------------
(* What a record of having run is worth *)

\* A scanner on record as having run has scanned, unless its failures are tolerated.
Genuine == \A s \in Scanners : meta[s] = "ran" => s \in worked \cup Tolerant

LEMMA SuiteIsGenuine ==
    ASSUME Genuine, NEW p, NEW results \in [Selected(p) -> Results], Suite(p, results)
    PROVE  Genuine'
<1>1. /\ worked' = worked \cup {s \in DOMAIN results : results[s].worked}
      /\ \A s \in Scanners : meta'[s] = meta[s] \/ meta'[s] = Records(results)[s]
    BY DEF Suite, Merged
<1>2. ASSUME NEW s \in Scanners, Records(results)[s] = "ran"
      PROVE  s \in worked' \cup Tolerant
    <2>1. s \in DOMAIN results /\ Status(s, results[s]) = "ran"
        BY <1>2 DEF Records
    <2>2. results[s] \in Results
        BY <2>1
    <2>3. results[s].exit = "zero" \/ s \in Tolerant
        BY <2>1 DEF Status
    <2> QED BY <1>1, <2>1, <2>2, <2>3 DEF Results
<1> QED BY <1>1, <1>2 DEF Genuine

LEMMA NextIsGenuine == Genuine /\ [Next]_vars => Genuine'
<1> SUFFICES ASSUME Genuine, [Next]_vars
             PROVE  Genuine'
    OBVIOUS
<1>1. CASE ShiftLeft
    BY <1>1, SuiteIsGenuine DEF ShiftLeft
<1>2. CASE Sbom \/ ApiScan \/ ThreagileScan
    BY <1>2, SuiteIsGenuine DEF Sbom, ApiScan, ThreagileScan, Scan
<1>3. CASE UNCHANGED <<meta, worked>>
    BY <1>3 DEF Genuine
<1> QED BY <1>1, <1>2, <1>3 DEF Next, Step, SetUp, Prepare, ActiveScan, ActiveRequired,
           Normalize, UpdateModel, SeverityGate, Upload, Enforce, Skip, Cancel, data, vars

\* How far "Fail unless these scanner ids run successfully" is true: a job that passes
\* has had every required scanner scan, save those of allow_nonzero_exit, whose crash
\* is recorded as a run.
THEOREM IntolerantScannersWorked ==
    Spec => [](Conclusion = "success" => RequiredNow \ Tolerant \subseteq worked)
<1>1. Init => Genuine
    BY DEF Init, Genuine
<1>2. PassHasEvidence /\ Genuine =>
          (Conclusion = "success" => RequiredNow \ Tolerant \subseteq worked)
    <2> SUFFICES ASSUME PassHasEvidence, Genuine, Conclusion = "success",
                        NEW s \in RequiredNow \ Tolerant
                 PROVE  s \in worked
        OBVIOUS
    <2>1. meta[s] = "ran"
        BY DEF PassHasEvidence
    <2>2. s \in Scanners
        BY GateAssumption DEF RequiredNow, Phases
    <2> QED BY <2>1, <2>2 DEF Genuine
<1> QED BY <1>1, <1>2, NextIsGenuine, PassingJobsHaveEvidence, PTL DEF Spec

\* Without tolerated failures the promise of --require holds as it is written.
THEOREM ToleranceIsTheGap ==
    ASSUME Tolerant = {}
    PROVE  Spec => []RequiredWorked
<1>1. (Conclusion = "success" => RequiredNow \ Tolerant \subseteq worked) => RequiredWorked
    BY DEF RequiredWorked
<1> QED BY <1>1, IntolerantScannersWorked, PTL
=============================================================================
