---------------------------- MODULE SecurityGate ----------------------------
(***************************************************************************)
(* One job of the security gate: the steps of the composite action         *)
(* (.github/actions/ci-security-gate/action.yml), the scanner suite they   *)
(* run phase by phase in one directory (scripts/run_security_suite.py),    *)
(* the normalisation of what the scanners wrote, the update of the threat  *)
(* model and the severity gate.                                            *)
(*                                                                         *)
(* Most steps continue on error and some are conditional, so nothing a     *)
(* step finds stops the job: the last step adds the outcomes up.  The      *)
(* question is whether a job that passes has the evidence it stands for.   *)
(*                                                                         *)
(* A scanner finds one thing or nothing.  Definitions used nowhere, such   *)
(* as MergedOverwriting, are mutated forms of the one that follows.        *)
(***************************************************************************)
EXTENDS Integers, Sequences, FiniteSets

CONSTANTS
    Scanners,      \* the registry, config/scanners.json
    PhaseOf,       \* the phase of each scanner
    Tolerant,      \* scanners with allow_nonzero_exit
    NoContext,     \* scanners whose required context the action never gives
    Required,      \* --require, for each phase the action runs
    Severity,      \* of what a scanner, or the black-box scan, may find
    Limit,         \* the gate's profile: limit of each severity, -1 for none
    Artifacts,     \* evidence files the black-box scan is expected to write
    MinArtifacts   \* how many of them are enough

Phases == {"shift-left", "sbom", "api", "threatmodel"}
Sources == Scanners \cup {"blackbox"}
Gated == {"critical", "high", "medium", "low", "info"}

ASSUME GateAssumption ==
    /\ IsFiniteSet(Scanners) /\ "blackbox" \notin Scanners
    /\ Tolerant \subseteq Scanners /\ NoContext \subseteq Scanners
    /\ Required \in [Phases -> SUBSET Scanners]
    /\ Severity \in [Sources -> Gated \cup {"unknown"}]
    /\ Limit \in [Gated -> Int]
    /\ Artifacts \in Nat /\ MinArtifacts \in 1..Artifacts

VARIABLES
    inputs,      \* the action's inputs, and whether the runner has docker
    at,          \* the step the job is at
    outcome,     \* steps.<id>.outcome
    broken,      \* a step that does not continue on error has failed
    cancelled,   \* the job was cancelled or ran into its thirty minutes
    phases,      \* suite_meta.json: completed_phases ...
    meta,        \* ... and the status of each scanner, "none" without a record
    reports,     \* sources whose output holds something the parsers can read
    artifacts,   \* evidence files of the black-box scan
    prepared,    \* threat-model.before.json is there
    findings,    \* findings.normalized.json: the sources of its findings
    register,    \* threat-model.json: the sources of its observed threats
    worked       \* scanners that did scan (nobody else can see this)

data == <<phases, meta, reports, artifacts, prepared, findings, register, worked>>
vars == <<inputs, at, outcome, broken, cancelled, data>>

-----------------------------------------------------------------------------
(* Steps of the action *)

StepsNormalizeEarly ==
    <<"setup", "prepare", "source_scan", "active_scan", "active_required", "normalize",
      "api_scan", "threagile_scan", "threat_model_update", "severity_gate", "upload", "enforce">>

Steps ==
    <<"setup", "prepare", "source_scan", "active_scan", "active_required", "api_scan",
      "threagile_scan", "normalize", "threat_model_update", "severity_gate", "upload", "enforce">>

StepNames == {"setup", "prepare", "source_scan", "active_scan", "active_required", "api_scan",
    "threagile_scan", "normalize", "threat_model_update", "severity_gate", "upload", "enforce"}

\* if: always()
Always == {"normalize", "threat_model_update", "severity_gate", "upload", "enforce"}

ContinueOnError == {"source_scan", "active_scan", "active_required", "api_scan",
    "threagile_scan", "normalize", "threat_model_update", "severity_gate"}

CheckedButSource == ContinueOnError \ {"source_scan"}

\* The outcomes the last step looks at, mandatory and optional ones alike.
Checked == ContinueOnError

Running == at <= Len(Steps)

\* The condition of a step, apart from always() and the implicit success().
Wanted(step) ==
    CASE step = "active_scan" -> inputs.target
      [] step = "active_required" -> inputs.requireActive /\ ~inputs.target
      [] step = "api_scan" -> inputs.openapi
      [] step = "threagile_scan" -> inputs.threagile
      [] step \in {"threat_model_update", "severity_gate"} -> outcome["normalize"] = "success"
      [] OTHER -> TRUE

Due(step) == Wanted(step) /\ (step \in Always \/ (~broken /\ ~cancelled))

\* The job is at a step that is to run.
Now(step) == Running /\ Steps[at] = step /\ Due(step)

End(step, result) ==
    /\ outcome' = [outcome EXCEPT ![step] = result]
    /\ broken' = (broken \/ (result = "failure" /\ step \notin ContinueOnError))
    /\ at' = at + 1
    /\ UNCHANGED <<inputs, cancelled>>

Conclusion ==
    IF Running THEN "running"
    ELSE IF cancelled THEN "cancelled"
    ELSE IF broken THEN "failure" ELSE "success"

-----------------------------------------------------------------------------
(* The scanner suite: one invocation of run_security_suite.py *)

\* A run of a scanner: its exit, whether it did scan, what its file tells the parsers.
\* A scanner that does not get to work exits with an error or is not found at all.
Results ==
    {r \in [exit : {"zero", "nonzero", "exception"}, worked : BOOLEAN, reports : BOOLEAN] :
        /\ r.reports => r.worked
        /\ r.exit = "zero" => r.worked
        /\ r.exit = "exception" => ~r.worked}

\* select_reason is None
Selected(p) == {s \in Scanners : PhaseOf[s] = p /\ s \notin NoContext /\ inputs.docker}

\* record["status"]
Status(s, r) ==
    IF r.exit = "zero" \/ (r.exit = "nonzero" /\ s \in Tolerant) THEN "ran" ELSE "error"

Records(results) ==
    [s \in Scanners |-> IF s \in DOMAIN results THEN Status(s, results[s]) ELSE "skipped"]

MergedOverwriting(p, records) == records

\* A record that is skipped for its phase does not replace one of an earlier phase.
Merged(p, records) ==
    [s \in Scanners |->
        IF PhaseOf[s] # p /\ meta[s] \in {"ran", "error"} THEN meta[s] ELSE records[s]]

\* The exit code with --require and --fail-on-error.
SuiteFails(p, records) ==
    \/ \E s \in Required[p] : records[s] # "ran"
    \/ \E s \in Scanners : records[s] = "error"

Suite(p, results) ==
    /\ meta' = Merged(p, Records(results))
    /\ phases' = phases \cup {p}
    /\ reports' = reports \cup {s \in DOMAIN results : results[s].reports}
    /\ worked' = worked \cup {s \in DOMAIN results : results[s].worked}
    /\ UNCHANGED <<artifacts, prepared, findings, register>>

\* The suite in a step of its own.
Scan(step, p) ==
    /\ Now(step)
    /\ \E results \in [Selected(p) -> Results] :
        /\ Suite(p, results)
        /\ End(step, IF SuiteFails(p, Records(results)) THEN "failure" ELSE "success")

ApiScan == Scan("api_scan", "api")
ThreagileScan == Scan("threagile_scan", "threatmodel")

\* The source scan is two invocations, under bash -e.
ShiftLeft ==
    /\ Now("source_scan") /\ "shift-left" \notin phases
    /\ \E results \in [Selected("shift-left") -> Results] :
        /\ Suite("shift-left", results)
        /\ IF SuiteFails("shift-left", Records(results))
           THEN End("source_scan", "failure")
           ELSE UNCHANGED <<inputs, at, outcome, broken, cancelled>>

Sbom ==
    /\ "shift-left" \in phases
    /\ Scan("source_scan", "sbom")

-----------------------------------------------------------------------------
(* The other steps *)

\* Python, paths and dependencies.
SetUp ==
    /\ Now("setup")
    /\ \E result \in {"success", "failure"} : End("setup", result)
    /\ UNCHANGED data

\* threat_model_lifecycle.py prepare: load and validate the model, or make a baseline.
Prepare ==
    /\ Now("prepare")
    /\ prepared' \in BOOLEAN
    /\ End("prepare", IF prepared' THEN "success" ELSE "failure")
    /\ UNCHANGED <<phases, meta, reports, artifacts, findings, register, worked>>

\* run_blackbox_scans.sh, each tool "|| true", then the count of evidence files.
ActiveScan ==
    /\ Now("active_scan")
    /\ artifacts' \in IF inputs.docker THEN 0..Artifacts ELSE {0}
    /\ reports' \in {reports} \cup
                    IF artifacts' > 0 THEN {reports \cup {"blackbox"}} ELSE {}
    /\ End("active_scan", IF artifacts' < MinArtifacts THEN "failure" ELSE "success")
    /\ UNCHANGED <<phases, meta, prepared, findings, register, worked>>

ActiveRequired ==
    /\ Now("active_required")
    /\ End("active_required", "failure")
    /\ UNCHANGED data

\* normalize_findings.py and to_sarif.py.  A file that is missing, empty or not
\* understood yields no finding.
Normalize ==
    /\ Now("normalize")
    /\ \/ /\ findings' = reports
          /\ End("normalize", "success")
       \/ /\ findings' \in {findings, reports}
          /\ End("normalize", "failure")
    /\ UNCHANGED <<phases, meta, reports, artifacts, prepared, register, worked>>

\* threat_model_lifecycle.py update and validate.
UpdateModel ==
    /\ Now("threat_model_update")
    /\ \/ /\ prepared
          /\ register' = findings
          /\ End("threat_model_update", "success")
       \/ /\ register' \in {register} \cup IF prepared THEN {findings} ELSE {}
          /\ End("threat_model_update", "failure")
    /\ UNCHANGED <<phases, meta, reports, artifacts, prepared, findings, worked>>

Observed(severity) == Cardinality({s \in findings : Severity[s] = severity})

BreachedOffByOne == \E v \in Gated : Limit[v] >= 0 /\ Observed(v) > Limit[v] + 1

\* gate.py: an unknown severity is counted but has no limit.
Breached == \E v \in Gated : Limit[v] >= 0 /\ Observed(v) > Limit[v]

SeverityGate ==
    /\ Now("severity_gate")
    /\ End("severity_gate", IF Breached THEN "failure" ELSE "success")
    /\ UNCHANGED data

Upload ==
    /\ Now("upload")
    /\ \E result \in {"success", "failure"} : End("upload", result)
    /\ UNCHANGED data

\* "Enforce complete security lifecycle"
Enforce ==
    /\ Now("enforce")
    /\ End("enforce", IF \E step \in Checked : outcome[step] = "failure"
                      THEN "failure" ELSE "success")
    /\ UNCHANGED data

-----------------------------------------------------------------------------
(* The runner *)

\* A step that is not due is skipped.
Skip ==
    /\ Running /\ ~Due(Steps[at])
    /\ End(Steps[at], "skipped")
    /\ UNCHANGED data

\* The job is cancelled while a step runs.  What the step leaves behind can not make
\* a cancelled job pass.
Cancel ==
    /\ Running /\ Due(Steps[at]) /\ ~cancelled
    /\ cancelled' = TRUE
    /\ outcome' = [outcome EXCEPT ![Steps[at]] = "cancelled"]
    /\ at' = at + 1
    /\ UNCHANGED <<inputs, broken, data>>

Step ==
    \/ SetUp \/ Prepare \/ ShiftLeft \/ Sbom \/ ActiveScan \/ ActiveRequired
    \/ ApiScan \/ ThreagileScan \/ Normalize \/ UpdateModel \/ SeverityGate
    \/ Upload \/ Enforce

Init ==
    /\ inputs \in [target : BOOLEAN, requireActive : BOOLEAN, openapi : BOOLEAN,
                   threagile : BOOLEAN, docker : BOOLEAN]
    /\ at = 1
    /\ outcome = [step \in StepNames |-> "none"]
    /\ broken = FALSE /\ cancelled = FALSE
    /\ phases = {} /\ meta = [s \in Scanners |-> "none"]
    /\ reports = {} /\ artifacts = 0
    /\ prepared = FALSE /\ findings = {} /\ register = {}
    /\ worked = {}

Next == Step \/ Skip \/ Cancel

Spec == Init /\ [][Next]_vars

-----------------------------------------------------------------------------
(* Properties *)

\* Type invariant.
TypeOK ==
    /\ inputs \in [target : BOOLEAN, requireActive : BOOLEAN, openapi : BOOLEAN,
                   threagile : BOOLEAN, docker : BOOLEAN]
    /\ at \in 1..(Len(Steps) + 1)
    /\ outcome \in [StepNames -> {"none", "success", "failure", "skipped", "cancelled"}]
    /\ broken \in BOOLEAN /\ cancelled \in BOOLEAN
    /\ phases \in SUBSET Phases
    /\ meta \in [Scanners -> {"none", "ran", "error", "skipped"}]
    /\ reports \in SUBSET Sources
    /\ artifacts \in 0..Artifacts
    /\ prepared \in BOOLEAN
    /\ findings \in SUBSET Sources /\ register \in SUBSET Sources
    /\ worked \in SUBSET Scanners

\* The scanners the action requires of a job with these inputs.
RequiredNow ==
    Required["shift-left"] \cup Required["sbom"]
    \cup (IF inputs.openapi THEN Required["api"] ELSE {})
    \cup (IF inputs.threagile THEN Required["threatmodel"] ELSE {})

\* A job passes only if every required scanner is on record as having run, none is
\* on record with an error, and the black-box scan, if required, took place and left enough
\* evidence; although no step that finds one of these missing stops the job, and
\* steps are skipped when others fail.
PassHasEvidence ==
    Conclusion = "success" =>
        /\ \A s \in RequiredNow : meta[s] = "ran"
        /\ \A s \in Scanners : meta[s] # "error"
        /\ inputs.requireActive => inputs.target
        /\ inputs.target => artifacts >= MinArtifacts

\* A job passes only if everything any scanner wrote, in whatever phase, went into
\* the findings and the threat model.
NothingUnseen ==
    Conclusion = "success" =>
        /\ reports \subseteq findings
        /\ findings \subseteq register

\* A job passes only if the outputs of all scanners together stay within the limits.
WithinLimits ==
    Conclusion = "success" =>
        \A v \in Gated : Limit[v] >= 0 =>
            Cardinality({s \in reports : Severity[s] = v}) <= Limit[v]

\* suite_meta.json is shared by the phases: what one phase recorded of a scanner that
\* it ran, no later phase takes back.
MetaRemembers ==
    [][\A s \in Scanners : meta[s] \in {"ran", "error"} => meta'[s] = meta[s]]_vars

\* "Fail unless these scanner ids run successfully": a job passes only if every
\* required scanner has scanned.
RequiredWorked == Conclusion = "success" => RequiredNow \subseteq worked
=============================================================================
