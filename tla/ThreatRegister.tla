--------------------------- MODULE ThreatRegister ---------------------------
(***************************************************************************)
(* What repeated scans do to a threat model that people edit:              *)
(* scripts/normalize_findings.py and scripts/threat_model_lifecycle.py.    *)
(*                                                                         *)
(* A run of the gate copies the repository's model, or makes a baseline    *)
(* when there is none, names what the scanners report, and writes the      *)
(* findings over the threats of the same ids.  The names are of the        *)
(* parsers' making: some from the rule, some from the place in the         *)
(* output, some from both, and places begin anew in every part of it.  The *)
(* result is an artifact.  People take one over into the repository,       *)
(* perhaps after other runs have begun, and set the status of threats.     *)
(*                                                                         *)
(* A scanner may fail or report in any order: a report is any set of       *)
(* vulnerabilities at any places.  A threat keeps its vulnerability and    *)
(* status here; titles, assets, timestamps and the rows of scan_evidence   *)
(* are left out, SecurityGate has the job around.  Definitions used        *)
(* nowhere are mutated forms of the next.                                  *)
(***************************************************************************)
EXTENDS Naturals, FiniteSets, Functions

CONSTANTS
    Vulnerabilities,
    Tool, Rule, Part,  \* of each: who reports it, under which rule, in which part
    Rank,              \* of each: its severity, 0 is critical and 5 unknown
    LastPart,          \* a bound: parts of a tool's output
    Places,            \* a bound: positions in the part of a report
    Runs,              \* attempts of the gate's job
    MaxEdits           \* bound: changes of the repository's model

VARIABLES
    repo,        \* the repository's model, a function from ids to threats
    edits,
    pc,          \* of each run: "idle", "scanning", "updating" or "over"
    before,      \* threat-model.before.json
    report,      \* the places of what the scanners reported
    artifact,    \* threat-model.json, or NoModel
    \* what the properties ask about
    based,       \* which edit of the repository's model a run started from
    judged,      \* ids and vulnerabilities whose status people have set
    dropped      \* ids that somebody lost by taking over an outdated artifact

repoVars == <<repo, edits, judged, dropped>>
runVars == <<pc, before, report, artifact, based>>
vars == <<repoVars, runVars>>

-----------------------------------------------------------------------------
(* Names *)

Baseline == <<"baseline">>
NoRule == "no rule"
NoPlace == 0

\* Missing headers and Threagile's risks have names of their own.
NamedByRule == {"nmap-tls", "threagile"}

\* A line or a row is all there is; a place of prowler is a file and a row of it.
NamedByPlace == {"nikto", "nmap", "prowler", "schemathesis"}

\* A missing header and a risk are reported once; an output that is named by its places
\* has one part.
ASSUME RegisterAssumption ==
    /\ Rank \in [Vulnerabilities -> 0..5]
    /\ LastPart \in Nat /\ Part \in [Vulnerabilities -> 1..LastPart]
    /\ MaxEdits \in Nat
    /\ \A v, w \in Vulnerabilities : Tool[v] = Tool[w] =>
          /\ Tool[v] \in NamedByRule /\ Rule[v] = Rule[w] => v = w
          /\ Tool[v] \in NamedByPlace => Part[v] = Part[w]

\* The others have both, also the drivers of SARIF files.
Id(v, place) ==
    <<Tool[v], IF Tool[v] \in NamedByPlace THEN NoRule ELSE Rule[v],
      IF Tool[v] \in NamedByRule THEN NoPlace ELSE place>>

Ids == {Id(v, p) : v \in Vulnerabilities, p \in Places}

\* Two rows of one part are at two places.  Parts are the sites of ZAP, the runs and files
\* of a SARIF driver, the tests of kube-bench.
Placements(V) ==
    {place \in [V -> Places] :
        \A v, w \in V : v # w /\ Tool[v] = Tool[w] /\ Part[v] = Part[w] => place[v] # place[w]}

-----------------------------------------------------------------------------
(* Models *)

Statuses == {"modeled", "observed", "accepted"}

Observed(v) == [about |-> v, status |-> "observed"]
BaselineModel == [id \in {Baseline} |-> [about |-> "baseline", status |-> "modeled"]]
NoModel == <<>>

\* Findings are sorted by severity and taken in that order: of those with one id the
\* last, the least severe, remains.  Equal ones keep the order of the parts.
Before(v, w) ==
    Rank[v] < Rank[w] \/ (Rank[v] = Rank[w] /\ Part[v] < Part[w])

Reported(place) == {Id(v, place[v]) : v \in DOMAIN place}

Named(place, id) == {v \in DOMAIN place : Id(v, place[v]) = id}

Remaining(place, id) ==
    CHOOSE v \in Named(place, id) : \A w \in Named(place, id) \ {v} : Before(w, v)

OnlyNew(model, place) ==
    [id \in DOMAIN model \cup Reported(place) |->
        IF id \in DOMAIN model THEN model[id] ELSE Observed(Remaining(place, id))]

KeepsStatus(model, place) ==
    [id \in DOMAIN model \cup Reported(place) |->
        IF id \notin Reported(place) THEN model[id]
        ELSE IF id \in DOMAIN model
        THEN [model[id] EXCEPT !.about = Remaining(place, id)]
        ELSE Observed(Remaining(place, id))]

\* threats_by_id: a finding replaces the threat of its id, whatever became of that.
Updated(model, place) ==
    [id \in DOMAIN model \cup Reported(place) |->
        IF id \in Reported(place) THEN Observed(Remaining(place, id)) ELSE model[id]]

Regenerated(model) == BaselineModel

Loaded(model) == IF model = NoModel THEN BaselineModel ELSE model

-----------------------------------------------------------------------------

\* The model of the commit that the job checked out.
Prepare(r) ==
    /\ pc[r] = "idle"
    /\ pc' = [pc EXCEPT ![r] = "scanning"]
    /\ before' = [before EXCEPT ![r] = Loaded(repo)]
    /\ based' = [based EXCEPT ![r] = edits]
    /\ UNCHANGED <<repoVars, report, artifact>>

Normalize(r) ==
    /\ pc[r] = "scanning"
    /\ pc' = [pc EXCEPT ![r] = "updating"]
    /\ \E V \in SUBSET Vulnerabilities : \E place \in Placements(V) :
           report' = [report EXCEPT ![r] = place]
    /\ UNCHANGED <<repoVars, before, artifact, based>>

Update(r) ==
    /\ pc[r] = "updating"
    /\ pc' = [pc EXCEPT ![r] = "over"]
    /\ artifact' = [artifact EXCEPT ![r] = Updated(before[r], report[r])]
    /\ UNCHANGED <<repoVars, before, report, based>>

\* Somebody commits the artifact of a run as the repository's model.
TakeOver(r) ==
    /\ artifact[r] # NoModel /\ edits < MaxEdits
    /\ repo' = artifact[r]
    /\ edits' = edits + 1
    /\ dropped' = IF repo = NoModel \/ based[r] = edits THEN dropped
                  ELSE dropped \cup (DOMAIN repo \ DOMAIN artifact[r])
    /\ UNCHANGED <<judged, runVars>>

\* Somebody accepts a threat of the repository's model, as do mitigated and false-positive.
Judge(id) ==
    /\ repo # NoModel /\ edits < MaxEdits
    /\ repo' = [repo EXCEPT ![id].status = "accepted"]
    /\ edits' = edits + 1
    /\ judged' = judged \cup {<<id, repo[id].about>>}
    /\ UNCHANGED <<dropped, runVars>>

Init ==
    /\ repo \in {NoModel, BaselineModel} /\ edits = 0
    /\ pc = [r \in Runs |-> "idle"]
    /\ before = [r \in Runs |-> BaselineModel]
    /\ report = [r \in Runs |-> <<>>]
    /\ artifact = [r \in Runs |-> NoModel]
    /\ based = [r \in Runs |-> 0]
    /\ judged = {} /\ dropped = {}

Next ==
    \/ \E r \in Runs : Prepare(r) \/ Normalize(r) \/ Update(r) \/ TakeOver(r)
    \/ \E id \in Ids \cup {Baseline} : repo # NoModel /\ id \in DOMAIN repo /\ Judge(id)

Spec == Init /\ [][Next]_vars

-----------------------------------------------------------------------------
(* Properties *)

Threats == [about : Vulnerabilities \cup {"baseline"}, status : Statuses]

IsModel(m) == Baseline \in DOMAIN m /\ DOMAIN m \subseteq Ids \cup {Baseline} /\ Range(m) \subseteq Threats

\* Type invariant.  Every model has the baseline's threats, and ids of the right form.
TypeOK ==
    /\ repo = NoModel \/ IsModel(repo)
    /\ edits \in 0..MaxEdits
    /\ pc \in [Runs -> {"idle", "scanning", "updating", "over"}]
    /\ \A r \in Runs :
        /\ IsModel(before[r])
        /\ artifact[r] = NoModel \/ IsModel(artifact[r])
        /\ DOMAIN report[r] \subseteq Vulnerabilities /\ based[r] \in 0..edits
    /\ dropped \subseteq Ids

Models ==
    ({repo} \cup {before[r] : r \in Runs} \cup {artifact[r] : r \in Runs}) \ {NoModel}

\* What people decided about a vulnerability is never read as a decision about another
\* one that came to have its id: when lines or rows moved, when a fixed one made room,
\* or when an outdated artifact was taken over.
AcceptanceIsPersonal ==
    \A m \in Models : \A id \in DOMAIN m :
        m[id].status = "accepted" => <<id, m[id].about>> \in judged

\* A run's model describes everything its scanners reported, at the id the finding has
\* in the findings file, unless a finding at least as mild in another part of the same
\* tool's output has the same name.
EverythingDescribed ==
    \A r \in Runs : pc[r] = "over" => \A v \in DOMAIN report[r] :
        LET id == Id(v, report[r][v]) IN
        \/ artifact[r][id] = Observed(v)
        \/ \E w \in DOMAIN report[r] :
              /\ Tool[w] = Tool[v] /\ Rule[w] = Rule[v] /\ Part[w] # Part[v]
              /\ Rank[v] <= Rank[w] /\ artifact[r][id] = Observed(w)

\* A threat that was in the repository's model stays there, whether or not later runs find
\* it, unless somebody took over the artifact of a run that had begun before the
\* model's last change.
NothingForgotten ==
    [][repo # NoModel =>
         DOMAIN repo \ DOMAIN repo' \subseteq dropped']_repo
=============================================================================
