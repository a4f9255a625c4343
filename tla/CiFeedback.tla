----------------------------- MODULE CiFeedback -----------------------------
(***************************************************************************)
(* The CI feedback engine: completed GitHub workflow runs are reconciled   *)
(* with defects kept as issues of a Linear project                         *)
(* (.github/workflows/ci-feedback.yml, ci_feedback/service.py).            *)
(*                                                                         *)
(* GitHub completes attempts of workflow runs.  Each completion triggers   *)
(* one feedback run.  Feedback runs share a concurrency group: one runs,   *)
(* one waits, and a newer arrival takes the waiting place and cancels its  *)
(* holder.  A feedback run that is over may be re-run by hand with the     *)
(* same event, which is how a lost or late delivery comes back.            *)
(*                                                                         *)
(* A feedback run is sequential, but every call to Linear or GitHub is a   *)
(* step of its own: between two calls the run can die (API error, lost     *)
(* response, ten-minute timeout, cancellation), people move issues, and    *)
(* other attempts complete.  The engine keeps nothing between runs, its    *)
(* only memory is the managed record inside each Linear issue.             *)
(*                                                                         *)
(* A definition that no other definition uses and that stands just before  *)
(* a similar one (GroupIgnored before GroupFree) is a mutated form of it:  *)
(* a plausible bug with which a property below must fail.                  *)
(***************************************************************************)
EXTENDS Defect

CONSTANTS
    Runs,           \* workflow runs of the repository (their GitHub run ids)
    Workflows, Branches, PullRequests, Origins,
    Context,        \* Context[r]: what _normalize_workflow_context yields for run r
    Jobs,           \* jobs of a workflow run
    Signature,      \* Signature[j]: what the fingerprint takes from a failed job
    Signatures,
    Engines,        \* runners that can host a feedback run
    MaxAttempts,    \* bound: attempts GitHub completes of one run
    MaxCompletions, \* bound: attempts GitHub completes of all runs together
    MaxFaults,      \* bound: feedback runs that die half-way
    MaxReplays,     \* bound: feedback runs started again by hand
    MaxCopies       \* bound: issues an operator duplicates inside Linear

\* No pull request, issue or delivery is Python's None.
ASSUME ContextAssumption ==
    /\ Context \in [Runs -> [workflow_id : Workflows,
                             branch : Branches,
                             base_branch : Branches,
                             pull_request_number : PullRequests \cup {None},
                             originating_issue : Origins \cup {None},
                             remediation_depth : Nat]]
    /\ Signature \in [Jobs -> Signatures]
    /\ "workflow completion" \notin Jobs
    /\ "workflow completion" \in Signatures
    /\ None \notin Origins \cup PullRequests
    /\ None \notin [run : Runs, attempt : 1..MaxAttempts]
    /\ Unrenderable \subseteq Jobs

ASSUME JobsAssumption == IsFiniteSet(Jobs)

ASSUME BoundsAssumption ==
    /\ MaxAttempts \in Nat /\ MaxCompletions \in Nat
    /\ MaxFaults \in Nat /\ MaxReplays \in Nat /\ MaxCopies \in Nat

VARIABLES
    \* GitHub
    runs,        \* runs[r]: the completed attempts of r, oldest first
    waiting,     \* the delivery that holds the group's waiting place, or None
    ended,       \* deliveries whose feedback run is over: done, dead or cancelled
    \* Linear
    defects,     \* the project's managed issues, in creation order
    origin,      \* the workflow state of the issues that pull requests name
    \* one feedback run per engine
    pc, delivery, known, events, left, matches, resolved, origins, subject, target,
    \* budgets spent
    completions, faults, replays, copies

github == <<runs, waiting, ended>>
linear == <<defects, origin>>
local == <<pc, delivery, known, events, left, matches, resolved, origins, subject, target>>
budgets == <<completions, faults, replays, copies>>
vars == <<github, linear, local, budgets>>

-----------------------------------------------------------------------------
(* Data *)

Deliveries == [run : Runs, attempt : 1..MaxAttempts]

\* "cancelled" stands for every conclusion outside policy.actionable_conclusions.
Conclusions == {"success", "failure", "cancelled"}

\* "missing": no issue has the identifier the branch, title or body names.
OriginStates == {"active", "in_review", "closed", "missing"}

DefectStates == {"todo", "escalated", "done"}

ContextOf(d) == Context[d.run]

ConclusionOf(d) == runs[d.run][d.attempt].conclusion

\* calculate_fingerprint: neither the branch nor the pull request is part of it.
Fingerprint(r, s) ==
    [workflow_id |-> Context[r].workflow_id, base_branch |-> Context[r].base_branch,
     signature |-> s]

\* build_failure_event; a job id is unique per attempt, the fallback's is 0.
FailureEvent(r, attempt, job, signature) ==
    [observation_key     |-> [run |-> r, attempt |-> attempt, job |-> job],
     fingerprint         |-> Fingerprint(r, signature),
     workflow_id         |-> Context[r].workflow_id,
     branch              |-> Context[r].branch,
     pull_request_number |-> Context[r].pull_request_number,
     originating_issue   |-> Context[r].originating_issue,
     remediation_depth   |-> Context[r].remediation_depth]

\* _failure_events on what GitHub lists: the failed jobs of the LATEST attempt.
FailureEvents(d) ==
    LET latest == Len(runs[d.run])
        failed == runs[d.run][latest].failed
    IN  IF failed # {}
        THEN {FailureEvent(d.run, latest, j, Signature[j]) : j \in failed}
        ELSE {FailureEvent(d.run, 0, "workflow completion", "workflow completion")}

\* The issues a Linear listing returns, as far as the engine reads them.
Listing == {[id |-> i, metadata |-> defects[i].metadata] : i \in 1..Len(defects)}

IndexesAnything(issues) == TRUE

\* _index_defects raises unless this holds of the listing.
Indexable(issues) ==
    \A x, y \in issues : x.metadata.fingerprint = y.metadata.fingerprint => x.id = y.id

\* indexed.get(event.fingerprint)
Indexed(e, event) == {x \in known[e] : x.metadata.fingerprint = event.fingerprint}

NotReindexed(e, old, id, metadata) == known[e]

\* indexed[event.fingerprint] = the issue create_issue or update_issue returned,
\* in place of the entry the listing had (old, empty for a new issue).
Reindexed(e, old, id, metadata) ==
    (known[e] \ old) \cup {[id |-> id, metadata |-> metadata]}

Issue(metadata) ==
    [metadata  |-> metadata,
     state     |-> StateFor(metadata),
     labels    |-> DesiredLabels(metadata),
     announced |-> FALSE,       \* the comment on the originating issue was written
     recurred  |-> 0,           \* "CI failure recurred" comments on the issue
     recovered |-> 0]           \* "Required workflow recovered" comments on the issue

PostedTwice(comments) == comments + 2

\* create_comment is not retried: one call posts at most one comment.
Posted(comments) == comments + 1

\* get_issue found an issue behind the identifier.
Exists(o) == o # None /\ origin[o] # "missing"

-----------------------------------------------------------------------------
(* The concurrency group *)

Active(e) == pc[e] # "idle"

GroupIgnored == TRUE

GroupFree == \A e \in Engines : ~Active(e)

\* A delivery enters the group; it cancels the one that was waiting.
Admit(d) ==
    /\ waiting = None \/ ~GroupFree
    /\ waiting' = d

CancelledVanishes == {}
CancelledAlways == {waiting}

Cancelled == IF waiting = None THEN {} ELSE {waiting}

\* GitHub completes one more attempt of run r with conclusion c and failed jobs J.
CompleteAttempt(r) ==
    \E c \in Conclusions, J \in SUBSET Jobs :
        /\ Len(runs[r]) < MaxAttempts
        /\ completions < MaxCompletions
        /\ completions' = completions + 1
        /\ c = "success" => J = {}
        /\ runs' = [runs EXCEPT ![r] = Append(@, [conclusion |-> c, failed |-> J])]
        /\ Admit([run |-> r, attempt |-> Len(runs[r]) + 1])
        /\ ended' = ended \cup Cancelled
        /\ UNCHANGED <<linear, local, faults, replays, copies>>

\* Somebody re-runs a feedback run that is over, with the event it had.
Replay(d) ==
    /\ replays < MaxReplays
    /\ replays' = replays + 1
    /\ d \in ended
    /\ Admit(d)
    /\ ended' = (ended \ {d}) \cup Cancelled
    /\ UNCHANGED <<runs, linear, local, completions, faults, copies>>

\* People and agents move the issue a pull request works on.
MoveOrigin(o) ==
    \E s \in OriginStates \ {"missing"} :
        /\ origin[o] # "missing"
        /\ s # origin[o]
        /\ origin' = [origin EXCEPT ![o] = s]
        /\ UNCHANGED <<github, defects, local, budgets>>

\* An operator duplicates an issue in Linear: the managed record comes along.
CopyDefect(i) ==
    /\ copies < MaxCopies
    /\ copies' = copies + 1
    /\ defects' = Append(defects, [defects[i] EXCEPT !.announced = FALSE,
                                         !.recurred = 0, !.recovered = 0])
    /\ UNCHANGED <<github, origin, local, completions, faults, replays>>

-----------------------------------------------------------------------------
(* One feedback run *)

\* The run is over, however it ended: nothing of its memory survives.
Leave(e) ==
    /\ pc' = [pc EXCEPT ![e] = "idle"]
    /\ ended' = ended \cup {delivery[e]}
    /\ delivery' = [delivery EXCEPT ![e] = None]
    /\ known' = [known EXCEPT ![e] = {}]
    /\ events' = [events EXCEPT ![e] = {}]
    /\ left' = [left EXCEPT ![e] = {}]
    /\ matches' = [matches EXCEPT ![e] = {}]
    /\ resolved' = [resolved EXCEPT ![e] = {}]
    /\ origins' = [origins EXCEPT ![e] = {}]
    /\ subject' = [subject EXCEPT ![e] = 0]
    /\ target' = [target EXCEPT ![e] = None]

Goto(e, label) == pc' = [pc EXCEPT ![e] = label]

Start(e) ==
    /\ waiting # None
    /\ GroupFree
    /\ Goto(e, "route")
    /\ delivery' = [delivery EXCEPT ![e] = waiting]
    /\ waiting' = None
    /\ UNCHANGED <<runs, ended, linear, known, events, left, matches, resolved,
                   origins, subject, target, budgets>>

\* process_workflow_run returns "ignored": neither a success nor actionable.
Ignore(e) ==
    /\ pc[e] = "route"
    /\ ConclusionOf(delivery[e]) = "cancelled"
    /\ Leave(e)
    /\ UNCHANGED <<runs, waiting, linear, budgets>>

\* _process_failures up to the index: a duplicate fingerprint raises.
ListForFailures(e) ==
    /\ pc[e] = "route"
    /\ ConclusionOf(delivery[e]) = "failure"
    /\ Indexable(Listing)
    /\ Goto(e, "jobs")
    /\ known' = [known EXCEPT ![e] = Listing]
    /\ UNCHANGED <<github, linear, delivery, events, left, matches, resolved,
                   origins, subject, target, budgets>>

RejectDuplicates(e) ==
    /\ pc[e] = "route"
    /\ ConclusionOf(delivery[e]) = "failure"
    /\ ~Indexable(Listing)
    /\ Leave(e)
    /\ UNCHANGED <<runs, waiting, linear, budgets>>

ListJobs(e) ==
    /\ pc[e] = "jobs"
    /\ Goto(e, "event")
    /\ events' = [events EXCEPT ![e] = FailureEvents(delivery[e])]
    /\ left' = [left EXCEPT ![e] = FailureEvents(delivery[e])]
    /\ UNCHANGED <<github, linear, delivery, known, matches, resolved, origins,
                   subject, target, budgets>>

\* record_failure returned False: an idempotent replay.
SkipObserved(e) ==
    /\ pc[e] = "event"
    /\ \E event \in left[e] :
        /\ \E x \in Indexed(e, event) :
               ContainsObservation(x.metadata, event.observation_key)
        /\ left' = [left EXCEPT ![e] = @ \ {event}]
    /\ UNCHANGED <<github, linear, pc, delivery, known, events, matches, resolved,
                   origins, subject, target, budgets>>

\* _create_defect as far as create_issue; the comment follows if there is a parent.
CreateDefect(e) ==
    /\ pc[e] = "event"
    /\ \E event \in left[e] :
        LET id == Len(defects) + 1
            metadata == FromEvent(event)
        IN  /\ Indexed(e, event) = {}
            /\ defects' = Append(defects, Issue(metadata))
            /\ known' = [known EXCEPT ![e] = Reindexed(e, {}, id, metadata)]
            /\ left' = [left EXCEPT ![e] = @ \ {event}]
            /\ subject' = [subject EXCEPT ![e] = id]
            /\ Goto(e, IF Exists(event.originating_issue) THEN "announce" ELSE "event")
    /\ UNCHANGED <<github, origin, delivery, events, matches, resolved, origins,
                   target, budgets>>

AnnounceDefect(e) ==
    /\ pc[e] = "announce"
    /\ defects' = [defects EXCEPT ![subject[e]].announced = TRUE]
    /\ Goto(e, "event")
    /\ UNCHANGED <<github, origin, delivery, known, events, left, matches, resolved,
                   origins, subject, target, budgets>>

\* _update_defect as far as update_issue: the description, state and labels of
\* the issue are replaced by what follows from the record the run had listed.
UpdateDefect(e) ==
    /\ pc[e] = "event"
    /\ \E event \in left[e] : \E x \in Indexed(e, event) :
        LET metadata == RecordFailure(x.metadata, event)
        IN  /\ ~ContainsObservation(x.metadata, event.observation_key)
            /\ Renderable(metadata)
            /\ defects' = [defects EXCEPT ![x.id].metadata = metadata,
                                          ![x.id].state = StateFor(metadata),
                                          ![x.id].labels = DesiredLabels(metadata)]
            /\ known' = [known EXCEPT ![e] = Reindexed(e, {x}, x.id, metadata)]
            /\ left' = [left EXCEPT ![e] = @ \ {event}]
            /\ subject' = [subject EXCEPT ![e] = x.id]
    /\ Goto(e, "recurred")
    /\ UNCHANGED <<github, origin, delivery, events, matches, resolved, origins,
                   target, budgets>>

\* re.error leaves the run: nothing is written, and the rest of the batch is lost.
UpdateRaises(e) ==
    /\ pc[e] = "event"
    /\ \E event \in left[e] : \E x \in Indexed(e, event) :
        /\ ~ContainsObservation(x.metadata, event.observation_key)
        /\ ~Renderable(RecordFailure(x.metadata, event))
    /\ Leave(e)
    /\ UNCHANGED <<runs, waiting, linear, budgets>>

NoteRecurrence(e) ==
    /\ pc[e] = "recurred"
    /\ defects' = [defects EXCEPT ![subject[e]].recurred = Posted(@)]
    /\ Goto(e, "event")
    /\ UNCHANGED <<github, origin, delivery, known, events, left, matches, resolved,
                   origins, subject, target, budgets>>

FinishFailures(e) ==
    /\ pc[e] = "event"
    /\ left[e] = {}
    /\ Leave(e)
    /\ UNCHANGED <<runs, waiting, linear, budgets>>

NoReplayedOrigins(matching, run) == {}

\* Issues whose defects this very run has resolved before: a re-run after a crash
\* between resolving and resuming takes them up again.
ReplayedOrigins(matching, run) ==
    {x.metadata.originating_issue : x \in
        {y \in matching : /\ y.metadata.status = "resolved"
                          /\ ContainsRecovery(y.metadata, run)}} \ {None}

\* _process_recovery: the loop decides on the listing alone, so which issues it
\* will resolve (matches) and which it counts as replays is known at once.
ListForRecovery(e) ==
    LET run == delivery[e].run
        matching == {x \in Listing : MatchesRecovery(x.metadata, Context[run])}
    IN  /\ pc[e] = "route"
        /\ ConclusionOf(delivery[e]) = "success"
        /\ Goto(e, "match")
        /\ known' = [known EXCEPT ![e] = Listing]
        /\ matches' = [matches EXCEPT ![e] =
               {x \in matching : /\ x.metadata.status # "resolved"
                                 /\ ~ContainsRecovery(x.metadata, run)}]
        /\ origins' = [origins EXCEPT ![e] = ReplayedOrigins(matching, run)]
        /\ UNCHANGED <<github, linear, delivery, events, left, resolved, subject,
                       target, budgets>>

\* The description and the state are replaced; the labels stay.
ResolveDefect(e) ==
    /\ pc[e] = "match"
    /\ \E x \in matches[e] :
        /\ Renderable(x.metadata)
        /\ defects' = [defects EXCEPT
               ![x.id].metadata = RecordRecovery(x.metadata, delivery[e].run),
               ![x.id].state = "done"]
        /\ subject' = [subject EXCEPT ![e] = x.id]
        /\ matches' = [matches EXCEPT ![e] = @ \ {x}]
        /\ origins' = [origins EXCEPT ![e] =
                          @ \cup ({x.metadata.originating_issue} \ {None})]
    /\ Goto(e, "recovered")
    /\ UNCHANGED <<github, origin, delivery, known, events, left, resolved, target,
                   budgets>>

ResolveRaises(e) ==
    /\ pc[e] = "match"
    /\ \E x \in matches[e] : ~Renderable(x.metadata)
    /\ Leave(e)
    /\ UNCHANGED <<runs, waiting, linear, budgets>>

NoteRecovery(e) ==
    /\ pc[e] = "recovered"
    /\ defects' = [defects EXCEPT ![subject[e]].recovered = Posted(@)]
    /\ resolved' = [resolved EXCEPT ![e] = @ \cup {subject[e]}]
    /\ Goto(e, "match")
    /\ UNCHANGED <<github, origin, delivery, known, events, left, matches, origins,
                   subject, target, budgets>>

FinishMatches(e) ==
    /\ pc[e] = "match"
    /\ matches[e] = {}
    /\ Goto(e, "resume")
    /\ UNCHANGED <<github, linear, delivery, known, events, left, matches, resolved,
                   origins, subject, target, budgets>>

StillOpenHere(e, o) ==
    \E x \in known[e] :
        /\ x.id \notin resolved[e]
        /\ x.metadata.originating_issue = o
        /\ MatchesRecovery(x.metadata, ContextOf(delivery[e]))
        /\ x.metadata.status # "resolved"

\* _resume_originating_issue: still_open, decided on the listing the run began
\* with, less the issues this run resolved.
StillOpen(e, o) ==
    \E x \in known[e] :
        /\ x.id \notin resolved[e]
        /\ x.metadata.originating_issue = o
        /\ x.metadata.pull_request_number = ContextOf(delivery[e]).pull_request_number
        /\ x.metadata.status # "resolved"

\* Still blocked, or the issue is gone, completed or cancelled.
LeaveOrigin(e) ==
    /\ pc[e] = "resume"
    /\ \E o \in origins[e] :
        /\ StillOpen(e, o) \/ origin[o] \in {"closed", "missing"}
        /\ origins' = [origins EXCEPT ![e] = @ \ {o}]
    /\ UNCHANGED <<github, linear, pc, delivery, known, events, left, matches,
                   resolved, subject, target, budgets>>

\* get_issue returned an issue that is neither completed nor cancelled.
FetchOrigin(e) ==
    /\ pc[e] = "resume"
    /\ \E o \in origins[e] :
        /\ ~StillOpen(e, o)
        /\ origin[o] \in {"active", "in_review"}
        /\ origins' = [origins EXCEPT ![e] = @ \ {o}]
        /\ target' = [target EXCEPT ![e] = o]
    /\ Goto(e, "origin")
    /\ UNCHANGED <<github, linear, delivery, known, events, left, matches, resolved,
                   subject, budgets>>

\* update_issue, whatever became of the issue since it was fetched.
ResumeOrigin(e) ==
    /\ pc[e] = "origin"
    /\ origin' = [origin EXCEPT ![target[e]] = "in_review"]
    /\ Goto(e, "resumed")
    /\ UNCHANGED <<github, defects, delivery, known, events, left, matches, resolved,
                   origins, subject, target, budgets>>

\* "Required CI recovered; autonomous remediation may resume review."
NoteResume(e) ==
    /\ pc[e] = "resumed"
    /\ Goto(e, "resume")
    /\ target' = [target EXCEPT ![e] = None]
    /\ UNCHANGED <<github, linear, delivery, known, events, left, matches, resolved,
                   origins, subject, budgets>>

FinishRecovery(e) ==
    /\ pc[e] = "resume"
    /\ origins[e] = {}
    /\ Leave(e)
    /\ UNCHANGED <<runs, waiting, linear, budgets>>

\* An API call fails, its response is lost, or the job is killed.  A mutation
\* that was applied although its response was lost is the mutation's step
\* followed by this one.
Die(e) ==
    /\ Active(e)
    /\ faults < MaxFaults
    /\ faults' = faults + 1
    /\ Leave(e)
    /\ UNCHANGED <<runs, waiting, linear, completions, replays, copies>>

-----------------------------------------------------------------------------

FailureStep(e) ==
    \/ ListForFailures(e) \/ RejectDuplicates(e) \/ ListJobs(e) \/ SkipObserved(e)
    \/ CreateDefect(e) \/ AnnounceDefect(e) \/ UpdateDefect(e) \/ NoteRecurrence(e)
    \/ UpdateRaises(e) \/ FinishFailures(e)

RecoveryStep(e) ==
    \/ ListForRecovery(e) \/ ResolveDefect(e) \/ ResolveRaises(e) \/ NoteRecovery(e)
    \/ FinishMatches(e)
    \/ LeaveOrigin(e) \/ FetchOrigin(e) \/ ResumeOrigin(e) \/ NoteResume(e)
    \/ FinishRecovery(e)

EngineStep(e) == Start(e) \/ Ignore(e) \/ FailureStep(e) \/ RecoveryStep(e)

Environment ==
    \/ \E r \in Runs : CompleteAttempt(r)
    \/ \E d \in Deliveries : Replay(d)
    \/ \E o \in Origins : MoveOrigin(o)
    \/ \E i \in 1..Len(defects) : CopyDefect(i)

Init ==
    /\ runs = [r \in Runs |-> <<>>]
    /\ waiting = None
    /\ ended = {}
    /\ defects = <<>>
    /\ origin \in [Origins -> {"active", "missing"}]
    /\ pc = [e \in Engines |-> "idle"]
    /\ delivery = [e \in Engines |-> None]
    /\ known = [e \in Engines |-> {}]
    /\ events = [e \in Engines |-> {}]
    /\ left = [e \in Engines |-> {}]
    /\ matches = [e \in Engines |-> {}]
    /\ resolved = [e \in Engines |-> {}]
    /\ origins = [e \in Engines |-> {}]
    /\ subject = [e \in Engines |-> 0]
    /\ target = [e \in Engines |-> None]
    /\ completions = 0
    /\ faults = 0
    /\ replays = 0
    /\ copies = 0

Next == Environment \/ \E e \in Engines : EngineStep(e) \/ Die(e)

Spec == Init /\ [][Next]_vars

\* A runner that hosts a feedback run keeps executing it.
Fairness == \A e \in Engines : WF_vars(EngineStep(e))

FairSpec == Spec /\ Fairness

-----------------------------------------------------------------------------
(* Type invariant *)

Checks == Jobs \cup {"workflow completion"}

ObservationKeys == [run : Runs, attempt : 0..MaxAttempts, job : Checks]

Fingerprints ==
    [workflow_id : Workflows, base_branch : Branches, signature : Signatures]

Metadata ==
    [fingerprint : Fingerprints,
     workflow_id : Workflows,
     branch : Branches,
     pull_request_number : PullRequests \cup {None},
     originating_issue : Origins \cup {None},
     recurrence_count : Nat,
     remediation_depth : Nat,
     status : {"open", "resolved"},
     observations : Seq(ObservationKeys),
     recovery_keys : Seq(Runs)]

IssueType ==
    [metadata : Metadata, state : DefectStates, labels : SUBSET Labels,
     announced : BOOLEAN, recurred : Nat, recovered : Nat]

EventType ==
    [observation_key : ObservationKeys,
     fingerprint : Fingerprints,
     workflow_id : Workflows,
     branch : Branches,
     pull_request_number : PullRequests \cup {None},
     originating_issue : Origins \cup {None},
     remediation_depth : Nat]

ListedType == [id : Nat \ {0}, metadata : Metadata]

FailurePhases == {"jobs", "event", "announce", "recurred"}

RecoveryPhases == {"match", "recovered", "resume", "origin", "resumed"}

Phases == {"idle", "route"} \cup FailurePhases \cup RecoveryPhases

Attempts == [conclusion : Conclusions, failed : SUBSET Jobs]

\* Type invariant: the shape of GitHub's, Linear's and the engines' state.
TypeOK ==
    /\ runs \in [Runs -> Seq(Attempts)]
    /\ \A r \in Runs : Len(runs[r]) <= MaxAttempts
    /\ waiting \in Deliveries \cup {None}
    /\ ended \in SUBSET Deliveries
    /\ defects \in Seq(IssueType)
    /\ origin \in [Origins -> OriginStates]
    /\ pc \in [Engines -> Phases]
    /\ delivery \in [Engines -> Deliveries \cup {None}]
    /\ known \in [Engines -> SUBSET ListedType]
    /\ events \in [Engines -> SUBSET EventType]
    /\ left \in [Engines -> SUBSET EventType]
    /\ matches \in [Engines -> SUBSET ListedType]
    /\ resolved \in [Engines -> SUBSET (Nat \ {0})]
    /\ origins \in [Engines -> SUBSET Origins]
    /\ subject \in [Engines -> Nat]
    /\ target \in [Engines -> Origins \cup {None}]
    /\ completions \in Nat /\ faults \in Nat /\ replays \in Nat /\ copies \in Nat

-----------------------------------------------------------------------------
(* Safety *)

\* The fingerprints that some issue carries.
Carried == {defects[i].metadata.fingerprint : i \in 1..Len(defects)}

\* One defect per fingerprint: whatever dies, is re-run or is copied, the engine never
\* opens a second issue for a failure that Linear already tracks ("deduplicated Linear
\* remediation work", action.yml).  Every further issue of a fingerprint is a copy.
UniqueDefect == Len(defects) = Cardinality(Carried) + copies

\* No lost update: what a run is about to overwrite is what it read, so a whole-
\* description update never erases an observation or a recovery written since.
NoLostUpdate ==
    \A e \in Engines :
        /\ pc[e] \in FailurePhases =>
              \A x \in known[e] : defects[x.id].metadata = x.metadata
        /\ pc[e] = "match" =>
              \A x \in matches[e] : defects[x.id].metadata = x.metadata

\* The recurrence count and the retained history agree: retained keys are
\* distinct, and until the window is full the count is their number.
ExactCount ==
    \A i \in 1..Len(defects) :
        LET m == defects[i].metadata
        IN  /\ \A a, b \in 1..Len(m.observations) :
                   m.observations[a] = m.observations[b] => a = b
            /\ Len(m.observations) =
                   IF m.recurrence_count < HistoryLimit THEN m.recurrence_count
                   ELSE HistoryLimit

\* The failures with fingerprint fp that GitHub can have shown the engine: the
\* failed jobs of every attempt, and one job-less failure per run.
Shown(fp) ==
    {k \in Runs \X (1..MaxAttempts) \X Jobs :
        /\ k[2] <= Len(runs[k[1]])
        /\ k[3] \in runs[k[1]][k[2]].failed
        /\ fp = Fingerprint(k[1], Signature[k[3]])}
    \cup
    {<<r, 0, "workflow completion">> : r \in
        {q \in Runs : fp = Fingerprint(q, "workflow completion")
                      /\ \E a \in 1..Len(runs[q]) : runs[q][a].conclusion = "failure"}}

\* Every failure counts once, however often its delivery is processed: the count
\* that drives escalation does not exceed the failures that happened before it
\* exceeds the window.  From then on a key has been forgotten, and a late re-run
\* of its delivery counts the same failure again.
CountedOnce ==
    \A i \in 1..Len(defects) :
        LET m == defects[i].metadata
        IN  \/ m.recurrence_count <= Cardinality(Shown(m.fingerprint))
            \/ /\ m.recurrence_count > HistoryLimit
               /\ HistoryLimit <= Cardinality(Shown(m.fingerprint))

\* What a failure run has gone through is in Linear: created, updated or already
\* there (or pushed out of a full window by later failures).
BatchRecorded ==
    \A e \in Engines :
        pc[e] \in FailurePhases =>
            \A event \in events[e] \ left[e] :
                \E i \in 1..Len(defects) :
                    LET m == defects[i].metadata
                    IN  /\ m.fingerprint = event.fingerprint
                        /\ \/ event.observation_key \in Retained(m.observations)
                           \/ Len(m.observations) = HistoryLimit

\* A resolved defect has its proof: the newest recovery key names a run of the
\* defect's workflow and pull request (or branch) with a successful attempt.
ResolvedJustified ==
    \A i \in 1..Len(defects) :
        LET m == defects[i].metadata
            r == m.recovery_keys[Len(m.recovery_keys)]
        IN  m.status = "resolved" =>
                /\ m.recovery_keys # <<>>
                /\ m.workflow_id = Context[r].workflow_id
                /\ m.pull_request_number = Context[r].pull_request_number
                /\ m.pull_request_number = None => m.branch = Context[r].branch
                /\ \E a \in 1..Len(runs[r]) : runs[r][a].conclusion = "success"

\* What the run of e can know of: every issue, save what was copied since it listed.
InView(e, i) == copies = 0 \/ \E x \in known[e] : x.id = i

\* After its resolving loop a recovery run leaves no matching defect open, save
\* those that carry the key of this very run: a success of a later attempt of
\* the same run counts as a replay and does not close what reopened in between.
RecoveryComplete ==
    \A e \in Engines :
        pc[e] \in {"resume", "origin", "resumed"} =>
            \A i \in 1..Len(defects) :
                LET m == defects[i].metadata
                IN  InView(e, i) /\ MatchesRecovery(m, ContextOf(delivery[e])) =>
                        \/ m.status = "resolved"
                        \/ delivery[e].run \in Retained(m.recovery_keys)

\* The engine moves an originating issue to review only when Linear holds no
\* open defect of that issue for the pull request whose workflow recovered.
ResumeUnblocked ==
    \A e \in Engines :
        pc[e] = "origin" =>
            \A i \in 1..Len(defects) :
                LET m == defects[i].metadata
                IN  ~ /\ InView(e, i)
                      /\ m.originating_issue = target[e]
                      /\ m.pull_request_number = ContextOf(delivery[e]).pull_request_number
                      /\ m.status = "open"

\* The crash between resolving and resuming is repaired by a re-run: once a recovery
\* run has listed, every issue blocked by a defect that this run's success resolved,
\* now or before an earlier delivery died, is among those it will look at.
ResumesAfterCrash ==
    \A e \in Engines :
        pc[e] \in {"match", "recovered"} =>
            \A i \in 1..Len(defects) :
                LET m == defects[i].metadata
                IN  /\ m.status = "resolved"
                    /\ m.originating_issue # None
                    /\ MatchesRecovery(m, ContextOf(delivery[e]))
                    /\ delivery[e].run \in Retained(m.recovery_keys)
                    => m.originating_issue \in origins[e]

\* A failure run works on an index with one issue per fingerprint, also when an
\* operator's copy has put a duplicate into the project.
IndexedOnce ==
    \A e \in Engines :
        pc[e] \in FailurePhases =>
            \A x, y \in known[e] :
                x.metadata.fingerprint = y.metadata.fingerprint => x = y

\* A defect for a job-less failure ("concluded failure without an actionable job
\* payload") names a run that had an attempt which failed without failed jobs.
FallbackMeansNoJobs ==
    \A i \in 1..Len(defects) :
        \A key \in Retained(defects[i].metadata.observations) :
            key.attempt = 0 =>
                \E a \in 1..Len(runs[key.run]) :
                    runs[key.run][a].conclusion = "failure" /\ runs[key.run][a].failed = {}

\* No older issue carries the fingerprint of issue i.
IsOldest(i) ==
    \A j \in 1..Len(defects) :
        defects[j].metadata.fingerprint = defects[i].metadata.fingerprint => i <= j

\* Comments follow the record: never more recurrence comments than recurrences,
\* and exactly as many, copies apart, when no run has died between an update and
\* its comment.
CommentsFollowRecord ==
    \A i \in 1..Len(defects) :
        LET owed == IF \E e \in Engines : pc[e] = "recurred" /\ subject[e] = i
                    THEN 1 ELSE 0
            recurrences == defects[i].metadata.recurrence_count - 1
        IN  /\ defects[i].recurred + owed <= recurrences
            /\ faults = 0 /\ IsOldest(i) => defects[i].recurred + owed = recurrences

(* Action properties *)

\* Hand-off to people is final: once a defect lost agent:eligible no step gives
\* it back, and a defect whose remediation depth is exhausted never returns to
\* the Todo queue, also when it reopens after a recovery.
HandoffSticky ==
    [][\A i \in 1..Len(defects) :
           /\ "agent:eligible" \notin defects[i].labels =>
                  "agent:eligible" \notin defects'[i].labels
           /\ DepthExhausted(defects[i].metadata) => defects'[i].state # "todo"]_vars

\* A completed run is converted: a feedback run no call of which failed goes through
\* every failure of its batch before it ends.
BatchFinished ==
    [][\A e \in Engines :
           pc[e] = "event" /\ pc'[e] = "idle" /\ faults' = faults => left[e] = {}]_vars

(* Liveness *)

\* A delivery in the group does not stay there: its feedback run ends, because
\* every loop of the engine ends and the group passes on.
DeliveriesEnd ==
    \A d \in Deliveries :
        (waiting = d \/ \E e \in Engines : delivery[e] = d) ~> d \in ended
=============================================================================
