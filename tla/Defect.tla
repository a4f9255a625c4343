------------------------------- MODULE Defect -------------------------------
(***************************************************************************)
(* The managed record of one CI defect and the pure decisions the feedback *)
(* engine takes on it: ci_feedback/model.py (DefectMetadata) and the       *)
(* policy helpers at the end of ci_feedback/service.py.                    *)
(*                                                                         *)
(* The record travels inside the description of a Linear issue.  Times,    *)
(* URLs, names and commit ids are left out: no decision of the engine      *)
(* reads them.  An observation is represented by its key, a recovery by    *)
(* the workflow run whose success it names (the recovery key is the        *)
(* repository, the run id and the word "success").  Of the text that is    *)
(* rendered around the record, the model keeps whether it can be written.  *)
(*                                                                         *)
(* A definition used nowhere that stands just before a similar one is a    *)
(* mutated form of it, a plausible bug a property of CiFeedback must catch.*)
(***************************************************************************)
EXTENDS Integers, Sequences, FiniteSets

CONSTANTS
    HistoryLimit,          \* policy.history_limit
    HumanReviewAfter,      \* policy.human_review_after
    SystemicAfter,         \* policy.systemic_after
    MaxRemediationDepth,   \* policy.max_remediation_depth
    None,                  \* Python's None: no pull request, no originating issue
    Unrenderable           \* names of jobs with a backslash that re.sub rejects

\* What load_config enforces: positive integers, and the cross-field checks.
ASSUME PolicyAssumption ==
    /\ HistoryLimit \in Nat \ {0}
    /\ HumanReviewAfter \in Nat \ {0}
    /\ SystemicAfter \in Nat \ {0}
    /\ MaxRemediationDepth \in Nat \ {0}
    /\ HumanReviewAfter < SystemicAfter
    /\ SystemicAfter <= HistoryLimit

\* The labels that depend on the record (category and severity do not).
Labels == {"agent:eligible", "recurring", "agent:human-review-required", "needs-triage"}

RetainOneMore(s) ==
    IF Len(s) > HistoryLimit + 1 THEN SubSeq(s, Len(s) - HistoryLimit, Len(s)) ELSE s

\* s[-HistoryLimit:], the newest entries of a list.
Retain(s) ==
    IF Len(s) > HistoryLimit THEN SubSeq(s, Len(s) - HistoryLimit + 1, Len(s)) ELSE s

Retained(s) == {s[i] : i \in 1..Len(s)}

\* DefectMetadata.from_event
FromEvent(event) ==
    [fingerprint         |-> event.fingerprint,
     workflow_id         |-> event.workflow_id,
     branch              |-> event.branch,
     pull_request_number |-> event.pull_request_number,
     originating_issue   |-> event.originating_issue,
     recurrence_count    |-> 1,
     remediation_depth   |-> event.remediation_depth,
     status              |-> "open",
     observations        |-> <<event.observation_key>>,
     recovery_keys       |-> <<>>]

SameRunObserved(metadata, key) ==
    \E known \in Retained(metadata.observations) : known.run = key.run
NewestObserved(metadata, key) ==
    key = metadata.observations[Len(metadata.observations)]

\* DefectMetadata.contains_observation; record_failure returns False on it.
ContainsObservation(metadata, key) == key \in Retained(metadata.observations)

RecordFailureLatestDepth(metadata, event) ==
    [metadata EXCEPT
        !.recurrence_count    = @ + 1,
        !.status              = "open",
        !.pull_request_number = event.pull_request_number,
        !.remediation_depth   = event.remediation_depth,
        !.observations        = Retain(Append(@, event.observation_key))]

\* DefectMetadata.record_failure, the branch that returns True.
RecordFailure(metadata, event) ==
    [metadata EXCEPT
        !.recurrence_count    = @ + 1,
        !.status              = "open",
        !.branch              = event.branch,
        !.pull_request_number = event.pull_request_number,
        !.originating_issue   = IF event.originating_issue # None
                                THEN event.originating_issue ELSE @,
        !.remediation_depth   = IF event.remediation_depth > @
                                THEN event.remediation_depth ELSE @,
        !.observations        = Retain(Append(@, event.observation_key))]

RecoveredBefore(metadata, run) == metadata.recovery_keys # <<>>

\* DefectMetadata.record_recovery returns False when the key is retained ...
ContainsRecovery(metadata, run) == run \in Retained(metadata.recovery_keys)

RecordRecoveryReset(metadata, run) ==
    [metadata EXCEPT
        !.status           = "resolved",
        !.recurrence_count = 0,
        !.recovery_keys    = Retain(Append(@, run))]

\* ... and otherwise resolves the defect.
RecordRecovery(metadata, run) ==
    [metadata EXCEPT
        !.status        = "resolved",
        !.recovery_keys = Retain(Append(@, run))]

\* The observations _render_managed_description lists: metadata.observations[-10:].
Evidence(metadata) ==
    LET n == Len(metadata.observations)
    IN  {metadata.observations[i] : i \in (IF n > 10 THEN n - 9 ELSE 1)..n}

\* replace_managed_description hands the rendered block to re.sub as a TEMPLATE,
\* where a backslash of a job name (a Windows path, say) is a bad escape and raises.
\* The first description of an issue is not substituted, so it can be written.
Renderable(metadata) == \A key \in Evidence(metadata) : key.job \notin Unrenderable

\* max_remediation_depth reached: the remediation loop must stop.
DepthExhausted(metadata) == metadata.remediation_depth >= MaxRemediationDepth

NeedsHuman(metadata) ==
    metadata.recurrence_count >= HumanReviewAfter \/ DepthExhausted(metadata)

\* FeedbackService._desired_labels
DesiredLabels(metadata) ==
    {l \in Labels :
        \/ l = "agent:eligible" /\ ~NeedsHuman(metadata)
        \/ l = "agent:human-review-required" /\ NeedsHuman(metadata)
        \/ l = "recurring" /\ metadata.recurrence_count > 1
        \/ /\ l = "needs-triage"
           /\ metadata.recurrence_count >= SystemicAfter \/ DepthExhausted(metadata)}

\* FeedbackService._state_for
StateFor(metadata) == IF DepthExhausted(metadata) THEN "escalated" ELSE "todo"

MatchesBranch(metadata, context) ==
    metadata.workflow_id = context.workflow_id /\ metadata.branch = context.branch

\* FeedbackService._matches_recovery, within one repository.
MatchesRecovery(metadata, context) ==
    /\ metadata.workflow_id = context.workflow_id
    /\ IF metadata.pull_request_number # None \/ context.pull_request_number # None
       THEN metadata.pull_request_number = context.pull_request_number
       ELSE metadata.branch = context.branch
=============================================================================
