-------------------------- MODULE CiFeedbackProofs --------------------------
(***************************************************************************)
(* Proofs about the feedback engine for every set of runs, jobs, pull      *)
(* requests and engines, every policy and every bound of the environment.  *)
(***************************************************************************)
EXTENDS CiFeedback, SequenceTheorems, FiniteSetTheorems, TLAPS

-----------------------------------------------------------------------------
(* The record and its operations *)

\* The newest entries of a list are entries of it, HistoryLimit of them at most.
LEMMA RetainType ==
    ASSUME NEW S, NEW s \in Seq(S)
    PROVE  /\ Retain(s) \in Seq(S)
           /\ Len(Retain(s)) = IF Len(s) > HistoryLimit THEN HistoryLimit ELSE Len(s)
<1> USE PolicyAssumption
<1> Len(s) \in Nat /\ \A i \in 1..Len(s) : s[i] \in S
    BY ElementOfSeq, LenProperties
<1>1. CASE Len(s) > HistoryLimit
    <2> DEFINE m == Len(s) - HistoryLimit + 1
    <2>1. m \in Int /\ Len(s) \in Int /\ m \in 1..Len(s)
        BY <1>1
    <2>2. \A i \in m..Len(s) : s[i] \in S
        BY <2>1
    <2>3. /\ SubSeq(s, m, Len(s)) \in Seq(S)
          /\ Len(SubSeq(s, m, Len(s))) = Len(s) - m + 1
        <3> HIDE DEF m
        <3> QED BY <2>1, <2>2, SubSeqProperties
    <2> QED BY <1>1, <2>1, <2>3 DEF Retain
<1>2. CASE ~(Len(s) > HistoryLimit)
    BY <1>2 DEF Retain
<1> QED BY <1>1, <1>2

LEMMA FromEventType ==
    ASSUME NEW event \in EventType
    PROVE  FromEvent(event) \in Metadata
BY DEF FromEvent, EventType, Metadata

\* record_failure keeps the record's type and never its place in the index.  The
\* record is written one field at a time, as EXCEPT does it.
LEMMA RecordFailureType ==
    ASSUME NEW m \in Metadata, NEW event \in EventType
    PROVE  /\ RecordFailure(m, event) \in Metadata
           /\ RecordFailure(m, event).fingerprint = m.fingerprint
           /\ RecordFailure(m, event).recurrence_count = m.recurrence_count + 1
           /\ RecordFailure(m, event).observations =
                  Retain(Append(m.observations, event.observation_key))
<1> DEFINE m1 == [m EXCEPT !.recurrence_count = @ + 1]
           m2 == [m1 EXCEPT !.status = "open"]
           m3 == [m2 EXCEPT !.branch = event.branch]
           m4 == [m3 EXCEPT !.pull_request_number = event.pull_request_number]
           m5 == [m4 EXCEPT !.originating_issue = IF event.originating_issue # None
                                                  THEN event.originating_issue ELSE @]
           m6 == [m5 EXCEPT !.remediation_depth = IF event.remediation_depth > @
                                                  THEN event.remediation_depth ELSE @]
           m7 == [m6 EXCEPT !.observations = Retain(Append(@, event.observation_key))]
           Kept(n) == /\ n \in Metadata
                      /\ n.fingerprint = m.fingerprint
                      /\ n.recurrence_count = m.recurrence_count + 1
                      /\ n.observations = m.observations
<1>1. Kept(m1) BY DEF Metadata
<1>2. Kept(m2) BY <1>1 DEF Metadata
<1>3. Kept(m3) BY <1>2 DEF Metadata, EventType
<1>4. Kept(m4) BY <1>3 DEF Metadata, EventType
<1>5. Kept(m5) BY <1>4 DEF Metadata, EventType
<1>6. Kept(m6) BY <1>5 DEF Metadata, EventType
<1>7. Retain(Append(m.observations, event.observation_key)) \in Seq(ObservationKeys)
    <2>1. Append(m.observations, event.observation_key) \in Seq(ObservationKeys)
        BY AppendProperties DEF Metadata, EventType
    <2> QED BY <2>1, RetainType
<1>8. /\ m7 \in Metadata
      /\ m7.fingerprint = m.fingerprint
      /\ m7.recurrence_count = m.recurrence_count + 1
      /\ m7.observations = Retain(Append(m.observations, event.observation_key))
    <2> HIDE DEF m6
    <2> QED BY <1>6, <1>7 DEF Metadata
<1>9. m7 = RecordFailure(m, event)
    BY DEF RecordFailure
<1> QED BY <1>8, <1>9

LEMMA RecordRecoveryType ==
    ASSUME NEW m \in Metadata, NEW run \in Runs
    PROVE  /\ RecordRecovery(m, run) \in Metadata
           /\ RecordRecovery(m, run).fingerprint = m.fingerprint
<1>1. Append(m.recovery_keys, run) \in Seq(Runs)
    BY AppendProperties DEF Metadata
<1>2. Retain(Append(m.recovery_keys, run)) \in Seq(Runs)
    BY <1>1, RetainType
<1> QED BY <1>2 DEF RecordRecovery, Metadata

LEMMA IssueTypes ==
    ASSUME NEW m \in Metadata
    PROVE  /\ StateFor(m) \in DefectStates
           /\ DesiredLabels(m) \in SUBSET Labels
           /\ Issue(m) \in IssueType
           /\ Issue(m).metadata = m
BY DEF StateFor, DefectStates, DesiredLabels, Issue, IssueType

-----------------------------------------------------------------------------
(* The inductive invariant *)

\* Whatever is in the concurrency group, or was, is an attempt GitHub completed.
Delivered ==
    /\ waiting # None => waiting.attempt <= Len(runs[waiting.run])
    /\ \A d \in ended : d.attempt <= Len(runs[d.run])
    /\ \A e \in Engines :
           Active(e) => /\ delivery[e] \in Deliveries
                        /\ delivery[e].attempt <= Len(runs[delivery[e].run])

\* The concurrency group does its work: one feedback run at a time.
Serial == \A e, f \in Engines : Active(e) /\ Active(f) => e = f

Current(x) == x.id \in 1..Len(defects) /\ defects[x.id].metadata = x.metadata

\* x is an issue of the same fingerprint as issue i, and no younger.
Represents(x, i) ==
    x.id <= i /\ x.metadata.fingerprint = defects[i].metadata.fingerprint

\* The index of a failure run is what Linear holds, and each fingerprint of it.  An
\* issue that was copied since the listing stands for its copy.
IndexFresh(e) ==
    pc[e] \in FailurePhases =>
        /\ \A x \in known[e] : Current(x)
        /\ \A i \in 1..Len(defects) : \E x \in known[e] : Represents(x, i)

\* What a recovery run has still to resolve is as it was listed.
MatchesFresh(e) ==
    pc[e] \in {"match", "recovered"} => \A x \in matches[e] : Current(x)

\* The issue a run is about to comment on, or to move, exists.
Aimed(e) ==
    /\ pc[e] \in {"announce", "recurred", "recovered"} => subject[e] \in 1..Len(defects)
    /\ pc[e] \in {"origin", "resumed"} => target[e] \in Origins

IInv ==
    /\ TypeOK
    /\ Delivered
    /\ Serial
    /\ \A e \in Engines : IndexFresh(e) /\ MatchesFresh(e) /\ Aimed(e)
    /\ UniqueDefect

LEMMA InitIInv == Init => IInv
<1> SUFFICES ASSUME Init PROVE IInv
    OBVIOUS
<1> USE DEF Init
<1>1. TypeOK
    <2>1. runs \in [Runs -> Seq(Attempts)] /\ \A r \in Runs : Len(runs[r]) <= MaxAttempts
        BY BoundsAssumption
    <2>2. origin \in [Origins -> OriginStates]
        BY DEF OriginStates
    <2>3. /\ waiting \in Deliveries \cup {None} /\ ended \in SUBSET Deliveries
          /\ defects \in Seq(IssueType)
        OBVIOUS
    <2>4. /\ pc \in [Engines -> Phases]
          /\ delivery \in [Engines -> Deliveries \cup {None}]
          /\ known \in [Engines -> SUBSET ListedType]
          /\ events \in [Engines -> SUBSET EventType]
          /\ left \in [Engines -> SUBSET EventType]
          /\ matches \in [Engines -> SUBSET ListedType]
        BY DEF Phases
    <2>5. /\ resolved \in [Engines -> SUBSET (Nat \ {0})]
          /\ origins \in [Engines -> SUBSET Origins]
          /\ subject \in [Engines -> Nat]
          /\ target \in [Engines -> Origins \cup {None}]
          /\ completions \in Nat /\ faults \in Nat /\ replays \in Nat /\ copies \in Nat
        OBVIOUS
    <2> QED BY <2>1, <2>2, <2>3, <2>4, <2>5 DEF TypeOK
<1>2. Delivered /\ Serial
    BY DEF Delivered, Serial, Active
<1>3. \A e \in Engines : IndexFresh(e) /\ MatchesFresh(e) /\ Aimed(e)
    BY DEF IndexFresh, MatchesFresh, Aimed, FailurePhases
<1>4. UniqueDefect
    <2>1. Carried = {}
        BY DEF Carried
    <2> QED BY <2>1, FS_EmptySet DEF UniqueDefect
<1> QED BY <1>1, <1>2, <1>3, <1>4 DEF IInv

-----------------------------------------------------------------------------
(* Steps that end a feedback run *)

\* However a feedback run ends, it forgets everything and touches no issue.
LEMMA LeaveStep ==
    ASSUME IInv, NEW e \in Engines, Active(e), Leave(e),
           UNCHANGED <<runs, waiting, linear, completions, replays, copies>>,
           faults' \in Nat
    PROVE  IInv'
<1> USE DEF IInv
<1>1. delivery[e] \in Deliveries /\ delivery[e].attempt <= Len(runs[delivery[e].run])
    BY DEF Delivered
<1>2. TypeOK'
    BY <1>1 DEF TypeOK, Leave, linear, Phases
<1>3. Delivered'
    BY <1>1 DEF Delivered, Leave, Active, TypeOK
<1>4. Serial'
    BY DEF Serial, Leave, Active, TypeOK
<1>5. ASSUME NEW f \in Engines
      PROVE  IndexFresh(f)' /\ MatchesFresh(f)' /\ Aimed(f)'
    BY DEF IndexFresh, Represents, MatchesFresh, Aimed, Leave, Current, TypeOK, linear,
           FailurePhases
<1>6. UniqueDefect'
    BY DEF UniqueDefect, Carried, linear
<1> QED BY <1>2, <1>3, <1>4, <1>5, <1>6

LEMMA EndingSteps ==
    ASSUME IInv, NEW e \in Engines,
           Ignore(e) \/ RejectDuplicates(e) \/ FinishFailures(e)
               \/ UpdateRaises(e) \/ ResolveRaises(e)
               \/ FinishRecovery(e) \/ Die(e)
    PROVE  IInv'
<1>1. Active(e) /\ Leave(e)
    BY DEF Ignore, RejectDuplicates, FinishFailures, UpdateRaises, ResolveRaises,
           FinishRecovery, Die, Active
<1>2. UNCHANGED <<runs, waiting, linear, completions, replays, copies>>
    BY DEF Ignore, RejectDuplicates, FinishFailures, UpdateRaises, ResolveRaises,
           FinishRecovery, Die, budgets
<1>3. faults' \in Nat
    BY DEF Ignore, RejectDuplicates, FinishFailures, UpdateRaises, ResolveRaises,
           FinishRecovery, Die, budgets,
           IInv, TypeOK
<1> QED BY <1>1, <1>2, <1>3, LeaveStep

-----------------------------------------------------------------------------
(* Steps that read Linear and GitHub *)

\* A listing is typed, current and complete.
LEMMA ListingFacts ==
    ASSUME TypeOK
    PROVE  /\ Listing \in SUBSET ListedType
           /\ \A x \in Listing : Current(x)
           /\ \A i \in 1..Len(defects) : \E x \in Listing : x.id = i
<1>1. defects \in Seq(IssueType) /\ Len(defects) \in Nat
    BY LenProperties DEF TypeOK
<1>2. ASSUME NEW i \in 1..Len(defects)
      PROVE  [id |-> i, metadata |-> defects[i].metadata] \in ListedType
    <2>1. defects[i] \in IssueType
        BY <1>1, ElementOfSeq
    <2> QED BY <1>1, <2>1 DEF IssueType, ListedType
<1>3. \A i \in 1..Len(defects) : [id |-> i, metadata |-> defects[i].metadata] \in Listing
    BY DEF Listing
<1>4. \A x \in Listing : x \in ListedType /\ Current(x)
    BY <1>2 DEF Listing, Current
<1> QED BY <1>3, <1>4

\* Every event built from the jobs GitHub lists is well-formed, the fallback's too.
LEMMA FailureEventsType ==
    ASSUME TypeOK, NEW d \in Deliveries, d.attempt <= Len(runs[d.run])
    PROVE  FailureEvents(d) \in SUBSET EventType
<1> DEFINE latest == Len(runs[d.run])
           failed == runs[d.run][latest].failed
<1>1. d.run \in Runs /\ d.attempt \in 1..MaxAttempts
    BY DEF Deliveries
<1>2. latest \in 1..MaxAttempts /\ failed \in SUBSET Jobs
    <2>1. latest \in Nat /\ latest <= MaxAttempts
        BY <1>1, LenProperties DEF TypeOK
    <2>2. latest \in 1..Len(runs[d.run])
        BY <1>1, <2>1
    <2>3. runs[d.run][latest] \in Attempts
        BY <1>1, <2>2, ElementOfSeq DEF TypeOK
    <2> QED BY <2>1, <2>2, <2>3, BoundsAssumption DEF Attempts
<1> USE DEF FailureEvent, EventType, ObservationKeys, Fingerprint, Fingerprints, Checks
<1>3. ASSUME NEW a \in 0..MaxAttempts, NEW j \in Jobs
      PROVE  FailureEvent(d.run, a, j, Signature[j]) \in EventType
    BY <1>1, ContextAssumption
<1>4. \A j \in failed : FailureEvent(d.run, latest, j, Signature[j]) \in EventType
    <2> HIDE DEF latest, failed, FailureEvent, EventType
    <2>1. latest \in 0..MaxAttempts
        BY <1>2, BoundsAssumption
    <2> QED BY <1>2, <1>3, <2>1
<1>5. FailureEvent(d.run, 0, "workflow completion", "workflow completion") \in EventType
    <2> DEFINE c == "workflow completion"
    <2>1. c \in Checks
        BY Zenon
    <2>2. c \in Signatures
        BY Zenon, ContextAssumption
    <2>3. 0 \in 0..MaxAttempts
        BY BoundsAssumption
    <2> HIDE DEF c, Checks
    <2>4. FailureEvent(d.run, 0, c, c) \in EventType
        BY <1>1, <2>1, <2>2, <2>3, ContextAssumption
    <2> QED BY <2>4 DEF c
<1> HIDE DEF FailureEvent, EventType
<1> QED BY <1>4, <1>5 DEF FailureEvents

\* A step of one feedback run that leaves Linear's defects and GitHub's attempts
\* alone disturbs nobody else: only its own promises are left to show.
LEMMA LocalStep ==
    ASSUME IInv, NEW e \in Engines, TypeOK',
           Active(e) \/ GroupFree,
           UNCHANGED <<runs, defects, copies, ended>>,
           waiting' \in {waiting, None},
           \A f \in Engines \ {e} :
               /\ pc'[f] = pc[f] /\ delivery'[f] = delivery[f] /\ known'[f] = known[f]
               /\ matches'[f] = matches[f] /\ subject'[f] = subject[f]
               /\ target'[f] = target[f],
           delivery'[e] \in Deliveries,
           delivery'[e].attempt <= Len(runs[delivery'[e].run]),
           IndexFresh(e)', MatchesFresh(e)', Aimed(e)'
    PROVE  IInv'
<1> USE DEF IInv
<1>1. Delivered'
    BY DEF Delivered, Active
<1>2. Serial'
    BY DEF Serial, GroupFree, Active
<1>3. ASSUME NEW f \in Engines \ {e}
      PROVE  IndexFresh(f)' /\ MatchesFresh(f)' /\ Aimed(f)'
    BY <1>3 DEF IndexFresh, Represents, MatchesFresh, Aimed, Current
<1>4. UniqueDefect'
    BY DEF UniqueDefect, Carried
<1> QED BY <1>1, <1>2, <1>3, <1>4

LEMMA StartStep ==
    ASSUME IInv, NEW e \in Engines, Start(e)
    PROVE  IInv'
<1> USE DEF IInv, Start, Goto, linear, budgets
<1>1. TypeOK'
    BY DEF TypeOK, Phases
<1>2. delivery'[e] \in Deliveries /\ delivery'[e].attempt <= Len(runs[delivery'[e].run])
    BY DEF TypeOK, Delivered
<1>3. IndexFresh(e)' /\ MatchesFresh(e)' /\ Aimed(e)'
    BY DEF IndexFresh, MatchesFresh, Aimed, TypeOK, FailurePhases
<1> QED BY <1>1, <1>2, <1>3, LocalStep DEF TypeOK

LEMMA ListForFailuresStep ==
    ASSUME IInv, NEW e \in Engines, ListForFailures(e)
    PROVE  IInv'
<1> USE DEF IInv, ListForFailures, Goto, github, linear, budgets
<1>1. TypeOK'
    BY ListingFacts DEF TypeOK, Phases, FailurePhases
<1>2. Active(e) /\ delivery[e] \in Deliveries /\ delivery[e].attempt <= Len(runs[delivery[e].run])
    BY DEF Delivered, Active
<1>3. IndexFresh(e)'
    <2>1. known'[e] = Listing
        BY DEF TypeOK
    <2>2. \A i \in 1..Len(defects) : i \in Int /\ i <= i
        OBVIOUS
    <2>3. \A x \in Listing : Current(x)'
        BY ListingFacts DEF Current
    <2>4. \A i \in 1..Len(defects) : \E x \in Listing : Represents(x, i)'
        BY <2>2, ListingFacts DEF Current, Represents
    <2> QED BY <2>1, <2>3, <2>4 DEF IndexFresh
<1>4. MatchesFresh(e)' /\ Aimed(e)'
    BY DEF MatchesFresh, Aimed, TypeOK
<1> QED BY <1>1, <1>2, <1>3, <1>4, LocalStep DEF TypeOK

LEMMA ListJobsStep ==
    ASSUME IInv, NEW e \in Engines, ListJobs(e)
    PROVE  IInv'
<1> USE DEF IInv, ListJobs, Goto, github, linear, budgets
<1>1. Active(e) /\ delivery[e] \in Deliveries /\ delivery[e].attempt <= Len(runs[delivery[e].run])
    BY DEF Delivered, Active
<1>2. FailureEvents(delivery[e]) \in SUBSET EventType
    BY <1>1, FailureEventsType
<1>3. TypeOK'
    BY <1>2 DEF TypeOK, Phases, FailurePhases
<1>4. IndexFresh(e)' /\ MatchesFresh(e)' /\ Aimed(e)'
    BY DEF IndexFresh, Represents, MatchesFresh, Aimed, TypeOK, FailurePhases, Current
<1> QED BY <1>1, <1>3, <1>4, LocalStep DEF TypeOK

LEMMA SkipObservedStep ==
    ASSUME IInv, NEW e \in Engines, SkipObserved(e)
    PROVE  IInv'
<1> USE DEF IInv, SkipObserved, github, linear, budgets
<1>1. TypeOK'
    BY DEF TypeOK
<1>2. Active(e) /\ delivery[e] \in Deliveries /\ delivery[e].attempt <= Len(runs[delivery[e].run])
    BY DEF Delivered, Active
<1>3. IndexFresh(e)' /\ MatchesFresh(e)' /\ Aimed(e)'
    BY DEF IndexFresh, Represents, MatchesFresh, Aimed, Current
<1> QED BY <1>1, <1>2, <1>3, LocalStep

LEMMA ListForRecoveryStep ==
    ASSUME IInv, NEW e \in Engines, ListForRecovery(e)
    PROVE  IInv'
<1> USE DEF IInv, ListForRecovery, Goto, github, linear, budgets
<1>1. Active(e) /\ delivery[e] \in Deliveries /\ delivery[e].attempt <= Len(runs[delivery[e].run])
    BY DEF Delivered, Active
<1>2. /\ matches'[e] \in SUBSET Listing
      /\ \A f \in Engines \ {e} : matches'[f] = matches[f]
      /\ matches' \in [Engines -> SUBSET ListedType]
    BY ListingFacts DEF TypeOK
<1>3. origins' \in [Engines -> SUBSET Origins]
    <2>1. \A x \in Listing : x.metadata.originating_issue \in Origins \cup {None}
        BY ListingFacts DEF ListedType, Metadata
    <2> QED BY <2>1 DEF TypeOK, ReplayedOrigins
<1>4. known' \in [Engines -> SUBSET ListedType] /\ pc' \in [Engines -> Phases]
    BY ListingFacts DEF TypeOK, Phases, RecoveryPhases
<1>5. TypeOK'
    BY <1>2, <1>3, <1>4 DEF TypeOK
<1>6. IndexFresh(e)' /\ MatchesFresh(e)' /\ Aimed(e)'
    BY <1>2, ListingFacts
       DEF IndexFresh, MatchesFresh, Aimed, TypeOK, FailurePhases, Current
<1> QED BY <1>1, <1>2, <1>5, <1>6, LocalStep DEF TypeOK

LEMMA FinishMatchesStep ==
    ASSUME IInv, NEW e \in Engines, FinishMatches(e)
    PROVE  IInv'
<1> USE DEF IInv, FinishMatches, Goto, github, linear, budgets
<1>1. TypeOK'
    BY DEF TypeOK, Phases, RecoveryPhases
<1>2. Active(e) /\ delivery[e] \in Deliveries /\ delivery[e].attempt <= Len(runs[delivery[e].run])
    BY DEF Delivered, Active
<1>3. IndexFresh(e)' /\ MatchesFresh(e)' /\ Aimed(e)'
    BY DEF IndexFresh, MatchesFresh, Aimed, TypeOK, FailurePhases
<1> QED BY <1>1, <1>2, <1>3, LocalStep DEF TypeOK

LEMMA LeaveOriginStep ==
    ASSUME IInv, NEW e \in Engines, LeaveOrigin(e)
    PROVE  IInv'
<1> USE DEF IInv, LeaveOrigin, github, linear, budgets
<1>1. TypeOK'
    BY DEF TypeOK
<1>2. Active(e) /\ delivery[e] \in Deliveries /\ delivery[e].attempt <= Len(runs[delivery[e].run])
    BY DEF Delivered, Active
<1>3. IndexFresh(e)' /\ MatchesFresh(e)' /\ Aimed(e)'
    BY DEF IndexFresh, MatchesFresh, Aimed, FailurePhases
<1> QED BY <1>1, <1>2, <1>3, LocalStep

LEMMA FetchOriginStep ==
    ASSUME IInv, NEW e \in Engines, FetchOrigin(e)
    PROVE  IInv'
<1> USE DEF IInv, FetchOrigin, Goto, github, linear, budgets
<1>1. TypeOK'
    BY DEF TypeOK, Phases, RecoveryPhases
<1>2. Active(e) /\ delivery[e] \in Deliveries /\ delivery[e].attempt <= Len(runs[delivery[e].run])
    BY DEF Delivered, Active
<1>3. IndexFresh(e)' /\ MatchesFresh(e)' /\ Aimed(e)'
    BY DEF IndexFresh, MatchesFresh, Aimed, TypeOK, FailurePhases
<1> QED BY <1>1, <1>2, <1>3, LocalStep DEF TypeOK

LEMMA ResumeOriginStep ==
    ASSUME IInv, NEW e \in Engines, ResumeOrigin(e)
    PROVE  IInv'
<1> USE DEF IInv, ResumeOrigin, Goto, github, budgets
<1>1. TypeOK'
    BY DEF TypeOK, Phases, RecoveryPhases, OriginStates
<1>2. Active(e) /\ delivery[e] \in Deliveries /\ delivery[e].attempt <= Len(runs[delivery[e].run])
    BY DEF Delivered, Active
<1>3. IndexFresh(e)' /\ MatchesFresh(e)' /\ Aimed(e)'
    BY DEF IndexFresh, MatchesFresh, Aimed, TypeOK, FailurePhases
<1> QED BY <1>1, <1>2, <1>3, LocalStep DEF TypeOK

LEMMA NoteResumeStep ==
    ASSUME IInv, NEW e \in Engines, NoteResume(e)
    PROVE  IInv'
<1> USE DEF IInv, NoteResume, Goto, github, linear, budgets
<1>1. TypeOK'
    BY DEF TypeOK, Phases, RecoveryPhases
<1>2. Active(e) /\ delivery[e] \in Deliveries /\ delivery[e].attempt <= Len(runs[delivery[e].run])
    BY DEF Delivered, Active
<1>3. IndexFresh(e)' /\ MatchesFresh(e)' /\ Aimed(e)'
    BY DEF IndexFresh, MatchesFresh, Aimed, TypeOK, FailurePhases
<1> QED BY <1>1, <1>2, <1>3, LocalStep DEF TypeOK

-----------------------------------------------------------------------------
(* Steps of GitHub and of people *)

LEMMA CompleteAttemptStep ==
    ASSUME IInv, NEW r \in Runs, CompleteAttempt(r)
    PROVE  IInv'
<1> USE DEF IInv, CompleteAttempt, Admit, Cancelled, linear, local
<1>1. runs[r] \in Seq(Attempts) /\ Len(runs[r]) \in Nat /\ Len(runs[r]) + 1 \in 1..MaxAttempts
    <2>1. runs[r] \in Seq(Attempts) /\ Len(runs[r]) \in Nat
        BY LenProperties DEF TypeOK
    <2> QED BY <2>1, BoundsAssumption
<1>2. PICK a \in Attempts : runs' = [runs EXCEPT ![r] = Append(@, a)]
    BY DEF Attempts
<1>3. Append(runs[r], a) \in Seq(Attempts) /\ Len(Append(runs[r], a)) = Len(runs[r]) + 1
    BY <1>1, AppendProperties
<1>4. /\ runs' \in [Runs -> Seq(Attempts)]
      /\ Len(runs'[r]) = Len(runs[r]) + 1
      /\ \A q \in Runs \ {r} : runs'[q] = runs[q]
    BY <1>2, <1>3 DEF TypeOK
<1>5. \A q \in Runs : Len(runs'[q]) <= MaxAttempts
    BY <1>1, <1>4 DEF TypeOK
<1>6. waiting' \in Deliveries /\ waiting'.attempt <= Len(runs'[waiting'.run])
    BY <1>1, <1>4 DEF Deliveries
<1>7. TypeOK'
    BY <1>4, <1>5, <1>6 DEF TypeOK
<1>8. \A d \in Deliveries : d.attempt <= Len(runs[d.run]) => d.attempt <= Len(runs'[d.run])
    BY <1>1, <1>4 DEF Deliveries
<1>9. Delivered'
    BY <1>6, <1>8 DEF Delivered, Active, TypeOK
<1>10. Serial' /\ UniqueDefect'
    <2>1. defects' = defects /\ copies' = copies /\ pc' = pc
        OBVIOUS
    <2>2. UniqueDefect'
        BY <2>1 DEF UniqueDefect, Carried
    <2> QED BY <2>1, <2>2 DEF Serial, Active
<1>11. ASSUME NEW f \in Engines
       PROVE  IndexFresh(f)' /\ MatchesFresh(f)' /\ Aimed(f)'
    BY DEF IndexFresh, Represents, MatchesFresh, Aimed, Current
<1> QED BY <1>7, <1>9, <1>10, <1>11

LEMMA ReplayStep ==
    ASSUME IInv, NEW d \in Deliveries, Replay(d)
    PROVE  IInv'
<1> USE DEF IInv, Replay, Admit, Cancelled, linear, local
<1>1. TypeOK'
    BY DEF TypeOK
<1>2. Delivered'
    BY DEF Delivered, Active, TypeOK
<1>3. Serial' /\ UniqueDefect'
    BY DEF Serial, Active, UniqueDefect, Carried
<1>4. ASSUME NEW f \in Engines
      PROVE  IndexFresh(f)' /\ MatchesFresh(f)' /\ Aimed(f)'
    BY DEF IndexFresh, Represents, MatchesFresh, Aimed, Current
<1> QED BY <1>1, <1>2, <1>3, <1>4

LEMMA MoveOriginStep ==
    ASSUME IInv, NEW o \in Origins, MoveOrigin(o)
    PROVE  IInv'
<1> USE DEF IInv, MoveOrigin, github, local, budgets
<1>1. TypeOK'
    BY DEF TypeOK, OriginStates
<1>2. Delivered'
    BY DEF Delivered, Active
<1>3. Serial' /\ UniqueDefect'
    BY DEF Serial, Active, UniqueDefect, Carried
<1>4. ASSUME NEW f \in Engines
      PROVE  IndexFresh(f)' /\ MatchesFresh(f)' /\ Aimed(f)'
    BY DEF IndexFresh, Represents, MatchesFresh, Aimed, Current
<1> QED BY <1>1, <1>2, <1>3, <1>4

LEMMA CarriedFinite ==
    ASSUME TypeOK
    PROVE  IsFiniteSet(Carried) /\ Cardinality(Carried) \in Nat
<1> DEFINE f == [i \in 1..Len(defects) |-> defects[i].metadata.fingerprint]
<1>1. Len(defects) \in Nat
    BY LenProperties DEF TypeOK
<1>2. f \in Surjection(1..Len(defects), Carried)
    BY DEF Carried, Surjection
<1>3. IsFiniteSet(1..Len(defects))
    BY <1>1, FS_Interval
<1> QED BY <1>2, <1>3, FS_Surjection, FS_CardinalityType

\* An operator's copy carries no new fingerprint, and the issue it was made from
\* stands before it.
LEMMA CopyDefectStep ==
    ASSUME IInv, NEW i \in 1..Len(defects), CopyDefect(i)
    PROVE  IInv'
<1> USE DEF IInv, CopyDefect, github, local
<1>1. defects \in Seq(IssueType) /\ Len(defects) \in Nat
    BY LenProperties DEF TypeOK
<1> DEFINE d0 == defects[i]
           d1 == [d0 EXCEPT !.announced = FALSE]
           d2 == [d1 EXCEPT !.recurred = 0]
           copy == [d2 EXCEPT !.recovered = 0]
<1>2. d0 \in IssueType
    BY <1>1, ElementOfSeq
<1>3. copy \in IssueType
    <2> HIDE DEF d0
    <2>1. d1 \in IssueType BY <1>2 DEF IssueType
    <2>2. d2 \in IssueType BY <2>1 DEF IssueType
    <2> QED BY <2>2 DEF IssueType
<1>4. defects' = Append(defects, copy)
    OBVIOUS
<1> HIDE DEF copy
<1>5. /\ defects' \in Seq(IssueType)
      /\ Len(defects') = Len(defects) + 1
      /\ \A j \in 1..Len(defects) : defects'[j] = defects[j]
      /\ defects'[Len(defects) + 1] = copy
    BY <1>1, <1>3, <1>4, AppendProperties
<1>12. defects'[Len(defects) + 1].metadata = defects[i].metadata
    BY <1>2, <1>5 DEF copy, IssueType
<1>6. copies \in Nat /\ copies' = copies + 1
    BY DEF TypeOK
<1>7. TypeOK'
    BY <1>5, <1>6 DEF TypeOK
<1>8. Delivered' /\ Serial'
    BY DEF Delivered, Serial, Active
<1>9. UniqueDefect'
    <2>1. Carried' = Carried
        BY <1>1, <1>5, <1>12 DEF Carried
    <2> QED BY <1>1, <1>5, <1>6, <2>1, CarriedFinite DEF UniqueDefect
<1>10. \A x : Current(x) => Current(x)'
    BY <1>1, <1>5 DEF Current
<1>11. ASSUME NEW f \in Engines
       PROVE  IndexFresh(f)' /\ MatchesFresh(f)' /\ Aimed(f)'
    <2>1. ASSUME NEW j \in 1..Len(defects'), pc[f] \in FailurePhases
          PROVE  \E x \in known[f] : Represents(x, j)'
        <3>1. PICK k \in 1..Len(defects) :
                  k <= j /\ defects'[j].metadata = defects[k].metadata
            <4>1. CASE j = Len(defects) + 1
                BY <1>1, <1>12, <4>1
            <4>2. CASE j # Len(defects) + 1
                BY <1>1, <1>5, <4>2
            <4> QED BY <4>1, <4>2
        <3>2. PICK x \in known[f] : Represents(x, k)
            BY <2>1 DEF IndexFresh
        <3>3. x.id \in Nat
            BY DEF TypeOK, ListedType
        <3> QED BY <1>1, <1>5, <3>1, <3>2, <3>3 DEF Represents
    <2> QED BY <1>1, <1>5, <1>10, <2>1 DEF IndexFresh, MatchesFresh, Aimed
<1> QED BY <1>7, <1>8, <1>9, <1>11

-----------------------------------------------------------------------------
(* Steps that write an issue *)

\* Issue i has got record m, the records of the other issues are what they were.
Rewritten(i, m) ==
    /\ defects' \in Seq(IssueType)
    /\ Len(defects') = Len(defects)
    /\ \A j \in 1..Len(defects) :
           defects'[j].metadata = IF j = i THEN m ELSE defects[j].metadata

\* One issue changed, of the rest of an issue only what has its type.
LEMMA ReplaceIssue ==
    ASSUME TypeOK, NEW i \in 1..Len(defects), NEW issue \in IssueType,
           defects' = [defects EXCEPT ![i] = issue]
    PROVE  Rewritten(i, issue.metadata)
<1>1. defects \in Seq(IssueType)
    BY DEF TypeOK
<1> QED BY <1>1, ExceptSeq DEF Rewritten

\* A step of the one active feedback run that rewrites one issue and keeps its
\* fingerprint: the invariant survives if the run's own view stays right.
LEMMA WriteStep ==
    ASSUME IInv, NEW e \in Engines, Active(e), TypeOK',
           NEW i \in 1..Len(defects), NEW m, Rewritten(i, m),
           m.fingerprint = defects[i].metadata.fingerprint,
           UNCHANGED <<runs, waiting, ended, delivery, copies>>,
           \A f \in Engines \ {e} : pc'[f] = pc[f],
           pc'[e] # "idle",
           IndexFresh(e)', MatchesFresh(e)', Aimed(e)'
    PROVE  IInv'
<1> USE DEF IInv
<1>1. \A f \in Engines \ {e} : pc'[f] = "idle"
    BY DEF Serial, Active
<1>2. Delivered'
    BY <1>1 DEF Delivered, Active
<1>3. Serial'
    BY <1>1 DEF Serial, Active
<1>4. ASSUME NEW f \in Engines \ {e}
      PROVE  IndexFresh(f)' /\ MatchesFresh(f)' /\ Aimed(f)'
    BY <1>1 DEF IndexFresh, MatchesFresh, Aimed, FailurePhases
<1>5. UniqueDefect'
    <2>1. \A j \in 1..Len(defects) :
              defects'[j].metadata.fingerprint = defects[j].metadata.fingerprint
        BY DEF Rewritten
    <2>2. Carried' = Carried
        BY <2>1 DEF Carried, Rewritten
    <2> QED BY <2>2 DEF UniqueDefect, Rewritten
<1> QED BY <1>2, <1>3, <1>4, <1>5

\* A comment changes an issue but not its record.
LEMMA CommentStep ==
    ASSUME IInv, NEW e \in Engines,
           AnnounceDefect(e) \/ NoteRecurrence(e) \/ NoteRecovery(e)
    PROVE  IInv'
<1> USE DEF IInv
<1> DEFINE i == subject[e]
           d0 == defects[i]
<1>1. /\ Active(e) /\ i \in 1..Len(defects)
      /\ pc[e] \in {"announce", "recurred", "recovered"}
    BY DEF AnnounceDefect, NoteRecurrence, NoteRecovery, Active, Aimed
<1>2. d0 \in IssueType
    BY <1>1, ElementOfSeq DEF TypeOK
<1>3. Rewritten(i, d0.metadata)
    <2> HIDE DEF d0
    <2>1. CASE AnnounceDefect(e)
        <3>1. [d0 EXCEPT !.announced = TRUE] \in IssueType
            BY <1>2 DEF IssueType
        <3>2. defects' = [defects EXCEPT ![i] = [d0 EXCEPT !.announced = TRUE]]
            BY <2>1 DEF AnnounceDefect, d0
        <3> QED BY <1>1, <1>2, <3>1, <3>2, ReplaceIssue DEF IssueType
    <2>2. CASE NoteRecurrence(e)
        <3>1. [d0 EXCEPT !.recurred = @ + 1] \in IssueType
            BY <1>2 DEF IssueType
        <3>2. defects' = [defects EXCEPT ![i] = [d0 EXCEPT !.recurred = @ + 1]]
            BY <2>2 DEF NoteRecurrence, Posted, d0
        <3> QED BY <1>1, <1>2, <3>1, <3>2, ReplaceIssue DEF IssueType
    <2>3. CASE NoteRecovery(e)
        <3>1. [d0 EXCEPT !.recovered = @ + 1] \in IssueType
            BY <1>2 DEF IssueType
        <3>2. defects' = [defects EXCEPT ![i] = [d0 EXCEPT !.recovered = @ + 1]]
            BY <2>3 DEF NoteRecovery, Posted, d0
        <3> QED BY <1>1, <1>2, <3>1, <3>2, ReplaceIssue DEF IssueType
    <2> QED BY <2>1, <2>2, <2>3
<1>4. /\ UNCHANGED <<runs, waiting, ended, delivery, copies, known, matches>>
      /\ \A f \in Engines \ {e} : pc'[f] = pc[f]
      /\ pc'[e] \in {"event", "match"}
      /\ pc[e] = "recovered" <=> pc'[e] = "match"
    BY <1>1 DEF AnnounceDefect, NoteRecurrence, NoteRecovery, Goto, github, budgets, TypeOK
<1>5. TypeOK'
    <2>1. resolved' \in [Engines -> SUBSET (Nat \ {0})]
        <3>1. subject[e] \in Nat \ {0}
            BY <1>1
        <3>2. resolved' = resolved
                  \/ resolved' = [resolved EXCEPT ![e] = @ \cup {subject[e]}]
            BY DEF AnnounceDefect, NoteRecurrence, NoteRecovery
        <3> DEFINE Positive == Nat \ {0}
        <3>3. resolved \in [Engines -> SUBSET Positive] /\ subject[e] \in Positive
            BY <3>1 DEF TypeOK
        <3> HIDE DEF Positive
        <3>4. resolved' \in [Engines -> SUBSET Positive]
            BY <3>2, <3>3
        <3> QED BY <3>4 DEF Positive
    <2>2. pc' \in [Engines -> Phases]
        BY <1>1 DEF AnnounceDefect, NoteRecurrence, NoteRecovery, Goto, TypeOK,
                    Phases, FailurePhases, RecoveryPhases
    <2> QED
        BY <1>3, <1>4, <2>1, <2>2
           DEF AnnounceDefect, NoteRecurrence, NoteRecovery, TypeOK, Rewritten, github, budgets
<1>6. \A x : Current(x) => Current(x)'
    BY <1>3 DEF Current, Rewritten
<1>7. IndexFresh(e)' /\ MatchesFresh(e)' /\ Aimed(e)'
    BY <1>1, <1>3, <1>4, <1>6 DEF IndexFresh, Represents, MatchesFresh, Aimed, FailurePhases, Rewritten
<1> QED BY <1>1, <1>3, <1>4, <1>5, <1>7, WriteStep

LEMMA UpdateDefectStep ==
    ASSUME IInv, NEW e \in Engines, UpdateDefect(e)
    PROVE  IInv'
<1> USE DEF IInv
<1>1. PICK event \in left[e], x \in known[e] :
          LET metadata == RecordFailure(x.metadata, event)
          IN  /\ defects' = [defects EXCEPT ![x.id].metadata = metadata,
                                           ![x.id].state = StateFor(metadata),
                                           ![x.id].labels = DesiredLabels(metadata)]
              /\ known' = [known EXCEPT ![e] = Reindexed(e, {x}, x.id, metadata)]
              /\ left' = [left EXCEPT ![e] = @ \ {event}]
              /\ subject' = [subject EXCEPT ![e] = x.id]
    BY DEF UpdateDefect, Indexed
<1> DEFINE i == x.id
           m == RecordFailure(x.metadata, event)
           d0 == defects[i]
           d1 == [d0 EXCEPT !.metadata = m]
           d2 == [d1 EXCEPT !.state = StateFor(m)]
           d3 == [d2 EXCEPT !.labels = DesiredLabels(m)]
<1>2. /\ pc[e] = "event" /\ Active(e)
      /\ pc' = [pc EXCEPT ![e] = "recurred"]
      /\ UNCHANGED <<github, origin, delivery, events, matches, resolved, origins,
                     target, budgets>>
    BY DEF UpdateDefect, Active, Goto
<1>3. /\ x \in known[e] /\ x \in ListedType /\ event \in EventType
      /\ i \in 1..Len(defects) /\ defects[i].metadata = x.metadata
    BY <1>1, <1>2 DEF TypeOK, IndexFresh, Current, FailurePhases
<1>4. /\ m \in Metadata /\ m.fingerprint = x.metadata.fingerprint
      /\ StateFor(m) \in DefectStates /\ DesiredLabels(m) \in SUBSET Labels
    BY <1>3, RecordFailureType, IssueTypes DEF ListedType
<1>5. Rewritten(i, m)
    <2>1. d0 \in IssueType
        BY <1>3, ElementOfSeq DEF TypeOK
    <2> HIDE DEF m, d0
    <2>2. d1 \in IssueType /\ d1.metadata = m
        BY <2>1, <1>4 DEF IssueType
    <2>3. d2 \in IssueType /\ d2.metadata = m
        BY <2>2, <1>4 DEF IssueType
    <2>4. d3 \in IssueType /\ d3.metadata = m
        BY <2>3, <1>4 DEF IssueType
    <2>5. defects' = [defects EXCEPT ![i] = d3]
        BY <1>1, <1>3 DEF d0, m, TypeOK
    <2> QED BY <1>3, <2>4, <2>5, ReplaceIssue
<1> HIDE DEF m
<1>6. known'[e] = (known[e] \ {x}) \cup {[id |-> i, metadata |-> m]}
    BY <1>1 DEF Reindexed, m, TypeOK
<1>7. TypeOK'
    <2>1. [id |-> i, metadata |-> m] \in ListedType
        BY <1>3, <1>4 DEF ListedType
    <2>2. known' \in [Engines -> SUBSET ListedType]
        BY <1>1, <2>1 DEF Reindexed, m, TypeOK
    <2>3. subject' \in [Engines -> Nat] /\ left' \in [Engines -> SUBSET EventType]
        BY <1>1, <1>3 DEF TypeOK, ListedType
    <2>4. pc' \in [Engines -> Phases]
        BY <1>2 DEF TypeOK, Phases, FailurePhases
    <2> QED
        BY <1>2, <1>5, <2>2, <2>3, <2>4 DEF TypeOK, Rewritten, github, budgets
<1>8. IndexFresh(e)'
    <2>1. ASSUME NEW y \in known[e], y # x
          PROVE  Current(y)'
        <3>1. y \in ListedType /\ Current(y)
            BY <1>2 DEF TypeOK, IndexFresh, FailurePhases
        <3>2. y.id # i
            BY <1>3, <2>1, <3>1 DEF Current, ListedType
        <3> QED BY <3>1, <3>2, <1>5 DEF Current, Rewritten
    <2>2. Current([id |-> i, metadata |-> m])'
        BY <1>3, <1>5 DEF Current, Rewritten
    <2>3. \A y \in known'[e] : Current(y)'
        BY <1>6, <2>1, <2>2
    <2>4. ASSUME NEW j \in 1..Len(defects)
          PROVE  \E y \in known'[e] : Represents(y, j)'
        <3>1. PICK y \in known[e] : Represents(y, j)
            BY <1>2 DEF IndexFresh, FailurePhases
        <3>2. \A z : Represents(z, j) => Represents(z, j)'
            BY <1>3, <1>4, <1>5 DEF Represents, Rewritten
        <3>3. CASE y = x
            <4>1. Represents([id |-> i, metadata |-> m], j)
                BY <1>4, <3>1, <3>3 DEF Represents
            <4> QED BY <1>6, <3>2, <4>1
        <3>4. CASE y # x
            BY <1>6, <3>1, <3>2, <3>4
        <3> QED BY <3>3, <3>4
    <2> QED BY <1>2, <1>5, <2>3, <2>4 DEF IndexFresh, Rewritten, budgets
<1>9. MatchesFresh(e)' /\ Aimed(e)'
    BY <1>1, <1>2, <1>3, <1>5 DEF MatchesFresh, Aimed, TypeOK, Rewritten
<1> QED BY <1>2, <1>3, <1>4, <1>5, <1>7, <1>8, <1>9, WriteStep DEF github, budgets, TypeOK

LEMMA CreateDefectStep ==
    ASSUME IInv, NEW e \in Engines, CreateDefect(e)
    PROVE  IInv'
<1> USE DEF IInv
<1>0. PICK id \in Nat : id = Len(defects) + 1
    BY LenProperties DEF TypeOK
<1>1. PICK event \in left[e] :
          LET metadata == FromEvent(event)
          IN  /\ Indexed(e, event) = {}
              /\ defects' = Append(defects, Issue(metadata))
              /\ known' = [known EXCEPT ![e] = Reindexed(e, {}, id, metadata)]
              /\ left' = [left EXCEPT ![e] = @ \ {event}]
              /\ subject' = [subject EXCEPT ![e] = id]
              /\ Goto(e, IF Exists(event.originating_issue) THEN "announce" ELSE "event")
    BY <1>0 DEF CreateDefect
<1> DEFINE m == FromEvent(event)
<1>2. /\ pc[e] = "event" /\ Active(e)
      /\ pc' \in [Engines -> Phases]
      /\ pc'[e] \in {"announce", "event"}
      /\ \A f \in Engines \ {e} : pc'[f] = pc[f]
      /\ UNCHANGED <<github, origin, delivery, events, matches, resolved, origins,
                     target, budgets>>
    BY <1>1 DEF CreateDefect, Active, Goto, TypeOK, Phases, FailurePhases
<1>3. event \in EventType /\ defects \in Seq(IssueType) /\ Len(defects) \in Nat
    BY <1>1, LenProperties DEF TypeOK
<1>4. /\ m \in Metadata /\ m.fingerprint = event.fingerprint
      /\ Issue(m) \in IssueType /\ Issue(m).metadata = m
    BY <1>3, FromEventType, IssueTypes DEF FromEvent
<1>5. /\ defects' \in Seq(IssueType)
      /\ Len(defects') = id
      /\ \A j \in 1..Len(defects) : defects'[j] = defects[j]
      /\ defects'[id].metadata = m
    <2> HIDE DEF m
    <2>1. defects' = Append(defects, Issue(m))
        BY <1>1 DEF m
    <2> QED BY <1>0, <1>3, <1>4, <2>1, AppendProperties
<1>6. known'[e] = known[e] \cup {[id |-> id, metadata |-> m]}
    BY <1>1 DEF Reindexed, TypeOK
<1> HIDE DEF m
<1>7. TypeOK'
    <2>1. [id |-> id, metadata |-> m] \in ListedType
        BY <1>0, <1>3, <1>4 DEF ListedType
    <2>2. known' \in [Engines -> SUBSET ListedType]
        BY <1>1, <2>1 DEF Reindexed, TypeOK, m
    <2>3. subject' \in [Engines -> Nat] /\ left' \in [Engines -> SUBSET EventType]
        BY <1>1, <1>3 DEF TypeOK
    <2> QED
        BY <1>2, <1>5, <2>2, <2>3 DEF TypeOK, github, budgets
<1>8. Delivered' /\ Serial'
    BY <1>2 DEF Delivered, Serial, Active, github
<1>9. \A x : Current(x) => Current(x)'
    BY <1>0, <1>3, <1>5 DEF Current
<1>10. IndexFresh(e)'
    <2> DEFINE new == [id |-> id, metadata |-> m]
    <2>1. Current(new)'
        BY <1>0, <1>3, <1>5 DEF Current
    <2>2. \A y \in known'[e] : Current(y)'
        <3>1. \A y \in known[e] : Current(y)'
            BY <1>2, <1>9 DEF IndexFresh, FailurePhases
        <3> HIDE DEF new
        <3>2. known'[e] = known[e] \cup {new}
            BY <1>6 DEF new
        <3> QED BY <2>1, <3>1, <3>2
    <2>3. ASSUME NEW j \in 1..id
          PROVE  \E y \in known'[e] : Represents(y, j)'
        <3>1. CASE j = id
            <4>1. Represents(new, id)'
                BY <1>5 DEF Represents
            <4> QED BY <1>6, <3>1, <4>1
        <3>2. CASE j # id
            <4>1. j \in 1..Len(defects)
                BY <1>0, <1>3, <3>2
            <4>2. PICK y \in known[e] : Represents(y, j)
                BY <1>2, <4>1 DEF IndexFresh, FailurePhases
            <4>3. Represents(y, j)'
                BY <1>5, <4>1, <4>2 DEF Represents
            <4> QED BY <1>6, <4>3
        <3> QED BY <3>1, <3>2
    <2> QED BY <1>2, <1>5, <2>2, <2>3 DEF IndexFresh, budgets
<1>11. MatchesFresh(e)' /\ Aimed(e)'
    BY <1>0, <1>1, <1>2, <1>3, <1>5 DEF MatchesFresh, Aimed, TypeOK
<1>12. ASSUME NEW f \in Engines \ {e}
       PROVE  IndexFresh(f)' /\ MatchesFresh(f)' /\ Aimed(f)'
    <2>1. pc'[f] = "idle"
        BY <1>2 DEF Serial, Active
    <2> QED BY <2>1 DEF IndexFresh, MatchesFresh, Aimed, FailurePhases
<1>13. UniqueDefect'
    <2>1. m.fingerprint \notin Carried
        <3>1. ASSUME NEW i \in 1..Len(defects)
              PROVE  defects[i].metadata.fingerprint # m.fingerprint
            <4>1. PICK y \in known[e] : Represents(y, i)
                BY <1>2 DEF IndexFresh, FailurePhases
            <4> QED BY <1>1, <1>4, <4>1 DEF Indexed, Represents
        <3> QED BY <3>1 DEF Carried
    <2>2. Carried' = Carried \cup {m.fingerprint}
        BY <1>0, <1>3, <1>5 DEF Carried
    <2>3. /\ IsFiniteSet(Carried) /\ Cardinality(Carried) \in Nat
          /\ copies \in Nat /\ copies' = copies
        BY <1>2, CarriedFinite DEF TypeOK, budgets
    <2>4. Cardinality(Carried') = Cardinality(Carried) + 1
        BY <2>1, <2>2, <2>3, FS_AddElement
    <2> QED BY <1>0, <1>3, <1>5, <2>3, <2>4 DEF UniqueDefect
<1> QED BY <1>7, <1>8, <1>10, <1>11, <1>12, <1>13

LEMMA ResolveDefectStep ==
    ASSUME IInv, NEW e \in Engines, ResolveDefect(e)
    PROVE  IInv'
<1> USE DEF IInv
<1>1. PICK x \in matches[e] :
          /\ defects' = [defects EXCEPT
                 ![x.id].metadata = RecordRecovery(x.metadata, delivery[e].run),
                 ![x.id].state = "done"]
          /\ subject' = [subject EXCEPT ![e] = x.id]
          /\ matches' = [matches EXCEPT ![e] = @ \ {x}]
          /\ origins' = [origins EXCEPT ![e] =
                            @ \cup ({x.metadata.originating_issue} \ {None})]
    BY DEF ResolveDefect
<1>0. PICK run \in Runs : run = delivery[e].run
    BY DEF Delivered, Deliveries, ResolveDefect, Active
<1> DEFINE i == x.id
           m == RecordRecovery(x.metadata, run)
           d0 == defects[i]
           d1 == [d0 EXCEPT !.metadata = m]
           d2 == [d1 EXCEPT !.state = "done"]
<1>2. /\ pc[e] = "match" /\ Active(e)
      /\ pc' = [pc EXCEPT ![e] = "recovered"]
      /\ UNCHANGED <<github, origin, delivery, known, events, left, resolved, target,
                     budgets>>
    BY DEF ResolveDefect, Active, Goto
<1>3. /\ x \in ListedType
      /\ i \in 1..Len(defects) /\ defects[i].metadata = x.metadata
    BY <1>1, <1>2 DEF TypeOK, MatchesFresh, Current
<1>4. m \in Metadata /\ m.fingerprint = x.metadata.fingerprint
    BY <1>3, RecordRecoveryType DEF ListedType
<1>5. Rewritten(i, m)
    <2>1. d0 \in IssueType
        BY <1>3, ElementOfSeq DEF TypeOK
    <2> HIDE DEF m, d0
    <2>2. d1 \in IssueType /\ d1.metadata = m
        BY <2>1, <1>4 DEF IssueType
    <2>3. d2 \in IssueType /\ d2.metadata = m
        BY <2>2, <1>4 DEF IssueType, DefectStates
    <2>4. defects' = [defects EXCEPT ![i] = d2]
        BY <1>0, <1>1, <1>3 DEF d0, m, TypeOK
    <2> QED BY <1>3, <2>3, <2>4, ReplaceIssue
<1> HIDE DEF m
<1>6. matches'[e] = matches[e] \ {x}
    BY <1>1 DEF TypeOK
<1>7. TypeOK'
    <2>1. matches' \in [Engines -> SUBSET ListedType] /\ subject' \in [Engines -> Nat]
        BY <1>1, <1>3 DEF TypeOK, ListedType
    <2>2. {x.metadata.originating_issue} \ {None} \subseteq Origins
        BY <1>3 DEF ListedType, Metadata
    <2>3. origins' \in [Engines -> SUBSET Origins]
        BY <1>1, <2>2 DEF TypeOK
    <2>4. pc' \in [Engines -> Phases]
        BY <1>2 DEF TypeOK, Phases, RecoveryPhases
    <2> QED
        BY <1>2, <1>5, <2>1, <2>3, <2>4 DEF TypeOK, Rewritten, github, budgets
<1>8. MatchesFresh(e)'
    <2>1. ASSUME NEW y \in matches[e], y # x
          PROVE  Current(y)'
        <3>1. y \in ListedType /\ Current(y)
            BY <1>2 DEF TypeOK, MatchesFresh
        <3>2. y.id # i
            BY <1>3, <2>1, <3>1 DEF Current, ListedType
        <3> QED BY <3>1, <3>2, <1>5 DEF Current, Rewritten
    <2> QED BY <1>2, <1>6, <2>1 DEF MatchesFresh
<1>9. IndexFresh(e)' /\ Aimed(e)'
    BY <1>1, <1>2, <1>3, <1>5 DEF IndexFresh, FailurePhases, Aimed, TypeOK, Rewritten
<1> QED BY <1>2, <1>3, <1>4, <1>5, <1>7, <1>8, <1>9, WriteStep DEF github, budgets, TypeOK

-----------------------------------------------------------------------------
(* Theorems *)

LEMMA NextIInv == IInv /\ [Next]_vars => IInv'
<1> SUFFICES ASSUME IInv, [Next]_vars
             PROVE  IInv'
    OBVIOUS
<1>1. CASE Environment
    BY <1>1, CompleteAttemptStep, ReplayStep, MoveOriginStep, CopyDefectStep
       DEF Environment
<1>2. ASSUME NEW e \in Engines, EngineStep(e)
      PROVE  IInv'
    <2>1. CASE Start(e)
        BY <2>1, StartStep
    <2>2. CASE Ignore(e)
        BY <2>2, EndingSteps
    <2>3. CASE FailureStep(e)
        BY <2>3, ListForFailuresStep, EndingSteps, ListJobsStep, SkipObservedStep,
           CreateDefectStep, CommentStep, UpdateDefectStep DEF FailureStep
    <2>4. CASE RecoveryStep(e)
        BY <2>4, ListForRecoveryStep, ResolveDefectStep, CommentStep, FinishMatchesStep,
           LeaveOriginStep, FetchOriginStep, ResumeOriginStep, NoteResumeStep,
           EndingSteps DEF RecoveryStep
    <2> QED BY <1>2, <2>1, <2>2, <2>3, <2>4 DEF EngineStep
<1>3. ASSUME NEW e \in Engines, Die(e)
      PROVE  IInv'
    BY <1>3, EndingSteps
<1>4. CASE UNCHANGED vars
    <2> USE <1>4 DEF vars, github, linear, local, budgets, IInv
    <2>1. TypeOK'
        BY DEF TypeOK
    <2>2. Delivered' /\ Serial' /\ UniqueDefect'
        BY DEF Delivered, Serial, Active, UniqueDefect, Carried
    <2>3. ASSUME NEW e \in Engines
          PROVE  IndexFresh(e)' /\ MatchesFresh(e)' /\ Aimed(e)'
        BY DEF IndexFresh, Represents, MatchesFresh, Aimed, Current
    <2> QED BY <2>1, <2>2, <2>3
<1> QED BY <1>1, <1>2, <1>3, <1>4 DEF Next

\* The inductive invariant holds of every behaviour of the feedback engine.
THEOREM Inductive == Spec => []IInv
<1>1. Init => IInv
    BY InitIInv
<1>2. IInv /\ [Next]_vars => IInv'
    BY NextIInv
<1> QED BY <1>1, <1>2, PTL DEF Spec

\* The state of GitHub, Linear and the feedback runs keeps its shape whatever
\* dies, is re-run or is copied.
THEOREM TypeCorrect == Spec => []TypeOK
<1>1. IInv => TypeOK
    BY DEF IInv
<1> QED BY <1>1, Inductive, PTL

\* Deduplication: for any number of runs, deaths and re-runs the engine opens one
\* issue per fingerprint (_create_defect only after a complete, current listing).
THEOREM DefectsAreUnique == Spec => []UniqueDefect
<1>1. IInv => UniqueDefect
    BY DEF IInv
<1> QED BY <1>1, Inductive, PTL

\* No lost update: every record a run is about to overwrite is the record it
\* listed, because the concurrency group keeps all other writers out.
THEOREM UpdatesAreNotLost == Spec => []NoLostUpdate
<1>1. IInv => NoLostUpdate
    BY DEF IInv, NoLostUpdate, IndexFresh, MatchesFresh, Current
<1> QED BY <1>1, Inductive, PTL
=============================================================================
