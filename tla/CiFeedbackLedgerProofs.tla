------------------------ MODULE CiFeedbackLedgerProofs ------------------------
(***************************************************************************)
(* What the engine's defects may be relied on for, proved for every set of *)
(* runs, jobs, pull requests and engines, every policy and every bound of  *)
(* the environment.  The argument has three layers: what a step may do to  *)
(* the defects (Changes), what holds between the defects and the runs that *)
(* work on them (LInv), and what follows: the invariants, the comments,    *)
(* the hand-off to people and the refinement of the ledger.                *)
(***************************************************************************)
EXTENDS CiFeedbackLedger, CiFeedbackProofs, FiniteSetTheorems

-----------------------------------------------------------------------------
(* Numbers and finite sets *)

LEMMA LeastExists ==
    ASSUME NEW S \in SUBSET Nat, S # {}
    PROVE  \E x \in S : \A y \in S : x <= y
<1>1. PICK R : R = OpToRel(<, Nat)
    OBVIOUS
<1>2. IsWellFoundedOn(R, Nat)
    BY <1>1, NatLessThanWellFounded
<1>3. PICK x \in S : \A y \in S : ~(<<y, x>> \in R)
    BY <1>2, WFMin
<1>4. \A y \in Nat : y < x => <<y, x>> \in R
    BY <1>1 DEF OpToRel
<1>5. \A y \in S : ~(y < x)
    BY <1>3, <1>4
<1>6. x \in Int /\ \A y \in S : y \in Int
    OBVIOUS
<1>7. \A y \in S : x <= y
    BY <1>5, <1>6
<1> QED BY <1>7

\* With the least counterexample in the place of an induction.
LEMMA FiniteProduct ==
    ASSUME NEW A, NEW B, IsFiniteSet(A), IsFiniteSet(B)
    PROVE  IsFiniteSet(A \X B)
<1>1. \A C \in SUBSET A : IsFiniteSet(C) /\ Cardinality(C) \in Nat
    BY FS_Subset, FS_CardinalityType
<1> DEFINE Bad == {n \in Nat : \E C \in SUBSET A :
                                  Cardinality(C) = n /\ ~IsFiniteSet(C \X B)}
<1>2. ASSUME Bad # {} PROVE FALSE
    <2>1. PICK n \in Bad : \A k \in Bad : n <= k
        BY <1>2, LeastExists
    <2>2. PICK C \in SUBSET A : Cardinality(C) = n /\ ~IsFiniteSet(C \X B)
        OBVIOUS
    <2>3. C # {}
        <3>1. ASSUME C = {} PROVE C \X B = {}
            BY <3>1
        <3> QED BY <2>2, <3>1, FS_EmptySet
    <2>4. PICK x \in C : TRUE
        BY <2>3
    <2>5. PICK D \in SUBSET A : D = C \ {x}
        OBVIOUS
    <2>6. Cardinality(D) = n - 1 /\ Cardinality(D) \in Nat /\ n \in Nat
        BY <1>1, <2>2, <2>5, FS_RemoveElement
    <2>7. IsFiniteSet(D \X B)
        <3>1. ASSUME ~IsFiniteSet(D \X B) PROVE FALSE
            <4>1. n - 1 \in Bad
                BY <2>6, <3>1
            <4> QED BY <2>1, <2>6, <4>1
        <3> QED BY <3>1
    <2>8. IsFiniteSet({x} \X B)
        <3> DEFINE f == [p \in {x} \X B |-> p[2]]
        <3>1. f \in Injection({x} \X B, B)
            BY DEF Injection, IsInjective
        <3> HIDE DEF f
        <3> QED BY <3>1, FS_Injection
    <2>9. PICK U, V : U = D \X B /\ V = {x} \X B
        OBVIOUS
    <2>10. C \X B = U \cup V
        BY <2>5, <2>9
    <2>11. IsFiniteSet(U \cup V)
        BY <2>7, <2>8, <2>9, FS_Union
    <2> QED BY <2>2, <2>10, <2>11
<1>3. ASSUME ~IsFiniteSet(A \X B) PROVE Bad # {}
    BY <1>1, <1>3
<1> QED BY <1>2, <1>3

-----------------------------------------------------------------------------
(* Histories *)

\* What a list that keeps its newest entries holds after one more: at a full
\* history every entry moves one place down and the oldest is gone.
LEMMA RetainAppend ==
    ASSUME NEW S, NEW s \in Seq(S), NEW k \in S, Len(s) <= HistoryLimit,
           NEW t, t = Retain(Append(s, k)),
           NEW gone, gone = IF Len(s) < HistoryLimit THEN 0 ELSE 1
    PROVE  /\ t \in Seq(S) /\ Len(s) \in Nat
           /\ Len(t) = Len(s) + 1 - gone
           /\ \A i \in 1..(Len(t) - 1) : t[i] = s[i + gone]
           /\ t[Len(t)] = k
<1> USE PolicyAssumption
<1> DEFINE u == Append(s, k)
<1>1. /\ u \in Seq(S) /\ Len(u) = Len(s) + 1
      /\ \A i \in 1..Len(s) : u[i] = s[i]
      /\ u[Len(s) + 1] = k
    BY AppendProperties
<1>2. Len(s) \in Nat
    BY LenProperties
<1>3. t \in Seq(S)
    BY <1>1, RetainType
<1> HIDE DEF u
<1>4. CASE Len(s) < HistoryLimit
    <2>1. t = u /\ gone = 0
        BY <1>1, <1>2, <1>4 DEF Retain, u
    <2> QED BY <1>1, <1>2, <1>3, <2>1
<1>5. CASE Len(s) = HistoryLimit
    <2>1. gone = 1 /\ t = SubSeq(u, 2, Len(s) + 1)
        BY <1>1, <1>2, <1>5 DEF Retain, u
    <2>2. \A i \in 2..(Len(s) + 1) : u[i] \in S
        BY <1>1, <1>2, ElementOfSeq
    <2>3. /\ Len(t) = Len(s)
          /\ \A i \in 1..Len(s) : t[i] = u[i + 1]
        BY <1>2, <1>5, <2>1, <2>2, SubSeqProperties
    <2> QED BY <1>1, <1>2, <1>3, <1>5, <2>1, <2>3
<1> QED BY <1>2, <1>4, <1>5

LEMMA RecordFailureOpens ==
    ASSUME NEW m \in Metadata, NEW event \in EventType
    PROVE  /\ RecordFailure(m, event).status = "open"
           /\ RecordFailure(m, event).remediation_depth >= m.remediation_depth
           /\ RecordFailure(m, event).recovery_keys = m.recovery_keys
BY DEF RecordFailure, Metadata, EventType

LEMMA RecordRecoveryCloses ==
    ASSUME NEW m \in Metadata, NEW run \in Runs
    PROVE  LET n == RecordRecovery(m, run)
           IN  /\ n.status = "resolved"
               /\ n.recurrence_count = m.recurrence_count
               /\ n.remediation_depth = m.remediation_depth
               /\ n.observations = m.observations
               /\ n.workflow_id = m.workflow_id
               /\ n.branch = m.branch
               /\ n.pull_request_number = m.pull_request_number
               /\ n.originating_issue = m.originating_issue
               /\ n.recovery_keys = Retain(Append(m.recovery_keys, run))
BY DEF RecordRecovery, Metadata

-----------------------------------------------------------------------------
(* What a step may do to the defects *)

\* The record, state and labels of issue i are what they were.
Kept(i) ==
    /\ defects'[i].metadata = defects[i].metadata
    /\ defects'[i].state = defects[i].state
    /\ defects'[i].labels = defects[i].labels

SameIssues == Len(defects') = Len(defects) /\ \A i \in 1..Len(defects) : Kept(i)

OthersKept(i) ==
    Len(defects') = Len(defects) /\ \A j \in 1..Len(defects) : j # i => Kept(j)

\* A run has still to go through the event.
Pending(event) == \E e \in Engines : event \in left[e]

Reported(i, event) ==
    LET m == RecordFailure(defects[i].metadata, event)
    IN  /\ OthersKept(i)
        /\ Pending(event)
        /\ IsOldest(i)
        /\ event.fingerprint = defects[i].metadata.fingerprint
        /\ ~ContainsObservation(defects[i].metadata, event.observation_key)
        /\ defects'[i].metadata = m
        /\ defects'[i].state = StateFor(m)
        /\ defects'[i].labels = DesiredLabels(m)

Recovered(i, run) ==
    LET m == defects[i].metadata
    IN  /\ OthersKept(i)
        /\ MatchesRecovery(m, Context[run])
        /\ m.status # "resolved"
        /\ \E a \in 1..Len(runs[run]) : runs[run][a].conclusion = "success"
        /\ defects'[i].metadata = RecordRecovery(m, run)
        /\ defects'[i].state = "done"
        /\ defects'[i].labels = defects[i].labels

Opened(event) ==
    /\ Pending(event)
    /\ Len(defects') = Len(defects) + 1
    /\ \A i \in 1..Len(defects) : Kept(i)
    /\ defects'[Len(defects) + 1] = Issue(FromEvent(event))
    /\ \A i \in 1..Len(defects) : defects[i].metadata.fingerprint # event.fingerprint

Copied(i) ==
    /\ copies' # 0
    /\ Len(defects') = Len(defects) + 1
    /\ \A j \in 1..Len(defects) : Kept(j)
    /\ defects'[Len(defects) + 1].metadata = defects[i].metadata
    /\ defects'[Len(defects) + 1].state = defects[i].state
    /\ defects'[Len(defects) + 1].labels = defects[i].labels

\* GitHub never takes a completed attempt back.
RunsGrow ==
    \A r \in Runs :
        /\ Len(runs'[r]) >= Len(runs[r])
        /\ \A a \in 1..Len(runs[r]) : runs'[r][a] = runs[r][a]

-----------------------------------------------------------------------------
(* The inductive invariant *)

\* What the newest recovery key of a resolved record proves.
Justified(m) ==
    LET r == m.recovery_keys[Len(m.recovery_keys)]
    IN  m.status = "resolved" =>
            /\ m.recovery_keys # <<>>
            /\ m.workflow_id = Context[r].workflow_id
            /\ m.pull_request_number = Context[r].pull_request_number
            /\ m.pull_request_number = None => m.branch = Context[r].branch
            /\ \E a \in 1..Len(runs[r]) : runs[r][a].conclusion = "success"

Counted(m) ==
    /\ m.recurrence_count \in Nat \ {0}
    /\ \A a, b \in 1..Len(m.observations) :
           m.observations[a] = m.observations[b] => a = b
    /\ Len(m.observations) =
           IF m.recurrence_count < HistoryLimit THEN m.recurrence_count ELSE HistoryLimit

\* An issue's record is sound, and its labels and state are those of its record.
Booked(i) ==
    LET m == defects[i].metadata
    IN  /\ Counted(m)
        /\ Len(m.recovery_keys) <= HistoryLimit
        /\ Justified(m)
        /\ defects[i].labels = DesiredLabels(m)
        /\ DepthExhausted(m) => defects[i].state # "todo"

\* A recovery run has a successful attempt, and resolves what it matches.
Rightful(e) ==
    pc[e] \in {"match", "recovered"} =>
        /\ ConclusionOf(delivery[e]) = "success"
        /\ \A x \in matches[e] : /\ MatchesRecovery(x.metadata, ContextOf(delivery[e]))
                                 /\ x.metadata.status # "resolved"

\* A run has no events before it has listed the jobs, and has resolved nothing
\* before it recovers.
Quiet(e) ==
    /\ pc[e] \in {"idle", "route", "jobs"} => events[e] = {}
    /\ pc[e] \notin RecoveryPhases => resolved[e] = {}

\* The promises of the runs, one engine at a time.
BatchKept(e) ==
    pc[e] \in FailurePhases =>
        \A event \in events[e] \ left[e] :
            \E i \in 1..Len(defects) :
                LET m == defects[i].metadata
                IN  /\ m.fingerprint = event.fingerprint
                    /\ \/ event.observation_key \in Retained(m.observations)
                       \/ Len(m.observations) = HistoryLimit

OnePerFingerprint(e) ==
    pc[e] \in FailurePhases =>
        \A x, y \in known[e] :
            x.metadata.fingerprint = y.metadata.fingerprint => x = y

TakenUp(e) ==
    pc[e] \in {"match", "recovered"} =>
        \A i \in 1..Len(defects) :
            LET m == defects[i].metadata
            IN  /\ m.status = "resolved"
                /\ m.originating_issue # None
                /\ MatchesRecovery(m, ContextOf(delivery[e]))
                /\ delivery[e].run \in Retained(m.recovery_keys)
                => m.originating_issue \in origins[e]

\* What matches is resolved, a replay, or still in the loop while it runs.
Closing(e) ==
    pc[e] \in RecoveryPhases =>
        \A i \in 1..Len(defects) :
            LET m == defects[i].metadata
            IN  InView(e, i) /\ MatchesRecovery(m, ContextOf(delivery[e])) =>
                    \/ m.status = "resolved"
                    \/ delivery[e].run \in Retained(m.recovery_keys)
                    \/ /\ pc[e] \in {"match", "recovered"}
                       /\ \E x \in matches[e] : x.id = i

\* The listing of a recovery run differs from Linear in what it resolved itself.
Viewed(e) ==
    pc[e] \in RecoveryPhases =>
        /\ copies = 0 => \A i \in 1..Len(defects) : \E x \in known[e] : x.id = i
        /\ \A x \in known[e] :
               /\ x.id \in 1..Len(defects)
               /\ \/ defects[x.id].metadata = x.metadata
                  \/ defects[x.id].metadata.status = "resolved"
        /\ \A i \in resolved[e] :
               i \in 1..Len(defects) /\ defects[i].metadata.status = "resolved"
        /\ pc[e] = "recovered" => defects[subject[e]].metadata.status = "resolved"

Unblocked(e) ==
    pc[e] = "origin" =>
        \A i \in 1..Len(defects) :
            LET m == defects[i].metadata
            IN  ~ /\ InView(e, i)
                  /\ m.originating_issue = target[e]
                  /\ m.pull_request_number = ContextOf(delivery[e]).pull_request_number
                  /\ m.status = "open"

Promises(e) ==
    /\ Quiet(e) /\ BatchKept(e) /\ OnePerFingerprint(e)
    /\ TakenUp(e) /\ Closing(e) /\ Viewed(e) /\ Unblocked(e)

LInv ==
    /\ IInv
    /\ \A e \in Engines : Rightful(e) /\ Promises(e)
    /\ \A i \in 1..Len(defects) : Booked(i)

-----------------------------------------------------------------------------
(* Every step makes one of the changes *)

LEMMA GitHubOnlyAdds ==
    ASSUME IInv, [Next]_vars
    PROVE  RunsGrow
<1> USE DEF IInv
<1>1. ASSUME NEW r \in Runs, CompleteAttempt(r)
      PROVE  RunsGrow
    <2>1. PICK a \in Attempts : runs' = [runs EXCEPT ![r] = Append(@, a)]
        BY <1>1 DEF CompleteAttempt, Attempts
    <2>2. \A q \in Runs : runs[q] \in Seq(Attempts) /\ Len(runs[q]) \in Nat
        BY LenProperties DEF TypeOK
    <2>3. /\ Len(Append(runs[r], a)) = Len(runs[r]) + 1
          /\ \A k \in 1..Len(runs[r]) : Append(runs[r], a)[k] = runs[r][k]
        BY <2>2, AppendProperties
    <2>4. \A q \in Runs : runs'[q] = IF q = r THEN Append(runs[r], a) ELSE runs[q]
        BY <2>1 DEF TypeOK
    <2> SUFFICES ASSUME NEW q \in Runs
                 PROVE  /\ Len(runs'[q]) >= Len(runs[q])
                        /\ \A k \in 1..Len(runs[q]) : runs'[q][k] = runs[q][k]
        BY DEF RunsGrow
    <2>5. CASE q = r
        <3> DEFINE t == Append(runs[r], a)
        <3>1. runs'[q] = t /\ runs[q] = runs[r] /\ Len(runs[r]) \in Nat
            BY <2>2, <2>4, <2>5
        <3>2. Len(t) = Len(runs[r]) + 1 /\ \A k \in 1..Len(runs[r]) : t[k] = runs[r][k]
            BY <2>3
        <3> HIDE DEF t
        <3> QED BY <3>1, <3>2
    <2>6. CASE q # r
        BY <2>2, <2>4, <2>6
    <2> QED BY <2>5, <2>6
<1>2. CASE runs' = runs
    <2>1. \A q \in Runs : Len(runs[q]) \in Nat
        BY LenProperties DEF TypeOK
    <2> QED BY <1>2, <2>1 DEF RunsGrow
<1>3. ASSUME NEW e \in Engines, EngineStep(e) \/ Die(e)
      PROVE  runs' = runs
    <2>1. CASE FailureStep(e)
        BY <2>1 DEF FailureStep, ListForFailures, RejectDuplicates, ListJobs, SkipObserved,
               CreateDefect, AnnounceDefect, UpdateDefect, NoteRecurrence, UpdateRaises,
               FinishFailures, github
    <2>2. CASE RecoveryStep(e)
        BY <2>2 DEF RecoveryStep, ListForRecovery, ResolveDefect, ResolveRaises, NoteRecovery,
               FinishMatches, LeaveOrigin, FetchOrigin, ResumeOrigin, NoteResume,
               FinishRecovery, github
    <2>3. CASE Start(e) \/ Ignore(e) \/ Die(e)
        BY <2>3 DEF Start, Ignore, Die
    <2> QED BY <1>3, <2>1, <2>2, <2>3 DEF EngineStep
<1>4. CASE Environment
    BY <1>1, <1>2, <1>4 DEF Environment, Replay, MoveOrigin, CopyDefect, github
<1>5. CASE UNCHANGED vars
    BY <1>2, <1>5 DEF vars, github
<1> QED BY <1>2, <1>3, <1>4, <1>5 DEF Next

LEMMA UpdateReports ==
    ASSUME IInv, NEW e \in Engines, OnePerFingerprint(e), UpdateDefect(e)
    PROVE  /\ pc[e] = "event" /\ pc' = [pc EXCEPT ![e] = "recurred"]
           /\ UNCHANGED <<github, origin, delivery, events, matches, resolved, origins,
                          target, budgets>>
           /\ \E event \in left[e], x \in known[e] :
                  LET i == x.id
                      m == RecordFailure(x.metadata, event)
                  IN  /\ event \in EventType
                      /\ i \in 1..Len(defects) /\ Current(x)
                      /\ Reported(i, event)
                      /\ \A j \in 1..Len(defects) : defects'[j].recurred = defects[j].recurred
                      /\ known'[e] = (known[e] \ {x}) \cup {[id |-> i, metadata |-> m]}
                      /\ left'[e] = left[e] \ {event}
                      /\ subject' = [subject EXCEPT ![e] = i]
<1> USE DEF IInv
<1>1. PICK event \in left[e], x \in known[e] :
          LET metadata == RecordFailure(x.metadata, event)
          IN  /\ x.metadata.fingerprint = event.fingerprint
              /\ ~ContainsObservation(x.metadata, event.observation_key)
              /\ defects' = [defects EXCEPT ![x.id].metadata = metadata,
                                           ![x.id].state = StateFor(metadata),
                                           ![x.id].labels = DesiredLabels(metadata)]
              /\ known' = [known EXCEPT ![e] = Reindexed(e, {x}, x.id, metadata)]
              /\ left' = [left EXCEPT ![e] = @ \ {event}]
              /\ subject' = [subject EXCEPT ![e] = x.id]
    BY DEF UpdateDefect, Indexed
<1> DEFINE i == x.id
           m == RecordFailure(x.metadata, event)
           d0 == defects[i]
           d1 == [d0 EXCEPT !.metadata = m]
           d2 == [d1 EXCEPT !.state = StateFor(m)]
           d3 == [d2 EXCEPT !.labels = DesiredLabels(m)]
<1>2. /\ pc[e] = "event"
      /\ pc' = [pc EXCEPT ![e] = "recurred"]
      /\ UNCHANGED <<github, origin, delivery, events, matches, resolved, origins,
                     target, budgets>>
    BY DEF UpdateDefect, Goto
<1>3. /\ event \in EventType /\ Current(x)
      /\ i \in 1..Len(defects) /\ defects[i].metadata = x.metadata
    BY <1>1, <1>2 DEF TypeOK, IndexFresh, Current, FailurePhases
<1>4. d0 \in IssueType
    BY <1>3, ElementOfSeq DEF TypeOK
<1>5. /\ d3.metadata = m /\ d3.state = StateFor(m) /\ d3.labels = DesiredLabels(m)
      /\ d3.recurred = d0.recurred
    <2> HIDE DEF m, d0
    <2> QED BY <1>4 DEF IssueType
<1>6. defects' = [defects EXCEPT ![i] = d3]
    BY <1>1
<1> HIDE DEF m, d3
<1>7. /\ Len(defects') = Len(defects)
      /\ defects'[i] = d3
      /\ \A j \in 1..Len(defects) : j # i => defects'[j] = defects[j]
    BY <1>3, <1>6, LenProperties DEF TypeOK
<1>8. Reported(i, event)
    <2>1. ASSUME NEW j \in 1..Len(defects), defects[j].metadata.fingerprint = x.metadata.fingerprint
          PROVE  i <= j
        <3>1. PICK y \in known[e] : Represents(y, j)
            BY <1>2 DEF IndexFresh, FailurePhases
        <3>2. y = x
            BY <1>2, <2>1, <3>1 DEF Represents, OnePerFingerprint, FailurePhases
        <3> QED BY <3>1, <3>2 DEF Represents
    <2>2. IsOldest(i)
        BY <1>3, <2>1 DEF IsOldest
    <2> QED BY <1>1, <1>3, <1>5, <1>7, <2>2 DEF Reported, Pending, OthersKept, Kept, m
<1>9. known'[e] = (known[e] \ {x}) \cup {[id |-> i, metadata |-> m]}
    BY <1>1 DEF Reindexed, TypeOK, m
<1>10. \A j \in 1..Len(defects) : defects'[j].recurred = defects[j].recurred
    BY <1>5, <1>7
<1>11. left'[e] = left[e] \ {event} /\ subject' = [subject EXCEPT ![e] = i]
    BY <1>1 DEF TypeOK
<1> QED BY <1>2, <1>3, <1>8, <1>9, <1>10, <1>11 DEF m

LEMMA CreateOpens ==
    ASSUME IInv, NEW e \in Engines, CreateDefect(e)
    PROVE  /\ pc[e] = "event" /\ pc'[e] \in {"announce", "event"}
           /\ \A f \in Engines \ {e} : pc'[f] = pc[f]
           /\ UNCHANGED <<github, origin, delivery, events, matches, resolved, origins,
                          target, budgets>>
           /\ \E event \in left[e] :
                  LET id == Len(defects) + 1
                      m == FromEvent(event)
                  IN  /\ event \in EventType
                      /\ id \in Nat
                      /\ Opened(event)
                      /\ \A i \in 1..Len(defects) : defects'[i].recurred = defects[i].recurred
                      /\ \A x \in known[e] : x.metadata.fingerprint # event.fingerprint
                      /\ known'[e] = known[e] \cup {[id |-> id, metadata |-> m]}
                      /\ left'[e] = left[e] \ {event}
<1> USE DEF IInv
<1>0. PICK id \in Nat : id = Len(defects) + 1
    BY LenProperties DEF TypeOK
<1>1. PICK event \in left[e] :
          LET metadata == FromEvent(event)
          IN  /\ Indexed(e, event) = {}
              /\ defects' = Append(defects, Issue(metadata))
              /\ known' = [known EXCEPT ![e] = Reindexed(e, {}, id, metadata)]
              /\ left' = [left EXCEPT ![e] = @ \ {event}]
              /\ Goto(e, IF Exists(event.originating_issue) THEN "announce" ELSE "event")
    BY <1>0 DEF CreateDefect
<1> DEFINE m == FromEvent(event)
<1>2. /\ pc[e] = "event"
      /\ pc'[e] \in {"announce", "event"}
      /\ \A f \in Engines \ {e} : pc'[f] = pc[f]
      /\ UNCHANGED <<github, origin, delivery, events, matches, resolved, origins,
                     target, budgets>>
    BY <1>1 DEF CreateDefect, Goto, TypeOK
<1>3. event \in EventType /\ defects \in Seq(IssueType) /\ Len(defects) \in Nat
    BY <1>1, LenProperties DEF TypeOK
<1>4. Issue(m) \in IssueType
    BY <1>3, FromEventType, IssueTypes
<1>5. /\ Len(defects') = id
      /\ \A j \in 1..Len(defects) : defects'[j] = defects[j]
      /\ defects'[id] = Issue(m)
    <2> HIDE DEF m
    <2>1. defects' = Append(defects, Issue(m))
        BY <1>1 DEF m
    <2> QED BY <1>0, <1>3, <1>4, <2>1, AppendProperties
<1>6. known'[e] = known[e] \cup {[id |-> id, metadata |-> m]} /\ left'[e] = left[e] \ {event}
    BY <1>1 DEF Reindexed, TypeOK
<1>7. \A x \in known[e] : x.metadata.fingerprint # event.fingerprint
    BY <1>1 DEF Indexed
<1>8. \A i \in 1..Len(defects) : defects[i].metadata.fingerprint # event.fingerprint
    BY <1>2, <1>7 DEF IndexFresh, FailurePhases, Represents
<1>9. Opened(event)
    BY <1>0, <1>1, <1>5, <1>8 DEF Opened, Pending, Kept
<1> QED BY <1>0, <1>2, <1>3, <1>5, <1>6, <1>7, <1>9

LEMMA ResolveRecovers ==
    ASSUME IInv, NEW e \in Engines, Rightful(e), ResolveDefect(e)
    PROVE  /\ pc[e] = "match" /\ pc' = [pc EXCEPT ![e] = "recovered"]
           /\ UNCHANGED <<github, origin, delivery, known, events, left, resolved, target,
                          budgets>>
           /\ delivery[e].run \in Runs
           /\ \E x \in matches[e] :
                  LET i == x.id
                  IN  /\ i \in 1..Len(defects) /\ Current(x)
                      /\ Recovered(i, delivery[e].run)
                      /\ \A j \in 1..Len(defects) : defects'[j].recurred = defects[j].recurred
                      /\ subject'[e] = i
                      /\ matches'[e] = matches[e] \ {x}
                      /\ origins'[e] = origins[e] \cup
                                            ({x.metadata.originating_issue} \ {None})
<1> USE DEF IInv
<1>1. PICK x \in matches[e] :
          /\ defects' = [defects EXCEPT
                 ![x.id].metadata = RecordRecovery(x.metadata, delivery[e].run),
                 ![x.id].state = "done"]
          /\ subject' = [subject EXCEPT ![e] = x.id]
          /\ matches' = [matches EXCEPT ![e] = @ \ {x}]
          /\ origins' = [origins EXCEPT ![e] =
                            @ \cup ({x.metadata.originating_issue} \ {None})]
    BY DEF ResolveDefect
<1>2. /\ pc[e] = "match"
      /\ pc' = [pc EXCEPT ![e] = "recovered"]
      /\ UNCHANGED <<github, origin, delivery, known, events, left, resolved, target,
                     budgets>>
    BY DEF ResolveDefect, Goto
<1>3. /\ delivery[e] \in Deliveries /\ delivery[e].attempt <= Len(runs[delivery[e].run])
      /\ delivery[e].run \in Runs /\ delivery[e].attempt \in 1..Len(runs[delivery[e].run])
    <2>1. delivery[e] \in Deliveries /\ delivery[e].attempt <= Len(runs[delivery[e].run])
        BY <1>2 DEF Delivered, Active
    <2>2. \A q \in Runs : Len(runs[q]) \in Nat
        BY LenProperties DEF TypeOK
    <2> QED BY <2>1, <2>2, BoundsAssumption DEF Deliveries
<1> DEFINE run == delivery[e].run
           i == x.id
           m == RecordRecovery(x.metadata, run)
           d0 == defects[i]
           d1 == [d0 EXCEPT !.metadata = m]
           d2 == [d1 EXCEPT !.state = "done"]
<1>4. i \in 1..Len(defects) /\ Current(x) /\ defects[i].metadata = x.metadata
    BY <1>1, <1>2 DEF MatchesFresh, Current
<1>5. d0 \in IssueType
    BY <1>4, ElementOfSeq DEF TypeOK
<1>6. /\ d2.metadata = m /\ d2.state = "done" /\ d2.labels = d0.labels
      /\ d2.recurred = d0.recurred
    <2> HIDE DEF m, d0
    <2> QED BY <1>5 DEF IssueType
<1>7. defects' = [defects EXCEPT ![i] = d2]
    BY <1>1
<1> HIDE DEF m, d2
<1>8. /\ Len(defects') = Len(defects)
      /\ defects'[i] = d2
      /\ \A j \in 1..Len(defects) : j # i => defects'[j] = defects[j]
    BY <1>4, <1>7, LenProperties DEF TypeOK
<1>9. /\ MatchesRecovery(x.metadata, Context[run]) /\ x.metadata.status # "resolved"
      /\ \E a \in 1..Len(runs[run]) : runs[run][a].conclusion = "success"
    BY <1>1, <1>2, <1>3 DEF Rightful, ConclusionOf, ContextOf
<1>10. Recovered(i, run)
    BY <1>4, <1>6, <1>8, <1>9 DEF Recovered, OthersKept, Kept, m
<1>11. /\ \A j \in 1..Len(defects) : defects'[j].recurred = defects[j].recurred
       /\ subject'[e] = i /\ matches'[e] = matches[e] \ {x}
       /\ origins'[e] = origins[e] \cup ({x.metadata.originating_issue} \ {None})
    BY <1>1, <1>6, <1>8 DEF TypeOK
<1> QED BY <1>1, <1>2, <1>3, <1>4, <1>10, <1>11

LEMMA CopyCopies ==
    ASSUME IInv, NEW i \in 1..Len(defects), CopyDefect(i)
    PROVE  Copied(i) /\ copies' \in Nat
           /\ UNCHANGED <<github, origin, local, completions, faults, replays>>
           /\ \A j \in 1..Len(defects) : defects'[j].recurred = defects[j].recurred
           /\ defects'[Len(defects) + 1].recurred = 0
<1> USE DEF IInv, CopyDefect
<1>1. defects \in Seq(IssueType) /\ Len(defects) \in Nat
    BY LenProperties DEF TypeOK
<1> DEFINE d0 == defects[i]
           d1 == [d0 EXCEPT !.announced = FALSE]
           d2 == [d1 EXCEPT !.recurred = 0]
           copy == [d2 EXCEPT !.recovered = 0]
<1>2. d0 \in IssueType
    BY <1>1, ElementOfSeq
<1>3. /\ copy \in IssueType
      /\ copy.metadata = d0.metadata /\ copy.state = d0.state /\ copy.labels = d0.labels
      /\ copy.recurred = 0
    <2> HIDE DEF d0
    <2>1. d1 \in IssueType BY <1>2 DEF IssueType
    <2>2. d2 \in IssueType BY <2>1 DEF IssueType
    <2> QED BY <1>2, <2>1, <2>2 DEF IssueType
<1>4. defects' = Append(defects, copy)
    OBVIOUS
<1> HIDE DEF copy
<1>5. /\ Len(defects') = Len(defects) + 1
      /\ \A j \in 1..Len(defects) : defects'[j] = defects[j]
      /\ defects'[Len(defects) + 1] = copy
    BY <1>1, <1>3, <1>4, AppendProperties
<1>6. copies' \in Nat /\ copies' # 0
    BY DEF TypeOK
<1> QED BY <1>3, <1>5, <1>6 DEF Copied, Kept

LEMMA CommentKeeps ==
    ASSUME IInv, NEW e \in Engines,
           AnnounceDefect(e) \/ NoteRecurrence(e) \/ NoteRecovery(e)
    PROVE  /\ SameIssues /\ subject[e] \in 1..Len(defects)
           /\ \A j \in 1..Len(defects) :
                  defects'[j].recurred =
                      IF NoteRecurrence(e) /\ j = subject[e] THEN defects[j].recurred + 1
                      ELSE defects[j].recurred
<1> USE DEF IInv
<1> DEFINE i == subject[e]
           d0 == defects[i]
<1>1. i \in 1..Len(defects) /\ d0 \in IssueType
    BY ElementOfSeq DEF AnnounceDefect, NoteRecurrence, NoteRecovery, Aimed, TypeOK
<1>2. defects \in Seq(IssueType)
    BY DEF TypeOK
<1> HIDE DEF d0
<1>3. PICK d1 \in IssueType :
          /\ defects' = [defects EXCEPT ![i] = d1]
          /\ d1.metadata = d0.metadata /\ d1.state = d0.state /\ d1.labels = d0.labels
          /\ d1.recurred = IF NoteRecurrence(e) THEN d0.recurred + 1 ELSE d0.recurred
    <2>1. CASE AnnounceDefect(e)
        <3> DEFINE d1 == [d0 EXCEPT !.announced = TRUE]
        <3>1. defects' = [defects EXCEPT ![i] = d1]
            BY <2>1 DEF AnnounceDefect, d0
        <3>2. d1 \in IssueType /\ d1.metadata = d0.metadata /\ d1.state = d0.state
              /\ d1.labels = d0.labels /\ d1.recurred = d0.recurred
            BY <1>1 DEF IssueType
        <3>3. ~NoteRecurrence(e)
            BY <2>1 DEF AnnounceDefect, NoteRecurrence
        <3> HIDE DEF d1
        <3> QED BY <3>1, <3>2, <3>3
    <2>2. CASE NoteRecurrence(e)
        <3> DEFINE d1 == [d0 EXCEPT !.recurred = @ + 1]
        <3>1. defects' = [defects EXCEPT ![i] = d1]
            BY <2>2 DEF NoteRecurrence, Posted, d0
        <3>2. d1 \in IssueType /\ d1.metadata = d0.metadata /\ d1.state = d0.state
              /\ d1.labels = d0.labels /\ d1.recurred = d0.recurred + 1
            BY <1>1 DEF IssueType
        <3> HIDE DEF d1
        <3> QED BY <2>2, <3>1, <3>2
    <2>3. CASE NoteRecovery(e)
        <3> DEFINE d1 == [d0 EXCEPT !.recovered = @ + 1]
        <3>1. defects' = [defects EXCEPT ![i] = d1]
            BY <2>3 DEF NoteRecovery, Posted, d0
        <3>2. d1 \in IssueType /\ d1.metadata = d0.metadata /\ d1.state = d0.state
              /\ d1.labels = d0.labels /\ d1.recurred = d0.recurred
            BY <1>1 DEF IssueType
        <3>3. ~NoteRecurrence(e)
            BY <2>3 DEF NoteRecovery, NoteRecurrence
        <3> HIDE DEF d1
        <3> QED BY <3>1, <3>2, <3>3
    <2> QED BY <2>1, <2>2, <2>3
<1>4. /\ Len(defects') = Len(defects)
      /\ \A j \in 1..Len(defects) : defects'[j] = IF j = i THEN d1 ELSE defects[j]
    BY <1>1, <1>2, <1>3, ExceptSeq
<1> QED BY <1>1, <1>3, <1>4 DEF SameIssues, Kept, d0

\* Reading, moving an originating issue, starting, ending and dying.
SilentStep(e) ==
    \/ Start(e) \/ Ignore(e) \/ Die(e)
    \/ ListForFailures(e) \/ RejectDuplicates(e) \/ ListJobs(e) \/ SkipObserved(e)
    \/ UpdateRaises(e) \/ FinishFailures(e)
    \/ ListForRecovery(e) \/ ResolveRaises(e) \/ FinishMatches(e) \/ LeaveOrigin(e)
    \/ FetchOrigin(e) \/ ResumeOrigin(e) \/ NoteResume(e) \/ FinishRecovery(e)

LEMMA SilentKeeps ==
    ASSUME NEW e \in Engines, SilentStep(e)
    PROVE  defects' = defects /\ copies' = copies
BY DEF SilentStep, Start, Ignore, Die, ListForFailures, RejectDuplicates, ListJobs,
       SkipObserved, UpdateRaises, FinishFailures, ListForRecovery, ResolveRaises,
       FinishMatches, LeaveOrigin, FetchOrigin, ResumeOrigin, NoteResume, FinishRecovery,
       linear, budgets

LEMMA Changes ==
    ASSUME IInv, \A e \in Engines : Rightful(e) /\ OnePerFingerprint(e), [Next]_vars
    PROVE  \/ SameIssues
           \/ \E i \in 1..Len(defects), event \in EventType : Reported(i, event)
           \/ \E i \in 1..Len(defects), run \in Runs : Recovered(i, run)
           \/ \E event \in EventType : Opened(event)
           \/ \E i \in 1..Len(defects) : Copied(i)
<1>1. ASSUME defects' = defects PROVE SameIssues
    BY <1>1 DEF SameIssues, Kept
<1>2. ASSUME NEW e \in Engines, EngineStep(e) \/ Die(e)
      PROVE  \/ SilentStep(e)
             \/ AnnounceDefect(e) \/ NoteRecurrence(e) \/ NoteRecovery(e)
             \/ CreateDefect(e) \/ UpdateDefect(e) \/ ResolveDefect(e)
    BY <1>2 DEF EngineStep, FailureStep, RecoveryStep, SilentStep
<1>3. ASSUME NEW e \in Engines, UpdateDefect(e)
      PROVE  \E i \in 1..Len(defects), event \in EventType : Reported(i, event)
    <2>1. PICK event \in left[e], x \in known[e] :
              event \in EventType /\ x.id \in 1..Len(defects) /\ Reported(x.id, event)
        BY <1>3, UpdateReports
    <2> QED BY <2>1
<1>4. ASSUME NEW e \in Engines, ResolveDefect(e)
      PROVE  \E i \in 1..Len(defects), run \in Runs : Recovered(i, run)
    <2>1. PICK x \in matches[e] :
              x.id \in 1..Len(defects) /\ Recovered(x.id, delivery[e].run)
        BY <1>4, ResolveRecovers
    <2>2. delivery[e].run \in Runs
        BY <1>4, ResolveRecovers
    <2> QED BY <2>1, <2>2
<1>5. ASSUME NEW e \in Engines, CreateDefect(e)
      PROVE  \E event \in EventType : Opened(event)
    <2>1. PICK event \in left[e] : event \in EventType /\ Opened(event)
        BY <1>5, CreateOpens
    <2> QED BY <2>1
<1>6. CASE \E e \in Engines : EngineStep(e) \/ Die(e)
    BY <1>1, <1>2, <1>3, <1>4, <1>5, <1>6, SilentKeeps, CommentKeeps
<1>7. CASE Environment
    BY <1>1, <1>7, CopyCopies DEF Environment, CompleteAttempt, Replay, MoveOrigin, linear
<1>8. CASE UNCHANGED vars
    BY <1>1, <1>8 DEF vars, linear
<1> QED BY <1>6, <1>7, <1>8 DEF Next

-----------------------------------------------------------------------------
(* The books stay sound *)

LEMMA JustifiedGrows ==
    ASSUME TypeOK, RunsGrow, NEW m \in Metadata, Justified(m)
    PROVE  Justified(m)'
<1> SUFFICES ASSUME m.status = "resolved"
             PROVE  Justified(m)'
    BY DEF Justified
<1> DEFINE r == m.recovery_keys[Len(m.recovery_keys)]
<1>1. m.recovery_keys \in Seq(Runs) /\ m.recovery_keys # <<>>
    BY DEF Justified, Metadata
<1>2. r \in Runs
    BY <1>1, LenProperties, EmptySeq, ElementOfSeq
<1>3. PICK a \in 1..Len(runs[r]) : runs[r][a].conclusion = "success"
    BY DEF Justified
<1>4. Len(runs[r]) \in Nat /\ Len(runs'[r]) >= Len(runs[r]) /\ runs'[r][a] = runs[r][a]
    BY <1>2, LenProperties DEF RunsGrow, TypeOK
<1>5. \E b \in 1..Len(runs'[r]) : runs'[r][b].conclusion = "success"
    BY <1>3, <1>4
<1> QED BY <1>5 DEF Justified

LEMMA FailureIsCounted ==
    ASSUME NEW m \in Metadata, NEW event \in EventType, Counted(m),
           ~ContainsObservation(m, event.observation_key)
    PROVE  Counted(RecordFailure(m, event))
<1> DEFINE n == RecordFailure(m, event)
<1>1. PICK s \in Seq(ObservationKeys), key \in ObservationKeys, c \in Nat \ {0} :
          s = m.observations /\ key = event.observation_key /\ c = m.recurrence_count
    BY DEF Metadata, EventType, Counted
<1>2. PICK t, gone : /\ t = Retain(Append(s, key))
                     /\ gone = IF Len(s) < HistoryLimit THEN 0 ELSE 1
    OBVIOUS
<1>3. n.recurrence_count = c + 1 /\ n.observations = t
    BY <1>1, <1>2, RecordFailureType
<1>4. /\ \A i \in 1..Len(s) : s[i] # key
      /\ \A a, b \in 1..Len(s) : s[a] = s[b] => a = b
      /\ Len(s) = IF c < HistoryLimit THEN c ELSE HistoryLimit
    BY <1>1 DEF Counted, ContainsObservation, Retained
<1>5. Len(s) \in Nat /\ Len(s) <= HistoryLimit /\ gone \in {0, 1}
    BY <1>2, <1>4, LenProperties, PolicyAssumption
<1>6. /\ Len(t) = Len(s) + 1 - gone
      /\ \A i \in 1..(Len(t) - 1) : t[i] = s[i + gone]
      /\ t[Len(t)] = key
    BY <1>2, <1>5, RetainAppend
<1>7. Len(t) = IF c + 1 < HistoryLimit THEN c + 1 ELSE HistoryLimit
    BY <1>2, <1>4, <1>5, <1>6, PolicyAssumption
<1>8. Len(t) \in Nat /\ \A i \in 1..(Len(t) - 1) : i + gone \in 1..Len(s)
    BY <1>5, <1>6
<1>9. ASSUME NEW a \in 1..Len(t), NEW b \in 1..Len(t), t[a] = t[b]
      PROVE  a = b
    <2>1. \A i \in 1..(Len(t) - 1) : t[i] # t[Len(t)]
        BY <1>4, <1>6, <1>8
    <2>2. CASE a \in 1..(Len(t) - 1) /\ b \in 1..(Len(t) - 1)
        <3>1. s[a + gone] = s[b + gone]
            BY <1>6, <1>9, <2>2
        <3>2. a + gone = b + gone
            BY <1>4, <1>8, <2>2, <3>1
        <3> QED BY <1>5, <3>2
    <2>3. CASE a = Len(t) \/ b = Len(t)
        BY <1>8, <1>9, <2>1, <2>3
    <2> QED BY <1>8, <2>2, <2>3
<1> QED BY <1>1, <1>3, <1>7, <1>9 DEF Counted

LEMMA RecoveryIsJustified ==
    ASSUME TypeOK, RunsGrow, NEW m \in Metadata, NEW run \in Runs,
           Len(m.recovery_keys) <= HistoryLimit,
           MatchesRecovery(m, Context[run]),
           \E a \in 1..Len(runs[run]) : runs[run][a].conclusion = "success"
    PROVE  LET n == RecordRecovery(m, run)
           IN  Justified(n)' /\ Len(n.recovery_keys) <= HistoryLimit
<1> DEFINE s == m.recovery_keys
           n == RecordRecovery(m, run)
<1>0. PICK t, gone : /\ t = Retain(Append(s, run))
                     /\ gone = IF Len(s) < HistoryLimit THEN 0 ELSE 1
    OBVIOUS
<1>1. s \in Seq(Runs)
    BY DEF Metadata
<1>2. /\ t \in Seq(Runs) /\ Len(s) \in Nat /\ Len(t) = Len(s) + 1 - gone
      /\ t[Len(t)] = run
    BY <1>0, <1>1, RetainAppend
<1>3. /\ n.recovery_keys = t
      /\ n.workflow_id = m.workflow_id /\ n.branch = m.branch
      /\ n.pull_request_number = m.pull_request_number
    BY <1>0, RecordRecoveryCloses
<1>4. t # <<>> /\ Len(t) <= HistoryLimit
    BY <1>0, <1>2, PolicyAssumption
<1>5. \E b \in 1..Len(runs'[run]) : runs'[run][b].conclusion = "success"
    <2>1. PICK a \in 1..Len(runs[run]) : runs[run][a].conclusion = "success"
        OBVIOUS
    <2>2. Len(runs[run]) \in Nat /\ Len(runs'[run]) >= Len(runs[run]) /\ runs'[run][a] = runs[run][a]
        BY <2>1, LenProperties DEF RunsGrow, TypeOK
    <2>3. a \in 1..Len(runs'[run])
        BY <2>1, <2>2
    <2> QED BY <2>1, <2>2, <2>3
<1>6. /\ m.workflow_id = Context[run].workflow_id
      /\ m.pull_request_number = Context[run].pull_request_number
      /\ m.pull_request_number = None => m.branch = Context[run].branch
    BY DEF MatchesRecovery
<1> HIDE DEF n
<1>7. n.recovery_keys[Len(n.recovery_keys)] = run
    BY <1>2, <1>3
<1>8. Justified(n)'
    BY <1>3, <1>4, <1>5, <1>6, <1>7 DEF Justified
<1> QED BY <1>3, <1>4, <1>8 DEF n

LEMMA DefectTypes ==
    ASSUME TypeOK, NEW i \in 1..Len(defects)
    PROVE  defects[i] \in IssueType /\ defects[i].metadata \in Metadata
<1>1. defects[i] \in IssueType
    BY ElementOfSeq DEF TypeOK
<1> QED BY <1>1 DEF IssueType

\* A book entry that a step leaves alone, or copies, stays sound.
LEMMA BookKept ==
    ASSUME TypeOK, RunsGrow, NEW i \in 1..Len(defects), Booked(i), NEW j,
           defects'[j].metadata = defects[i].metadata,
           defects'[j].state = defects[i].state,
           defects'[j].labels = defects[i].labels
    PROVE  Booked(j)'
<1>1. PICK m \in Metadata : m = defects[i].metadata
    BY DefectTypes
<1>2. Justified(m)'
    BY <1>1, JustifiedGrows DEF Booked
<1> QED BY <1>1, <1>2 DEF Booked, Counted, Justified

LEMMA BooksStaySound ==
    ASSUME LInv, [Next]_vars
    PROVE  (\A i \in 1..Len(defects) : Booked(i))'
<1> USE DEF LInv
<1>1. RunsGrow /\ TypeOK /\ Len(defects) \in Nat
    BY GitHubOnlyAdds, LenProperties DEF IInv, TypeOK
<1>2. CASE SameIssues
    BY <1>1, <1>2, BookKept DEF SameIssues, Kept
<1>3. ASSUME NEW i \in 1..Len(defects), NEW event \in EventType, Reported(i, event)
      PROVE  (\A j \in 1..Len(defects) : Booked(j))'
    <2>1. PICK m \in Metadata : m = defects[i].metadata
        BY <1>1, DefectTypes
    <2> DEFINE n == RecordFailure(m, event)
    <2>2. Counted(n)
        BY <1>3, <2>1, FailureIsCounted DEF Booked, Reported
    <2>3. n.status = "open" /\ n.recovery_keys = m.recovery_keys
        BY RecordFailureOpens
    <2>4. Justified(n)'
        BY <2>3 DEF Justified
    <2>5. /\ defects'[i].metadata = n
          /\ defects'[i].state = StateFor(n)
          /\ defects'[i].labels = DesiredLabels(n)
        BY <1>3, <2>1 DEF Reported
    <2> HIDE DEF n
    <2>6. Booked(i)'
        BY <2>1, <2>2, <2>3, <2>4, <2>5 DEF Booked, Counted, StateFor
    <2>7. \A j \in 1..Len(defects) : j # i => Booked(j)'
        BY <1>1, <1>3, BookKept DEF Reported, OthersKept, Kept
    <2> QED BY <1>3, <2>6, <2>7 DEF Reported, OthersKept
<1>4. ASSUME NEW i \in 1..Len(defects), NEW run \in Runs, Recovered(i, run)
      PROVE  (\A j \in 1..Len(defects) : Booked(j))'
    <2>1. PICK m \in Metadata : m = defects[i].metadata
        BY <1>1, DefectTypes
    <2> DEFINE n == RecordRecovery(m, run)
    <2>2. Justified(n)' /\ Len(n.recovery_keys) <= HistoryLimit
        BY <1>1, <1>4, <2>1, RecoveryIsJustified DEF Booked, Recovered
    <2>3. /\ n.recurrence_count = m.recurrence_count
          /\ n.remediation_depth = m.remediation_depth
          /\ n.observations = m.observations
        BY RecordRecoveryCloses
    <2>4. defects'[i].metadata = n /\ defects'[i].state = "done"
          /\ defects'[i].labels = DesiredLabels(m)
        BY <1>4, <2>1 DEF Recovered, Booked
    <2> HIDE DEF n
    <2>5. DesiredLabels(n) = DesiredLabels(m) /\ Counted(n)
        BY <2>1, <2>3 DEF DesiredLabels, NeedsHuman, DepthExhausted, Booked, Counted
    <2>6. Booked(i)'
        BY <2>2, <2>4, <2>5 DEF Booked, Counted, Justified
    <2>7. \A j \in 1..Len(defects) : j # i => Booked(j)'
        BY <1>1, <1>4, BookKept DEF Recovered, OthersKept, Kept
    <2> QED BY <1>4, <2>6, <2>7 DEF Recovered, OthersKept
<1>5. ASSUME NEW event \in EventType, Opened(event)
      PROVE  (\A j \in 1..Len(defects) : Booked(j))'
    <2> DEFINE m == FromEvent(event)
    <2>0. PICK id : id = Len(defects) + 1
        OBVIOUS
    <2>1. /\ Counted(m) /\ m.recovery_keys = <<>> /\ m.status = "open"
        BY PolicyAssumption DEF Counted, FromEvent
    <2>2. /\ defects'[id].metadata = m
          /\ defects'[id].state = StateFor(m)
          /\ defects'[id].labels = DesiredLabels(m)
        BY <1>5, <2>0 DEF Opened, Issue
    <2> HIDE DEF m
    <2>3. Justified(m)'
        BY <2>1 DEF Justified
    <2>4. Len(m.recovery_keys) <= HistoryLimit
        BY <2>1, PolicyAssumption
    <2>5. Booked(id)'
        BY <2>1, <2>2, <2>3, <2>4 DEF Booked, Counted, Justified, StateFor
    <2>6. \A j \in 1..Len(defects) : Booked(j)'
        BY <1>1, <1>5, BookKept DEF Opened, Kept
    <2> QED BY <1>1, <1>5, <2>0, <2>5, <2>6 DEF Opened
<1>6. ASSUME NEW i \in 1..Len(defects), Copied(i)
      PROVE  (\A j \in 1..Len(defects) : Booked(j))'
    <2>0. PICK id : id = Len(defects) + 1
        OBVIOUS
    <2>1. Booked(id)'
        BY <1>1, <1>6, <2>0, BookKept DEF Copied
    <2>2. \A j \in 1..Len(defects) : Booked(j)'
        BY <1>1, <1>6, BookKept DEF Copied, Kept
    <2> QED BY <1>1, <1>6, <2>0, <2>1, <2>2 DEF Copied
<1>7. \A e \in Engines : Rightful(e) /\ OnePerFingerprint(e)
    BY DEF Promises
<1> QED BY <1>2, <1>3, <1>4, <1>5, <1>6, <1>7, Changes

-----------------------------------------------------------------------------
(* The promises of one feedback run *)

Kinds(e) == Rightful(e) /\ Promises(e)

\* The runs of the other engines are where they were.
Unmoved(e) ==
    \A f \in Engines \ {e} :
        pc'[f] = pc[f] /\ events'[f] = events[f] /\ resolved'[f] = resolved[f]

LEMMA IdlePromises ==
    ASSUME NEW f \in Engines, pc'[f] = "idle", events'[f] = {}, resolved'[f] = {}
    PROVE  Kinds(f)'
BY DEF Kinds, Rightful, Promises, Quiet, BatchKept, OnePerFingerprint, TakenUp, Closing,
       Viewed, Unblocked, FailurePhases, RecoveryPhases

\* While one run takes a step the others are idle, and stay so.
LEMMA OthersIdle ==
    ASSUME LInv, NEW e \in Engines, Active(e) \/ GroupFree,
           Unmoved(e), Kinds(e)'
    PROVE  \A f \in Engines : Kinds(f)'
<1>1. ASSUME NEW f \in Engines, f # e
      PROVE  Kinds(f)'
    <2>1. pc[f] = "idle"
        BY <1>1 DEF LInv, IInv, Serial, GroupFree, Active
    <2>2. pc'[f] = "idle" /\ events'[f] = {} /\ resolved'[f] = {}
        BY <1>1, <2>1 DEF LInv, Promises, Quiet, Unmoved, RecoveryPhases
    <2> QED BY <2>2, IdlePromises
<1> QED BY <1>1

LEMMA FailureSide ==
    ASSUME NEW e \in Engines, pc'[e] \in FailurePhases,
           pc'[e] = "jobs" => events'[e] = {}, resolved'[e] = {},
           BatchKept(e)', OnePerFingerprint(e)'
    PROVE  Kinds(e)'
BY DEF Kinds, Rightful, Promises, Quiet, TakenUp, Closing, Viewed, Unblocked,
       FailurePhases, RecoveryPhases

LEMMA RecoverySide ==
    ASSUME NEW e \in Engines, pc'[e] \in RecoveryPhases,
           Rightful(e)', TakenUp(e)', Closing(e)', Viewed(e)', Unblocked(e)'
    PROVE  Kinds(e)'
BY DEF Kinds, Promises, Quiet, BatchKept, OnePerFingerprint, FailurePhases, RecoveryPhases

LEMMA EndingPromises ==
    ASSUME LInv, NEW e \in Engines, Active(e), Leave(e)
    PROVE  \A f \in Engines : Kinds(f)'
<1>1. pc'[e] = "idle" /\ events'[e] = {} /\ resolved'[e] = {}
    BY DEF Leave, LInv, IInv, TypeOK
<1>2. Unmoved(e)
    BY DEF Unmoved, Leave, LInv, IInv, TypeOK
<1> QED BY <1>1, <1>2, IdlePromises, OthersIdle

LEMMA StartPromises ==
    ASSUME LInv, NEW e \in Engines, Start(e)
    PROVE  \A f \in Engines : Kinds(f)'
<1>1. /\ pc'[e] = "route" /\ events' = events /\ resolved' = resolved
      /\ events[e] = {} /\ resolved[e] = {} /\ GroupFree
    BY DEF Start, Goto, GroupFree, Active, LInv, IInv, TypeOK, Promises, Quiet, RecoveryPhases
<1>2. Kinds(e)'
    BY <1>1 DEF Kinds, Rightful, Promises, Quiet, BatchKept, OnePerFingerprint, TakenUp,
           Closing, Viewed, Unblocked, FailurePhases, RecoveryPhases
<1>3. Unmoved(e)
    BY <1>1 DEF Unmoved, Start, Goto, LInv, IInv, TypeOK
<1> QED BY <1>1, <1>2, <1>3, OthersIdle

LEMMA ListForFailuresPromises ==
    ASSUME LInv, NEW e \in Engines, ListForFailures(e)
    PROVE  \A f \in Engines : Kinds(f)'
<1>1. /\ Active(e) /\ pc'[e] = "jobs" /\ events'[e] = {} /\ known'[e] = Listing
      /\ Indexable(Listing) /\ resolved'[e] = {}
      /\ Unmoved(e)
    BY DEF Unmoved, ListForFailures, Active, Goto, LInv, IInv, TypeOK, Promises, Quiet,
           RecoveryPhases
<1>2. OnePerFingerprint(e)'
    BY <1>1 DEF OnePerFingerprint, Indexable, Listing
<1>3. BatchKept(e)'
    BY <1>1 DEF BatchKept
<1>4. Kinds(e)'
    BY <1>1, <1>2, <1>3, FailureSide DEF FailurePhases
<1> QED BY <1>1, <1>4, OthersIdle

LEMMA ListJobsPromises ==
    ASSUME LInv, NEW e \in Engines, ListJobs(e)
    PROVE  \A f \in Engines : Kinds(f)'
<1>1. /\ Active(e) /\ pc[e] = "jobs" /\ pc'[e] = "event" /\ events'[e] = left'[e]
      /\ known' = known /\ resolved'[e] = {}
      /\ Unmoved(e)
    BY DEF Unmoved, ListJobs, Active, Goto, LInv, IInv, TypeOK, Promises, Quiet,
           RecoveryPhases
<1>2. OnePerFingerprint(e)'
    BY <1>1 DEF OnePerFingerprint, LInv, Promises, FailurePhases
<1>3. BatchKept(e)'
    BY <1>1 DEF BatchKept
<1>4. Kinds(e)'
    BY <1>1, <1>2, <1>3, FailureSide DEF FailurePhases
<1> QED BY <1>1, <1>4, OthersIdle

\* Issue i holds an event: its key is remembered, or the window is full.
Holds(i, event) ==
    LET m == defects[i].metadata
    IN  /\ m.fingerprint = event.fingerprint
        /\ \/ event.observation_key \in Retained(m.observations)
           \/ Len(m.observations) = HistoryLimit

LEMMA SkipObservedPromises ==
    ASSUME LInv, NEW e \in Engines, SkipObserved(e)
    PROVE  \A f \in Engines : Kinds(f)'
<1>1. /\ Active(e) /\ pc[e] = "event" /\ resolved'[e] = {} /\ Unmoved(e)
      /\ UNCHANGED <<pc, events, known, defects>>
    BY DEF Unmoved, SkipObserved, Active, linear, LInv, Promises, Quiet, RecoveryPhases
<1>2. PICK event \in left[e], x \in known[e] :
          /\ x.metadata.fingerprint = event.fingerprint
          /\ ContainsObservation(x.metadata, event.observation_key)
          /\ left'[e] = left[e] \ {event}
    BY DEF SkipObserved, Indexed, LInv, IInv, TypeOK
<1>3. x.id \in 1..Len(defects) /\ defects[x.id].metadata = x.metadata
    BY <1>1 DEF LInv, IInv, IndexFresh, FailurePhases, Current
<1>4. Holds(x.id, event)
    BY <1>2, <1>3 DEF Holds, ContainsObservation
<1>5. BatchKept(e)'
    BY <1>1, <1>2, <1>3, <1>4 DEF BatchKept, Holds, LInv, Promises
<1>6. OnePerFingerprint(e)'
    BY <1>1 DEF OnePerFingerprint, LInv, Promises
<1>7. Kinds(e)'
    BY <1>1, <1>5, <1>6, FailureSide DEF FailurePhases
<1> QED BY <1>1, <1>7, OthersIdle

LEMMA CreatePromises ==
    ASSUME LInv, NEW e \in Engines, CreateDefect(e)
    PROVE  \A f \in Engines : Kinds(f)'
<1>1. /\ pc[e] = "event" /\ Active(e) /\ pc'[e] \in {"announce", "event"}
      /\ events' = events /\ resolved'[e] = {}
      /\ Unmoved(e)
    BY CreateOpens DEF Unmoved, LInv, Active, Promises, Quiet, RecoveryPhases
<1>2. PICK event \in left[e] :
          LET id == Len(defects) + 1
              m == FromEvent(event)
          IN  /\ event \in EventType
              /\ id \in Nat
              /\ Opened(event)
              /\ \A x \in known[e] : x.metadata.fingerprint # event.fingerprint
              /\ known'[e] = known[e] \cup {[id |-> id, metadata |-> m]}
              /\ left'[e] = left[e] \ {event}
    BY CreateOpens DEF LInv
<1>3. PICK id, m : id = Len(defects) + 1 /\ m = FromEvent(event)
    OBVIOUS
<1>4. Len(defects) \in Nat /\ Len(defects') = id /\ defects'[id].metadata = m
      /\ \A i \in 1..Len(defects) : defects'[i].metadata = defects[i].metadata
    BY <1>2, <1>3, LenProperties DEF Opened, Kept, Issue, LInv, IInv, TypeOK
<1>5. /\ m.fingerprint = event.fingerprint
      /\ event.observation_key \in Retained(m.observations)
    BY <1>3 DEF FromEvent, Retained
<1>6. Holds(id, event)'
    BY <1>4, <1>5 DEF Holds
<1>7. ASSUME NEW i \in 1..Len(defects), NEW other, Holds(i, other)
      PROVE  Holds(i, other)'
    BY <1>4, <1>7 DEF Holds
<1>8. ASSUME NEW other \in events'[e] \ left'[e]
      PROVE  \E i \in 1..Len(defects') : Holds(i, other)'
    <2>1. CASE other = event
        <3>1. id \in 1..Len(defects')
            BY <1>3, <1>4
        <3> QED BY <1>6, <2>1, <3>1
    <2>2. CASE other # event
        <3>1. PICK i \in 1..Len(defects) : Holds(i, other)
            BY <1>1, <1>2, <1>8, <2>2 DEF BatchKept, Holds, LInv, Promises, FailurePhases
        <3>2. i \in 1..Len(defects')
            BY <1>3, <1>4
        <3> QED BY <1>7, <3>1, <3>2
    <2> QED BY <2>1, <2>2
<1>9. BatchKept(e)'
    BY <1>8 DEF BatchKept, Holds
<1>10. OnePerFingerprint(e)'
    <2> DEFINE new == [id |-> id, metadata |-> m]
    <2>1. known'[e] = known[e] \cup {new} /\ new.metadata.fingerprint = event.fingerprint
        BY <1>2, <1>3, <1>5
    <2>2. \A x, y \in known[e] : x.metadata.fingerprint = y.metadata.fingerprint => x = y
        BY <1>1 DEF OnePerFingerprint, LInv, Promises, FailurePhases
    <2> HIDE DEF new
    <2> QED BY <1>2, <2>1, <2>2 DEF OnePerFingerprint
<1>11. Kinds(e)'
    BY <1>1, <1>9, <1>10, FailureSide DEF FailurePhases
<1> QED BY <1>1, <1>11, OthersIdle

\* A report keeps what an issue holds: a key is forgotten at a full window only.
LEMMA ReportHolds ==
    ASSUME NEW m \in Metadata, NEW event \in EventType, Len(m.observations) <= HistoryLimit,
           NEW n, n = RecordFailure(m, event), NEW key,
           \/ key = event.observation_key
           \/ key \in Retained(m.observations)
           \/ Len(m.observations) = HistoryLimit
    PROVE  key \in Retained(n.observations) \/ Len(n.observations) = HistoryLimit
<1>1. PICK s \in Seq(ObservationKeys), k \in ObservationKeys :
          s = m.observations /\ k = event.observation_key
    BY DEF Metadata, EventType
<1>2. PICK t, gone : /\ t = Retain(Append(s, k))
                     /\ gone = IF Len(s) < HistoryLimit THEN 0 ELSE 1
    OBVIOUS
<1>3. n.observations = t
    BY <1>1, <1>2, RecordFailureType
<1>4. Len(s) \in Nat /\ Len(s) <= HistoryLimit /\ gone \in {0, 1}
    BY <1>1, <1>2, LenProperties
<1>5. /\ Len(t) = Len(s) + 1 - gone
      /\ \A i \in 1..(Len(t) - 1) : t[i] = s[i + gone]
      /\ t[Len(t)] = k
    BY <1>2, <1>4, RetainAppend
<1>6. CASE Len(s) < HistoryLimit
    <2>1. gone = 0 /\ Len(t) = Len(s) + 1
        BY <1>2, <1>4, <1>5, <1>6, PolicyAssumption
    <2>2. \A i \in 1..Len(s) : t[i] = s[i] /\ i \in 1..Len(t)
        BY <1>4, <1>5, <2>1
    <2>3. key = k \/ \E i \in 1..Len(s) : key = s[i]
        BY <1>1, <1>4, <1>6, PolicyAssumption DEF Retained
    <2>4. Len(t) \in 1..Len(t)
        BY <1>4, <2>1
    <2>5. key \in Retained(t)
        BY <1>5, <2>2, <2>3, <2>4 DEF Retained
    <2> QED BY <1>3, <2>5
<1>7. CASE Len(s) = HistoryLimit
    BY <1>2, <1>3, <1>4, <1>5, <1>7, PolicyAssumption
<1> QED BY <1>4, <1>6, <1>7, PolicyAssumption

LEMMA UpdatePromises ==
    ASSUME LInv, NEW e \in Engines, UpdateDefect(e)
    PROVE  \A f \in Engines : Kinds(f)'
<1>1. /\ pc[e] = "event" /\ Active(e) /\ pc'[e] = "recurred"
      /\ events' = events /\ resolved'[e] = {}
      /\ Unmoved(e)
    <2>1. /\ pc[e] = "event" /\ pc' = [pc EXCEPT ![e] = "recurred"]
          /\ events' = events /\ resolved' = resolved
        BY UpdateReports DEF LInv, Promises
    <2>2. pc'[e] = "recurred" /\ \A f \in Engines \ {e} : pc'[f] = pc[f]
        BY <2>1 DEF LInv, IInv, TypeOK
    <2>3. resolved[e] = {}
        BY <2>1 DEF LInv, Promises, Quiet, RecoveryPhases
    <2> QED BY <2>1, <2>2, <2>3 DEF Unmoved, Active
<1>2. PICK event \in left[e], x \in known[e] :
          LET i == x.id
              m == RecordFailure(x.metadata, event)
          IN  /\ event \in EventType
              /\ i \in 1..Len(defects) /\ Current(x)
              /\ Reported(i, event)
              /\ known'[e] = (known[e] \ {x}) \cup {[id |-> i, metadata |-> m]}
              /\ left'[e] = left[e] \ {event}
    BY UpdateReports DEF LInv, Promises
<1>3. PICK i \in 1..Len(defects), m \in Metadata : i = x.id /\ m = defects[i].metadata
    BY <1>2, DefectTypes DEF LInv, IInv
<1>4. PICK n \in Metadata : n = RecordFailure(m, event)
    BY <1>2, RecordFailureType
<1>5. /\ x.metadata = m /\ event.fingerprint = m.fingerprint /\ n.fingerprint = m.fingerprint
      /\ Len(m.observations) <= HistoryLimit
    <2>1. /\ x.metadata = m /\ event.fingerprint = m.fingerprint
        BY <1>2, <1>3 DEF Current, Reported
    <2>2. n.fingerprint = m.fingerprint
        BY <1>2, <1>4, RecordFailureType
    <2>3. Len(m.observations) <= HistoryLimit
        BY <1>3, PolicyAssumption DEF LInv, Booked, Counted
    <2> QED BY <2>1, <2>2, <2>3
<1>6. /\ Len(defects') = Len(defects) /\ defects'[i].metadata = n
      /\ \A j \in 1..Len(defects) : j # i => defects'[j].metadata = defects[j].metadata
    BY <1>2, <1>3, <1>4 DEF Reported, OthersKept, Kept
<1>7. Holds(i, event)'
    <2>1. event.observation_key \in Retained(n.observations) \/ Len(n.observations) = HistoryLimit
        BY <1>2, <1>4, <1>5, ReportHolds
    <2> QED BY <1>5, <1>6, <2>1 DEF Holds
<1>8. ASSUME NEW j \in 1..Len(defects), NEW other, Holds(j, other)
      PROVE  Holds(j, other)'
    <2>1. CASE j = i
        <3>1. PICK key : key = other.observation_key
            OBVIOUS
        <3>2. key \in Retained(m.observations) \/ Len(m.observations) = HistoryLimit
            BY <1>3, <1>8, <2>1, <3>1 DEF Holds
        <3>3. key \in Retained(n.observations) \/ Len(n.observations) = HistoryLimit
            BY <1>2, <1>4, <1>5, <3>2, ReportHolds
        <3> QED BY <1>3, <1>5, <1>6, <1>8, <2>1, <3>1, <3>3 DEF Holds
    <2>2. CASE j # i
        BY <1>6, <1>8, <2>2 DEF Holds
    <2> QED BY <2>1, <2>2
<1>9. ASSUME NEW other \in events'[e] \ left'[e]
      PROVE  \E j \in 1..Len(defects') : Holds(j, other)'
    <2>1. CASE other = event
        BY <1>6, <1>7, <2>1
    <2>2. CASE other # event
        <3>1. PICK j \in 1..Len(defects) : Holds(j, other)
            BY <1>1, <1>2, <1>9, <2>2 DEF BatchKept, Holds, LInv, Promises, FailurePhases
        <3> QED BY <1>6, <1>8, <3>1
    <2> QED BY <2>1, <2>2
<1>10. BatchKept(e)'
    BY <1>9 DEF BatchKept, Holds
<1>11. OnePerFingerprint(e)'
    <2> DEFINE new == [id |-> i, metadata |-> n]
    <2>1. /\ known'[e] = (known[e] \ {x}) \cup {new}
          /\ new.metadata.fingerprint = x.metadata.fingerprint
        BY <1>2, <1>3, <1>4, <1>5
    <2>2. \A y, z \in known[e] : y.metadata.fingerprint = z.metadata.fingerprint => y = z
        BY <1>1 DEF OnePerFingerprint, LInv, Promises, FailurePhases
    <2> HIDE DEF new
    <2> QED BY <2>1, <2>2 DEF OnePerFingerprint
<1>12. Kinds(e)'
    BY <1>1, <1>10, <1>11, FailureSide DEF FailurePhases
<1> QED BY <1>1, <1>12, OthersIdle

\* A comment: the records are what they were.
LEMMA CommentPromises ==
    ASSUME LInv, NEW e \in Engines,
           AnnounceDefect(e) \/ NoteRecurrence(e) \/ NoteRecovery(e)
    PROVE  \A f \in Engines : Kinds(f)'
<1>1. /\ Len(defects') = Len(defects) /\ subject[e] \in 1..Len(defects)
      /\ \A i \in 1..Len(defects) : defects'[i].metadata = defects[i].metadata
    BY CommentKeeps DEF SameIssues, Kept, LInv
<1>2. /\ Active(e)
      /\ UNCHANGED <<runs, delivery, events, left, known, matches, origins, target, copies>>
      /\ Unmoved(e)
    BY DEF Unmoved, AnnounceDefect, NoteRecurrence, NoteRecovery, Active, Goto, github,
           budgets, LInv, IInv, TypeOK
<1>3. CASE AnnounceDefect(e) \/ NoteRecurrence(e)
    <2>1. pc[e] \in {"announce", "recurred"} /\ pc'[e] = "event" /\ resolved'[e] = {}
        BY <1>3 DEF AnnounceDefect, NoteRecurrence, Goto, LInv, IInv, TypeOK, Promises, Quiet,
               RecoveryPhases
    <2>2. BatchKept(e)' /\ OnePerFingerprint(e)'
        BY <1>1, <1>2, <2>1 DEF BatchKept, OnePerFingerprint, LInv, Promises, FailurePhases
    <2>3. Kinds(e)'
        BY <2>1, <2>2, FailureSide DEF FailurePhases
    <2> QED BY <1>2, <2>3, OthersIdle
<1>4. CASE NoteRecovery(e)
    <2>1. /\ pc[e] = "recovered" /\ pc'[e] = "match"
          /\ resolved'[e] = resolved[e] \cup {subject[e]}
        BY <1>4 DEF NoteRecovery, Goto, LInv, IInv, TypeOK
    <2>2. Rightful(e)'
        BY <1>2, <2>1 DEF Rightful, LInv, ConclusionOf, ContextOf
    <2>3. TakenUp(e)'
        BY <1>1, <1>2, <2>1 DEF TakenUp, LInv, Promises, ContextOf
    <2>4. Closing(e)'
        BY <1>1, <1>2, <2>1 DEF Closing, InView, LInv, Promises, ContextOf, RecoveryPhases
    <2>5. Viewed(e)'
        BY <1>1, <1>2, <2>1 DEF Viewed, LInv, Promises, RecoveryPhases
    <2>6. Unblocked(e)'
        BY <2>1 DEF Unblocked
    <2>7. Kinds(e)'
        BY <2>1, <2>2, <2>3, <2>4, <2>5, <2>6, RecoverySide DEF RecoveryPhases
    <2> QED BY <1>2, <2>7, OthersIdle
<1> QED BY <1>3, <1>4

LEMMA ListForRecoveryPromises ==
    ASSUME LInv, NEW e \in Engines, ListForRecovery(e)
    PROVE  \A f \in Engines : Kinds(f)'
<1>0. PICK run \in Runs : run = delivery[e].run
    BY DEF ListForRecovery, LInv, IInv, Delivered, Active, Deliveries
<1> DEFINE matching == {x \in Listing : MatchesRecovery(x.metadata, Context[run])}
<1>1. /\ Active(e) /\ pc'[e] = "match" /\ known'[e] = Listing
      /\ ConclusionOf(delivery[e]) = "success"
      /\ matches'[e] = {x \in matching : /\ x.metadata.status # "resolved"
                                         /\ ~ContainsRecovery(x.metadata, run)}
      /\ origins'[e] = ReplayedOrigins(matching, run)
      /\ UNCHANGED <<runs, defects, delivery, events, copies>>
      /\ resolved'[e] = {} /\ Unmoved(e)
    BY <1>0 DEF Unmoved, ListForRecovery, Active, Goto, github, linear, budgets,
               LInv, IInv, TypeOK, Promises, Quiet, RecoveryPhases
<1>2. ContextOf(delivery'[e]) = Context[run] /\ delivery'[e].run = run
    BY <1>0, <1>1 DEF ContextOf
<1>3. /\ \A x \in Listing : x.id \in 1..Len(defects) /\ defects[x.id].metadata = x.metadata
      /\ \A i \in 1..Len(defects) : \E x \in Listing :
             x.id = i /\ x.metadata = defects[i].metadata
    <2>1. \A x \in Listing : x.id \in 1..Len(defects) /\ defects[x.id].metadata = x.metadata
        BY DEF Listing
    <2>2. ASSUME NEW i \in 1..Len(defects)
          PROVE  \E x \in Listing : x.id = i /\ x.metadata = defects[i].metadata
        <3>1. [id |-> i, metadata |-> defects[i].metadata] \in Listing
            BY DEF Listing
        <3> QED BY <3>1
    <2> QED BY <2>1, <2>2
<1>4. Rightful(e)'
    BY <1>1, <1>2 DEF Rightful, ConclusionOf
<1>5. TakenUp(e)'
    <2> SUFFICES ASSUME NEW i \in 1..Len(defects),
                        defects[i].metadata.status = "resolved",
                        defects[i].metadata.originating_issue # None,
                        MatchesRecovery(defects[i].metadata, Context[run]),
                        run \in Retained(defects[i].metadata.recovery_keys)
                 PROVE  defects[i].metadata.originating_issue \in ReplayedOrigins(matching, run)
        BY <1>1, <1>2 DEF TakenUp
    <2>1. PICK x \in Listing : x.id = i /\ x.metadata = defects[i].metadata
        BY <1>3
    <2>2. x \in {y \in matching : y.metadata.status = "resolved" /\ ContainsRecovery(y.metadata, run)}
        BY <2>1 DEF ContainsRecovery
    <2> HIDE DEF matching
    <2> QED BY <2>1, <2>2 DEF ReplayedOrigins
<1>6. Closing(e)'
    BY <1>1, <1>2, <1>3 DEF Closing, ContainsRecovery
<1>7. Viewed(e)'
    BY <1>1, <1>3 DEF Viewed
<1>8. Unblocked(e)'
    BY <1>1 DEF Unblocked
<1>9. Kinds(e)'
    BY <1>1, <1>4, <1>5, <1>6, <1>7, <1>8, RecoverySide DEF RecoveryPhases
<1> QED BY <1>1, <1>9, OthersIdle

LEMMA ResolvePromises ==
    ASSUME LInv, NEW e \in Engines, ResolveDefect(e)
    PROVE  \A f \in Engines : Kinds(f)'
<1>1. /\ pc[e] = "match" /\ Active(e) /\ pc'[e] = "recovered"
      /\ UNCHANGED <<runs, delivery, known, events, resolved, copies>>
      /\ Unmoved(e)
    BY ResolveRecovers DEF Unmoved, LInv, Active, IInv, TypeOK, github, budgets
<1>2. PICK run \in Runs : run = delivery[e].run
    BY ResolveRecovers DEF LInv
<1>3. PICK x \in matches[e] :
          LET i == x.id
          IN  /\ i \in 1..Len(defects) /\ Current(x)
              /\ Recovered(i, run)
              /\ subject'[e] = i
              /\ matches'[e] = matches[e] \ {x}
              /\ origins'[e] = origins[e] \cup ({x.metadata.originating_issue} \ {None})
    BY <1>2, ResolveRecovers DEF LInv
<1>4. PICK i \in 1..Len(defects), m \in Metadata, n \in Metadata :
          i = x.id /\ m = defects[i].metadata /\ n = RecordRecovery(m, run)
    BY <1>3, DefectTypes, RecordRecoveryType DEF LInv, IInv
<1>5. /\ x.metadata = m
      /\ Len(defects') = Len(defects) /\ defects'[i].metadata = n
      /\ \A j \in 1..Len(defects) : j # i => defects'[j].metadata = defects[j].metadata
    BY <1>3, <1>4 DEF Current, Recovered, OthersKept, Kept
<1>6. n.status = "resolved" /\ n.originating_issue = m.originating_issue
    BY <1>4, RecordRecoveryCloses
<1>7. ContextOf(delivery'[e]) = Context[run] /\ ContextOf(delivery[e]) = Context[run]
      /\ delivery'[e].run = run
    BY <1>1, <1>2 DEF ContextOf
<1>8. Rightful(e)'
    BY <1>1, <1>3 DEF Rightful, ConclusionOf, ContextOf, LInv
<1>9. TakenUp(e)'
    <2> SUFFICES ASSUME NEW j \in 1..Len(defects),
                        defects'[j].metadata.status = "resolved",
                        defects'[j].metadata.originating_issue # None,
                        MatchesRecovery(defects'[j].metadata, Context[run]),
                        run \in Retained(defects'[j].metadata.recovery_keys)
                 PROVE  defects'[j].metadata.originating_issue \in origins'[e]
        BY <1>5, <1>7 DEF TakenUp
    <2>1. CASE j = i
        BY <1>3, <1>5, <1>6, <2>1
    <2>2. CASE j # i
        BY <1>1, <1>2, <1>3, <1>5, <1>7, <2>2 DEF TakenUp, LInv, Promises
    <2> QED BY <2>1, <2>2
<1>10. Closing(e)'
    <2> SUFFICES ASSUME NEW j \in 1..Len(defects), InView(e, j),
                        MatchesRecovery(defects'[j].metadata, Context[run])
                 PROVE  \/ defects'[j].metadata.status = "resolved"
                        \/ run \in Retained(defects'[j].metadata.recovery_keys)
                        \/ \E y \in matches'[e] : y.id = j
        BY <1>1, <1>5, <1>7 DEF Closing, InView
    <2>1. CASE j = i
        BY <1>5, <1>6, <2>1
    <2>2. CASE j # i
        <3>1. \/ defects[j].metadata.status = "resolved"
              \/ run \in Retained(defects[j].metadata.recovery_keys)
              \/ \E y \in matches[e] : y.id = j
            BY <1>1, <1>2, <1>5, <1>7, <2>2 DEF Closing, LInv, Promises, RecoveryPhases
        <3> QED BY <1>3, <1>4, <1>5, <2>2, <3>1
    <2> QED BY <2>1, <2>2
<1>11. Viewed(e)'
    <2>1. /\ \A y \in known[e] : /\ y.id \in 1..Len(defects)
                                 /\ \/ defects[y.id].metadata = y.metadata
                                    \/ defects[y.id].metadata.status = "resolved"
          /\ copies = 0 => \A j \in 1..Len(defects) : \E y \in known[e] : y.id = j
          /\ \A j \in resolved[e] : j \in 1..Len(defects) /\ defects[j].metadata.status = "resolved"
        BY <1>1 DEF Viewed, LInv, Promises, RecoveryPhases
    <2>2. defects'[subject'[e]].metadata.status = "resolved"
        BY <1>3, <1>4, <1>5, <1>6
    <2>3. \A y \in known'[e] : /\ y.id \in 1..Len(defects')
                               /\ \/ defects'[y.id].metadata = y.metadata
                                  \/ defects'[y.id].metadata.status = "resolved"
        BY <1>1, <1>5, <1>6, <2>1
    <2>4. \A j \in resolved'[e] : j \in 1..Len(defects') /\ defects'[j].metadata.status = "resolved"
        BY <1>1, <1>5, <1>6, <2>1
    <2> QED BY <1>1, <1>5, <2>1, <2>2, <2>3, <2>4 DEF Viewed
<1>12. Unblocked(e)'
    BY <1>1 DEF Unblocked
<1>13. Kinds(e)'
    BY <1>1, <1>8, <1>9, <1>10, <1>11, <1>12, RecoverySide DEF RecoveryPhases
<1> QED BY <1>1, <1>13, OthersIdle

\* The steps after the loop read Linear, and move the originating issues only.
LEMMA ResumePromises ==
    ASSUME LInv, NEW e \in Engines,
           FinishMatches(e) \/ LeaveOrigin(e) \/ FetchOrigin(e) \/ ResumeOrigin(e)
               \/ NoteResume(e)
    PROVE  \A f \in Engines : Kinds(f)'
<1>1. /\ Active(e) /\ pc[e] \in {"match", "resume", "origin", "resumed"}
      /\ pc'[e] \in {"resume", "origin", "resumed"}
      /\ pc[e] = "match" => matches[e] = {}
      /\ UNCHANGED <<runs, defects, delivery, events, known, matches, resolved, copies>>
      /\ Unmoved(e)
    BY DEF Unmoved, FinishMatches, LeaveOrigin, FetchOrigin, ResumeOrigin, NoteResume, Active,
           Goto, github, linear, budgets, LInv, IInv, TypeOK
<1>2. Rightful(e)' /\ TakenUp(e)'
    BY <1>1 DEF Rightful, TakenUp
<1>3. Closing(e)'
    BY <1>1 DEF Closing, InView, LInv, Promises, RecoveryPhases, ContextOf
<1>4. Viewed(e)'
    BY <1>1 DEF Viewed, LInv, Promises, RecoveryPhases
<1>5. Unblocked(e)'
    <2> SUFFICES ASSUME pc'[e] = "origin", NEW i \in 1..Len(defects), InView(e, i),
                        defects[i].metadata.originating_issue = target'[e],
                        defects[i].metadata.pull_request_number =
                            ContextOf(delivery[e]).pull_request_number,
                        defects[i].metadata.status = "open"
                 PROVE  FALSE
        BY <1>1 DEF Unblocked, InView, ContextOf
    <2>1. FetchOrigin(e)
        BY <1>1 DEF FinishMatches, LeaveOrigin, ResumeOrigin, NoteResume, Goto, LInv, IInv, TypeOK
    <2>2. ~StillOpen(e, target'[e])
        BY <2>1 DEF FetchOrigin, LInv, IInv, TypeOK
    <2>3. PICK x \in known[e] : x.id = i
        BY <1>1 DEF Viewed, InView, LInv, Promises, RecoveryPhases
    <2>4. x.metadata = defects[i].metadata /\ x.id \notin resolved[e]
        BY <1>1, <2>3 DEF Viewed, LInv, Promises, RecoveryPhases
    <2> QED BY <2>2, <2>3, <2>4 DEF StillOpen
<1>6. Kinds(e)'
    BY <1>1, <1>2, <1>3, <1>4, <1>5, RecoverySide DEF RecoveryPhases
<1> QED BY <1>1, <1>6, OthersIdle

-----------------------------------------------------------------------------
(* The promises and the environment *)

\* GitHub completes more attempts, people re-run feedback and move issues.
LEMMA StandingPromises ==
    ASSUME LInv, RunsGrow, UNCHANGED <<defects, local, copies>>, NEW f \in Engines
    PROVE  Kinds(f)'
<1>1. Rightful(f)'
    <2> SUFFICES ASSUME pc[f] \in {"match", "recovered"}
                 PROVE  Rightful(f)'
        BY DEF Rightful, local
    <2>1. /\ delivery[f] \in Deliveries
          /\ delivery[f].attempt <= Len(runs[delivery[f].run])
        BY DEF LInv, IInv, Delivered, Active
    <2>2. delivery[f].run \in Runs /\ delivery[f].attempt \in 1..Len(runs[delivery[f].run])
        <3>1. \A r \in Runs : Len(runs[r]) \in Nat
            BY LenProperties DEF LInv, IInv, TypeOK
        <3> QED BY <2>1, <3>1, BoundsAssumption DEF Deliveries
    <2>3. ConclusionOf(delivery[f])' = ConclusionOf(delivery[f])
        BY <2>2 DEF ConclusionOf, RunsGrow, local
    <2> QED BY <2>3 DEF Rightful, LInv, local, ContextOf
<1>2. Promises(f)'
    BY DEF LInv, Promises, Quiet, BatchKept, OnePerFingerprint, TakenUp, Closing, Viewed,
           Unblocked, InView, ContextOf, local
<1> QED BY <1>1, <1>2 DEF Kinds

LEMMA CopyPromises ==
    ASSUME LInv, NEW i \in 1..Len(defects), CopyDefect(i), NEW f \in Engines
    PROVE  Kinds(f)'
<1>1. /\ Copied(i) /\ UNCHANGED <<runs, local>>
      /\ Len(defects) \in Nat
    BY CopyCopies, LenProperties DEF LInv, github, IInv, TypeOK
<1>2. PICK id : id = Len(defects) + 1
    OBVIOUS
<1>3. /\ copies' # 0
      /\ Len(defects') = id
      /\ \A j \in 1..Len(defects) : defects'[j].metadata = defects[j].metadata
      /\ defects'[id].metadata = defects[i].metadata
      /\ \A j \in 1..id : j \in 1..Len(defects) \/ j = id
      /\ \A j \in 1..Len(defects) : j \in 1..id
    BY <1>1, <1>2 DEF Copied, Kept
<1>4. Rightful(f)'
    BY <1>1 DEF Rightful, LInv, local, ContextOf, ConclusionOf
<1>5. Quiet(f)' /\ OnePerFingerprint(f)'
    BY <1>1 DEF Quiet, OnePerFingerprint, LInv, Promises, local
<1>9. pc[f] \in RecoveryPhases =>
          \A j \in 1..Len(defects') : InView(f, j)' => j \in 1..Len(defects) /\ InView(f, j)
    BY <1>1, <1>3 DEF InView, Viewed, LInv, Promises, local
<1>10. Closing(f)'
    BY <1>1, <1>3, <1>9 DEF Closing, LInv, Promises, ContextOf, local
<1>11. Unblocked(f)'
    BY <1>1, <1>3, <1>9 DEF Unblocked, LInv, Promises, ContextOf, RecoveryPhases, local
<1>6. BatchKept(f)'
    BY <1>1, <1>3 DEF BatchKept, LInv, Promises, local
<1>7. TakenUp(f)'
    BY <1>1, <1>3 DEF TakenUp, LInv, Promises, local, ContextOf
<1>8. Viewed(f)'
    <2> SUFFICES ASSUME pc[f] \in RecoveryPhases
                 PROVE  Viewed(f)'
        BY <1>1 DEF Viewed, local
    <2>1. pc[f] = "recovered" => subject[f] \in 1..Len(defects)
        BY DEF LInv, IInv, Aimed
    <2> QED BY <1>1, <1>3, <2>1 DEF Viewed, LInv, Promises, local
<1> QED BY <1>4, <1>5, <1>6, <1>7, <1>8, <1>10, <1>11 DEF Kinds, Promises

-----------------------------------------------------------------------------
(* The invariant is inductive *)

LEMMA InitLInv == Init => LInv
<1> SUFFICES ASSUME Init PROVE LInv
    OBVIOUS
<1>1. IInv
    BY InitIInv
<1>2. \A i \in 1..Len(defects) : Booked(i)
    BY DEF Init
<1>3. ASSUME NEW e \in Engines
      PROVE  Rightful(e) /\ Promises(e)
    BY DEF Init, Rightful, Promises, Quiet, BatchKept, OnePerFingerprint, TakenUp, Closing,
           Viewed, Unblocked, FailurePhases, RecoveryPhases
<1> QED BY <1>1, <1>2, <1>3 DEF LInv

LEMMA NextLInv == LInv /\ [Next]_vars => LInv'
<1> SUFFICES ASSUME LInv, [Next]_vars
             PROVE  LInv'
    OBVIOUS
<1>1. IInv'
    BY NextIInv DEF LInv
<1>2. (\A i \in 1..Len(defects) : Booked(i))'
    BY BooksStaySound
<1>3. RunsGrow
    BY GitHubOnlyAdds DEF LInv
<1>4. \A f \in Engines : Kinds(f)'
    <2>1. ASSUME NEW e \in Engines, EngineStep(e) \/ Die(e)
          PROVE  \A f \in Engines : Kinds(f)'
        <3>1. CASE Start(e)
            BY <3>1, StartPromises
        <3>2. CASE \/ Ignore(e) \/ RejectDuplicates(e) \/ FinishFailures(e) \/ UpdateRaises(e)
                   \/ ResolveRaises(e) \/ FinishRecovery(e) \/ Die(e)
            <4>1. Active(e) /\ Leave(e)
                BY <3>2 DEF Ignore, RejectDuplicates, FinishFailures, UpdateRaises,
                       ResolveRaises, FinishRecovery, Die, Active
            <4> QED BY <4>1, EndingPromises
        <3>3. CASE FailureStep(e)
            BY <3>2, <3>3, ListForFailuresPromises, ListJobsPromises, SkipObservedPromises,
               CreatePromises, CommentPromises, UpdatePromises DEF FailureStep
        <3>4. CASE RecoveryStep(e)
            BY <3>2, <3>4, ListForRecoveryPromises, ResolvePromises, CommentPromises,
               ResumePromises DEF RecoveryStep
        <3> QED BY <2>1, <3>1, <3>2, <3>3, <3>4 DEF EngineStep
    <2>2. CASE UNCHANGED <<defects, local, copies>>
        BY <1>3, <2>2, StandingPromises
    <2>3. CASE Environment
        BY <2>2, <2>3, CopyPromises
           DEF Environment, CompleteAttempt, Replay, MoveOrigin, linear, budgets
    <2>4. CASE UNCHANGED vars
        BY <2>2, <2>4 DEF vars, linear, budgets
    <2> QED BY <2>1, <2>3, <2>4 DEF Next
<1> QED BY <1>1, <1>2, <1>4 DEF LInv, Kinds

\* The defects, the listings and the promises of the runs hold together: what a run
\* listed, wrote and still has to write agrees with Linear in every reachable state.
THEOREM LedgerInductive == Spec => []LInv
<1>1. Init => LInv
    BY InitLInv
<1>2. LInv /\ [Next]_vars => LInv'
    BY NextLInv
<1> QED BY <1>1, <1>2, PTL DEF Spec

\* The recurrence count and the retained history agree in every window: no update
\* of a record loses a key, counts one twice while it is remembered, or keeps more.
THEOREM CountsAreExact == Spec => []ExactCount
<1>1. LInv => ExactCount
    BY DEF LInv, Booked, Counted, ExactCount
<1> QED BY <1>1, LedgerInductive, PTL

\* What a failure run has gone through is in Linear, for batches of any size.
THEOREM BatchesAreRecorded == Spec => []BatchRecorded
<1>1. LInv => BatchRecorded
    BY DEF LInv, Promises, BatchKept, BatchRecorded
<1> QED BY <1>1, LedgerInductive, PTL

\* A failure run never works on an ambiguous index, whatever operators copy.
THEOREM IndexesAreUnambiguous == Spec => []IndexedOnce
<1>1. LInv => IndexedOnce
    BY DEF LInv, Promises, OnePerFingerprint, IndexedOnce
<1> QED BY <1>1, LedgerInductive, PTL

\* Every resolved defect names a run with a success that matches it.
THEOREM ResolutionsAreJustified == Spec => []ResolvedJustified
<1>1. LInv => ResolvedJustified
    BY DEF LInv, Booked, Justified, ResolvedJustified
<1> QED BY <1>1, LedgerInductive, PTL

\* After its loop a recovery run leaves open only what carries its own key.
THEOREM RecoveriesAreComplete == Spec => []RecoveryComplete
<1>1. LInv => RecoveryComplete
    BY DEF LInv, Promises, Closing, RecoveryComplete, RecoveryPhases
<1> QED BY <1>1, LedgerInductive, PTL

\* An originating issue goes back to review only when nothing blocks it.
THEOREM OriginsAreUnblocked == Spec => []ResumeUnblocked
<1>1. LInv => ResumeUnblocked
    BY DEF LInv, Promises, Unblocked, ResumeUnblocked
<1> QED BY <1>1, LedgerInductive, PTL

\* A re-run takes up what a dead run resolved and did not resume.
THEOREM CrashesAreRepaired == Spec => []ResumesAfterCrash
<1>1. LInv => ResumesAfterCrash
    BY DEF LInv, Promises, TakenUp, ResumesAfterCrash
<1> QED BY <1>1, LedgerInductive, PTL

-----------------------------------------------------------------------------
(* Hand-off *)

\* Neither a failure nor a recovery lowers the count or the depth that hand a
\* defect to people.
LEMMA NeedsGrow ==
    ASSUME LInv, [Next]_vars, NEW i \in 1..Len(defects)
    PROVE  /\ NeedsHuman(defects[i].metadata) => NeedsHuman(defects'[i].metadata)
           /\ DepthExhausted(defects[i].metadata) => DepthExhausted(defects'[i].metadata)
           /\ i \in 1..Len(defects')
<1> USE PolicyAssumption
<1>1. TypeOK /\ Len(defects) \in Nat
    BY LenProperties DEF LInv, IInv, TypeOK
<1>2. PICK m \in Metadata : m = defects[i].metadata
    BY <1>1, DefectTypes
<1>3. /\ m.recurrence_count \in Nat /\ m.remediation_depth \in Nat
    BY DEF Metadata
<1>4. CASE Kept(i) /\ i \in 1..Len(defects')
    BY <1>4 DEF Kept
<1>5. ASSUME NEW j \in 1..Len(defects), NEW event \in EventType, Reported(j, event), j = i
      PROVE  /\ NeedsHuman(m) => NeedsHuman(defects'[i].metadata)
             /\ DepthExhausted(m) => DepthExhausted(defects'[i].metadata)
    <2>1. PICK n \in Metadata : n = RecordFailure(m, event)
        BY RecordFailureType
    <2>2. n.recurrence_count = m.recurrence_count + 1 /\ n.remediation_depth >= m.remediation_depth
        BY <2>1, RecordFailureType, RecordFailureOpens
    <2>3. n.remediation_depth \in Nat /\ defects'[i].metadata = n
        BY <1>2, <1>5, <2>1 DEF Metadata, Reported
    <2> QED BY <1>3, <2>2, <2>3 DEF NeedsHuman, DepthExhausted
<1>6. ASSUME NEW j \in 1..Len(defects), NEW run \in Runs, Recovered(j, run), j = i
      PROVE  /\ NeedsHuman(m) => NeedsHuman(defects'[i].metadata)
             /\ DepthExhausted(m) => DepthExhausted(defects'[i].metadata)
    <2>1. PICK n : n = RecordRecovery(m, run)
        OBVIOUS
    <2>2. n.recurrence_count = m.recurrence_count /\ n.remediation_depth = m.remediation_depth
        BY <2>1, RecordRecoveryCloses
    <2>3. defects'[i].metadata = n
        BY <1>2, <1>6, <2>1 DEF Recovered
    <2> QED BY <2>2, <2>3 DEF NeedsHuman, DepthExhausted
<1>7. \/ SameIssues
      \/ \E j \in 1..Len(defects), event \in EventType : Reported(j, event)
      \/ \E j \in 1..Len(defects), run \in Runs : Recovered(j, run)
      \/ \E event \in EventType : Opened(event)
      \/ \E j \in 1..Len(defects) : Copied(j)
    <2>1. \A e \in Engines : Rightful(e) /\ OnePerFingerprint(e)
        BY DEF LInv, Promises
    <2> QED BY <2>1, Changes DEF LInv
<1>8. CASE SameIssues
    BY <1>4, <1>8 DEF SameIssues
<1>9. CASE \E j \in 1..Len(defects), event \in EventType : Reported(j, event)
    BY <1>2, <1>4, <1>5, <1>9 DEF Reported, OthersKept
<1>10. CASE \E j \in 1..Len(defects), run \in Runs : Recovered(j, run)
    BY <1>2, <1>4, <1>6, <1>10 DEF Recovered, OthersKept
<1>11. CASE \E event \in EventType : Opened(event)
    BY <1>1, <1>4, <1>11 DEF Opened
<1>12. CASE \E j \in 1..Len(defects) : Copied(j)
    BY <1>1, <1>4, <1>12 DEF Copied
<1> QED BY <1>7, <1>8, <1>9, <1>10, <1>11, <1>12

\* Hand-off to people is final, for every policy: what lost agent:eligible never
\* gets it back, and an exhausted defect never returns to Todo.
THEOREM HandoffsAreFinal == Spec => HandoffSticky
<1>1. LInv /\ LInv' /\ [Next]_vars =>
          [\A i \in 1..Len(defects) :
               /\ "agent:eligible" \notin defects[i].labels =>
                      "agent:eligible" \notin defects'[i].labels
               /\ DepthExhausted(defects[i].metadata) => defects'[i].state # "todo"]_vars
    <2> SUFFICES ASSUME LInv, LInv', [Next]_vars, NEW i \in 1..Len(defects)
                 PROVE  /\ "agent:eligible" \notin defects[i].labels =>
                               "agent:eligible" \notin defects'[i].labels
                        /\ DepthExhausted(defects[i].metadata) => defects'[i].state # "todo"
        OBVIOUS
    <2>1. /\ NeedsHuman(defects[i].metadata) => NeedsHuman(defects'[i].metadata)
          /\ DepthExhausted(defects[i].metadata) => DepthExhausted(defects'[i].metadata)
          /\ i \in 1..Len(defects')
        BY NeedsGrow
    <2>2. /\ defects[i].labels = DesiredLabels(defects[i].metadata)
          /\ defects'[i].labels = DesiredLabels(defects'[i].metadata)
          /\ DepthExhausted(defects'[i].metadata) => defects'[i].state # "todo"
        BY <2>1 DEF LInv, Booked
    <2> QED BY <2>1, <2>2 DEF DesiredLabels, Labels
<1> QED BY <1>1, LedgerInductive, PTL DEF Spec, HandoffSticky

-----------------------------------------------------------------------------
(* Comments *)

\* 1 if a run has updated issue i and not yet written the comment that follows.
Due(i) == IF \E e \in Engines : pc[e] = "recurred" /\ subject[e] = i THEN 1 ELSE 0

Balanced(i) ==
    LET recurrences == defects[i].metadata.recurrence_count - 1
    IN  /\ defects[i].recurred + Due(i) <= recurrences
        /\ faults = 0 /\ IsOldest(i) => defects[i].recurred + Due(i) = recurrences

AllBalanced == \A i \in 1..Len(defects) : Balanced(i)

\* The count of an issue that is not reported anew is what it was.
LEMMA CountStays ==
    ASSUME LInv, NEW i \in 1..Len(defects),
           \/ Kept(i)
           \/ \E run \in Runs : Recovered(i, run)
    PROVE  defects'[i].metadata.recurrence_count = defects[i].metadata.recurrence_count
<1>1. PICK m \in Metadata : m = defects[i].metadata
    BY DefectTypes DEF LInv, IInv
<1>2. ASSUME NEW run \in Runs, Recovered(i, run)
      PROVE  defects'[i].metadata.recurrence_count = m.recurrence_count
    BY <1>1, <1>2, RecordRecoveryCloses DEF Recovered
<1> QED BY <1>1, <1>2 DEF Kept

\* No comment is due while the only run that may be active is not about to write it.
LEMMA NothingDue ==
    ASSUME LInv, NEW e \in Engines, Active(e) \/ GroupFree, pc[e] # "recurred"
    PROVE  \A i : Due(i) = 0
BY DEF LInv, IInv, Serial, GroupFree, Active, Due

LEMMA NothingDueNext ==
    ASSUME LInv, NEW e \in Engines, Active(e) \/ GroupFree, pc'[e] # "recurred",
           \A f \in Engines \ {e} : pc'[f] = pc[f]
    PROVE  \A i : Due(i)' = 0
BY DEF LInv, IInv, Serial, GroupFree, Active, Due

\* What a step adds is younger: who is the oldest now was it before.
LEMMA OldestBefore ==
    ASSUME LInv, [Next]_vars, NEW i \in 1..Len(defects)
    PROVE  IsOldest(i)' => IsOldest(i)
<1>1. Len(defects) \in Nat /\ \A j \in 1..Len(defects) : defects[j].metadata \in Metadata
    BY DefectTypes, LenProperties DEF LInv, IInv, TypeOK
<1>2. \/ SameIssues
      \/ \E j \in 1..Len(defects), event \in EventType : Reported(j, event)
      \/ \E j \in 1..Len(defects), run \in Runs : Recovered(j, run)
      \/ \E event \in EventType : Opened(event)
      \/ \E j \in 1..Len(defects) : Copied(j)
    <2>1. \A e \in Engines : Rightful(e) /\ OnePerFingerprint(e)
        BY DEF LInv, Promises
    <2> QED BY <2>1, Changes DEF LInv
<1>3. ASSUME NEW j \in 1..Len(defects), NEW event \in EventType, Reported(j, event)
      PROVE  defects'[j].metadata.fingerprint = defects[j].metadata.fingerprint
    BY <1>1, <1>3, RecordFailureType DEF Reported
<1>4. ASSUME NEW j \in 1..Len(defects), NEW run \in Runs, Recovered(j, run)
      PROVE  defects'[j].metadata.fingerprint = defects[j].metadata.fingerprint
    BY <1>1, <1>4, RecordRecoveryType DEF Recovered
<1>5. /\ Len(defects') = Len(defects) \/ Len(defects') = Len(defects) + 1
      /\ \A j \in 1..Len(defects) :
             defects'[j].metadata.fingerprint = defects[j].metadata.fingerprint
    BY <1>2, <1>3, <1>4 DEF SameIssues, Kept, Reported, Recovered, OthersKept, Opened, Copied
<1>6. \A j \in 1..Len(defects) : j \in 1..Len(defects')
    BY <1>1, <1>5
<1> QED BY <1>5, <1>6 DEF IsOldest

LEMMA BalanceKept ==
    ASSUME LInv, AllBalanced, [Next]_vars, NEW i \in 1..Len(defects),
           defects'[i].metadata.recurrence_count = defects[i].metadata.recurrence_count,
           defects'[i].recurred = defects[i].recurred,
           \/ Due(i)' = Due(i) /\ (faults' = 0 => faults = 0)
           \/ Due(i)' = 0 /\ faults' # 0
    PROVE  Balanced(i)'
<1>1. PICK r, c \in Nat : r = defects[i].recurred /\ c = defects[i].metadata.recurrence_count
    BY DefectTypes DEF LInv, IInv, IssueType, Metadata
<1>2. Due(i) \in {0, 1}
    BY DEF Due
<1>3. /\ r + Due(i) <= c - 1
      /\ faults = 0 /\ IsOldest(i) => r + Due(i) = c - 1
    BY <1>1 DEF AllBalanced, Balanced
<1>4. /\ r + Due(i)' <= c - 1
      /\ faults' = 0 /\ IsOldest(i)' => r + Due(i)' = c - 1
    BY <1>1, <1>2, <1>3, OldestBefore
<1> QED BY <1>1, <1>4 DEF Balanced

LEMMA NextBalanced ==
    ASSUME LInv, AllBalanced, [Next]_vars
    PROVE  AllBalanced'
<1>0. /\ faults \in Nat /\ Len(defects) \in Nat
      /\ pc \in [Engines -> Phases] /\ subject \in [Engines -> Nat]
    BY LenProperties DEF LInv, IInv, TypeOK
<1>1. ASSUME NEW e \in Engines, SilentStep(e)
      PROVE  AllBalanced'
    <2>1. /\ defects' = defects
        BY <1>1, SilentKeeps
    <2>2. /\ Active(e) \/ GroupFree
          /\ pc'[e] # "recurred" /\ \A f \in Engines \ {e} : pc'[f] = pc[f]
        BY <1>0, <1>1 DEF SilentStep, Start, Ignore, Die, ListForFailures, RejectDuplicates, ListJobs,
               SkipObserved, UpdateRaises, FinishFailures, ListForRecovery, ResolveRaises,
               FinishMatches, LeaveOrigin, FetchOrigin, ResumeOrigin, NoteResume, FinishRecovery,
               Leave, Goto, Active
    <2>3. \A i : Due(i)' = 0
        BY <2>2, NothingDueNext
    <2>4. CASE Die(e)
        <3>1. faults' # 0
            BY <1>0, <2>4 DEF Die
        <3> QED BY <2>1, <2>3, <3>1, BalanceKept DEF AllBalanced
    <2>5. CASE ~Die(e)
        <3>1. pc[e] # "recurred" /\ faults' = faults
            BY <1>1, <2>5 DEF SilentStep, Start, Ignore, ListForFailures, RejectDuplicates,
                   ListJobs, SkipObserved, UpdateRaises, FinishFailures, ListForRecovery,
                   ResolveRaises, FinishMatches, LeaveOrigin, FetchOrigin, ResumeOrigin,
                   NoteResume, FinishRecovery, budgets, GroupFree, Active
        <3>2. \A i : Due(i) = 0
            BY <2>2, <3>1, NothingDue
        <3> QED BY <2>1, <2>3, <3>1, <3>2, BalanceKept DEF AllBalanced
    <2> QED BY <2>4, <2>5
<1>2. ASSUME NEW e \in Engines, AnnounceDefect(e) \/ NoteRecovery(e)
      PROVE  AllBalanced'
    <2>1. /\ Active(e) /\ pc[e] # "recurred" /\ pc'[e] # "recurred"
          /\ \A f \in Engines \ {e} : pc'[f] = pc[f]
          /\ faults' = faults /\ ~NoteRecurrence(e)
        BY <1>0, <1>2 DEF AnnounceDefect, NoteRecovery, NoteRecurrence, Active, Goto, budgets
    <2>2. \A i : Due(i) = 0 /\ Due(i)' = 0
        BY <2>1, NothingDue, NothingDueNext
    <2>3. SameIssues /\ \A j \in 1..Len(defects) : defects'[j].recurred = defects[j].recurred
        BY <1>2, <2>1, CommentKeeps DEF LInv
    <2> QED BY <2>1, <2>2, <2>3, BalanceKept DEF AllBalanced, SameIssues, Kept
<1>3. ASSUME NEW e \in Engines, NoteRecurrence(e)
      PROVE  AllBalanced'
    <2>1. /\ Active(e) /\ pc[e] = "recurred" /\ pc'[e] # "recurred"
          /\ \A f \in Engines \ {e} : pc'[f] = pc[f]
          /\ faults' = faults
        BY <1>0, <1>3 DEF NoteRecurrence, Active, Goto, budgets
    <2>2. PICK i \in 1..Len(defects) : i = subject[e]
        BY <1>3, CommentKeeps DEF LInv
    <2>3. /\ SameIssues
          /\ defects'[i].recurred = defects[i].recurred + 1
          /\ \A j \in 1..Len(defects) : j # i => defects'[j].recurred = defects[j].recurred
        BY <1>3, <2>2, CommentKeeps DEF LInv
    <2>4. \A j : Due(j)' = 0
        BY <2>1, NothingDueNext
    <2>5. Due(i) = 1
        BY <2>1, <2>2 DEF Due
    <2>6. \A j \in 1..Len(defects) : j # i => Due(j) = 0
        BY <2>1, <2>2 DEF Due, LInv, IInv, Serial, Active
    <2>7. \A j \in 1..Len(defects) : j # i => Balanced(j)'
        BY <2>1, <2>3, <2>4, <2>6, BalanceKept DEF SameIssues, Kept
    <2>8. Balanced(i)'
        <3>1. PICK r, c \in Nat : r = defects[i].recurred /\ c = defects[i].metadata.recurrence_count
            BY DefectTypes DEF LInv, IInv, IssueType, Metadata
        <3>2. r + 1 <= c - 1 /\ (faults = 0 /\ IsOldest(i) => r + 1 = c - 1)
            BY <2>5, <3>1 DEF AllBalanced, Balanced
        <3>3. defects'[i].recurred = r + 1 /\ defects'[i].metadata.recurrence_count = c
            BY <2>3, <3>1 DEF SameIssues, Kept
        <3> QED BY <2>1, <2>4, <3>1, <3>2, <3>3, OldestBefore DEF Balanced
    <2> QED BY <2>3, <2>7, <2>8 DEF AllBalanced, SameIssues
<1>4. ASSUME NEW e \in Engines, CreateDefect(e)
      PROVE  AllBalanced'
    <2>1. /\ Active(e) /\ pc[e] # "recurred" /\ pc'[e] # "recurred"
          /\ \A f \in Engines \ {e} : pc'[f] = pc[f]
          /\ faults' = faults
        BY <1>4, CreateOpens DEF LInv, Active, budgets
    <2>2. \A i : Due(i) = 0 /\ Due(i)' = 0
        BY <2>1, NothingDue, NothingDueNext
    <2>3. PICK event \in EventType :
              /\ Opened(event)
              /\ \A i \in 1..Len(defects) : defects'[i].recurred = defects[i].recurred
        BY <1>4, CreateOpens DEF LInv
    <2>4. PICK id : id = Len(defects) + 1
        OBVIOUS
    <2>5. defects'[id].recurred = 0 /\ defects'[id].metadata.recurrence_count = 1
        BY <2>3, <2>4 DEF Opened, Issue, FromEvent
    <2>6. Balanced(id)'
        BY <2>2, <2>5 DEF Balanced
    <2>7. \A i \in 1..Len(defects) : Balanced(i)'
        BY <2>1, <2>2, <2>3, BalanceKept DEF Opened, Kept
    <2> QED BY <1>0, <2>3, <2>4, <2>6, <2>7 DEF AllBalanced, Opened
<1>5. ASSUME NEW e \in Engines, UpdateDefect(e)
      PROVE  AllBalanced'
    <2>1. /\ pc[e] = "event" /\ pc' = [pc EXCEPT ![e] = "recurred"]
          /\ faults' = faults
        BY <1>5, UpdateReports DEF LInv, Promises, budgets
    <2>2. /\ Active(e) /\ pc'[e] = "recurred"
          /\ \A f \in Engines \ {e} : pc'[f] = "idle"
        BY <1>0, <2>1 DEF Active, LInv, IInv, Serial
    <2>3. \A j : Due(j) = 0
        BY <2>1, <2>2, NothingDue
    <2>4. PICK i \in 1..Len(defects), event \in EventType :
              /\ Reported(i, event)
              /\ \A j \in 1..Len(defects) : defects'[j].recurred = defects[j].recurred
              /\ subject' = [subject EXCEPT ![e] = i]
        <3>1. PICK event \in left[e], x \in known[e] :
                  /\ event \in EventType /\ x.id \in 1..Len(defects)
                  /\ Reported(x.id, event)
                  /\ \A j \in 1..Len(defects) : defects'[j].recurred = defects[j].recurred
                  /\ subject' = [subject EXCEPT ![e] = x.id]
            BY <1>5, UpdateReports DEF LInv, Promises
        <3> QED BY <3>1
    <2>5. subject'[e] = i
        BY <1>0, <2>4
    <2>6. Due(i)' = 1
        BY <2>2, <2>5 DEF Due
    <2>7. \A j \in 1..Len(defects) : j # i => Due(j)' = 0
        BY <2>2, <2>5 DEF Due
    <2>8. \A j \in 1..Len(defects) : j # i => Balanced(j)'
        BY <2>1, <2>3, <2>4, <2>7, BalanceKept DEF Reported, OthersKept, Kept
    <2>9. Balanced(i)'
        <3>1. PICK m \in Metadata : m = defects[i].metadata
            BY DefectTypes DEF LInv, IInv
        <3>2. PICK r, c \in Nat : r = defects[i].recurred /\ c = m.recurrence_count
            BY <3>1, DefectTypes DEF LInv, IInv, IssueType, Metadata
        <3>3. r <= c - 1 /\ (faults = 0 /\ IsOldest(i) => r = c - 1)
            BY <2>3, <3>1, <3>2 DEF AllBalanced, Balanced
        <3>4. defects'[i].metadata.recurrence_count = c + 1 /\ defects'[i].recurred = r
            BY <2>4, <3>1, <3>2, RecordFailureType DEF Reported
        <3> QED BY <2>1, <2>6, <3>2, <3>3, <3>4, OldestBefore DEF Balanced
    <2> QED BY <2>4, <2>8, <2>9 DEF AllBalanced, Reported, OthersKept
<1>6. ASSUME NEW e \in Engines, ResolveDefect(e)
      PROVE  AllBalanced'
    <2>1. /\ pc[e] = "match" /\ pc' = [pc EXCEPT ![e] = "recovered"]
          /\ faults' = faults
        BY <1>6, ResolveRecovers DEF LInv, budgets
    <2>2. /\ Active(e) /\ pc[e] # "recurred" /\ pc'[e] # "recurred"
          /\ \A f \in Engines \ {e} : pc'[f] = pc[f]
        BY <1>0, <2>1 DEF Active
    <2>3. \A i : Due(i) = 0 /\ Due(i)' = 0
        BY <2>2, NothingDue, NothingDueNext
    <2>4. PICK i \in 1..Len(defects), run \in Runs :
              /\ Recovered(i, run)
              /\ \A j \in 1..Len(defects) : defects'[j].recurred = defects[j].recurred
        <3>1. PICK x \in matches[e] :
                  /\ x.id \in 1..Len(defects) /\ Recovered(x.id, delivery[e].run)
                  /\ \A j \in 1..Len(defects) : defects'[j].recurred = defects[j].recurred
            BY <1>6, ResolveRecovers DEF LInv
        <3>2. delivery[e].run \in Runs
            BY <1>6, ResolveRecovers DEF LInv
        <3> QED BY <3>1, <3>2
    <2>5. \A j \in 1..Len(defects) :
              defects'[j].metadata.recurrence_count = defects[j].metadata.recurrence_count
        BY <2>4, CountStays DEF Recovered, OthersKept
    <2> QED BY <2>1, <2>3, <2>4, <2>5, BalanceKept DEF AllBalanced, Recovered, OthersKept
<1>7. CASE \E i \in 1..Len(defects) : CopyDefect(i)
    <2>1. PICK i \in 1..Len(defects) : CopyDefect(i)
        BY <1>7
    <2>2. PICK id : id = Len(defects) + 1
        OBVIOUS
    <2>0. UNCHANGED <<pc, subject, faults>>
        BY <2>1 DEF CopyDefect, local
    <2>3. /\ Copied(i)
          /\ \A j \in 1..Len(defects) : defects'[j].recurred = defects[j].recurred
          /\ defects'[id].recurred = 0
        BY <2>1, <2>2, CopyCopies DEF LInv
    <2>4. \A j : Due(j)' = Due(j)
        BY <2>0 DEF Due
    <2>5. \A j \in 1..Len(defects) : Balanced(j)'
        BY <2>0, <2>3, <2>4, BalanceKept DEF Copied, Kept
    <2>6. Due(id) = 0
        BY <1>0, <2>2 DEF Due, LInv, IInv, Aimed
    <2>7. PICK c \in Nat \ {0} : c = defects[i].metadata.recurrence_count
        BY DEF LInv, Booked, Counted
    <2>8. ~IsOldest(id)'
        <3>1. /\ i \in 1..Len(defects') /\ ~(id <= i)
              /\ defects'[i].metadata.fingerprint = defects'[id].metadata.fingerprint
            BY <1>0, <2>2, <2>3 DEF Copied, Kept
        <3> QED BY <3>1 DEF IsOldest
    <2>9. Balanced(id)'
        BY <2>2, <2>3, <2>4, <2>6, <2>7, <2>8 DEF Balanced, Copied
    <2> QED BY <1>0, <2>2, <2>3, <2>5, <2>9 DEF AllBalanced, Copied
<1>8. CASE UNCHANGED <<defects, local, faults>>
    <2>1. \A j : Due(j)' = Due(j)
        BY <1>8 DEF Due, local
    <2> QED BY <1>8, <2>1, BalanceKept DEF AllBalanced
<1>9. CASE Environment
    BY <1>7, <1>8, <1>9 DEF Environment, CompleteAttempt, Replay, MoveOrigin, linear, budgets
<1>10. CASE UNCHANGED vars
    BY <1>8, <1>10 DEF vars, linear, budgets
<1>11. ASSUME NEW e \in Engines, EngineStep(e) \/ Die(e)
       PROVE  \/ SilentStep(e)
              \/ AnnounceDefect(e) \/ NoteRecurrence(e) \/ NoteRecovery(e)
              \/ CreateDefect(e) \/ UpdateDefect(e) \/ ResolveDefect(e)
    BY <1>11 DEF EngineStep, FailureStep, RecoveryStep, SilentStep
<1> QED BY <1>1, <1>2, <1>3, <1>4, <1>5, <1>6, <1>9, <1>10, <1>11 DEF Next

\* Comments follow the record, whatever dies: never more than recurrences, and as
\* many when nothing has died between an update and its comment.
THEOREM CommentsKeepUp == Spec => []CommentsFollowRecord
<1>1. Init => AllBalanced
    BY DEF Init, AllBalanced
<1>2. LInv /\ AllBalanced /\ [Next]_vars => AllBalanced'
    BY NextBalanced
<1>3. AllBalanced => CommentsFollowRecord
    BY DEF AllBalanced, Balanced, Due, CommentsFollowRecord
<1> QED BY <1>1, <1>2, <1>3, LedgerInductive, PTL DEF Spec

-----------------------------------------------------------------------------
(* The ledger: one report per failure *)

\* A sequence without repetitions retains as many entries as it is long.
LEMMA RetainedSize ==
    ASSUME NEW S, NEW s \in Seq(S), \A a, b \in 1..Len(s) : s[a] = s[b] => a = b
    PROVE  Cardinality(Retained(s)) = Len(s)
<1> DEFINE f == [i \in 1..Len(s) |-> s[i]]
<1>1. Len(s) \in Nat
    BY LenProperties
<1>2. IsFiniteSet(1..Len(s)) /\ Cardinality(1..Len(s)) = Len(s)
    <2>1. PICK n \in Nat : n = Len(s)
        BY <1>1
    <2>2. IsFiniteSet(1..n) /\ Cardinality(1..n) = n
        BY FS_Interval
    <2> QED BY <2>1, <2>2
<1>3. f \in [1..Len(s) -> Retained(s)]
    BY DEF Retained
<1>4. f \in Surjection(1..Len(s), Retained(s))
    BY <1>3 DEF Surjection, Retained
<1>5. f \in Injection(1..Len(s), Retained(s))
    BY <1>3 DEF Injection, IsInjective
<1> QED BY <1>2, <1>4, <1>5, FS_Surjection

\* What a report does to the remembered keys.
LEMMA SeenByReport ==
    ASSUME NEW m \in Metadata, NEW event \in EventType, Counted(m),
           ~ContainsObservation(m, event.observation_key),
           NEW seen, seen = Retained(m.observations)
    PROVE  /\ event.observation_key \in ObservationKeys \ seen
           /\ \E gone \in (IF Cardinality(seen) < HistoryLimit THEN {{}} ELSE {{k} : k \in seen}) :
                  Retained(RecordFailure(m, event).observations)
                      = (seen \ gone) \cup {event.observation_key}
<1>1. PICK s \in Seq(ObservationKeys), key \in ObservationKeys :
          s = m.observations /\ key = event.observation_key
    BY DEF Metadata, EventType
<1>2. PICK t, less : /\ t = Retain(Append(s, key))
                     /\ less = IF Len(s) < HistoryLimit THEN 0 ELSE 1
    OBVIOUS
<1>3. RecordFailure(m, event).observations = t
    BY <1>1, <1>2, RecordFailureType
<1>4. /\ \A i \in 1..Len(s) : s[i] # key
      /\ \A a, b \in 1..Len(s) : s[a] = s[b] => a = b
      /\ Len(s) <= HistoryLimit /\ Len(s) \in Nat
    BY <1>1, LenProperties, PolicyAssumption DEF Counted, ContainsObservation, Retained
<1>5. /\ Len(t) = Len(s) + 1 - less
      /\ \A i \in 1..(Len(t) - 1) : t[i] = s[i + less]
      /\ t[Len(t)] = key
    BY <1>2, <1>4, RetainAppend
<1>6. Cardinality(seen) = Len(s)
    BY <1>1, <1>4, RetainedSize
<1>7. key \notin seen
    BY <1>1, <1>4 DEF Retained
<1>8. CASE less = 0
    <2>1. Retained(t) = (seen \ {}) \cup {key}
        BY <1>1, <1>4, <1>5, <1>8 DEF Retained
    <2>2. Cardinality(seen) < HistoryLimit
        BY <1>2, <1>6, <1>8
    <2> QED BY <1>1, <1>3, <1>7, <2>1, <2>2
<1>9. CASE less = 1
    <2>1. Len(s) = HistoryLimit /\ Len(t) = Len(s) /\ 1 \in 1..Len(s)
        BY <1>2, <1>4, <1>5, <1>9, PolicyAssumption
    <2>2. s[1] \in seen
        BY <1>1, <2>1 DEF Retained
    <2>3. Retained(t) = (seen \ {s[1]}) \cup {key}
        <3>1. ASSUME NEW k \in Retained(t)
              PROVE  k \in (seen \ {s[1]}) \cup {key}
            <4>1. PICK i \in 1..Len(t) : k = t[i]
                BY DEF Retained
            <4>2. CASE i = Len(t)
                BY <1>5, <4>1, <4>2
            <4>3. CASE i # Len(t)
                <5>1. i \in 1..(Len(t) - 1) /\ i + 1 \in 1..Len(s) /\ i + 1 # 1
                    BY <1>4, <2>1, <4>1, <4>3
                <5>2. k = s[i + 1]
                    BY <1>5, <1>9, <4>1, <5>1
                <5>3. k # s[1]
                    BY <1>4, <2>1, <5>1, <5>2
                <5> QED BY <1>1, <5>1, <5>2, <5>3 DEF Retained
            <4> QED BY <4>2, <4>3
        <3>2. ASSUME NEW k \in (seen \ {s[1]}) \cup {key}
              PROVE  k \in Retained(t)
            <4>1. CASE k = key
                BY <1>5, <2>1, <4>1 DEF Retained
            <4>2. CASE k \in seen \ {s[1]}
                <5>1. PICK i \in 1..Len(s) : k = s[i] /\ i # 1
                    BY <1>1, <4>2 DEF Retained
                <5>2. i - 1 \in 1..(Len(t) - 1) /\ (i - 1) + 1 = i /\ i - 1 \in 1..Len(t)
                    BY <1>4, <2>1, <5>1
                <5>3. t[i - 1] = k
                    BY <1>5, <1>9, <5>1, <5>2
                <5> QED BY <5>2, <5>3 DEF Retained
            <4> QED BY <4>1, <4>2
        <3> QED BY <3>1, <3>2
    <2>4. ~(Cardinality(seen) < HistoryLimit)
        BY <1>6, <2>1, PolicyAssumption
    <2>5. {s[1]} \in {{k} : k \in seen}
        BY <2>2
    <2> QED BY <1>1, <1>3, <1>7, <2>3, <2>4, <2>5
<1> QED BY <1>2, <1>8, <1>9

-----------------------------------------------------------------------------
(* Every failure counts once *)

\* The failure that an observation key names, among those GitHub has shown.  The key
\* of a job-less failure was taken from an attempt without failed jobs.
Stands(key, fp) ==
    /\ <<key.run, key.attempt, key.job>> \in Shown(fp)
    /\ key.attempt = 0 => \E a \in 1..Len(runs[key.run]) : runs[key.run][a].failed = {}

\* The events of a run are failures GitHub has shown: it lists them after a failure.
Sourced(e) ==
    /\ pc[e] = "jobs" => ConclusionOf(delivery[e]) = "failure"
    /\ left[e] \subseteq events[e]
    /\ \A event \in events[e] : Stands(event.observation_key, event.fingerprint)

Traced(i) ==
    \A key \in Retained(defects[i].metadata.observations) :
        Stands(key, defects[i].metadata.fingerprint)

Started == {r \in Runs : runs[r] # <<>>}

SInv ==
    /\ IsFiniteSet(Started)
    /\ \A e \in Engines : Sourced(e)
    /\ \A i \in 1..Len(defects) : Traced(i)

LEMMA ShownGrows ==
    ASSUME TypeOK, TypeOK', RunsGrow, NEW fp
    PROVE  Shown(fp) \subseteq Shown(fp)'
<1>1. \A r \in Runs : /\ Len(runs[r]) \in Nat /\ Len(runs'[r]) \in Nat
                      /\ Len(runs'[r]) >= Len(runs[r])
                      /\ \A a \in 1..Len(runs[r]) : runs'[r][a] = runs[r][a]
    BY LenProperties DEF TypeOK, RunsGrow
<1>2. ASSUME NEW k \in Runs \X (1..MaxAttempts) \X Jobs,
             k[2] <= Len(runs[k[1]]), k[3] \in runs[k[1]][k[2]].failed
      PROVE  k[2] <= Len(runs'[k[1]]) /\ k[3] \in runs'[k[1]][k[2]].failed
    <2>1. k[1] \in Runs /\ k[2] \in 1..Len(runs[k[1]]) /\ k[2] \in Nat
        BY <1>1, <1>2, BoundsAssumption
    <2> QED BY <1>1, <1>2, <2>1
<1>3. ASSUME NEW q \in Runs, \E a \in 1..Len(runs[q]) : runs[q][a].conclusion = "failure"
      PROVE  \E a \in 1..Len(runs'[q]) : runs'[q][a].conclusion = "failure"
    <2>1. PICK a \in 1..Len(runs[q]) : runs[q][a].conclusion = "failure"
        BY <1>3
    <2>2. a \in 1..Len(runs'[q]) /\ runs'[q][a] = runs[q][a]
        BY <1>1
    <2> QED BY <2>1, <2>2
<1> QED BY <1>2, <1>3 DEF Shown

LEMMA StandsStays ==
    ASSUME TypeOK, TypeOK', RunsGrow, NEW key, NEW fp, Stands(key, fp)
    PROVE  Stands(key, fp)'
<1>1. <<key.run, key.attempt, key.job>> \in Shown(fp)'
    BY ShownGrows DEF Stands
<1>2. PICK r : r = key.run
    OBVIOUS
<1>3. r \in Runs
    BY <1>2 DEF Stands, Shown
<1>4. /\ Len(runs[r]) \in Nat /\ Len(runs'[r]) \in Nat /\ Len(runs'[r]) >= Len(runs[r])
      /\ \A a \in 1..Len(runs[r]) : runs'[r][a] = runs[r][a]
    BY <1>3, LenProperties DEF TypeOK, RunsGrow
<1>5. ASSUME NEW a \in 1..Len(runs[r])
      PROVE  a \in 1..Len(runs'[r]) /\ runs'[r][a] = runs[r][a]
    BY <1>4
<1> QED BY <1>1, <1>2, <1>5 DEF Stands

LEMMA StartedGrows ==
    ASSUME TypeOK, [Next]_vars, IsFiniteSet(Started)
    PROVE  IsFiniteSet(Started)'
<1>1. ASSUME NEW r \in Runs, CompleteAttempt(r)
      PROVE  IsFiniteSet(Started)'
    <2>1. Started' \subseteq Started \cup {r}
        BY <1>1 DEF CompleteAttempt, Started, TypeOK
    <2>2. IsFiniteSet(Started \cup {r})
        BY FS_AddElement
    <2> QED BY <2>1, <2>2, FS_Subset
<1>2. CASE runs' = runs
    BY <1>2 DEF Started
<1>3. ASSUME NEW e \in Engines, EngineStep(e) \/ Die(e)
      PROVE  runs' = runs
    BY <1>3 DEF EngineStep, FailureStep, RecoveryStep, Start, Ignore, Die, ListForFailures,
           RejectDuplicates, ListJobs, SkipObserved, CreateDefect, AnnounceDefect,
           UpdateDefect, NoteRecurrence, UpdateRaises, FinishFailures, ListForRecovery,
           ResolveDefect, ResolveRaises, NoteRecovery, FinishMatches, LeaveOrigin,
           FetchOrigin, ResumeOrigin, NoteResume, FinishRecovery, github
<1>4. CASE Environment
    BY <1>1, <1>2, <1>4 DEF Environment, Replay, MoveOrigin, CopyDefect, github
<1>5. CASE UNCHANGED vars
    BY <1>2, <1>5 DEF vars, github
<1> QED BY <1>2, <1>3, <1>4, <1>5 DEF Next

\* What GitHub lists when it is asked after a failure has been shown.
LEMMA ListedEventsStand ==
    ASSUME IInv, NEW e \in Engines, pc[e] = "jobs", ConclusionOf(delivery[e]) = "failure",
           NEW event \in FailureEvents(delivery[e])
    PROVE  Stands(event.observation_key, event.fingerprint)
<1> USE DEF IInv
<1>1. PICK r \in Runs, a \in Nat \ {0} :
          delivery[e].run = r /\ delivery[e].attempt = a /\ a <= Len(runs[r])
    BY BoundsAssumption DEF Delivered, Active, Deliveries
<1>2. Len(runs[r]) \in Nat /\ Len(runs[r]) <= MaxAttempts
    BY LenProperties DEF TypeOK
<1>3. PICK latest \in 1..MaxAttempts : latest = Len(runs[r])
    BY <1>1, <1>2, BoundsAssumption
<1>4. runs[r][latest].failed \subseteq Jobs
    <2>1. runs[r] \in Seq(Attempts) /\ latest \in 1..Len(runs[r])
        BY <1>2, <1>3, BoundsAssumption DEF TypeOK
    <2>2. runs[r][latest] \in Attempts
        BY <2>1, ElementOfSeq
    <2> QED BY <2>2 DEF Attempts
<1>5. CASE runs[r][latest].failed # {}
    <2>1. PICK j \in runs[r][latest].failed :
              event = FailureEvent(r, latest, j, Signature[j])
        BY <1>1, <1>3, <1>5 DEF FailureEvents
    <2>2. /\ event.observation_key.run = r /\ event.observation_key.attempt = latest
          /\ event.observation_key.job = j
          /\ event.fingerprint = Fingerprint(r, Signature[j])
        BY <2>1 DEF FailureEvent
    <2>3. PICK k \in Runs \X (1..MaxAttempts) \X Jobs : k = <<r, latest, j>>
        BY <1>4
    <2>4. k[1] = r /\ k[2] = latest /\ k[3] = j
        BY <2>3
    <2>5. /\ k[2] <= Len(runs[k[1]])
          /\ k[3] \in runs[k[1]][k[2]].failed
          /\ event.fingerprint = Fingerprint(k[1], Signature[k[3]])
        BY <1>2, <1>3, <2>2, <2>4
    <2>6. k \in Shown(event.fingerprint)
        BY <2>5 DEF Shown
    <2>7. latest # 0
        BY BoundsAssumption
    <2> QED BY <2>2, <2>3, <2>6, <2>7 DEF Stands
<1>6. CASE runs[r][latest].failed = {}
    <2>1. event = FailureEvent(r, 0, "workflow completion", "workflow completion")
        BY <1>1, <1>3, <1>6 DEF FailureEvents
    <2>2. runs[r][a].conclusion = "failure" /\ a \in 1..Len(runs[r])
        BY <1>1, <1>2 DEF ConclusionOf
    <2>3. <<r, 0, "workflow completion">> \in Shown(Fingerprint(r, "workflow completion"))
        BY <2>2 DEF Shown
    <2>4. latest \in 1..Len(runs[r]) /\ runs[r][latest].failed = {}
        BY <1>2, <1>3, <1>6, BoundsAssumption
    <2> QED BY <2>1, <2>3, <2>4 DEF Stands, FailureEvent
<1> QED BY <1>5, <1>6

\* How a step may change what a run has listed.
LEMMA EventsChange ==
    ASSUME TypeOK, [Next]_vars, NEW e \in Engines
    PROVE  \/ /\ events'[e] = events[e] /\ left'[e] \subseteq left[e]
              /\ pc'[e] = "jobs" => /\ Active(e) /\ delivery'[e] = delivery[e]
                                    /\ \/ pc[e] = "jobs"
                                       \/ ConclusionOf(delivery[e]) = "failure"
           \/ /\ pc[e] = "jobs" /\ pc'[e] # "jobs"
              /\ events'[e] = FailureEvents(delivery[e]) /\ left'[e] = events'[e]
           \/ events'[e] = {} /\ left'[e] = {} /\ pc'[e] # "jobs"
<1> USE DEF TypeOK
<1>1. ASSUME NEW f \in Engines, FailureStep(f), f # e
      PROVE  /\ pc'[e] = pc[e] /\ delivery'[e] = delivery[e]
             /\ events'[e] = events[e] /\ left'[e] = left[e]
    BY <1>1 DEF FailureStep, ListForFailures, RejectDuplicates, ListJobs, SkipObserved,
           CreateDefect, AnnounceDefect, UpdateDefect, NoteRecurrence, UpdateRaises,
           FinishFailures, Goto, Leave
<1>2. ASSUME NEW f \in Engines, RecoveryStep(f), f # e
      PROVE  /\ pc'[e] = pc[e] /\ delivery'[e] = delivery[e]
             /\ events'[e] = events[e] /\ left'[e] = left[e]
    BY <1>2 DEF RecoveryStep, ListForRecovery, ResolveDefect, ResolveRaises, NoteRecovery,
           FinishMatches, LeaveOrigin, FetchOrigin, ResumeOrigin, NoteResume,
           FinishRecovery, Goto, Leave
<1>3. ASSUME NEW f \in Engines, Start(f) \/ Ignore(f) \/ Die(f), f # e
      PROVE  /\ pc'[e] = pc[e] /\ delivery'[e] = delivery[e]
             /\ events'[e] = events[e] /\ left'[e] = left[e]
    BY <1>3 DEF Start, Ignore, Die, Goto, Leave
<1>4. CASE Start(e)
    BY <1>4 DEF Start, Goto
<1>5. ASSUME Leave(e)
      PROVE  events'[e] = {} /\ left'[e] = {} /\ pc'[e] # "jobs"
    BY <1>5 DEF Leave
<1>6. CASE FailureStep(e)
    <2>1. CASE ListForFailures(e)
        BY <2>1 DEF ListForFailures, Goto, Active
    <2>2. CASE ListJobs(e)
        BY <2>2 DEF ListJobs, Goto
    <2>3. CASE SkipObserved(e) \/ CreateDefect(e) \/ UpdateDefect(e)
        <3>1. pc[e] = "event" /\ delivery' = delivery /\ events' = events
            BY <2>3 DEF SkipObserved, CreateDefect, UpdateDefect
        <3>2. pc'[e] # "jobs"
            BY <2>3, <3>1 DEF SkipObserved, CreateDefect, UpdateDefect, Goto
        <3>3. \E event \in left[e] : left' = [left EXCEPT ![e] = @ \ {event}]
            BY <2>3 DEF SkipObserved, CreateDefect, UpdateDefect
        <3>4. left'[e] \subseteq left[e]
            BY <3>3
        <3> QED BY <3>1, <3>2, <3>4
    <2>4. CASE AnnounceDefect(e) \/ NoteRecurrence(e)
        BY <2>4 DEF AnnounceDefect, NoteRecurrence, Goto
    <2>5. CASE RejectDuplicates(e) \/ UpdateRaises(e) \/ FinishFailures(e)
        BY <1>5, <2>5 DEF RejectDuplicates, UpdateRaises, FinishFailures
    <2> QED BY <1>6, <2>1, <2>2, <2>3, <2>4, <2>5 DEF FailureStep
<1>7. CASE RecoveryStep(e)
    <2>1. CASE ResolveRaises(e) \/ FinishRecovery(e)
        BY <1>5, <2>1 DEF ResolveRaises, FinishRecovery
    <2>2. CASE ~(ResolveRaises(e) \/ FinishRecovery(e))
        BY <1>7, <2>2 DEF RecoveryStep, ListForRecovery, ResolveDefect, NoteRecovery,
               FinishMatches, LeaveOrigin, FetchOrigin, ResumeOrigin, NoteResume, Goto
    <2> QED BY <2>1, <2>2
<1>8. CASE Ignore(e) \/ Die(e)
    BY <1>5, <1>8 DEF Ignore, Die
<1>9. CASE Environment
    BY <1>9 DEF Environment, CompleteAttempt, Replay, MoveOrigin, CopyDefect, local, Active
<1>10. CASE UNCHANGED vars
    BY <1>10 DEF vars, local, Active
<1> QED BY <1>1, <1>2, <1>3, <1>4, <1>6, <1>7, <1>8, <1>9, <1>10
        DEF Next, EngineStep, Active

LEMMA InitSInv == Init => SInv
<1> SUFFICES ASSUME Init PROVE SInv
    OBVIOUS
<1>1. Started = {}
    BY DEF Init, Started
<1> QED BY <1>1, FS_EmptySet DEF Init, SInv, Sourced

\* A key of the record after a failure is one from before, or the event's.
LEMMA KeysOfReport ==
    ASSUME NEW m \in Metadata, NEW event \in EventType, Len(m.observations) <= HistoryLimit,
           NEW key \in Retained(RecordFailure(m, event).observations)
    PROVE  key \in Retained(m.observations) \/ key = event.observation_key
<1>1. PICK s \in Seq(ObservationKeys), new \in ObservationKeys :
          s = m.observations /\ new = event.observation_key
    BY DEF Metadata, EventType
<1>2. PICK t, gone : /\ t = Retain(Append(s, new))
                     /\ gone = IF Len(s) < HistoryLimit THEN 0 ELSE 1
    OBVIOUS
<1>3. RecordFailure(m, event).observations = t
    BY <1>1, <1>2, RecordFailureType
<1>4. /\ Len(s) \in Nat /\ gone \in {0, 1}
      /\ Len(t) = Len(s) + 1 - gone
      /\ \A i \in 1..(Len(t) - 1) : t[i] = s[i + gone]
      /\ t[Len(t)] = new
    <2>1. Len(s) \in Nat /\ Len(s) <= HistoryLimit
        BY <1>1, LenProperties
    <2>2. gone \in {0, 1}
        BY <1>2
    <2> QED BY <1>2, <2>1, <2>2, RetainAppend
<1>5. PICK i \in 1..Len(t) : key = t[i]
    BY <1>3 DEF Retained
<1>6. CASE i = Len(t)
    BY <1>1, <1>4, <1>5, <1>6
<1>7. CASE i # Len(t)
    <2>1. i \in 1..(Len(t) - 1) /\ i + gone \in 1..Len(s)
        BY <1>4, <1>7
    <2> QED BY <1>1, <1>4, <1>5, <2>1 DEF Retained
<1> QED BY <1>6, <1>7

LEMMA NextSInv ==
    ASSUME LInv, LInv', SInv, [Next]_vars
    PROVE  SInv'
<1>1. /\ TypeOK /\ TypeOK' /\ RunsGrow /\ Len(defects) \in Nat
      /\ \A i \in 1..Len(defects) : defects[i].metadata \in Metadata
    BY GitHubOnlyAdds, DefectTypes, LenProperties DEF LInv, IInv, TypeOK
<1>2. \A key, fp : Stands(key, fp) => Stands(key, fp)'
    BY <1>1, StandsStays
<1>3. IsFiniteSet(Started)'
    BY <1>1, StartedGrows DEF SInv
<1>4. ASSUME NEW e \in Engines PROVE Sourced(e)'
    <2>1. Sourced(e)
        BY DEF SInv
    <2>2. CASE /\ events'[e] = events[e] /\ left'[e] \subseteq left[e]
               /\ pc'[e] = "jobs" => /\ Active(e) /\ delivery'[e] = delivery[e]
                                     /\ \/ pc[e] = "jobs"
                                        \/ ConclusionOf(delivery[e]) = "failure"
        <3>1. ASSUME pc'[e] = "jobs" PROVE ConclusionOf(delivery[e])' = "failure"
            <4>1. delivery'[e] = delivery[e] /\ ConclusionOf(delivery[e]) = "failure"
                BY <2>1, <2>2, <3>1 DEF Sourced
            <4>2. delivery[e] \in Deliveries /\ delivery[e].attempt <= Len(runs[delivery[e].run])
                BY <2>2, <3>1 DEF LInv, IInv, Delivered
            <4>3. /\ delivery[e].run \in Runs
                  /\ delivery[e].attempt \in 1..Len(runs[delivery[e].run])
                <5>1. delivery[e].run \in Runs /\ delivery[e].attempt \in 1..MaxAttempts
                    BY <4>2 DEF Deliveries
                <5>2. Len(runs[delivery[e].run]) \in Nat
                    BY <1>1, <5>1, LenProperties DEF TypeOK
                <5> QED BY <4>2, <5>1, <5>2, BoundsAssumption
            <4> QED BY <1>1, <4>1, <4>3 DEF RunsGrow, ConclusionOf
        <3> QED BY <1>2, <2>1, <2>2, <3>1 DEF Sourced
    <2>3. CASE /\ pc[e] = "jobs" /\ pc'[e] # "jobs"
               /\ events'[e] = FailureEvents(delivery[e]) /\ left'[e] = events'[e]
        BY <1>2, <2>1, <2>3, ListedEventsStand DEF Sourced, LInv
    <2>4. CASE events'[e] = {} /\ left'[e] = {} /\ pc'[e] # "jobs"
        BY <2>4 DEF Sourced
    <2> QED BY <1>1, <2>2, <2>3, <2>4, EventsChange
<1>5. \A event : Pending(event) => Stands(event.observation_key, event.fingerprint)
    BY DEF SInv, Sourced, Pending
<1>6. ASSUME NEW i \in 1..Len(defects), NEW j \in 1..Len(defects'),
             defects'[j].metadata.observations = defects[i].metadata.observations,
             defects'[j].metadata.fingerprint = defects[i].metadata.fingerprint
      PROVE  Traced(j)'
    BY <1>2, <1>6 DEF SInv, Traced
<1>7. ASSUME SameIssues
      PROVE  \A j \in 1..Len(defects') : Traced(j)'
    BY <1>6, <1>7 DEF SameIssues, Kept
<1>8. ASSUME NEW i \in 1..Len(defects), NEW event \in EventType, Reported(i, event)
      PROVE  \A j \in 1..Len(defects') : Traced(j)'
    <2>1. PICK m \in Metadata, n \in Metadata :
              /\ m = defects[i].metadata /\ n = RecordFailure(m, event)
              /\ n = defects'[i].metadata /\ n.fingerprint = m.fingerprint
              /\ event.fingerprint = m.fingerprint /\ Len(m.observations) <= HistoryLimit
        BY <1>1, <1>8, RecordFailureType, PolicyAssumption DEF Reported, LInv, Booked, Counted
    <2>2. Traced(i)'
        <3>1. ASSUME NEW key \in Retained(n.observations) PROVE Stands(key, n.fingerprint)'
            <4>1. key \in Retained(m.observations) \/ key = event.observation_key
                BY <2>1, KeysOfReport
            <4> QED BY <1>2, <1>5, <1>8, <2>1, <4>1 DEF SInv, Traced, Reported
        <3> QED BY <2>1, <3>1 DEF Traced
    <2> QED BY <1>6, <1>8, <2>2 DEF Reported, OthersKept, Kept
<1>9. ASSUME NEW i \in 1..Len(defects), NEW run \in Runs, Recovered(i, run)
      PROVE  \A j \in 1..Len(defects') : Traced(j)'
    <2>1. PICK m \in Metadata, n \in Metadata :
              /\ m = defects[i].metadata /\ n = RecordRecovery(m, run)
              /\ n = defects'[i].metadata /\ n.fingerprint = m.fingerprint
              /\ n.observations = m.observations
        BY <1>1, <1>9, RecordRecoveryType, RecordRecoveryCloses DEF Recovered
    <2>2. Traced(i)'
        BY <1>6, <1>9, <2>1 DEF Recovered, OthersKept
    <2> QED BY <1>6, <1>9, <2>2 DEF Recovered, OthersKept, Kept
<1>10. ASSUME NEW event \in EventType, Opened(event)
       PROVE  \A j \in 1..Len(defects') : Traced(j)'
    <2>1. PICK id, n : id = Len(defects) + 1 /\ n = FromEvent(event)
        OBVIOUS
    <2>2. /\ defects'[id].metadata = n /\ n.fingerprint = event.fingerprint
          /\ n.observations = <<event.observation_key>>
        BY <1>10, <2>1 DEF Opened, Issue, FromEvent
    <2>3. Traced(id)'
        BY <1>2, <1>5, <1>10, <2>2 DEF Traced, Retained, Opened
    <2>4. \A j \in 1..Len(defects') : j = id \/ j \in 1..Len(defects)
        BY <1>1, <1>10, <2>1 DEF Opened
    <2> QED BY <1>6, <1>10, <2>3, <2>4 DEF Opened, Kept
<1>11. ASSUME NEW i \in 1..Len(defects), Copied(i)
       PROVE  \A j \in 1..Len(defects') : Traced(j)'
    <2>1. \A j \in 1..Len(defects') : j = Len(defects) + 1 \/ j \in 1..Len(defects)
        BY <1>1, <1>11 DEF Copied
    <2> QED BY <1>6, <1>11, <2>1 DEF Copied, Kept
<1>12. \A e \in Engines : Rightful(e) /\ OnePerFingerprint(e)
    BY DEF LInv, Promises
<1> QED BY <1>3, <1>4, <1>7, <1>8, <1>9, <1>10, <1>11, <1>12, Changes DEF LInv, SInv

LEMMA ShownIsFinite ==
    ASSUME TypeOK, IsFiniteSet(Started), NEW fp
    PROVE  IsFiniteSet(Shown(fp))
<1>1. \A r \in Runs, a \in Nat : a \in 1..Len(runs[r]) => r \in Started
    BY DEF Started
<1> DEFINE S == {k \in Runs \X (1..MaxAttempts) \X Jobs :
                    /\ k[2] <= Len(runs[k[1]])
                    /\ k[3] \in runs[k[1]][k[2]].failed
                    /\ fp = Fingerprint(k[1], Signature[k[3]])}
           Q == {q \in Runs : fp = Fingerprint(q, "workflow completion")
                      /\ \E a \in 1..Len(runs[q]) : runs[q][a].conclusion = "failure"}
           T == {<<r, 0, "workflow completion">> : r \in Q}
           P == (Started \X (1..MaxAttempts)) \X Jobs
<1>2. IsFiniteSet(S)
    <2>1. IsFiniteSet(P)
        <3>1. IsFiniteSet(1..MaxAttempts)
            BY FS_Interval, BoundsAssumption
        <3>2. PICK A : A = Started \X (1..MaxAttempts)
            OBVIOUS
        <3>3. IsFiniteSet(A)
            BY <3>1, <3>2, FiniteProduct
        <3> QED BY <3>2, <3>3, FiniteProduct, JobsAssumption
    <2> DEFINE f == [k \in S |-> <<<<k[1], k[2]>>, k[3]>>]
    <2>2. \A k \in S : /\ k[1] \in Started /\ k[2] \in 1..MaxAttempts /\ k[3] \in Jobs
                       /\ k = <<k[1], k[2], k[3]>>
        <3> TAKE k \in S
        <3>1. k[1] \in Runs /\ k[2] \in 1..MaxAttempts /\ k[3] \in Jobs
              /\ k = <<k[1], k[2], k[3]>> /\ k[2] <= Len(runs[k[1]])
            OBVIOUS
        <3>2. Len(runs[k[1]]) \in Nat
            BY <3>1, LenProperties DEF TypeOK
        <3> QED BY <1>1, <3>1, <3>2, BoundsAssumption
    <2> HIDE DEF S
    <2>3. f \in Injection(S, P)
        BY <2>2 DEF Injection, IsInjective
    <2> HIDE DEF f, P
    <2> QED BY <2>1, <2>3, FS_Injection
<1>3. IsFiniteSet(T)
    <2>1. IsFiniteSet(Q)
        <3>1. ASSUME NEW q \in Q PROVE q \in Started
            <4>1. PICK a \in 1..Len(runs[q]) : runs[q][a].conclusion = "failure"
                OBVIOUS
            <4>2. q \in Runs
                OBVIOUS
            <4> HIDE DEF Q
            <4>3. PICK n \in Nat : n = Len(runs[q])
                BY <4>2, LenProperties DEF TypeOK
            <4>4. a \in Nat
                BY <4>1, <4>3
            <4> QED BY <1>1, <4>1, <4>2, <4>4
        <3> QED BY <3>1, FS_Subset
    <2> DEFINE f == [k \in T |-> k[1]]
    <2> HIDE DEF Q
    <2>2. ASSUME NEW k \in T PROVE k[1] \in Q /\ k = <<k[1], 0, "workflow completion">>
        <3>1. PICK r \in Q : k = <<r, 0, "workflow completion">>
            OBVIOUS
        <3> QED BY <3>1
    <2> HIDE DEF T
    <2>3. f \in Injection(T, Q)
        BY <2>2 DEF Injection, IsInjective
    <2> HIDE DEF f
    <2> QED BY <2>1, <2>3, FS_Injection
<1> HIDE DEF S, T
<1>4. Shown(fp) = S \cup T
    BY DEF Shown, S, T
<1> QED BY <1>2, <1>3, <1>4, FS_Union

\* Whatever is re-run, dies or is copied, a failure adds to the count of its defect
\* once, until the defect has counted more failures than its window holds.
THEOREM FailuresCountOnce == Spec => []CountedOnce
<1>1. Init => SInv
    BY InitSInv
<1>2. LInv /\ LInv' /\ SInv /\ [Next]_vars => SInv'
    BY NextSInv
<1>3. LInv /\ SInv => CountedOnce
    <2> SUFFICES ASSUME LInv, SInv, NEW i \in 1..Len(defects)
                 PROVE  LET m == defects[i].metadata
                        IN  \/ m.recurrence_count <= Cardinality(Shown(m.fingerprint))
                            \/ /\ m.recurrence_count > HistoryLimit
                               /\ HistoryLimit <= Cardinality(Shown(m.fingerprint))
        BY DEF CountedOnce
    <2>1. PICK m \in Metadata : m = defects[i].metadata
        BY DefectTypes DEF LInv, IInv
    <2>a. PICK s \in Seq(ObservationKeys), c \in Nat \ {0} :
              s = m.observations /\ c = m.recurrence_count
        BY <2>1 DEF LInv, Booked, Counted, Metadata
    <2>b. PICK S, R : S = Shown(m.fingerprint) /\ R = Retained(s)
        OBVIOUS
    <2>2. /\ s = m.observations /\ c = m.recurrence_count
          /\ S = Shown(m.fingerprint) /\ R = Retained(s)
        BY <2>a, <2>b
    <2>3. /\ \A a, b \in 1..Len(s) : s[a] = s[b] => a = b
          /\ Len(s) = IF c < HistoryLimit THEN c ELSE HistoryLimit
        BY <2>1, <2>2 DEF LInv, Booked, Counted
    <2>4. Cardinality(R) = Len(s)
        BY <2>2, <2>3, RetainedSize
    <2>5. IsFiniteSet(S) /\ Cardinality(S) \in Nat
        BY <2>2, ShownIsFinite, FS_CardinalityType DEF LInv, IInv, SInv
    <2>6. \A key \in R : <<key.run, key.attempt, key.job>> \in S
        BY <2>1, <2>2 DEF SInv, Traced, Stands
    <2> DEFINE f == [key \in R |-> <<key.run, key.attempt, key.job>>]
    <2>7. f \in Injection(R, S)
        <3>1. R \subseteq ObservationKeys
            BY <2>2, ElementOfSeq DEF Retained
        <3>2. ASSUME NEW a \in R, NEW b \in R, f[a] = f[b] PROVE a = b
            <4>1. a \in ObservationKeys /\ b \in ObservationKeys
                BY <3>1
            <4>2. a.run = b.run /\ a.attempt = b.attempt /\ a.job = b.job
                BY <3>2
            <4> QED BY <4>1, <4>2 DEF ObservationKeys
        <3> QED BY <2>6, <3>2 DEF Injection, IsInjective
    <2> HIDE DEF f
    <2>8. Cardinality(R) <= Cardinality(S)
        BY <2>5, <2>7, FS_Injection
    <2>9. c <= Cardinality(S) \/ (c > HistoryLimit /\ HistoryLimit <= Cardinality(S))
        BY <2>3, <2>4, <2>5, <2>8, PolicyAssumption
    <2> QED BY <2>1, <2>2, <2>9
<1> QED BY <1>1, <1>2, <1>3, LedgerInductive, PTL DEF Spec

\* What a record remembers did happen: each of its keys names a job that GitHub has
\* shown to have failed with this very fingerprint, or a failure without a job.
THEOREM HistoriesAreReal ==
    Spec => [](\A i \in 1..Len(defects) :
                   \A key \in Retained(defects[i].metadata.observations) :
                       <<key.run, key.attempt, key.job>>
                           \in Shown(defects[i].metadata.fingerprint))
<1>1. Init => SInv
    BY InitSInv
<1>2. LInv /\ LInv' /\ SInv /\ [Next]_vars => SInv'
    BY NextSInv
<1>3. SInv => \A i \in 1..Len(defects) :
                  \A key \in Retained(defects[i].metadata.observations) :
                      <<key.run, key.attempt, key.job>>
                          \in Shown(defects[i].metadata.fingerprint)
    BY DEF SInv, Traced, Stands
<1> QED BY <1>1, <1>2, <1>3, LedgerInductive, PTL DEF Spec

\* The wrong attempt is named only where there are several: what FallbackMeansNoJobs
\* says is true of runs that nobody re-runs.
THEOREM FallbacksNeedReruns ==
    ASSUME MaxAttempts <= 1
    PROVE  Spec => []FallbackMeansNoJobs
<1>1. Init => SInv
    BY InitSInv
<1>2. LInv /\ LInv' /\ SInv /\ [Next]_vars => SInv'
    BY NextSInv
<1>3. LInv /\ SInv => FallbackMeansNoJobs
    <2> SUFFICES ASSUME LInv, SInv, NEW i \in 1..Len(defects),
                        NEW key \in Retained(defects[i].metadata.observations),
                        key.attempt = 0
                 PROVE  \E a \in 1..Len(runs[key.run]) :
                            runs[key.run][a].conclusion = "failure"
                            /\ runs[key.run][a].failed = {}
        BY DEF FallbackMeansNoJobs
    <2>1. PICK fp : Stands(key, fp)
        BY DEF SInv, Traced
    <2>2. PICK r : r = key.run
        OBVIOUS
    <2>3. /\ r \in Runs /\ \E a \in 1..Len(runs[r]) : runs[r][a].conclusion = "failure"
          /\ \E b \in 1..Len(runs[r]) : runs[r][b].failed = {}
        <3>1. <<r, 0, key.job>> \in Shown(fp)
            BY <2>1, <2>2 DEF Stands
        <3>2. <<r, 0, key.job>> \notin Runs \X (1..MaxAttempts) \X Jobs
            BY BoundsAssumption
        <3>3. PICK q \in Runs : /\ <<r, 0, key.job>> = <<q, 0, "workflow completion">>
                                /\ \E a \in 1..Len(runs[q]) : runs[q][a].conclusion = "failure"
            BY <3>1, <3>2 DEF Shown
        <3>4. r = q
            BY <3>3
        <3> QED BY <2>1, <2>2, <3>3, <3>4 DEF Stands
    <2>4. Len(runs[r]) \in Nat /\ Len(runs[r]) <= 1
        BY <2>3, LenProperties, BoundsAssumption DEF LInv, IInv, TypeOK
    <2>5. \A a, b \in 1..Len(runs[r]) : a = b
        BY <2>4
    <2> QED BY <2>2, <2>3, <2>5
<1> QED BY <1>1, <1>2, <1>3, LedgerInductive, PTL DEF Spec

\* A backslash in a job's name is the only thing that cuts a batch short.
THEOREM BatchesNeedRenderableNames ==
    ASSUME Unrenderable = {}
    PROVE  Spec => BatchFinished
<1>1. TypeOK /\ [Next]_vars =>
          [\A e \in Engines :
               pc[e] = "event" /\ pc'[e] = "idle" /\ faults' = faults => left[e] = {}]_vars
    <2> SUFFICES ASSUME TypeOK, Next, NEW e \in Engines,
                        pc[e] = "event", pc'[e] = "idle", faults' = faults
                 PROVE  left[e] = {}
        OBVIOUS
    <2> USE DEF TypeOK
    <2>1. \A m : Renderable(m)
        BY DEF Renderable
    <2>2. \A f \in Engines : ~Die(f) /\ ~UpdateRaises(f)
        BY <2>1 DEF Die, UpdateRaises
    <2>3. ASSUME NEW f \in Engines, FailureStep(f)
          PROVE  left[e] = {}
        BY <2>2, <2>3 DEF FailureStep, ListForFailures, RejectDuplicates, ListJobs,
               SkipObserved, CreateDefect, AnnounceDefect, UpdateDefect, NoteRecurrence,
               FinishFailures, Goto, Leave
    <2>4. ASSUME NEW f \in Engines, RecoveryStep(f)
          PROVE  FALSE
        BY <2>4 DEF RecoveryStep, ListForRecovery, ResolveDefect, ResolveRaises,
               NoteRecovery, FinishMatches, LeaveOrigin, FetchOrigin, ResumeOrigin,
               NoteResume, FinishRecovery, Goto, Leave
    <2>5. ASSUME NEW f \in Engines, Start(f) \/ Ignore(f)
          PROVE  FALSE
        BY <2>5 DEF Start, Ignore, Goto, Leave
    <2>6. ~Environment
        BY DEF Environment, CompleteAttempt, Replay, MoveOrigin, CopyDefect, local
    <2> QED BY <2>2, <2>3, <2>4, <2>5, <2>6 DEF Next, EngineStep
<1> QED BY <1>1, Inductive, PTL DEF Spec, BatchFinished, IInv

-----------------------------------------------------------------------------
(* Every feedback run comes to its end *)

\* How far a run is from its end: the phases it has before it, and then the calls
\* that its current loop can still make.
StageOf ==
    [idle |-> 0, resume |-> 1, origin |-> 1, resumed |-> 1, match |-> 2, recovered |-> 2,
     event |-> 2, announce |-> 2, recurred |-> 2, jobs |-> 3, route |-> 4]

Stage(e) == StageOf[pc[e]]

Work(e) ==
    CASE pc[e] = "event" -> 2 * Cardinality(left[e])
      [] pc[e] \in {"announce", "recurred"} -> 2 * Cardinality(left[e]) + 1
      [] pc[e] = "match" -> 2 * Cardinality(matches[e])
      [] pc[e] = "recovered" -> 2 * Cardinality(matches[e]) + 1
      [] pc[e] = "resume" -> 3 * Cardinality(origins[e])
      [] pc[e] = "origin" -> 3 * Cardinality(origins[e]) + 2
      [] pc[e] = "resumed" -> 3 * Cardinality(origins[e]) + 1
      [] OTHER -> 0

Closer(e) == Stage(e)' < Stage(e) \/ (Stage(e)' = Stage(e) /\ Work(e)' < Work(e))

AsFar(e) == Stage(e)' = Stage(e) /\ Work(e)' = Work(e)

\* Batches, listings and the issues to resume are finite, whatever is in the project.
RInv ==
    \A e \in Engines :
        IsFiniteSet(left[e]) /\ IsFiniteSet(matches[e]) /\ IsFiniteSet(origins[e])

LEMMA BatchIsFinite ==
    ASSUME IInv, NEW e \in Engines, Active(e)
    PROVE  IsFiniteSet(FailureEvents(delivery[e]))
<1> USE DEF IInv
<1>1. PICK r \in Runs, a \in Nat \ {0} :
          delivery[e].run = r /\ delivery[e].attempt = a /\ a <= Len(runs[r])
    BY BoundsAssumption DEF Delivered, Deliveries
<1>2. PICK latest \in Nat \ {0} : latest = Len(runs[r])
    BY <1>1, LenProperties DEF TypeOK
<1>3. PICK failed : failed = runs[r][latest].failed
    OBVIOUS
<1>4. failed \subseteq Jobs
    <2>1. runs[r] \in Seq(Attempts) /\ latest \in 1..Len(runs[r])
        BY <1>2 DEF TypeOK
    <2>2. runs[r][latest] \in Attempts
        BY <2>1, ElementOfSeq
    <2> QED BY <1>3, <2>2 DEF Attempts
<1>5. IsFiniteSet(failed)
    BY <1>4, FS_Subset, JobsAssumption
<1>6. CASE failed # {}
    <2> DEFINE T == {FailureEvent(r, latest, j, Signature[j]) : j \in failed}
               f == [j \in failed |-> FailureEvent(r, latest, j, Signature[j])]
    <2>1. FailureEvents(delivery[e]) = T
        BY <1>1, <1>2, <1>3, <1>6 DEF FailureEvents
    <2>2. f \in Surjection(failed, T)
        BY DEF Surjection
    <2> HIDE DEF f, T
    <2> QED BY <1>5, <2>1, <2>2, FS_Surjection
<1>7. CASE failed = {}
    <2>1. FailureEvents(delivery[e])
              = {FailureEvent(r, 0, "workflow completion", "workflow completion")}
        BY <1>1, <1>2, <1>3, <1>7 DEF FailureEvents
    <2>2. IsFiniteSet({} \cup {FailureEvent(r, 0, "workflow completion", "workflow completion")})
        BY FS_EmptySet, FS_AddElement
    <2> QED BY <2>1, <2>2
<1> QED BY <1>6, <1>7

LEMMA ListingIsFinite ==
    ASSUME TypeOK
    PROVE  IsFiniteSet(Listing)
<1>1. PICK n \in Nat : n = Len(defects)
    BY LenProperties DEF TypeOK
<1> DEFINE f == [i \in 1..n |-> [id |-> i, metadata |-> defects[i].metadata]]
<1>2. f \in Surjection(1..n, Listing)
    BY <1>1 DEF Surjection, Listing
<1>3. IsFiniteSet(1..n)
    BY FS_Interval
<1> HIDE DEF f
<1> QED BY <1>2, <1>3, FS_Surjection

LEMMA ReplayedIsFinite ==
    ASSUME NEW S, IsFiniteSet(S), NEW run
    PROVE  IsFiniteSet(ReplayedOrigins(S, run))
<1> DEFINE R == {x \in S : x.metadata.status = "resolved" /\ ContainsRecovery(x.metadata, run)}
           T == {x.metadata.originating_issue : x \in R}
           f == [x \in R |-> x.metadata.originating_issue]
<1>1. IsFiniteSet(R)
    BY FS_Subset
<1>2. f \in Surjection(R, T)
    BY DEF Surjection
<1>3. IsFiniteSet(T)
    <2> HIDE DEF f, R, T
    <2> QED BY <1>1, <1>2, FS_Surjection
<1>4. ReplayedOrigins(S, run) \subseteq T
    BY DEF ReplayedOrigins
<1> HIDE DEF T
<1> QED BY <1>3, <1>4, FS_Subset

\* How a step may change what a run has still to recover.
LEMMA RecoveryChange ==
    ASSUME TypeOK, [Next]_vars, NEW e \in Engines
    PROVE  \/ /\ matches'[e] \subseteq matches[e]
              /\ \E o : origins'[e] \subseteq origins[e] \cup {o}
           \/ /\ matches'[e] \subseteq Listing
              /\ \E S \in SUBSET Listing : \E run : origins'[e] = ReplayedOrigins(S, run)
           \/ matches'[e] = {} /\ origins'[e] = {}
<1> USE DEF TypeOK
<1>1. ASSUME NEW f \in Engines, EngineStep(f) \/ Die(f), f # e
      PROVE  matches'[e] = matches[e] /\ origins'[e] = origins[e]
    BY <1>1 DEF EngineStep, FailureStep, RecoveryStep, Start, Ignore, Die, ListForFailures,
           RejectDuplicates, ListJobs, SkipObserved, CreateDefect, AnnounceDefect,
           UpdateDefect, NoteRecurrence, UpdateRaises, FinishFailures, ListForRecovery,
           ResolveDefect, ResolveRaises, NoteRecovery, FinishMatches, LeaveOrigin,
           FetchOrigin, ResumeOrigin, NoteResume, FinishRecovery, Leave
<1>2. ASSUME Leave(e)
      PROVE  matches'[e] = {} /\ origins'[e] = {}
    BY <1>2 DEF Leave
<1>3. CASE FailureStep(e)
    BY <1>2, <1>3 DEF FailureStep, ListForFailures, RejectDuplicates, ListJobs,
           SkipObserved, CreateDefect, AnnounceDefect, UpdateDefect, NoteRecurrence,
           UpdateRaises, FinishFailures
<1>4. CASE Start(e) \/ Ignore(e) \/ Die(e) \/ ResolveRaises(e) \/ FinishRecovery(e)
    BY <1>2, <1>4 DEF Start, Ignore, Die, ResolveRaises, FinishRecovery
<1>5. CASE ListForRecovery(e)
    <2>1. PICK run : run = delivery[e].run
        OBVIOUS
    <2>2. PICK S \in SUBSET Listing : S = {x \in Listing : MatchesRecovery(x.metadata, Context[run])}
        OBVIOUS
    <2>3. /\ matches'[e] = {x \in S : /\ x.metadata.status # "resolved"
                                      /\ ~ContainsRecovery(x.metadata, run)}
          /\ origins'[e] = ReplayedOrigins(S, run)
        BY <1>5, <2>1, <2>2 DEF ListForRecovery
    <2> QED BY <2>3
<1>6. CASE ResolveDefect(e)
    <2>1. PICK x \in matches[e] :
              /\ matches' = [matches EXCEPT ![e] = @ \ {x}]
              /\ origins' = [origins EXCEPT ![e] =
                                @ \cup ({x.metadata.originating_issue} \ {None})]
        BY <1>6 DEF ResolveDefect
    <2>2. /\ matches'[e] \subseteq matches[e]
          /\ origins'[e] \subseteq origins[e] \cup {x.metadata.originating_issue}
        BY <2>1
    <2> QED BY <2>2
<1>7. CASE NoteRecovery(e) \/ FinishMatches(e) \/ LeaveOrigin(e) \/ FetchOrigin(e)
               \/ ResumeOrigin(e) \/ NoteResume(e)
    BY <1>7 DEF NoteRecovery, FinishMatches, LeaveOrigin, FetchOrigin, ResumeOrigin, NoteResume
<1>8. CASE Environment
    BY <1>8 DEF Environment, CompleteAttempt, Replay, MoveOrigin, CopyDefect, local
<1>9. CASE UNCHANGED vars
    BY <1>9 DEF vars, local
<1> QED BY <1>1, <1>3, <1>4, <1>5, <1>6, <1>7, <1>8, <1>9 DEF Next, EngineStep, RecoveryStep

LEMMA NextRInv ==
    ASSUME IInv, RInv, [Next]_vars
    PROVE  RInv'
<1> SUFFICES ASSUME NEW e \in Engines
             PROVE  IsFiniteSet(left'[e]) /\ IsFiniteSet(matches'[e]) /\ IsFiniteSet(origins'[e])
    BY DEF RInv
<1>1. IsFiniteSet(left[e]) /\ IsFiniteSet(matches[e]) /\ IsFiniteSet(origins[e])
    BY DEF RInv
<1>2. IsFiniteSet(left'[e])
    <2>1. pc[e] = "jobs" => IsFiniteSet(FailureEvents(delivery[e]))
        BY BatchIsFinite DEF Active
    <2>2. \/ left'[e] \subseteq left[e]
          \/ pc[e] = "jobs" /\ left'[e] = FailureEvents(delivery[e])
          \/ left'[e] = {}
        BY EventsChange DEF IInv
    <2> QED BY <1>1, <2>1, <2>2, FS_Subset, FS_EmptySet
<1>3. IsFiniteSet(matches'[e]) /\ IsFiniteSet(origins'[e])
    <2>1. IsFiniteSet(Listing)
        BY ListingIsFinite DEF IInv
    <2>2. ASSUME NEW S \in SUBSET Listing, NEW run
          PROVE  IsFiniteSet(ReplayedOrigins(S, run))
        BY <2>1, FS_Subset, ReplayedIsFinite
    <2>3. ASSUME NEW o PROVE IsFiniteSet(origins[e] \cup {o})
        BY <1>1, FS_AddElement
    <2>4. CASE /\ matches'[e] \subseteq matches[e]
               /\ \E o : origins'[e] \subseteq origins[e] \cup {o}
        BY <1>1, <2>3, <2>4, FS_Subset
    <2>5. CASE /\ matches'[e] \subseteq Listing
               /\ \E S \in SUBSET Listing : \E run : origins'[e] = ReplayedOrigins(S, run)
        BY <2>1, <2>2, <2>5, FS_Subset
    <2>6. CASE matches'[e] = {} /\ origins'[e] = {}
        BY <2>6, FS_EmptySet
    <2> QED BY <2>4, <2>5, <2>6, RecoveryChange DEF IInv
<1> QED BY <1>2, <1>3

LEMMA LessWork ==
    ASSUME NEW S, IsFiniteSet(S), NEW x \in S
    PROVE  /\ Cardinality(S) \in Nat \ {0}
           /\ Cardinality(S \ {x}) = Cardinality(S) - 1
BY FS_CardinalityType, FS_RemoveElement, FS_EmptySet

LEMMA StepsAdvance ==
    ASSUME TypeOK, RInv, NEW e \in Engines, Active(e), EngineStep(e)
    PROVE  Closer(e)
<1>1. /\ IsFiniteSet(left[e]) /\ IsFiniteSet(matches[e]) /\ IsFiniteSet(origins[e])
      /\ pc \in [Engines -> Phases] /\ ~Start(e)
    BY DEF RInv, TypeOK, Start, GroupFree
<1>2. PICK l, m, o \in Nat : /\ l = Cardinality(left[e]) /\ m = Cardinality(matches[e])
                             /\ o = Cardinality(origins[e])
    BY <1>1, FS_CardinalityType
<1>3. ASSUME Leave(e) PROVE Closer(e)
    <2>1. pc'[e] = "idle" /\ pc[e] \in Phases \ {"idle"}
        BY <1>1, <1>3 DEF Leave, Active
    <2> QED BY <2>1 DEF Closer, Stage, StageOf, Phases, FailurePhases, RecoveryPhases
<1>4. CASE ListForFailures(e) \/ ListJobs(e) \/ ListForRecovery(e) \/ FinishMatches(e)
    <2>1. \/ pc[e] = "route" /\ pc'[e] \in {"jobs", "match"}
          \/ pc[e] = "jobs" /\ pc'[e] = "event"
          \/ pc[e] = "match" /\ pc'[e] = "resume"
        BY <1>1, <1>4 DEF ListForFailures, ListJobs, ListForRecovery, FinishMatches, Goto
    <2> QED BY <2>1 DEF Closer, Stage, StageOf
<1>5. CASE SkipObserved(e) \/ CreateDefect(e) \/ UpdateDefect(e)
    <2>1. pc[e] = "event" /\ pc'[e] \in {"event", "announce", "recurred"}
        BY <1>1, <1>5 DEF SkipObserved, CreateDefect, UpdateDefect, Goto
    <2>2. PICK x \in left[e] : left'[e] = left[e] \ {x}
        BY <1>5 DEF SkipObserved, CreateDefect, UpdateDefect, TypeOK
    <2>3. l \in Nat \ {0} /\ Cardinality(left'[e]) = l - 1
        BY <1>1, <1>2, <2>2, LessWork
    <2>4. Work(e) = 2 * l /\ Work(e)' \in {2 * (l - 1), 2 * (l - 1) + 1}
        BY <1>2, <2>1, <2>3 DEF Work
    <2>5. Work(e)' < Work(e)
        BY <2>3, <2>4
    <2> QED BY <2>1, <2>5 DEF Closer, Stage, StageOf
<1>6. CASE AnnounceDefect(e) \/ NoteRecurrence(e)
    <2>1. pc[e] \in {"announce", "recurred"} /\ pc'[e] = "event" /\ left' = left
        BY <1>1, <1>6 DEF AnnounceDefect, NoteRecurrence, Goto
    <2>2. Work(e) = 2 * l + 1 /\ Work(e)' = 2 * l
        BY <1>2, <2>1 DEF Work
    <2> QED BY <2>1, <2>2 DEF Closer, Stage, StageOf
<1>7. CASE ResolveDefect(e)
    <2>1. pc[e] = "match" /\ pc'[e] = "recovered"
        BY <1>1, <1>7 DEF ResolveDefect, Goto
    <2>2. PICK x \in matches[e] : matches'[e] = matches[e] \ {x}
        BY <1>7 DEF ResolveDefect, TypeOK
    <2>3. m \in Nat \ {0} /\ Cardinality(matches'[e]) = m - 1
        BY <1>1, <1>2, <2>2, LessWork
    <2>4. Work(e) = 2 * m /\ Work(e)' = 2 * (m - 1) + 1
        BY <1>2, <2>1, <2>3 DEF Work
    <2>5. Work(e)' < Work(e)
        BY <2>3, <2>4
    <2> QED BY <2>1, <2>5 DEF Closer, Stage, StageOf
<1>8. CASE NoteRecovery(e)
    <2>1. pc[e] = "recovered" /\ pc'[e] = "match" /\ matches' = matches
        BY <1>1, <1>8 DEF NoteRecovery, Goto
    <2>2. Work(e) = 2 * m + 1 /\ Work(e)' = 2 * m
        BY <1>2, <2>1 DEF Work
    <2> QED BY <2>1, <2>2 DEF Closer, Stage, StageOf
<1>9. CASE LeaveOrigin(e) \/ FetchOrigin(e)
    <2>1. pc[e] = "resume" /\ pc'[e] \in {"resume", "origin"}
        BY <1>1, <1>9 DEF LeaveOrigin, FetchOrigin, Goto
    <2>2. PICK x \in origins[e] : origins'[e] = origins[e] \ {x}
        BY <1>9 DEF LeaveOrigin, FetchOrigin, TypeOK
    <2>3. o \in Nat \ {0} /\ Cardinality(origins'[e]) = o - 1
        BY <1>1, <1>2, <2>2, LessWork
    <2>4. Work(e) = 3 * o /\ Work(e)' \in {3 * (o - 1), 3 * (o - 1) + 2}
        BY <1>2, <2>1, <2>3 DEF Work
    <2>5. Work(e)' < Work(e)
        BY <2>3, <2>4
    <2> QED BY <2>1, <2>5 DEF Closer, Stage, StageOf
<1>10. CASE ResumeOrigin(e) \/ NoteResume(e)
    <2>1. /\ \/ pc[e] = "origin" /\ pc'[e] = "resumed"
             \/ pc[e] = "resumed" /\ pc'[e] = "resume"
          /\ origins' = origins
        BY <1>1, <1>10 DEF ResumeOrigin, NoteResume, Goto
    <2>2. \/ Work(e) = 3 * o + 2 /\ Work(e)' = 3 * o + 1
          \/ Work(e) = 3 * o + 1 /\ Work(e)' = 3 * o
        BY <1>2, <2>1 DEF Work
    <2>3. Work(e)' < Work(e)
        BY <2>2
    <2> QED BY <2>1, <2>3 DEF Closer, Stage, StageOf
<1>11. CASE Ignore(e) \/ RejectDuplicates(e) \/ UpdateRaises(e) \/ FinishFailures(e)
                \/ ResolveRaises(e) \/ FinishRecovery(e)
    BY <1>3, <1>11 DEF Ignore, RejectDuplicates, UpdateRaises, FinishFailures, ResolveRaises,
           FinishRecovery
<1> QED BY <1>1, <1>4, <1>5, <1>6, <1>7, <1>8, <1>9, <1>10, <1>11
        DEF EngineStep, FailureStep, RecoveryStep

\* What is not a step of a run leaves it where it is, or ends it.
LEMMA OthersDoNotDelay ==
    ASSUME TypeOK, NEW e \in Engines, Active(e), [Next]_vars, ~EngineStep(e)
    PROVE  Closer(e) \/ AsFar(e)
<1>1. ASSUME pc'[e] = pc[e], left'[e] = left[e], matches'[e] = matches[e],
             origins'[e] = origins[e]
      PROVE  AsFar(e)
    BY <1>1 DEF AsFar, Stage, Work
<1>2. CASE Die(e)
    <2>1. pc'[e] = "idle" /\ pc[e] \in Phases \ {"idle"}
        BY <1>2 DEF Die, Leave, Active, TypeOK
    <2> QED BY <2>1 DEF Closer, Stage, StageOf, Phases, FailurePhases, RecoveryPhases
<1>3. ASSUME NEW f \in Engines, EngineStep(f) \/ Die(f), f # e
      PROVE  /\ pc'[e] = pc[e] /\ left'[e] = left[e]
             /\ matches'[e] = matches[e] /\ origins'[e] = origins[e]
    BY <1>3 DEF EngineStep, FailureStep, RecoveryStep, Start, Ignore, Die, ListForFailures,
           RejectDuplicates, ListJobs, SkipObserved, CreateDefect, AnnounceDefect,
           UpdateDefect, NoteRecurrence, UpdateRaises, FinishFailures, ListForRecovery,
           ResolveDefect, ResolveRaises, NoteRecovery, FinishMatches, LeaveOrigin,
           FetchOrigin, ResumeOrigin, NoteResume, FinishRecovery, Leave, Goto, TypeOK
<1>4. CASE Environment
    BY <1>1, <1>4 DEF Environment, CompleteAttempt, Replay, MoveOrigin, CopyDefect, local
<1>5. CASE UNCHANGED vars
    BY <1>1, <1>5 DEF vars, local
<1> QED BY <1>1, <1>2, <1>3, <1>4, <1>5 DEF Next

\* The distance of a run to its end is a pair of numbers, for batches, projects and
\* pull requests of any size.
THEOREM DistancesAreNumbers ==
    Spec => [](\A e \in Engines : Stage(e) \in 0..4 /\ Work(e) \in Nat)
<1>1. Init => RInv
    BY FS_EmptySet DEF Init, RInv
<1>2. IInv /\ RInv /\ [Next]_vars => RInv'
    BY NextRInv
<1>3. IInv /\ RInv => \A e \in Engines : Stage(e) \in 0..4 /\ Work(e) \in Nat
    <2> SUFFICES ASSUME IInv, RInv, NEW e \in Engines
                 PROVE  Stage(e) \in 0..4 /\ Work(e) \in Nat
        OBVIOUS
    <2>1. /\ Cardinality(left[e]) \in Nat /\ Cardinality(matches[e]) \in Nat
          /\ Cardinality(origins[e]) \in Nat
        BY FS_CardinalityType DEF RInv
    <2>2. pc[e] \in Phases
        BY DEF IInv, TypeOK
    <2>3. Stage(e) \in 0..4
        BY <2>2 DEF Stage, StageOf, Phases, FailurePhases, RecoveryPhases
    <2>4. Work(e) \in Nat
        BY <2>1, <2>2 DEF Work
    <2> QED BY <2>3, <2>4
<1> QED BY <1>1, <1>2, <1>3, Inductive, PTL DEF Spec

\* Why a delivery does not stay in the group: every step of a feedback run brings it
\* closer to its end, and nobody else's step takes it further away.
THEOREM RunsAdvance ==
    Spec => [][\A e \in Engines :
                   Active(e) => /\ EngineStep(e) => Closer(e)
                                /\ ~EngineStep(e) => Closer(e) \/ AsFar(e)]_vars
<1>1. Init => RInv
    BY FS_EmptySet DEF Init, RInv
<1>2. IInv /\ RInv /\ [Next]_vars => RInv'
    BY NextRInv
<1>3. IInv /\ RInv /\ [Next]_vars =>
          [\A e \in Engines : Active(e) => /\ EngineStep(e) => Closer(e)
                                           /\ ~EngineStep(e) => Closer(e) \/ AsFar(e)]_vars
    BY StepsAdvance, OthersDoNotDelay DEF IInv
<1> QED BY <1>1, <1>2, <1>3, Inductive, PTL DEF Spec

-----------------------------------------------------------------------------
(* The ledger's lines *)

\* Of a set with a least element the choice of a least element is no choice.
LEMMA OldestIs ==
    ASSUME NEW T \in SUBSET Nat, NEW i \in T, \A j \in T : i <= j
    PROVE  T # {} /\ (CHOOSE j \in T : \A k \in T : j <= k) = i
<1>1. PICK c : c = CHOOSE j \in T : \A k \in T : j <= k
    OBVIOUS
<1>2. c \in T /\ \A k \in T : c <= k
    BY <1>1
<1>3. c \in Nat /\ i \in Nat /\ c <= i /\ i <= c
    BY <1>2
<1>4. c = i
    BY <1>3
<1> QED BY <1>1, <1>4

Absent(f) ==
    LedgerStatus[f] = "absent" /\ LedgerCount[f] = 0 /\ LedgerSeen[f] = {}

Shows(f, m) ==
    /\ LedgerStatus[f] = m.status
    /\ LedgerCount[f] = m.recurrence_count
    /\ LedgerSeen[f] = Retained(m.observations)

LEMMA LineOfIssue ==
    ASSUME Len(defects) \in Nat, NEW i \in 1..Len(defects), IsOldest(i),
           defects[i].metadata.fingerprint \in Fingerprints
    PROVE  Shows(defects[i].metadata.fingerprint, defects[i].metadata)
<1>1. PICK f \in Fingerprints : f = defects[i].metadata.fingerprint
    OBVIOUS
<1>2. Tracked(f) \in SUBSET Nat /\ i \in Tracked(f) /\ \A j \in Tracked(f) : i <= j
    BY <1>1 DEF Tracked, IsOldest
<1>3. Tracked(f) # {} /\ Oldest(f) = i
    BY <1>2, OldestIs DEF Oldest
<1> QED BY <1>1, <1>3 DEF Shows, LedgerStatus, LedgerCount, LedgerSeen, RecordOf

LEMMA LineOfIssueNext ==
    ASSUME Len(defects') \in Nat, NEW i \in 1..Len(defects'), IsOldest(i)',
           NEW f \in Fingerprints, f = defects'[i].metadata.fingerprint,
           NEW m, m = defects'[i].metadata
    PROVE  Shows(f, m)'
<1>1. Tracked(f)' \in SUBSET Nat /\ i \in Tracked(f)' /\ \A j \in Tracked(f)' : i <= j
    BY DEF Tracked, IsOldest
<1>2. PICK T : T = Tracked(f)'
    OBVIOUS
<1>3. Oldest(f)' = CHOOSE j \in T : \A k \in T : j <= k
    BY <1>2 DEF Oldest
<1>4. Tracked(f)' # {} /\ Oldest(f)' = i
    BY <1>1, <1>2, <1>3, OldestIs
<1> QED BY <1>4 DEF Shows, LedgerStatus, LedgerCount, LedgerSeen, RecordOf

LEMMA NoLine ==
    ASSUME NEW f \in Fingerprints,
           \A i \in 1..Len(defects) : defects[i].metadata.fingerprint # f
    PROVE  Absent(f)
BY DEF Absent, Tracked, LedgerStatus, LedgerCount, LedgerSeen

LEMMA NoLineNext ==
    ASSUME NEW f \in Fingerprints,
           \A i \in 1..Len(defects') : defects'[i].metadata.fingerprint # f
    PROVE  Absent(f)'
BY DEF Absent, Tracked, LedgerStatus, LedgerCount, LedgerSeen

LineKept(f) ==
    /\ LedgerStatus'[f] = LedgerStatus[f]
    /\ LedgerCount'[f] = LedgerCount[f]
    /\ LedgerSeen'[f] = LedgerSeen[f]

SameFingerprints ==
    \A i \in 1..Len(defects) :
        defects'[i].metadata.fingerprint = defects[i].metadata.fingerprint

\* A step that keeps the oldest issue of a fingerprint keeps its line, whatever it
\* does to copies of it.
LEMMA LineStays ==
    ASSUME NEW f \in Fingerprints, SameFingerprints,
           Len(defects) \in Nat, Len(defects') \in Nat, Len(defects') >= Len(defects),
           \A i \in 1..Len(defects) :
               defects[i].metadata.fingerprint = f /\ IsOldest(i) => Kept(i),
           \A i \in 1..Len(defects') :
               i > Len(defects) /\ defects'[i].metadata.fingerprint = f =>
                   \E j \in 1..Len(defects) : defects[j].metadata.fingerprint = f
    PROVE  LineKept(f)
<1>1. CASE Tracked(f) # {}
    <2>0. Tracked(f) \in SUBSET Nat
        BY DEF Tracked
    <2>1. PICK i \in Tracked(f) : \A j \in Tracked(f) : i <= j
        BY <1>1, <2>0, LeastExists
    <2>2. i \in 1..Len(defects) /\ defects[i].metadata.fingerprint = f /\ IsOldest(i)
        BY <2>1 DEF Tracked, IsOldest
    <2>3. PICK m : m = defects[i].metadata /\ m = defects'[i].metadata
        BY <2>2 DEF Kept
    <2>4. i \in 1..Len(defects')
        BY <2>2
    <2>5. ASSUME NEW j \in 1..Len(defects'), defects'[j].metadata.fingerprint = f
          PROVE  i <= j
        <3>1. CASE j \in 1..Len(defects)
            BY <2>1, <2>5, <3>1 DEF Tracked, SameFingerprints
        <3>2. CASE j \notin 1..Len(defects)
            BY <2>2, <3>2
        <3> QED BY <3>1, <3>2
    <2>6. IsOldest(i)'
        BY <2>2, <2>3, <2>5 DEF IsOldest
    <2>7. Shows(f, m)
        BY <2>2, <2>3, LineOfIssue
    <2>8. Shows(f, m)'
        BY <2>2, <2>3, <2>4, <2>6, LineOfIssueNext
    <2> QED BY <2>7, <2>8 DEF Shows, LineKept
<1>2. CASE Tracked(f) = {}
    <2>1. \A i \in 1..Len(defects) : defects[i].metadata.fingerprint # f
        BY <1>2 DEF Tracked
    <2>2. Absent(f)
        BY <2>1, NoLine
    <2>3. ASSUME NEW i \in 1..Len(defects') PROVE defects'[i].metadata.fingerprint # f
        <3>1. CASE i > Len(defects)
            BY <2>1, <3>1
        <3>2. CASE ~(i > Len(defects))
            <4>1. i \in 1..Len(defects)
                BY <3>2
            <4> QED BY <2>1, <4>1 DEF SameFingerprints
        <3> QED BY <3>1, <3>2
    <2>4. Absent(f)'
        BY <2>3, NoLineNext
    <2> QED BY <2>2, <2>4 DEF Absent, LineKept
<1> QED BY <1>1, <1>2

-----------------------------------------------------------------------------
(* The ledger's steps *)

\* The ledger's own copy of the standard operator.
LEMMA SameCardinality ==
    ASSUME NEW S
    PROVE  Ledger!Cardinality(S) = Cardinality(S)
BY DEF Cardinality, Ledger!Cardinality

LEMMA ReportsOne ==
    ASSUME NEW f \in Fingerprints, NEW key, NEW gone,
           key \in ObservationKeys \ LedgerSeen[f],
           gone \in Ledger!Forgettable(f),
           LedgerStatus'[f] = "open",
           LedgerCount'[f] = LedgerCount[f] + 1,
           LedgerSeen'[f] = (LedgerSeen[f] \ gone) \cup {key},
           \A g \in Fingerprints : g # f => LineKept(g)
    PROVE  Ledger!Report(f)
<1>1. LedgerStatus' = [LedgerStatus EXCEPT ![f] = "open"]
    BY DEF LedgerStatus, LineKept
<1>2. LedgerCount' = [LedgerCount EXCEPT ![f] = @ + 1]
    BY DEF LedgerCount, LineKept
<1>3. LedgerSeen' = [LedgerSeen EXCEPT ![f] = (@ \ gone) \cup {key}]
    BY DEF LedgerSeen, LineKept
<1> QED BY <1>1, <1>2, <1>3 DEF Ledger!Report

LEMMA RecoversOne ==
    ASSUME NEW f \in Fingerprints,
           LedgerStatus[f] = "open", LedgerStatus'[f] = "resolved",
           LedgerCount'[f] = LedgerCount[f], LedgerSeen'[f] = LedgerSeen[f],
           \A g \in Fingerprints : g # f => LineKept(g)
    PROVE  Ledger!Recover(f)
<1>1. LedgerStatus' = [LedgerStatus EXCEPT ![f] = "resolved"]
    BY DEF LedgerStatus, LineKept
<1>2. LedgerCount' = LedgerCount
    BY DEF LedgerCount, LineKept
<1>3. LedgerSeen' = LedgerSeen
    BY DEF LedgerSeen, LineKept
<1> QED BY <1>1, <1>2, <1>3 DEF Ledger!Recover

LEMMA LinesStay ==
    ASSUME \A f \in Fingerprints : LineKept(f)
    PROVE  UNCHANGED Ledger!ledger
<1>1. LedgerStatus' = LedgerStatus
    BY DEF LedgerStatus, LineKept
<1>2. LedgerCount' = LedgerCount
    BY DEF LedgerCount, LineKept
<1>3. LedgerSeen' = LedgerSeen
    BY DEF LedgerSeen, LineKept
<1> QED BY <1>1, <1>2, <1>3 DEF Ledger!ledger

\* One issue is rewritten and keeps its fingerprint: it is what it was to the ledger,
\* the oldest of its fingerprint or not, and the other lines stay.
LEMMA OneRewritten ==
    ASSUME TypeOK, NEW i \in 1..Len(defects), OthersKept(i), Len(defects) \in Nat,
           NEW f \in Fingerprints, f = defects[i].metadata.fingerprint,
           f = defects'[i].metadata.fingerprint
    PROVE  /\ IsOldest(i) => IsOldest(i)'
           /\ \A g \in Fingerprints : g # f \/ ~IsOldest(i) => LineKept(g)
<1>1. Len(defects') = Len(defects) /\ SameFingerprints
    BY DEF OthersKept, Kept, SameFingerprints
<1>2. IsOldest(i) => IsOldest(i)'
    BY <1>1 DEF IsOldest, SameFingerprints
<1>3. ASSUME NEW g \in Fingerprints, g # f \/ ~IsOldest(i) PROVE LineKept(g)
    <2>1. \A j \in 1..Len(defects) :
              defects[j].metadata.fingerprint = g /\ IsOldest(j) => Kept(j)
        BY <1>3 DEF OthersKept
    <2>2. \A j \in 1..Len(defects') : ~(j > Len(defects))
        BY <1>1
    <2>3. Len(defects') \in Nat /\ Len(defects') >= Len(defects)
        BY <1>1
    <2> QED BY <1>1, <2>1, <2>2, <2>3, LineStays
<1> QED BY <1>2, <1>3

LEMMA StepInLedger ==
    ASSUME LInv, LInv', [Next]_vars
    PROVE  [Ledger!Next]_Ledger!ledger
<1>1. /\ TypeOK
      /\ \A i \in 1..Len(defects) : Counted(defects[i].metadata)
    BY DEF LInv, IInv, Booked
<1>2. Len(defects) \in Nat /\ Len(defects') \in Nat
    BY LenProperties DEF LInv, IInv, TypeOK
<1>3. \A i \in 1..Len(defects) : defects[i].metadata \in Metadata
    BY <1>1, DefectTypes
<1>4. CASE SameIssues
    <2>1. SameFingerprints /\ \A i \in 1..Len(defects) : Kept(i)
        BY <1>4 DEF SameIssues, SameFingerprints, Kept
    <2>2. /\ Len(defects') >= Len(defects)
          /\ \A i \in 1..Len(defects') : ~(i > Len(defects))
        BY <1>2, <1>4 DEF SameIssues
    <2>3. \A f \in Fingerprints : LineKept(f)
        BY <1>2, <2>1, <2>2, LineStays
    <2> QED BY <2>3, LinesStay
<1>5. ASSUME NEW i \in 1..Len(defects), NEW event \in EventType, Reported(i, event)
      PROVE  \E f \in Fingerprints : Ledger!Report(f)
    <2>1. PICK m \in Metadata, f \in Fingerprints, key \in ObservationKeys :
              /\ m = defects[i].metadata /\ f = m.fingerprint
              /\ key = event.observation_key
        BY <1>3 DEF Metadata, EventType
    <2>2. PICK n \in Metadata : /\ n = RecordFailure(m, event)
                                /\ n.fingerprint = f /\ n.status = "open"
                                /\ n.recurrence_count = m.recurrence_count + 1
        BY <2>1, RecordFailureType, RecordFailureOpens
    <2>3. n = defects'[i].metadata /\ f = defects'[i].metadata.fingerprint
        BY <1>5, <2>1, <2>2 DEF Reported
    <2>4. OthersKept(i) /\ IsOldest(i) /\ i \in 1..Len(defects')
        BY <1>5 DEF Reported, OthersKept
    <2>5. Shows(f, m)
        BY <1>2, <2>1, <2>4, LineOfIssue
    <2>6. IsOldest(i)' /\ \A g \in Fingerprints : g # f => LineKept(g)
        BY <1>1, <1>2, <2>1, <2>3, <2>4, OneRewritten
    <2>7. Shows(f, n)'
        BY <1>2, <2>3, <2>4, <2>6, LineOfIssueNext
    <2>8. PICK seen : seen = Retained(m.observations) /\ seen = LedgerSeen[f]
        BY <2>5 DEF Shows
    <2>9. PICK gone \in (IF Cardinality(seen) < HistoryLimit
                         THEN {{}} ELSE {{k} : k \in seen}) :
              Retained(n.observations) = (seen \ gone) \cup {key}
        BY <1>1, <1>5, <2>1, <2>2, <2>8, SeenByReport DEF Reported
    <2>10. key \in ObservationKeys \ seen
        BY <1>1, <1>5, <2>1, <2>8, SeenByReport DEF Reported
    <2>11. gone \in Ledger!Forgettable(f)
        BY <2>8, <2>9, SameCardinality DEF Ledger!Forgettable
    <2>12. /\ LedgerStatus'[f] = "open"
           /\ LedgerCount'[f] = LedgerCount[f] + 1
           /\ LedgerSeen'[f] = (LedgerSeen[f] \ gone) \cup {key}
        BY <2>2, <2>5, <2>7, <2>8, <2>9 DEF Shows
    <2> QED BY <2>6, <2>8, <2>10, <2>11, <2>12, ReportsOne
<1>6. ASSUME NEW i \in 1..Len(defects), NEW run \in Runs, Recovered(i, run)
      PROVE  \/ \E f \in Fingerprints : Ledger!Recover(f)
             \/ UNCHANGED Ledger!ledger
    <2>1. PICK m \in Metadata, f \in Fingerprints :
              /\ m = defects[i].metadata /\ f = m.fingerprint /\ m.status = "open"
        BY <1>3, <1>6 DEF Metadata, Recovered
    <2>2. PICK n \in Metadata : /\ n = RecordRecovery(m, run)
                                /\ n.fingerprint = f /\ n.status = "resolved"
                                /\ n.recurrence_count = m.recurrence_count
                                /\ n.observations = m.observations
        BY <2>1, RecordRecoveryType, RecordRecoveryCloses
    <2>3. n = defects'[i].metadata /\ f = defects'[i].metadata.fingerprint
        BY <1>6, <2>1, <2>2 DEF Recovered
    <2>4. OthersKept(i) /\ i \in 1..Len(defects')
        BY <1>6 DEF Recovered, OthersKept
    <2>5. /\ IsOldest(i) => IsOldest(i)'
          /\ \A g \in Fingerprints : g # f \/ ~IsOldest(i) => LineKept(g)
        BY <1>1, <1>2, <2>1, <2>3, <2>4, OneRewritten
    <2>6. CASE IsOldest(i)
        <3>1. Shows(f, m)
            BY <1>2, <2>1, <2>6, LineOfIssue
        <3>2. Shows(f, n)'
            BY <1>2, <2>3, <2>4, <2>5, <2>6, LineOfIssueNext
        <3>3. /\ LedgerStatus[f] = "open" /\ LedgerStatus'[f] = "resolved"
              /\ LedgerCount'[f] = LedgerCount[f] /\ LedgerSeen'[f] = LedgerSeen[f]
            BY <2>1, <2>2, <3>1, <3>2 DEF Shows
        <3> QED BY <2>5, <3>3, RecoversOne
    <2>7. CASE ~IsOldest(i)
        BY <2>5, <2>7, LinesStay
    <2> QED BY <2>6, <2>7
<1>7. ASSUME NEW event \in EventType, Opened(event)
      PROVE  \E f \in Fingerprints : Ledger!Report(f)
    <2>1. PICK f \in Fingerprints, key \in ObservationKeys :
              f = event.fingerprint /\ key = event.observation_key
        BY DEF EventType
    <2>2. PICK n, i : n = FromEvent(event) /\ i = Len(defects) + 1
        OBVIOUS
    <2>3. /\ n.fingerprint = f /\ n.status = "open"
          /\ n.recurrence_count = 1 /\ n.observations = <<key>>
        BY <2>1, <2>2 DEF FromEvent
    <2>4. /\ Len(defects') = Len(defects) + 1 /\ i \in 1..Len(defects')
          /\ n = defects'[i].metadata /\ f = defects'[i].metadata.fingerprint
        BY <1>2, <1>7, <2>2, <2>3 DEF Opened, Issue
    <2>5. Absent(f)
        BY <1>7, <2>1, NoLine DEF Opened
    <2>6. Shows(f, n)'
        <3>1. \A j \in 1..Len(defects') : j # i => j \in 1..Len(defects)
            BY <1>2, <2>2, <2>4
        <3>2. \A j \in 1..Len(defects') : defects'[j].metadata.fingerprint = f => j = i
            BY <1>7, <2>1, <3>1 DEF Opened, Kept
        <3>3. IsOldest(i)'
            BY <1>2, <2>4, <3>2 DEF IsOldest
        <3> QED BY <1>2, <2>4, <3>3, LineOfIssueNext
    <2>7. ASSUME NEW g \in Fingerprints, g # f PROVE LineKept(g)
        <3>1. SameFingerprints /\ \A j \in 1..Len(defects) : Kept(j)
            BY <1>7 DEF Opened, Kept, SameFingerprints
        <3>2. \A j \in 1..Len(defects') :
                  j > Len(defects) => defects'[j].metadata.fingerprint # g
            BY <1>2, <2>2, <2>4, <2>7
        <3>3. Len(defects') >= Len(defects)
            BY <1>2, <2>4
        <3> QED BY <1>2, <3>1, <3>2, <3>3, LineStays
    <2>8. Retained(<<key>>) = {key}
        BY DEF Retained
    <2>9. {} \in Ledger!Forgettable(f)
        BY <2>5, SameCardinality, FS_EmptySet, PolicyAssumption DEF Absent, Ledger!Forgettable
    <2>10. /\ key \in ObservationKeys \ LedgerSeen[f]
           /\ LedgerStatus'[f] = "open"
           /\ LedgerCount'[f] = LedgerCount[f] + 1
           /\ LedgerSeen'[f] = (LedgerSeen[f] \ {}) \cup {key}
        BY <2>1, <2>3, <2>5, <2>6, <2>8 DEF Absent, Shows
    <2> QED BY <2>7, <2>9, <2>10, ReportsOne
<1>8. ASSUME NEW i \in 1..Len(defects), Copied(i)
      PROVE  UNCHANGED Ledger!ledger
    <2>1. /\ SameFingerprints /\ \A j \in 1..Len(defects) : Kept(j)
          /\ Len(defects') = Len(defects) + 1
          /\ defects'[Len(defects) + 1].metadata = defects[i].metadata
        BY <1>8 DEF Copied, Kept, SameFingerprints
    <2>2. /\ Len(defects') >= Len(defects)
          /\ \A j \in 1..Len(defects') :
                 j > Len(defects) =>
                     defects'[j].metadata.fingerprint = defects[i].metadata.fingerprint
        BY <1>2, <2>1
    <2>3. \A f \in Fingerprints : LineKept(f)
        BY <1>2, <2>1, <2>2, LineStays
    <2> QED BY <2>3, LinesStay
<1>9. IInv /\ \A e \in Engines : Rightful(e) /\ OnePerFingerprint(e)
    BY DEF LInv, Promises
<1> QED BY <1>4, <1>5, <1>6, <1>7, <1>8, <1>9, Changes DEF Ledger!Next

\* Whoever dies, is cancelled, is run again or copies an issue in between, the engine
\* does to every fingerprint what the ledger allows: count a failure whose key it does
\* not remember, recover an open line, or nothing.
THEOREM EngineImplementsLedger == Spec => ImplementsLedger
<1>1. Init => Ledger!Init
    <2>1. ASSUME Init PROVE \A f \in Fingerprints : Absent(f)
        BY <2>1, NoLine DEF Init
    <2> QED BY <2>1 DEF Ledger!Init, Absent, LedgerStatus, LedgerCount, LedgerSeen
<1>2. LInv /\ LInv' /\ [Next]_vars => [Ledger!Next]_Ledger!ledger
    BY StepInLedger
<1> QED BY <1>1, <1>2, LedgerInductive, PTL DEF Spec, ImplementsLedger, Ledger!Spec

-----------------------------------------------------------------------------
(* What a line can be relied on for *)

LedgerInv ==
    /\ \A f \in Fingerprints :
           /\ LedgerCount[f] \in Nat /\ IsFiniteSet(LedgerSeen[f])
           /\ Cardinality(LedgerSeen[f]) \in Nat
    /\ Ledger!Remembers

LEMMA OneMore ==
    ASSUME NEW T, IsFiniteSet(T), NEW key, key \notin T
    PROVE  IsFiniteSet(T \cup {key}) /\ Cardinality(T \cup {key}) = Cardinality(T) + 1
BY FS_AddElement

\* One report of a line: it remembers one key more, or as many as before.
LEMMA ReportRemembers ==
    ASSUME NEW f \in Fingerprints,
           LedgerCount[f] \in Nat, IsFiniteSet(LedgerSeen[f]), Cardinality(LedgerSeen[f]) \in Nat,
           Cardinality(LedgerSeen[f]) =
               IF LedgerCount[f] < HistoryLimit THEN LedgerCount[f] ELSE HistoryLimit,
           NEW key, key \notin LedgerSeen[f], NEW gone \in Ledger!Forgettable(f),
           NEW S, S = (LedgerSeen[f] \ gone) \cup {key}
    PROVE  /\ IsFiniteSet(S) /\ Cardinality(S) \in Nat
           /\ Cardinality(S) =
                  IF LedgerCount[f] + 1 < HistoryLimit THEN LedgerCount[f] + 1 ELSE HistoryLimit
           /\ Cardinality(LedgerSeen[f]) < HistoryLimit => LedgerSeen[f] \subseteq S
<1>1. PICK T, c : T = LedgerSeen[f] /\ c = LedgerCount[f]
    OBVIOUS
<1>2. PICK n \in Nat : n = Cardinality(T)
    BY <1>1
<1>3. HistoryLimit \in Nat \ {0} /\ c \in Nat /\ IsFiniteSet(T) /\ key \notin T
    BY <1>1, PolicyAssumption
<1>4. n = IF c < HistoryLimit THEN c ELSE HistoryLimit
    BY <1>1, <1>2
<1>5. CASE n < HistoryLimit
    <2>1. S = T \cup {key}
        BY <1>1, <1>2, <1>5, SameCardinality DEF Ledger!Forgettable
    <2>2. IsFiniteSet(S) /\ Cardinality(S) = n + 1
        BY <1>2, <1>3, <2>1, OneMore
    <2> QED BY <1>1, <1>3, <1>4, <1>5, <2>1, <2>2
<1>6. CASE ~(n < HistoryLimit)
    <2>1. PICK k \in T : S = (T \ {k}) \cup {key}
        BY <1>1, <1>2, <1>6, SameCardinality DEF Ledger!Forgettable
    <2>2. IsFiniteSet(T \ {k}) /\ Cardinality(T \ {k}) = n - 1
        BY <1>2, <1>3, FS_RemoveElement
    <2>3. IsFiniteSet(S) /\ Cardinality(S) = n - 1 + 1
        <3>1. key \notin T \ {k}
            BY <1>3
        <3> QED BY <2>1, <2>2, <3>1, OneMore
    <2> QED BY <1>1, <1>2, <1>3, <1>4, <1>6, <2>3
<1> QED BY <1>5, <1>6

LEMMA LedgerSteps ==
    ASSUME LedgerInv, [Ledger!Next]_Ledger!ledger
    PROVE  /\ LedgerInv'
           /\ \A f \in Fingerprints :
                  /\ \/ LedgerCount'[f] = LedgerCount[f] /\ LedgerSeen'[f] = LedgerSeen[f]
                     \/ /\ LedgerCount'[f] = LedgerCount[f] + 1 /\ LedgerStatus'[f] = "open"
                        /\ \E key \in ObservationKeys \ LedgerSeen[f] : key \in LedgerSeen'[f]
                  /\ Cardinality(LedgerSeen[f]) < HistoryLimit =>
                         LedgerSeen[f] \subseteq LedgerSeen'[f]
<1> DEFINE Fits(f) == /\ LedgerCount'[f] \in Nat /\ IsFiniteSet(LedgerSeen'[f])
                      /\ Cardinality(LedgerSeen'[f]) \in Nat
                      /\ LedgerStatus'[f] = "absent" <=> LedgerCount'[f] = 0
                      /\ Cardinality(LedgerSeen'[f]) =
                             IF LedgerCount'[f] < HistoryLimit THEN LedgerCount'[f]
                             ELSE HistoryLimit
           Steps(f) == /\ \/ LedgerCount'[f] = LedgerCount[f] /\ LedgerSeen'[f] = LedgerSeen[f]
                          \/ /\ LedgerCount'[f] = LedgerCount[f] + 1
                             /\ LedgerStatus'[f] = "open"
                             /\ \E key \in ObservationKeys \ LedgerSeen[f] :
                                    key \in LedgerSeen'[f]
                       /\ Cardinality(LedgerSeen[f]) < HistoryLimit =>
                              LedgerSeen[f] \subseteq LedgerSeen'[f]
<1>1. ASSUME NEW f \in Fingerprints
      PROVE  /\ LedgerCount[f] \in Nat /\ IsFiniteSet(LedgerSeen[f])
             /\ Cardinality(LedgerSeen[f]) \in Nat
             /\ LedgerStatus[f] = "absent" <=> LedgerCount[f] = 0
             /\ Cardinality(LedgerSeen[f]) =
                    IF LedgerCount[f] < HistoryLimit THEN LedgerCount[f] ELSE HistoryLimit
    BY SameCardinality DEF LedgerInv, Ledger!Remembers
<1>2. ASSUME NEW f \in Fingerprints, LineKept(f)
      PROVE  Fits(f) /\ Steps(f)
    BY <1>1, <1>2 DEF LineKept
<1>3. ASSUME NEW f \in Fingerprints, Ledger!Report(f), NEW g \in Fingerprints
      PROVE  Fits(g) /\ Steps(g)
    <2>1. PICK key \in ObservationKeys \ LedgerSeen[f] : \E gone \in Ledger!Forgettable(f) :
              /\ LedgerStatus' = [LedgerStatus EXCEPT ![f] = "open"]
              /\ LedgerCount' = [LedgerCount EXCEPT ![f] = @ + 1]
              /\ LedgerSeen' = [LedgerSeen EXCEPT ![f] = (@ \ gone) \cup {key}]
        BY <1>3 DEF Ledger!Report
    <2>2. PICK gone \in Ledger!Forgettable(f) :
              /\ LedgerStatus' = [LedgerStatus EXCEPT ![f] = "open"]
              /\ LedgerCount' = [LedgerCount EXCEPT ![f] = @ + 1]
              /\ LedgerSeen' = [LedgerSeen EXCEPT ![f] = (@ \ gone) \cup {key}]
        BY <2>1
    <2>3. CASE g # f
        <3>1. LineKept(g)
            BY <2>2, <2>3 DEF LineKept, LedgerStatus, LedgerCount, LedgerSeen
        <3> QED BY <1>2, <3>1
    <2>4. CASE g = f
        <3>1. PICK S : S = (LedgerSeen[f] \ gone) \cup {key}
            OBVIOUS
        <3>2. /\ LedgerStatus'[f] = "open" /\ LedgerCount'[f] = LedgerCount[f] + 1
              /\ LedgerSeen'[f] = S
            BY <2>2, <3>1 DEF LedgerStatus, LedgerCount, LedgerSeen
        <3>3. /\ IsFiniteSet(S) /\ Cardinality(S) \in Nat
              /\ Cardinality(S) = IF LedgerCount[f] + 1 < HistoryLimit
                                  THEN LedgerCount[f] + 1 ELSE HistoryLimit
              /\ Cardinality(LedgerSeen[f]) < HistoryLimit => LedgerSeen[f] \subseteq S
            BY <1>1, <3>1, ReportRemembers
        <3>4. LedgerCount[f] + 1 \in Nat \ {0} /\ key \in S
            BY <1>1, <3>1
        <3> QED BY <2>4, <3>2, <3>3, <3>4
    <2> QED BY <2>3, <2>4
<1>4. ASSUME NEW f \in Fingerprints, Ledger!Recover(f), NEW g \in Fingerprints
      PROVE  Fits(g) /\ Steps(g)
    <2>1. /\ LedgerStatus[f] = "open"
          /\ LedgerStatus' = [LedgerStatus EXCEPT ![f] = "resolved"]
          /\ LedgerCount' = LedgerCount /\ LedgerSeen' = LedgerSeen
        BY <1>4 DEF Ledger!Recover
    <2>2. LedgerStatus'[g] = IF g = f THEN "resolved" ELSE LedgerStatus[g]
        BY <2>1 DEF LedgerStatus
    <2> QED BY <1>1, <2>1, <2>2
<1> HIDE DEF Fits, Steps
<1>5. \A f \in Fingerprints : Fits(f) /\ Steps(f)
    <2>1. CASE \E f \in Fingerprints : Ledger!Report(f) \/ Ledger!Recover(f)
        BY <1>3, <1>4, <2>1
    <2>2. CASE UNCHANGED Ledger!ledger
        <3>1. \A f \in Fingerprints : LineKept(f)
            BY <2>2 DEF Ledger!ledger, LineKept
        <3> QED BY <1>2, <3>1
    <2> QED BY <2>1, <2>2 DEF Ledger!Next
<1> QED BY <1>5, SameCardinality DEF Fits, Steps, LedgerInv, Ledger!Remembers

\* The ledger's own promises, for any set of fingerprints and keys and any window.
THEOREM LedgerKeepsItsPromises == Ledger!Spec => []Ledger!Remembers /\ Ledger!CountsUp
<1>1. Ledger!Init => LedgerInv
    <2> SUFFICES ASSUME Ledger!Init
                 PROVE  LedgerInv
        OBVIOUS
    <2>1. \A f \in Fingerprints :
              LedgerStatus[f] = "absent" /\ LedgerCount[f] = 0 /\ LedgerSeen[f] = {}
        BY DEF Ledger!Init
    <2> QED BY <2>1, FS_EmptySet, SameCardinality, PolicyAssumption
            DEF LedgerInv, Ledger!Remembers
<1>2. LedgerInv /\ [Ledger!Next]_Ledger!ledger => LedgerInv'
    BY LedgerSteps
<1>3. LedgerInv => Ledger!Remembers
    BY DEF LedgerInv
<1> DEFINE Counting == \A f \in Fingerprints :
               /\ \/ LedgerCount'[f] = LedgerCount[f] /\ LedgerSeen'[f] = LedgerSeen[f]
                  \/ /\ LedgerCount'[f] = LedgerCount[f] + 1 /\ LedgerStatus'[f] = "open"
                     /\ \E key \in ObservationKeys \ LedgerSeen[f] : key \in LedgerSeen'[f]
               /\ Ledger!Cardinality(LedgerSeen[f]) < HistoryLimit =>
                      LedgerSeen[f] \subseteq LedgerSeen'[f]
<1>4. LedgerInv /\ [Ledger!Next]_Ledger!ledger => [Counting]_Ledger!ledger
    BY LedgerSteps, SameCardinality
<1> QED BY <1>1, <1>2, <1>3, <1>4, PTL DEF Ledger!Spec, Ledger!CountsUp

\* And so the engine's: what it has counted of a failure it does not lose, in crashes,
\* re-runs, recoveries or copies, and it remembers as much of it as its window holds.
THEOREM EngineKeepsThePromises == Spec => []Ledger!Remembers /\ Ledger!CountsUp
BY EngineImplementsLedger, LedgerKeepsItsPromises, PTL DEF ImplementsLedger
===============================================================================
