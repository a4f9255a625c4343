------------------------ MODULE ReleaseMirrorProofs ------------------------
(***************************************************************************)
(* What holds of the public mirror for any number of release runs, tags,   *)
(* commits, attempts and failures.                                         *)
(***************************************************************************)
EXTENDS ReleaseMirror, SequenceTheorems, TLAPS

-----------------------------------------------------------------------------
(* Prefixes *)

LEMMA PrefixIsPointwise ==
    ASSUME NEW S, NEW s \in Seq(S), NEW t \in Seq(S)
    PROVE  IsPrefix(s, t) <=> Len(s) <= Len(t) /\ \A i \in 1..Len(s) : s[i] = t[i]
<1>1. Len(s) \in Nat /\ Len(t) \in Nat
    BY LenProperties
<1>2. ASSUME Len(s) <= Len(t)
      PROVE  /\ SubSeq(s, 1, Len(s)) = [i \in 1..Len(s) |-> s[i]]
             /\ SubSeq(t, 1, Len(s)) = [i \in 1..Len(s) |-> t[i]]
    BY <1>1, <1>2
<1> QED BY <1>1, <1>2 DEF IsPrefix

LEMMA PrefixReflexive ==
    ASSUME NEW S, NEW s \in Seq(S) PROVE IsPrefix(s, s)
BY PrefixIsPointwise, LenProperties

LEMMA PrefixTransitive ==
    ASSUME NEW S, NEW s \in Seq(S), NEW t \in Seq(S), NEW u \in Seq(S),
           IsPrefix(s, t), IsPrefix(t, u)
    PROVE  IsPrefix(s, u)
<1>1. Len(s) \in Nat /\ Len(t) \in Nat /\ Len(u) \in Nat
    BY LenProperties
<1> QED BY <1>1, PrefixIsPointwise

\* The same of commits of the mirror.
LEMMA CommitsGrow ==
    ASSUME NEW s \in Commits, NEW c \in Revisions
    PROVE  /\ Append(s, c) \in Commits \ {NoCommit}
           /\ Last(Append(s, c)) = c
           /\ IsPrefix(s, Append(s, c))
<1> DEFINE S == Revisions \cup {Old}
<1>1. /\ Append(s, c) \in Seq(S) /\ Len(Append(s, c)) = Len(s) + 1 /\ Len(s) \in Nat
      /\ \A i \in 1..Len(s) : Append(s, c)[i] = s[i]
      /\ Append(s, c)[Len(s) + 1] = c
    BY AppendProperties, LenProperties DEF Commits
<1>2. Append(s, c) # NoCommit
    BY <1>1 DEF NoCommit
<1>3. IsPrefix(s, Append(s, c))
    <2>1. Len(s) <= Len(Append(s, c)) /\ s \in Seq(S)
        BY <1>1 DEF Commits
    <2> QED BY <1>1, <2>1, PrefixIsPointwise
<1> QED BY <1>1, <1>2, <1>3 DEF Last, Commits

LEMMA CommitPrefixes ==
    /\ \A s \in Commits : IsPrefix(s, s) /\ IsPrefix(NoCommit, s)
    /\ \A s, t, u \in Commits : IsPrefix(s, t) /\ IsPrefix(t, u) => IsPrefix(s, u)
<1>1. ASSUME NEW s \in Commits PROVE IsPrefix(NoCommit, s)
    <2>1. NoCommit \in Commits /\ Len(NoCommit) = 0
        BY DEF NoCommit, Commits
    <2>2. Len(s) \in Nat /\ s \in Seq(Revisions \cup {Old})
        BY LenProperties DEF Commits
    <2>3. /\ NoCommit \in Seq(Revisions \cup {Old})
          /\ \A i \in 1..Len(NoCommit) : NoCommit[i] = s[i]
        BY <2>1 DEF Commits
    <2> HIDE DEF NoCommit
    <2>4. IsPrefix(NoCommit, s) <=>
              Len(NoCommit) <= Len(s) /\ \A i \in 1..Len(NoCommit) : NoCommit[i] = s[i]
        BY <2>2, <2>3, PrefixIsPointwise
    <2> QED BY <2>1, <2>2, <2>3, <2>4
<1> QED BY <1>1, PrefixReflexive, PrefixTransitive DEF Commits

LEMMA LastOfCommit ==
    ASSUME NEW s \in Commits, s # NoCommit PROVE Last(s) \in Revisions \cup {Old}
<1>1. s \in Seq(Revisions \cup {Old}) /\ s # <<>>
    BY DEF Commits, NoCommit
<1>2. Len(s) \in 1..Len(s)
    BY <1>1, EmptySeq, LenProperties
<1> QED BY <1>1, <1>2, ElementOfSeq DEF Last

LEMMA EventFacts ==
    /\ \A e \in Events : TagName(e) \in Tags /\ e.sha \in Revisions
    /\ \A t \in Tags, c \in Revisions :
          LET e == [ref |-> t, input |-> t, sha |-> c] IN
          e \in Events /\ TagName(e) = t /\ e.sha = c
    /\ \A t \in Tags, f \in Tags \cup {Branch}, c \in Revisions :
          LET e == [ref |-> f, input |-> t, sha |-> c] IN e \in Events /\ e.sha = c
    /\ None \notin Revisions /\ Bare \notin Revisions /\ None # Bare /\ None # Old
BY ReleaseAssumption DEF Events, TagName, None, Bare

-----------------------------------------------------------------------------
(* The invariant *)

\* What a run has already seen to, by the step it is at.
Behind ==
    \A r \in Runs :
        /\ outcome[r] = "idle" => pc[r] = "verify"
        /\ outcome[r] # "idle" => event[r] \in Events
        /\ pc[r] # "verify" => TagName(event[r]) \in native
        /\ pc[r] \in Mirroring => release[TagName(event[r])] # None
        /\ pc[r] \in {"view", "create", "upload"} => mirrorTag[TagName(event[r])] # NoCommit

\* The commit that a run is about to push.
Pushing ==
    \A r \in Runs :
        /\ Running(r, "main") \/ Running(r, "tag") => Last(work[r]) = event[r].sha
        /\ Running(r, "tag") => IsPrefix(work[r], main)

\* A tag that did not stray is at one commit, for all its runs.
Steady ==
    \A r \in Runs :
        outcome[r] # "idle" /\ TagName(event[r]) \notin strayed
            => tag[TagName(event[r])] = event[r].sha

\* A run that nobody disturbed finds what it has seen.
Undisturbed ==
    \A r \in Runs \ overlapped :
        /\ Running(r, "main") => IsPrefix(main, work[r])
        /\ Running(r, "create") => mirrorRelease[TagName(event[r])] = None

MirrorInv ==
    /\ TypeOK /\ Behind /\ Pushing /\ Steady /\ Undisturbed
    /\ TagsOnMain /\ NativeFirst /\ ConflictNeedsRace /\ TagIsSource

-----------------------------------------------------------------------------
(* One lemma per action *)

\* The branch is read when a tag is pushed or a run dispatched, not later.
LEMMA CommitKeeps ==
    ASSUME MirrorInv, Commit
    PROVE  MirrorInv' /\ IsPrefix(main, main')
<1> USE ReleaseAssumption, EventFacts, CommitPrefixes DEF MirrorInv, Commit, mirrorVars,
        runVars, history, Running, Goto, End, Steps, Outcomes, Mirroring
<1>1. TypeOK'
    BY DEF TypeOK, Installers
<1>2. Behind'
    BY DEF Behind, TypeOK
<1>3. Pushing'
    BY DEF Pushing, TypeOK, Behind
<1>4. Steady'
    BY DEF Steady, TypeOK, Behind
<1>5. Undisturbed'
    BY DEF Undisturbed, TypeOK, Behind
<1>6. TagsOnMain'
    BY DEF TagsOnMain, TypeOK, Behind, Pushing
<1>7. NativeFirst'
    BY DEF NativeFirst, TypeOK, Behind
<1>8. ConflictNeedsRace'
    BY DEF ConflictNeedsRace, TypeOK, Behind, Undisturbed
<1>9. TagIsSource'
    BY DEF TagIsSource, TypeOK, Behind, Steady, Pushing, Installers
<1>10. IsPrefix(main, main')
    BY DEF TypeOK
<1> QED BY <1>1, <1>2, <1>3, <1>4, <1>5, <1>6, <1>7, <1>8, <1>9, <1>10

\* Releases of sdk-rust are not taken back.
LEMMA NativeReleasedKeeps ==
    ASSUME MirrorInv, NativeReleased
    PROVE  MirrorInv' /\ IsPrefix(main, main')
<1> USE ReleaseAssumption, EventFacts, CommitPrefixes DEF MirrorInv, NativeReleased,
        mirrorVars, runVars, history, Running, Goto, End, Steps, Outcomes, Mirroring
<1>1. TypeOK'
    BY DEF TypeOK, Installers
<1>2. Behind'
    BY DEF Behind, TypeOK
<1>3. Pushing'
    BY DEF Pushing, TypeOK, Behind
<1>4. Steady'
    BY DEF Steady, TypeOK, Behind
<1>5. Undisturbed'
    BY DEF Undisturbed, TypeOK, Behind
<1>6. TagsOnMain'
    BY DEF TagsOnMain, TypeOK, Behind, Pushing
<1>7. NativeFirst'
    BY DEF NativeFirst, TypeOK, Behind
<1>8. ConflictNeedsRace'
    BY DEF ConflictNeedsRace, TypeOK, Behind, Undisturbed
<1>9. TagIsSource'
    BY DEF TagIsSource, TypeOK, Behind, Steady, Pushing, Installers
<1>10. IsPrefix(main, main')
    BY DEF TypeOK
<1> QED BY <1>1, <1>2, <1>3, <1>4, <1>5, <1>6, <1>7, <1>8, <1>9, <1>10

\* A tag that moves strays; one that is new has no runs yet that agree with it.
LEMMA PushTagKeeps ==
    ASSUME MirrorInv, NEW r \in Runs, NEW t \in Tags, PushTag(r, t)
    PROVE  MirrorInv' /\ IsPrefix(main, main')
<1> USE ReleaseAssumption, EventFacts, CommitPrefixes DEF MirrorInv, PushTag, Trigger,
        Running, Goto, End, Steps, Outcomes, Mirroring, sourceVars, mirrorVars, runVars,
        history
<1> DEFINE e == [ref |-> t, input |-> t, sha |-> branch]
<1>1. branch \in Revisions /\ e \in Events /\ TagName(e) = t /\ e.sha = branch
    BY DEF TypeOK
<1>2. /\ event' = [event EXCEPT ![r] = e] /\ outcome[r] = "idle"
      /\ outcome' = [outcome EXCEPT ![r] = "running"]
      /\ tag' = [tag EXCEPT ![t] = branch]
      /\ strayed' = IF tag[t] = None THEN strayed ELSE strayed \cup {t}
      /\ UNCHANGED <<branch, release, native, mirrorVars, pc, work, overlapped>>
    OBVIOUS
<1>3. TypeOK'
    <2>1. moves' \in 0..MaxMoves /\ attempts' \in [Runs -> 0..MaxAttempts]
        BY DEF TypeOK
    <2>2. /\ event' \in [Runs -> Events \cup {NoEvent}]
          /\ tag' \in [Tags -> Revisions \cup {None}] /\ strayed' \in SUBSET Tags
        BY <1>1, <1>2 DEF TypeOK
    <2>3. outcome' \in [Runs -> Outcomes]
        BY DEF TypeOK
    <2>4. \A s \in Runs : (Running(s, "main") \/ Running(s, "tag"))' => work'[s] # NoCommit
        BY <1>2 DEF Behind, TypeOK
    <2>5. /\ branch' \in Revisions /\ release' \in [Tags -> Installers] /\ native' \in SUBSET Tags
          /\ main' \in Commits \ {NoCommit} /\ mirrorTag' \in [Tags -> Commits]
          /\ mirrorRelease' \in [Tags -> Installers] /\ pc' \in [Runs -> Steps]
          /\ work' \in [Runs -> Commits] /\ overlapped' \in SUBSET Runs
        BY <1>2 DEF TypeOK
    <2> HIDE DEF e, MirrorInv, PushTag, Trigger, Running
    <2> QED BY <2>1, <2>2, <2>3, <2>4, <2>5 DEF TypeOK
<1>4. Behind'
    BY DEF Behind, TypeOK
<1>5. Pushing'
    BY DEF Pushing, TypeOK, Behind
<1>6. Steady'
    BY DEF Steady, TypeOK, Behind
<1>7. Undisturbed'
    BY DEF Undisturbed, TypeOK, Behind
<1>8. TagsOnMain'
    BY DEF TagsOnMain, TypeOK, Behind, Pushing
<1>9. NativeFirst'
    BY DEF NativeFirst, TypeOK, Behind
<1>10. ConflictNeedsRace'
    BY DEF ConflictNeedsRace, TypeOK, Behind, Undisturbed
<1>11. TagIsSource'
    <2>1. ASSUME NEW u \in Tags \ strayed'
          PROVE  /\ mirrorTag[u] # NoCommit => Last(mirrorTag[u]) = tag'[u]
                 /\ mirrorRelease[u] \in {None, Bare, tag'[u]}
        <3>1. u \in Tags \ strayed
            BY <1>2, <2>1
        <3>2. CASE u = t
            <4>1. tag[t] = None
                BY <1>2, <2>1, <3>2
            <4>2. mirrorRelease[u] \in {None, Bare}
                BY <3>1, <3>2, <4>1 DEF TagIsSource
            <4>3. mirrorTag[u] = NoCommit
                <5>1. mirrorTag[u] # NoCommit => Last(mirrorTag[u]) \in Revisions \cup {Old}
                    BY LastOfCommit DEF TypeOK
                <5> QED BY <3>1, <3>2, <4>1, <5>1 DEF TagIsSource
            <4> QED BY <4>2, <4>3
        <3>3. CASE u # t
            BY <1>2, <3>1, <3>3 DEF TagIsSource, TypeOK
        <3> QED BY <3>2, <3>3
    <2> QED BY <1>2, <2>1 DEF TagIsSource
<1>12. IsPrefix(main, main')
    BY DEF TypeOK
<1> QED BY <1>3, <1>4, <1>5, <1>6, <1>7, <1>8, <1>9, <1>10, <1>11, <1>12

\* A run dispatched elsewhere than at its tag makes it stray.
LEMMA DispatchKeeps ==
    ASSUME MirrorInv, NEW r \in Runs, NEW ref \in Tags \cup {Branch}, NEW t \in Tags, Dispatch(r, ref, t)
    PROVE  MirrorInv' /\ IsPrefix(main, main')
<1> USE ReleaseAssumption, EventFacts, CommitPrefixes DEF MirrorInv, Dispatch, Trigger,
        Running, Goto, End, Steps, Outcomes, Mirroring, sourceVars, mirrorVars, runVars,
        history
<1> DEFINE e == [ref |-> ref, input |-> t, sha |-> IF ref = Branch THEN branch ELSE tag[ref]]
<1>1. (IF ref = Branch THEN branch ELSE tag[ref]) \in Revisions
    BY DEF TypeOK
<1>2. e \in Events /\ TagName(e) \in Tags /\ e.sha \in Revisions
    BY <1>1
<1>3. /\ event' = [event EXCEPT ![r] = e] /\ outcome[r] = "idle"
      /\ outcome' = [outcome EXCEPT ![r] = "running"]
      /\ attempts' = [attempts EXCEPT ![r] = 1]
      /\ strayed' = IF e.sha = tag[TagName(e)] THEN strayed ELSE strayed \cup {TagName(e)}
      /\ UNCHANGED <<sourceVars, mirrorVars, pc, work, overlapped>>
    OBVIOUS
<1>4. TypeOK'
    <2>1. attempts' \in [Runs -> 0..MaxAttempts]
        BY <1>3 DEF TypeOK
    <2>2. event' \in [Runs -> Events \cup {NoEvent}] /\ strayed' \in SUBSET Tags
        BY <1>2, <1>3 DEF TypeOK
    <2>3. outcome' \in [Runs -> Outcomes]
        BY DEF TypeOK
    <2>4. \A s \in Runs : (Running(s, "main") \/ Running(s, "tag"))' => work'[s] # NoCommit
        BY <1>3 DEF Behind, TypeOK
    <2>5. /\ branch' \in Revisions /\ release' \in [Tags -> Installers] /\ native' \in SUBSET Tags
          /\ main' \in Commits \ {NoCommit} /\ mirrorTag' \in [Tags -> Commits]
          /\ mirrorRelease' \in [Tags -> Installers] /\ pc' \in [Runs -> Steps]
          /\ work' \in [Runs -> Commits] /\ overlapped' \in SUBSET Runs
        BY <1>3 DEF TypeOK
    <2>6. moves' \in 0..MaxMoves /\ tag' \in [Tags -> Revisions \cup {None}]
        BY <1>3 DEF TypeOK
    <2> HIDE DEF e, MirrorInv, Dispatch, Trigger, Running
    <2> QED BY <2>1, <2>2, <2>3, <2>4, <2>5, <2>6 DEF TypeOK
<1>5. Behind'
    BY <1>2, <1>3 DEF Behind, TypeOK
<1>6. Pushing'
    BY DEF Pushing, TypeOK, Behind
<1>7. Steady'
    BY <1>2, <1>3 DEF Steady, TypeOK
<1>8. Undisturbed'
    BY DEF Undisturbed, TypeOK, Behind
<1>9. TagsOnMain'
    BY DEF TagsOnMain, TypeOK, Behind, Pushing
<1>10. NativeFirst'
    BY DEF NativeFirst, TypeOK, Behind
<1>11. ConflictNeedsRace'
    BY DEF ConflictNeedsRace, TypeOK, Behind, Undisturbed
<1>12. TagIsSource'
    BY DEF TagIsSource, TypeOK, Behind, Steady, Pushing, Installers
<1>13. IsPrefix(main, main')
    BY DEF TypeOK
<1> QED BY <1>4, <1>5, <1>6, <1>7, <1>8, <1>9, <1>10, <1>11, <1>12, <1>13

\* A job begins anew, with nothing cloned.
LEMMA RerunKeeps ==
    ASSUME MirrorInv, NEW r \in Runs, Rerun(r)
    PROVE  MirrorInv' /\ IsPrefix(main, main')
<1> USE ReleaseAssumption, EventFacts, CommitPrefixes DEF MirrorInv, Rerun, FirstStep,
        Running, Goto, End, Steps, Outcomes, Mirroring, sourceVars, mirrorVars, runVars,
        history
<1>1. /\ event[r] \in Events /\ work' = [work EXCEPT ![r] = NoCommit]
      /\ outcome' = [outcome EXCEPT ![r] = "running"]
      /\ attempts' \in [Runs -> 0..MaxAttempts]
      /\ NoCommit \in Commits
    BY DEF Behind, TypeOK, Commits, NoCommit
<1>2. PICK step \in {"verify", "publish", "clone"} :
          /\ pc' = [pc EXCEPT ![r] = step]
          /\ step = "publish" => pc[r] = "publish"
          /\ step = "clone" => pc[r] \in Mirroring
    BY DEF TypeOK
<1>3. TypeOK'
    BY <1>1, <1>2 DEF TypeOK
<1>4. Behind'
    BY DEF Behind, TypeOK
<1>5. Pushing'
    BY DEF Pushing, TypeOK, Behind
<1>6. Steady'
    BY DEF Steady, TypeOK, Behind
<1>7. Undisturbed'
    BY DEF Undisturbed, TypeOK, Behind
<1>8. TagsOnMain'
    BY DEF TagsOnMain, TypeOK, Behind, Pushing
<1>9. NativeFirst'
    BY DEF NativeFirst, TypeOK, Behind
<1>10. ConflictNeedsRace'
    BY DEF ConflictNeedsRace, TypeOK, Behind, Undisturbed
<1>11. TagIsSource'
    BY DEF TagIsSource, TypeOK, Behind, Steady, Pushing, Installers
<1>12. IsPrefix(main, main')
    BY DEF TypeOK
<1> QED BY <1>3, <1>4, <1>5, <1>6, <1>7, <1>8, <1>9, <1>10, <1>11, <1>12

\* The tag that is verified is the one that all jobs resolve.
LEMMA VerifyKeeps ==
    ASSUME MirrorInv, NEW r \in Runs, Verify(r)
    PROVE  MirrorInv' /\ IsPrefix(main, main')
<1> USE ReleaseAssumption, EventFacts, CommitPrefixes DEF MirrorInv, Verify, VerifiedTag,
        Running, Goto, End, Steps, Outcomes, Mirroring, sourceVars, mirrorVars, runVars,
        history
<1>1. TypeOK'
    BY DEF TypeOK, Installers
<1>2. Behind'
    BY DEF Behind, TypeOK
<1>3. Pushing'
    BY DEF Pushing, TypeOK, Behind
<1>4. Steady'
    BY DEF Steady, TypeOK, Behind
<1>5. Undisturbed'
    BY DEF Undisturbed, TypeOK, Behind
<1>6. TagsOnMain'
    BY DEF TagsOnMain, TypeOK, Behind, Pushing
<1>7. NativeFirst'
    BY DEF NativeFirst, TypeOK, Behind
<1>8. ConflictNeedsRace'
    BY DEF ConflictNeedsRace, TypeOK, Behind, Undisturbed
<1>9. TagIsSource'
    BY DEF TagIsSource, TypeOK, Behind, Steady, Pushing, Installers
<1>10. IsPrefix(main, main')
    BY DEF TypeOK
<1> QED BY <1>1, <1>2, <1>3, <1>4, <1>5, <1>6, <1>7, <1>8, <1>9, <1>10

\* A tag that GitHub makes for a release was dispatched from elsewhere.
LEMMA PublishReleaseKeeps ==
    ASSUME MirrorInv, NEW r \in Runs, PublishRelease(r)
    PROVE  MirrorInv' /\ IsPrefix(main, main')
<1> USE ReleaseAssumption, EventFacts, CommitPrefixes DEF MirrorInv, PublishRelease,
        Released, CheckedOut, Running, Goto, End, Steps, Outcomes, Mirroring, sourceVars,
        mirrorVars, runVars, history
<1>1. TagName(event[r]) \in Tags /\ event[r].sha \in Revisions
    BY DEF Behind, TypeOK
<1>2. TypeOK'
    BY <1>1 DEF TypeOK, Installers
<1>3. Behind'
    BY DEF Behind, TypeOK
<1>4. Pushing'
    BY DEF Pushing, TypeOK, Behind
<1>5. Steady'
    BY DEF Steady, TypeOK, Behind
<1>6. Undisturbed'
    BY DEF Undisturbed, TypeOK, Behind
<1>7. TagsOnMain'
    BY DEF TagsOnMain, TypeOK, Behind, Pushing
<1>8. NativeFirst'
    BY DEF NativeFirst, TypeOK, Behind
<1>9. ConflictNeedsRace'
    BY DEF ConflictNeedsRace, TypeOK, Behind, Undisturbed
<1>10. TagIsSource'
    BY DEF TagIsSource, TypeOK, Behind, Steady, Pushing, Installers
<1>11. IsPrefix(main, main')
    BY DEF TypeOK
<1> QED BY <1>2, <1>3, <1>4, <1>5, <1>6, <1>7, <1>8, <1>9, <1>10, <1>11

\* What is to be pushed extends the mirror, and is the event's commit.
LEMMA CloneKeeps ==
    ASSUME MirrorInv, NEW r \in Runs, Clone(r)
    PROVE  MirrorInv' /\ IsPrefix(main, main')
<1> USE ReleaseAssumption, EventFacts, CommitPrefixes DEF MirrorInv, Clone, Differs,
        CheckedOut, Running, Goto, End, Steps, Outcomes, Mirroring, sourceVars,
        mirrorVars, runVars, history
<1>1. event[r].sha \in Revisions
    BY DEF Behind, TypeOK
<1>2. PICK w \in Commits \ {NoCommit} :
          /\ work' = [work EXCEPT ![r] = w]
          /\ Last(w) = event[r].sha /\ IsPrefix(main, w)
    <2>1. CASE Last(main) = event[r].sha
        BY <2>1 DEF TypeOK
    <2>2. CASE Last(main) # event[r].sha
        <3>1. /\ Append(main, event[r].sha) \in Commits \ {NoCommit}
              /\ Last(Append(main, event[r].sha)) = event[r].sha
              /\ IsPrefix(main, Append(main, event[r].sha))
            BY <1>1, CommitsGrow DEF TypeOK
        <3>2. work' = [work EXCEPT ![r] = Append(main, event[r].sha)]
            BY <2>2
        <3> QED BY <3>1, <3>2
    <2> QED BY <2>1, <2>2
<1>3. /\ pc' = [pc EXCEPT ![r] = "main"] /\ outcome' = outcome
      /\ overlapped' = overlapped \ {r}
    OBVIOUS
<1>4. TypeOK'
    BY <1>2, <1>3 DEF TypeOK
<1>5. Behind'
    BY DEF Behind, TypeOK
<1>6. Pushing'
    BY <1>2, <1>3 DEF Pushing, TypeOK
<1>7. Steady'
    BY DEF Steady, TypeOK, Behind
<1>8. Undisturbed'
    BY <1>2, <1>3 DEF Undisturbed, TypeOK
<1>9. TagsOnMain'
    BY DEF TagsOnMain, TypeOK, Behind, Pushing
<1>10. NativeFirst'
    BY DEF NativeFirst, TypeOK, Behind
<1>11. ConflictNeedsRace'
    BY DEF ConflictNeedsRace, TypeOK, Behind, Undisturbed
<1>12. TagIsSource'
    BY DEF TagIsSource, TypeOK, Behind, Steady, Pushing, Installers
<1>13. IsPrefix(main, main')
    BY DEF TypeOK
<1> QED BY <1>4, <1>5, <1>6, <1>7, <1>8, <1>9, <1>10, <1>11, <1>12, <1>13

\* A fast-forward keeps every tag on main.
LEMMA PushMainKeeps ==
    ASSUME MirrorInv, NEW r \in Runs, PushMain(r)
    PROVE  MirrorInv' /\ IsPrefix(main, main')
<1> USE ReleaseAssumption, EventFacts, CommitPrefixes DEF MirrorInv, PushMain, Rejected,
        Overlapped, FastForward, Running, Goto, End, Steps, Outcomes, Mirroring,
        sourceVars, mirrorVars, runVars, history
<1>1. work[r] \in Commits \ {NoCommit} /\ main' \in {main, work[r]}
    BY DEF TypeOK
<1>2. TypeOK'
    <2>1. /\ pc' \in [Runs -> Steps] /\ outcome' \in [Runs -> Outcomes]
          /\ overlapped' \in SUBSET Runs
        BY DEF TypeOK
    <2> QED BY <1>1, <2>1 DEF TypeOK
<1>3. Behind'
    BY DEF Behind, TypeOK
<1>4. Pushing'
    BY DEF Pushing, TypeOK, Behind
<1>5. Steady'
    BY DEF Steady, TypeOK, Behind
<1>6. Undisturbed'
    BY DEF Undisturbed, TypeOK, Behind
<1>7. TagsOnMain'
    BY DEF TagsOnMain, TypeOK, Behind, Pushing
<1>8. NativeFirst'
    BY DEF NativeFirst, TypeOK, Behind
<1>9. ConflictNeedsRace'
    BY DEF ConflictNeedsRace, TypeOK, Behind, Undisturbed
<1>10. TagIsSource'
    BY DEF TagIsSource, TypeOK, Behind, Steady, Pushing, Installers
<1>11. IsPrefix(main, main')
    BY DEF TypeOK
<1> QED BY <1>2, <1>3, <1>4, <1>5, <1>6, <1>7, <1>8, <1>9, <1>10, <1>11

\* The tag goes to a commit that is on main.
LEMMA PushMirrorTagKeeps ==
    ASSUME MirrorInv, NEW r \in Runs, PushMirrorTag(r)
    PROVE  MirrorInv' /\ IsPrefix(main, main')
<1> USE ReleaseAssumption, EventFacts, CommitPrefixes DEF MirrorInv, PushMirrorTag,
        Overlapped, Running, Goto, End, Steps, Outcomes, Mirroring, sourceVars,
        mirrorVars, runVars, history
<1>1. /\ TagName(event[r]) \in Tags /\ Last(work[r]) = event[r].sha
      /\ TagName(event[r]) \notin strayed => tag[TagName(event[r])] = event[r].sha
    BY DEF Behind, Steady, Pushing
<1>2. TypeOK'
    BY DEF TypeOK, Installers
<1>3. Behind'
    BY DEF Behind, TypeOK
<1>4. Pushing'
    BY DEF Pushing, TypeOK, Behind
<1>5. Steady'
    BY DEF Steady, TypeOK, Behind
<1>6. Undisturbed'
    BY DEF Undisturbed, TypeOK, Behind
<1>7. TagsOnMain'
    BY DEF TagsOnMain, TypeOK, Behind, Pushing
<1>8. NativeFirst'
    BY DEF NativeFirst, TypeOK, Behind
<1>9. ConflictNeedsRace'
    BY DEF ConflictNeedsRace, TypeOK, Behind, Undisturbed
<1>10. TagIsSource'
    BY <1>1 DEF TagIsSource, TypeOK
<1>11. IsPrefix(main, main')
    BY DEF TypeOK
<1> QED BY <1>2, <1>3, <1>4, <1>5, <1>6, <1>7, <1>8, <1>9, <1>10, <1>11

\* A release is seen if it is there.
LEMMA ViewReleaseKeeps ==
    ASSUME MirrorInv, NEW r \in Runs, ViewRelease(r)
    PROVE  MirrorInv' /\ IsPrefix(main, main')
<1> USE ReleaseAssumption, EventFacts, CommitPrefixes DEF MirrorInv, ViewRelease, Seen,
        Running, Goto, End, Steps, Outcomes, Mirroring, sourceVars, mirrorVars, runVars,
        history
<1>1. TypeOK'
    BY DEF TypeOK, Installers
<1>2. Behind'
    BY DEF Behind, TypeOK
<1>3. Pushing'
    BY DEF Pushing, TypeOK, Behind
<1>4. Steady'
    BY DEF Steady, TypeOK, Behind
<1>5. Undisturbed'
    BY DEF Undisturbed, TypeOK, Behind
<1>6. TagsOnMain'
    BY DEF TagsOnMain, TypeOK, Behind, Pushing
<1>7. NativeFirst'
    BY DEF NativeFirst, TypeOK, Behind
<1>8. ConflictNeedsRace'
    BY DEF ConflictNeedsRace, TypeOK, Behind, Undisturbed
<1>9. TagIsSource'
    BY DEF TagIsSource, TypeOK, Behind, Steady, Pushing, Installers
<1>10. IsPrefix(main, main')
    BY DEF TypeOK
<1> QED BY <1>1, <1>2, <1>3, <1>4, <1>5, <1>6, <1>7, <1>8, <1>9, <1>10

\* Only a run that was disturbed finds a release it has not seen.
LEMMA PublishMirroredKeeps ==
    ASSUME MirrorInv, NEW r \in Runs, PublishMirrored(r)
    PROVE  MirrorInv' /\ IsPrefix(main, main')
<1> USE ReleaseAssumption, EventFacts, CommitPrefixes DEF MirrorInv, PublishMirrored,
        Overlapped, CheckedOut, Running, Goto, End, Steps, Outcomes, Mirroring,
        sourceVars, mirrorVars, runVars, history
<1>1. TagName(event[r]) \in Tags /\ event[r].sha \in Revisions
    BY DEF Behind, TypeOK
<1>2. TypeOK'
    <2>1. mirrorRelease' \in [Tags -> Installers]
        BY <1>1 DEF TypeOK, Installers
    <2>2. outcome' \in [Runs -> Outcomes] /\ overlapped' \in SUBSET Runs
        BY DEF TypeOK
    <2> QED BY <2>1, <2>2 DEF TypeOK
<1>3. Behind'
    BY DEF Behind, TypeOK
<1>4. Pushing'
    BY DEF Pushing, TypeOK, Behind
<1>5. Steady'
    BY DEF Steady, TypeOK, Behind
<1>6. Undisturbed'
    BY DEF Undisturbed, TypeOK, Behind
<1>7. TagsOnMain'
    BY DEF TagsOnMain, TypeOK, Behind, Pushing
<1>8. NativeFirst'
    BY DEF NativeFirst, TypeOK, Behind
<1>9. ConflictNeedsRace'
    BY DEF ConflictNeedsRace, TypeOK, Behind, Undisturbed
<1>10. TagIsSource'
    BY DEF TagIsSource, TypeOK, Behind, Steady, Pushing, Installers
<1>11. IsPrefix(main, main')
    BY DEF TypeOK
<1> QED BY <1>2, <1>3, <1>4, <1>5, <1>6, <1>7, <1>8, <1>9, <1>10, <1>11

\* Nothing happens but that the attempt ends.
LEMMA LoseKeeps ==
    ASSUME MirrorInv, NEW r \in Runs, Lose(r)
    PROVE  MirrorInv' /\ IsPrefix(main, main')
<1> USE ReleaseAssumption, EventFacts, CommitPrefixes DEF MirrorInv, Lose, Running, Goto,
        End, Steps, Outcomes, Mirroring, sourceVars, mirrorVars, runVars, history
<1>1. TypeOK'
    BY DEF TypeOK, Installers
<1>2. Behind'
    BY DEF Behind, TypeOK
<1>3. Pushing'
    BY DEF Pushing, TypeOK, Behind
<1>4. Steady'
    BY DEF Steady, TypeOK, Behind
<1>5. Undisturbed'
    BY DEF Undisturbed, TypeOK, Behind
<1>6. TagsOnMain'
    BY DEF TagsOnMain, TypeOK, Behind, Pushing
<1>7. NativeFirst'
    BY DEF NativeFirst, TypeOK, Behind
<1>8. ConflictNeedsRace'
    BY DEF ConflictNeedsRace, TypeOK, Behind, Undisturbed
<1>9. TagIsSource'
    BY DEF TagIsSource, TypeOK, Behind, Steady, Pushing, Installers
<1>10. IsPrefix(main, main')
    BY DEF TypeOK
<1> QED BY <1>1, <1>2, <1>3, <1>4, <1>5, <1>6, <1>7, <1>8, <1>9, <1>10

\* The release is made, without its installers.
LEMMA LoseInstallersKeeps ==
    ASSUME MirrorInv, NEW r \in Runs, LoseInstallers(r)
    PROVE  MirrorInv' /\ IsPrefix(main, main')
<1> USE ReleaseAssumption, EventFacts, CommitPrefixes DEF MirrorInv, LoseInstallers,
        Released, Running, Goto, End, Steps, Outcomes, Mirroring, sourceVars, mirrorVars,
        runVars, history
<1>1. TypeOK'
    BY DEF TypeOK, Installers
<1>2. Behind'
    BY DEF Behind, TypeOK
<1>3. Pushing'
    BY DEF Pushing, TypeOK, Behind
<1>4. Steady'
    BY DEF Steady, TypeOK, Behind
<1>5. Undisturbed'
    BY DEF Undisturbed, TypeOK, Behind
<1>6. TagsOnMain'
    BY DEF TagsOnMain, TypeOK, Behind, Pushing
<1>7. NativeFirst'
    BY DEF NativeFirst, TypeOK, Behind
<1>8. ConflictNeedsRace'
    BY DEF ConflictNeedsRace, TypeOK, Behind, Undisturbed
<1>9. TagIsSource'
    BY DEF TagIsSource, TypeOK, Behind, Steady, Pushing, Installers
<1>10. IsPrefix(main, main')
    BY DEF TypeOK
<1> QED BY <1>1, <1>2, <1>3, <1>4, <1>5, <1>6, <1>7, <1>8, <1>9, <1>10

\* The effect of a push or an upload, without the rest of the job.
LEMMA LoseAnswerKeeps ==
    ASSUME MirrorInv, NEW r \in Runs, LoseAnswer(r)
    PROVE  MirrorInv' /\ IsPrefix(main, main')
<1> USE ReleaseAssumption, EventFacts, CommitPrefixes DEF MirrorInv, LoseAnswer,
        Overlapped, CheckedOut, FastForward, Running, Goto, End, Steps, Outcomes,
        Mirroring, sourceVars, mirrorVars, runVars, history
<1>1. /\ TagName(event[r]) \in Tags /\ event[r].sha \in Revisions
      /\ work[r] \in Commits
      /\ pc[r] = "main" => work[r] # NoCommit
    BY DEF Behind, TypeOK
<1>2. TypeOK'
    <2>1. main' \in Commits \ {NoCommit} /\ mirrorTag' \in [Tags -> Commits]
        BY <1>1 DEF TypeOK
    <2>2. mirrorRelease' \in [Tags -> Installers]
        BY <1>1 DEF TypeOK, Installers
    <2> QED BY <1>1, <2>1, <2>2 DEF TypeOK
<1>3. Behind'
    BY DEF Behind, TypeOK
<1>4. Pushing'
    BY DEF Pushing, TypeOK, Behind
<1>5. Steady'
    BY DEF Steady, TypeOK, Behind
<1>6. Undisturbed'
    BY DEF Undisturbed, TypeOK, Behind
<1>7. TagsOnMain'
    BY DEF TagsOnMain, TypeOK, Behind, Pushing
<1>8. NativeFirst'
    BY DEF NativeFirst, TypeOK, Behind
<1>9. ConflictNeedsRace'
    BY DEF ConflictNeedsRace, TypeOK, Behind, Undisturbed
<1>10. TagIsSource'
    BY DEF TagIsSource, TypeOK, Behind, Steady, Pushing, Installers
<1>11. IsPrefix(main, main')
    BY DEF TypeOK
<1> QED BY <1>2, <1>3, <1>4, <1>5, <1>6, <1>7, <1>8, <1>9, <1>10, <1>11

-----------------------------------------------------------------------------
(* The invariant is inductive *)

\* The mirror starts from its one commit, and nothing has run.
LEMMA InitMirrorInv == Init => MirrorInv
<1> SUFFICES ASSUME Init PROVE MirrorInv
    OBVIOUS
<1> USE ReleaseAssumption, CommitPrefixes DEF Init, Running, Steps, Outcomes, Mirroring
<1>1. main \in Commits \ {NoCommit} /\ NoCommit \in Commits
    <2>1. <<Old>> \in Seq(Revisions \cup {Old}) /\ <<Old>> # <<>> /\ <<>> \in Seq(Revisions \cup {Old})
        OBVIOUS
    <2> QED BY <2>1 DEF Commits, NoCommit
<1>2. TypeOK
    BY <1>1 DEF TypeOK, Installers
<1>3. Behind /\ Pushing /\ Steady /\ Undisturbed
    BY DEF Behind, Pushing, Steady, Undisturbed
<1>4. TagsOnMain
    BY <1>1 DEF TagsOnMain
<1>5. NativeFirst /\ ConflictNeedsRace
    BY DEF NativeFirst, ConflictNeedsRace
<1>6. TagIsSource
    BY DEF TagIsSource
<1> QED BY <1>2, <1>3, <1>4, <1>5, <1>6 DEF MirrorInv

LEMMA NextMirrorInv ==
    ASSUME MirrorInv, [Next]_vars
    PROVE  MirrorInv' /\ IsPrefix(main, main')
<1>1. CASE Commit
    BY <1>1, CommitKeeps
<1>2. CASE NativeReleased
    BY <1>2, NativeReleasedKeeps
<1>3. ASSUME NEW r \in Runs, Started(r) PROVE MirrorInv' /\ IsPrefix(main, main')
    <2>1. ASSUME NEW t \in Tags, PushTag(r, t) PROVE MirrorInv' /\ IsPrefix(main, main')
        BY <2>1, PushTagKeeps
    <2>2. ASSUME NEW t \in Tags, NEW ref \in Tags \cup {Branch}, Dispatch(r, ref, t)
          PROVE  MirrorInv' /\ IsPrefix(main, main')
        BY <2>2, DispatchKeeps
    <2>3. CASE Rerun(r)
        BY <2>3, RerunKeeps
    <2> QED BY <1>3, <2>1, <2>2, <2>3 DEF Started
<1>4. ASSUME NEW r \in Runs, Step(r) PROVE MirrorInv' /\ IsPrefix(main, main')
    <2>1. CASE Verify(r)
        BY <2>1, VerifyKeeps
    <2>2. CASE PublishRelease(r)
        BY <2>2, PublishReleaseKeeps
    <2>3. CASE Clone(r)
        BY <2>3, CloneKeeps
    <2>4. CASE PushMain(r)
        BY <2>4, PushMainKeeps
    <2>5. CASE PushMirrorTag(r)
        BY <2>5, PushMirrorTagKeeps
    <2>6. CASE ViewRelease(r)
        BY <2>6, ViewReleaseKeeps
    <2>7. CASE PublishMirrored(r)
        BY <2>7, PublishMirroredKeeps
    <2>8. CASE Lose(r)
        BY <2>8, LoseKeeps
    <2>9. CASE LoseInstallers(r)
        BY <2>9, LoseInstallersKeeps
    <2>10. CASE LoseAnswer(r)
        BY <2>10, LoseAnswerKeeps
    <2> QED BY <1>4, <2>1, <2>2, <2>3, <2>4, <2>5, <2>6, <2>7, <2>8, <2>9, <2>10 DEF Step
<1>5. CASE UNCHANGED vars
    <2>1. MirrorInv'
        BY <1>5 DEF vars, sourceVars, mirrorVars, runVars, history, MirrorInv, TypeOK, Behind,
            Pushing, Steady, Undisturbed, TagsOnMain, NativeFirst, ConflictNeedsRace,
            TagIsSource, Running
    <2>2. IsPrefix(main, main')
        BY <1>5, CommitPrefixes DEF vars, mirrorVars, MirrorInv, TypeOK
    <2> QED BY <2>1, <2>2
<1> QED BY <1>1, <1>2, <1>3, <1>4, <1>5 DEF Next

LEMMA MirrorInductive == Spec => []MirrorInv
<1>1. MirrorInv /\ [Next]_vars => MirrorInv'
    BY NextMirrorInv
<1> QED BY InitMirrorInv, <1>1, PTL DEF Spec

-----------------------------------------------------------------------------
(* Theorems *)

\* The mirror and the runs keep their types: main always has a commit, and a run that is
\* about to push has made or found the commit it pushes (release.yml, job sync-public).
THEOREM MirrorTypeCorrect == Spec => []TypeOK
<1>1. MirrorInv => TypeOK
    BY DEF MirrorInv
<1> QED BY MirrorInductive, <1>1, PTL

\* The push of main that is not forced: a commit of the mirror is never taken back, however
\* many runs push at once and are repeated.
THEOREM MainIsNeverTakenBack == Spec => MainKeepsHistory
<1>1. MirrorInv /\ [Next]_vars => [IsPrefix(main, main')]_main
    BY NextMirrorInv
<1> QED BY MirrorInductive, <1>1, PTL DEF Spec, MainKeepsHistory

\* set -e after that push: a commit that main does not have is never tagged.
THEOREM TagsStayOnMain == Spec => []TagsOnMain
<1>1. MirrorInv => TagsOnMain
    BY DEF MirrorInv
<1> QED BY MirrorInductive, <1>1, PTL

\* The order of the jobs and of the mirror's steps: a public release comes after that of
\* sdk-rust, the private one and its public tag.
THEOREM NativeComesFirst == Spec => []NativeFirst
<1>1. MirrorInv => NativeFirst
    BY DEF MirrorInv
<1> QED BY MirrorInductive, <1>1, PTL

\* What lets a failed job be repeated: the commit is made only if there is something to
\* commit, the release created only if there is none.
THEOREM ConflictsNeedRaces == Spec => []ConflictNeedsRace
<1>1. MirrorInv => ConflictNeedsRace
    BY DEF MirrorInv
<1> QED BY MirrorInductive, <1>1, PTL

\* A tag that stayed where it was is mirrored as it is, tag and installers.
THEOREM TagsAreSources == Spec => []TagIsSource
<1>1. MirrorInv => TagIsSource
    BY DEF MirrorInv
<1> QED BY MirrorInductive, <1>1, PTL

=============================================================================
