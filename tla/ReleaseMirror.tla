--------------------------- MODULE ReleaseMirror ---------------------------
(***************************************************************************)
(* The release workflow, .github/workflows/release.yml: a tag v* of the    *)
(* private repository is released there and mirrored, with its source and  *)
(* installers, to the public one.                                          *)
(*                                                                         *)
(* A run has three jobs in a row: it verifies that the native SDK has a    *)
(* release of that tag, publishes the release, and mirrors.  No            *)
(* concurrency group keeps runs apart.  Mirroring takes a clone, a push of *)
(* main that is not forced, a push of the tag that is, and a release       *)
(* looked up before it is created.  Every step may fail, also after it had *)
(* its effect, and a failed run may be re-run, as a whole or from its      *)
(* failed job on, with the commit it was triggered for.                    *)
(*                                                                         *)
(* A source commit stands for its content, a commit of the mirror is the   *)
(* sequence of contents that leads to it.  Titles, notes, the prerelease   *)
(* flag and the directories rsync leaves alone are left out.  Definitions  *)
(* used nowhere are mutated forms of the next.                             *)
(***************************************************************************)
EXTENDS Integers, SequencesExt

CONSTANTS
    Tags, Revisions, Runs,
    Old,          \* what the mirror holds at first
    MaxAttempts,  \* bound: attempts of one run
    MaxMoves      \* bound: commits to the branch and tags pushed

ASSUME ReleaseAssumption ==
    /\ MaxAttempts \in Nat \ {0} /\ MaxMoves \in Nat
    /\ Old \notin Revisions /\ {"none", "bare"} \cap (Revisions \cup {Old}) = {}

VARIABLES
    \* the private repository
    branch,          \* the head of its default branch
    tag,             \* the commit of each tag
    release,         \* the commit whose installers the release of a tag carries
    moves,
    native,          \* tags with a release in sdk-rust-public
    \* the mirror
    main,            \* a commit
    mirrorTag,       \* the commit of each tag
    mirrorRelease,   \* the installers of each release
    \* the runs
    pc, outcome,     \* the step a run is at, and how its last attempt stands
    event,           \* what triggered it
    work,            \* the clone's HEAD: the mirror's main, or a commit made on it
    attempts,
    \* what the properties ask about
    overlapped,      \* runs that were mirroring while another run changed the mirror
    strayed          \* tags that moved or were released from another commit

sourceVars == <<branch, tag, release, moves, native>>
mirrorVars == <<main, mirrorTag, mirrorRelease>>
runVars == <<pc, outcome, event, work, attempts>>
history == <<overlapped, strayed>>
vars == <<sourceVars, mirrorVars, runVars, history>>

-----------------------------------------------------------------------------

None == "none"     \* no commit, no tag, no release
Bare == "bare"     \* a release without its installers
NoCommit == <<>>

\* ref is the tag that the run was triggered on, or the branch.
Branch == "branch"
Events == [ref : Tags \cup {Branch}, input : Tags, sha : Revisions]
NoEvent == [ref |-> None]

\* The steps of the mirroring job, and what precedes them.
Mirroring == {"clone", "main", "tag", "view", "create", "upload"}
Steps == {"verify", "publish"} \cup Mirroring
Outcomes == {"idle", "running", "done", "lost", "conflict"}

InputFirst(e) == e.input

\* The tag of a run: the ref it runs on, else the input.
TagName(e) == IF e.ref # Branch THEN e.ref ELSE e.input

VerifiedTag(e) == TagName(e)

CheckedOutHead(e) == branch

\* actions/checkout without a ref: the commit of the event.
CheckedOut(e) == e.sha

Running(r, step) == outcome[r] = "running" /\ pc[r] = step

Goto(r, step) == pc' = [pc EXCEPT ![r] = step] /\ UNCHANGED outcome

\* The attempt ends at the step it is at.
End(r, o) == outcome' = [outcome EXCEPT ![r] = o] /\ UNCHANGED pc

\* r changes the mirror under the other runs that are at work on it.
Overlapped(r) == overlapped \cup {s \in Runs \ {r} : outcome[s] = "running" /\ pc[s] \in Mirroring}

-----------------------------------------------------------------------------
(* What starts a run *)

Commit ==
    /\ moves < MaxMoves /\ moves' = moves + 1
    /\ \E c \in Revisions \ {branch} : branch' = c
    /\ UNCHANGED <<tag, release, native, mirrorVars, runVars, history>>

\* The release of sdk-rust for a tag appears in its own time.
NativeReleased ==
    /\ \E t \in Tags \ native : native' = native \cup {t}
    /\ UNCHANGED <<branch, tag, release, moves, mirrorVars, runVars, history>>

Trigger(r, e) ==
    /\ outcome[r] = "idle"
    /\ outcome' = [outcome EXCEPT ![r] = "running"]
    /\ event' = [event EXCEPT ![r] = e]
    /\ attempts' = [attempts EXCEPT ![r] = 1]
    /\ UNCHANGED <<pc, work>>

\* Somebody pushes a new tag, or moves one.  There is no input.
PushTag(r, t) ==
    /\ moves < MaxMoves /\ moves' = moves + 1
    /\ tag[t] # branch
    /\ tag' = [tag EXCEPT ![t] = branch]
    /\ Trigger(r, [ref |-> t, input |-> t, sha |-> branch])
    /\ strayed' = IF tag[t] = None THEN strayed ELSE strayed \cup {t}
    /\ UNCHANGED <<branch, release, native, mirrorVars, overlapped>>

\* workflow_dispatch, on the branch or on a tag, with any tag as its input.
Dispatch(r, ref, t) ==
    /\ ref # Branch => tag[ref] # None
    /\ LET e == [ref |-> ref, input |-> t,
                 sha |-> IF ref = Branch THEN branch ELSE tag[ref]]
       IN /\ Trigger(r, e)
          /\ strayed' = IF e.sha = tag[TagName(e)] THEN strayed
                        ELSE strayed \cup {TagName(e)}
    /\ UNCHANGED <<sourceVars, mirrorVars, overlapped>>

-----------------------------------------------------------------------------
(* The jobs before the mirror *)

Verify(r) ==
    /\ Running(r, "verify")
    /\ IF VerifiedTag(event[r]) \in native THEN Goto(r, "publish") ELSE End(r, "lost")
    /\ UNCHANGED <<sourceVars, mirrorVars, event, work, attempts, history>>

\* A release is made or replaced.  If its tag is missing GitHub makes one, at the head
\* of the branch.
Released(t, installers) ==
    /\ release' = [release EXCEPT ![t] = installers]
    /\ tag' = [tag EXCEPT ![t] = IF @ = None THEN branch ELSE @]

PublishRelease(r) ==
    /\ Running(r, "publish")
    /\ Released(TagName(event[r]), CheckedOut(event[r]))
    /\ Goto(r, "clone")
    /\ UNCHANGED <<branch, moves, native, mirrorVars, event, work, attempts, history>>

-----------------------------------------------------------------------------
(* The mirroring job *)

AlwaysCommits(c) == TRUE

\* git status --porcelain: the synchronised tree differs from the one that was cloned.
Differs(c) == Last(main) # c

\* Clone, rsync --delete, git commit.  An empty commit is an error.
Clone(r) ==
    /\ Running(r, "clone")
    /\ LET c == CheckedOut(event[r])
       IN IF Differs(c) THEN /\ work' = [work EXCEPT ![r] = Append(main, c)]
                             /\ IF Last(main) = c THEN End(r, "conflict") ELSE Goto(r, "main")
          ELSE work' = [work EXCEPT ![r] = main] /\ Goto(r, "main")
    /\ overlapped' = overlapped \ {r}
    /\ UNCHANGED <<sourceVars, mirrorVars, event, attempts, strayed>>

Forced(r) == TRUE

\* Only a fast-forward is accepted: nobody pushed another commit since the clone.
FastForward(r) == IsPrefix(main, work[r])

RejectionIgnored(r) == Goto(r, "tag")

\* set -e: the job ends here.
Rejected(r) == End(r, "conflict")

PushMain(r) ==
    /\ Running(r, "main")
    /\ IF FastForward(r)
       THEN main' = work[r] /\ Goto(r, "tag") /\ overlapped' = Overlapped(r)
       ELSE Rejected(r) /\ UNCHANGED <<main, overlapped>>
    /\ UNCHANGED <<sourceVars, mirrorTag, mirrorRelease, event, work, attempts, strayed>>

\* Forced: whatever the tag was.
PushMirrorTag(r) ==
    /\ Running(r, "tag")
    /\ mirrorTag' = [mirrorTag EXCEPT ![TagName(event[r])] = work[r]]
    /\ Goto(r, "view") /\ overlapped' = Overlapped(r)
    /\ UNCHANGED <<sourceVars, main, mirrorRelease, event, work, attempts, strayed>>

NeverSeen(t) == FALSE

\* gh release view
Seen(t) == mirrorRelease[t] # None

ViewRelease(r) ==
    /\ Running(r, "view")
    /\ Goto(r, IF Seen(TagName(event[r])) THEN "upload" ELSE "create")
    /\ UNCHANGED <<sourceVars, mirrorVars, event, work, attempts, history>>

\* gh release create, an error if there is one, or gh release upload --clobber.
PublishMirrored(r) ==
    LET t == TagName(event[r]) IN
    /\ Running(r, "create") \/ Running(r, "upload")
    /\ IF pc[r] = "create" /\ mirrorRelease[t] # None
       THEN End(r, "conflict") /\ UNCHANGED <<mirrorRelease, overlapped>>
       ELSE /\ mirrorRelease' = [mirrorRelease EXCEPT ![t] = CheckedOut(event[r])]
            /\ End(r, "done") /\ overlapped' = Overlapped(r)
    /\ UNCHANGED <<sourceVars, main, mirrorTag, event, work, attempts, strayed>>

-----------------------------------------------------------------------------
(* Failures and re-runs *)

\* A step fails without an effect: no connection, no GH_PAT, no runner.
Lose(r) ==
    /\ outcome[r] = "running"
    /\ End(r, "lost")
    /\ UNCHANGED <<sourceVars, mirrorVars, event, work, attempts, history>>

\* A release is made but its installers do not arrive.
LoseInstallers(r) ==
    /\ Running(r, "publish")
    /\ Released(TagName(event[r]), Bare)
    /\ End(r, "lost")
    /\ UNCHANGED <<branch, moves, native, mirrorVars, event, work, attempts, history>>

\* A change of the mirror takes place but the step fails.  An upload may have removed
\* what it was to replace.
LoseAnswer(r) ==
    LET t == TagName(event[r]) IN
    /\ \/ /\ Running(r, "main") /\ FastForward(r)
          /\ main' = work[r] /\ UNCHANGED <<mirrorTag, mirrorRelease>>
       \/ /\ Running(r, "tag")
          /\ mirrorTag' = [mirrorTag EXCEPT ![t] = work[r]]
          /\ UNCHANGED <<main, mirrorRelease>>
       \/ /\ Running(r, "create") /\ mirrorRelease[t] = None
          /\ mirrorRelease' = [mirrorRelease EXCEPT ![t] = CheckedOut(event[r])]
          /\ UNCHANGED <<main, mirrorTag>>
       \/ /\ Running(r, "upload")
          /\ mirrorRelease' = [mirrorRelease EXCEPT ![t] = Bare]
          /\ UNCHANGED <<main, mirrorTag>>
    /\ End(r, "lost") /\ overlapped' = Overlapped(r)
    /\ UNCHANGED <<sourceVars, event, work, attempts, strayed>>

\* The job that a step belongs to begins with:
FirstStep(step) == IF step \in Mirroring THEN "clone" ELSE step

\* All jobs again, or the one that failed, for the same event.
Rerun(r) ==
    /\ outcome[r] \in {"done", "lost", "conflict"} /\ attempts[r] < MaxAttempts
    /\ attempts' = [attempts EXCEPT ![r] = @ + 1]
    /\ outcome' = [outcome EXCEPT ![r] = "running"]
    /\ \E step \in {"verify"} \cup (IF outcome[r] = "done" THEN {} ELSE {FirstStep(pc[r])}) :
           pc' = [pc EXCEPT ![r] = step]
    /\ work' = [work EXCEPT ![r] = NoCommit]
    /\ overlapped' = overlapped \ {r}
    /\ UNCHANGED <<sourceVars, mirrorVars, event, strayed>>

-----------------------------------------------------------------------------

Init ==
    /\ branch \in Revisions
    /\ tag = [t \in Tags |-> None] /\ release = [t \in Tags |-> None]
    /\ moves = 0 /\ native \in SUBSET Tags
    /\ main = <<Old>>
    /\ mirrorTag = [t \in Tags |-> NoCommit] /\ mirrorRelease = [t \in Tags |-> None]
    /\ pc = [r \in Runs |-> "verify"] /\ outcome = [r \in Runs |-> "idle"]
    /\ event = [r \in Runs |-> NoEvent]
    /\ work = [r \in Runs |-> NoCommit] /\ attempts = [r \in Runs |-> 0]
    /\ overlapped = {} /\ strayed = {}

\* What is done to a run from outside, and what it does.
Started(r) ==
    \/ \E t \in Tags : PushTag(r, t) \/ \E ref \in Tags \cup {Branch} : Dispatch(r, ref, t)
    \/ Rerun(r)

Step(r) ==
    \/ Verify(r) \/ PublishRelease(r) \/ Clone(r) \/ PushMain(r) \/ PushMirrorTag(r)
    \/ ViewRelease(r) \/ PublishMirrored(r)
    \/ Lose(r) \/ LoseInstallers(r) \/ LoseAnswer(r)

Next == Commit \/ NativeReleased \/ \E r \in Runs : Started(r) \/ Step(r)

Spec == Init /\ [][Next]_vars

-----------------------------------------------------------------------------
(* Properties *)

Installers == Revisions \cup {None, Bare}
Commits == Seq(Revisions \cup {Old})

\* Type invariant.  The mirror is never without a commit, a run that pushes has one.
TypeOK ==
    /\ branch \in Revisions
    /\ tag \in [Tags -> Revisions \cup {None}]
    /\ release \in [Tags -> Installers]
    /\ moves \in 0..MaxMoves /\ native \in SUBSET Tags
    /\ main \in Commits \ {NoCommit}
    /\ mirrorTag \in [Tags -> Commits]
    /\ mirrorRelease \in [Tags -> Installers]
    /\ pc \in [Runs -> Steps] /\ outcome \in [Runs -> Outcomes]
    /\ event \in [Runs -> Events \cup {NoEvent}]
    /\ work \in [Runs -> Commits]
    /\ \A r \in Runs : Running(r, "main") \/ Running(r, "tag") => work[r] # NoCommit
    /\ attempts \in [Runs -> 0..MaxAttempts]
    /\ overlapped \in SUBSET Runs /\ strayed \in SUBSET Tags

\* However the pushes of several runs and attempts fall, the mirror's main only grows:
\* a commit that the public has seen is never taken back.
MainKeepsHistory == [][IsPrefix(main, main')]_main

\* Every tag of the mirror is on its main: a run that lost the race for main does not
\* tag its commit all the same.
TagsOnMain == \A t \in Tags : IsPrefix(mirrorTag[t], main)

\* The public release of a tag comes last: sdk-rust has a release of that tag, the private
\* one was made, and its tag is on the mirror, whatever tag or branch the run was
\* dispatched on and whichever jobs were re-run.
NativeFirst ==
    \A t \in Tags : mirrorRelease[t] # None =>
        t \in native /\ release[t] # None /\ mirrorTag[t] # NoCommit

\* A job fails for another reason than its connection only if another run was changing
\* the mirror meanwhile: what an earlier attempt left half done never stops a re-run.
ConflictNeedsRace == \A r \in Runs : outcome[r] = "conflict" => r \in overlapped

\* The public tag and its installers are those of the private tag, however late and
\* often its runs were repeated, unless the tag was moved or a run was dispatched for
\* it on another commit.
TagIsSource ==
    \A t \in Tags \ strayed :
        /\ mirrorTag[t] # NoCommit => Last(mirrorTag[t]) = tag[t]
        /\ mirrorRelease[t] \in {None, Bare, tag[t]}
=============================================================================
