--------------------------- MODULE MCCiFeedback ---------------------------
(***************************************************************************)
(* Small instances of CiFeedback for TLC: who the runs belong to.          *)
(***************************************************************************)
EXTENDS CiFeedbackLedger, TLC

CONSTANTS r1, r2, r3, r4, ci, release, main, b1, b2, p1, p2, o1, o2, j1, j2, j3, s1, s2, w1, w2

RunContext(workflow, branch, pr, issue, depth) ==
    [workflow_id |-> workflow, branch |-> branch, base_branch |-> main,
     pull_request_number |-> pr, originating_issue |-> issue,
     remediation_depth |-> depth]

\* Two runs of one pull request: failures, recoveries, re-runs of both.
SamePR == (r1 :> RunContext(ci, b1, p1, o1, 0)) @@ (r2 :> RunContext(ci, b1, p1, o1, 1))

\* Two runs of one pull request that names no issue.
PlainPR == [r \in {r1, r2} |-> RunContext(ci, b1, p1, None, 0)]

\* One run, to be completed again and again.
OneRun == (r1 :> RunContext(ci, b1, p1, o1, 0))

\* A pull request, a second workflow that gates it and blocks the same issue, a push to
\* its branch, and a pull request that shares its base, hence fingerprints but not
\* recoveries, and has reached the remediation depth limit.
Mixed == (r1 :> RunContext(ci, b1, p1, o1, 0)) @@ (r2 :> RunContext(release, b1, p1, o1, 0))
         @@ (r3 :> RunContext(ci, b1, None, None, 0)) @@ (r4 :> RunContext(ci, b2, p2, o2, 2))

\* Three pushes of the same branch, to fill and overflow a small window.
ThreePushes == [r \in {r1, r2, r3} |-> RunContext(ci, main, None, None, 0)]

OwnSignatures == (j1 :> s1) @@ (j2 :> s2)
SharedSignature == [j \in {j1, j2, j3} |-> s1]
OneJob == (j1 :> s1)

EngineSymmetry == Permutations({w1, w2})
=============================================================================
