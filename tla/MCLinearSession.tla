-------------------------- MODULE MCLinearSession --------------------------
(***************************************************************************)
(* Workspaces and configurations for a small instance of LinearSession.    *)
(***************************************************************************)
EXTENDS LinearSession, TLC

CONSTANTS t1, t2, p1, p2

MCUpper == [k \in Keys |-> IF k = "sdk" THEN "SDK" ELSE k]

\* Every state of a team has an id of its own.
MCStateIds == {t1, t2} \X StateNames

AllBut(names) ==
    [t \in {t1, t2} |-> [n \in StateNames |-> IF n \in names THEN Absent ELSE <<t, n>>]]

Workspace(slugs, assigned, keys, without) ==
    [slug |-> p1 :> slugs[1] @@ p2 :> slugs[2],
     teams |-> p1 :> assigned @@ p2 :> {t2},
     key |-> t1 :> keys[1] @@ t2 :> keys[2],
     states |-> AllBut(without)]

Good == Workspace(<<"ours", "theirs">>, {t1, t2}, <<"SDK", "OPS">>, {})

\* A good one; one whose team key is not in capitals; one without a required state
\* or without a backlog; one whose project belongs to another team; and two
\* projects of the same slug.
MCWorkspaces ==
    {Good,
     Workspace(<<"ours", "theirs">>, {t1}, <<"sdk", "OPS">>, {}),
     Workspace(<<"ours", "theirs">>, {t1}, <<"SDK", "OPS">>, {"In Progress"}),
     Workspace(<<"ours", "theirs">>, {t1}, <<"SDK", "OPS">>, {"Backlog"}),
     Workspace(<<"ours", "theirs">>, {t2}, <<"SDK", "sdk">>, {}),
     Workspace(<<"ours", "ours">>, {t1}, <<"SDK", "OPS">>, {})}

Written ==
    [team |-> t1, team_key |-> "SDK", project |-> p1, project_slug |-> "ours",
     states |-> [u \in Uses |-> <<t1, NameFor[u]>>],
     labels |-> GeneratedLabels, policy |-> Policy]

\* A file like the one bootstrap writes, one whose states are another team's, and
\* three that load_config refuses.
MCCheckedIn ==
    {Written,
     [Written EXCEPT !.states = [u \in Uses |-> <<t2, NameFor[u]>>]],
     [Written EXCEPT !.labels = {"type:ci-failure"}],
     [Written EXCEPT !.policy.human_review_after = 4],
     [Written EXCEPT !.policy.history_limit = 3],
     [Written EXCEPT !.policy.max_remediation_depth = 0]}
=============================================================================
