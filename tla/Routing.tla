------------------------------ MODULE Routing ------------------------------
(***************************************************************************)
(* How a feedback job finds out where its defects go, before it writes     *)
(* anything (ci_feedback/bootstrap.py, config.py, cli.py and               *)
(* validate_prerequisites of linear.py).                                   *)
(*                                                                         *)
(* The action runs three processes.  The first resolves a project slug and *)
(* a team key to ids by two queries and writes a configuration file, the   *)
(* second loads and validates it, the third loads it, validates it again   *)
(* and works.  A job may also start from a checked-in file.  Between any   *)
(* two queries people rename teams, reassign projects and edit workflow    *)
(* states.  The label listing that ends a validation is read page by page: *)
(* LinearSession takes it from ApiClient.                                  *)
(*                                                                         *)
(* Endpoint, paths and conclusions are left out: both sides agree on them. *)
(* Definitions used nowhere are mutated forms of the one that follows.     *)
(***************************************************************************)
EXTENDS Integers, FiniteSets

CONSTANTS
    Teams, Projects, Slugs,
    Keys, Upper,      \* team keys, and str.upper on them
    StateIds,         \* ids of workflow states, never used twice by Linear
    AskedSlug, AskedKey,  \* the inputs project-slug and team-key
    Workspaces,       \* what a job may find in Linear when it starts
    CheckedIn,        \* configurations somebody may have written by hand
    Absent,           \* no project, no state, no configuration
    MaxDrift          \* bound: changes people make during the job

VARIABLES
    \* Linear
    slug, teams,      \* slug[p] and teams[p] of a project
    key, states,      \* key[t] and states[t], the id behind a state name, of a team
    \* the job
    stage, config, project, team, validated,
    drifts

workspace == <<slug, teams, key, states>>
job == <<stage, config, project, team, validated>>
routing == <<workspace, job, drifts>>

-----------------------------------------------------------------------------

RequiredStates == {"Todo", "In Progress", "In Review", "Done"}
StateNames == RequiredStates \cup {"Backlog"}
Uses == {"todo", "in_progress", "in_review", "done", "escalated"}

\* Linear gives no two teams a key, and no two states an id.
ASSUME RoutingAssumption ==
    /\ Upper \in [Keys -> Keys] /\ AskedKey \in Keys /\ AskedSlug \in Slugs
    /\ Absent \notin Projects \cup Teams \cup StateIds \cup Slugs
    /\ MaxDrift \in Nat
    /\ \A w \in Workspaces :
          /\ w.slug \in [Projects -> Slugs \cup {Absent}]
          /\ w.teams \in [Projects -> SUBSET Teams]
          /\ w.key \in [Teams -> Keys]
          /\ \A s, t \in Teams : w.key[s] = w.key[t] => s = t
          /\ w.states \in [Teams -> [StateNames -> StateIds \cup {Absent}]]
          /\ \A s, t \in Teams, n, m \in StateNames :
                w.states[s][n] = w.states[t][m] /\ w.states[s][n] # Absent
                    => s = t /\ n = m

RequiredLabels ==
    {"type:ci-failure", "source:github-actions", "auto-generated", "agent:eligible"}

GeneratedLabels == RequiredLabels \cup {"auto-remediation", "repository:name"}

\* What resolve_config writes, whatever the repository.
Policy ==
    [max_remediation_depth |-> 3, human_review_after |-> 3, systemic_after |-> 4,
     history_limit |-> 50]

\* There is no Escalated state: the depth limit fails closed into In Review.
NameFor ==
    [todo |-> "Todo", in_progress |-> "In Progress", in_review |-> "In Review",
     done |-> "Done", escalated |-> "In Review"]

\* The configuration resolve_config returns for project p of team t.
Resolved(p, t) ==
    [team |-> t, team_key |-> Upper[AskedKey], project |-> p, project_slug |-> AskedSlug,
     states |-> [u \in Uses |-> states[t][NameFor[u]]],
     labels |-> GeneratedLabels, policy |-> Policy]

\* load_config returns: positive integers, cross-field checks, required labels.
Accepts(c) ==
    /\ \A f \in DOMAIN c.policy : c.policy[f] >= 1
    /\ c.policy.human_review_after < c.policy.systemic_after
    /\ c.policy.systemic_after <= c.policy.history_limit
    /\ RequiredLabels \subseteq c.labels

Raise == stage' = "failed" /\ UNCHANGED <<config, project, team, validated>>

-----------------------------------------------------------------------------
(* bootstrap *)

\* The projects the first query finds, and the teams of one with the asked key.
Named == {p \in Projects : slug[p] = AskedSlug}
Assigned(p) == {t \in teams[p] : Upper[key[t]] = Upper[AskedKey]}

\* One project of the slug, assigned uniquely to the team.
FindProject ==
    /\ stage = "project"
    /\ IF Cardinality(Named) = 1
          /\ \A p \in Named : Cardinality(Assigned(p)) = 1
       THEN /\ project' \in Named
            /\ team' \in Assigned(project')
            /\ stage' = "team"
            /\ UNCHANGED <<config, validated>>
       ELSE Raise

\* The key is compared as it is this time: "drifted while resolving".
FindTeam ==
    /\ stage = "team"
    /\ IF /\ key[team] = Upper[AskedKey]
          /\ \A n \in RequiredStates : states[team][n] # Absent
       THEN /\ config' = Resolved(project, team)
            /\ stage' = "load"
            /\ UNCHANGED <<project, team, validated>>
       ELSE Raise

-----------------------------------------------------------------------------
(* validate and process *)

\* load_config, at the start of the second and of the third process.
Load ==
    /\ stage = "load"
    /\ IF Accepts(config)
       THEN stage' = "validate" /\ UNCHANGED <<config, project, team, validated>>
       ELSE Raise

UsableIgnoringTeam(c) ==
    /\ key[c.team] = c.team_key
    /\ slug[c.project] = c.project_slug
    /\ \A u \in Uses : \E t \in Teams, n \in StateNames : states[t][n] = c.states[u]

\* What one query shows is consistent with the configuration: the team has its key,
\* the project its slug and the team, and every configured state is the team's.
Usable(c) ==
    /\ key[c.team] = c.team_key
    /\ slug[c.project] = c.project_slug
    /\ c.team \in teams[c.project]
    /\ \A u \in Uses : \E n \in StateNames : states[c.team][n] = c.states[u]

\* validate_prerequisites up to resolve_label_ids.
Validate ==
    /\ stage = "validate"
    /\ IF Usable(config)
       THEN stage' = "labels" /\ UNCHANGED <<config, project, team, validated>>
       ELSE Raise

\* resolve_label_ids returned: the second process ends well, the third one works.
LabelsResolved ==
    /\ stage = "labels"
    /\ stage' = IF validated THEN "ready" ELSE "load"
    /\ validated' = TRUE
    /\ UNCHANGED <<workspace, config, project, team, drifts>>

\* A label is missing, or the listing failed.
LabelsUnresolved == stage = "labels" /\ Raise /\ UNCHANGED <<workspace, drifts>>

\* A query fails, or its answer is malformed.
RequestRaises == stage \in {"project", "team", "validate"} /\ Raise

-----------------------------------------------------------------------------
(* People *)

\* Linear keeps the keys of teams apart.
RenameTeam(t) ==
    \E k \in Keys \ {key[s] : s \in Teams} :
        key' = [key EXCEPT ![t] = k] /\ UNCHANGED <<slug, teams, states>>

RenameProject(p) ==
    \E s \in (Slugs \cup {Absent}) \ {slug[p]} :
        slug' = [slug EXCEPT ![p] = s] /\ UNCHANGED <<teams, key, states>>

Reassign(p) ==
    \E T \in SUBSET Teams \ {teams[p]} :
        teams' = [teams EXCEPT ![p] = T] /\ UNCHANGED <<slug, key, states>>

RemoveState(t, n) ==
    /\ states[t][n] # Absent
    /\ states' = [states EXCEPT ![t][n] = Absent]
    /\ UNCHANGED <<slug, teams, key>>

\* A state moves to a name that is free, with its id.
RenameState(t, n, m) ==
    /\ states[t][n] # Absent /\ states[t][m] = Absent
    /\ states' = [states EXCEPT ![t][n] = Absent, ![t][m] = states[t][n]]
    /\ UNCHANGED <<slug, teams, key>>

\* People change what the next query reads.  A change during a label listing is the
\* same as one after it, since the listing reads none of this.
Drift ==
    /\ stage \notin {"labels", "ready", "failed"}
    /\ drifts < MaxDrift
    /\ drifts' = drifts + 1
    /\ \/ \E t \in Teams : RenameTeam(t)
       \/ \E p \in Projects : RenameProject(p) \/ Reassign(p)
       \/ \E t \in Teams, n \in StateNames : RemoveState(t, n)
       \/ \E t \in Teams, n, m \in StateNames : RenameState(t, n, m)
    /\ UNCHANGED job

-----------------------------------------------------------------------------

JobInit ==
    /\ \E w \in Workspaces :
           slug = w.slug /\ teams = w.teams /\ key = w.key /\ states = w.states
    /\ project = Absent /\ team = Absent
    /\ validated = FALSE
    /\ \/ stage = "project" /\ config = Absent
       \/ stage = "load" /\ config \in CheckedIn
    /\ drifts = 0

\* The steps of the job itself, which only reads Linear.
Step ==
    /\ FindProject \/ FindTeam \/ Load \/ Validate \/ RequestRaises
    /\ UNCHANGED <<workspace, drifts>>
=============================================================================
