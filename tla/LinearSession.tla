--------------------------- MODULE LinearSession ---------------------------
(***************************************************************************)
(* One feedback job against Linear and GitHub: it finds its routing        *)
(* (Routing), and every listing it needs and every call it then makes is a *)
(* call of a client (ApiClient).  The label listing that ends each of the  *)
(* two validations decides whether the job goes on; once it is ready the   *)
(* engine makes its calls, of which one is followed here.                  *)
(***************************************************************************)
EXTENDS ApiClient, Routing

sessionVars == <<vars, routing>>

\* A call to the server whose nodes are S; nothing of an earlier call is left.
Begin(k, S) ==
    /\ kind' = k /\ nodes' = S
    /\ wanted' \in IF k = "labels" THEN Nodes ELSE {1}
    /\ throughout' = S /\ ever' = S /\ changes' = 0
    /\ cursor' = 0 /\ page' = 0 /\ attempt' = 1
    /\ got' = {} /\ listed' = 0
    /\ outcome' = "pending" /\ effects' = 0

\* Between two calls.
Rest == Begin("jobs", {})

\* A step of the routing; a validation that finds its query in order lists labels.
Resolve ==
    /\ Step
    /\ IF stage' = "labels"
       THEN \E S \in SUBSET Nodes : Begin("labels", S)
       ELSE UNCHANGED vars

\* A call of the client takes a step.
Call ==
    /\ stage \in {"labels", "ready"}
    /\ Client \/ Change
    /\ UNCHANGED routing

\* All labels have been found; a job that is ready makes a call of any kind.
LabelsFound ==
    /\ outcome = "listed"
    /\ LabelsResolved
    /\ IF stage' = "ready"
       THEN \E k \in Kinds, S \in SUBSET Nodes : Begin(k, S)
       ELSE Rest

LabelsNotFound ==
    /\ outcome \in {"missing", "error"}
    /\ LabelsUnresolved
    /\ Rest

SessionInit ==
    /\ Init /\ kind = "jobs" /\ wanted = 1 /\ nodes = {}
    /\ JobInit

SessionNext ==
    \/ Resolve \/ Call \/ LabelsFound \/ LabelsNotFound
    \/ Drift /\ UNCHANGED vars

SessionSpec == SessionInit /\ [][SessionNext]_sessionVars

-----------------------------------------------------------------------------
(* Properties *)

\* The states of a project's team that the engine will move issues between.
Coherent ==
    /\ config.team \in teams[config.project]
    /\ \A u \in Uses : \E n \in StateNames :
           states[config.team][n] = config.states[u]

\* A job that becomes ready writes to the project and the team it was asked for, and
\* moves issues between states of that team: in what the last validation read, all
\* of it held at once, although it was resolved by earlier queries, from a
\* workspace that people were changing, or by hand.
RoutedAsAsked ==
    [][stage = "validate" /\ stage' = "labels" =>
           /\ Coherent
           /\ team # Absent => /\ slug[config.project] = AskedSlug
                               /\ key[config.team] = Upper[AskedKey]]_sessionVars
=============================================================================
