----------------------------- MODULE ApiClient -----------------------------
(***************************************************************************)
(* One call of the Linear or the GitHub client: paged listings, retries    *)
(* and mutations whose answer may be lost (ci_feedback/linear.py,          *)
(* ci_feedback/github.py).  The clients keep nothing between calls, so a   *)
(* behaviour is one call.                                                  *)
(*                                                                         *)
(* CiFeedback takes a listing for one atomic read and a mutation for at    *)
(* most one effect.  This module is where that comes from: a listing is    *)
(* read page by page while people add and remove nodes, every request may  *)
(* fail before or after the server acted on it.  Definitions used nowhere, *)
(* such as RetriesAlways, are mutated forms of the one that follows.       *)
(*                                                                         *)
(* Nodes (issues, labels, jobs) are numbered in the order the server lists *)
(* them.  A cursor is the last node of the page before it.                 *)
(***************************************************************************)
EXTENDS Integers, FiniteSets

CONSTANTS
    MaxNode,      \* bound: nodes the server ever holds
    PageSize,     \* 50 issues, 250 labels, 100 jobs or files
    PageLimit,    \* 100 pages, 20 for labels
    Retries,      \* attempts of a request that may be repeated
    MaxChanges    \* bound: changes by others during the call

ASSUME ApiAssumption ==
    /\ MaxNode \in Nat /\ MaxChanges \in Nat
    /\ PageSize \in Nat \ {0} /\ PageLimit \in Nat \ {0} /\ Retries \in Nat \ {0}

VARIABLES
    nodes,       \* the server: what it lists now
    kind,        \* which call this is
    wanted,      \* the label resolve_label_ids looks for
    cursor,      \* endCursor of the last page, 0 for None
    page,        \* pages read
    attempt,     \* attempt of the current request
    got,         \* the nodes in the list the call has gathered ...
    listed,      \* ... and the length of that list
    outcome,     \* how the call ended, or "pending"
    effects,     \* how often the server has applied this call's mutation
    \* what the properties compare a listing with
    throughout,  \* nodes the server has held during the whole call
    ever,        \* nodes it has held at some time during the call
    changes      \* changes by others so far

server == <<nodes, throughout, ever, changes>>
progress == <<cursor, page, attempt, got, listed>>
vars == <<server, progress, kind, wanted, outcome, effects>>

-----------------------------------------------------------------------------

Nodes == 1..MaxNode

\* Cursor listings of Linear, page-number listings of GitHub, mutations of Linear.
Kinds == {"issues", "labels", "jobs", "mutation"}

Outcomes == {"pending", "listed", "missing", "confirmed", "error"}

AttemptsOneMore(k) == IF k \in {"issues", "labels"} THEN Retries + 1 ELSE 1
RetriesAlways(k) == Retries

\* attempts = 3 if retryable else 1; the GitHub client does not retry at all.
Attempts(k) == IF k \in {"issues", "labels"} THEN Retries ELSE 1

Rank(n, S) == Cardinality({m \in S : m <= n})

\* P can be the page of S that follows the cursor: its first nodes, in order.
CursorPage(P, S, after) ==
    LET later == {n \in S : n > after}
    IN  /\ P \subseteq later
        /\ \A n \in P, m \in later \ P : n < m
        /\ IF Cardinality(later) <= PageSize THEN P = later ELSE Cardinality(P) = PageSize

HasNext(P, S, after) == P # {n \in S : n > after}

\* per_page=100&page=p
NumberedPage(p, S) ==
    {n \in S : (p - 1) * PageSize < Rank(n, S) /\ Rank(n, S) <= p * PageSize}

LastPageTooEarly(P) == Cardinality(P) <= PageSize

\* len(collection) < 100
LastPage(P) == Cardinality(P) < PageSize

\* endCursor of a page
Newest(c, P) == c \in P /\ \A m \in P : m <= c

LastPageOnly(P) ==
    /\ got' = P
    /\ listed' = Cardinality(P)
    /\ page' = page + 1
    /\ attempt' = 1

Gather(P) ==
    /\ got' = got \cup P
    /\ listed' = listed + Cardinality(P)
    /\ page' = page + 1
    /\ attempt' = 1

-----------------------------------------------------------------------------
(* Listings *)

LimitTruncates == "listed"

\* "Linear issue pagination exceeded the safety limit."
LimitOutcome == "error"

\* A page of list_project_issues.  The server answers by its schema: a pageInfo that
\* is missing would end the listing as the last page does.
ReadIssues ==
    /\ kind = "issues" /\ outcome = "pending"
    /\ \E P \in SUBSET nodes :
        /\ CursorPage(P, nodes, cursor)
        /\ Gather(P)
        /\ \/ /\ ~HasNext(P, nodes, cursor)
              /\ outcome' = "listed"
              /\ UNCHANGED cursor
           \/ /\ HasNext(P, nodes, cursor)
              /\ outcome' = IF page' = PageLimit THEN LimitOutcome ELSE "pending"
              /\ Newest(cursor', P)
    /\ UNCHANGED <<server, kind, wanted, effects>>

\* A page of resolve_label_ids: past the last page allowed the loop just ends.
ReadLabels ==
    /\ kind = "labels" /\ outcome = "pending"
    /\ \E P \in SUBSET nodes :
        /\ CursorPage(P, nodes, cursor)
        /\ Gather(P)
        /\ \/ /\ ~HasNext(P, nodes, cursor) \/ page' = PageLimit
              /\ outcome' = IF wanted \in got' THEN "listed" ELSE "missing"
              /\ UNCHANGED cursor
           \/ /\ HasNext(P, nodes, cursor) /\ page' # PageLimit
              /\ Newest(cursor', P)
              /\ UNCHANGED outcome
    /\ UNCHANGED <<server, kind, wanted, effects>>

\* A page of _list_paginated of the GitHub client.
ReadJobs ==
    /\ kind = "jobs" /\ outcome = "pending"
    /\ LET P == NumberedPage(page + 1, nodes)
       IN  /\ Gather(P)
           /\ outcome' = IF LastPage(P) THEN "listed"
                         ELSE IF page' = PageLimit THEN "error" ELSE "pending"
    /\ UNCHANGED <<server, cursor, kind, wanted, effects>>

-----------------------------------------------------------------------------
(* Mutations and failures *)

\* create_issue, update_issue or create_comment: applied and confirmed.
Mutate ==
    /\ kind = "mutation" /\ outcome = "pending"
    /\ effects' = effects + 1
    /\ outcome' = "confirmed"
    /\ UNCHANGED <<server, progress, kind, wanted>>

RestartsListing == 0

\* A repeated request asks for the same page again.
SameCursor == cursor

\* _http_transport: the connection fails, times out or answers with garbage.  The
\* server may have acted on the request.  It is sent again, or the call raises.
RequestFails ==
    /\ outcome = "pending"
    /\ \/ effects' = effects
       \/ kind = "mutation" /\ effects' = effects + 1
    /\ \/ /\ attempt < Attempts(kind)
          /\ attempt' = attempt + 1
          /\ cursor' = SameCursor
          /\ UNCHANGED outcome
       \/ /\ attempt = Attempts(kind)
          /\ outcome' = "error"
          /\ UNCHANGED <<attempt, cursor>>
    /\ UNCHANGED <<server, page, got, listed, kind, wanted>>

\* _graphql and the callers: GraphQL errors, a malformed or an unconfirming
\* payload.  Raised at once, whatever the server did.
ResponseRejected ==
    /\ outcome = "pending"
    /\ \/ effects' = effects
       \/ kind = "mutation" /\ effects' = effects + 1
    /\ outcome' = "error"
    /\ UNCHANGED <<server, progress, kind, wanted>>

-----------------------------------------------------------------------------
(* Others *)

\* People change the project or the labels: nodes appear at the end or go.
Change ==
    /\ kind \in {"issues", "labels"} /\ outcome = "pending"
    /\ changes < MaxChanges
    /\ changes' = changes + 1
    /\ \/ \E n \in Nodes : (\A m \in ever : m < n) /\ nodes' = nodes \cup {n}
       \/ \E n \in nodes : nodes' = nodes \ {n}
    /\ throughout' = throughout \cap nodes'
    /\ ever' = ever \cup nodes'
    /\ UNCHANGED <<progress, kind, wanted, outcome, effects>>

Client == ReadIssues \/ ReadLabels \/ ReadJobs \/ Mutate \/ RequestFails \/ ResponseRejected

Init ==
    /\ nodes \in SUBSET Nodes
    /\ kind \in Kinds
    /\ wanted \in Nodes
    /\ cursor = 0 /\ page = 0 /\ attempt = 1
    /\ got = {} /\ listed = 0
    /\ outcome = "pending"
    /\ effects = 0
    /\ throughout = nodes /\ ever = nodes
    /\ changes = 0

Next == Client \/ Change

Spec == Init /\ [][Next]_vars

-----------------------------------------------------------------------------
(* Properties *)

\* Type invariant.
TypeOK ==
    /\ nodes \in SUBSET Nodes
    /\ kind \in Kinds
    /\ wanted \in Nodes
    /\ cursor \in 0..MaxNode
    /\ page \in 0..PageLimit
    /\ attempt \in 1..Retries
    /\ got \in SUBSET Nodes
    /\ listed \in Nat
    /\ outcome \in Outcomes
    /\ effects \in Nat
    /\ throughout \in SUBSET Nodes
    /\ ever \in SUBSET Nodes
    /\ changes \in Nat

\* A project listing that is returned has every node that was there all the time and
\* none that was never there, whatever people changed and however many requests were
\* repeated; while nobody takes a node away it is an atomic read of the project at
\* its last page.  A cut-off listing is an error.
ListingComplete ==
    outcome = "listed" /\ kind = "issues" =>
        /\ throughout \subseteq got /\ got \subseteq ever
        /\ ever = nodes => got = nodes

\* A job listing is all jobs, also when the last page is full or empty.
JobsComplete == outcome = "listed" /\ kind = "jobs" => got = nodes

\* No node is listed twice, so an issue never looks like its own duplicate and a
\* failed job is one event.
ListedOnce == listed = Cardinality(got)

\* A mutation is applied at most once per call, and exactly once when confirmed
\* ("attempts = 3 if retryable else 1").
AppliedOnce ==
    /\ effects <= 1
    /\ outcome = "confirmed" => effects = 1

\* "Required Linear labels are missing; bootstrap them before enabling CI feedback"
\* is said of a label that was there during the whole call only if the listing was
\* cut off before it, at the page limit, where the code raises no error.
MissingMeansAbsent ==
    outcome = "missing" /\ wanted \in throughout =>
        page = PageLimit /\ \A n \in got : n < wanted
=============================================================================
