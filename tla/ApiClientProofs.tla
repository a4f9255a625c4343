-------------------------- MODULE ApiClientProofs --------------------------
(***************************************************************************)
(* Proofs about one call of the Linear or the GitHub client, for any page  *)
(* size and limit, any number of attempts and any changes by others, and   *)
(* about the calls and the routing of a whole feedback job.                *)
(***************************************************************************)
EXTENDS LinearSession, FiniteSetTheorems, TLAPS

-----------------------------------------------------------------------------
(* Mutations *)

\* A mutation that is still pending has had no effect and is at its first attempt,
\* which for a mutation is the last.
AtFirstAttempt ==
    /\ effects \in Nat
    /\ outcome = "pending" => effects = 0
    /\ kind = "mutation" => attempt = 1
    /\ AppliedOnce

LEMMA AtFirstAttemptAtStart == Init => AtFirstAttempt
BY DEF Init, AtFirstAttempt, AppliedOnce

LEMMA AtFirstAttemptStays == AtFirstAttempt /\ [Next]_vars => AtFirstAttempt'
<1> SUFFICES ASSUME AtFirstAttempt, [Next]_vars
             PROVE  AtFirstAttempt'
    OBVIOUS
<1> USE DEF AtFirstAttempt, AppliedOnce
<1>1. CASE ReadIssues
    BY <1>1 DEF ReadIssues, Gather, LimitOutcome
<1>2. CASE ReadLabels
    BY <1>2 DEF ReadLabels, Gather
<1>3. CASE ReadJobs
    BY <1>3 DEF ReadJobs, Gather
<1>4. CASE Mutate
    BY <1>4 DEF Mutate, progress
<1>5. CASE RequestFails
    BY <1>5 DEF RequestFails, Attempts
<1>6. CASE ResponseRejected
    BY <1>6 DEF ResponseRejected, progress
<1>7. CASE Change
    BY <1>7 DEF Change, progress
<1>8. CASE UNCHANGED vars
    BY <1>8 DEF vars, progress
<1> QED
    BY <1>1, <1>2, <1>3, <1>4, <1>5, <1>6, <1>7, <1>8 DEF Next, Client

\* A lost answer never makes the client apply a mutation again: _http_transport
\* repeats requests only for calls marked retryable, and no mutation is.
THEOREM MutationsAreAppliedOnce == Spec => []AppliedOnce
<1>1. AtFirstAttempt => AppliedOnce
    BY DEF AtFirstAttempt
<1> QED BY <1>1, AtFirstAttemptAtStart, AtFirstAttemptStays, PTL DEF Spec

-----------------------------------------------------------------------------
(* Listings *)

\* Up to the cursor nothing that was there all the time has been missed; while nobody
\* takes a node away, what has been gathered is what is there up to the cursor.
Gathered ==
    /\ nodes \in SUBSET Nodes /\ ever \in SUBSET Nodes /\ cursor \in Int
    /\ throughout \subseteq nodes /\ nodes \subseteq ever
    /\ kind = "issues" =>
          /\ got \subseteq ever /\ cursor \in ever \cup {0}
          /\ outcome = "pending" =>
                /\ \A n \in throughout : n <= cursor => n \in got
                /\ ever = nodes => got = {n \in nodes : n <= cursor}
    /\ ListingComplete

\* One page: what lies between the old and the new cursor is in it.
LEMMA ReadIssuesGathers == Gathered /\ ReadIssues => Gathered'
<1> SUFFICES ASSUME Gathered, ReadIssues
             PROVE  Gathered'
    OBVIOUS
<1> USE DEF Gathered, ListingComplete
<1>1. PICK P \in SUBSET nodes :
          /\ CursorPage(P, nodes, cursor)
          /\ Gather(P)
          /\ \/ /\ ~HasNext(P, nodes, cursor)
                /\ outcome' = "listed"
                /\ UNCHANGED cursor
             \/ /\ HasNext(P, nodes, cursor)
                /\ outcome' = IF page' = PageLimit THEN LimitOutcome ELSE "pending"
                /\ Newest(cursor', P)
    BY DEF ReadIssues
<1>2. /\ UNCHANGED <<nodes, throughout, ever, kind>>
      /\ kind = "issues" /\ outcome = "pending"
      /\ got' = got \cup P
    BY <1>1 DEF ReadIssues, server, Gather
<1>3. \A n \in nodes : n \in Int
    BY DEF Nodes
<1>4. CASE ~HasNext(P, nodes, cursor)
    <2>1. P = {n \in nodes : n > cursor} /\ outcome' = "listed" /\ cursor' = cursor
        BY <1>1, <1>4 DEF HasNext
    <2>2. \A n \in throughout : n \in got'
        BY <1>2, <1>3, <2>1
    <2>3. ever = nodes => got' = nodes
        BY <1>2, <1>3, <2>1
    <2> QED BY <1>2, <2>1, <2>2, <2>3
<1>5. CASE HasNext(P, nodes, cursor)
    <2>1. /\ \A n \in P, m \in {k \in nodes : k > cursor} \ P : n < m
          /\ cursor' \in P
          /\ outcome' \in {"pending", "error"}
        BY <1>1, <1>5 DEF CursorPage, Newest, LimitOutcome
    <2>2. ASSUME NEW n \in throughout, n <= cursor'
          PROVE  n \in got'
        <3>1. CASE n <= cursor
            BY <1>2, <3>1
        <3>2. CASE n > cursor /\ n \notin P
            BY <1>3, <2>1, <2>2, <3>2
        <3>3. CASE n > cursor /\ n \in P
            BY <1>2, <3>3
        <3> QED BY <1>3, <3>1, <3>2, <3>3
    <2>3. ASSUME ever = nodes
          PROVE  got' = {n \in nodes : n <= cursor'}
        <3>1. got = {n \in nodes : n <= cursor} /\ cursor' > cursor
            BY <1>1, <1>2, <1>3, <2>1, <2>3 DEF CursorPage
        <3>2. \A n \in nodes : n \in P <=> n > cursor /\ n <= cursor'
            BY <1>1, <1>3, <1>5, <2>1 DEF CursorPage, Newest
        <3> QED BY <1>2, <1>3, <2>1, <3>1, <3>2
    <2> QED BY <1>2, <1>3, <2>1, <2>2, <2>3
<1> QED BY <1>4, <1>5

LEMMA GatheredAtStart == Init => Gathered
<1> SUFFICES ASSUME Init
             PROVE  Gathered
    OBVIOUS
<1>1. \A n \in Nodes : n \in Int /\ ~(n <= 0)
    BY DEF Nodes
<1>2. nodes \in SUBSET Nodes /\ got = {} /\ cursor = 0 /\ outcome = "pending"
    BY DEF Init
<1>3. got = {n \in nodes : n <= cursor}
    BY <1>1, <1>2
<1> QED BY <1>1, <1>2, <1>3 DEF Init, Gathered, ListingComplete

LEMMA GatheredStays == Gathered /\ [Next]_vars => Gathered'
<1> SUFFICES ASSUME Gathered, [Next]_vars
             PROVE  Gathered'
    OBVIOUS
<1>1. CASE ReadIssues
    BY <1>1, ReadIssuesGathers
<1> USE DEF Gathered, ListingComplete
<1>2. CASE ReadLabels
    <2>1. cursor' = cursor \/ cursor' \in nodes
        BY <1>2 DEF ReadLabels, Newest
    <2>2. /\ cursor \in Int /\ nodes \in SUBSET Nodes
          /\ \A n \in Nodes : n \in Int
        BY DEF Nodes
    <2>3. cursor' \in Int
        BY <2>1, <2>2
    <2> QED BY <1>2, <2>3 DEF ReadLabels, server
<1>3. CASE ReadJobs
    BY <1>3 DEF ReadJobs, server
<1>4. CASE Mutate
    BY <1>4 DEF Mutate, progress, server
<1>5. CASE RequestFails
    BY <1>5 DEF RequestFails, SameCursor, server
<1>6. CASE ResponseRejected
    BY <1>6 DEF ResponseRejected, progress, server
<1>7. CASE Change
    <2>1. /\ nodes' \in SUBSET Nodes
          /\ throughout' = throughout \cap nodes' /\ ever' = ever \cup nodes'
          /\ UNCHANGED <<kind, got, cursor, outcome>> /\ outcome = "pending"
        BY <1>7 DEF Change, progress
    <2>2. ASSUME kind = "issues", ever' = nodes'
          PROVE  got' = {n \in nodes' : n <= cursor'}
        <3>1. PICK n \in Nodes : (\A m \in ever : m < n) /\ nodes' = nodes \cup {n}
            BY <1>7, <2>1, <2>2 DEF Change
        <3>2. n \in Int /\ 0 < n /\ \A m \in ever : m \in Int
            BY DEF Nodes
        <3>a. n \notin ever /\ n # cursor
            BY <2>2, <3>1, <3>2
        <3>b. ever = nodes
            BY <2>1, <2>2, <3>1, <3>a
        <3>c. cursor \in ever \cup {0} /\ cursor \in Int
            BY <2>2
        <3>3. ever = nodes /\ ~(n <= cursor)
            BY <3>1, <3>2, <3>b, <3>c
        <3> QED BY <2>1, <2>2, <3>1, <3>3
    <2> QED BY <2>1, <2>2
<1>8. CASE UNCHANGED vars
    BY <1>8 DEF vars, progress, server
<1> QED
    BY <1>1, <1>2, <1>3, <1>4, <1>5, <1>6, <1>7, <1>8 DEF Next, Client

\* A project listing that is returned has every issue that was in the project all
\* the time, however often requests were repeated and whatever people changed, and
\* is an atomic read while people only add issues: list_project_issues returns only
\* after the last page, and raises at its limit.
THEOREM ListingsAreComplete == Spec => []ListingComplete
<1>1. Gathered => ListingComplete
    BY DEF Gathered
<1> QED BY <1>1, GatheredAtStart, GatheredStays, PTL DEF Spec

-----------------------------------------------------------------------------
(* No node twice *)

\* Where the call stands: a cursor listing has gathered nothing past its cursor, a
\* numbered one only nodes of the pages it has read.
Positioned ==
    /\ nodes \in SUBSET Nodes /\ got \in SUBSET Nodes
    /\ cursor \in Int /\ page \in Nat
    /\ outcome = "pending" /\ kind \in {"issues", "labels"} => \A n \in got : n <= cursor
    /\ kind = "jobs" => \A n \in got : Rank(n, nodes) <= page * PageSize
    /\ ListedOnce

LEMMA NodesAreFinite == IsFiniteSet(Nodes)
<1>1. MaxNode \in Int
    BY ApiAssumption
<1> QED BY <1>1, FS_Interval DEF Nodes

\* A page disjoint from what was gathered keeps the length of the list the number of
\* its nodes.
LEMMA GatherCounts ==
    ASSUME NEW P \in SUBSET Nodes, got \in SUBSET Nodes, ListedOnce, Gather(P),
           \A n \in P : n \notin got
    PROVE  ListedOnce' /\ got' \in SUBSET Nodes
<1>1. IsFiniteSet(P) /\ IsFiniteSet(got)
    BY NodesAreFinite, FS_Subset
<1>2. Cardinality(got \cup P) = Cardinality(got) + Cardinality(P) - Cardinality(got \cap P)
    BY <1>1, FS_Union
<1>3. got \cap P = {} /\ Cardinality({}) = 0
    BY FS_EmptySet
<1>4. Cardinality(got) \in Nat /\ Cardinality(P) \in Nat
    BY <1>1, FS_CardinalityType
<1>5. got' = got \cup P /\ listed' = listed + Cardinality(P) /\ listed = Cardinality(got)
    BY DEF Gather, ListedOnce
<1>6. Cardinality(got \cup P) = Cardinality(got) + Cardinality(P)
    <2>1. Cardinality(got \cap P) = 0
        BY <1>3
    <2>2. \A a, b \in Nat : a + b - 0 = a + b
        OBVIOUS
    <2> QED BY <1>2, <1>4, <2>1, <2>2
<1>7. listed' = Cardinality(got')
    BY <1>5, <1>6
<1> QED BY <1>5, <1>7 DEF ListedOnce

\* One page of a cursor listing.
LEMMA CursorPagePositions ==
    ASSUME Positioned, kind \in {"issues", "labels"}, outcome = "pending",
           UNCHANGED <<nodes, kind>>,
           NEW P \in SUBSET nodes, CursorPage(P, nodes, cursor), Gather(P),
           \/ outcome' # "pending" /\ UNCHANGED cursor
           \/ Newest(cursor', P)
    PROVE  Positioned'
<1>1. /\ P \in SUBSET Nodes
      /\ \A n \in Nodes : n \in Int
      /\ \A n \in P : n > cursor
    BY DEF CursorPage, Positioned, Nodes
<1>2. \A n \in P : n \notin got
    BY <1>1 DEF Positioned
<1>3. ListedOnce' /\ got' \in SUBSET Nodes
    BY <1>1, <1>2, GatherCounts DEF Positioned
<1>4. got' = got \cup P /\ page' \in Nat
    BY DEF Gather, Positioned
<1>5. cursor' \in Int
    BY <1>1 DEF Newest, Positioned
<1>6. outcome' = "pending" => \A n \in got' : n <= cursor'
    <2> SUFFICES ASSUME Newest(cursor', P), NEW n \in got \cup P
                 PROVE  n <= cursor'
        BY <1>4
    <2>1. cursor' > cursor /\ \A q \in P : q <= cursor'
        BY <1>1 DEF Newest
    <2>2. n \in got => n <= cursor /\ n \in Int /\ cursor \in Int
        BY <1>1 DEF Positioned
    <2> QED BY <1>5, <2>1, <2>2
<1> QED BY <1>3, <1>4, <1>5, <1>6 DEF Positioned

\* One page of a numbered listing.
LEMMA ReadJobsPositions == Positioned /\ ReadJobs => Positioned'
<1> SUFFICES ASSUME Positioned, ReadJobs
             PROVE  Positioned'
    OBVIOUS
<1> DEFINE P == NumberedPage(page + 1, nodes)
<1>1. Gather(P) /\ kind = "jobs" /\ UNCHANGED <<nodes, cursor, kind>>
    BY DEF ReadJobs, server
<1>2. /\ P \in SUBSET Nodes
      /\ \A n \in P : /\ page * PageSize < Rank(n, nodes)
                      /\ Rank(n, nodes) <= (page + 1) * PageSize
    <2>1. page + 1 - 1 = page
        BY DEF Positioned
    <2> QED BY <2>1 DEF NumberedPage, Positioned
<1>3. \A n \in Nodes : Rank(n, nodes) \in Nat
    <2>1. IsFiniteSet(nodes)
        BY NodesAreFinite, FS_Subset DEF Positioned
    <2> QED BY <2>1, FS_Subset, FS_CardinalityType DEF Rank
<1>4. page * PageSize \in Nat /\ (page + 1) * PageSize = page * PageSize + PageSize
    BY ApiAssumption DEF Positioned
<1>5. \A n \in P : n \notin got
    BY <1>1, <1>2, <1>3, <1>4 DEF Positioned
<1>6. ListedOnce' /\ got' \in SUBSET Nodes
    BY <1>1, <1>2, <1>5, GatherCounts DEF Positioned
<1>7. got' = got \cup P /\ page' = page + 1
    BY <1>1 DEF Gather
<1>8. \A n \in got' : Rank(n, nodes') <= page' * PageSize
    <2> SUFFICES ASSUME NEW n \in got \cup P
                 PROVE  Rank(n, nodes) <= (page + 1) * PageSize
        BY <1>1, <1>7 DEF Rank
    <2>1. n \in got => Rank(n, nodes) <= page * PageSize /\ Rank(n, nodes) \in Nat
        BY <1>1, <1>3 DEF Positioned
    <2>2. page * PageSize <= (page + 1) * PageSize
        BY <1>4, ApiAssumption
    <2> HIDE DEF P
    <2> QED BY <1>2, <1>4, <2>1, <2>2, ApiAssumption
<1> HIDE DEF P
<1> QED BY <1>1, <1>6, <1>7, <1>8 DEF Positioned

LEMMA PositionedAtStart == Init => Positioned
BY FS_EmptySet DEF Init, Positioned, ListedOnce

LEMMA PositionedStays == Positioned /\ [Next]_vars => Positioned'
<1> SUFFICES ASSUME Positioned, [Next]_vars
             PROVE  Positioned'
    OBVIOUS
<1>1. CASE ReadIssues
    <2>1. /\ kind = "issues" /\ outcome = "pending"
          /\ UNCHANGED <<nodes, kind>>
          /\ \E P \in SUBSET nodes :
                 /\ CursorPage(P, nodes, cursor)
                 /\ Gather(P)
                 /\ \/ outcome' # "pending" /\ UNCHANGED cursor
                    \/ Newest(cursor', P)
        BY <1>1 DEF ReadIssues, server
    <2> QED BY <2>1, CursorPagePositions
<1>2. CASE ReadLabels
    <2>1. /\ kind = "labels" /\ outcome = "pending"
          /\ UNCHANGED <<nodes, kind>>
          /\ \E P \in SUBSET nodes :
                 /\ CursorPage(P, nodes, cursor)
                 /\ Gather(P)
                 /\ \/ outcome' # "pending" /\ UNCHANGED cursor
                    \/ Newest(cursor', P)
        BY <1>2 DEF ReadLabels, server
    <2> QED BY <2>1, CursorPagePositions
<1>3. CASE ReadJobs
    BY <1>3, ReadJobsPositions
<1> USE DEF Positioned, ListedOnce
<1>4. CASE Mutate
    BY <1>4 DEF Mutate, progress, server, Rank
<1>5. CASE RequestFails
    BY <1>5 DEF RequestFails, SameCursor, server, Rank
<1>6. CASE ResponseRejected
    BY <1>6 DEF ResponseRejected, progress, server, Rank
<1>7. CASE Change
    BY <1>7 DEF Change, progress
<1>8. CASE UNCHANGED vars
    BY <1>8 DEF vars, progress, server, Rank
<1> QED
    BY <1>1, <1>2, <1>3, <1>4, <1>5, <1>6, <1>7, <1>8 DEF Next, Client

\* No node is listed twice, whatever page is asked for again after a failure: an issue
\* never looks like its own duplicate, a failed job is one event.
THEOREM NothingIsListedTwice == Spec => []ListedOnce
<1>1. Positioned => ListedOnce
    BY DEF Positioned
<1> QED BY <1>1, PositionedAtStart, PositionedStays, PTL DEF Spec

-----------------------------------------------------------------------------
(* Types *)

\* A call that is still pending has pages left, so it never reads past the limit.
Paged == TypeOK /\ (outcome = "pending" => page < PageLimit)

LEMMA GatherTypes ==
    ASSUME Paged, outcome = "pending", NEW P \in SUBSET nodes, Gather(P)
    PROVE  /\ page' \in 0..PageLimit /\ page' = page + 1
           /\ attempt' \in 1..Retries /\ got' \in SUBSET Nodes /\ listed' \in Nat
<1>1. P \in SUBSET Nodes
    BY DEF Paged, TypeOK
<1>2. Cardinality(P) \in Nat
    BY <1>1, NodesAreFinite, FS_Subset, FS_CardinalityType
<1> QED BY <1>1, <1>2, ApiAssumption DEF Gather, Paged, TypeOK

LEMMA PagedAtStart == Init => Paged
BY ApiAssumption DEF Init, Paged, TypeOK, Kinds, Outcomes, Nodes

LEMMA PagedStays == Paged /\ [Next]_vars => Paged'
<1> SUFFICES ASSUME Paged, [Next]_vars
             PROVE  Paged'
    OBVIOUS
<1>1. CASE ReadIssues
    <2>1. PICK P \in SUBSET nodes :
              /\ Gather(P) /\ kind = "issues" /\ outcome = "pending"
              /\ \/ outcome' = "listed" /\ UNCHANGED cursor
                 \/ /\ outcome' = IF page' = PageLimit THEN LimitOutcome ELSE "pending"
                    /\ Newest(cursor', P)
        BY <1>1 DEF ReadIssues
    <2>2. UNCHANGED <<server, kind, wanted, effects>>
        BY <1>1 DEF ReadIssues
    <2>3. cursor' \in 0..MaxNode
        <3>1. (\A c \in P : c \in 0..MaxNode) /\ cursor \in 0..MaxNode
            BY DEF Paged, TypeOK, Nodes
        <3>2. cursor' = cursor \/ cursor' \in P
            BY <2>1 DEF Newest
        <3> QED BY <3>1, <3>2
    <2>4. outcome' \in Outcomes /\ (outcome' = "pending" => page' # PageLimit)
        BY <2>1 DEF LimitOutcome, Outcomes
    <2>5. /\ page' \in 0..PageLimit
          /\ attempt' \in 1..Retries /\ got' \in SUBSET Nodes /\ listed' \in Nat
        BY <2>1, GatherTypes
    <2>6. outcome' = "pending" => page' < PageLimit
        BY <2>4, <2>5, ApiAssumption
    <2> QED BY <2>2, <2>3, <2>4, <2>5, <2>6 DEF Paged, TypeOK, server
<1>2. CASE ReadLabels
    <2>1. PICK P \in SUBSET nodes :
              /\ Gather(P) /\ kind = "labels" /\ outcome = "pending"
              /\ \/ outcome' \in {"listed", "missing"} /\ UNCHANGED cursor
                 \/ page' # PageLimit /\ Newest(cursor', P) /\ UNCHANGED outcome
        BY <1>2 DEF ReadLabels
    <2>2. UNCHANGED <<server, kind, wanted, effects>>
        BY <1>2 DEF ReadLabels
    <2>3. cursor' \in 0..MaxNode
        <3>1. (\A c \in P : c \in 0..MaxNode) /\ cursor \in 0..MaxNode
            BY DEF Paged, TypeOK, Nodes
        <3>2. cursor' = cursor \/ cursor' \in P
            BY <2>1 DEF Newest
        <3> QED BY <3>1, <3>2
    <2>4. outcome' \in Outcomes /\ (outcome' = "pending" => page' # PageLimit)
        BY <2>1 DEF Outcomes
    <2>5. /\ page' \in 0..PageLimit
          /\ attempt' \in 1..Retries /\ got' \in SUBSET Nodes /\ listed' \in Nat
        BY <2>1, GatherTypes
    <2>6. outcome' = "pending" => page' < PageLimit
        BY <2>4, <2>5, ApiAssumption
    <2> QED BY <2>2, <2>3, <2>4, <2>5, <2>6 DEF Paged, TypeOK, server
<1>3. CASE ReadJobs
    <2>1. PICK P \in SUBSET nodes :
              /\ Gather(P) /\ outcome = "pending"
              /\ outcome' \in Outcomes /\ (outcome' = "pending" => page' # PageLimit)
        BY <1>3 DEF ReadJobs, NumberedPage, Outcomes
    <2>2. UNCHANGED <<server, cursor, kind, wanted, effects>>
        BY <1>3 DEF ReadJobs
    <2> QED BY <2>1, <2>2, GatherTypes, ApiAssumption DEF Paged, TypeOK, server
<1> USE DEF Paged, TypeOK
<1>4. CASE Mutate
    BY <1>4 DEF Mutate, progress, server, Outcomes
<1>5. CASE RequestFails
    <2>1. attempt' \in 1..Retries
        BY <1>5, ApiAssumption DEF RequestFails, Attempts
    <2>2. /\ effects' \in Nat /\ cursor' = cursor
          /\ outcome' = outcome \/ outcome' = "error"
        BY <1>5 DEF RequestFails, SameCursor
    <2> QED BY <1>5, <2>1, <2>2 DEF RequestFails, server, Outcomes
<1>6. CASE ResponseRejected
    BY <1>6 DEF ResponseRejected, progress, server, Outcomes
<1>7. CASE Change
    <2>1. /\ nodes' \in SUBSET Nodes /\ throughout' \in SUBSET Nodes
          /\ ever' \in SUBSET Nodes /\ changes' \in Nat
        BY <1>7 DEF Change
    <2> QED BY <1>7, <2>1 DEF Change, progress
<1>8. CASE UNCHANGED vars
    BY <1>8 DEF vars, progress, server
<1> QED
    BY <1>1, <1>2, <1>3, <1>4, <1>5, <1>6, <1>7, <1>8 DEF Next, Client

\* The client's state keeps its shape for any page size, limits and number of attempts:
\* no call reads more pages or sends a request more often than it may.
THEOREM ClientTypeCorrect == Spec => []TypeOK
<1>1. Paged => TypeOK
    BY DEF Paged
<1> QED BY <1>1, PagedAtStart, PagedStays, PTL DEF Spec

-----------------------------------------------------------------------------
(* Labels *)

\* A label listing has gathered what was there all the time up to its cursor, and
\* nothing beyond.
LabelsGathered ==
    /\ nodes \in SUBSET Nodes /\ got \in SUBSET Nodes /\ cursor \in Int
    /\ throughout \subseteq nodes
    /\ outcome = "pending" /\ kind = "labels" =>
          /\ \A n \in throughout : n <= cursor => n \in got
          /\ \A n \in got : n <= cursor
    /\ outcome = "missing" => kind = "labels"
    /\ MissingMeansAbsent

LEMMA ReadLabelsGathers == LabelsGathered /\ ReadLabels => LabelsGathered'
<1> SUFFICES ASSUME LabelsGathered, ReadLabels
             PROVE  LabelsGathered'
    OBVIOUS
<1>1. PICK P \in SUBSET nodes :
          /\ CursorPage(P, nodes, cursor)
          /\ Gather(P)
          /\ \/ /\ ~HasNext(P, nodes, cursor) \/ page' = PageLimit
                /\ outcome' = IF wanted \in got' THEN "listed" ELSE "missing"
                /\ UNCHANGED cursor
             \/ /\ HasNext(P, nodes, cursor) /\ page' # PageLimit
                /\ Newest(cursor', P)
                /\ UNCHANGED outcome
    BY DEF ReadLabels
<1>2. /\ UNCHANGED <<nodes, throughout, kind, wanted>>
      /\ kind = "labels" /\ outcome = "pending"
      /\ got' = got \cup P
    BY <1>1 DEF ReadLabels, server, Gather
<1>3. /\ \A n \in nodes : n \in Int
      /\ \A n \in got : n \in Int
      /\ cursor \in Int /\ throughout \subseteq nodes
      /\ \A n \in throughout : n <= cursor => n \in got
      /\ \A n \in got : n <= cursor
    BY <1>2 DEF LabelsGathered, Nodes
<1>4. /\ \A n \in P : n > cursor
      /\ \A n \in P, m \in {k \in nodes : k > cursor} \ P : n < m
    BY <1>1 DEF CursorPage
<1>5. got' \in SUBSET Nodes
    BY <1>2 DEF LabelsGathered
<1>6. CASE outcome' # "pending"
    <2>1. /\ cursor' = cursor
          /\ ~HasNext(P, nodes, cursor) \/ page' = PageLimit
          /\ outcome' = "missing" => wanted \notin got'
        BY <1>1, <1>2, <1>6
    <2>2. ASSUME outcome' = "missing", wanted \in throughout
          PROVE  page' = PageLimit /\ \A n \in got' : n < wanted
        <3>1. wanted \in nodes /\ wanted > cursor /\ wanted \notin P
            BY <1>2, <1>3, <2>1, <2>2
        <3>2. P # {n \in nodes : n > cursor}
            BY <3>1
        <3>3. page' = PageLimit
            BY <2>1, <3>2 DEF HasNext
        <3>4. \A n \in P : n < wanted
            BY <1>4, <3>1
        <3>5. \A n \in got : n < wanted
            BY <1>3, <3>1
        <3> QED BY <1>2, <3>3, <3>4, <3>5
    <2> QED BY <1>2, <1>5, <1>6, <2>1, <2>2 DEF LabelsGathered, MissingMeansAbsent
<1>7. CASE outcome' = "pending"
    <2>1. Newest(cursor', P)
        BY <1>1, <1>7
    <2>2. cursor' \in P /\ cursor' \in Int /\ cursor' > cursor /\ \A n \in P : n <= cursor'
        BY <1>3, <1>4, <2>1 DEF Newest
    <2>3. ASSUME NEW n \in throughout, n <= cursor'
          PROVE  n \in got'
        <3>1. CASE n <= cursor
            BY <1>2, <1>3, <3>1
        <3>2. CASE n > cursor /\ n \notin P
            BY <1>3, <1>4, <2>2, <2>3, <3>2
        <3>3. CASE n \in P
            BY <1>2, <3>3
        <3> QED BY <1>3, <3>1, <3>2, <3>3
    <2>4. \A n \in got' : n <= cursor'
        <3> SUFFICES ASSUME NEW n \in got'
                     PROVE  n <= cursor'
            OBVIOUS
        <3>1. CASE n \in P
            BY <2>2, <3>1
        <3>2. CASE n \in got
            <4>1. n \in Int /\ n <= cursor
                BY <1>3, <3>2
            <4> QED BY <1>3, <2>2, <4>1
        <3> QED BY <1>2, <3>1, <3>2
    <2> QED BY <1>2, <1>5, <1>7, <2>2, <2>3, <2>4 DEF LabelsGathered, MissingMeansAbsent
<1> QED BY <1>6, <1>7

LEMMA LabelsGatheredAtStart == Init => LabelsGathered
BY DEF Init, LabelsGathered, MissingMeansAbsent, Nodes

LEMMA LabelsGatheredStays == LabelsGathered /\ [Next]_vars => LabelsGathered'
<1> SUFFICES ASSUME LabelsGathered, [Next]_vars
             PROVE  LabelsGathered'
    OBVIOUS
<1>1. CASE ReadLabels
    BY <1>1, ReadLabelsGathers
<1> USE DEF LabelsGathered, MissingMeansAbsent
<1>2. CASE ReadIssues
    <2>1. PICK P \in SUBSET nodes :
              Gather(P) /\ (UNCHANGED cursor \/ Newest(cursor', P))
        BY <1>2 DEF ReadIssues
    <2>2. cursor' \in Int /\ got' \in SUBSET Nodes
        <3>1. (\A c \in P : c \in Int /\ c \in Nodes) /\ got \in SUBSET Nodes /\ cursor \in Int
            BY DEF Nodes
        <3>2. (cursor' = cursor \/ cursor' \in P) /\ got' = got \cup P
            BY <2>1 DEF Newest, Gather
        <3> QED BY <3>1, <3>2
    <2>3. kind' = "issues" /\ outcome' # "missing"
        BY <1>2 DEF ReadIssues, LimitOutcome
    <2>4. UNCHANGED <<nodes, throughout>>
        BY <1>2 DEF ReadIssues, server
    <2> QED BY <2>2, <2>3, <2>4
<1>3. CASE ReadJobs
    <2>1. PICK P \in SUBSET nodes : Gather(P)
        BY <1>3 DEF ReadJobs, NumberedPage
    <2>2. got' \in SUBSET Nodes
        BY <2>1 DEF Gather
    <2>3. kind' = "jobs" /\ outcome' # "missing"
        BY <1>3 DEF ReadJobs
    <2>4. UNCHANGED <<nodes, throughout, cursor>>
        BY <1>3 DEF ReadJobs, server
    <2> QED BY <2>2, <2>3, <2>4
<1>4. CASE Mutate
    BY <1>4 DEF Mutate, progress, server
<1>5. CASE RequestFails
    BY <1>5 DEF RequestFails, SameCursor, server
<1>6. CASE ResponseRejected
    BY <1>6 DEF ResponseRejected, progress, server
<1>7. CASE Change
    <2>1. /\ nodes' \in SUBSET Nodes /\ throughout' = throughout \cap nodes'
          /\ UNCHANGED <<kind, got, cursor, outcome, wanted>>
        BY <1>7 DEF Change, progress
    <2> QED BY <1>7, <2>1 DEF Change
<1>8. CASE UNCHANGED vars
    BY <1>8 DEF vars, progress, server
<1> QED
    BY <1>1, <1>2, <1>3, <1>4, <1>5, <1>6, <1>7, <1>8 DEF Next, Client

\* A label that was there during the whole listing is reported as missing only when the
\* listing was cut off at its page limit, which resolve_label_ids does silently.
THEOREM MissingLabelsAreAbsent == Spec => []MissingMeansAbsent
<1>1. LabelsGathered => MissingMeansAbsent
    BY DEF LabelsGathered
<1> QED BY <1>1, LabelsGatheredAtStart, LabelsGatheredStays, PTL DEF Spec

-----------------------------------------------------------------------------
(* Job listings *)

\* Nodes of a listing have different ranks, and the ranks leave no gap.
LEMMA RanksAreDense ==
    ASSUME NEW S \in SUBSET Nodes
    PROVE  /\ \A n \in S : Rank(n, S) \in 1..Cardinality(S)
           /\ \A r \in 1..Cardinality(S) : \E n \in S : Rank(n, S) = r
<1> DEFINE f == [n \in S |-> Rank(n, S)]
<1>1. IsFiniteSet(S) /\ Cardinality(S) \in Nat /\ \A n \in S : n \in Int
    <2>1. IsFiniteSet(S)
        BY NodesAreFinite, FS_Subset
    <2>2. \A n \in S : n \in Int
        BY DEF Nodes
    <2> QED BY <2>1, <2>2, FS_CardinalityType
<1>2. ASSUME NEW n \in S
      PROVE  Rank(n, S) \in 1..Cardinality(S)
    <2>1. n \in {m \in S : m <= n} /\ {m \in S : m <= n} \in SUBSET S
        BY <1>1
    <2>2. IsFiniteSet({m \in S : m <= n})
        BY <1>1, <2>1, FS_Subset
    <2>3. Rank(n, S) \in Nat /\ Rank(n, S) <= Cardinality(S)
        BY <1>1, <2>1, <2>2, FS_Subset, FS_CardinalityType DEF Rank
    <2>4. Rank(n, S) # 0
        BY <2>1, <2>2, FS_EmptySet DEF Rank
    <2> QED BY <1>1, <2>3, <2>4
<1>3. ASSUME NEW m \in S, NEW n \in S, m < n
      PROVE  Rank(m, S) # Rank(n, S)
    <2>1. /\ {k \in S : k <= m} \in SUBSET {k \in S : k <= n}
          /\ n \in {k \in S : k <= n} /\ n \notin {k \in S : k <= m}
        BY <1>1, <1>3
    <2>2. IsFiniteSet({k \in S : k <= n})
        BY <1>1, FS_Subset
    <2> QED BY <2>1, <2>2, FS_Subset DEF Rank
<1>4. f \in Injection(S, 1..Cardinality(S))
    <2>1. f \in [S -> 1..Cardinality(S)]
        BY <1>2
    <2>2. \A m, n \in S : f[m] = f[n] => m = n
        BY <1>1, <1>3
    <2> QED BY <2>1, <2>2 DEF Injection, IsInjective
<1>5. IsFiniteSet(1..Cardinality(S)) /\ Cardinality(1..Cardinality(S)) = Cardinality(S)
    BY <1>1, FS_Interval
<1>6. f \in Surjection(S, 1..Cardinality(S))
    BY <1>4, <1>5, FS_Injection
<1>7. \A r \in 1..Cardinality(S) : \E n \in S : f[n] = r
    BY <1>6 DEF Surjection
<1> QED BY <1>2, <1>7

\* Behind a page that is not full there is nothing.
LEMMA ShortPageIsLast ==
    ASSUME NEW S \in SUBSET Nodes, NEW p \in Nat, LastPage(NumberedPage(p + 1, S)),
           NEW n \in S
    PROVE  Rank(n, S) <= (p + 1) * PageSize
<1> DEFINE P == NumberedPage(p + 1, S)
           b == p * PageSize
           T == (b + 1)..(b + PageSize)
           g == [m \in P |-> Rank(m, S)]
<1>1. b \in Nat /\ PageSize \in Nat /\ (p + 1) * PageSize = b + PageSize /\ p + 1 - 1 = p
    BY ApiAssumption
<1>2. P = {m \in S : b < Rank(m, S) /\ Rank(m, S) <= b + PageSize}
    BY <1>1 DEF NumberedPage
<1>3. IsFiniteSet(P)
    BY <1>2, NodesAreFinite, FS_Subset
<1>4. Cardinality(S) \in Nat
    BY NodesAreFinite, FS_Subset, FS_CardinalityType
<1> SUFFICES ASSUME ~(Rank(n, S) <= b + PageSize)
             PROVE  FALSE
    BY <1>1
<1> HIDE DEF P, b
<1>5. b + PageSize < Cardinality(S)
    BY <1>1, <1>4, RanksAreDense
<1>6. g \in Surjection(P, T)
    <2>1. \A m \in P : Rank(m, S) \in T
        BY <1>1, <1>2, <1>4, RanksAreDense
    <2>2. \A r \in T : \E m \in P : Rank(m, S) = r
        BY <1>1, <1>2, <1>4, <1>5, RanksAreDense
    <2> QED BY <2>1, <2>2 DEF Surjection
<1>7. Cardinality(T) <= Cardinality(P)
    BY <1>3, <1>6, FS_Surjection
<1>8. Cardinality(T) = PageSize
    BY <1>1, FS_Interval, ApiAssumption
<1>9. Cardinality(P) < PageSize /\ Cardinality(P) \in Nat
    BY <1>3, FS_CardinalityType DEF LastPage, P
<1> QED BY <1>1, <1>7, <1>8, <1>9

\* A job listing has gathered exactly the pages it has read.
Numbered ==
    /\ nodes \in SUBSET Nodes /\ page \in Nat
    /\ outcome = "pending" /\ kind = "jobs" =>
           got = {n \in nodes : Rank(n, nodes) <= page * PageSize}
    /\ JobsComplete

LEMMA ReadJobsNumbers == Numbered /\ ReadJobs => Numbered'
<1> SUFFICES ASSUME Numbered, ReadJobs
             PROVE  Numbered'
    OBVIOUS
<1> DEFINE P == NumberedPage(page + 1, nodes)
           upTo(q) == {n \in nodes : Rank(n, nodes) <= q * PageSize}
<1>1. /\ kind' = "jobs" /\ nodes' = nodes /\ page' = page + 1 /\ page + 1 - 1 = page
      /\ got = upTo(page) /\ got' = got \cup P
      /\ outcome' = "listed" => LastPage(P)
    BY DEF ReadJobs, Gather, Numbered, server
<1>2. page' \in Nat /\ nodes \in SUBSET Nodes
    BY <1>1 DEF Numbered
<1>3. \A n \in nodes : Rank(n, nodes) \in Nat
    BY <1>2, RanksAreDense, NodesAreFinite, FS_Subset, FS_CardinalityType
<1>4. page * PageSize \in Nat /\ (page + 1) * PageSize = page * PageSize + PageSize
    BY ApiAssumption DEF Numbered
<1>5. /\ P \subseteq nodes
      /\ \A n \in nodes : n \in P <=> /\ page * PageSize < Rank(n, nodes)
                                      /\ Rank(n, nodes) <= (page + 1) * PageSize
    <2>1. page + 1 - 1 = page
        BY <1>1
    <2> QED BY <2>1 DEF NumberedPage, Numbered
<1> HIDE DEF P
<1>6. upTo(page) \cup P = upTo(page + 1)
    BY <1>3, <1>4, <1>5, ApiAssumption
<1>7. LastPage(P) => upTo(page + 1) = nodes
    BY <1>2, ShortPageIsLast DEF Numbered, P
<1>8. got' = upTo(page') /\ (outcome' = "listed" => got' = nodes)
    BY <1>1, <1>6, <1>7
<1>9. upTo(page') = {n \in nodes' : Rank(n, nodes') <= page' * PageSize}
    BY <1>1 DEF Rank
<1> QED BY <1>1, <1>2, <1>8, <1>9 DEF Numbered, JobsComplete

LEMMA NumberedAtStart == Init => Numbered
<1> SUFFICES ASSUME Init
             PROVE  Numbered
    OBVIOUS
<1>1. nodes \in SUBSET Nodes /\ page = 0 /\ got = {} /\ outcome = "pending"
    BY DEF Init
<1>2. \A n \in nodes : Rank(n, nodes) \in 1..Cardinality(nodes)
    BY <1>1, RanksAreDense
<1>3. Cardinality(nodes) \in Nat /\ 0 * PageSize = 0
    BY <1>1, NodesAreFinite, FS_Subset, FS_CardinalityType, ApiAssumption
<1>4. \A n \in nodes : ~(Rank(n, nodes) <= page * PageSize)
    BY <1>1, <1>2, <1>3
<1> QED BY <1>1, <1>4 DEF Numbered, JobsComplete

LEMMA NumberedStays == Numbered /\ [Next]_vars => Numbered'
<1> SUFFICES ASSUME Numbered, [Next]_vars
             PROVE  Numbered'
    OBVIOUS
<1>1. CASE ReadJobs
    BY <1>1, ReadJobsNumbers
<1> USE DEF Numbered, JobsComplete
<1>2. CASE ReadIssues
    BY <1>2 DEF ReadIssues, Gather, server
<1>3. CASE ReadLabels
    BY <1>3 DEF ReadLabels, Gather, server
<1>4. CASE Mutate
    BY <1>4 DEF Mutate, progress, server, Rank
<1>5. CASE RequestFails
    BY <1>5 DEF RequestFails, server, Rank
<1>6. CASE ResponseRejected
    BY <1>6 DEF ResponseRejected, progress, server, Rank
<1>7. CASE Change
    BY <1>7 DEF Change, progress
<1>8. CASE UNCHANGED vars
    BY <1>8 DEF vars, progress, server, Rank
<1> QED
    BY <1>1, <1>2, <1>3, <1>4, <1>5, <1>6, <1>7, <1>8 DEF Next, Client

\* list_workflow_jobs returns every job of the attempt, whether the last page is short,
\* empty or the attempt has none: a failed job cannot be missing from the events.
THEOREM JobListingsAreComplete == Spec => []JobsComplete
<1>1. Numbered => JobsComplete
    BY DEF Numbered
<1> QED BY <1>1, NumberedAtStart, NumberedStays, PTL DEF Spec

-----------------------------------------------------------------------------
(* The calls of a feedback job *)

\* What holds of the call a job is in.
CallInv == AtFirstAttempt /\ Gathered /\ Positioned /\ Paged /\ LabelsGathered /\ Numbered

LEMMA CallInvAtStart == Init => CallInv
BY AtFirstAttemptAtStart, GatheredAtStart, PositionedAtStart, PagedAtStart,
   LabelsGatheredAtStart, NumberedAtStart DEF CallInv

LEMMA CallInvStays == CallInv /\ [Next]_vars => CallInv'
BY AtFirstAttemptStays, GatheredStays, PositionedStays, PagedStays,
   LabelsGatheredStays, NumberedStays DEF CallInv

\* A new call starts where any call starts.
LEMMA CallInvAnew ==
    ASSUME CallInv, NEW k \in Kinds, NEW S \in SUBSET Nodes, Begin(k, S)
    PROVE  CallInv'
<1>1. /\ kind' = k /\ nodes' = S /\ throughout' = S /\ ever' = S /\ changes' = 0
      /\ cursor' = 0 /\ page' = 0 /\ attempt' = 1 /\ got' = {} /\ listed' = 0
      /\ outcome' = "pending" /\ effects' = 0
    BY DEF Begin
<1>2. wanted' \in Nodes
    <2>1. wanted \in 1..MaxNode /\ MaxNode \in Nat
        BY ApiAssumption DEF CallInv, Paged, TypeOK, Nodes
    <2> QED BY <2>1 DEF Begin, Nodes
<1>3. Cardinality({}) = 0 /\ 0 \in Int /\ 0 \in Nat
    BY FS_EmptySet
<1>4. AtFirstAttempt'
    BY <1>1 DEF AtFirstAttempt, AppliedOnce
<1>5. Gathered'
    <2>1. \A n \in S : n \in Int /\ ~(n <= 0)
        BY DEF Nodes
    <2>2. got' = {n \in nodes' : n <= cursor'}
        BY <1>1, <2>1
    <2> QED BY <1>1, <1>3, <2>1, <2>2 DEF Gathered, ListingComplete
<1>6. Positioned'
    BY <1>1, <1>3 DEF Positioned, ListedOnce
<1>7. Paged'
    BY <1>1, <1>2, ApiAssumption DEF Paged, TypeOK, Outcomes
<1>8. LabelsGathered'
    BY <1>1 DEF LabelsGathered, MissingMeansAbsent, Nodes
<1>9. Numbered'
    <2>1. \A n \in S : Rank(n, S) \in 1..Cardinality(S)
        BY RanksAreDense
    <2>2. Cardinality(S) \in Nat /\ 0 * PageSize = 0
        BY NodesAreFinite, FS_Subset, FS_CardinalityType, ApiAssumption
    <2>3. {n \in S : Rank(n, S) <= 0 * PageSize} = {}
        BY <2>1, <2>2
    <2>4. {n \in nodes' : Rank(n, nodes') <= page' * PageSize} = {}
        BY <1>1, <2>3 DEF Rank
    <2> QED BY <1>1, <2>4 DEF Numbered, JobsComplete
<1> QED BY <1>4, <1>5, <1>6, <1>7, <1>8, <1>9 DEF CallInv

\* A step of a job is a step of the call it is in, or starts another call.
LEMMA SessionSteps ==
    [SessionNext]_sessionVars =>
        [Next]_vars \/ \E k \in Kinds, S \in SUBSET Nodes : Begin(k, S)
<1> SUFFICES ASSUME [SessionNext]_sessionVars
             PROVE  [Next]_vars \/ \E k \in Kinds, S \in SUBSET Nodes : Begin(k, S)
    OBVIOUS
<1>1. "jobs" \in Kinds /\ "labels" \in Kinds /\ {} \in SUBSET Nodes
    BY DEF Kinds
<1>2. CASE Resolve
    BY <1>1, <1>2 DEF Resolve
<1>3. CASE Call
    BY <1>3 DEF Call, Next
<1>4. CASE LabelsFound
    BY <1>1, <1>4 DEF LabelsFound, Rest
<1>5. CASE LabelsNotFound
    BY <1>1, <1>5 DEF LabelsNotFound, Rest
<1>6. CASE Drift /\ UNCHANGED vars
    BY <1>6
<1>7. CASE UNCHANGED sessionVars
    BY <1>7 DEF sessionVars
<1> QED BY <1>2, <1>3, <1>4, <1>5, <1>6, <1>7 DEF SessionNext

\* Every call of a feedback job, one after the other, keeps what a single call promises:
\* whatever validation, listing or mutation the job is in, nothing of an earlier
\* call, its retries or its cursor shows in it.
THEOREM CallsOfAJobKeepTheirPromises ==
    SessionSpec => [](TypeOK /\ ListingComplete /\ JobsComplete /\ ListedOnce
                      /\ AppliedOnce /\ MissingMeansAbsent)
<1>1. SessionInit => CallInv
    BY CallInvAtStart DEF SessionInit
<1>2. CallInv /\ [SessionNext]_sessionVars => CallInv'
    BY SessionSteps, CallInvStays, CallInvAnew
<1>3. CallInv => TypeOK /\ ListingComplete /\ JobsComplete /\ ListedOnce
                 /\ AppliedOnce /\ MissingMeansAbsent
    BY DEF CallInv, AtFirstAttempt, Gathered, Positioned, Paged, LabelsGathered, Numbered
<1> QED BY <1>1, <1>2, <1>3, PTL DEF SessionSpec

-----------------------------------------------------------------------------
(* Routing *)

\* A configuration that the job has resolved itself says what it was asked for.
Asked ==
    stage \in {"load", "validate", "labels", "ready"} /\ team # Absent =>
        config.project_slug = AskedSlug /\ config.team_key = Upper[AskedKey]

LEMMA AskedStays == Asked /\ [SessionNext]_sessionVars => Asked'
<1> SUFFICES ASSUME Asked, [SessionNext]_sessionVars
             PROVE  Asked'
    OBVIOUS
<1> USE DEF Asked
<1>1. CASE Resolve
    <2>1. CASE FindProject
        BY <2>1 DEF FindProject, Raise
    <2>2. CASE FindTeam
        BY <2>2 DEF FindTeam, Raise, Resolved
    <2>3. CASE Load
        BY <2>3 DEF Load, Raise
    <2>4. CASE Validate
        BY <2>4 DEF Validate, Raise
    <2>5. CASE RequestRaises
        BY <2>5 DEF RequestRaises, Raise
    <2> QED BY <1>1, <2>1, <2>2, <2>3, <2>4, <2>5 DEF Resolve, Step
<1>2. CASE Call
    BY <1>2 DEF Call, routing, job
<1>3. CASE LabelsFound
    BY <1>3 DEF LabelsFound, LabelsResolved
<1>4. CASE LabelsNotFound
    BY <1>4 DEF LabelsNotFound, LabelsUnresolved, Raise
<1>5. CASE Drift /\ UNCHANGED vars
    BY <1>5 DEF Drift, job
<1>6. CASE UNCHANGED sessionVars
    BY <1>6 DEF sessionVars, routing, job
<1> QED BY <1>1, <1>2, <1>3, <1>4, <1>5, <1>6 DEF SessionNext

\* Whatever people rename, reassign or remove between the queries, and whatever file
\* somebody has written, a validation only succeeds on a project and a team that
\* are the ones asked for and belong together at that moment.
THEOREM JobsAreRoutedAsAsked == SessionSpec => RoutedAsAsked
<1> DEFINE Routed == stage = "validate" /\ stage' = "labels" =>
               /\ Coherent
               /\ team # Absent => /\ slug[config.project] = AskedSlug
                                   /\ key[config.team] = Upper[AskedKey]
<1>1. SessionInit => Asked
    BY DEF SessionInit, JobInit, Asked
<1>2. Asked /\ [SessionNext]_sessionVars => [Routed]_sessionVars
    <2> SUFFICES ASSUME Asked, SessionNext, stage = "validate", stage' = "labels"
                 PROVE  /\ Coherent
                        /\ team # Absent => /\ slug[config.project] = AskedSlug
                                            /\ key[config.team] = Upper[AskedKey]
        OBVIOUS
    <2>1. Usable(config)
        <3>1. CASE Resolve
            BY <3>1 DEF Resolve, Step, FindProject, FindTeam, Load, Validate,
                        RequestRaises, Raise
        <3>2. CASE Call
            BY <3>2 DEF Call
        <3>3. CASE LabelsFound \/ LabelsNotFound
            BY <3>3 DEF LabelsFound, LabelsNotFound, LabelsResolved, LabelsUnresolved
        <3>4. CASE Drift /\ UNCHANGED vars
            BY <3>4 DEF Drift, job
        <3> QED BY <3>1, <3>2, <3>3, <3>4 DEF SessionNext
    <2> QED BY <2>1 DEF Asked, Usable, Coherent
<1> QED BY <1>1, <1>2, AskedStays, PTL DEF SessionSpec, RoutedAsAsked
=============================================================================
