------------------------ MODULE ThreatRegisterProofs ------------------------
(***************************************************************************)
(* What holds of the threat model for any scanners, findings, places, runs *)
(* and edits.                                                              *)
(***************************************************************************)
EXTENDS ThreatRegister, WellFoundedInduction, TLAPS

-----------------------------------------------------------------------------
(* Names *)

LEMMA HasGreatest ==
    ASSUME NEW n \in Nat, NEW S, S \subseteq 0..n, S # {}
    PROVE  \E m \in S : \A k \in S : k <= m
<1> DEFINE T == {n - k : k \in S}
           R == OpToRel(<, Nat)
<1>1. T \subseteq Nat /\ T # {}
    <2>1. \A k \in S : n - k \in Nat
        OBVIOUS
    <2> QED BY <2>1
<1>2. IsWellFoundedOn(R, Nat)
    BY NatLessThanWellFounded
<1>3. PICK x \in T : \A y \in T : ~ (y < x)
    <2> HIDE DEF R, T
    <2>1. PICK x \in T : \A y \in T : <<y, x>> \notin R
        BY <1>1, <1>2, WFMin
    <2>2. \A y \in T : y < x => <<y, x>> \in R
        BY <1>1 DEF R, OpToRel
    <2> QED BY <2>1, <2>2
<1>4. PICK m \in S : x = n - m
    OBVIOUS
<1>5. ASSUME NEW k \in S PROVE k <= m
    <2>1. n - k \in T /\ ~ (n - k < n - m)
        BY <1>3, <1>4
    <2> QED BY <2>1
<1> QED BY <1>5

\* Of the findings with one id one is the last, so that the register knows which remains.
LEMMA OneRemains ==
    ASSUME NEW V \in SUBSET Vulnerabilities, NEW place \in Placements(V),
           NEW id \in Reported(place)
    PROVE  LET m == Remaining(place, id) IN
           m \in Named(place, id) /\ \A w \in Named(place, id) \ {m} : Before(w, m)
<1> DEFINE N == Named(place, id)
<1>1. DOMAIN place = V /\ N \subseteq V /\ N # {} /\ \A v \in N : Id(v, place[v]) = id
    BY DEF Placements, Reported, Named
<1>2. \A v \in N : Rank[v] \in 0..5 /\ Part[v] \in 0..LastPart
    BY <1>1, RegisterAssumption
<1> HIDE DEF N
<1>3. PICK k \in {Rank[v] : v \in N} : \A v \in N : Rank[v] <= k
    <2> DEFINE K == {Rank[v] : v \in N}
    <2>1. K \subseteq 0..5 /\ K # {} /\ \A v \in N : Rank[v] \in K
        BY <1>1, <1>2
    <2> HIDE DEF K
    <2>2. \E k \in K : \A i \in K : i <= k
        BY <2>1, HasGreatest
    <2> QED BY <2>1, <2>2 DEF K
<1> DEFINE L == {v \in N : Rank[v] = k}
<1>4. PICK p \in {Part[v] : v \in L} : \A v \in L : Part[v] <= p
    <2> DEFINE P == {Part[v] : v \in L}
    <2>1. P \subseteq 0..LastPart /\ P # {} /\ \A v \in L : Part[v] \in P
        BY <1>2, <1>3
    <2> HIDE DEF P
    <2>2. \E p \in P : \A i \in P : i <= p
        BY <2>1, HasGreatest, RegisterAssumption
    <2> QED BY <2>1, <2>2 DEF P
<1>5. PICK m \in L : Part[m] = p
    OBVIOUS
<1>6. ASSUME NEW w \in N \ {m} PROVE Before(w, m)
    <2>1. /\ Rank[w] \in 0..5 /\ Rank[w] <= Rank[m]
          /\ Part[w] \in 0..LastPart /\ Part[m] \in 0..LastPart
          /\ Rank[w] = Rank[m] => Part[w] <= Part[m]
        BY <1>2, <1>3, <1>4, <1>5
    <2>2. Part[w] # Part[m]
        <3>1. SUFFICES ASSUME Part[w] = Part[m] PROVE FALSE
            OBVIOUS
        <3>2. w \in V /\ m \in V /\ Id(w, place[w]) = Id(m, place[m])
            BY <1>1
        <3>3. Tool[w] = Tool[m]
            BY <3>2 DEF Id
        <3>4. place[w] # place[m]
            BY <3>1, <3>2, <3>3 DEF Placements
        <3>5. Tool[w] \in NamedByRule
            BY <3>2, <3>3, <3>4 DEF Id
        <3>6. Rule[w] = Rule[m]
            BY <3>2, <3>3, <3>5 DEF Id, NamedByRule, NamedByPlace
        <3> QED BY <3>2, <3>3, <3>5, <3>6, RegisterAssumption
    <2>3. Rank[m] \in 0..5
        BY <1>2
    <2> QED BY <2>1, <2>2, <2>3, RegisterAssumption DEF Before
<1>7. \E v \in N : \A w \in N \ {v} : Before(w, v)
    BY <1>6
<1> QED BY <1>7 DEF Remaining, N

LEMMA ReportedFacts ==
    ASSUME NEW V \in SUBSET Vulnerabilities, NEW place \in Placements(V)
    PROVE  /\ DOMAIN place = V /\ Reported(place) \subseteq Ids
           /\ \A id \in Reported(place) :
                 Remaining(place, id) \in V /\ Id(Remaining(place, id), place[Remaining(place, id)]) = id
<1>1. DOMAIN place = V /\ \A v \in V : place[v] \in Places
    BY DEF Placements
<1>2. Reported(place) \subseteq Ids
    BY <1>1 DEF Reported, Ids
<1> QED BY <1>1, <1>2, OneRemains DEF Named

-----------------------------------------------------------------------------
(* Models *)

LEMMA NoModelIsEmpty == ~IsModel(NoModel)
BY DEF IsModel, NoModel

LEMMA BaselineIsModel ==
    /\ IsModel(BaselineModel) /\ DOMAIN BaselineModel = {Baseline}
    /\ BaselineModel[Baseline].status = "modeled"
BY DEF IsModel, BaselineModel, Threats, Statuses, Range

\* What people accepted is in the record of what they judged.
Personal(m) ==
    \A id \in DOMAIN m : m[id].status = "accepted" => <<id, m[id].about>> \in judged

LEMMA UpdatedFacts ==
    ASSUME NEW m, IsModel(m),
           NEW V \in SUBSET Vulnerabilities, NEW place \in Placements(V)
    PROVE  /\ IsModel(Updated(m, place))
           /\ DOMAIN m \subseteq DOMAIN Updated(m, place)
           /\ Personal(m) => Personal(Updated(m, place))
           /\ \A id \in Reported(place) : Updated(m, place)[id] = Observed(Remaining(place, id))
<1> DEFINE u == Updated(m, place)
<1>1. /\ DOMAIN u = DOMAIN m \cup Reported(place)
      /\ \A id \in DOMAIN u : u[id] =
             IF id \in Reported(place) THEN Observed(Remaining(place, id)) ELSE m[id]
    BY DEF Updated
<1>2. \A id \in Reported(place) :
          Observed(Remaining(place, id)) \in Threats
          /\ Observed(Remaining(place, id)).status = "observed"
    BY ReportedFacts DEF Observed, Threats, Statuses
<1> HIDE DEF u
<1>3. IsModel(u)
    BY <1>1, <1>2, ReportedFacts DEF IsModel, Range
<1>4. Personal(m) => Personal(u)
    BY <1>1, <1>2 DEF Personal
<1> QED BY <1>1, <1>3, <1>4 DEF u

-----------------------------------------------------------------------------
(* The invariant *)

Shaped ==
    /\ DOMAIN before = Runs /\ DOMAIN report = Runs
    /\ DOMAIN artifact = Runs /\ DOMAIN based = Runs

\* All models have been read by people as they meant it.
Meant ==
    /\ Personal(repo)
    /\ \A r \in Runs : Personal(before[r]) /\ Personal(artifact[r])

\* What was reported has places.
Placed ==
    \A r \in Runs : pc[r] = "updating" => report[r] \in Placements(DOMAIN report[r])

\* A run that has the model of the last edit has all its threats.
Begun ==
    \A r \in Runs :
        pc[r] # "idle" /\ based[r] = edits /\ repo # NoModel => DOMAIN repo \subseteq DOMAIN before[r]

\* A run leaves no threat of its model out.
Kept ==
    \A r \in Runs :
        artifact[r] # NoModel => pc[r] = "over" /\ DOMAIN before[r] \subseteq DOMAIN artifact[r]

RegisterInv == TypeOK /\ Shaped /\ Meant /\ Placed /\ Begun /\ Kept /\ EverythingDescribed

\* What the action property asks of a step.
Remembers == repo # NoModel => DOMAIN repo \ DOMAIN repo' \subseteq dropped'

LEMMA InitRegisterInv == Init => RegisterInv
<1> SUFFICES ASSUME Init PROVE RegisterInv
    OBVIOUS
<1> USE RegisterAssumption, BaselineIsModel DEF Init
<1>1. DOMAIN NoModel = {} /\ DOMAIN <<>> = {}
    BY DEF NoModel
<1>2. TypeOK
    BY <1>1 DEF TypeOK
<1>3. Shaped /\ Placed /\ Begun /\ Kept /\ EverythingDescribed
    BY <1>1 DEF Shaped, Placed, Begun, Kept, EverythingDescribed
<1>4. Meant
    <2>1. Personal(BaselineModel) /\ Personal(NoModel)
        BY <1>1 DEF Personal
    <2> QED BY <2>1 DEF Meant
<1> QED BY <1>2, <1>3, <1>4 DEF RegisterInv

\* A run starts from the model that is there.
LEMMA PrepareKeeps ==
    ASSUME RegisterInv, NEW r \in Runs, Prepare(r) PROVE RegisterInv' /\ Remembers
<1> USE RegisterAssumption, BaselineIsModel, NoModelIsEmpty DEF RegisterInv, Prepare, repoVars
<1>1. /\ IsModel(Loaded(repo)) /\ Personal(Loaded(repo))
      /\ repo # NoModel => Loaded(repo) = repo
    BY DEF Loaded, TypeOK, Meant, Personal
<1>2. TypeOK' /\ Shaped'
    BY <1>1 DEF TypeOK, Shaped
<1>3. Meant'
    BY <1>1 DEF Meant, Shaped, Personal
<1>4. Placed' /\ Begun' /\ Kept' /\ EverythingDescribed'
    BY <1>1 DEF Placed, Begun, Kept, EverythingDescribed, Shaped, TypeOK
<1>5. Remembers
    BY DEF Remembers
<1> QED BY <1>2, <1>3, <1>4, <1>5

LEMMA NormalizeKeeps ==
    ASSUME RegisterInv, NEW r \in Runs, Normalize(r) PROVE RegisterInv' /\ Remembers
<1> USE RegisterAssumption DEF RegisterInv, Normalize, repoVars
<1>1. PICK V \in SUBSET Vulnerabilities :
          \E place \in Placements(V) : report' = [report EXCEPT ![r] = place]
    OBVIOUS
<1>2. PICK place \in Placements(V) : report' = [report EXCEPT ![r] = place]
    BY <1>1
<1>3. DOMAIN place = V
    BY ReportedFacts
<1>4. TypeOK' /\ Shaped'
    BY <1>2, <1>3 DEF TypeOK, Shaped
<1>5. Meant'
    BY DEF Meant, Personal
<1>6. Placed'
    BY <1>2, <1>3 DEF Placed, Shaped, TypeOK
<1>7. Begun' /\ Kept' /\ EverythingDescribed'
    BY <1>2 DEF Begun, Kept, EverythingDescribed, Shaped, TypeOK
<1>8. Remembers
    BY DEF Remembers
<1> QED BY <1>4, <1>5, <1>6, <1>7, <1>8

\* Every finding is there, or one of its name that is as mild.
LEMMA UpdateDescribes ==
    ASSUME NEW m, IsModel(m), NEW V \in SUBSET Vulnerabilities, NEW place \in Placements(V),
           NEW v \in V
    PROVE  LET id == Id(v, place[v]) IN
           \/ Updated(m, place)[id] = Observed(v)
           \/ \E w \in V :
                 /\ Tool[w] = Tool[v] /\ Rule[w] = Rule[v] /\ Part[w] # Part[v]
                 /\ Rank[v] <= Rank[w] /\ Updated(m, place)[id] = Observed(w)
<1> DEFINE id == Id(v, place[v])
           w == Remaining(place, id)
<1>1. DOMAIN place = V /\ id \in Reported(place) /\ v \in Named(place, id)
    BY DEF Placements, Reported, Named
<1>2. Updated(m, place)[id] = Observed(w)
    BY <1>1, UpdatedFacts
<1>3. w \in V /\ Id(w, place[w]) = id /\ (w = v \/ Before(v, w))
    BY <1>1, OneRemains DEF Named
<1> HIDE DEF w
<1>4. CASE w # v
    <2>1. Tool[w] = Tool[v]
        BY <1>3 DEF Id
    <2>2. Rule[w] = Rule[v] /\ Part[w] # Part[v]
        <3>1. CASE Tool[v] \in NamedByRule
            <4>1. Rule[w] = Rule[v]
                BY <1>3, <2>1, <3>1 DEF Id, NamedByRule, NamedByPlace
            <4> QED BY <1>3, <1>4, <2>1, <3>1, <4>1, RegisterAssumption
        <3>2. CASE Tool[v] \notin NamedByRule
            <4>1. place[w] = place[v]
                BY <1>3, <2>1, <3>2 DEF Id
            <4>2. Part[w] # Part[v]
                BY <1>3, <1>4, <2>1, <4>1 DEF Placements
            <4>3. Tool[v] \notin NamedByPlace
                BY <1>3, <2>1, <4>2, RegisterAssumption
            <4> QED BY <1>3, <2>1, <4>2, <4>3 DEF Id
        <3> QED BY <3>1, <3>2
    <2>3. Rank[v] <= Rank[w]
        BY <1>3, <1>4, RegisterAssumption DEF Before
    <2> QED BY <1>2, <1>3, <2>1, <2>2, <2>3
<1> QED BY <1>2, <1>4

LEMMA UpdateKeeps ==
    ASSUME RegisterInv, NEW r \in Runs, Update(r) PROVE RegisterInv' /\ Remembers
<1> USE RegisterAssumption DEF RegisterInv, Update, repoVars
<1> DEFINE u == Updated(before[r], report[r])
<1>1. /\ DOMAIN report[r] \in SUBSET Vulnerabilities
      /\ report[r] \in Placements(DOMAIN report[r]) /\ IsModel(before[r])
    BY DEF TypeOK, Placed
<1>2. /\ IsModel(u) /\ DOMAIN before[r] \subseteq DOMAIN u /\ Personal(u)
    BY <1>1, UpdatedFacts DEF Meant
<1>3. \A v \in DOMAIN report[r] :
          LET id == Id(v, report[r][v]) IN
          \/ u[id] = Observed(v)
          \/ \E w \in DOMAIN report[r] :
                /\ Tool[w] = Tool[v] /\ Rule[w] = Rule[v] /\ Part[w] # Part[v]
                /\ Rank[v] <= Rank[w] /\ u[id] = Observed(w)
    BY <1>1, UpdateDescribes
<1>4. artifact' = [artifact EXCEPT ![r] = u]
    OBVIOUS
<1> HIDE DEF u
<1>5. TypeOK' /\ Shaped'
    BY <1>2, <1>4 DEF TypeOK, Shaped
<1>6. Meant'
    BY <1>2, <1>4 DEF Meant, Personal, Shaped
<1>7. Placed' /\ Begun' /\ Kept'
    BY <1>2, <1>4 DEF Placed, Begun, Kept, Shaped, TypeOK
<1>8. EverythingDescribed'
    BY <1>3, <1>4 DEF EverythingDescribed, Shaped, TypeOK
<1>9. Remembers
    BY DEF Remembers
<1> QED BY <1>5, <1>6, <1>7, <1>8, <1>9

\* Whatever is lost was there since the run began, or is dropped.
LEMMA TakeOverKeeps ==
    ASSUME RegisterInv, NEW r \in Runs, TakeOver(r) PROVE RegisterInv' /\ Remembers
<1> USE RegisterAssumption DEF RegisterInv, TakeOver, runVars
<1>1. IsModel(artifact[r]) /\ Baseline \in DOMAIN artifact[r]
    BY DEF TypeOK, IsModel
<1>2. edits' = edits + 1 /\ edits \in Nat /\ \A s \in Runs : based[s] <= edits /\ based[s] \in Nat
    BY DEF TypeOK
<1>3. TypeOK'
    <2>1. DOMAIN repo \ DOMAIN artifact[r] \subseteq Ids \/ repo = NoModel
        BY <1>1 DEF TypeOK, IsModel
    <2> QED BY <1>1, <1>2, <2>1 DEF TypeOK
<1>4. Shaped' /\ Placed' /\ Kept' /\ EverythingDescribed'
    BY DEF Shaped, Placed, Kept, EverythingDescribed
<1>5. Begun'
    BY <1>2 DEF Begun
<1>6. Meant'
    BY DEF Meant, Personal
<1>7. Remembers
    <2>1. CASE repo # NoModel /\ based[r] = edits
        <3>1. DOMAIN repo \subseteq DOMAIN artifact[r]
            BY <2>1 DEF Begun, Kept
        <3> QED BY <2>1, <3>1 DEF Remembers
    <2>2. CASE repo = NoModel \/ based[r] # edits
        BY <2>2 DEF Remembers
    <2> QED BY <2>1, <2>2
<1> QED BY <1>3, <1>4, <1>5, <1>6, <1>7

LEMMA JudgeKeeps ==
    ASSUME RegisterInv, NEW id \in DOMAIN repo, Judge(id) PROVE RegisterInv' /\ Remembers
<1> USE RegisterAssumption DEF RegisterInv, Judge, runVars
<1>1. IsModel(repo) /\ repo[id] \in Threats
    BY DEF TypeOK, IsModel, Range
<1>2. /\ DOMAIN repo' = DOMAIN repo
      /\ \A i \in DOMAIN repo : i # id => repo'[i] = repo[i]
      /\ repo'[id] = [repo[id] EXCEPT !.status = "accepted"]
    OBVIOUS
<1>3. repo'[id] \in Threats /\ repo'[id].about = repo[id].about
    BY <1>1, <1>2 DEF Threats, Statuses
<1>4. edits' = edits + 1 /\ edits \in Nat /\ \A s \in Runs : based[s] <= edits /\ based[s] \in Nat
    BY DEF TypeOK
<1>5. IsModel(repo')
    BY <1>1, <1>2, <1>3 DEF IsModel, Range
<1>6. TypeOK'
    <2>1. edits' \in 0..MaxEdits /\ \A s \in Runs : based[s] \in 0..edits'
        BY <1>4 DEF TypeOK
    <2> QED BY <1>5, <2>1 DEF TypeOK
<1>7. Shaped' /\ Placed' /\ Kept' /\ EverythingDescribed'
    BY DEF Shaped, Placed, Kept, EverythingDescribed
<1>8. Begun'
    BY <1>4 DEF Begun
<1>9. Meant'
    BY <1>2, <1>3 DEF Meant, Personal
<1>10. Remembers
    BY <1>2 DEF Remembers
<1> QED BY <1>6, <1>7, <1>8, <1>9, <1>10

LEMMA NextRegisterInv ==
    ASSUME RegisterInv, [Next]_vars PROVE RegisterInv' /\ [Remembers]_repo
<1>1. CASE Next
    BY <1>1, PrepareKeeps, NormalizeKeeps, UpdateKeeps, TakeOverKeeps, JudgeKeeps DEF Next
<1>2. CASE UNCHANGED vars
    BY <1>2 DEF vars, repoVars, runVars, RegisterInv, TypeOK, Shaped, Meant, Personal, Placed,
        Begun, Kept, EverythingDescribed
<1> QED BY <1>1, <1>2

LEMMA RegisterInductive == Spec => []RegisterInv
<1>1. RegisterInv /\ [Next]_vars => RegisterInv'
    BY NextRegisterInv
<1> QED BY InitRegisterInv, <1>1, PTL DEF Spec

-----------------------------------------------------------------------------
(* Theorems *)

\* Every model that is loaded, written or committed has threats of the right form, although
\* findings are written over others by their ids.
THEOREM RegisterTypeCorrect == Spec => []TypeOK
<1>1. RegisterInv => TypeOK
    BY DEF RegisterInv
<1> QED BY RegisterInductive, <1>1, PTL

\* finding_to_threat sets the status again: an acceptance never passes to another
\* vulnerability that came to have the same id.
THEOREM AcceptancesArePersonal == Spec => []AcceptanceIsPersonal
<1>1. RegisterInv => AcceptanceIsPersonal
    BY DEF RegisterInv, Meant, Personal, AcceptanceIsPersonal, Models
<1> QED BY RegisterInductive, <1>1, PTL

\* threats_by_id: of what the scanners report nothing is left out of the model, but for a
\* finding that shares its name with another part's.
THEOREM ReportsAreDescribed == Spec => []EverythingDescribed
<1>1. RegisterInv => EverythingDescribed
    BY DEF RegisterInv
<1> QED BY RegisterInductive, <1>1, PTL

\* update only adds threats: one that is no longer found stays, unless somebody takes
\* over the model of a run that began before the last change.
THEOREM ThreatsAreKept == Spec => NothingForgotten
<1>1. RegisterInv /\ [Next]_vars => [repo # NoModel => DOMAIN repo \ DOMAIN repo' \subseteq dropped']_repo
    BY NextRegisterInv DEF Remembers
<1> QED BY RegisterInductive, <1>1, PTL DEF Spec, NothingForgotten
=============================================================================
