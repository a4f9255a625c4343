---------------------------- MODULE DefectLedger ----------------------------
(***************************************************************************)
(* What the CI feedback engine promises to whoever reads the project's     *)
(* defects, without runs, issues, listings, deliveries or crashes: one     *)
(* ledger line per fingerprint.  A line opens with the first failure, each *)
(* further failure is counted when its key is not among the remembered     *)
(* ones, at most Window keys are remembered, and one is forgotten only     *)
(* when the window is full.  A recovery closes an open line; the next new  *)
(* failure reopens it with its count intact.                               *)
(***************************************************************************)
EXTENDS Integers, FiniteSets

CONSTANTS Fingerprints, Keys, Window

VARIABLES status, count, seen

ledger == <<status, count, seen>>

Init ==
    /\ status = [f \in Fingerprints |-> "absent"]
    /\ count = [f \in Fingerprints |-> 0]
    /\ seen = [f \in Fingerprints |-> {}]

\* The keys that may be forgotten to make room for one more.
Forgettable(f) ==
    IF Cardinality(seen[f]) < Window THEN {{}} ELSE {{k} : k \in seen[f]}

Report(f) ==
    \E key \in Keys \ seen[f] : \E gone \in Forgettable(f) :
        /\ status' = [status EXCEPT ![f] = "open"]
        /\ count' = [count EXCEPT ![f] = @ + 1]
        /\ seen' = [seen EXCEPT ![f] = (@ \ gone) \cup {key}]

Recover(f) ==
    /\ status[f] = "open"
    /\ status' = [status EXCEPT ![f] = "resolved"]
    /\ UNCHANGED <<count, seen>>

Next == \E f \in Fingerprints : Report(f) \/ Recover(f)

Spec == Init /\ [][Next]_ledger

-----------------------------------------------------------------------------
(* What a line can be relied on for *)

\* A line says how often its failure happened, and remembers that many keys as far as
\* the window reaches (record_failure trims what _render_defect keeps).
Remembers ==
    \A f \in Fingerprints :
        /\ status[f] = "absent" <=> count[f] = 0
        /\ Cardinality(seen[f]) = IF count[f] < Window THEN count[f] ELSE Window

\* A count goes up by a failure at a time, which opens the line and is remembered; no
\* recovery takes it back, and before the window is full nothing is forgotten.
CountsUp ==
    [][\A f \in Fingerprints :
           /\ \/ count'[f] = count[f] /\ seen'[f] = seen[f]
              \/ /\ count'[f] = count[f] + 1 /\ status'[f] = "open"
                 /\ \E key \in Keys \ seen[f] : key \in seen'[f]
           /\ Cardinality(seen[f]) < Window => seen[f] \subseteq seen'[f]]_ledger
=============================================================================
