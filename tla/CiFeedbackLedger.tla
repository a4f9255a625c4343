-------------------------- MODULE CiFeedbackLedger --------------------------
(***************************************************************************)
(* The feedback engine implements the defect ledger: a fingerprint's line  *)
(* is read off the oldest issue that carries it, so the copies that an     *)
(* operator makes of an issue do not show.                                 *)
(***************************************************************************)
EXTENDS CiFeedback

Tracked(f) == {i \in 1..Len(defects) : defects[i].metadata.fingerprint = f}

\* The issue that _index_defects would keep: the oldest one, which no copy replaces.
Oldest(f) == CHOOSE i \in Tracked(f) : \A j \in Tracked(f) : i <= j

RecordOf(f) == defects[Oldest(f)].metadata

LedgerStatus ==
    [f \in Fingerprints |-> IF Tracked(f) = {} THEN "absent" ELSE RecordOf(f).status]

LedgerCount ==
    [f \in Fingerprints |-> IF Tracked(f) = {} THEN 0 ELSE RecordOf(f).recurrence_count]

LedgerSeen ==
    [f \in Fingerprints |->
        IF Tracked(f) = {} THEN {} ELSE Retained(RecordOf(f).observations)]

Ledger == INSTANCE DefectLedger WITH
    Keys <- ObservationKeys, Window <- HistoryLimit,
    status <- LedgerStatus, count <- LedgerCount, seen <- LedgerSeen

\* Refinement: every step of the engine, GitHub or an operator is one report,
\* one recovery, or invisible in the ledger.  It is what makes a crash between
\* two calls, a re-run or a cancelled delivery harmless to the record.
ImplementsLedger == Ledger!Spec
=============================================================================
