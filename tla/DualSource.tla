------------------------------ MODULE DualSource -------------------------------
(******************************************************************************)
(* Research dataset versions of one symbol and date: what a version is, when  *)
(* it is legal, and how one is built (src/app/data_contracts: dual_source.py, *)
(* dataset_persistence.py and reconciliation.py).                             *)
(*                                                                            *)
(* A row is [date, role, run]; it is selected unless its role is validation.  *)
(* Close[run][date] stands for the five numbers that run has for that date,   *)
(* so _same_ohlcv compares two Close values and a discrepancy counts one per  *)
(* date (the canonical builder counts one per differing number).  Hashes are  *)
(* what they hash: the version id is Identity, the version without its        *)
(* artifacts, and the canonical hash is the whole version.  parent is <<>> or *)
(* the one-element sequence of the parent's id.  Methodology, policy and      *)
(* contract versions are constant and left out.                               *)
(******************************************************************************)
EXTENDS Naturals, Sequences, FiniteSets, FiniteSetsExt

CONSTANTS Window,      \* the trading dates one preparation requires
          Close        \* Close[run][date]: what a source run observed

Target == CHOOSE d \in Window : \A e \in Window : e <= d

Row(date, role, run) == [date |-> date, role |-> role, run |-> run]
RowsOf(dates, role, run) == {Row(d, role, run) : d \in dates}

InRole(rows, role) == {r \in rows : r.role = role}
DatesIn(rows, role) == {r.date : r \in InRole(rows, role)}
Selected(rows) == {r \in rows : r.role # "validation"}
SameOhlcv(r, s) == Close[r.run][r.date] = Close[s.run][s.date]

\* The dates on which a validation row disagrees with the canonical row.
DiscrepantDates(rows) ==
  {r.date : r \in {x \in InRole(rows, "validation") :
      \E y \in InRole(rows, "canonical") : y.date = x.date /\ ~SameOhlcv(x, y)}}

(******************************************************************************)
(* The version record and its legality: DatasetCoverage, the legal state      *)
(* matrix of validate_dataset_state, the provenance of its rows and the       *)
(* parent rules of DatasetVersionIdentity.  A builder raises otherwise.       *)
(******************************************************************************)
Identity(v) == [v EXCEPT !.artifacts = {}]
Consumable(v) == v.source \in {"canonical_complete", "reconciled"}
SupplementalDates(v) == DatesIn(v.rows, "supplemental")
CanonicalCount(v) == Cardinality(InRole(v.rows, "canonical"))
SupplementalCount(v) == Cardinality(InRole(v.rows, "supplemental"))

LegalCoverage(v) ==
  /\ v.required > 0
  /\ CanonicalCount(v) + SupplementalCount(v) = v.required
  /\ \A r, s \in Selected(v.rows) : r.date = s.date => r = s

LegalState(v) ==
  \/ /\ v.source = "canonical_complete" /\ v.authority = "complete"
     /\ v.reconciliation = "not_applicable"
     /\ SupplementalCount(v) = 0 /\ v.parent = <<>>
  \/ /\ v.source = "provisional_mixed" /\ v.authority = "incomplete"
     /\ v.reconciliation = "pending"
     /\ SupplementalCount(v) > 0
  \/ /\ v.source = "reconciled" /\ v.authority = "reconciled"
     /\ v.reconciliation \in {"reconciled_equal", "reconciled_discrepant"}
     /\ SupplementalCount(v) = 0 /\ v.parent # <<>>

LegalVersion(v) == LegalCoverage(v) /\ LegalState(v) /\ v.parent # <<Identity(v)>>

(******************************************************************************)
(* build_canonical_dataset_version and build_provisional_dataset_version.     *)
(******************************************************************************)
CanonicalVersion(required, canonical, validation, artifacts) ==
  [source |-> "canonical_complete", authority |-> "complete",
   reconciliation |-> "not_applicable", required |-> required,
   rows |-> canonical \cup validation,
   discrepancies |-> Cardinality(DiscrepantDates(canonical \cup validation)),
   reconciledOn |-> 0, parent |-> <<>>, artifacts |-> artifacts]

ProvisionalVersion(required, canonical, supplemental, artifacts) ==
  [source |-> "provisional_mixed", authority |-> "incomplete",
   reconciliation |-> "pending", required |-> required,
   rows |-> canonical \cup supplemental,
   discrepancies |-> 0, reconciledOn |-> 0, parent |-> <<>>, artifacts |-> artifacts]

(******************************************************************************)
(* reconcile_dataset_version: the supplemental rows that the late TWSE rows   *)
(* cover are demoted to validation, and the TWSE rows become canonical.       *)
(******************************************************************************)
Reconcilable(parent) ==
  /\ parent.source = "provisional_mixed" /\ parent.authority = "incomplete"
  /\ parent.reconciliation = "pending" /\ SupplementalCount(parent) > 0

(* Mutant: the E.SUN rows that TWSE now covers are dropped. *)
DemotedAway(rows, dates) == {r \in rows : r.role # "supplemental" \/ r.date \notin dates}

Demoted(rows, dates) ==
  {IF r.role = "supplemental" /\ r.date \in dates
   THEN [r EXCEPT !.role = "validation"] ELSE r : r \in rows}

(* Mutant: one reconciliation settles the version, whatever dates it had. *)
NonePending(parent, dates) == {}

StillPending(parent, dates) == SupplementalDates(parent) \ dates

\* Rows of the parent that the late rows are compared with and differ from.
DiscrepantWith(parent, late) ==
  {r \in InRole(parent.rows, "supplemental") :
     \E t \in late : t.date = r.date /\ ~SameOhlcv(r, t)}

(* Mutant: the discrepancies of earlier reconciliations are forgotten. *)
LatestDiscrepancies(parent, late) == Cardinality(DiscrepantWith(parent, late))

TotalDiscrepancies(parent, late) ==
  parent.discrepancies + Cardinality(DiscrepantWith(parent, late))

ReconciledVersion(parent, late, artifacts) ==
  LET dates == {r.date : r \in late}
      open == StillPending(parent, dates) # {}
      total == TotalDiscrepancies(parent, late)
  IN  [source |-> IF open THEN "provisional_mixed" ELSE "reconciled",
       authority |-> IF open THEN "incomplete" ELSE "reconciled",
       reconciliation |-> IF open THEN "pending"
                          ELSE IF total > 0 THEN "reconciled_discrepant" ELSE "reconciled_equal",
       required |-> parent.required,
       rows |-> Demoted(parent.rows, dates) \cup late,
       discrepancies |-> total,
       reconciledOn |-> Max(dates \cup {parent.reconciledOn}),
       parent |-> <<Identity(parent)>>,
       artifacts |-> parent.artifacts \cup artifacts]
================================================================================
