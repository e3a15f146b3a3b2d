------------------------ MODULE SupplementalEligibility ------------------------
(******************************************************************************)
(* The decision of src/app/data_contracts/supplemental_eligibility.py: may    *)
(* E.SUN observations fill the trading dates that the TWSE answer lacks?      *)
(* The code is one pure function, evaluate_supplemental, over a validated     *)
(* candidate; it is an ordered chain of early returns, and so is Evaluate.    *)
(*                                                                            *)
(* A date is a positive number and Undated a value that does not parse; a     *)
(* price stands for the five numbers of a row that _same_observation          *)
(* compares; the shape of a row is what the tests on its numbers find, in     *)
(* their order.  A bare SecurityBoundaryStatus is the set of boundary         *)
(* invariants it implies (all for PASS, none otherwise).  The evidence hash   *)
(* and the four status fields that go with each reason are left out.          *)
(******************************************************************************)
EXTENDS Naturals, Sequences, FiniteSets

Undated == 0                      \* _parse_observation_date returned None

Recoverable == {"temporary", "delayed", "pacing_blocked", "timeout"}
Forbidden == {"malformed", "permanent", "identity_mismatch", "unavailable"}

IsSupplementalEligibleFailure(failure) == failure \in Recoverable

SecurityInvariants ==
  {"redirect_authority", "credential_forwarding", "https", "approved_endpoint",
   "response_byte_cap", "total_deadline", "bounded_retry_after", "bounded_attempts"}

(* Mutant: the security boundary of the provider is not looked at. *)
BoundaryIgnored(verified) == TRUE

BoundaryPasses(verified) == SecurityInvariants \subseteq verified

(******************************************************************************)
(* An instrument identity is a function of these fields, compared in order.   *)
(******************************************************************************)
IdentityFields == <<"symbol", "market", "exchange", "currency", "security_type">>
NoIdentity == <<>>

\* A chain of early returns: the reason of the first test that fails.
FirstFailing(tests) ==
  LET failing == {i \in DOMAIN tests : tests[i].fails}
  IN  IF failing = {} THEN "none"
      ELSE tests[CHOOSE i \in failing : \A j \in failing : i <= j].reason

IdentityProblem(requested, returned) ==
  IF NoIdentity \in {requested, returned} THEN "instrument_unavailable"
  ELSE FirstFailing([i \in DOMAIN IdentityFields |->
         [fails |-> returned[IdentityFields[i]] # requested[IdentityFields[i]],
          reason |-> CASE IdentityFields[i] \in {"symbol", "exchange"} -> "identity_mismatch"
                       [] IdentityFields[i] = "market" -> "market_mismatch"
                       [] IdentityFields[i] = "currency" -> "currency_mismatch"
                       [] OTHER -> "security_type_mismatch"]])

(******************************************************************************)
(* What SupplementalCandidateInput holds: dates, instrument identities or     *)
(* None, tuples of observations; and what its constructor accepts.            *)
(******************************************************************************)
IsInstrument(x) == x = [f \in {IdentityFields[i] : i \in DOMAIN IdentityFields} |-> x[f]]

IsPayload(rows) ==
  /\ rows \in Seq({rows[i] : i \in DOMAIN rows})
  /\ \A i \in DOMAIN rows : rows[i].date \in Nat /\ rows[i].shape # "none"

CandidateInput(c) ==
  /\ c.start \in Nat \ {Undated} /\ c.target \in Nat
  /\ \A x \in {c.requested, c.returned} : x = NoIdentity \/ IsInstrument(x)
  /\ IsPayload(c.twse) /\ IsPayload(c.esun)

ValidCandidate(c) ==
  /\ c.start <= c.target
  /\ c.missing \subseteq c.start .. c.target
  /\ c.requested # NoIdentity => c.requested["symbol"] = c.symbol

(******************************************************************************)
(* _normalize_observations: dates first, over the whole payload, then rows.   *)
(******************************************************************************)
RowDates(rows) == {rows[i].date : i \in DOMAIN rows} \ {Undated}
PriceOn(rows, d) == rows[CHOOSE i \in DOMAIN rows : rows[i].date = d].price

RowProblem(row) ==
  IF row.symbol = "other" THEN "identity_mismatch"
  ELSE IF row.shape = "good" THEN "none" ELSE row.shape

PayloadProblem(c, rows) ==
  LET dates == [i \in DOMAIN rows |-> rows[i].date]
      Test(fails, reason) == [fails |-> fails, reason |-> reason]
      perRow == [i \in DOMAIN rows |-> Test(RowProblem(rows[i]) # "none", RowProblem(rows[i]))]
  IN  FirstFailing(
        << Test(rows = <<>>, "insufficient_supplemental_coverage"),
           Test(\E i \in DOMAIN rows : dates[i] = Undated, "malformed_payload"),
           Test(\E i, j \in DOMAIN rows : i < j /\ dates[i] > dates[j], "malformed_payload"),
           Test(Cardinality(RowDates(rows)) # Len(rows), "duplicate_trade_date"),
           Test(\E d \in RowDates(rows) : d > c.target, "future_trade_date"),
           Test(\E d \in RowDates(rows) : d < c.start, "unexpected_observation_date") >>
        \o perRow)

(******************************************************************************)
(* evaluate_supplemental.                                                     *)
(******************************************************************************)
Overlap(c) == RowDates(c.esun) \cap RowDates(c.twse)

(* Mutant: the overlap with TWSE is not compared. *)
DiscrepantIgnored(c) == {}

Discrepant(c) == {d \in Overlap(c) : PriceOn(c.esun, d) # PriceOn(c.twse, d)}
Selectable(c) == c.missing \cap RowDates(c.esun)

Rejection(c) ==
  LET identity == IdentityProblem(c.requested, c.returned)
      payload == PayloadProblem(c, c.esun)
      Test(fails, reason) == [fails |-> fails, reason |-> reason]
  IN  FirstFailing(
        << Test(c.missing = {}, "not_needed"),
           Test(~IsSupplementalEligibleFailure(c.failure), "twse_failure_not_eligible"),
           Test(c.evidence = "unverified", "unknown_fail_closed"),
           Test(identity # "none", identity),
           Test(~BoundaryPasses(c.boundary), "security_boundary_failed"),
           Test(payload # "none", payload),
           Test(c.twse # <<>> /\ PayloadProblem(c, c.twse) # "none", "unknown_fail_closed"),
           Test(RowDates(c.twse) \cap c.missing # {}, "unknown_fail_closed"),
           Test(RowDates(c.esun) \ (c.missing \cup Overlap(c)) # {}, "unexpected_observation_date"),
           Test(Discrepant(c) # {}, "overlap_discrepancy"),
           Test(Selectable(c) = {}, "insufficient_supplemental_coverage") >>)

Evaluate(c) ==
  LET why == Rejection(c)
      selected == IF why = "none" THEN Selectable(c) ELSE {}
      remaining == c.missing \ selected
      compared == why \in {"none", "insufficient_supplemental_coverage"}
                    /\ PayloadProblem(c, c.esun) = "none"
  IN  [eligible |-> why = "none",
       reason |-> IF why # "none" THEN why
                  ELSE IF remaining = {} THEN "eligible_verified_supplemental"
                  ELSE "insufficient_supplemental_coverage",
       selected |-> selected,
       rejected |-> IF why = "not_needed" THEN {}
                    ELSE IF compared THEN Overlap(c) ELSE RowDates(c.esun),
       remaining |-> remaining,
       complete |-> remaining = {}]

(******************************************************************************)
(* The five conditions under which a supplement is safe, stated without the   *)
(* order of the tests: docs/dual-source-resilience.md:57-61.                  *)
(******************************************************************************)
WellFormed(c, rows) ==
  /\ \A i \in DOMAIN rows :
       /\ rows[i].date \in c.start .. c.target /\ rows[i].date # Undated
       /\ rows[i].symbol # "other" /\ rows[i].shape = "good"
  /\ \A i, j \in DOMAIN rows : i < j => rows[i].date < rows[j].date

SafeSupplement(c) ==
  /\ IsSupplementalEligibleFailure(c.failure) /\ c.evidence # "unverified"
  /\ NoIdentity # c.requested /\ c.requested = c.returned /\ BoundaryPasses(c.boundary)
  /\ WellFormed(c, c.esun) /\ WellFormed(c, c.twse)
  /\ \A i \in DOMAIN c.esun :
       \/ c.esun[i].date \in c.missing
       \/ \E j \in DOMAIN c.twse :
            c.twse[j].date = c.esun[i].date /\ c.twse[j].price = c.esun[i].price
  /\ RowDates(c.twse) \cap c.missing = {}
  /\ RowDates(c.esun) \cap c.missing # {}

(******************************************************************************)
(* A candidate is eligible exactly when the supplement is safe, and then the  *)
(* dates it covers are missing ones; a decision that leaves a missing date    *)
(* uncovered never says that the coverage is complete.  It is about the chain *)
(* of early returns of evaluate_supplemental: none is missing, none shadows   *)
(* another, and no result carries dates of a rejected payload.                *)
(******************************************************************************)
DecidesSafely(c) ==
  LET result == Evaluate(c)
  IN  /\ result.eligible <=> SafeSupplement(c)
      /\ result.selected \subseteq c.missing \cap RowDates(c.esun)
      /\ result.selected \cap result.rejected = {}
      /\ result.complete <=> (c.missing \subseteq result.selected)
      /\ ~result.eligible => result.selected = {}
=============================================================================
