-------------------- MODULE SupplementalEligibility_proofs --------------------
(***************************************************************************)
(* The decision of evaluate_supplemental, for every candidate: its chain   *)
(* of early returns is safe, and nothing that is safe is refused.          *)
(***************************************************************************)
EXTENDS SupplementalEligibility, FiniteSetTheorems, SequenceTheorems,
        WellFoundedInduction, TLAPS

(* The order of the naturals, as a relation.                               *)
Below == {pair \in Nat \X Nat : pair[1] < pair[2]}

(* It has no endless descent, so a set of naturals has a least member.     *)
LEMMA LeastExists ==
    ASSUME NEW S \in SUBSET Nat, S # {}
    PROVE  \E x \in S : \A y \in S : x <= y
<1>1. IsWellFoundedOn(Below, Nat)
  <2>1. IsWellFoundedOn(OpToRel(<, Nat), Nat)
    BY NatLessThanWellFounded
  <2> QED
    BY <2>1 DEF OpToRel, Below
<1>2. PICK x \in S : \A y \in S : <<y, x>> \notin Below
  BY <1>1, WFMin
<1>3. ASSUME NEW y \in S PROVE x <= y
  <2>1. <<y, x>> \in Nat \X Nat /\ x \in Nat /\ y \in Nat
    OBVIOUS
  <2>2. ~ (<<y, x>> \in {pair \in Nat \X Nat : pair[1] < pair[2]})
    BY <1>2 DEF Below
  <2>3. ~ (y < x)
    BY <2>1, <2>2
  <2> QED
    BY <2>1, <2>3
<1> QED
  BY <1>3

(* A finite set of naturals has a largest member: the one that the fewest  *)
(* others exceed.                                                          *)
LEMMA LargestExists ==
    ASSUME NEW S \in SUBSET Nat, S # {}, IsFiniteSet(S)
    PROVE  \E x \in S : \A y \in S : y <= x
<1> DEFINE Above(x) == {y \in S : y > x}
           sizes == {Cardinality(Above(x)) : x \in S}
<1>1. \A x \in S : IsFiniteSet(Above(x)) /\ Cardinality(Above(x)) \in Nat
  BY FS_Subset, FS_CardinalityType
<1>2. sizes \in SUBSET Nat /\ sizes # {}
  BY <1>1
<1>3. PICK least \in sizes : \A size \in sizes : least <= size
  BY <1>2, LeastExists
<1>4. PICK x \in S : least = Cardinality(Above(x))
  BY <1>3
<1>5. ASSUME NEW y \in S, y > x PROVE FALSE
  <2>1. Above(y) \in SUBSET Above(x) /\ y \in Above(x) /\ y \notin Above(y)
    <3>1. x \in Nat /\ y \in Nat /\ \A z \in S : z \in Nat
      OBVIOUS
    <3>2. \A z \in S : z > y => z > x
      BY <1>5, <3>1
    <3>3. ~ (y > y)
      BY <3>1
    <3> QED
      BY <1>5, <3>2, <3>3
  <2>2. Cardinality(Above(x)) <= Cardinality(Above(y))
    BY <1>3, <1>4
  <2> HIDE DEF Above
  <2>3. /\ Cardinality(Above(y)) <= Cardinality(Above(x))
        /\ Cardinality(Above(x)) = Cardinality(Above(y)) => Above(x) = Above(y)
    BY <1>1, <2>1, FS_Subset
  <2>4. Cardinality(Above(x)) \in Nat /\ Cardinality(Above(y)) \in Nat
    BY <1>1
  <2> QED
    BY <2>1, <2>2, <2>3, <2>4
<1> QED
  BY <1>5

InOrder(S, s) ==
    /\ s \in [1 .. Cardinality(S) -> S]
    /\ \A i, j \in DOMAIN s : i < j => s[i] < s[j]

(* A finite set of naturals can be listed in increasing order: the set     *)
(* without its largest member can, if the smallest one that cannot is not  *)
(* empty.                                                                  *)
LEMMA OrderExists ==
    ASSUME NEW S \in SUBSET Nat, IsFiniteSet(S)
    PROVE  \E s : InOrder(S, s)
<1> DEFINE listed(T) == \E s : InOrder(T, s)
           bad == {Cardinality(T) : T \in {U \in SUBSET S : ~listed(U)}}
<1>1. \A T \in SUBSET S : IsFiniteSet(T) /\ Cardinality(T) \in Nat
  BY FS_Subset, FS_CardinalityType
<1>2. SUFFICES ASSUME bad # {} PROVE FALSE
  OBVIOUS
<1>3. bad \in SUBSET Nat
  BY <1>1
<1>4. PICK least \in bad : \A size \in bad : least <= size
  BY <1>2, <1>3, LeastExists
<1>5. PICK T \in SUBSET S : ~listed(T) /\ least = Cardinality(T)
  BY <1>4
<1>6. CASE T = {}
  <2>1. Cardinality(T) = 0
    BY <1>6, FS_EmptySet
  <2>2. InOrder(T, [i \in 1 .. 0 |-> i])
    BY <2>1 DEF InOrder
  <2> QED
    BY <1>5, <2>2
<1>7. CASE T # {}
  <2>1. PICK m \in T : \A y \in T : y <= m
    BY <1>1, <1>5, <1>7, LargestExists
  <2> DEFINE R == T \ {m}
             n == Cardinality(R)
  <2>2. R \in SUBSET S /\ IsFiniteSet(R) /\ n \in Nat
    BY <1>1
  <2>3. Cardinality(T) = n + 1
    BY <1>1, <2>1, FS_RemoveElement
  <2>4. listed(R)
    <3>1. ~ (least <= n)
      BY <1>5, <2>2, <2>3
    <3>2. n \notin bad
      BY <1>4, <3>1
    <3> QED
      BY <2>2, <3>2
  <2>5. PICK s : InOrder(R, s)
    BY <2>4
  <2> DEFINE t == [i \in 1 .. n + 1 |-> IF i = n + 1 THEN m ELSE s[i]]
  <2>6. \A i \in 1 .. n : s[i] \in T /\ s[i] # m /\ s[i] \in Nat /\ m \in Nat
    BY <2>2, <2>5 DEF InOrder
  <2>7. \A i \in 1 .. n : s[i] < m
    BY <2>1, <2>6
  <2> HIDE DEF n
  <2>8. \A i \in 1 .. n + 1 : i # n + 1 => i \in 1 .. n
    BY <2>2
  <2>9. t \in [1 .. n + 1 -> T]
    BY <2>1, <2>6, <2>8
  <2>10. ASSUME NEW i \in 1 .. n + 1, NEW j \in 1 .. n + 1, i < j PROVE t[i] < t[j]
    <3>1. i \in 1 .. n
      BY <2>2, <2>10
    <3>2. CASE j = n + 1
      BY <2>7, <3>1, <3>2, <2>10
    <3>3. CASE j \in 1 .. n
      <4>1. DOMAIN s = 1 .. n
        BY <2>5 DEF InOrder, n
      <4>2. s[i] < s[j]
        BY <2>5, <2>10, <3>1, <3>3, <4>1 DEF InOrder
      <4> QED
        BY <2>2, <2>10, <3>1, <3>3, <4>2
    <3> QED
      BY <2>8, <3>2, <3>3
  <2>11. InOrder(T, t)
    <3> HIDE DEF t
    <3> QED
      BY <2>3, <2>9, <2>10 DEF InOrder
  <2> QED
    BY <1>5, <2>11
<1> QED
  BY <1>6, <1>7

(* A chain of early returns gives "none" exactly when no test fails.       *)
LEMMA FirstFailingNone ==
    ASSUME NEW tests, DOMAIN tests \subseteq Nat,
           \A i \in DOMAIN tests : tests[i].fails => tests[i].reason # "none"
    PROVE  FirstFailing(tests) = "none" <=> \A i \in DOMAIN tests : ~ tests[i].fails
<1> DEFINE failing == {i \in DOMAIN tests : tests[i].fails}
<1>1. FirstFailing(tests) = IF failing = {} THEN "none"
                            ELSE tests[CHOOSE i \in failing : \A j \in failing : i <= j].reason
  BY DEF FirstFailing
<1>2. ASSUME failing # {}
      PROVE  tests[CHOOSE i \in failing : \A j \in failing : i <= j].reason # "none"
  <2>1. failing \in SUBSET Nat
    OBVIOUS
  <2>2. \E i \in failing : \A j \in failing : i <= j
    BY <1>2, <2>1, LeastExists
  <2>3. (CHOOSE i \in failing : \A j \in failing : i <= j) \in failing
    BY <2>2
  <2> QED
    BY <2>3
<1> QED
  BY <1>1, <1>2

----------------------------------------------------------------------------

(* Identities pass when both are there and they are the same.              *)
LEMMA IdentityPasses ==
    ASSUME NEW requested, requested = NoIdentity \/ IsInstrument(requested),
           NEW returned, returned = NoIdentity \/ IsInstrument(returned)
    PROVE  IdentityProblem(requested, returned) = "none" <=>
              NoIdentity # requested /\ requested = returned
<1> DEFINE tests == [i \in DOMAIN IdentityFields |->
             [fails |-> returned[IdentityFields[i]] # requested[IdentityFields[i]],
              reason |-> CASE IdentityFields[i] \in {"symbol", "exchange"} -> "identity_mismatch"
                           [] IdentityFields[i] = "market" -> "market_mismatch"
                           [] IdentityFields[i] = "currency" -> "currency_mismatch"
                           [] OTHER -> "security_type_mismatch"]]
<1>1. DOMAIN IdentityFields = 1 .. 5
  BY DEF IdentityFields
<1>2. \A x : IsInstrument(x) => x # NoIdentity
  <2>1. \A x : IsInstrument(x) => DOMAIN x = {IdentityFields[i] : i \in DOMAIN IdentityFields}
    BY DEF IsInstrument
  <2>2. DOMAIN NoIdentity = {} /\ {IdentityFields[i] : i \in DOMAIN IdentityFields} # {}
    BY <1>1 DEF NoIdentity
  <2> QED
    BY <2>1, <2>2
<1>3. CASE NoIdentity \in {requested, returned}
  BY <1>2, <1>3 DEF IdentityProblem
<1>4. CASE IsInstrument(requested) /\ IsInstrument(returned)
  <2>1. IdentityProblem(requested, returned) = FirstFailing(tests)
    BY <1>2, <1>4 DEF IdentityProblem
  <2>2. DOMAIN tests = 1 .. 5 /\ \A i \in DOMAIN tests : tests[i].reason # "none"
    BY <1>1
  <2>3. \A i \in DOMAIN IdentityFields :
           tests[i].fails <=> returned[IdentityFields[i]] # requested[IdentityFields[i]]
    OBVIOUS
  <2>4. requested = returned <=>
           \A i \in DOMAIN IdentityFields : returned[IdentityFields[i]] = requested[IdentityFields[i]]
    BY <1>4 DEF IsInstrument
  <2> HIDE DEF tests
  <2>5. FirstFailing(tests) = "none" <=> \A i \in DOMAIN tests : ~ tests[i].fails
    BY <2>2, FirstFailingNone
  <2> QED
    BY <1>1, <1>2, <1>4, <2>1, <2>2, <2>3, <2>4, <2>5
<1> QED
  BY <1>3, <1>4

(* Rows in order and with as many dates as rows are in strict order.       *)
LEMMA StrictOrder ==
    ASSUME NEW n \in Nat, NEW date \in [1 .. n -> Nat],
           \A i, j \in 1 .. n : i < j => date[i] <= date[j]
    PROVE  Cardinality({date[i] : i \in 1 .. n}) = n <=>
              \A i, j \in 1 .. n : i < j => date[i] < date[j]
<1> DEFINE S == {date[i] : i \in 1 .. n}
<1>1. IsFiniteSet(1 .. n) /\ Cardinality(1 .. n) = n
  BY FS_Interval
<1>2. date \in Surjection(1 .. n, S)
  BY DEF Surjection
<1>3. Cardinality(S) = n <=> date \in Injection(1 .. n, S)
  BY <1>1, <1>2, FS_Surjection
<1>4. date \in Injection(1 .. n, S) <=> \A i, j \in 1 .. n : date[i] = date[j] => i = j
  BY DEF Injection, IsInjective
<1>5. (\A i, j \in 1 .. n : date[i] = date[j] => i = j) <=>
         \A i, j \in 1 .. n : i < j => date[i] < date[j]
  OBVIOUS
<1> QED
  BY <1>3, <1>4, <1>5

(* What _normalize_observations lets through: a payload of well-formed     *)
(* rows.                                                                   *)
LEMMA PayloadPasses ==
    ASSUME NEW c, CandidateInput(c), NEW rows \in {c.twse, c.esun}
    PROVE  PayloadProblem(c, rows) = "none" <=> rows # <<>> /\ WellFormed(c, rows)
<1> DEFINE n == Len(rows)
           dates == [i \in DOMAIN rows |-> rows[i].date]
           Test(fails, reason) == [fails |-> fails, reason |-> reason]
           heads == << Test(rows = <<>>, "insufficient_supplemental_coverage"),
             Test(\E i \in DOMAIN rows : dates[i] = Undated, "malformed_payload"),
             Test(\E i, j \in DOMAIN rows : i < j /\ dates[i] > dates[j], "malformed_payload"),
             Test(Cardinality(RowDates(rows)) # Len(rows), "duplicate_trade_date"),
             Test(\E d \in RowDates(rows) : d > c.target, "future_trade_date"),
             Test(\E d \in RowDates(rows) : d < c.start, "unexpected_observation_date") >>
           perRow == [i \in DOMAIN rows |-> Test(RowProblem(rows[i]) # "none", RowProblem(rows[i]))]
           tests == heads \o perRow
<1>1. /\ n \in Nat /\ DOMAIN rows = 1 .. n /\ (rows = <<>> <=> n = 0)
      /\ \A i \in 1 .. n : rows[i].date \in Nat /\ rows[i].shape # "none"
  BY DEF CandidateInput, IsPayload
<1>2. PayloadProblem(c, rows) = FirstFailing(tests)
  BY DEF PayloadProblem
<1>3. /\ DOMAIN tests = 1 .. 6 + n
      /\ \A i \in 1 .. 6 : tests[i] = heads[i]
      /\ \A i \in 1 .. n : tests[6 + i] = perRow[i]
  <2> DEFINE kinds == {heads[i] : i \in 1 .. 6} \cup {perRow[i] : i \in 1 .. n}
  <2>1. Len(heads) = 6 /\ DOMAIN heads = 1 .. 6
    OBVIOUS
  <2>2. DOMAIN perRow = 1 .. n /\ perRow = [i \in 1 .. n |-> perRow[i]]
    BY <1>1
  <2>3. heads = [i \in 1 .. 6 |-> heads[i]]
    OBVIOUS
  <2> HIDE DEF heads, perRow
  <2>4. heads \in Seq(kinds) /\ perRow \in Seq(kinds)
    <3>1. heads \in [1 .. 6 -> kinds]
      BY <2>3
    <3>2. perRow \in [1 .. n -> kinds]
      BY <2>2
    <3> HIDE DEF kinds, n
    <3>3. \A k \in Nat : [1 .. k -> kinds] \subseteq Seq(kinds)
      OBVIOUS
    <3>4. n \in Nat /\ 6 \in Nat
      BY <1>1
    <3> QED
      BY <3>1, <3>2, <3>3, <3>4, Zenon
  <2>5. Len(perRow) = n
    BY <1>1, <2>2, <2>4
  <2> HIDE DEF n, kinds
  <2>6. /\ Len(tests) = 6 + n /\ tests \in Seq(kinds)
        /\ \A i \in 1 .. 6 + n : tests[i] = IF i <= 6 THEN heads[i] ELSE perRow[i - 6]
    <3>1. /\ heads \o perRow \in Seq(kinds)
          /\ Len(heads \o perRow) = Len(heads) + Len(perRow)
          /\ \A i \in 1 .. Len(heads) + Len(perRow) : (heads \o perRow)[i] =
                IF i <= Len(heads) THEN heads[i] ELSE perRow[i - Len(heads)]
      BY <2>4, ConcatProperties, Zenon
    <3> HIDE DEF tests
    <3>2. tests = heads \o perRow
      BY DEF tests
    <3> QED
      BY <2>1, <2>5, <3>1, <3>2
  <2> HIDE DEF tests
  <2>7. DOMAIN tests = 1 .. 6 + n
    BY <2>6
  <2>8. ASSUME NEW i \in 1 .. 6 PROVE tests[i] = heads[i]
    BY <1>1, <2>6
  <2>9. ASSUME NEW i \in 1 .. n PROVE tests[6 + i] = perRow[i]
    <3>1. 6 + i \in 1 .. 6 + n /\ ~ (6 + i <= 6) /\ (6 + i) - 6 = i
      BY <1>1
    <3> QED
      BY <2>6, <3>1
  <2> QED
    BY <2>7, <2>8, <2>9
<1>4. \A k \in DOMAIN tests : k \in 1 .. 6 \/ \E i \in 1 .. n : k = 6 + i
  <2> HIDE DEF n, tests
  <2> SUFFICES ASSUME NEW k \in 1 .. 6 + n, k \notin 1 .. 6 PROVE \E i \in 1 .. n : k = 6 + i
    BY <1>3
  <2>1. k - 6 \in 1 .. n /\ k = 6 + (k - 6)
    BY <1>1
  <2> QED
    BY <2>1
<1>5. \A i \in 1 .. 6 : heads[i].reason # "none"
  OBVIOUS
<1>6. \A i \in 1 .. n : /\ perRow[i].fails <=> RowProblem(rows[i]) # "none"
                        /\ perRow[i].reason = RowProblem(rows[i])
  BY <1>1
<1>7. FirstFailing(tests) = "none" <=>
         (\A i \in 1 .. 6 : ~ heads[i].fails) /\ \A i \in 1 .. n : ~ perRow[i].fails
  <2> HIDE DEF heads, perRow, tests, n
  <2>1. DOMAIN tests \subseteq Nat
    BY <1>1, <1>3
  <2>2. \A k \in DOMAIN tests : tests[k].fails => tests[k].reason # "none"
    BY <1>3, <1>4, <1>5, <1>6
  <2>3. FirstFailing(tests) = "none" <=> \A k \in DOMAIN tests : ~ tests[k].fails
    BY <2>1, <2>2, FirstFailingNone
  <2>4. \A i \in 1 .. n : 6 + i \in DOMAIN tests
    BY <1>1, <1>3
  <2>5. \A i \in 1 .. 6 : i \in DOMAIN tests
    BY <1>1, <1>3
  <2> QED
    BY <1>3, <1>4, <2>3, <2>4, <2>5
<1>8. (\A i \in 1 .. 6 : ~ heads[i].fails) <=>
        /\ rows # <<>> /\ (\A i \in 1 .. n : dates[i] # Undated)
        /\ (\A i, j \in 1 .. n : i < j => ~ (dates[i] > dates[j]))
        /\ Cardinality(RowDates(rows)) = n
        /\ (\A d \in RowDates(rows) : ~ (d > c.target) /\ ~ (d < c.start))
  <2>1. /\ heads[1].fails = (rows = <<>>)
        /\ heads[2].fails = (\E i \in DOMAIN rows : dates[i] = Undated)
        /\ heads[3].fails = (\E i, j \in DOMAIN rows : i < j /\ dates[i] > dates[j])
        /\ heads[4].fails = (Cardinality(RowDates(rows)) # Len(rows))
        /\ heads[5].fails = (\E d \in RowDates(rows) : d > c.target)
        /\ heads[6].fails = (\E d \in RowDates(rows) : d < c.start)
    OBVIOUS
  <2>2. (\A i \in 1 .. 6 : ~ heads[i].fails) <=>
           /\ ~ heads[1].fails /\ ~ heads[2].fails /\ ~ heads[3].fails
           /\ ~ heads[4].fails /\ ~ heads[5].fails /\ ~ heads[6].fails
    <3> HIDE DEF heads
    <3>1. \A i \in 1 .. 6 : i = 1 \/ i = 2 \/ i = 3 \/ i = 4 \/ i = 5 \/ i = 6
      OBVIOUS
    <3>2. 1 \in 1 .. 6 /\ 2 \in 1 .. 6 /\ 3 \in 1 .. 6 /\ 4 \in 1 .. 6 /\ 5 \in 1 .. 6 /\ 6 \in 1 .. 6
      OBVIOUS
    <3> QED
      BY <3>1, <3>2
  <2> HIDE DEF heads, dates
  <2> QED
    BY <1>1, <2>1, <2>2
<1>9. (\A i \in 1 .. n : ~ perRow[i].fails) <=>
         \A i \in 1 .. n : rows[i].symbol # "other" /\ rows[i].shape = "good"
  BY <1>1, <1>6 DEF RowProblem
<1>10. ASSUME \A i \in 1 .. n : dates[i] # Undated
       PROVE  RowDates(rows) = {dates[i] : i \in 1 .. n}
  BY <1>1, <1>10 DEF RowDates
<1>11. dates \in [1 .. n -> Nat] /\ \A i \in 1 .. n : dates[i] = rows[i].date
  BY <1>1
<1> HIDE DEF dates, heads, perRow, tests, n
<1>12. ASSUME \A i \in 1 .. n : dates[i] # Undated
       PROVE  (/\ \A i, j \in 1 .. n : i < j => ~ (dates[i] > dates[j])
               /\ Cardinality(RowDates(rows)) = n) <=>
              \A i, j \in 1 .. n : i < j => dates[i] < dates[j]
  <2>1. \A i, j \in 1 .. n : /\ dates[i] \in Nat /\ dates[j] \in Nat
                             /\ ~ (dates[i] > dates[j]) <=> dates[i] <= dates[j]
                             /\ dates[i] < dates[j] => dates[i] <= dates[j]
    BY <1>11
  <2>2. CASE \A i, j \in 1 .. n : i < j => dates[i] <= dates[j]
    <3>1. Cardinality({dates[i] : i \in 1 .. n}) = n <=>
             \A i, j \in 1 .. n : i < j => dates[i] < dates[j]
      BY <1>1, <1>11, <2>2, StrictOrder
    <3> QED
      BY <1>10, <1>12, <2>1, <2>2, <3>1
  <2>3. CASE ~ \A i, j \in 1 .. n : i < j => dates[i] <= dates[j]
    BY <2>1, <2>3
  <2> QED
    BY <2>2, <2>3
<1>13. ASSUME \A i \in 1 .. n : dates[i] # Undated
       PROVE  (\A d \in RowDates(rows) : ~ (d > c.target) /\ ~ (d < c.start)) <=>
              \A i \in 1 .. n : dates[i] \in c.start .. c.target
  <2>1. \A i \in 1 .. n : dates[i] \in Nat /\
           (~ (dates[i] > c.target) /\ ~ (dates[i] < c.start) <=> dates[i] \in c.start .. c.target)
    <3>1. c.start \in Nat /\ c.target \in Nat
      BY DEF CandidateInput, IsPayload
    <3> QED
      BY <1>11, <3>1
  <2> QED
    BY <1>10, <1>13, <2>1
<1>14. WellFormed(c, rows) <=>
         /\ \A i \in 1 .. n : /\ dates[i] \in c.start .. c.target /\ dates[i] # Undated
                              /\ rows[i].symbol # "other" /\ rows[i].shape = "good"
         /\ \A i, j \in 1 .. n : i < j => dates[i] < dates[j]
  <2>1. DOMAIN rows = 1 .. n
    BY <1>1
  <2>2. \A i \in 1 .. n : dates[i] = rows[i].date
    BY <1>11
  <2> QED
    BY <2>1, <2>2, Zenon DEF WellFormed
<1> QED
  BY <1>2, <1>7, <1>8, <1>9, <1>12, <1>13, <1>14

(* The eleven tests of evaluate_supplemental, without their order.         *)
Passes(c) ==
    /\ c.missing # {} /\ IsSupplementalEligibleFailure(c.failure)
    /\ c.evidence # "unverified" /\ IdentityProblem(c.requested, c.returned) = "none"
    /\ BoundaryPasses(c.boundary) /\ PayloadProblem(c, c.esun) = "none"
    /\ c.twse # <<>> => PayloadProblem(c, c.twse) = "none"
    /\ RowDates(c.twse) \cap c.missing = {}
    /\ RowDates(c.esun) \ (c.missing \cup Overlap(c)) = {}
    /\ Discrepant(c) = {} /\ Selectable(c) # {}

LEMMA NothingRejected ==
    ASSUME NEW c
    PROVE  Rejection(c) = "none" <=> Passes(c)
<1> DEFINE identity == IdentityProblem(c.requested, c.returned)
           payload == PayloadProblem(c, c.esun)
           Test(fails, reason) == [fails |-> fails, reason |-> reason]
           tests == << Test(c.missing = {}, "not_needed"),
             Test(~IsSupplementalEligibleFailure(c.failure), "twse_failure_not_eligible"),
             Test(c.evidence = "unverified", "unknown_fail_closed"),
             Test(identity # "none", identity),
             Test(~BoundaryPasses(c.boundary), "security_boundary_failed"),
             Test(payload # "none", payload),
             Test(c.twse # <<>> /\ PayloadProblem(c, c.twse) # "none", "unknown_fail_closed"),
             Test(RowDates(c.twse) \cap c.missing # {}, "unknown_fail_closed"),
             Test(RowDates(c.esun) \ (c.missing \cup Overlap(c)) # {}, "unexpected_observation_date"),
             Test(Discrepant(c) # {}, "overlap_discrepancy"),
             Test(Selectable(c) = {}, "insufficient_supplemental_coverage") >>
<1>1. Rejection(c) = FirstFailing(tests)
  BY DEF Rejection
<1>2. DOMAIN tests = 1 .. 11
  OBVIOUS
<1>3. \A i \in 1 .. 11 : i = 1 \/ i = 2 \/ i = 3 \/ i = 4 \/ i = 5 \/ i = 6 \/ i = 7
                         \/ i = 8 \/ i = 9 \/ i = 10 \/ i = 11
  OBVIOUS
<1>5. /\ tests[1].fails = (c.missing = {})
      /\ tests[2].fails = (~IsSupplementalEligibleFailure(c.failure))
      /\ tests[3].fails = (c.evidence = "unverified")
      /\ tests[4].fails = (identity # "none")
      /\ tests[5].fails = (~BoundaryPasses(c.boundary))
      /\ tests[6].fails = (payload # "none")
      /\ tests[7].fails = (c.twse # <<>> /\ PayloadProblem(c, c.twse) # "none")
      /\ tests[8].fails = (RowDates(c.twse) \cap c.missing # {})
      /\ tests[9].fails = (RowDates(c.esun) \ (c.missing \cup Overlap(c)) # {})
      /\ tests[10].fails = (Discrepant(c) # {})
      /\ tests[11].fails = (Selectable(c) = {})
  <2> HIDE DEF identity, payload
  <2> QED
    OBVIOUS
<1>4. \A i \in DOMAIN tests : tests[i].fails => tests[i].reason # "none"
  <2>1. /\ tests[4].reason = identity /\ tests[6].reason = payload
        /\ \A i \in {1, 2, 3, 5, 7, 8, 9, 10, 11} : tests[i].reason # "none"
    <3> HIDE DEF identity, payload
    <3> QED
      OBVIOUS
  <2>2. /\ tests[4].fails => tests[4].reason # "none"
        /\ tests[6].fails => tests[6].reason # "none"
    <3> HIDE DEF tests, identity, payload
    <3> QED
      BY <1>5, <2>1
  <2> HIDE DEF tests
  <2>3. \A i \in 1 .. 11 : i \in {1, 2, 3, 5, 7, 8, 9, 10, 11} \/ i = 4 \/ i = 6
    BY <1>3
  <2> QED
    BY <1>2, <2>1, <2>2, <2>3, Zenon
<1>6. Passes(c) <=>
        /\ ~ tests[1].fails /\ ~ tests[2].fails /\ ~ tests[3].fails /\ ~ tests[4].fails
        /\ ~ tests[5].fails /\ ~ tests[6].fails /\ ~ tests[7].fails /\ ~ tests[8].fails
        /\ ~ tests[9].fails /\ ~ tests[10].fails /\ ~ tests[11].fails
  <2> HIDE DEF tests
  <2> QED
    BY <1>5 DEF Passes
<1> HIDE DEF tests
<1>7. Passes(c) <=> \A i \in 1 .. 11 : ~ tests[i].fails
  <2>1. /\ 1 \in 1 .. 11 /\ 2 \in 1 .. 11 /\ 3 \in 1 .. 11 /\ 4 \in 1 .. 11 /\ 5 \in 1 .. 11
        /\ 6 \in 1 .. 11 /\ 7 \in 1 .. 11 /\ 8 \in 1 .. 11 /\ 9 \in 1 .. 11
        /\ 10 \in 1 .. 11 /\ 11 \in 1 .. 11
    OBVIOUS
  <2> QED
    BY <1>3, <1>6, <2>1, Zenon
<1>8. DOMAIN tests \subseteq Nat
  BY <1>2
<1> QED
  BY <1>1, <1>2, <1>4, <1>7, <1>8, FirstFailingNone

(* In a payload of well-formed rows, a date has one price.                 *)
LEMMA OnePrice ==
    ASSUME NEW c, CandidateInput(c), NEW rows \in {c.twse, c.esun}, WellFormed(c, rows),
           NEW i \in DOMAIN rows
    PROVE  /\ rows[i].date \in RowDates(rows)
           /\ PriceOn(rows, rows[i].date) = rows[i].price
<1>1. DOMAIN rows \subseteq Nat /\ \A j \in DOMAIN rows : rows[j].date \in Nat
  BY DEF CandidateInput, IsPayload
<1>2. \A j \in DOMAIN rows : rows[j].date = rows[i].date => j = i
  BY <1>1 DEF WellFormed
<1>3. (CHOOSE j \in DOMAIN rows : rows[j].date = rows[i].date) = i
  BY <1>2
<1> QED
  BY <1>3 DEF PriceOn, RowDates, WellFormed

(* The tests pass exactly when the supplement is safe.                     *)
LEMMA PassesWhenSafe ==
    ASSUME NEW c, CandidateInput(c), ValidCandidate(c)
    PROVE  Passes(c) <=> SafeSupplement(c)
<1>1. PayloadProblem(c, c.esun) = "none" <=> c.esun # <<>> /\ WellFormed(c, c.esun)
  BY PayloadPasses
<1>2. (c.twse # <<>> => PayloadProblem(c, c.twse) = "none") <=> WellFormed(c, c.twse)
  <2>1. WellFormed(c, <<>>)
    BY DEF WellFormed
  <2>2. PayloadProblem(c, c.twse) = "none" <=> c.twse # <<>> /\ WellFormed(c, c.twse)
    BY PayloadPasses
  <2> QED
    BY <2>1, <2>2
<1>3. IdentityProblem(c.requested, c.returned) = "none" <=>
         NoIdentity # c.requested /\ c.requested = c.returned
  BY IdentityPasses DEF CandidateInput
<1>4. Selectable(c) # {} <=> RowDates(c.esun) \cap c.missing # {}
  BY DEF Selectable
<1>5. Selectable(c) # {} => c.missing # {} /\ c.esun # <<>>
  BY DEF Selectable, RowDates
<1>6. ASSUME WellFormed(c, c.esun), WellFormed(c, c.twse), RowDates(c.twse) \cap c.missing = {}
      PROVE  (RowDates(c.esun) \ (c.missing \cup Overlap(c)) = {} /\ Discrepant(c) = {}) <=>
             \A i \in DOMAIN c.esun :
                \/ c.esun[i].date \in c.missing
                \/ \E j \in DOMAIN c.twse :
                      c.twse[j].date = c.esun[i].date /\ c.twse[j].price = c.esun[i].price
  <2>1. \A i \in DOMAIN c.esun : /\ c.esun[i].date \in RowDates(c.esun)
                                 /\ PriceOn(c.esun, c.esun[i].date) = c.esun[i].price
    BY <1>6, OnePrice
  <2>2. \A j \in DOMAIN c.twse : /\ c.twse[j].date \in RowDates(c.twse)
                                 /\ PriceOn(c.twse, c.twse[j].date) = c.twse[j].price
    BY <1>6, OnePrice
  <2>3. /\ \A d \in RowDates(c.esun) : \E i \in DOMAIN c.esun : d = c.esun[i].date
        /\ \A d \in RowDates(c.twse) : \E j \in DOMAIN c.twse : d = c.twse[j].date
    BY DEF RowDates
  <2>4. Overlap(c) = RowDates(c.esun) \cap RowDates(c.twse)
    BY DEF Overlap
  <2>5. Discrepant(c) = {d \in Overlap(c) : PriceOn(c.esun, d) # PriceOn(c.twse, d)}
    BY DEF Discrepant
  <2> QED
    BY <1>6, <2>1, <2>2, <2>3, <2>4, <2>5
<1> QED
  BY <1>1, <1>2, <1>3, <1>4, <1>5, <1>6 DEF Passes, SafeSupplement

(* Whatever the candidate, evaluate_supplemental lets E.SUN rows in        *)
(* exactly when they are safe.                                             *)
LEMMA DecisionSafe ==
    ASSUME NEW c, CandidateInput(c), ValidCandidate(c)
    PROVE  DecidesSafely(c)
<1> DEFINE result == Evaluate(c)
           why == Rejection(c)
<1>1. why = "none" <=> SafeSupplement(c)
  BY NothingRejected, PassesWhenSafe
<1>2. /\ result.eligible = (why = "none")
      /\ result.selected = IF why = "none" THEN Selectable(c) ELSE {}
      /\ result.complete = (c.missing \ result.selected = {})
      /\ why = "none" /\ PayloadProblem(c, c.esun) = "none" => result.rejected = Overlap(c)
  <2> HIDE DEF why
  <2> QED
    BY DEF Evaluate, why
<1>3. why = "none" => PayloadProblem(c, c.esun) = "none" /\ RowDates(c.twse) \cap c.missing = {}
  BY NothingRejected DEF Passes
<1>4. Selectable(c) = c.missing \cap RowDates(c.esun)
  BY DEF Selectable
<1> HIDE DEF result, why
<1>5. result.selected \cap result.rejected = {}
  BY <1>2, <1>3, <1>4 DEF Overlap
<1> QED
  BY <1>1, <1>2, <1>4, <1>5 DEF DecidesSafely, result
==============================================================================
