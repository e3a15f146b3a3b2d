--------------------------- MODULE Decisions_proofs ---------------------------
(******************************************************************************)
(* Theorems about Decisions, for any inputs that QuestionAssumption admits:   *)
(* what a history is enough for, the chain of tests of evaluate_supplemental, *)
(* the date and the securities of a day, what a read shows, and what a scan   *)
(* finds and ranks.                                                           *)
(******************************************************************************)
EXTENDS Decisions, SupplementalEligibility_proofs

(******************************************************************************)
(* What a history is enough for.                                              *)
(******************************************************************************)
(* HistoryObservations is the largest of the five look-backs.                 *)
LEMMA ObservationsNeeded ==
  LET needs == {3, VolumeWindow + 2, ReturnWindow + 2, VolatilityWindow + 2, MaWindow + 1}
  IN  /\ HistoryObservations \in needs
      /\ \A m \in needs : m =< HistoryObservations
<1> DEFINE needs == {3, VolumeWindow + 2, ReturnWindow + 2, VolatilityWindow + 2, MaWindow + 1}
<1>1. needs \in SUBSET Nat /\ needs # {}
  BY Stage1Assumption
<1>2. IsFiniteSet(needs)
  <2>1. needs = ((({3} \cup {VolumeWindow + 2}) \cup {ReturnWindow + 2})
                    \cup {VolatilityWindow + 2}) \cup {MaWindow + 1}
    OBVIOUS
  <2> HIDE DEF needs
  <2> QED
    BY <2>1, FS_Singleton, FS_Union
<1> HIDE DEF needs
<1>3. \E n \in needs : \A m \in needs : m =< n
  BY <1>1, <1>2, LargestExists
<1> QED
  BY <1>3 DEF HistoryObservations, needs

(* Prices enough for Stage 1, and the last of them. *)
Enough == {p \in Seq([close : Nat \ {0}, volume : Nat]) : Len(p) >= HistoryObservations}
LastOf(p) == SubSeq(p, Len(p) - HistoryObservations + 1, Len(p))

(* The last observations are the same, counted back from the last.            *)
LEMMA TailReads ==
  ASSUME NEW p \in Enough
  PROVE  /\ HistoryObservations \in Nat \ {0, 1, 2} /\ Len(LastOf(p)) = HistoryObservations
         /\ Len(p) \in Nat /\ Len(p) >= HistoryObservations
         /\ LastOf(p) \in Seq([close : Nat \ {0}, volume : Nat])
         /\ \A k \in 0 .. HistoryObservations - 1 :
              /\ Close(LastOf(p), k) = Close(p, k) /\ Close(p, k) \in Nat \ {0}
              /\ Volume(LastOf(p), k) = Volume(p, k)
<1> DEFINE row == [close : Nat \ {0}, volume : Nat]
           n == HistoryObservations
<1>1. p \in Seq(row) /\ Len(p) \in Nat /\ Len(p) >= n
  BY DEF Enough
<1>2. n \in Nat \ {0, 1, 2}
  BY ObservationsNeeded, Stage1Assumption
<1> HIDE DEF row, n
<1>3. /\ Len(SubSeq(p, Len(p) - n + 1, Len(p))) = n
      /\ \A i \in 1 .. n : SubSeq(p, Len(p) - n + 1, Len(p))[i] = p[Len(p) - n + i]
  BY <1>1, <1>2
<1>4. Len(LastOf(p)) = n /\ \A i \in 1 .. n : LastOf(p)[i] = p[Len(p) - n + i]
  BY <1>3 DEF LastOf, n
<1>5. ASSUME NEW k \in 0 .. n - 1
      PROVE  LastOf(p)[n - k] = p[Len(p) - k] /\ p[Len(p) - k] \in row
  <2>1. n - k \in 1 .. n /\ Len(p) - n + (n - k) = Len(p) - k /\ Len(p) - k \in 1 .. Len(p)
    BY <1>1, <1>2
  <2>2. LastOf(p)[n - k] = p[Len(p) - n + (n - k)]
    BY <1>4, <2>1
  <2> QED
    BY <1>1, <2>1, <2>2
<1>6. LastOf(p) \in Seq(row)
  BY <1>1, <1>2 DEF LastOf, n
<1>7. ASSUME NEW k \in 0 .. n - 1
      PROVE  /\ Close(LastOf(p), k) = Close(p, k) /\ Close(p, k) \in Nat \ {0}
             /\ Volume(LastOf(p), k) = Volume(p, k)
  BY <1>4, <1>5 DEF Close, Volume, row
<1> QED
  BY <1>1, <1>2, <1>4, <1>6, <1>7 DEF n, row

(* Each metric of Stage 1 measures the last observations alone.               *)
LEMMA PriceChangeTail ==
  ASSUME NEW p \in Enough
  PROVE  PriceChange(p) = PriceChange(LastOf(p)) /\ PriceChange(LastOf(p)).status = "available"
<1>1. /\ Len(p) >= 3 /\ Len(LastOf(p)) >= 3 /\ 0 .. 2 \subseteq 0 .. HistoryObservations - 1
  BY TailReads
<1>2. \A k \in 0 .. HistoryObservations - 1 :
         Close(LastOf(p), k) = Close(p, k) /\ ~(Close(p, k) =< 0)
  BY TailReads
<1>3. \A k \in 0 .. 2 : Close(LastOf(p), k) = Close(p, k) /\ ~(Close(p, k) =< 0)
  BY <1>1, <1>2
<1> QED
  BY <1>1, <1>3 DEF PriceChange, Measured, Available

LEMMA VolumeTail ==
  ASSUME NEW p \in Enough
  PROVE  /\ VolumeAnomaly(p) = VolumeAnomaly(LastOf(p))
         /\ VolumeAnomaly(LastOf(p)).status # "insufficient_history"
<1> DEFINE row == [close : Nat \ {0}, volume : Nat]
           n == HistoryObservations
           q == LastOf(p)
<1>1. /\ Len(p) \in Nat /\ Len(p) >= n /\ n >= VolumeWindow + 2 /\ Len(q) = n
      /\ n \in Nat /\ VolumeWindow \in Nat \ {0}
  BY TailReads, ObservationsNeeded, Stage1Assumption
<1>2. \A k \in 0 .. n - 1 : Volume(q, k) = Volume(p, k)
  BY TailReads
<1>3. p \in Seq(row) /\ q \in Seq(row)
  BY TailReads DEF Enough
<1> HIDE DEF row, n, q
<1>4. ASSUME NEW k \in {0, 1}, NEW s \in Seq(row), Len(s) >= VolumeWindow + 2
      PROVE  Baseline(s, k) = Total([i \in 1 .. VolumeWindow |-> Volume(s, k + VolumeWindow + 1 - i)])
  <2> DEFINE rows == Earlier(s, k, VolumeWindow)
  <2>1. /\ Len(s) - k - VolumeWindow \in 1 .. Len(s) /\ Len(s) - k - 1 \in 1 .. Len(s)
        /\ Len(s) \in Nat
    BY <1>1, <1>4
  <2>2. /\ rows \in Seq(row) /\ Len(rows) = VolumeWindow
        /\ \A i \in 1 .. VolumeWindow : rows[i] = s[Len(s) - k - VolumeWindow + i - 1]
    BY <1>1, <2>1 DEF Earlier
  <2>3. DOMAIN rows = 1 .. VolumeWindow
    BY <1>1, <2>2
  <2>4. ASSUME NEW i \in 1 .. VolumeWindow
        PROVE  rows[i].volume = Volume(s, k + VolumeWindow + 1 - i)
    <3>1. Len(s) - k - VolumeWindow + i - 1 = Len(s) - (k + VolumeWindow + 1 - i)
      BY <1>1, <2>1
    <3> QED
      BY <2>2, <3>1 DEF Volume
  <2> HIDE DEF rows
  <2>5. [i \in DOMAIN rows |-> rows[i].volume]
          = [i \in 1 .. VolumeWindow |-> Volume(s, k + VolumeWindow + 1 - i)]
    BY <2>3, <2>4
  <2> QED
    BY <2>5 DEF Baseline, rows
<1>5. ASSUME NEW k \in {0, 1} PROVE Baseline(p, k) = Baseline(q, k) /\ Volume(p, k) = Volume(q, k)
  <2>1. \A i \in 1 .. VolumeWindow : k + VolumeWindow + 1 - i \in 0 .. n - 1
    BY <1>1
  <2>2. [i \in 1 .. VolumeWindow |-> Volume(p, k + VolumeWindow + 1 - i)]
          = [i \in 1 .. VolumeWindow |-> Volume(q, k + VolumeWindow + 1 - i)]
    BY <1>2, <2>1
  <2>3. Len(p) >= VolumeWindow + 2 /\ Len(q) >= VolumeWindow + 2
    BY <1>1
  <2>4. /\ Baseline(p, k) = Total([i \in 1 .. VolumeWindow |-> Volume(p, k + VolumeWindow + 1 - i)])
        /\ Baseline(q, k) = Total([i \in 1 .. VolumeWindow |-> Volume(q, k + VolumeWindow + 1 - i)])
    BY <1>3, <1>4, <2>3
  <2>5. Baseline(p, k) = Baseline(q, k)
    BY <2>2, <2>4
  <2> QED
    BY <1>1, <1>2, <2>5
<1>6. ~(Len(q) < VolumeWindow + 2) /\ ~(Len(p) < VolumeWindow + 2)
  BY <1>1
<1>7. VolumeAnomaly(p) = VolumeAnomaly(q)
  BY <1>5, <1>6 DEF VolumeAnomaly, Measured, VolumeRatio
<1>8. VolumeAnomaly(q).status # "insufficient_history"
  BY <1>6 DEF VolumeAnomaly, Measured, Available, Unavailable
<1> QED
  BY <1>7, <1>8 DEF q

LEMMA ReturnTail ==
  ASSUME NEW p \in Enough
  PROVE  ReturnChange(p) = ReturnChange(LastOf(p)) /\ ReturnChange(LastOf(p)).status = "available"
<1>1. /\ Len(p) >= ReturnWindow + 2 /\ Len(LastOf(p)) >= ReturnWindow + 2
      /\ {0, 1, ReturnWindow, ReturnWindow + 1} \subseteq 0 .. HistoryObservations - 1
      /\ 0 + ReturnWindow = ReturnWindow /\ 1 + ReturnWindow = ReturnWindow + 1
  BY TailReads, ObservationsNeeded, Stage1Assumption
<1>2. \A k \in 0 .. HistoryObservations - 1 :
         Close(LastOf(p), k) = Close(p, k) /\ ~(Close(p, k) =< 0)
  BY TailReads
<1>3. \A k \in {0, 1, ReturnWindow, ReturnWindow + 1} :
         Close(LastOf(p), k) = Close(p, k) /\ ~(Close(p, k) =< 0)
  BY <1>1, <1>2
<1>4. \A k \in {0, 1} : ReturnOver(LastOf(p), k) = ReturnOver(p, k)
  BY <1>1, <1>3 DEF ReturnOver
<1> QED
  BY <1>1, <1>3, <1>4 DEF ReturnChange, Measured, Available

LEMMA VolatilityTail ==
  ASSUME NEW p \in Enough
  PROVE  /\ VolatilityRegime(p) = VolatilityRegime(LastOf(p))
         /\ VolatilityRegime(LastOf(p)).status = "available"
<1> DEFINE w == VolatilityWindow
           q == LastOf(p)
<1>1. /\ Len(p) >= w + 2 /\ Len(q) >= w + 2 /\ w \in Nat
      /\ \A k \in 0 .. w + 1 : k \in 0 .. HistoryObservations - 1
  BY TailReads, ObservationsNeeded, Stage1Assumption
<1>2. \A k \in 0 .. w + 1 : Close(q, k) = Close(p, k) /\ ~(Close(p, k) =< 0)
  <2>1. \A k \in 0 .. HistoryObservations - 1 : Close(q, k) = Close(p, k) /\ ~(Close(p, k) =< 0)
    BY TailReads
  <2> QED
    BY <1>1, <2>1
<1> HIDE DEF w, q
<1>3. ASSUME NEW k \in {0, 1} PROVE Volatility(q, k) = Volatility(p, k)
  <2>1. \A i \in 1 .. w : k + i - 1 \in 0 .. w + 1 /\ k + i \in 0 .. w + 1
    BY <1>1
  <2>2. [i \in 1 .. w |-> Percent(Close(q, k + i - 1), Close(q, k + i))]
          = [i \in 1 .. w |-> Percent(Close(p, k + i - 1), Close(p, k + i))]
    BY <1>2, <2>1
  <2> QED
    BY <2>2 DEF Volatility, w
<1> QED
  BY <1>1, <1>2, <1>3 DEF VolatilityRegime, Measured, Available, w, q

LEMMA MaTail ==
  ASSUME NEW p \in Enough
  PROVE  /\ MaDistanceChange(p) = MaDistanceChange(LastOf(p))
         /\ MaDistanceChange(LastOf(p)).status = "available"
<1> DEFINE w == MaWindow
           q == LastOf(p)
<1>1. /\ Len(p) >= w + 1 /\ Len(q) >= w + 1 /\ w \in Nat \ {0}
      /\ \A k \in 0 .. w : k \in 0 .. HistoryObservations - 1
  BY TailReads, ObservationsNeeded, Stage1Assumption
<1>2. \A k \in 0 .. w : Close(q, k) = Close(p, k) /\ ~(Close(p, k) =< 0)
  <2>1. \A k \in 0 .. HistoryObservations - 1 : Close(q, k) = Close(p, k) /\ ~(Close(p, k) =< 0)
    BY TailReads
  <2> QED
    BY <1>1, <2>1
<1> HIDE DEF w, q
<1>3. ASSUME NEW k \in {0, 1} PROVE MaDistance(q, k) = MaDistance(p, k)
  <2>1. \A i \in 1 .. w : k + i - 1 \in 0 .. w
    BY <1>1
  <2>2. [i \in 1 .. w |-> Close(q, k + i - 1)] = [i \in 1 .. w |-> Close(p, k + i - 1)]
    BY <1>2, <2>1
  <2>3. Close(q, k) = Close(p, k)
    BY <1>1, <1>2
  <2> QED
    BY <2>2, <2>3 DEF MaDistance, w
<1> QED
  BY <1>1, <1>2, <1>3 DEF MaDistanceChange, Measured, Available, w, q

(* With one observation less, the metric of the longest look-back has too few. *)
LEMMA ShortOf ==
  ASSUME NEW p \in Seq([close : Nat \ {0}, volume : Nat]), Len(p) < HistoryObservations
  PROVE  \E m \in PriceMetrics : PriceMetric(p, m).status = "insufficient_history"
<1>1. \/ Len(p) < 3 \/ Len(p) < VolumeWindow + 2 \/ Len(p) < ReturnWindow + 2
      \/ Len(p) < VolatilityWindow + 2 \/ Len(p) < MaWindow + 1
  BY ObservationsNeeded
<1>2. CASE Len(p) < 3
  <2>1. PriceMetric(p, "price_change_1d").status = "insufficient_history"
    BY <1>2 DEF PriceMetric, PriceChange, Measured, Unavailable
  <2> QED
    BY <2>1 DEF PriceMetrics
<1>3. CASE Len(p) < VolumeWindow + 2
  <2>1. PriceMetric(p, "volume_anomaly").status = "insufficient_history"
    BY <1>3 DEF PriceMetric, VolumeAnomaly, Measured, Unavailable
  <2> QED
    BY <2>1 DEF PriceMetrics
<1>4. CASE Len(p) < ReturnWindow + 2
  <2>1. PriceMetric(p, "return_20d_change").status = "insufficient_history"
    BY <1>4 DEF PriceMetric, ReturnChange, Measured, Unavailable
  <2> QED
    BY <2>1 DEF PriceMetrics
<1>5. CASE Len(p) < VolatilityWindow + 2
  <2>1. PriceMetric(p, "volatility_regime_change").status = "insufficient_history"
    BY <1>5 DEF PriceMetric, VolatilityRegime, Measured, Unavailable
  <2> QED
    BY <2>1 DEF PriceMetrics
<1>6. CASE Len(p) < MaWindow + 1
  <2>1. PriceMetric(p, "ma_distance_change").status = "insufficient_history"
    BY <1>6 DEF PriceMetric, MaDistanceChange, Measured, Unavailable
  <2> QED
    BY <2>1 DEF PriceMetrics
<1> QED
  BY <1>1, <1>2, <1>3, <1>4, <1>5, <1>6

LEMMA HistorySuffices ==
  ASSUME NEW p \in Enough
  PROVE  Suffices(p)
<1> DEFINE n == HistoryObservations
           row == [close : Nat \ {0}, volume : Nat]
           q == LastOf(p)
           Short1(s) == \E m \in PriceMetrics : PriceMetric(s, m).status = "insufficient_history"
<1>1. q \in Seq(row) /\ Len(q) = n /\ n \in Nat \ {0}
  BY TailReads DEF LastOf
<1>2. Tail(q) \in Seq(row) /\ Len(Tail(q)) < n
  BY <1>1
<1>3. Short1(Tail(q))
  BY <1>2, ShortOf
<1>4. ASSUME NEW m \in PriceMetrics
      PROVE  PriceMetric(p, m) = PriceMetric(q, m) /\ PriceMetric(q, m).status # "insufficient_history"
  <2>1. /\ PriceMetric(q, "price_change_1d") = PriceChange(q)
        /\ PriceMetric(q, "volume_anomaly") = VolumeAnomaly(q)
        /\ PriceMetric(q, "return_20d_change") = ReturnChange(q)
        /\ PriceMetric(q, "volatility_regime_change") = VolatilityRegime(q)
        /\ PriceMetric(q, "ma_distance_change") = MaDistanceChange(q)
    BY DEF PriceMetric
  <2>2. /\ PriceMetric(p, "price_change_1d") = PriceChange(p)
        /\ PriceMetric(p, "volume_anomaly") = VolumeAnomaly(p)
        /\ PriceMetric(p, "return_20d_change") = ReturnChange(p)
        /\ PriceMetric(p, "volatility_regime_change") = VolatilityRegime(p)
        /\ PriceMetric(p, "ma_distance_change") = MaDistanceChange(p)
    BY DEF PriceMetric
  <2> HIDE DEF q
  <2> QED
    BY <2>1, <2>2, PriceChangeTail, VolumeTail, ReturnTail, VolatilityTail, MaTail
       DEF PriceMetrics, q
<1> QED
  BY <1>3, <1>4 DEF Suffices, LastOf

(* The two stages compute the same quotients from the same closes.            *)
LEMMA StagesAgree ==
  ASSUME NEW p \in Enough
  PROVE  StagesMeasureAlike(p)
<1>1. ASSUME ReturnWindow = Short
      PROVE  ReturnChange(p).current = DeepMetric(p, <<"return", Short>>).current
  <2>1. ReturnChange(p).current = ReturnOver(p, 0)
    <3>1. ReturnChange(p).status = "available"
      BY ReturnTail
    <3> QED
      BY <3>1 DEF ReturnChange, Measured, Available, Unavailable
  <2>2. Indicator(p, <<"return", Short>>) = ReturnOver(p, 0)
    <3>1. Len(p) > Short /\ 0 + Short = Short
      BY <1>1, TailReads, ObservationsNeeded, Stage1Assumption
    <3>2. Indicator(p, <<"return", Short>>) = WindowReturn(p, Short)
      BY DEF Indicator
    <3> QED
      BY <1>1, <3>1, <3>2 DEF WindowReturn, ReturnOver
  <2> QED
    BY <2>1, <2>2 DEF DeepMetric, Available, Unavailable
<1>2. ASSUME MaWindow = Short
      PROVE  MaDistanceChange(p).current = DeepMetric(p, <<"ma_distance", Short>>).current
  <2>1. MaDistanceChange(p).current = MaDistance(p, 0)
    <3>1. MaDistanceChange(p).status = "available"
      BY MaTail
    <3> QED
      BY <3>1 DEF MaDistanceChange, Measured, Available, Unavailable
  <2>2. Indicator(p, <<"ma_distance", Short>>) = MaDistance(p, 0)
    <3>1. /\ ~(Len(p) < Short) /\ Short \in Nat
      BY <1>2, TailReads, ObservationsNeeded, Stage1Assumption
    <3>2. Indicator(p, <<"ma_distance", Short>>) = DistanceToMa(p, Short)
      BY DEF Indicator
    <3>3. [i \in 1 .. Short |-> Close(p, 0 + i - 1)] = [i \in 1 .. Short |-> Close(p, i - 1)]
      BY <3>1
    <3> QED
      BY <1>2, <3>1, <3>2, <3>3 DEF DistanceToMa, MaDistance
  <2> QED
    BY <2>1, <2>2 DEF DeepMetric, Available, Unavailable
<1> QED
  BY <1>1, <1>2 DEF StagesMeasureAlike

(******************************************************************************)
(* What is folded over a sequence of numbers is a number.                     *)
(******************************************************************************)
(* The maximum of a finite set of numbers is one of them.                     *)
LEMMA MaxIn ==
  ASSUME NEW s \in SUBSET Nat, IsFiniteSet(s), s # {}
  PROVE  Max(s) \in s
<1>1. \E x \in s : \A y \in s : y <= x
  BY LargestExists
<1>2. \E x \in s : \A y \in s : x >= y
  BY <1>1
<1> QED
  BY <1>2 DEF Max

Folding(S, T, base, step, iter) ==
  /\ iter \in [SUBSET S -> T]
  /\ \A s \in SUBSET S :
       iter[s] = IF s = {} THEN base ELSE step[Max(s)][iter[s \ {Max(s)}]]

(* The recursion of MapThenFoldSet over the subsets of a finite set, taking   *)
(* the largest member first, has a solution.                                  *)
LEMMA FoldExists ==
  ASSUME NEW S \in SUBSET Nat, IsFiniteSet(S), NEW T, NEW base \in T, NEW step \in [S -> [T -> T]]
  PROVE  \E iter : Folding(S, T, base, step, iter)
<1> DEFINE D(k) == {s \in SUBSET S : Cardinality(s) <= k}
           Solves(k, g) == \A s \in D(k) :
             g[s] = IF s = {} THEN base ELSE step[Max(s)][g[s \ {Max(s)}]]
           bad == {k \in Nat : ~ \E g \in [D(k) -> T] : Solves(k, g)}
<1>1. ASSUME NEW s \in SUBSET S
      PROVE  /\ IsFiniteSet(s) /\ Cardinality(s) \in Nat /\ Cardinality(s) <= Cardinality(S)
             /\ s # {} => /\ Max(s) \in s /\ Cardinality(s \ {Max(s)}) = Cardinality(s) - 1
                          /\ s \ {Max(s)} \in SUBSET S /\ Cardinality(s) # 0
             /\ Cardinality(s) = 0 => s = {}
  <2>1. IsFiniteSet(s) /\ Cardinality(s) \in Nat /\ Cardinality(s) <= Cardinality(S)
    BY FS_Subset, FS_CardinalityType
  <2>2. ASSUME s # {} PROVE Max(s) \in s
    BY <2>1, <2>2, MaxIn
  <2>3. ASSUME s # {} PROVE Cardinality(s \ {Max(s)}) = Cardinality(s) - 1
    BY <2>1, <2>2, <2>3, FS_RemoveElement
  <2>4. Cardinality(s) = 0 => s = {}
    BY <2>1, FS_EmptySet
  <2>5. s # {} => Cardinality(s) # 0
    BY <2>1, FS_EmptySet
  <2> QED
    BY <2>1, <2>2, <2>3, <2>4, <2>5
<1>2. bad = {}
  <2> SUFFICES ASSUME bad # {} PROVE FALSE
    OBVIOUS
  <2> DEFINE failing == bad
  <2> HIDE DEF failing
  <2>0. failing \in SUBSET Nat /\ failing # {}
    BY DEF failing
  <2>1. PICK k \in failing : \A j \in failing : k <= j
    BY <2>0, LeastExists
  <2>4. k \in Nat /\ \A j \in Nat : j < k => j \notin failing
    BY <2>0, <2>1
  <2>5. \A s \in SUBSET S : Cardinality(s) \in Nat /\ (Cardinality(s) = 0 => s = {})
    BY <1>1
  <2>2. CASE k = 0
    <3> DEFINE g == [s \in D(0) |-> base]
    <3>1. \A s \in D(0) : s = {}
      BY <2>5
    <3>2. g \in [D(0) -> T] /\ Solves(0, g)
      BY <3>1
    <3> QED
      BY <2>1, <2>2, <3>2 DEF failing
  <2>3. CASE k # 0
    <3>1. k - 1 \in Nat /\ k - 1 \notin failing
      BY <2>3, <2>4
    <3>2. PICK g \in [D(k - 1) -> T] : Solves(k - 1, g)
      BY <3>1 DEF failing
    <3>3. ASSUME NEW s \in D(k), s # {}
          PROVE  s \ {Max(s)} \in D(k - 1) /\ Max(s) \in S
      <4>1. /\ s \in SUBSET S /\ Cardinality(s) \in Nat /\ Cardinality(s) <= k
            /\ Max(s) \in s /\ Cardinality(s \ {Max(s)}) = Cardinality(s) - 1
        BY <1>1, <3>3
      <4> DEFINE less == s \ {Max(s)}
      <4>2. less \in SUBSET S /\ Max(s) \in S
        BY <4>1
      <4>3. Cardinality(less) <= k - 1
        BY <2>4, <4>1
      <4> HIDE DEF less
      <4>4. less \in D(k - 1)
        BY <4>2, <4>3
      <4> QED
        BY <4>2, <4>4 DEF less
    <3> DEFINE h == [s \in D(k) |-> IF s = {} THEN base ELSE step[Max(s)][g[s \ {Max(s)}]]]
    <3>4. h \in [D(k) -> T]
      <4> SUFFICES ASSUME NEW s \in D(k)
                   PROVE  (IF s = {} THEN base ELSE step[Max(s)][g[s \ {Max(s)}]]) \in T
        OBVIOUS
      <4>1. CASE s = {}
        BY <4>1
      <4>2. CASE s # {}
        <5> DEFINE less == s \ {Max(s)}
        <5>1. less \in D(k - 1) /\ Max(s) \in S
          BY <3>3, <4>2
        <5> HIDE DEF less, D
        <5>2. g[less] \in T
          BY <3>2, <5>1
        <5> QED
          BY <4>2, <5>1, <5>2 DEF less
      <4> QED
        BY <4>1, <4>2
    <3>5. \A s \in D(k - 1) : s \in D(k) /\ h[s] = g[s]
      <4> SUFFICES ASSUME NEW s \in D(k - 1) PROVE s \in D(k) /\ h[s] = g[s]
        OBVIOUS
      <4>1. s \in D(k)
        BY <2>4, <2>5
      <4> QED
        BY <4>1, <3>2
    <3>6. Solves(k, h)
      <4> SUFFICES ASSUME NEW s \in D(k)
                   PROVE  h[s] = IF s = {} THEN base ELSE step[Max(s)][h[s \ {Max(s)}]]
        OBVIOUS
      <4>1. s # {} => h[s \ {Max(s)}] = g[s \ {Max(s)}]
        BY <3>3, <3>5
      <4> QED
        BY <4>1
    <3> QED
      BY <2>1, <3>4, <3>6 DEF failing
  <2> QED
    BY <2>2, <2>3
<1>3. Cardinality(S) \in Nat /\ D(Cardinality(S)) = SUBSET S
  BY <1>1
<1>4. Cardinality(S) \notin bad
  BY <1>2
<1>5. \E iter \in [SUBSET S -> T] : Solves(Cardinality(S), iter)
  BY <1>3, <1>4
<1> QED
  BY <1>3, <1>5 DEF Folding

(* A solution has its values where its steps stay.                            *)
LEMMA FoldTyped ==
  ASSUME NEW S \in SUBSET Nat, IsFiniteSet(S), NEW T, NEW iter, iter[{}] \in T,
         \A s \in SUBSET S : s # {} /\ iter[s \ {Max(s)}] \in T => iter[s] \in T
  PROVE  \A s \in SUBSET S : iter[s] \in T
<1> DEFINE bad == {Cardinality(s) : s \in {t \in SUBSET S : iter[t] \notin T}}
<1>1. \A s \in SUBSET S : IsFiniteSet(s) /\ Cardinality(s) \in Nat
  BY FS_Subset, FS_CardinalityType
<1>2. bad \in SUBSET Nat
  BY <1>1
<1>3. SUFFICES ASSUME NEW s \in SUBSET S, iter[s] \notin T PROVE FALSE
  OBVIOUS
<1>4. bad # {}
  BY <1>3
<1> HIDE DEF bad
<1>5. PICK k \in bad : \A j \in bad : k <= j
  BY <1>2, <1>4, LeastExists
<1>6. PICK t \in SUBSET S : iter[t] \notin T /\ Cardinality(t) = k
  BY <1>5 DEF bad
<1>7. t # {}
  BY <1>6
<1>8. Max(t) \in t
  BY <1>1, <1>7, MaxIn
<1> DEFINE less == t \ {Max(t)}
<1>9. Cardinality(less) = k - 1 /\ less \in SUBSET S /\ k \in Nat
  BY <1>1, <1>6, <1>8, FS_RemoveElement
<1>10. iter[less] \notin T
  BY <1>6, <1>7
<1>11. Cardinality(less) \in bad
  BY <1>9, <1>10 DEF bad
<1> QED
  BY <1>5, <1>9, <1>11

(* A total of integers is an integer, of naturals a natural, and of positive  *)
(* numbers positive.                                                          *)
LEMMA TotalType ==
  ASSUME NEW T \in {Nat, Int}, NEW n \in Nat, NEW s, DOMAIN s = 1 .. n, \A i \in 1 .. n : s[i] \in T
  PROVE  /\ Total(s) \in T
         /\ n > 0 /\ T = Nat /\ (\A i \in 1 .. n : s[i] > 0) => Total(s) > 0
<1> DEFINE S == DOMAIN s
           iter == CHOOSE iter : iter = [t \in SUBSET S |-> IF t = {} THEN 0
                     ELSE iter[t \ {Max(t)}] + s[Max(t)]]
           step == [i \in S |-> [x \in T |-> x + s[i]]]
<1>1. S \in SUBSET Nat /\ IsFiniteSet(S)
  BY FS_Interval
<1>2. ASSUME NEW t \in SUBSET S, t # {} PROVE Max(t) \in S
  <2> HIDE DEF S
  <2>1. t \in SUBSET Nat /\ IsFiniteSet(t)
    BY <1>1, FS_Subset
  <2> QED
    BY <1>2, <2>1, MaxIn
<1>3. 0 \in T /\ \A x, y \in T : x + y \in T
  OBVIOUS
<1>4. step \in [S -> [T -> T]]
  BY <1>3
<1>5. \E f : f = [t \in SUBSET S |-> IF t = {} THEN 0 ELSE f[t \ {Max(t)}] + s[Max(t)]]
  <2> HIDE DEF step, S
  <2>1. PICK f \in [SUBSET S -> T] : \A t \in SUBSET S :
          f[t] = IF t = {} THEN 0 ELSE step[Max(t)][f[t \ {Max(t)}]]
    <3>1. 0 \in T
      BY <1>3
    <3>2. \E f : Folding(S, T, 0, step, f)
      BY <1>1, <1>3, <1>4, <3>1, FoldExists
    <3> QED
      BY <3>2 DEF Folding
  <2>2. ASSUME NEW t \in SUBSET S
        PROVE  f[t] = IF t = {} THEN 0 ELSE f[t \ {Max(t)}] + s[Max(t)]
    <3>1. CASE t = {}
      BY <2>1, <3>1
    <3>2. CASE t # {}
      <4>1. Max(t) \in S /\ t \ {Max(t)} \in SUBSET S
        BY <1>2, <3>2
      <4>2. f[t \ {Max(t)}] \in T
        BY <4>1
      <4>3. step[Max(t)][f[t \ {Max(t)}]] = f[t \ {Max(t)}] + s[Max(t)]
        BY <4>1, <4>2 DEF step
      <4> QED
        BY <2>1, <3>2, <4>3
    <3> QED
      BY <3>1, <3>2
  <2> QED
    BY <2>2
<1>6. iter = [t \in SUBSET S |-> IF t = {} THEN 0 ELSE iter[t \ {Max(t)}] + s[Max(t)]]
  BY <1>5
<1>7. Total(s) = iter[S]
  BY DEF Total, FoldLeft, MapThenFoldSet
<1> HIDE DEF iter
<1>8. iter[{}] \in T
  BY <1>3, <1>6
<1>9. ASSUME NEW t \in SUBSET S, t # {}, iter[t \ {Max(t)}] \in T
      PROVE  iter[t] \in T
  <2>1. Max(t) \in S
    BY <1>2, <1>9
  <2>2. s[Max(t)] \in T
    BY <2>1
  <2>3. iter[t] = iter[t \ {Max(t)}] + s[Max(t)]
    BY <1>6, <1>9
  <2> QED
    BY <1>3, <1>9, <2>2, <2>3
<1>10. \A t \in SUBSET S : iter[t] \in T
  BY <1>1, <1>8, <1>9, FoldTyped
<1>11. ASSUME n > 0, T = Nat, \A i \in 1 .. n : s[i] > 0
       PROVE  iter[S] > 0
  <2>1. S # {}
    BY <1>11
  <2>2. Max(S) \in 1 .. n
    BY <1>2, <2>1
  <2>3. iter[S] = iter[S \ {Max(S)}] + s[Max(S)]
    BY <1>6, <2>1
  <2>4. iter[S \ {Max(S)}] \in Nat
    BY <1>10, <1>11
  <2>5. s[Max(S)] \in Nat /\ s[Max(S)] > 0
    BY <1>11, <2>2
  <2> QED
    BY <2>3, <2>4, <2>5
<1> QED
  BY <1>7, <1>10, <1>11

(* The rounded root of _q is an integer.                                      *)
LEMMA RootType ==
  ASSUME NEW n \in Int
  PROVE  Root(n) \in Int
<1> DEFINE s == [i \in 1 .. 16 |-> 2 ^ (16 - i)]
           S == DOMAIN s
           Step(r, bit) == IF (r + bit) * (r + bit) =< n THEN r + bit ELSE r
           iter == CHOOSE iter : iter = [t \in SUBSET S |-> IF t = {} THEN 0
                     ELSE Step(iter[t \ {Max(t)}], s[Max(t)])]
           step == [i \in S |-> [x \in Int |-> Step(x, s[i])]]
<1>1. S \in SUBSET Nat /\ IsFiniteSet(S)
  <2>1. S = 1 .. 16 /\ 1 \in Int /\ 16 \in Int
    OBVIOUS
  <2> HIDE DEF S
  <2>2. 1 .. 16 \in SUBSET Nat
    OBVIOUS
  <2>3. IsFiniteSet(1 .. 16)
    BY <2>1, FS_Interval
  <2> QED
    BY <2>1, <2>2, <2>3
<1>2. ASSUME NEW t \in SUBSET S, t # {} PROVE Max(t) \in S
  <2> HIDE DEF S
  <2>1. t \in SUBSET Nat /\ IsFiniteSet(t)
    BY <1>1, FS_Subset
  <2> QED
    BY <1>2, <2>1, MaxIn
<1>3. \A i \in S : s[i] \in Int
  <2>1. \A i \in 1 .. 16 : 16 - i \in Nat
    OBVIOUS
  <2> QED
    BY <2>1
<1>4. Root(n) = iter[S]
  BY DEF Root, FoldLeft, MapThenFoldSet
<1> HIDE DEF s
<1>5. \A x, y \in Int : Step(x, y) \in Int
  OBVIOUS
<1> HIDE DEF Step
<1>6. step \in [S -> [Int -> Int]]
  BY <1>3, <1>5
<1>7. \E f : f = [t \in SUBSET S |-> IF t = {} THEN 0 ELSE Step(f[t \ {Max(t)}], s[Max(t)])]
  <2> HIDE DEF step, S
  <2>1. PICK f \in [SUBSET S -> Int] : \A t \in SUBSET S :
          f[t] = IF t = {} THEN 0 ELSE step[Max(t)][f[t \ {Max(t)}]]
    <3>1. 0 \in Int
      BY <1>3
    <3>2. \E f : Folding(S, Int, 0, step, f)
      BY <1>1, <1>6, <3>1, FoldExists
    <3> QED
      BY <3>2 DEF Folding
  <2>2. ASSUME NEW t \in SUBSET S
        PROVE  f[t] = IF t = {} THEN 0 ELSE Step(f[t \ {Max(t)}], s[Max(t)])
    <3>1. CASE t = {}
      BY <2>1, <3>1
    <3>2. CASE t # {}
      <4>1. Max(t) \in S /\ t \ {Max(t)} \in SUBSET S
        BY <1>2, <3>2
      <4>2. f[t \ {Max(t)}] \in Int
        BY <4>1
      <4>3. step[Max(t)][f[t \ {Max(t)}]] = Step(f[t \ {Max(t)}], s[Max(t)])
        BY <4>1, <4>2 DEF step
      <4> QED
        BY <2>1, <3>2, <4>3
    <3> QED
      BY <3>1, <3>2
  <2> QED
    BY <2>2
<1>8. iter = [t \in SUBSET S |-> IF t = {} THEN 0 ELSE Step(iter[t \ {Max(t)}], s[Max(t)])]
  BY <1>7
<1> HIDE DEF iter
<1>9. iter[{}] \in Int
  BY <1>8
<1>10. ASSUME NEW t \in SUBSET S, t # {}, iter[t \ {Max(t)}] \in Int
       PROVE  iter[t] \in Int
  <2>1. s[Max(t)] \in Int
    BY <1>2, <1>3, <1>10
  <2>2. iter[t] = Step(iter[t \ {Max(t)}], s[Max(t)])
    BY <1>8, <1>10
  <2> QED
    BY <1>5, <1>10, <2>1, <2>2
<1>11. iter[S] \in Int
  BY <1>1, <1>9, <1>10, FoldTyped
<1> QED
  BY <1>4, <1>11

(******************************************************************************)
(* Orders.                                                                    *)
(******************************************************************************)
(* A total order of a finite set, as a set of pairs.                          *)
Orders(R, S) ==
  /\ \A x \in S : <<x, x>> \notin R
  /\ \A x, y, z \in S : <<x, y>> \in R /\ <<y, z>> \in R => <<x, z>> \in R
  /\ \A x, y \in S : x = y \/ <<x, y>> \in R \/ <<y, x>> \in R

Predecessors(R, S, x) == {y \in S : <<y, x>> \in R}

(* The i-th member is the one that i - 1 others precede.                      *)
LEMMA RanksAreIt ==
  ASSUME NEW S, IsFiniteSet(S), NEW R, Orders(R, S)
  PROVE  /\ \A i \in 1 .. Cardinality(S) : \E x \in S : Cardinality(Predecessors(R, S, x)) = i - 1
         /\ \A x \in S : Cardinality(Predecessors(R, S, x)) + 1 \in 1 .. Cardinality(S)
         /\ \A x, y \in S : <<x, y>> \in R <=>
              Cardinality(Predecessors(R, S, x)) < Cardinality(Predecessors(R, S, y))
<1> DEFINE n == Cardinality(S)
           rank == [x \in S |-> Cardinality(Predecessors(R, S, x)) + 1]
<1>1. n \in Nat
  BY FS_CardinalityType
<1>2. ASSUME NEW x \in S
      PROVE  /\ IsFiniteSet(Predecessors(R, S, x)) /\ Cardinality(Predecessors(R, S, x)) \in Nat
             /\ Cardinality(Predecessors(R, S, x)) < n
  <2>1. Predecessors(R, S, x) \in SUBSET S /\ x \notin Predecessors(R, S, x)
    BY DEF Predecessors, Orders
  <2>2. /\ IsFiniteSet(Predecessors(R, S, x)) /\ Cardinality(Predecessors(R, S, x)) <= n
        /\ Cardinality(Predecessors(R, S, x)) = n => Predecessors(R, S, x) = S
    BY <2>1, FS_Subset
  <2>3. Cardinality(Predecessors(R, S, x)) \in Nat
    BY <2>2, FS_CardinalityType
  <2> QED
    BY <1>1, <2>1, <2>2, <2>3
<1>3. ASSUME NEW x \in S, NEW y \in S, <<x, y>> \in R
      PROVE  Cardinality(Predecessors(R, S, x)) < Cardinality(Predecessors(R, S, y))
  <2>1. Predecessors(R, S, x) \in SUBSET Predecessors(R, S, y)
    BY <1>3 DEF Predecessors, Orders
  <2>2. x \in Predecessors(R, S, y) /\ x \notin Predecessors(R, S, x)
    BY <1>3 DEF Predecessors, Orders
  <2>3. /\ Cardinality(Predecessors(R, S, x)) <= Cardinality(Predecessors(R, S, y))
        /\ Cardinality(Predecessors(R, S, x)) = Cardinality(Predecessors(R, S, y))
             => Predecessors(R, S, x) = Predecessors(R, S, y)
    BY <1>2, <2>1, FS_Subset
  <2> QED
    BY <1>2, <2>2, <2>3
<1>4. \A x, y \in S : x # y =>
         Cardinality(Predecessors(R, S, x)) # Cardinality(Predecessors(R, S, y))
  <2> SUFFICES ASSUME NEW x \in S, NEW y \in S, x # y
               PROVE  Cardinality(Predecessors(R, S, x)) # Cardinality(Predecessors(R, S, y))
    OBVIOUS
  <2>1. <<x, y>> \in R \/ <<y, x>> \in R
    BY DEF Orders
  <2> QED
    BY <1>2, <1>3, <2>1
<1>5. rank \in [S -> 1 .. n]
  BY <1>1, <1>2
<1>6. rank \in Surjection(S, 1 .. n)
  <2>1. IsFiniteSet(1 .. n) /\ Cardinality(1 .. n) = n
    BY <1>1, FS_Interval
  <2>2. \A x, y \in S : rank[x] = rank[y] => x = y
    <3> SUFFICES ASSUME NEW x \in S, NEW y \in S, rank[x] = rank[y] PROVE x = y
      OBVIOUS
    <3>1. Cardinality(Predecessors(R, S, x)) = Cardinality(Predecessors(R, S, y))
      BY <1>2
    <3> QED
      BY <1>4, <3>1
  <2> HIDE DEF rank
  <2>3. rank \in Injection(S, 1 .. n)
    BY <1>5, <2>2 DEF Injection, IsInjective
  <2> QED
    BY <2>1, <2>3, FS_Injection
<1>7. \A i \in 1 .. n : \E x \in S : rank[x] = i
  <2> HIDE DEF rank
  <2> QED
    BY <1>6 DEF Surjection
<1>8. ASSUME NEW i \in 1 .. n PROVE \E x \in S : Cardinality(Predecessors(R, S, x)) = i - 1
  <2>1. PICK x \in S : rank[x] = i
    BY <1>7
  <2>2. Cardinality(Predecessors(R, S, x)) = i - 1
    BY <1>2, <2>1
  <2> QED
    BY <2>2
<1>9. ASSUME NEW x \in S, NEW y \in S
      PROVE  <<x, y>> \in R <=>
               Cardinality(Predecessors(R, S, x)) < Cardinality(Predecessors(R, S, y))
  <2>1. x = y \/ <<x, y>> \in R \/ <<y, x>> \in R
    BY DEF Orders
  <2>2. <<y, x>> \in R => Cardinality(Predecessors(R, S, y)) < Cardinality(Predecessors(R, S, x))
    BY <1>3
  <2>3. <<x, y>> \in R => Cardinality(Predecessors(R, S, x)) < Cardinality(Predecessors(R, S, y))
    BY <1>3
  <2> QED
    BY <1>2, <2>1, <2>2, <2>3
<1>10. ASSUME NEW x \in S PROVE Cardinality(Predecessors(R, S, x)) + 1 \in 1 .. n
  BY <1>1, <1>2
<1> QED
  BY <1>8, <1>9, <1>10

Ranks(f, R, S) ==
  /\ f = [i \in 1 .. Cardinality(S) |-> f[i]]
  /\ \A i \in 1 .. Cardinality(S) : f[i] \in S /\ Cardinality(Predecessors(R, S, f[i])) = i - 1

(* So a list of them lists the set, in order.                                 *)
LEMMA RankedInOrder ==
  ASSUME NEW S, IsFiniteSet(S), NEW R, Orders(R, S), NEW f, Ranks(f, R, S)
  PROVE  /\ f \in [1 .. Cardinality(S) -> S]
         /\ \A x \in S : \E i \in 1 .. Cardinality(S) : f[i] = x
         /\ \A i, j \in 1 .. Cardinality(S) : <<f[i], f[j]>> \in R <=> i < j
<1> DEFINE n == Cardinality(S)
           size(x) == Cardinality(Predecessors(R, S, x))
<1>1. /\ \A i \in 1 .. n : \E x \in S : size(x) = i - 1
      /\ \A x \in S : size(x) + 1 \in 1 .. n
      /\ \A x, y \in S : <<x, y>> \in R <=> size(x) < size(y)
  BY RanksAreIt
<1>2. f = [i \in 1 .. n |-> f[i]] /\ \A i \in 1 .. n : f[i] \in S /\ size(f[i]) = i - 1
  BY DEF Ranks
<1>3. \A x \in S : size(x) \in Nat
  <2> SUFFICES ASSUME NEW x \in S PROVE size(x) \in Nat
    OBVIOUS
  <2>1. IsFiniteSet(Predecessors(R, S, x))
    BY FS_Subset DEF Predecessors
  <2> QED
    BY <2>1, FS_CardinalityType
<1>4. n \in Nat
  BY FS_CardinalityType
<1> HIDE DEF n, size
<1>5. \A i \in 1 .. n : f[i] \in S /\ size(f[i]) = i - 1
  BY <1>1, <1>2
<1>6. f \in [1 .. n -> S]
  BY <1>2, <1>5
<1>7. ASSUME NEW x \in S PROVE \E i \in 1 .. n : f[i] = x
  <2>1. size(x) + 1 \in 1 .. n
    BY <1>1
  <2>2. PICK i \in 1 .. n : i = size(x) + 1
    BY <2>1
  <2>3. f[i] \in S /\ size(f[i]) = i - 1 /\ size(x) \in Nat
    BY <1>3, <1>5
  <2>6. size(f[i]) = size(x)
    BY <2>2, <2>3
  <2>4. <<x, f[i]>> \notin R /\ <<f[i], x>> \notin R
    <3>1. ~(size(x) < size(f[i])) /\ ~(size(f[i]) < size(x))
      BY <2>3, <2>6
    <3> QED
      BY <1>1, <2>3, <3>1
  <2>5. f[i] = x
    BY <2>3, <2>4 DEF Orders
  <2> QED
    BY <2>5
<1>8. ASSUME NEW i \in 1 .. n, NEW j \in 1 .. n PROVE <<f[i], f[j]>> \in R <=> i < j
  <2>1. <<f[i], f[j]>> \in R <=> size(f[i]) < size(f[j])
    BY <1>1, <1>5
  <2>2. size(f[i]) = i - 1 /\ size(f[j]) = j - 1 
    BY <1>5
  <2>4. i \in Int /\ j \in Int
    BY <1>4
  <2>3. i - 1 < j - 1 <=> i < j
    BY <2>4
  <2> QED
    BY <2>1, <2>2, <2>3
<1> QED
  BY <1>6, <1>7, <1>8 DEF n

(* Lists of numbers, first difference first.                                  *)
LEMMA LexicalOrder ==
  ASSUME NEW n \in Nat, NEW k \in [1 .. n -> Int], NEW l \in [1 .. n -> Int]
  PROVE  /\ ~Precedes(k, k)
         /\ k # l => Precedes(k, l) \/ Precedes(l, k)
         /\ \A m \in [1 .. n -> Int] : Precedes(k, l) /\ Precedes(l, m) => Precedes(k, m)
<1>1. ~Precedes(k, k)
  BY DEF Precedes
<1>2. ASSUME k # l PROVE Precedes(k, l) \/ Precedes(l, k)
  <2> DEFINE differ == {i \in 1 .. n : k[i] # l[i]}
  <2>1. differ # {} /\ differ \in SUBSET Nat
    BY <1>2
  <2> HIDE DEF differ
  <2>2. PICK i \in differ : \A j \in differ : i <= j
    BY <2>1, LeastExists
  <2>3. i \in 1 .. n /\ k[i] # l[i] /\ \A j \in 1 .. n : k[j] # l[j] => i <= j
    BY <2>2 DEF differ
  <2>4. \A j \in 1 .. i - 1 : k[j] = l[j] /\ l[j] = k[j]
    BY <2>3
  <2>5. k[i] < l[i] \/ l[i] < k[i]
    BY <2>3
  <2> QED
    BY <2>3, <2>4, <2>5 DEF Precedes
<1>3. ASSUME NEW m \in [1 .. n -> Int], Precedes(k, l), Precedes(l, m) PROVE Precedes(k, m)
  <2>1. PICK i \in 1 .. n : k[i] < l[i] /\ \A j \in 1 .. i - 1 : k[j] = l[j]
    BY <1>3 DEF Precedes
  <2>2. PICK h \in 1 .. n : l[h] < m[h] /\ \A j \in 1 .. h - 1 : l[j] = m[j]
    BY <1>3 DEF Precedes
  <2>3. CASE i < h
    <3>1. k[i] < m[i] /\ \A j \in 1 .. i - 1 : k[j] = m[j]
      BY <2>1, <2>2, <2>3
    <3> QED
      BY <3>1 DEF Precedes
  <2>4. CASE i = h
    <3>1. k[i] < m[i] /\ \A j \in 1 .. i - 1 : k[j] = m[j]
      BY <2>1, <2>2, <2>4
    <3> QED
      BY <3>1 DEF Precedes
  <2>5. CASE h < i
    <3>1. k[h] < m[h] /\ \A j \in 1 .. h - 1 : k[j] = m[j]
      BY <2>1, <2>2, <2>5
    <3> QED
      BY <3>1 DEF Precedes
  <2> QED
    BY <2>3, <2>4, <2>5
<1> QED
  BY <1>1, <1>2, <1>3

(******************************************************************************)
(* Numbers.                                                                   *)
(******************************************************************************)
Number == Int \cup {NoNumber}

PriceRows(T) == \A r \in T : r.close \in Nat \ {0} /\ r.volume \in Nat
Priced(p) == \E T : p \in Seq(T) /\ PriceRows(T)

Measure(m) == m.previous \in Number /\ m.current \in Number /\ m.delta \in Number

(* A quotient by a positive number is an integer: _q always rounds.           *)
LEMMA QuotientType ==
  ASSUME NEW a \in Int, NEW b \in Int, b > 0
  PROVE  Quotient(a, b) \in Int
BY Stage1Assumption DEF Quotient

(* A percentage of a positive number is an integer.                           *)
LEMMA PercentType ==
  ASSUME NEW a \in Int, NEW b \in Nat \ {0}
  PROVE  Percent(a, b) \in Int
<1>1. 100 * (a - b) \in Int /\ b \in Int /\ b > 0
  OBVIOUS
<1> QED
  BY <1>1, QuotientType DEF Percent

(* Closes are positive and volumes not negative, whichever observation is     *)
(* read.                                                                      *)
LEMMA PricedReads ==
  ASSUME NEW p, Priced(p)
  PROVE  /\ Len(p) \in Nat
         /\ \A k \in 0 .. Len(p) - 1 : Close(p, k) \in Nat \ {0} /\ Volume(p, k) \in Nat
<1>1. PICK T : p \in Seq(T) /\ PriceRows(T)
  BY DEF Priced
<1>2. Len(p) \in Nat
  BY <1>1
<1>3. ASSUME NEW k \in 0 .. Len(p) - 1
      PROVE  Close(p, k) \in Nat \ {0} /\ Volume(p, k) \in Nat
  <2>1. Len(p) - k \in 1 .. Len(p)
    BY <1>2
  <2>2. p[Len(p) - k] \in T
    BY <1>1, <2>1
  <2> QED
    BY <1>1, <2>2 DEF Close, Volume, PriceRows
<1> QED
  BY <1>2, <1>3

(* Without their last observation prices are still prices.                    *)
LEMMA PricedPrefix ==
  ASSUME NEW p, Priced(p), Len(p) > 1
  PROVE  /\ Priced(SubSeq(p, 1, Len(p) - 1))
         /\ Len(SubSeq(p, 1, Len(p) - 1)) = Len(p) - 1
<1>1. PICK T : p \in Seq(T) /\ PriceRows(T)
  BY DEF Priced
<1>2. SubSeq(p, 1, Len(p) - 1) \in Seq(T) /\ Len(SubSeq(p, 1, Len(p) - 1)) = Len(p) - 1
  BY <1>1
<1> QED
  BY <1>1, <1>2 DEF Priced

(* What is measured is a metric of numbers, or unavailable.                   *)
LEMMA MeasuredType ==
  ASSUME NEW p, NEW needed, NEW broken, NEW previous, NEW current,
         ~(Len(p) < needed) /\ ~broken => previous \in Int /\ current \in Int
  PROVE  Measure(Measured(p, needed, broken, previous, current))
BY DEF Measured, Measure, Available, Unavailable, Number

(* Each of the five price metrics is a metric of numbers, or unavailable.     *)
LEMMA PriceChangeType == ASSUME NEW p, Priced(p) PROVE Measure(PriceChange(p))
<1>1. ASSUME ~(Len(p) < 3)
      PROVE  /\ Percent(Close(p, 1), Close(p, 2)) \in Int
             /\ Percent(Close(p, 0), Close(p, 1)) \in Int
  <2>1. \A k \in {0, 1, 2} : Close(p, k) \in Nat \ {0}
    BY <1>1, PricedReads
  <2> QED
    BY <2>1, PercentType
<1> QED
  BY <1>1, MeasuredType DEF PriceChange

LEMMA VolumeType == ASSUME NEW p, Priced(p) PROVE Measure(VolumeAnomaly(p))
<1> DEFINE w == VolumeWindow
<1>1. w \in Nat \ {0} /\ Len(p) \in Nat
  BY Stage1Assumption, PricedReads
<1>2. ASSUME ~(Len(p) < w + 2), NEW k \in {0, 1}
      PROVE  Baseline(p, k) \in Nat /\ Volume(p, k) \in Nat
  <2>1. PICK T : p \in Seq(T) /\ PriceRows(T)
    BY DEF Priced
  <2> DEFINE rows == Earlier(p, k, w)
             volumes == [i \in DOMAIN rows |-> rows[i].volume]
  <2>2. Len(p) - k - w \in 1 .. Len(p) /\ Len(p) - k - 1 \in 1 .. Len(p)
    BY <1>1, <1>2
  <2>3. rows \in Seq(T) /\ Len(rows) = w
    BY <1>1, <2>1, <2>2 DEF Earlier
  <2>4. DOMAIN rows = 1 .. w /\ \A i \in 1 .. w : rows[i] \in T
    BY <2>3
  <2> HIDE DEF rows
  <2>5. DOMAIN volumes = 1 .. w /\ \A i \in 1 .. w : volumes[i] \in Nat
    BY <2>1, <2>4 DEF PriceRows
  <2> HIDE DEF volumes
  <2>6. Total(volumes) \in Nat
    BY <1>1, <2>5, TotalType
  <2>7. Baseline(p, k) = Total(volumes)
    BY DEF Baseline, volumes, rows
  <2>8. Volume(p, k) \in Nat
    BY <1>1, <1>2, PricedReads
  <2> QED
    BY <2>6, <2>7, <2>8
<1>3. ASSUME ~(Len(p) < w + 2), NEW k \in {0, 1}, ~(Baseline(p, k) =< 0)
      PROVE  VolumeRatio(p, k) \in Int
  <2>1. Volume(p, k) * w \in Int /\ Baseline(p, k) \in Int /\ Baseline(p, k) > 0
    BY <1>1, <1>2, <1>3
  <2> QED
    BY <2>1, QuotientType DEF VolumeRatio
<1> QED
  BY <1>3, MeasuredType DEF VolumeAnomaly

LEMMA ReturnType == ASSUME NEW p, Priced(p) PROVE Measure(ReturnChange(p))
<1>1. ASSUME ~(Len(p) < ReturnWindow + 2), NEW k \in {0, 1}
      PROVE  ReturnOver(p, k) \in Int
  <2>1. k \in 0 .. Len(p) - 1 /\ k + ReturnWindow \in 0 .. Len(p) - 1
    BY <1>1, PricedReads, Stage1Assumption
  <2>2. Close(p, k) \in Nat \ {0} /\ Close(p, k + ReturnWindow) \in Nat \ {0}
    BY <2>1, PricedReads
  <2> QED
    BY <2>2, PercentType DEF ReturnOver
<1> QED
  BY <1>1, MeasuredType DEF ReturnChange

(* Daily returns, and the deviations made of them.                            *)
LEMMA DeviationType ==
  ASSUME NEW p, Priced(p), NEW k \in Nat, NEW n \in Nat \ {0, 1}, Len(p) > k + n
  PROVE  LET returns == [i \in 1 .. n |-> Percent(Close(p, k + i - 1), Close(p, k + i))]
             squares == Total([i \in 1 .. n |-> returns[i] * returns[i]])
         IN  n * squares - Total(returns) * Total(returns) \in Int
<1> DEFINE returns == [i \in 1 .. n |-> Percent(Close(p, k + i - 1), Close(p, k + i))]
           powers == [i \in 1 .. n |-> returns[i] * returns[i]]
<1>1. ASSUME NEW i \in 1 .. n PROVE returns[i] \in Int
  <2>1. k + i - 1 \in 0 .. Len(p) - 1 /\ k + i \in 0 .. Len(p) - 1
    BY PricedReads
  <2>2. Close(p, k + i - 1) \in Nat \ {0} /\ Close(p, k + i) \in Nat \ {0}
    BY <2>1, PricedReads
  <2> QED
    BY <2>2, PercentType
<1>2. DOMAIN returns = 1 .. n
  OBVIOUS
<1> HIDE DEF returns
<1>3. \A i \in 1 .. n : powers[i] \in Int
  BY <1>1
<1>4. DOMAIN powers = 1 .. n
  OBVIOUS
<1> HIDE DEF powers
<1>5. Total(returns) \in Int
  BY <1>1, <1>2, TotalType
<1>6. Total(powers) \in Int
  BY <1>3, <1>4, TotalType
<1>7. n * Total(powers) - Total(returns) * Total(returns) \in Int
  BY <1>5, <1>6
<1> QED
  BY <1>7 DEF powers, returns

LEMMA VolatilityType == ASSUME NEW p, Priced(p) PROVE Measure(VolatilityRegime(p))
<1> DEFINE n == VolatilityWindow
<1>1. ASSUME ~(Len(p) < n + 2), NEW k \in {0, 1}
      PROVE  Volatility(p, k) \in Int
  <2> DEFINE returns == [i \in 1 .. n |-> Percent(Close(p, k + i - 1), Close(p, k + i))]
             squares == Total([i \in 1 .. n |-> returns[i] * returns[i]])
             sum == n * squares - Total(returns) * Total(returns)
             scaled == (AnnualizationDays * sum) \div (n * (n - 1))
  <2>1. n \in Nat \ {0, 1} /\ k \in Nat /\ Len(p) > k + n /\ AnnualizationDays \in Nat
    BY <1>1, PricedReads, Stage1Assumption
  <2>2. sum \in Int
    BY <2>1, DeviationType
  <2>3. Volatility(p, k) = Root(scaled)
    BY DEF Volatility
  <2> HIDE DEF sum
  <2>4. n * (n - 1) \in Nat \ {0}
    <3>1. n > 0 /\ n - 1 > 0 /\ n - 1 \in Int
      BY <2>1
    <3> QED
      BY <2>1, <3>1
  <2>5. AnnualizationDays * sum \in Int
    BY <2>1, <2>2
  <2>6. scaled \in Int
    BY <2>4, <2>5
  <2> QED
    BY <2>3, <2>6, RootType
<1> QED
  BY <1>1, MeasuredType DEF VolatilityRegime

(* The distance from a moving average of positive closes is an integer.       *)
LEMMA MaDistanceType ==
  ASSUME NEW p, Priced(p), NEW k \in Nat, NEW w \in Nat \ {0}, Len(p) >= k + w
  PROVE  Percent(Close(p, k) * w, Total([i \in 1 .. w |-> Close(p, k + i - 1)])) \in Int
<1> DEFINE closes == [i \in 1 .. w |-> Close(p, k + i - 1)]
<1>1. ASSUME NEW i \in 1 .. w PROVE closes[i] \in Nat \ {0}
  <2>1. k + i - 1 \in 0 .. Len(p) - 1
    BY PricedReads
  <2> QED
    BY <2>1, PricedReads
<1>2. DOMAIN closes = 1 .. w
  OBVIOUS
<1> HIDE DEF closes
<1>3. \A i \in 1 .. w : closes[i] \in Nat /\ closes[i] > 0
  BY <1>1
<1>4. Total(closes) \in Nat /\ Total(closes) > 0
  BY <1>2, <1>3, TotalType
<1>5. Close(p, k) * w \in Int
  <2>1. k \in 0 .. Len(p) - 1
    BY PricedReads
  <2>2. Close(p, k) \in Nat
    BY <2>1, PricedReads
  <2> QED
    BY <2>2
<1>6. Total(closes) \in Nat \ {0}
  BY <1>4
<1>7. Percent(Close(p, k) * w, Total(closes)) \in Int
  BY <1>5, <1>6, PercentType
<1> QED
  BY <1>7 DEF closes

LEMMA MaType == ASSUME NEW p, Priced(p) PROVE Measure(MaDistanceChange(p))
<1>1. ASSUME ~(Len(p) < MaWindow + 1), NEW k \in {0, 1}
      PROVE  MaDistance(p, k) \in Int
  <2>1. k \in Nat /\ MaWindow \in Nat \ {0} /\ Len(p) >= k + MaWindow
    BY <1>1, PricedReads, Stage1Assumption
  <2> QED
    BY <2>1, MaDistanceType DEF MaDistance
<1> QED
  BY <1>1, MeasuredType DEF MaDistanceChange

(* So whichever metric is asked for is one.                                   *)
LEMMA PriceMetricType ==
  ASSUME NEW p, Priced(p), NEW m \in PriceMetrics
  PROVE  Measure(PriceMetric(p, m))
<1>1. /\ PriceMetric(p, "price_change_1d") = PriceChange(p)
      /\ PriceMetric(p, "volume_anomaly") = VolumeAnomaly(p)
      /\ PriceMetric(p, "return_20d_change") = ReturnChange(p)
      /\ PriceMetric(p, "volatility_regime_change") = VolatilityRegime(p)
      /\ PriceMetric(p, "ma_distance_change") = MaDistanceChange(p)
  BY DEF PriceMetric
<1> QED
  BY <1>1, PriceChangeType, VolumeType, ReturnType, VolatilityType, MaType DEF PriceMetrics

(* A valuation is there for no component, or it is a number or not for each.  *)
Valued(v) == v = NoValuation \/ v \in [Components -> Number]

(* The change of a valuation is a metric of numbers, or unavailable.          *)
LEMMA ValuationType ==
  ASSUME NEW snapshot, Valued(snapshot.previous), Valued(snapshot.current),
         NEW c \in Components
  PROVE  Measure(ValuationUpdate(snapshot, c))
<1> DEFINE old == snapshot.previous[c]
           new == snapshot.current[c]
<1>1. CASE NoValuation \in {snapshot.previous, snapshot.current}
  BY <1>1 DEF ValuationUpdate, Unavailable, Measure, Number
<1>2. CASE NoValuation \notin {snapshot.previous, snapshot.current}
  <2>1. old \in Number /\ new \in Number
    BY <1>2 DEF Valued
  <2>2. ASSUME old # NoNumber, new # NoNumber, old > 0
        PROVE  Percent(new, old) \in Int
    BY <2>1, <2>2, PercentType DEF Number
  <2>3. ASSUME old # NoNumber, new # NoNumber
        PROVE  old \in Int /\ new \in Int /\ (old > 0 \/ old =< 0)
    BY <2>1, <2>3 DEF Number
  <2> HIDE DEF old, new
  <2>4. ValuationUpdate(snapshot, c) =
          IF old = NoNumber /\ new = NoNumber THEN Unavailable("valuation_unavailable")
          ELSE IF NoNumber \in {old, new} THEN Available(old, new, NoNumber)
          ELSE IF c = "dividend_yield" THEN Available(old, new, new - old)
          ELSE IF old =< 0 \/ new =< 0 THEN Unavailable("invalid_denominator")
          ELSE Available(old, new, Percent(new, old))
    BY <1>2 DEF ValuationUpdate, old, new
  <2>5. CASE old = NoNumber /\ new = NoNumber
    BY <2>4, <2>5 DEF Unavailable, Measure, Number
  <2>6. CASE ~(old = NoNumber /\ new = NoNumber) /\ NoNumber \in {old, new}
    BY <2>1, <2>4, <2>6 DEF Available, Measure, Number
  <2>7. CASE NoNumber \notin {old, new}
    BY <2>1, <2>2, <2>3, <2>4, <2>7 DEF Available, Unavailable, Measure, Number
  <2> QED
    BY <2>5, <2>6, <2>7
<1> QED
  BY <1>1, <1>2

Snapshot(s) == Priced(s.prices) /\ Valued(s.previous) /\ Valued(s.current)

(* The metrics of a snapshot are numbers or unavailable, and a price metric   *)
(* is available only with a price of the date.                                *)
LEMMA MetricsType ==
  ASSUME NEW s, Snapshot(s), NEW m \in PriceMetrics \cup Components
  PROVE  /\ Measure(Metrics(s)[m])
         /\ m \in PriceMetrics /\ Metrics(s)[m].status = "available" => s.status = "available"
         /\ m \in Components => Metrics(s)[m] = ValuationUpdate(s, m)
<1>1. Metrics(s)[m] = IF m \in Components THEN ValuationUpdate(s, m)
                      ELSE IF s.status # "available" THEN Unavailable(s.status)
                      ELSE PriceMetric(s.prices, m)
  BY DEF Metrics
<1>2. m \in PriceMetrics => m \notin Components
  BY DEF PriceMetrics, Components
<1>3. CASE m \in Components
  BY <1>1, <1>2, <1>3, ValuationType DEF Snapshot
<1>4. CASE m \notin Components /\ s.status # "available"
  BY <1>1, <1>4 DEF Unavailable, Measure, Number
<1>5. CASE m \notin Components /\ s.status = "available"
  BY <1>1, <1>5, PriceMetricType DEF Snapshot
<1> QED
  BY <1>3, <1>4, <1>5

(******************************************************************************)
(* Reads.                                                                     *)
(******************************************************************************)
(* The observations of a read, oldest first, are prices.                      *)
LEMMA ObservationsPriced ==
  ASSUME NEW h, DOMAIN h.prices \subseteq Nat, IsFiniteSet(DOMAIN h.prices),
         \A d \in DOMAIN h.prices : h.prices[d].close \in Nat \ {0} /\ h.prices[d].volume \in Nat
  PROVE  Priced(Observations(h))
<1> DEFINE S == DOMAIN h.prices
           R == {p \in S \X S : p[1] < p[2]}
           f == Sorted(S, <)
           T == {h.prices[d] : d \in S}
<1>1. Orders(R, S)
  BY DEF Orders
<1>2. \A x \in S : Predecessors(R, S, x) = {y \in S : y < x}
  BY DEF Predecessors
<1>3. f = [i \in 1 .. Cardinality(S) |-> CHOOSE x \in S : Cardinality({y \in S : y < x}) = i - 1]
  BY DEF Sorted
<1> HIDE DEF S, R, f
<1>4. IsFiniteSet(S) /\ Cardinality(S) \in Nat
  BY FS_CardinalityType DEF S
<1>5. \A i \in 1 .. Cardinality(S) : \E x \in S : Cardinality({y \in S : y < x}) = i - 1
  <2>1. \A i \in 1 .. Cardinality(S) : \E x \in S : Cardinality(Predecessors(R, S, x)) = i - 1
    BY <1>1, <1>4, RanksAreIt
  <2> QED
    BY <1>2, <2>1
<1>6. Ranks(f, R, S)
  <2>1. f = [i \in 1 .. Cardinality(S) |-> f[i]]
    <3> DEFINE member(i) == CHOOSE x \in S : Cardinality({y \in S : y < x}) = i - 1
    <3>1. f = [i \in 1 .. Cardinality(S) |-> member(i)]
      BY <1>3
    <3> HIDE DEF member
    <3> QED
      BY <3>1
  <2>2. ASSUME NEW i \in 1 .. Cardinality(S)
        PROVE  f[i] \in S /\ Cardinality(Predecessors(R, S, f[i])) = i - 1
    <3>1. f[i] = CHOOSE x \in S : Cardinality({y \in S : y < x}) = i - 1
      BY <1>3
    <3>2. \E x \in S : Cardinality({y \in S : y < x}) = i - 1
      BY <1>5
    <3>3. f[i] \in S /\ Cardinality({y \in S : y < f[i]}) = i - 1
      BY <3>1, <3>2
    <3> QED
      BY <1>2, <3>3
  <2> QED
    BY <2>1, <2>2 DEF Ranks
<1>7. f \in [1 .. Cardinality(S) -> S]
  BY <1>1, <1>4, <1>6, RankedInOrder
<1>8. Observations(h) = [i \in 1 .. Cardinality(S) |-> h.prices[f[i]]]
  BY <1>7 DEF Observations, f, S
<1>9. Observations(h) \in Seq(T)
  BY <1>4, <1>7, <1>8
<1>10. PriceRows(T)
  BY DEF PriceRows, S
<1> QED
  BY <1>9, <1>10 DEF Priced

(* Of some metrics the nearest one is one of them. *)
LEMMA NearestIn ==
  ASSUME NEW metrics, IsFiniteSet(metrics), \A m \in metrics : m.date \in Nat,
         NEW named \in SUBSET metrics, named # {}
  PROVE  Nearest(named) \in named
<1> DEFINE days == {m.date : m \in named}
<1>1. days \in SUBSET Nat /\ days # {}
  OBVIOUS
<1>2. IsFiniteSet(days)
  <2>1. IsFiniteSet(named)
    BY FS_Subset
  <2> DEFINE day == [m \in named |-> m.date]
  <2>2. day \in [named -> days] /\ \A d \in days : \E m \in named : day[m] = d
    OBVIOUS
  <2>3. day \in Surjection(named, days)
    BY <2>2 DEF Surjection
  <2> QED
    BY <2>1, <2>3, FS_Surjection
<1>3. PICK last \in days : \A d \in days : d <= last
  BY <1>1, <1>2, LargestExists
<1>4. \E m \in named : \A other \in named : other.date =< m.date
  BY <1>3
<1> QED
  BY <1>4 DEF Nearest

(* A read of rows of the tables that is not refused.                          *)
LEMMA ReadType ==
  ASSUME NEW rows, StoredRows(rows), NEW asOf \in Nat, NEW n \in Nat,
         ~BaselineRead(rows, [asOf |-> asOf, history |-> n]).refused
  PROVE  LET read == BaselineRead(rows, [asOf |-> asOf, history |-> n])
         IN  /\ Priced(Observations(read.history))
             /\ read.history.status = PriceStatus(DatesAsOf(DOMAIN rows.prices, asOf), asOf)
             /\ read.valuation = ValuationAsOf(rows.metrics, asOf)
             /\ \A c \in DOMAIN read.valuation : read.valuation[c].value \in Int
<1> DEFINE request == [asOf |-> asOf, history |-> n]
           read == BaselineRead(rows, request)
           dates == DatesAsOf(DOMAIN rows.prices, asOf)
           eligible == {m \in rows.metrics : m.date =< asOf}
<1>1. /\ read.history = History(rows.prices, request)
      /\ read.valuation = ValuationAsOf(rows.metrics, asOf)
  BY DEF BaselineRead, Refused
<1>2. dates \subseteq DOMAIN rows.prices
  BY DEF DatesAsOf
<1>3. Returned(dates, n) \subseteq dates
  BY DEF Returned, Latest
<1>4. /\ read.history.status = PriceStatus(dates, asOf)
      /\ read.history.prices = [d \in Returned(dates, n) |-> rows.prices[d]]
  BY <1>1 DEF History
<1> HIDE DEF read
<1>5. Priced(Observations(read.history))
  <2>1. /\ DOMAIN read.history.prices \subseteq DOMAIN rows.prices
        /\ \A d \in DOMAIN read.history.prices : read.history.prices[d] = rows.prices[d]
    BY <1>2, <1>3, <1>4
  <2>2. DOMAIN read.history.prices \subseteq Nat /\ IsFiniteSet(DOMAIN read.history.prices)
    BY <2>1, FS_Subset DEF StoredRows
  <2>3. \A d \in DOMAIN read.history.prices :
          read.history.prices[d].close \in Nat \ {0} /\ read.history.prices[d].volume \in Nat
    BY <2>1 DEF StoredRows
  <2> QED
    BY <2>2, <2>3, ObservationsPriced
<1>6. ASSUME NEW c \in DOMAIN read.valuation PROVE read.valuation[c].value \in Int
  <2> DEFINE named == {m \in eligible : m.name = c}
  <2>1. named # {} /\ read.valuation[c] = Nearest(named)
    BY <1>1, <1>6 DEF ValuationAsOf
  <2>2. named \in SUBSET rows.metrics
    OBVIOUS
  <2> HIDE DEF named
  <2>3. Nearest(named) \in named
    BY <2>1, <2>2, NearestIn DEF StoredRows
  <2> QED
    BY <2>1, <2>2, <2>3 DEF StoredRows
<1> QED
  BY <1>1, <1>4, <1>5, <1>6 DEF read

(* Whether a read is refused does not depend on the length of the history.    *)
LEMMA RefusedAlike ==
  ASSUME NEW rows, NEW asOf, NEW m, NEW n
  PROVE  BaselineRead(rows, [asOf |-> asOf, history |-> m]).refused
           <=> BaselineRead(rows, [asOf |-> asOf, history |-> n]).refused
BY DEF BaselineRead, Refused

(* A read that is not refused makes a snapshot.                               *)
LEMMA SnapshotType ==
  ASSUME NEW screen, ScreenInput(screen), NEW s \in DOMAIN screen.then,
         ~ScreeningRead(screen.then[s], screen.asOf).refused
  PROVE  Snapshot(SnapshotOf(ScreeningRead(screen.then[s], screen.asOf), screen.previous))
<1> DEFINE read == ScreeningRead(screen.then[s], screen.asOf)
           snapshot == SnapshotOf(read, screen.previous)
<1>1. HistoryObservations \in Nat
  BY ObservationsNeeded, Stage1Assumption
<1>2. /\ Priced(Observations(read.history))
      /\ \A c \in DOMAIN read.valuation : read.valuation[c].value \in Int
  BY <1>1, ReadType DEF ScreenInput, ScreeningRead
<1> HIDE DEF read
<1>3. /\ snapshot.prices = Observations(read.history)
      /\ snapshot.current = CurrentValuation(read.valuation)
      /\ snapshot.previous = screen.previous
  BY DEF SnapshotOf
<1>4. Valued(snapshot.current)
  BY <1>2, <1>3 DEF Valued, CurrentValuation, Number
<1>5. Valued(snapshot.previous)
  BY <1>3 DEF Valued, ScreenInput, Number
<1>6. Priced(snapshot.prices)
  BY <1>2, <1>3
<1> HIDE DEF snapshot
<1>7. Snapshot(snapshot)
  BY <1>4, <1>5, <1>6 DEF Snapshot
<1> QED
  BY <1>7 DEF snapshot, read

(******************************************************************************)
(* What Stage 1 finds.                                                        *)
(******************************************************************************)
(* The values of a function on a finite set are finitely many.                *)
LEMMA ImageFinite ==
  ASSUME NEW S, IsFiniteSet(S), NEW f
  PROVE  IsFiniteSet({f[x] : x \in S})
<1> DEFINE T == {f[x] : x \in S}
           g == [x \in S |-> f[x]]
<1>1. g \in [S -> T] /\ \A t \in T : \E x \in S : g[x] = t
  OBVIOUS
<1>2. g \in Surjection(S, T)
  BY <1>1 DEF Surjection
<1> QED
  BY <1>2, FS_Surjection

(* An ordered finite set has a first member.                                  *)
LEMMA FirstOne ==
  ASSUME NEW S, IsFiniteSet(S), S # {}, NEW R, Orders(R, S)
  PROVE  \E x \in S : \A y \in S : <<y, x>> \notin R
<1>1. Cardinality(S) \in Nat /\ Cardinality(S) # 0
  BY FS_CardinalityType, FS_EmptySet
<1>2. 1 \in 1 .. Cardinality(S)
  BY <1>1
<1>3. \E x \in S : Cardinality(Predecessors(R, S, x)) = 1 - 1
  BY <1>2, RanksAreIt
<1>4. PICK x \in S : Cardinality(Predecessors(R, S, x)) = 0
  BY <1>3
<1>5. IsFiniteSet(Predecessors(R, S, x))
  BY FS_Subset DEF Predecessors
<1>6. Predecessors(R, S, x) = {}
  BY <1>4, <1>5, FS_EmptySet
<1> QED
  BY <1>6 DEF Predecessors

(* A finite set of integers has a least and a greatest member.                *)
LEMMA Extremes ==
  ASSUME NEW S \in SUBSET Int, IsFiniteSet(S), S # {}
  PROVE  Least(S) \in Int /\ Greatest(S) \in Int
<1> DEFINE up == {p \in S \X S : p[1] < p[2]}
           down == {p \in S \X S : p[2] < p[1]}
<1>1. Orders(up, S) /\ Orders(down, S)
  BY DEF Orders
<1> HIDE DEF up, down
<1>2. PICK x \in S : \A y \in S : <<y, x>> \notin up
  BY <1>1, FirstOne
<1>3. ASSUME NEW y \in S PROVE x =< y
  <2>1. <<y, x>> \notin up
    BY <1>2
  <2>2. ~(y < x) /\ x \in Int /\ y \in Int
    BY <2>1 DEF up
  <2> QED
    BY <2>2
<1>4. PICK z \in S : \A y \in S : <<y, z>> \notin down
  BY <1>1, FirstOne
<1>5. ASSUME NEW y \in S PROVE y =< z
  <2>1. <<y, z>> \notin down
    BY <1>4
  <2>2. ~(z < y) /\ z \in Int /\ y \in Int
    BY <2>1 DEF down
  <2> QED
    BY <2>2
<1>6. Least(S) \in S
  BY <1>3 DEF Least
<1>7. Greatest(S) \in S
  BY <1>5 DEF Greatest
<1> QED
  BY <1>6, <1>7

(* Every rule of Stage 1 has a metric, a class, an operator and, when it      *)
(* compares numbers, a positive threshold.                                    *)
LEMMA RulesType ==
  /\ DOMAIN Rules = 1 .. 12
  /\ \A i \in 1 .. 12 :
       /\ Rules[i].metric \in PriceMetrics \cup Components
       /\ Rules[i].class \in Nat
       /\ Rules[i].operator \in {"abs_current_gte", "current_gte", "current_lte",
                                 "abs_delta_gte", "availability_changed"}
       /\ Rules[i].operator # "availability_changed" => Rules[i].threshold \in Nat \ {0}
<1>1. /\ Places \in Nat \ {0} /\ 3 * Places \in Nat \ {0} /\ 2 * Places \in Nat \ {0}
      /\ 10 * Places \in Nat \ {0} /\ Places \div 2 \in Nat \ {0}
  BY Stage1Assumption
<1> DEFINE half == Places \div 2
           triple == 3 * Places
           double == 2 * Places
           tenfold == 10 * Places
<1>2. Rules =
  << Rule("price_change_1d", TRUE, "abs_current_gte", triple, 10),
     Rule("volume_anomaly", TRUE, "current_gte", double, 20),
     Rule("volume_anomaly", FALSE, "current_lte", half, 90),
     Rule("return_20d_change", TRUE, "abs_delta_gte", Places, 30),
     Rule("volatility_regime_change", TRUE, "abs_delta_gte", Places, 40),
     Rule("ma_distance_change", TRUE, "abs_delta_gte", Places, 30),
     Rule("pe_ratio", TRUE, "availability_changed", NoNumber, 50),
     Rule("pe_ratio", TRUE, "abs_delta_gte", tenfold, 50),
     Rule("pb_ratio", TRUE, "availability_changed", NoNumber, 50),
     Rule("pb_ratio", TRUE, "abs_delta_gte", tenfold, 50),
     Rule("dividend_yield", TRUE, "availability_changed", NoNumber, 50),
     Rule("dividend_yield", TRUE, "abs_delta_gte", half, 50) >>
  BY DEF Rules
<1> HIDE DEF half, triple, double, tenfold
<1>3. half \in Nat \ {0} /\ triple \in Nat \ {0} /\ double \in Nat \ {0} /\ tenfold \in Nat \ {0}
  BY <1>1 DEF half, triple, double, tenfold
<1>4. DOMAIN Rules = 1 .. 12
  BY <1>2
<1>5. ASSUME NEW i \in 1 .. 12
      PROVE  /\ Rules[i].metric \in PriceMetrics \cup Components
             /\ Rules[i].class \in Nat
             /\ Rules[i].operator \in {"abs_current_gte", "current_gte", "current_lte",
                                       "abs_delta_gte", "availability_changed"}
             /\ Rules[i].operator # "availability_changed" => Rules[i].threshold \in Nat \ {0}
  <2>1. i = 1 \/ i = 2 \/ i = 3 \/ i = 4 \/ i = 5 \/ i = 6 \/ i = 7 \/ i = 8 \/ i = 9
        \/ i = 10 \/ i = 11 \/ i = 12
    OBVIOUS
  <2> QED
    BY <1>1, <1>2, <1>3, <2>1 DEF Rule, PriceMetrics, Components
<1> QED
  BY <1>4, <1>5

(* A rule that matches by comparison has a number to compare.                 *)
LEMMA TestedType ==
  ASSUME NEW rule, NEW m, Measure(m), Matches(rule, m),
         rule.operator \in {"abs_current_gte", "current_gte", "current_lte", "abs_delta_gte"}
  PROVE  Tested(rule, m) \in Int
<1>1. Tested(rule, m) # NoNumber
  BY DEF Matches
<1>2. m.current \in Number /\ m.delta \in Number /\ \A x \in Int : Size(x) \in Int
  BY DEF Measure, Size
<1>3. CASE rule.operator \in {"current_gte", "current_lte"}
  <2>1. Tested(rule, m) = m.current
    BY <1>3 DEF Tested
  <2> QED
    BY <1>1, <1>2, <2>1 DEF Number
<1>4. CASE rule.operator = "abs_current_gte"
  <2>1. Tested(rule, m) = IF m.current = NoNumber THEN NoNumber ELSE Size(m.current)
    BY <1>4 DEF Tested
  <2> QED
    BY <1>1, <1>2, <2>1 DEF Number
<1>5. CASE rule.operator = "abs_delta_gte"
  <2>1. Tested(rule, m) = IF m.delta = NoNumber THEN NoNumber ELSE Size(m.delta)
    BY <1>5 DEF Tested
  <2> QED
    BY <1>1, <1>2, <2>1 DEF Number
<1> QED
  BY <1>3, <1>4, <1>5

(* The multiple of a rule that matches is an integer.                         *)
LEMMA MultipleType ==
  ASSUME NEW i \in 1 .. 12, NEW m, Measure(m), Matches(Rules[i], m)
  PROVE  Multiple(Rules[i], m) \in Int
<1> DEFINE rule == Rules[i]
<1>1. /\ rule.operator \in {"abs_current_gte", "current_gte", "current_lte",
                            "abs_delta_gte", "availability_changed"}
      /\ rule.operator # "availability_changed" => rule.threshold \in Nat \ {0}
      /\ Places \in Int
  BY RulesType, Stage1Assumption
<1> HIDE DEF rule
<1>2. CASE rule.operator = "availability_changed"
  BY <1>1, <1>2 DEF Multiple, rule
<1>3. CASE rule.operator \notin {"availability_changed", "current_lte"}
  <2>1. Tested(rule, m) \in Int
    BY <1>1, <1>3, TestedType DEF rule
  <2>2. rule.threshold \in Int /\ rule.threshold > 0
    BY <1>1, <1>3
  <2>3. Quotient(Tested(rule, m), rule.threshold) \in Int
    BY <2>1, <2>2, QuotientType
  <2> QED
    BY <1>3, <2>3 DEF Multiple, rule
<1>4. CASE rule.operator = "current_lte"
  <2>1. rule.threshold \in Int
    BY <1>1, <1>4
  <2>2. Tested(rule, m) \in Int /\ Tested(rule, m) = m.current
    <3>1. Tested(rule, m) = m.current
      BY <1>4 DEF Tested
    <3> QED
      BY <1>4, <3>1, TestedType DEF rule
  <2>3. m.current > 0 => Quotient(rule.threshold, m.current) \in Int
    BY <2>1, <2>2, QuotientType
  <2> QED
    BY <1>1, <1>4, <2>3 DEF Multiple, rule
<1> QED
  BY <1>1, <1>2, <1>3, <1>4

(* A reason repeats a rule, the metric that matched it and a number.          *)
IsReason(r, metrics) ==
  /\ \E i \in 1 .. 12 : r.rule = Rules[i]
  /\ r.metric = metrics[r.rule.metric] /\ Matches(r.rule, r.metric)
  /\ r.multiple \in Int

Measures(metrics) == \A m \in PriceMetrics \cup Components : Measure(metrics[m])

(* The reasons found are finitely many, each with its rule, its metric and a  *)
(* number.                                                                    *)
LEMMA ReasonsType ==
  ASSUME NEW metrics, Measures(metrics)
  PROVE  /\ IsFiniteSet(Reasons(metrics)) /\ IsFiniteSet(Primary(Reasons(metrics)))
         /\ \A r \in Reasons(metrics) : IsReason(r, metrics)
         /\ Primary(Reasons(metrics)) \subseteq Reasons(metrics)
<1> DEFINE matched == {j \in DOMAIN Rules : Matches(Rules[j], metrics[Rules[j].metric])}
           reason == [i \in matched |->
                        [rule |-> Rules[i], metric |-> metrics[Rules[i].metric],
                         multiple |-> Multiple(Rules[i], metrics[Rules[i].metric])]]
<1>1. matched \in SUBSET (1 .. 12)
  BY RulesType
<1>2. IsFiniteSet(matched)
  <2>1. 1 \in Int /\ 12 \in Int
    OBVIOUS
  <2>2. IsFiniteSet(1 .. 12)
    BY <2>1, FS_Interval
  <2> HIDE DEF matched
  <2> QED
    BY <1>1, <2>2, FS_Subset
<1>3. Reasons(metrics) = {reason[i] : i \in matched}
  BY DEF Reasons
<1>4. ASSUME NEW i \in matched PROVE IsReason(reason[i], metrics)
  <2>1. i \in 1 .. 12 /\ Matches(Rules[i], metrics[Rules[i].metric])
    BY <1>1
  <2>2. Measure(metrics[Rules[i].metric])
    BY <2>1, RulesType DEF Measures
  <2>3. Multiple(Rules[i], metrics[Rules[i].metric]) \in Int
    BY <2>1, <2>2, MultipleType
  <2>4. /\ reason[i].rule = Rules[i] /\ reason[i].metric = metrics[Rules[i].metric]
        /\ reason[i].multiple = Multiple(Rules[i], metrics[Rules[i].metric])
    OBVIOUS
  <2> HIDE DEF reason
  <2> QED
    BY <2>1, <2>3, <2>4 DEF IsReason
<1> HIDE DEF reason, matched
<1>5. IsFiniteSet(Reasons(metrics))
  BY <1>2, <1>3, ImageFinite
<1>6. Primary(Reasons(metrics)) \subseteq Reasons(metrics)
  BY DEF Primary
<1> QED
  BY <1>3, <1>4, <1>5, <1>6, FS_Subset

(******************************************************************************)
(* Sorting by keys.                                                           *)
(******************************************************************************)
Keyed(key, n, S) ==
  /\ key \in [S -> [1 .. n -> Int]]
  /\ \A x, y \in S : key[x] = key[y] => x = y

Lower(key, S, x) == {y \in S : Precedes(key[y], key[x])}

ByKey(f, key, S) ==
  /\ f \in [1 .. Cardinality(S) -> S]
  /\ \A x \in S : \E i \in 1 .. Cardinality(S) : f[i] = x
  /\ \A i, j \in 1 .. Cardinality(S) : Precedes(key[f[i]], key[f[j]]) <=> i < j

RankedBy(f, key, S) ==
  /\ f = [i \in 1 .. Cardinality(S) |-> f[i]]
  /\ \A i \in 1 .. Cardinality(S) : f[i] \in S /\ Cardinality(Lower(key, S, f[i])) = i - 1

(* Distinct keys of numbers order a finite set, and what is sorted by them    *)
(* lists it.                                                                  *)
LEMMA KeysOrder ==
  ASSUME NEW S, IsFiniteSet(S), NEW n \in Nat, NEW key, Keyed(key, n, S)
  PROVE  /\ Cardinality(S) \in Nat
         /\ \A i \in 1 .. Cardinality(S) : \E x \in S : Cardinality(Lower(key, S, x)) = i - 1
         /\ \A f : RankedBy(f, key, S) => ByKey(f, key, S)
<1> DEFINE R == {p \in S \X S : Precedes(key[p[1]], key[p[2]])}
<1>1. \A x, y \in S : <<x, y>> \in R <=> Precedes(key[x], key[y])
  OBVIOUS
<1> HIDE DEF R
<1>2. \A x \in S : key[x] \in [1 .. n -> Int]
  BY DEF Keyed
<1>3. Orders(R, S)
  <2>1. \A x \in S : ~Precedes(key[x], key[x])
    BY <1>2, LexicalOrder
  <2>2. ASSUME NEW x \in S, NEW y \in S, x # y
        PROVE  Precedes(key[x], key[y]) \/ Precedes(key[y], key[x])
    <3>1. key[x] # key[y]
      BY <2>2 DEF Keyed
    <3> QED
      BY <1>2, <3>1, LexicalOrder
  <2>3. ASSUME NEW x \in S, NEW y \in S, NEW z \in S,
               Precedes(key[x], key[y]), Precedes(key[y], key[z])
        PROVE  Precedes(key[x], key[z])
    BY <1>2, <2>3, LexicalOrder
  <2> QED
    BY <1>1, <2>1, <2>2, <2>3 DEF Orders
<1>4. \A x \in S : Lower(key, S, x) = Predecessors(R, S, x)
  BY <1>1 DEF Lower, Predecessors
<1>5. \A i \in 1 .. Cardinality(S) : \E x \in S : Cardinality(Predecessors(R, S, x)) = i - 1
  BY <1>3, RanksAreIt
<1>6. \A i \in 1 .. Cardinality(S) : \E x \in S : Cardinality(Lower(key, S, x)) = i - 1
  BY <1>4, <1>5
<1>7. ASSUME NEW f, RankedBy(f, key, S)
      PROVE  ByKey(f, key, S)
  <2>1. Ranks(f, R, S)
    BY <1>4, <1>7 DEF Ranks, RankedBy
  <2>2. /\ f \in [1 .. Cardinality(S) -> S]
        /\ \A x \in S : \E i \in 1 .. Cardinality(S) : f[i] = x
        /\ \A i, j \in 1 .. Cardinality(S) : <<f[i], f[j]>> \in R <=> i < j
    BY <1>3, <2>1, RankedInOrder
  <2>3. ASSUME NEW i \in 1 .. Cardinality(S), NEW j \in 1 .. Cardinality(S)
        PROVE  Precedes(key[f[i]], key[f[j]]) <=> i < j
    <3>1. f[i] \in S /\ f[j] \in S
      BY <2>2
    <3> QED
      BY <1>1, <2>2, <3>1
  <2> QED
    BY <2>2, <2>3 DEF ByKey
<1> QED
  BY <1>6, <1>7, FS_CardinalityType

(* The first component of a key decides first.                                *)
LEMMA PrecedesFirst ==
  ASSUME NEW n \in Nat, n > 0, NEW k \in [1 .. n -> Int], NEW l \in [1 .. n -> Int]
  PROVE  /\ Precedes(k, l) => k[1] =< l[1]
         /\ k[1] < l[1] => Precedes(k, l)
<1>1. ASSUME Precedes(k, l) PROVE k[1] =< l[1]
  <2>1. PICK i \in 1 .. n : k[i] < l[i] /\ \A j \in 1 .. i - 1 : k[j] = l[j]
    BY <1>1 DEF Precedes
  <2>2. CASE i = 1
    BY <2>1, <2>2
  <2>3. CASE i # 1
    <3>1. 1 \in 1 .. i - 1
      BY <2>3
    <3> QED
      BY <2>1, <3>1
  <2> QED
    BY <2>2, <2>3
<1>2. ASSUME k[1] < l[1] PROVE Precedes(k, l)
  <2>1. 1 \in DOMAIN k /\ \A j \in 1 .. 1 - 1 : k[j] = l[j]
    OBVIOUS
  <2> QED
    BY <1>2, <2>1 DEF Precedes
<1> QED
  BY <1>1, <1>2

(******************************************************************************)
(* The shortlist.                                                             *)
(******************************************************************************)
\* What Stage 1 found of each symbol.
Found(found) ==
  /\ DOMAIN found \subseteq Int /\ IsFiniteSet(DOMAIN found)
  /\ \A s \in DOMAIN found : \E metrics : Measures(metrics) /\ found[s] = Reasons(metrics)

(* The priority key of a triggered symbol is four integers, the count of      *)
(* primary reasons first and the symbol last.                                 *)
LEMMA KeyType ==
  ASSUME NEW metrics, Measures(metrics), Triggered(Reasons(metrics)), NEW s \in Int
  PROVE  /\ PriorityKey(s, Reasons(metrics)) \in [1 .. 4 -> Int]
         /\ PriorityKey(s, Reasons(metrics))[1] = -Cardinality(Primary(Reasons(metrics)))
         /\ PriorityKey(s, Reasons(metrics))[4] = s
<1> DEFINE P == Primary(Reasons(metrics))
           class == [r \in P |-> r.rule.class]
           multiple == [r \in P |-> r.multiple]
           classes == {r.rule.class : r \in P}
           multiples == {r.multiple : r \in P}
<1>1. IsFiniteSet(P) /\ P # {}
  BY ReasonsType DEF Triggered
<1>2. \A r \in P : r.rule.class \in Int /\ r.multiple \in Int
  <2>1. \A r \in P : IsReason(r, metrics)
    BY ReasonsType
  <2> QED
    BY <2>1, RulesType DEF IsReason
<1> HIDE DEF P
<1>3. classes = {class[r] : r \in P} /\ multiples = {multiple[r] : r \in P}
  OBVIOUS
<1> HIDE DEF class, multiple
<1>4. IsFiniteSet(classes) /\ IsFiniteSet(multiples)
  <2>1. IsFiniteSet({class[r] : r \in P}) /\ IsFiniteSet({multiple[r] : r \in P})
    BY <1>1, ImageFinite
  <2> HIDE DEF classes, multiples
  <2> QED
    BY <1>3, <2>1
<1>5. classes \in SUBSET Int /\ classes # {} /\ multiples \in SUBSET Int /\ multiples # {}
  BY <1>1, <1>2
<1> HIDE DEF classes, multiples
<1>6. Least(classes) \in Int /\ Greatest(multiples) \in Int
  BY <1>4, <1>5, Extremes
<1>7. Cardinality(P) \in Nat
  BY <1>1, FS_CardinalityType
<1>8. PriorityKey(s, Reasons(metrics))
        = << -Cardinality(P), Least(classes), -Greatest(multiples), s >>
  BY DEF PriorityKey, P, classes, multiples
<1>9. /\ PriorityKey(s, Reasons(metrics)) \in [1 .. 4 -> Int]
      /\ PriorityKey(s, Reasons(metrics))[1] = -Cardinality(P)
      /\ PriorityKey(s, Reasons(metrics))[4] = s
  BY <1>6, <1>7, <1>8
<1> QED
  BY <1>9 DEF P

(* A list without repetition of triggered symbols; no symbol it leaves out    *)
(* has more primary reasons than one it holds.                                *)
Listed(list, found) ==
  /\ \E n \in Nat : list \in [1 .. n -> DOMAIN found]
  /\ \A i, j \in DOMAIN list : list[i] = list[j] => i = j
  /\ \A s \in DOMAIN found \ {list[i] : i \in DOMAIN list}, i \in DOMAIN list :
       Cardinality(Primary(found[s])) =< Cardinality(Primary(found[list[i]]))

(* The shortlist is such a list, whatever its limit.                          *)
LEMMA ShortlistType ==
  ASSUME NEW found, Found(found), NEW limit \in Nat
  PROVE  Listed(Shortlist(found, limit), found)
<1> DEFINE S == {s \in DOMAIN found : Triggered(found[s])}
           n == Cardinality(S)
           key == [s \in S |-> PriorityKey(s, found[s])]
           member(i) == CHOOSE x \in S :
             Cardinality({y \in S : Precedes(PriorityKey(y, found[y]), PriorityKey(x, found[x]))})
               = i - 1
           ranked == [i \in 1 .. n |-> member(i)]
           list == Shortlist(found, limit)
           size == IF limit < n THEN limit ELSE n
<1>1. S \subseteq DOMAIN found /\ S \subseteq Int /\ IsFiniteSet(S)
  BY FS_Subset DEF Found
<1>2. n \in Nat
  BY <1>1, FS_CardinalityType
<1>3. list = SubSeq(ranked, 1, IF limit < Len(ranked) THEN limit ELSE Len(ranked))
  BY DEF Shortlist, Sorted
<1>4. ASSUME NEW s \in S
      PROVE  /\ key[s] \in [1 .. 4 -> Int] /\ key[s][4] = s
             /\ key[s][1] = -Cardinality(Primary(found[s]))
             /\ Cardinality(Primary(found[s])) \in Nat
  <2>1. PICK metrics : Measures(metrics) /\ found[s] = Reasons(metrics)
    BY <1>1 DEF Found
  <2>2. Triggered(Reasons(metrics)) /\ s \in Int
    BY <1>1, <2>1
  <2>3. IsFiniteSet(Primary(found[s]))
    BY <2>1, ReasonsType
  <2> QED
    BY <2>1, <2>2, <2>3, KeyType, FS_CardinalityType
<1>5. Keyed(key, 4, S)
  <2>1. key \in [S -> [1 .. 4 -> Int]]
    BY <1>4
  <2>2. \A x, y \in S : key[x] = key[y] => x = y
    BY <1>4
  <2> QED
    BY <2>1, <2>2 DEF Keyed
<1>6. \A x \in S : Lower(key, S, x)
        = {y \in S : Precedes(PriorityKey(y, found[y]), PriorityKey(x, found[x]))}
  BY DEF Lower
<1> HIDE DEF S, key, list
<1>7. ByKey(ranked, key, S)
  <2>1. /\ \A i \in 1 .. n : \E x \in S : Cardinality(Lower(key, S, x)) = i - 1
        /\ \A f : RankedBy(f, key, S) => ByKey(f, key, S)
    <3>1. 4 \in Nat
      OBVIOUS
    <3> QED
      BY <1>1, <1>5, <3>1, KeysOrder
  <2>2. ASSUME NEW i \in 1 .. n
        PROVE  member(i) \in S /\ Cardinality(Lower(key, S, member(i))) = i - 1
    <3>1. \E x \in S :
            Cardinality({y \in S : Precedes(PriorityKey(y, found[y]), PriorityKey(x, found[x]))})
              = i - 1
      BY <1>6, <2>1
    <3>2. /\ member(i) \in S
          /\ Cardinality({y \in S : Precedes(PriorityKey(y, found[y]),
                                             PriorityKey(member(i), found[member(i)]))}) = i - 1
      BY <3>1
    <3> HIDE DEF member
    <3> QED
      BY <1>6, <3>2
  <2> HIDE DEF member
  <2>3. ranked = [i \in 1 .. n |-> ranked[i]]
    OBVIOUS
  <2>4. \A i \in 1 .. n : ranked[i] \in S /\ Cardinality(Lower(key, S, ranked[i])) = i - 1
    BY <2>2
  <2> HIDE DEF ranked
  <2>5. RankedBy(ranked, key, S)
    BY <2>3, <2>4 DEF RankedBy
  <2> QED
    BY <2>1, <2>5
<1> HIDE DEF ranked, n, member
<1>8. /\ ranked \in [1 .. n -> S]
      /\ \A x \in S : \E i \in 1 .. n : ranked[i] = x
      /\ \A i, j \in 1 .. n : Precedes(key[ranked[i]], key[ranked[j]]) <=> i < j
  BY <1>7 DEF ByKey, n
<1>9. ranked \in Seq(S) /\ Len(ranked) = n
  BY <1>2, <1>8
<1>10. /\ size \in Nat /\ size <= n /\ list \in [1 .. size -> S]
       /\ \A i \in 1 .. size : list[i] = ranked[i]
  <2>1. size \in Nat /\ size <= n
    BY <1>2
  <2>2. list = SubSeq(ranked, 1, size)
    BY <1>3, <1>9
  <2> HIDE DEF size
  <2>3. list \in Seq(S) /\ Len(list) = size /\ \A i \in 1 .. size : list[i] = ranked[i]
    BY <1>2, <1>9, <2>1, <2>2
  <2> QED
    BY <2>1, <2>3
<1> HIDE DEF size
<1>11. DOMAIN list = 1 .. size /\ 1 .. size \subseteq 1 .. n
  BY <1>2, <1>10
<1>12. ASSUME NEW i \in 1 .. size, NEW j \in 1 .. size, list[i] = list[j]
       PROVE  i = j
  <2>1. i \in 1 .. n /\ j \in 1 .. n /\ ranked[i] = ranked[j]
    BY <1>10, <1>11, <1>12
  <2>2. (i < j <=> i < i) /\ (j < i <=> i < i)
    BY <1>8, <2>1
  <2> QED
    BY <2>1, <2>2
<1>13. ASSUME NEW s \in DOMAIN found \ {list[i] : i \in DOMAIN list}, NEW i \in DOMAIN list
       PROVE  Cardinality(Primary(found[s])) =< Cardinality(Primary(found[list[i]]))
  <2>1. list[i] \in S /\ i \in 1 .. n /\ i \in 1 .. size /\ list[i] = ranked[i]
    BY <1>10, <1>11
  <2>2. CASE s \in S
    <3>1. PICK j \in 1 .. n : ranked[j] = s
      BY <1>8, <2>2
    <3>2. j \notin 1 .. size
      BY <1>10, <1>11, <3>1
    <3>3. i < j
      BY <1>2, <1>10, <2>1, <3>2
    <3>4. Precedes(key[list[i]], key[s])
      BY <1>8, <2>1, <3>1, <3>3
    <3>5. key[list[i]][1] =< key[s][1]
      <4>1. 4 \in Nat /\ 4 > 0 /\ key[list[i]] \in [1 .. 4 -> Int] /\ key[s] \in [1 .. 4 -> Int]
        BY <1>4, <2>1, <2>2
      <4> QED
        BY <3>4, <4>1, PrecedesFirst
    <3> QED
      BY <1>4, <2>1, <2>2, <3>5
  <2>3. CASE s \notin S
    <3>1. Primary(found[s]) = {}
      BY <2>3 DEF S, Triggered
    <3>2. Cardinality(Primary(found[s])) = 0
      BY <3>1, FS_EmptySet
    <3>3. Cardinality(Primary(found[list[i]])) \in Nat
      BY <1>4, <2>1
    <3> QED
      BY <3>2, <3>3
  <2> QED
    BY <2>2, <2>3
<1>14. list \in [1 .. size -> DOMAIN found]
  BY <1>1, <1>10
<1>15. Listed(list, found)
  BY <1>10, <1>11, <1>12, <1>13, <1>14 DEF Listed
<1> QED
  BY <1>15 DEF list

(******************************************************************************)
(* The indicators of Stage 2.                                                 *)
(******************************************************************************)
(* Each indicator is a number or not there, and is there when the history is  *)
(* as long as its window.                                                     *)
LEMMA WindowReturnType ==
  ASSUME NEW p, Priced(p), NEW w \in Nat
  PROVE  WindowReturn(p, w) \in Number /\ (Len(p) > w => WindowReturn(p, w) \in Int)
<1>1. ASSUME Len(p) > w PROVE Percent(Close(p, 0), Close(p, w)) \in Int
  <2>1. 0 \in 0 .. Len(p) - 1 /\ w \in 0 .. Len(p) - 1
    BY <1>1, PricedReads
  <2>2. Close(p, 0) \in Int /\ Close(p, w) \in Nat \ {0}
    BY <2>1, PricedReads
  <2> QED
    BY <2>2, PercentType
<1> QED
  BY <1>1 DEF WindowReturn, Number

LEMMA DailyVolatilityType ==
  ASSUME NEW p, Priced(p)
  PROVE  DailyVolatility(p) \in Number /\ (Len(p) > VolatilityWindow => DailyVolatility(p) \in Int)
<1> DEFINE n == VolatilityWindow
           late == [i \in 1 .. n |-> Percent(Close(p, 0 + i - 1), Close(p, 0 + i))]
           returns == [i \in 1 .. n |-> Percent(Close(p, i - 1), Close(p, i))]
           sum(r) == n * Total([i \in 1 .. n |-> r[i] * r[i]]) - Total(r) * Total(r)
<1>1. n \in Nat \ {0, 1} /\ Len(p) \in Nat
  BY Stage1Assumption, PricedReads
<1>2. DailyVolatility(p) = IF Len(p) =< n THEN NoNumber ELSE Root(sum(returns)) \div n
  BY DEF DailyVolatility
<1>3. late = returns
  BY <1>1
<1>4. ASSUME Len(p) > n PROVE Root(sum(returns)) \div n \in Int
  <2>1. Len(p) > 0 + n /\ 0 \in Nat
    BY <1>1, <1>4
  <2>2. sum(late) \in Int
    BY <1>1, <2>1, DeviationType
  <2>3. sum(returns) \in Int
    BY <1>3, <2>2
  <2> HIDE DEF sum
  <2>4. Root(sum(returns)) \in Int
    BY <2>3, RootType
  <2> QED
    BY <1>1, <2>4
<1> HIDE DEF sum, returns, late
<1> QED
  BY <1>1, <1>2, <1>4 DEF Number

LEMMA MaxDrawdownType ==
  ASSUME NEW p, Priced(p), NEW w \in Nat \ {0}
  PROVE  MaxDrawdown(p, w) \in Number /\ (Len(p) >= w => MaxDrawdown(p, w) \in Int)
<1> DEFINE I == 0 .. w - 1
           fall == [q \in I \X I |-> Percent(Close(p, q[1]), Close(p, q[2]))]
           falls == UNION {{Percent(Close(p, last), Close(p, peak)) : last \in 0 .. peak} :
                             peak \in 0 .. w - 1}
<1>1. Len(p) \in Nat
  BY PricedReads
<1>2. ASSUME Len(p) >= w PROVE Least(falls) \in Int
  <2>1. \A k \in I : Close(p, k) \in Nat \ {0}
    <3>1. \A k \in I : k \in 0 .. Len(p) - 1
      BY <1>1, <1>2
    <3> QED
      BY <3>1, PricedReads
  <2>2. \A q \in I \X I : fall[q] \in Int
    BY <2>1, PercentType
  <2>3. \A last, peak \in I : fall[<<last, peak>>] = Percent(Close(p, last), Close(p, peak))
    OBVIOUS
  <2> HIDE DEF fall
  <2>4. IsFiniteSet(I)
    <3>1. 0 \in Int /\ w - 1 \in Int
      OBVIOUS
    <3> QED
      BY <3>1, FS_Interval
  <2>5. IsFiniteSet(I \X I)
    BY <2>4, FS_Product
  <2>6. IsFiniteSet({fall[q] : q \in I \X I})
    BY <2>5, ImageFinite
  <2>7. ASSUME NEW x \in falls PROVE x \in {fall[q] : q \in I \X I}
    <3>4. PICK peak \in I : x \in {Percent(Close(p, last), Close(p, peak)) : last \in 0 .. peak}
      OBVIOUS
    <3>1. PICK last \in 0 .. peak : x = Percent(Close(p, last), Close(p, peak))
      BY <3>4
    <3>2. last \in I
      BY <3>1
    <3>3. x = fall[<<last, peak>>] /\ <<last, peak>> \in I \X I
      BY <2>3, <3>1, <3>2
    <3> QED
      BY <3>3
  <2>8. falls # {}
    <3>1. 0 \in I /\ 0 \in 0 .. 0
      OBVIOUS
    <3>2. Percent(Close(p, 0), Close(p, 0)) \in falls
      BY <3>1
    <3> QED
      BY <3>2
  <2> HIDE DEF falls, I
  <2>9. IsFiniteSet(falls) /\ falls \in SUBSET Int
    BY <2>2, <2>6, <2>7, FS_Subset
  <2> QED
    BY <2>8, <2>9, Extremes
<1>3. MaxDrawdown(p, w) = IF Len(p) < w THEN NoNumber ELSE Least(falls)
  BY DEF MaxDrawdown
<1> HIDE DEF falls
<1> QED
  BY <1>1, <1>2, <1>3 DEF Number

LEMMA DeepVolumeType == ASSUME NEW p, Priced(p) PROVE DeepVolumeRatio(p) \in Number
<1> DEFINE volumes == [i \in 1 .. Short |-> Volume(p, i - 1)]
<1>1. Short \in Nat \ {0} /\ Len(p) \in Nat
  BY Stage2Assumption, PricedReads
<1>2. ASSUME ~(Len(p) < Short), Total(volumes) # 0
      PROVE  Quotient(Volume(p, 0) * Short, Total(volumes)) \in Int
  <2>1. \A k \in 0 .. Short - 1 : k \in 0 .. Len(p) - 1
    BY <1>1, <1>2
  <2>2. \A k \in 0 .. Short - 1 : Volume(p, k) \in Nat
    BY <2>1, PricedReads
  <2>3. \A i \in 1 .. Short : volumes[i] \in Nat
    BY <1>1, <2>2
  <2>4. DOMAIN volumes = 1 .. Short
    OBVIOUS
  <2> HIDE DEF volumes
  <2>5. Total(volumes) \in Nat
    BY <1>1, <2>3, <2>4, TotalType
  <2>6. Volume(p, 0) * Short \in Int
    BY <1>1, <2>2
  <2>7. Total(volumes) \in Int /\ Total(volumes) > 0
    BY <1>2, <2>5
  <2> QED
    BY <2>6, <2>7, QuotientType
<1>3. DeepVolumeRatio(p) = IF Len(p) < Short \/ Total(volumes) = 0 THEN NoNumber
                           ELSE Quotient(Volume(p, 0) * Short, Total(volumes))
  BY DEF DeepVolumeRatio
<1> HIDE DEF volumes
<1> QED
  BY <1>2, <1>3 DEF Number

LEMMA DistanceType ==
  ASSUME NEW p, Priced(p), NEW w \in Nat \ {0}
  PROVE  DistanceToMa(p, w) \in Number /\ (Len(p) >= w => DistanceToMa(p, w) \in Int)
<1> DEFINE closes == [i \in 1 .. w |-> Close(p, i - 1)]
           late == [i \in 1 .. w |-> Close(p, 0 + i - 1)]
<1>1. Len(p) \in Nat
  BY PricedReads
<1>2. closes = late
  OBVIOUS
<1>3. ASSUME Len(p) >= w PROVE Percent(Close(p, 0) * w, Total(closes)) \in Int
  <2>1. Len(p) >= 0 + w /\ 0 \in Nat
    BY <1>1, <1>3
  <2>2. Percent(Close(p, 0) * w, Total(late)) \in Int
    BY <2>1, MaDistanceType
  <2> HIDE DEF late, closes
  <2> QED
    BY <1>2, <2>2
<1>4. DistanceToMa(p, w) = IF Len(p) < w THEN NoNumber ELSE Percent(Close(p, 0) * w, Total(closes))
  BY DEF DistanceToMa
<1> HIDE DEF closes, late
<1> QED
  BY <1>1, <1>3, <1>4 DEF Number

\* What an indicator needs of the history.
Look(name) ==
  IF name[1] = "return" THEN name[2] + 1
  ELSE IF name[1] = "volatility" THEN VolatilityWindow + 1
  ELSE name[2]

(* So whichever indicator is asked for.                                       *)
LEMMA IndicatorType ==
  ASSUME NEW p, Priced(p), NEW name \in DeepMetricNames
  PROVE  /\ Indicator(p, name) \in Number
         /\ name[1] # "volume_ratio" /\ Len(p) >= Look(name) => Indicator(p, name) \in Int
<1>1. /\ {Short, Middle, Long, Longest} \subseteq Nat \ {0} /\ Len(p) \in Nat
      /\ VolatilityWindow \in Nat
  BY Stage1Assumption, Stage2Assumption, PricedReads
<1>2. CASE \E w \in {Short, Middle, Long} : name = <<"return", w>>
  <2>1. PICK w \in {Short, Middle, Long} : name = <<"return", w>>
    BY <1>2
  <2>2. name[1] = "return" /\ name[2] = w /\ Look(name) = w + 1
    BY <2>1 DEF Look
  <2>3. Indicator(p, name) = WindowReturn(p, w)
    BY <2>2 DEF Indicator
  <2>4. w \in Nat /\ (Len(p) >= w + 1 => Len(p) > w)
    BY <1>1
  <2> QED
    BY <2>2, <2>3, <2>4, WindowReturnType
<1>3. CASE name = <<"volatility">>
  <2>1. name[1] = "volatility" /\ Look(name) = VolatilityWindow + 1
    BY <1>3 DEF Look
  <2>2. Indicator(p, name) = DailyVolatility(p)
    BY <2>1 DEF Indicator
  <2>3. Len(p) >= VolatilityWindow + 1 => Len(p) > VolatilityWindow
    BY <1>1
  <2> QED
    BY <2>1, <2>2, <2>3, DailyVolatilityType
<1>4. CASE name = <<"volume_ratio">>
  <2>1. name[1] = "volume_ratio"
    BY <1>4
  <2>2. Indicator(p, name) = DeepVolumeRatio(p)
    BY <2>1 DEF Indicator
  <2> QED
    BY <2>1, <2>2, DeepVolumeType
<1>5. CASE \E w \in {Short, Middle, Long, Longest} : name = <<"max_drawdown", w>>
  <2>1. PICK w \in {Short, Middle, Long, Longest} : name = <<"max_drawdown", w>>
    BY <1>5
  <2>2. name[1] = "max_drawdown" /\ name[2] = w /\ Look(name) = w
    BY <2>1 DEF Look
  <2>3. Indicator(p, name) = MaxDrawdown(p, w)
    BY <2>2 DEF Indicator
  <2>4. w \in Nat \ {0}
    BY <1>1
  <2> QED
    BY <2>2, <2>3, <2>4, MaxDrawdownType
<1>6. CASE \E w \in {Short, Middle, Long, Longest} : name = <<"ma_distance", w>>
  <2>1. PICK w \in {Short, Middle, Long, Longest} : name = <<"ma_distance", w>>
    BY <1>6
  <2>2. name[1] = "ma_distance" /\ name[2] = w /\ Look(name) = w
    BY <2>1 DEF Look
  <2>3. Indicator(p, name) = DistanceToMa(p, w)
    BY <2>2 DEF Indicator
  <2>4. w \in Nat \ {0}
    BY <1>1
  <2> QED
    BY <2>2, <2>3, <2>4, DistanceType
<1> QED
  BY <1>2, <1>3, <1>4, <1>5, <1>6 DEF DeepMetricNames

(* A metric of Stage 2 has its current value when the history is as long as   *)
(* its look-back, and its change when it is longer.                           *)
LEMMA DeepMetricType ==
  ASSUME NEW p, Priced(p), NEW name \in DeepMetricNames
  PROVE  /\ Measure(DeepMetric(p, name))
         /\ name[1] # "volume_ratio" /\ Look(name) \in Nat \ {0} /\ Len(p) >= Look(name) =>
              DeepMetric(p, name).current \in Int
         /\ name[1] # "volume_ratio" /\ Look(name) \in Nat \ {0} /\ Len(p) > Look(name) =>
              DeepMetric(p, name).delta \in Int
<1> DEFINE shorter == SubSeq(p, 1, Len(p) - 1)
           current == Indicator(p, name)
           previous == IF Len(p) > 1 THEN Indicator(shorter, name) ELSE NoNumber
           enough(n) == name[1] # "volume_ratio" /\ Look(name) \in Nat \ {0} /\ n >= Look(name)
<1>1. current \in Number /\ (enough(Len(p)) => current \in Int)
  BY IndicatorType
<1>2. Len(p) \in Nat
  BY PricedReads
<1>3. previous \in Number /\ (enough(Len(p) - 1) => previous \in Int)
  <2>1. CASE Len(p) > 1
    <3>1. Priced(shorter) /\ Len(shorter) = Len(p) - 1
      BY <2>1, PricedPrefix
    <3> HIDE DEF shorter
    <3>2. previous = Indicator(shorter, name)
      BY <2>1
    <3>3. Indicator(shorter, name) \in Number
      BY <3>1, IndicatorType
    <3>4. ASSUME enough(Len(p) - 1) PROVE Indicator(shorter, name) \in Int
      BY <3>1, <3>4, IndicatorType
    <3> QED
      BY <3>2, <3>3, <3>4
  <2>2. CASE ~(Len(p) > 1)
    <3>1. ~enough(Len(p) - 1)
      BY <1>2, <2>2
    <3> QED
      BY <2>2, <3>1 DEF Number
  <2> QED
    BY <2>1, <2>2
<1>4. DeepMetric(p, name) =
        IF current = NoNumber THEN Unavailable("insufficient_history")
        ELSE Available(previous, current,
                       IF previous = NoNumber THEN NoNumber ELSE current - previous)
  BY DEF DeepMetric
<1>5. NoNumber \notin Int
  BY Stage1Assumption
<1>6. Len(p) > Look(name) /\ Look(name) \in Nat \ {0} =>
        Len(p) - 1 >= Look(name) /\ Len(p) >= Look(name)
  BY <1>2
<1> HIDE DEF current, previous
<1>7. Measure(DeepMetric(p, name))
  BY <1>1, <1>3, <1>4 DEF Measure, Available, Unavailable, Number
<1>8. enough(Len(p)) => DeepMetric(p, name).current \in Int
  BY <1>1, <1>4, <1>5 DEF Available
<1>9. enough(Len(p)) /\ enough(Len(p) - 1) => DeepMetric(p, name).delta \in Int
  BY <1>1, <1>3, <1>4, <1>5 DEF Available
<1> QED
  BY <1>6, <1>7, <1>8, <1>9

(******************************************************************************)
(* The rules of Stage 2.                                                      *)
(******************************************************************************)
(* Every numeric rule of Stage 2 has a metric, a class, an operator and a     *)
(* positive threshold.                                                        *)
LEMMA NumericRulesType ==
  /\ IsFiniteSet(NumericRules)
  /\ \A r \in NumericRules :
       /\ r.metric \in DeepMetricNames /\ r.kind = "research_change" /\ r.class \in Nat
       /\ r.operator \in {"abs_current_gte", "current_gte", "abs_delta_gte"}
       /\ r.threshold \in Nat \ {0}
<1> DEFINE tenfold == 10 * Places
           double == 2 * Places
           rules == << DeepRule(<<"max_drawdown", Long>>, "research_change", "abs_delta_gte", Places, 20),
                       DeepRule(<<"volatility">>, "research_change", "abs_delta_gte", Places, 20),
                       DeepRule(<<"return", Middle>>, "research_change", "abs_delta_gte", Places, 30),
                       DeepRule(<<"return", Long>>, "research_change", "abs_current_gte", tenfold, 40),
                       DeepRule(<<"ma_distance", Middle>>, "research_change", "abs_delta_gte", Places, 50),
                       DeepRule(<<"volume_ratio">>, "research_change", "current_gte", double, 60) >>
<1>1. Places \in Nat \ {0} /\ tenfold \in Nat \ {0} /\ double \in Nat \ {0}
  BY Stage1Assumption
<1>2. NumericRules = {rules[1], rules[2], rules[3], rules[4], rules[5], rules[6]}
  BY DEF NumericRules
<1> HIDE DEF tenfold, double
<1>3. ASSUME NEW r \in NumericRules
      PROVE  /\ r.metric \in DeepMetricNames /\ r.kind = "research_change" /\ r.class \in Nat
             /\ r.operator \in {"abs_current_gte", "current_gte", "abs_delta_gte"}
             /\ r.threshold \in Nat \ {0}
  <2>1. /\ <<"max_drawdown", Long>> \in DeepMetricNames /\ <<"volatility">> \in DeepMetricNames
        /\ <<"return", Middle>> \in DeepMetricNames /\ <<"return", Long>> \in DeepMetricNames
        /\ <<"ma_distance", Middle>> \in DeepMetricNames
        /\ <<"volume_ratio">> \in DeepMetricNames
    BY DEF DeepMetricNames
  <2>2. \/ r = rules[1] \/ r = rules[2] \/ r = rules[3] \/ r = rules[4] \/ r = rules[5]
        \/ r = rules[6]
    BY <1>2
  <2>3. CASE r = rules[1]
    BY <1>1, <2>1, <2>3 DEF DeepRule
  <2>4. CASE r = rules[2]
    BY <1>1, <2>1, <2>4 DEF DeepRule
  <2>5. CASE r = rules[3]
    BY <1>1, <2>1, <2>5 DEF DeepRule
  <2>6. CASE r = rules[4]
    BY <1>1, <2>1, <2>6 DEF DeepRule
  <2>7. CASE r = rules[5]
    BY <1>1, <2>1, <2>7 DEF DeepRule
  <2>8. CASE r = rules[6]
    BY <1>1, <2>1, <2>8 DEF DeepRule
  <2> QED
    BY <2>2, <2>3, <2>4, <2>5, <2>6, <2>7, <2>8
<1>4. IsFiniteSet(NumericRules)
  <2>1. 1 \in Int /\ 6 \in Int
    OBVIOUS
  <2>2. IsFiniteSet(1 .. 6)
    BY <2>1, FS_Interval
  <2> HIDE DEF rules
  <2>3. IsFiniteSet({rules[i] : i \in 1 .. 6})
    BY <2>2, ImageFinite
  <2>4. NumericRules \subseteq {rules[i] : i \in 1 .. 6}
    BY <1>2
  <2> QED
    BY <2>3, <2>4, FS_Subset
<1> QED
  BY <1>3, <1>4

(* Every numeric rule but the one of the volume finds a number in the history *)
(* of Stage 2.                                                                *)
LEMMA DeepEnough ==
  ASSUME NEW p \in Enough
  PROVE  DeepSuffices(p)
<1> SUFFICES ASSUME Len(p) >= Longest, NEW r \in NumericRules, r.metric # <<"volume_ratio">>
             PROVE  Tested(r, DeepMetric(p, r.metric)) # NoNumber
  BY DEF DeepSuffices, DeepObservations
<1> DEFINE name == r.metric
           m == DeepMetric(p, name)
<1>1. /\ Middle \in Nat \ {0} /\ Long \in Nat \ {0} /\ Longest \in Nat
      /\ Middle < Long /\ Long < Longest /\ VolatilityWindow \in Nat \ {0}
      /\ NoNumber \notin Int /\ \A x \in Int : Size(x) \in Int
  BY Stage1Assumption, Stage2Assumption DEF Size
<1>2. Priced(p) /\ Len(p) \in Nat /\ Len(p) >= VolatilityWindow + 2
  <2>1. p \in Seq([close : Nat \ {0}, volume : Nat])
    BY DEF Enough
  <2>2. PriceRows([close : Nat \ {0}, volume : Nat])
    BY DEF PriceRows
  <2>3. Len(p) \in Nat /\ Len(p) >= HistoryObservations /\ HistoryObservations \in Nat
    BY TailReads
  <2>4. VolatilityWindow + 2 =< HistoryObservations
    BY ObservationsNeeded
  <2>5. Priced(p)
    BY <2>1, <2>2 DEF Priced
  <2> HIDE DEF Priced
  <2> QED
    BY <1>1, <2>3, <2>4, <2>5
<1>3. /\ \A n \in {Long, Middle, Middle + 1, VolatilityWindow + 1} :
           n \in Nat \ {0} /\ Len(p) > n /\ Len(p) >= n
      /\ Long + 1 \in Nat \ {0} /\ Len(p) >= Long + 1
  <2> DEFINE len == Len(p)
  <2>1. len \in Nat /\ len >= Longest /\ len >= VolatilityWindow + 2
    BY <1>2
  <2> HIDE DEF len
  <2>2. /\ \A n \in {Long, Middle, Middle + 1, VolatilityWindow + 1} :
             n \in Nat \ {0} /\ len > n /\ len >= n
        /\ Long + 1 \in Nat \ {0} /\ len >= Long + 1
    BY <1>1, <2>1
  <2> QED
    BY <2>2 DEF len
<1>4. /\ name \in DeepMetricNames
      /\ \/ name = <<"max_drawdown", Long>> /\ r.operator = "abs_delta_gte"
         \/ name = <<"volatility">> /\ r.operator = "abs_delta_gte"
         \/ name = <<"return", Middle>> /\ r.operator = "abs_delta_gte"
         \/ name = <<"return", Long>> /\ r.operator = "abs_current_gte"
         \/ name = <<"ma_distance", Middle>> /\ r.operator = "abs_delta_gte"
  BY NumericRulesType DEF NumericRules, DeepRule
<1> HIDE DEF name, m
<1>5. /\ name[1] # "volume_ratio" /\ Look(name) \in Nat \ {0} /\ Len(p) >= Look(name)
      /\ r.operator = "abs_delta_gte" => Len(p) > Look(name)
  <2>1. CASE name = <<"max_drawdown", Long>>
    <3>1. name[1] = "max_drawdown" /\ name[2] = Long
      BY <2>1
    <3>2. name[1] # "volume_ratio" /\ Look(name) = Long
      BY <3>1 DEF Look
    <3> QED
      BY <1>3, <2>1, <3>2
  <2>2. CASE name = <<"volatility">>
    <3>1. name[1] = "volatility"
      BY <2>2
    <3>2. name[1] # "volume_ratio" /\ Look(name) = VolatilityWindow + 1
      BY <3>1 DEF Look
    <3> QED
      BY <1>3, <2>2, <3>2
  <2>3. CASE name = <<"return", Middle>>
    <3>1. name[1] = "return" /\ name[2] = Middle
      BY <2>3
    <3>2. name[1] # "volume_ratio" /\ Look(name) = Middle + 1
      BY <3>1 DEF Look
    <3> QED
      BY <1>3, <2>3, <3>2
  <2>4. CASE name = <<"return", Long>> /\ r.operator = "abs_current_gte"
    <3>1. name[1] = "return" /\ name[2] = Long
      BY <2>4
    <3>2. name[1] # "volume_ratio" /\ Look(name) = Long + 1
      BY <3>1 DEF Look
    <3> QED
      BY <1>3, <2>4, <3>2
  <2>5. CASE name = <<"ma_distance", Middle>>
    <3>1. name[1] = "ma_distance" /\ name[2] = Middle
      BY <2>5
    <3>2. name[1] # "volume_ratio" /\ Look(name) = Middle
      BY <3>1 DEF Look
    <3> QED
      BY <1>3, <2>5, <3>2
  <2> QED
    BY <1>4, <2>1, <2>2, <2>3, <2>4, <2>5
<1>6. m.current \in Int /\ (r.operator = "abs_delta_gte" => m.delta \in Int)
  BY <1>2, <1>4, <1>5, DeepMetricType DEF m
<1>7. CASE r.operator = "abs_delta_gte"
  <2>1. Tested(r, m) = Size(m.delta)
    BY <1>1, <1>6, <1>7 DEF Tested
  <2> QED
    BY <1>1, <1>6, <1>7, <2>1 DEF m, name
<1>8. CASE r.operator = "abs_current_gte"
  <2>1. Tested(r, m) = Size(m.current)
    BY <1>1, <1>6, <1>8 DEF Tested
  <2> QED
    BY <1>1, <1>6, <2>1 DEF m, name
<1> QED
  BY <1>4, <1>7, <1>8

(******************************************************************************)
(* The reasons of Stage 2.                                                    *)
(******************************************************************************)
(* A candidate keeps what Stage 1 found of it.                                *)
Chosen(c) ==
  /\ c.symbol \in Int /\ c.rank \in Nat
  /\ Measures(c.metrics) /\ c.reasons = Reasons(c.metrics)

Dataset(d) == Priced(d.prices) /\ \A c \in DOMAIN d.valuation : d.valuation[c] \in Int

(* The first of some reasons, in the order of the rules, is one of them.      *)
LEMMA FirstIn ==
  ASSUME NEW metrics, Measures(metrics), NEW found \in SUBSET Reasons(metrics), found # {}
  PROVE  First(found) \in found
<1> DEFINE place(r) == CHOOSE i \in DOMAIN Rules : Rules[i] = r.rule
           places == {place(r) : r \in found}
<1>1. ASSUME NEW r \in found PROVE place(r) \in Nat
  <2>1. IsReason(r, metrics)
    BY ReasonsType
  <2>2. \E i \in DOMAIN Rules : Rules[i] = r.rule
    BY <2>1, RulesType DEF IsReason
  <2>3. place(r) \in DOMAIN Rules
    BY <2>2
  <2> HIDE DEF place
  <2> QED
    BY <2>3, RulesType
<1> HIDE DEF place
<1>2. places \in SUBSET Nat /\ places # {}
  BY <1>1
<1> HIDE DEF places
<1>3. PICK n \in places : \A m \in places : n <= m
  BY <1>2, LeastExists
<1>4. \E r \in found : \A s \in found : place(r) =< place(s)
  BY <1>3 DEF places
<1> QED
  BY <1>4 DEF First, place

(* The metrics of a candidate are numbers or unavailable; a valuation is the  *)
(* confirmed one.                                                             *)
LEMMA DeepMetricsType ==
  ASSUME NEW c, Chosen(c), NEW d, Dataset(d)
  PROVE  /\ \A name \in DeepMetricNames : Measure(DeepMetrics(c, d)[name])
         /\ \A x \in Components : DeepMetrics(c, d)[<<x>>] = ConfirmedValuation(c, d, x)
<1>1. \A name \in DeepMetricNames : name[1] \notin Components
  BY DEF DeepMetricNames, Components
<1>2. ASSUME NEW name \in DeepMetricNames PROVE Measure(DeepMetrics(c, d)[name])
  <2>1. DeepMetrics(c, d)[name] =
          IF name[1] \in Components THEN ConfirmedValuation(c, d, name[1])
          ELSE IF d.status # "available" THEN Unavailable(d.status)
          ELSE DeepMetric(d.prices, name)
    BY DEF DeepMetrics
  <2>2. CASE d.status # "available"
    BY <1>1, <2>1, <2>2 DEF Measure, Unavailable, Number
  <2>3. CASE d.status = "available"
    BY <1>1, <2>1, <2>3, DeepMetricType DEF Dataset
  <2> QED
    BY <2>2, <2>3
<1>3. ASSUME NEW x \in Components PROVE DeepMetrics(c, d)[<<x>>] = ConfirmedValuation(c, d, x)
  <2>1. <<x>> \in {<<y>> : y \in Components} /\ <<x>>[1] = x
    OBVIOUS
  <2> QED
    BY <2>1 DEF DeepMetrics
<1> QED
  BY <1>2, <1>3

(* What Stage 1 found about a component is about the metric the candidate     *)
(* keeps of it.                                                               *)
LEMMA FindingType ==
  ASSUME NEW c, Chosen(c), NEW x
  PROVE  /\ Stage1Finding(c, x) \in SUBSET Reasons(c.metrics)
         /\ \A r \in Stage1Finding(c, x) : IsReason(r, c.metrics) /\ r.metric = c.metrics[x]
         /\ Stage1Finding(c, x) # {} => First(Stage1Finding(c, x)) \in Stage1Finding(c, x)
<1> DEFINE found == Stage1Finding(c, x)
<1>1. found \in SUBSET Reasons(c.metrics) /\ \A r \in found : r.rule.metric = x
  BY DEF Stage1Finding, Primary, Chosen
<1> HIDE DEF found
<1>2. \A r \in found : IsReason(r, c.metrics)
  BY <1>1, ReasonsType DEF Chosen
<1>3. \A r \in found : r.metric = c.metrics[x]
  BY <1>1, <1>2 DEF IsReason
<1>4. found # {} => First(found) \in found
  BY <1>1, FirstIn DEF Chosen
<1> QED
  BY <1>1, <1>2, <1>3, <1>4 DEF found

(* The reasons of Stage 2 are finitely many, with integers to rank them; a    *)
(* reason of quality needs a state of quality, and a change of valuation is a *)
(* reason exactly when it is confirmed.                                       *)
LEMMA DeepReasonsType ==
  ASSUME NEW c, Chosen(c), NEW d, Dataset(d)
  PROVE  /\ IsFiniteSet(DeepReasons(c, d))
         /\ \A r \in DeepReasons(c, d) :
              /\ r.rule.class \in Int /\ r.multiple \in Int
              /\ r.rule.kind = "data_quality" => QualityStates(d) # {}
         /\ \A x \in Components :
              (\E r \in DeepReasons(c, d) : r.rule = ValuationRule(x))
                <=> Confirmed(c, ConfirmedValuation(c, d, x), x)
<1> DEFINE metrics == DeepMetrics(c, d)
           states == QualityStates(d)
           numeric == {r \in NumericRules : Matches(r, metrics[r.metric])}
           confirmed == {x \in Components : Confirmed(c, metrics[<<x>>], x)}
           byState == [s \in states |-> [rule |-> QualityRule(s), multiple |-> Places]]
           byRule == [r \in numeric |->
                        [rule |-> r, multiple |-> Quotient(Tested(r, metrics[r.metric]), r.threshold)]]
           byChange == [x \in confirmed |->
                          [rule |-> ValuationRule(x), multiple |-> First(Stage1Finding(c, x)).multiple]]
           A == {byState[s] : s \in states}
           B == {byRule[r] : r \in numeric}
           C == {byChange[x] : x \in confirmed}
<1>1. DeepReasons(c, d) = A \cup B \cup C
  BY DEF DeepReasons
<1>2. IsFiniteSet(states)
  <2>1. states \in SUBSET ({"source_discrepancy"} \cup {"market_date_mismatch"})
    BY DEF QualityStates
  <2>2. IsFiniteSet({"source_discrepancy"} \cup {"market_date_mismatch"})
    BY FS_Singleton, FS_Union
  <2> HIDE DEF states
  <2> QED
    BY <2>1, <2>2, FS_Subset
<1>3. IsFiniteSet(numeric)
  BY NumericRulesType, FS_Subset
<1>4. IsFiniteSet(confirmed)
  <2>1. confirmed \in SUBSET ({"pe_ratio"} \cup {"pb_ratio"} \cup {"dividend_yield"})
    BY DEF Components
  <2>2. IsFiniteSet({"pe_ratio"} \cup {"pb_ratio"} \cup {"dividend_yield"})
    BY FS_Singleton, FS_Union
  <2> HIDE DEF confirmed
  <2> QED
    BY <2>1, <2>2, FS_Subset
<1>5. \A x \in Components : metrics[<<x>>] = ConfirmedValuation(c, d, x)
  BY DeepMetricsType
<1>6. ASSUME NEW s \in states
      PROVE  /\ byState[s].rule.class \in Int /\ byState[s].multiple \in Int
             /\ byState[s].rule.kind = "data_quality"
  BY Stage1Assumption DEF QualityRule, DeepRule
<1>7. ASSUME NEW r \in numeric
      PROVE  /\ byRule[r].rule.class \in Int /\ byRule[r].multiple \in Int
             /\ byRule[r].rule.kind = "research_change"
             /\ byRule[r].rule.operator # "stage1_transition_confirmed"
  <2>1. /\ r.metric \in DeepMetricNames /\ r.kind = "research_change" /\ r.class \in Nat
        /\ r.operator \in {"abs_current_gte", "current_gte", "abs_delta_gte"}
        /\ r.threshold \in Nat \ {0} /\ Matches(r, metrics[r.metric])
    BY NumericRulesType
  <2> DEFINE m == metrics[r.metric]
  <2>2. Measure(m) /\ Matches(r, m)
    BY <2>1, DeepMetricsType
  <2> HIDE DEF m
  <2>3. Tested(r, m) \in Int
    BY <2>1, <2>2, TestedType
  <2>4. r.threshold \in Int /\ r.threshold > 0
    BY <2>1
  <2>5. Quotient(Tested(r, m), r.threshold) \in Int
    BY <2>3, <2>4, QuotientType
  <2>6. byRule[r].rule = r /\ byRule[r].multiple = Quotient(Tested(r, m), r.threshold)
    BY DEF m
  <2> HIDE DEF byRule
  <2> QED
    BY <2>1, <2>5, <2>6
<1>8. ASSUME NEW x \in confirmed
      PROVE  /\ byChange[x].rule = ValuationRule(x)
             /\ byChange[x].rule.class \in Int /\ byChange[x].multiple \in Int
             /\ byChange[x].rule.kind = "research_change"
  <2>1. Stage1Finding(c, x) # {}
    BY DEF Confirmed
  <2>2. IsReason(First(Stage1Finding(c, x)), c.metrics)
    BY <2>1, FindingType
  <2> QED
    BY <2>2 DEF IsReason, ValuationRule, DeepRule
<1>9. \A x, y : ValuationRule(x) = ValuationRule(y) => x = y
  <2> SUFFICES ASSUME NEW x, NEW y, ValuationRule(x) = ValuationRule(y) PROVE x = y
    OBVIOUS
  <2>1. ValuationRule(x).metric = <<x>> /\ ValuationRule(y).metric = <<y>>
    BY DEF ValuationRule, DeepRule
  <2>2. <<x>> = <<y>>
    BY <2>1
  <2>3. <<x>>[1] = <<y>>[1]
    BY <2>2
  <2> QED
    BY <2>3
<1>10. \A x : /\ ValuationRule(x).kind = "research_change"
              /\ ValuationRule(x).operator = "stage1_transition_confirmed"
  BY DEF ValuationRule, DeepRule
<1>11. \A x \in Components : x \in confirmed <=> Confirmed(c, ConfirmedValuation(c, d, x), x)
  BY <1>5
<1> HIDE DEF metrics, states, numeric, confirmed, byState, byRule, byChange
<1>12. IsFiniteSet(A) /\ IsFiniteSet(B) /\ IsFiniteSet(C)
  BY <1>2, <1>3, <1>4, ImageFinite
<1> HIDE DEF A, B, C
<1>13. IsFiniteSet(DeepReasons(c, d))
  BY <1>1, <1>12, FS_Union
<1>14. ASSUME NEW r \in DeepReasons(c, d)
       PROVE  /\ r.rule.class \in Int /\ r.multiple \in Int
              /\ r.rule.kind = "data_quality" => states # {}
  <2>1. CASE r \in A
    BY <1>6, <2>1 DEF A
  <2>2. CASE r \in B
    BY <1>7, <2>2 DEF B
  <2>3. CASE r \in C
    BY <1>8, <2>3 DEF C
  <2> QED
    BY <1>1, <2>1, <2>2, <2>3
<1>15. ASSUME NEW x \in Components
       PROVE  (\E r \in DeepReasons(c, d) : r.rule = ValuationRule(x)) <=> x \in confirmed
  <2>1. ASSUME NEW r \in DeepReasons(c, d), r.rule = ValuationRule(x) PROVE x \in confirmed
    <3>1. r \notin A
      BY <1>6, <1>10, <2>1 DEF A
    <3>2. r \notin B
      BY <1>7, <1>10, <2>1 DEF B
    <3>3. PICK y \in confirmed : r = byChange[y]
      BY <1>1, <3>1, <3>2 DEF C
    <3> QED
      BY <1>8, <1>9, <2>1, <3>3
  <2>2. ASSUME x \in confirmed PROVE \E r \in DeepReasons(c, d) : r.rule = ValuationRule(x)
    BY <1>1, <1>8, <2>2 DEF C
  <2> QED
    BY <2>1, <2>2
<1> QED
  BY <1>11, <1>13, <1>14, <1>15 DEF states

(******************************************************************************)
(* Candidates.                                                                *)
(******************************************************************************)
(* What is drafted of a candidate: nothing, or what its dataset shows.        *)
Drafted(b, c) == b = Failed(c) \/ \E d : Dataset(d) /\ b = Researched(c, d)

(* A draft is about its candidate, and ranks before the research candidates   *)
(* exactly when its data is in doubt.                                         *)
LEMMA DraftType ==
  ASSUME NEW c, Chosen(c), NEW b, Drafted(b, c)
  PROVE  /\ b.candidate = c
         /\ IsFiniteSet(b.reasons) /\ \A r \in b.reasons : r.rule.class \in Int /\ r.multiple \in Int
         /\ QualityPriority(b) \in Int
         /\ b.kind = "data_quality_candidate" => QualityPriority(b) < 4
         /\ b.kind = "research_candidate" => QualityPriority(b) = 4
<1>1. CASE b = Failed(c)
  <2>1. /\ b.candidate = c /\ b.reasons = {} /\ b.quality = "failed"
        /\ b.kind = "data_quality_candidate"
    BY <1>1 DEF Failed
  <2>2. QualityPriority(b) = 0
    BY <2>1 DEF QualityPriority
  <2> QED
    BY <2>1, <2>2, FS_EmptySet
<1>2. ASSUME NEW d, Dataset(d), b = Researched(c, d)
      PROVE  /\ b.candidate = c
             /\ IsFiniteSet(b.reasons)
             /\ \A r \in b.reasons : r.rule.class \in Int /\ r.multiple \in Int
             /\ QualityPriority(b) \in Int
             /\ b.kind = "data_quality_candidate" => QualityPriority(b) < 4
             /\ b.kind = "research_candidate" => QualityPriority(b) = 4
  <2> DEFINE found == DeepReasons(c, d)
  <2>1. /\ b.candidate = c /\ b.reasons = found /\ b.quality = QualityStatus(d)
        /\ b.kind = IF b.quality = "blocked" \/ OfKind(found, "data_quality") # {}
                    THEN "data_quality_candidate" ELSE "research_candidate"
    BY <1>2 DEF Researched
  <2>2. /\ IsFiniteSet(found) /\ \A r \in found : r.rule.class \in Int /\ r.multiple \in Int
        /\ \A r \in found : r.rule.kind = "data_quality" => QualityStates(d) # {}
    BY <1>2, DeepReasonsType
  <2> HIDE DEF found
  <2>3. CASE b.quality = "blocked"
    <3>1. QualityPriority(b) = 1
      BY <2>3 DEF QualityPriority
    <3> QED
      BY <2>1, <2>2, <2>3, <3>1
  <2>4. CASE b.quality = "warning"
    <3>1. QualityPriority(b) = IF b.kind = "data_quality_candidate" THEN 2 ELSE 4
      BY <2>4 DEF QualityPriority
    <3>2. CASE b.kind = "data_quality_candidate"
      <4>1. QualityPriority(b) = 2
        BY <3>1, <3>2
      <4> QED
        BY <2>1, <2>2, <3>2, <4>1
    <3>3. CASE b.kind # "data_quality_candidate"
      <4>1. QualityPriority(b) = 4
        BY <3>1, <3>3
      <4> QED
        BY <2>1, <2>2, <3>3, <4>1
    <3> QED
      BY <3>2, <3>3
  <2>5. CASE b.quality = "clean"
    <3>1. QualityPriority(b) = 4
      BY <2>5 DEF QualityPriority
    <3>2. d.status = "available" /\ d.validation = "available"
      BY <2>1, <2>5 DEF QualityStatus
    <3>3. QualityStates(d) = {}
      BY <3>2 DEF QualityStates
    <3>4. OfKind(found, "data_quality") = {}
      BY <2>2, <3>3 DEF OfKind
    <3> QED
      BY <2>1, <2>2, <2>5, <3>1, <3>4
  <2>6. b.quality \in {"blocked", "warning", "clean"}
    BY <2>1 DEF QualityStatus
  <2> QED
    BY <2>3, <2>4, <2>5, <2>6
<1> QED
  BY <1>1, <1>2 DEF Drafted

(* The priority key of a draft is seven integers, the priority of its quality *)
(* first and the symbol last.                                                 *)
LEMMA DeepKeyType ==
  ASSUME NEW c, Chosen(c), NEW b, Drafted(b, c)
  PROVE  /\ DeepPriorityKey(b) \in [1 .. 7 -> Int]
         /\ DeepPriorityKey(b)[1] = QualityPriority(b) /\ DeepPriorityKey(b)[7] = c.symbol
<1> DEFINE R == b.reasons
           class == [r \in R |-> r.rule.class]
           multiple == [r \in R |-> r.multiple]
           classes == {r.rule.class : r \in R} \cup {999}
           multiples == {r.multiple : r \in R} \cup {0}
           changes == OfKind(R, "research_change")
           primary == Primary(c.reasons)
<1>1. /\ b.candidate = c /\ IsFiniteSet(R) /\ QualityPriority(b) \in Int
      /\ \A r \in R : r.rule.class \in Int /\ r.multiple \in Int
  BY DraftType
<1>2. IsFiniteSet(primary)
  BY ReasonsType DEF Chosen
<1>3. IsFiniteSet(changes)
  <2>1. changes \in SUBSET R
    BY DEF OfKind
  <2> HIDE DEF changes, R
  <2> QED
    BY <1>1, <2>1, FS_Subset
<1>4. Cardinality(primary) \in Nat /\ Cardinality(changes) \in Nat
  BY <1>2, <1>3, FS_CardinalityType
<1>5. {r.rule.class : r \in R} = {class[r] : r \in R} /\ {r.multiple : r \in R} = {multiple[r] : r \in R}
  OBVIOUS
<1>6. classes \in SUBSET Int /\ classes # {} /\ multiples \in SUBSET Int /\ multiples # {}
  BY <1>1
<1> HIDE DEF class, multiple, R
<1>7. IsFiniteSet(classes) /\ IsFiniteSet(multiples)
  <2>1. IsFiniteSet({class[r] : r \in R}) /\ IsFiniteSet({multiple[r] : r \in R})
    BY <1>1, ImageFinite
  <2>2. ASSUME NEW S, IsFiniteSet(S), NEW x PROVE IsFiniteSet(S \cup {x})
    BY <2>2, FS_Singleton, FS_Union
  <2> DEFINE high == 999
             low == 0
  <2>3. classes = {class[r] : r \in R} \cup {high} /\ multiples = {multiple[r] : r \in R} \cup {low}
    BY <1>5
  <2> HIDE DEF high, low, classes, multiples
  <2>4. IsFiniteSet({class[r] : r \in R} \cup {high}) /\ IsFiniteSet({multiple[r] : r \in R} \cup {low})
    BY <2>1, <2>2
  <2> QED
    BY <2>3, <2>4
<1> HIDE DEF classes, multiples
<1>8. Least(classes) \in Int /\ Greatest(multiples) \in Int
  BY <1>6, <1>7, Extremes
<1>9. c.symbol \in Int /\ c.rank \in Int
  BY DEF Chosen
<1>10. DeepPriorityKey(b) =
         << QualityPriority(b), -Cardinality(changes), -Cardinality(primary), Least(classes),
            -Greatest(multiples), c.rank, c.symbol >>
  BY <1>1 DEF DeepPriorityKey, changes, primary, classes, multiples, R
<1> HIDE DEF changes, primary
<1> QED
  BY <1>1, <1>4, <1>8, <1>9, <1>10

(******************************************************************************)
(* What a scan of a screen finds, at each of its steps.                       *)
(******************************************************************************)
ScanRead(screen, s) == ScreeningRead(screen.then[s], screen.asOf)

ScanMetrics(screen) ==
  [s \in DOMAIN screen.then |-> Metrics(SnapshotOf(ScanRead(screen, s), screen.previous))]

FoundBy(screen) == [s \in DOMAIN screen.then |-> Reasons(ScanMetrics(screen)[s])]

ListOf(screen) == Shortlist(FoundBy(screen), screen.limit)

CandidateOf(screen, i) ==
  LET s == ListOf(screen)[i]
  IN  [symbol |-> s, rank |-> i, reasons |-> FoundBy(screen)[s], metrics |-> ScanMetrics(screen)[s]]

DraftOf(screen, i) == Draft(CandidateOf(screen, i), screen.later[ListOf(screen)[i]], screen.asOf)
DraftsOf(screen) == {DraftOf(screen, i) : i \in DOMAIN ListOf(screen)}

Scanned(screen) ==
  /\ ScreenInput(screen)
  /\ \A s \in DOMAIN screen.then : Translates(ScanRead(screen, s), screen.previous)

(* A scan makes a snapshot of every symbol, finds reasons and lists symbols.  *)
LEMMA ScanType ==
  ASSUME NEW screen, Scanned(screen)
  PROVE  /\ \A s \in DOMAIN screen.then :
              /\ Snapshot(SnapshotOf(ScanRead(screen, s), screen.previous))
              /\ Measures(ScanMetrics(screen)[s]) /\ FoundBy(screen)[s] = Reasons(ScanMetrics(screen)[s])
         /\ DOMAIN FoundBy(screen) = DOMAIN screen.then
         /\ Found(FoundBy(screen)) /\ Listed(ListOf(screen), FoundBy(screen))
<1>1. ASSUME NEW s \in DOMAIN screen.then
      PROVE  /\ Snapshot(SnapshotOf(ScanRead(screen, s), screen.previous))
             /\ Measures(ScanMetrics(screen)[s])
             /\ FoundBy(screen)[s] = Reasons(ScanMetrics(screen)[s])
  <2> DEFINE snapshot == SnapshotOf(ScanRead(screen, s), screen.previous)
  <2>1. ~ScanRead(screen, s).refused
    BY DEF Scanned, Translates
  <2>2. Snapshot(snapshot)
    BY <2>1, SnapshotType DEF Scanned, ScanRead
  <2>3. ScanMetrics(screen)[s] = Metrics(snapshot)
    BY DEF ScanMetrics
  <2> HIDE DEF snapshot
  <2>4. Measures(ScanMetrics(screen)[s])
    BY <2>2, <2>3, MetricsType DEF Measures
  <2>5. FoundBy(screen)[s] = Reasons(ScanMetrics(screen)[s])
    BY DEF FoundBy
  <2> QED
    BY <2>2, <2>4, <2>5 DEF snapshot
<1>2. DOMAIN FoundBy(screen) = DOMAIN screen.then
  BY DEF FoundBy
<1>3. Found(FoundBy(screen))
  BY <1>1, <1>2 DEF Found, Scanned, ScreenInput
<1>4. screen.limit \in Nat
  BY DEF Scanned, ScreenInput
<1>5. Listed(ListOf(screen), FoundBy(screen))
  BY <1>3, <1>4, ShortlistType DEF ListOf
<1> QED
  BY <1>1, <1>2, <1>3, <1>5

(* A read of Stage 2 that is not refused makes a dataset, of the same status  *)
(* and the same valuation.                                                    *)
LEMMA DatasetType ==
  ASSUME NEW rows, StoredRows(rows), NEW asOf \in Nat, ~ResearchingRead(rows, asOf).refused
  PROVE  /\ Dataset(DatasetOf(ResearchingRead(rows, asOf)))
         /\ DatasetOf(ResearchingRead(rows, asOf)).status
              = PriceStatus(DatesAsOf(DOMAIN rows.prices, asOf), asOf)
         /\ LET valuation == ValuationAsOf(rows.metrics, asOf)
            IN  DatasetOf(ResearchingRead(rows, asOf)).valuation
                  = [c \in DOMAIN valuation \cap Components |-> valuation[c].value]
<1> DEFINE read == ResearchingRead(rows, asOf)
           d == DatasetOf(read)
<1>1. DeepObservations \in Nat
  BY Stage2Assumption DEF DeepObservations
<1>2. /\ Priced(Observations(read.history))
      /\ read.history.status = PriceStatus(DatesAsOf(DOMAIN rows.prices, asOf), asOf)
      /\ read.valuation = ValuationAsOf(rows.metrics, asOf)
      /\ \A c \in DOMAIN read.valuation : read.valuation[c].value \in Int
  BY <1>1, ReadType DEF ResearchingRead
<1> HIDE DEF read
<1>3. /\ d.prices = Observations(read.history) /\ d.status = read.history.status
      /\ d.valuation = [c \in DOMAIN read.valuation \cap Components |-> read.valuation[c].value]
  BY DEF DatasetOf
<1> HIDE DEF d
<1>4. \A c \in DOMAIN d.valuation : d.valuation[c] \in Int
  BY <1>2, <1>3
<1>5. Dataset(d)
  BY <1>2, <1>3, <1>4 DEF Dataset
<1> QED
  BY <1>2, <1>3, <1>5 DEF d, read

(* Every symbol of the list makes a candidate and a draft.                    *)
LEMMA CandidatesType ==
  ASSUME NEW screen, Scanned(screen), NEW i \in DOMAIN ListOf(screen)
  PROVE  /\ ListOf(screen)[i] \in DOMAIN screen.then
         /\ Chosen(CandidateOf(screen, i)) /\ CandidateOf(screen, i).symbol = ListOf(screen)[i]
         /\ Drafted(DraftOf(screen, i), CandidateOf(screen, i))
<1> DEFINE list == ListOf(screen)
           s == list[i]
           c == CandidateOf(screen, i)
           read == ResearchingRead(screen.later[s], screen.asOf)
<1>1. PICK n \in Nat : list \in [1 .. n -> DOMAIN FoundBy(screen)]
  BY ScanType DEF Listed
<1>2. i \in Nat /\ s \in DOMAIN screen.then
  BY <1>1, ScanType
<1>3. s \in Int /\ StoredRows(screen.later[s]) /\ screen.asOf \in Nat
  BY <1>2 DEF Scanned, ScreenInput
<1>4. /\ c.symbol = s /\ c.rank = i /\ c.reasons = FoundBy(screen)[s]
      /\ c.metrics = ScanMetrics(screen)[s]
  BY DEF CandidateOf
<1> HIDE DEF list, s, c
<1>5. Chosen(c)
  BY <1>2, <1>3, <1>4, ScanType DEF Chosen
<1>6. DraftOf(screen, i) = IF read.refused THEN Failed(c) ELSE Researched(c, DatasetOf(read))
  BY DEF DraftOf, Draft, c, s, list
<1>7. ~read.refused => Dataset(DatasetOf(read))
  BY <1>3, DatasetType
<1> HIDE DEF read
<1>8. Drafted(DraftOf(screen, i), c)
  BY <1>6, <1>7 DEF Drafted
<1> QED
  BY <1>2, <1>4, <1>5, <1>8 DEF c, s, list

(******************************************************************************)
(* The final order.                                                           *)
(******************************************************************************)
DeepKeys(screen) == [b \in DraftsOf(screen) |-> DeepPriorityKey(b)]

(* The final list has every draft once, in the order of the keys.             *)
LEMMA RankedType ==
  ASSUME NEW screen, Scanned(screen)
  PROVE  /\ Len(Ranked(DraftsOf(screen))) = Len(ListOf(screen))
         /\ ByKey(Ranked(DraftsOf(screen)), DeepKeys(screen), DraftsOf(screen))
<1> DEFINE list == ListOf(screen)
           S == DraftsOf(screen)
           size == Cardinality(S)
           draft == [i \in DOMAIN list |-> DraftOf(screen, i)]
           key == DeepKeys(screen)
           member(i) == CHOOSE x \in S :
             Cardinality({y \in S : Precedes(DeepPriorityKey(y), DeepPriorityKey(x))}) = i - 1
           ranked == Ranked(S)
<1>1. PICK n \in Nat : list \in [1 .. n -> DOMAIN FoundBy(screen)]
  BY ScanType DEF Listed
<1>2. DOMAIN list = 1 .. n /\ \A i, j \in 1 .. n : list[i] = list[j] => i = j
  BY <1>1, ScanType DEF Listed
<1>3. \A i \in 1 .. n :
        /\ Chosen(CandidateOf(screen, i)) /\ CandidateOf(screen, i).symbol = list[i]
        /\ Drafted(DraftOf(screen, i), CandidateOf(screen, i))
  BY <1>2, CandidatesType
<1>4. \A i \in 1 .. n : /\ DeepPriorityKey(draft[i]) \in [1 .. 7 -> Int]
                        /\ DeepPriorityKey(draft[i])[7] = list[i]
  BY <1>2, <1>3, DeepKeyType
<1>5. S = {draft[i] : i \in 1 .. n}
  BY <1>2 DEF DraftsOf
<1>6. draft \in [1 .. n -> S]
  BY <1>2 DEF DraftsOf
<1> HIDE DEF draft, S, list
<1>7. ASSUME NEW i \in 1 .. n, NEW j \in 1 .. n,
             DeepPriorityKey(draft[i]) = DeepPriorityKey(draft[j])
      PROVE  i = j
  BY <1>2, <1>4, <1>7
<1>8. IsFiniteSet(S) /\ Cardinality(S) = n
  <2>1. IsFiniteSet(1 .. n) /\ Cardinality(1 .. n) = n
    BY FS_Interval
  <2>2. draft \in Bijection(1 .. n, S)
    BY <1>5, <1>6, <1>7 DEF Bijection, Injection, IsInjective, Surjection
  <2>3. ExistsBijection(1 .. n, S)
    BY <2>2 DEF ExistsBijection
  <2> QED
    BY <2>1, <2>3, FS_Bijection
<1>9. Keyed(key, 7, S)
  <2>1. \A x \in S : key[x] = DeepPriorityKey(x) /\ DOMAIN key = S
    BY DEF DeepKeys, S
  <2>2. key = [x \in S |-> DeepPriorityKey(x)]
    BY DEF DeepKeys, S
  <2> HIDE DEF key
  <2>3. key \in [S -> [1 .. 7 -> Int]]
    BY <1>4, <1>5, <2>2
  <2>4. ASSUME NEW x \in S, NEW y \in S, key[x] = key[y] PROVE x = y
    <3>1. PICK i \in 1 .. n : x = draft[i]
      BY <1>5
    <3>2. PICK j \in 1 .. n : y = draft[j]
      BY <1>5
    <3> QED
      BY <1>7, <2>1, <2>4, <3>1, <3>2
  <2> QED
    BY <2>3, <2>4 DEF Keyed
<1>10. \A x \in S : Lower(key, S, x) = {y \in S : Precedes(DeepPriorityKey(y), DeepPriorityKey(x))}
  BY DEF Lower, DeepKeys, S
<1> HIDE DEF key
<1>11. /\ \A i \in 1 .. size : \E x \in S : Cardinality(Lower(key, S, x)) = i - 1
       /\ \A f : RankedBy(f, key, S) => ByKey(f, key, S)
  <2>1. 7 \in Nat
    OBVIOUS
  <2> QED
    BY <1>8, <1>9, <2>1, KeysOrder
<1>12. ranked = [i \in 1 .. size |-> member(i)]
  BY DEF Ranked, Sorted
<1>13. ASSUME NEW i \in 1 .. size
       PROVE  member(i) \in S /\ Cardinality(Lower(key, S, member(i))) = i - 1
  <2>1. \E x \in S :
          Cardinality({y \in S : Precedes(DeepPriorityKey(y), DeepPriorityKey(x))}) = i - 1
    BY <1>10, <1>11
  <2>2. /\ member(i) \in S
        /\ Cardinality({y \in S : Precedes(DeepPriorityKey(y), DeepPriorityKey(member(i)))}) = i - 1
    BY <2>1
  <2> HIDE DEF member
  <2> QED
    BY <1>10, <2>2
<1> HIDE DEF member, ranked
<1>14. RankedBy(ranked, key, S)
  <2>1. ranked = [i \in 1 .. size |-> ranked[i]]
    BY <1>12
  <2>2. \A i \in 1 .. size : ranked[i] \in S /\ Cardinality(Lower(key, S, ranked[i])) = i - 1
    BY <1>12, <1>13
  <2> QED
    BY <2>1, <2>2 DEF RankedBy
<1>15. ByKey(ranked, key, S)
  BY <1>11, <1>14
<1>16. Len(ranked) = n
  BY <1>8, <1>15 DEF ByKey
<1>17. Len(list) = n
  BY <1>1
<1> QED
  BY <1>15, <1>16, <1>17 DEF ranked, key, S, list

(******************************************************************************)
(* What Stage 2 repeats of Stage 1 when the rows have not changed.            *)
(******************************************************************************)
Repeats(r) ==
  /\ r.quality # "failed"
  /\ (\E f \in Primary(r.candidate.reasons) : f.rule.metric \in PriceMetrics)
       => r.quality # "blocked"
  /\ \A c \in Components :
       LET seen == Stage1Finding(r.candidate, c)
       IN  (\E f \in r.reasons : f.rule = ValuationRule(c)) <=>
             \E f \in seen : f.metric.current # NoNumber

(* The same rows are neither refused nor blocked, and show the same           *)
(* valuation, whatever the length of the history.                             *)
LEMMA ResearchRepeats ==
  ASSUME NEW screen, Scanned(screen), NEW i \in DOMAIN ListOf(screen),
         LET s == ListOf(screen)[i] IN screen.then[s] = screen.later[s]
  PROVE  Repeats(DraftOf(screen, i))
<1> DEFINE s == ListOf(screen)[i]
           rows == screen.then[s]
           asOf == screen.asOf
           first == ScanRead(screen, s)
           snapshot == SnapshotOf(first, screen.previous)
           candidate == CandidateOf(screen, i)
           read == ResearchingRead(rows, asOf)
           d == DatasetOf(read)
           status == PriceStatus(DatesAsOf(DOMAIN rows.prices, asOf), asOf)
           valuation == ValuationAsOf(rows.metrics, asOf)
           r == DraftOf(screen, i)
<1>1. /\ s \in DOMAIN screen.then /\ Chosen(candidate)
      /\ StoredRows(rows) /\ asOf \in Nat
  BY CandidatesType DEF Scanned, ScreenInput
<1>2. ~first.refused
  BY <1>1 DEF Scanned, Translates
<1>3. /\ first.history.status = status /\ first.valuation = valuation
      /\ \A c \in DOMAIN valuation : valuation[c].value \in Int
  <2>1. HistoryObservations \in Nat
    BY ObservationsNeeded, Stage1Assumption
  <2> QED
    BY <1>1, <1>2, <2>1, ReadType DEF ScanRead, ScreeningRead
<1>4. ~read.refused
  BY <1>2, RefusedAlike DEF ScanRead, ScreeningRead, ResearchingRead
<1>5. /\ Dataset(d) /\ d.status = status
      /\ d.valuation = [c \in DOMAIN valuation \cap Components |-> valuation[c].value]
  BY <1>1, <1>4, DatasetType
<1>6. r = Researched(candidate, d)
  BY <1>4 DEF DraftOf, Draft
<1>7. /\ Snapshot(snapshot) /\ Measures(candidate.metrics)
      /\ candidate.metrics = Metrics(snapshot)
      /\ candidate.reasons = Reasons(candidate.metrics)
  BY <1>1, ScanType DEF CandidateOf, ScanMetrics
<1>8. snapshot.status = status /\ snapshot.current = CurrentValuation(valuation)
  BY <1>3 DEF SnapshotOf
<1> HIDE DEF s, rows, asOf, first, snapshot, candidate, read, d, status, valuation, r
<1>9. /\ r.candidate = candidate /\ r.quality = QualityStatus(d)
      /\ r.reasons = DeepReasons(candidate, d)
  BY <1>6 DEF Researched
<1>10. r.quality # "failed"
  BY <1>9 DEF QualityStatus
<1>11. ASSUME NEW f \in Primary(candidate.reasons), f.rule.metric \in PriceMetrics
       PROVE  r.quality # "blocked"
  <2>1. IsReason(f, candidate.metrics)
    BY <1>7, ReasonsType
  <2>2. candidate.metrics[f.rule.metric].status = "available"
    BY <2>1 DEF IsReason, Matches
  <2>3. snapshot.status = "available"
    BY <1>7, <1>11, <2>2, MetricsType
  <2> QED
    BY <1>5, <1>8, <1>9, <2>3 DEF QualityStatus
<1>12. ASSUME NEW c \in Components
       PROVE  (\E f \in r.reasons : f.rule = ValuationRule(c)) <=>
                \E f \in Stage1Finding(candidate, c) : f.metric.current # NoNumber
  <2> DEFINE seen == Stage1Finding(candidate, c)
             m == candidate.metrics[c]
             repeated == ConfirmedValuation(candidate, d, c)
  <2>1. (\E f \in r.reasons : f.rule = ValuationRule(c)) <=> Confirmed(candidate, repeated, c)
    BY <1>1, <1>5, <1>9, DeepReasonsType
  <2>2. /\ \A f \in seen : f.metric = m /\ m.status = "available"
        /\ seen # {} => First(seen) \in seen
    BY <1>1, FindingType DEF IsReason, Matches
  <2>3. Confirmed(candidate, repeated, c) <=>
          seen # {} /\ repeated.status = "available" /\ m.current = repeated.current
    BY <2>2 DEF Confirmed
  <2>4. m = ValuationUpdate(snapshot, c)
    BY <1>7, MetricsType
  <2>5. m.status = "available" => m.current = snapshot.current[c] /\ snapshot.current # NoValuation
    BY <2>4 DEF ValuationUpdate, Available, Unavailable
  <2>6. m.status = "available" =>
          m.current = IF c \in DOMAIN valuation THEN valuation[c].value ELSE NoNumber
    BY <1>8, <2>5 DEF CurrentValuation
  <2>7. NoNumber \notin Int
    BY Stage1Assumption
  <2>8. CASE c \in DOMAIN valuation
    <3>1. repeated.status = "available" /\ repeated.current = valuation[c].value
      BY <1>5, <2>8 DEF ConfirmedValuation, Available
    <3>2. valuation[c].value # NoNumber
      BY <1>3, <2>7, <2>8
    <3> HIDE DEF seen, m, repeated
    <3> QED
      BY <2>1, <2>2, <2>3, <2>6, <2>8, <3>1, <3>2 DEF seen
  <2>9. CASE c \notin DOMAIN valuation
    <3>1. repeated.status # "available"
      BY <1>5, <2>9 DEF ConfirmedValuation, Unavailable
    <3> HIDE DEF seen, m, repeated
    <3>2. \A f \in seen : f.metric.current = NoNumber
      BY <2>2, <2>6, <2>9
    <3> QED
      BY <2>1, <2>3, <3>1, <3>2 DEF seen
  <2> QED
    BY <2>8, <2>9
<1>13. Repeats(r)
  BY <1>9, <1>10, <1>11, <1>12 DEF Repeats
<1> QED
  BY <1>13 DEF r

(******************************************************************************)
(* The order of the candidates.                                               *)
(******************************************************************************)
(* What RankingHolds says of a final list.                                    *)
LEMMA RankedRight ==
  ASSUME NEW q, Scanned(q.of), q.found = FoundBy(q.of), q.list = ListOf(q.of),
         q.ranked = Ranked(DraftsOf(q.of))
  PROVE  RankingHolds(q)
<1> DEFINE screen == q.of
           list == q.list
           ranked == q.ranked
           S == DraftsOf(screen)
           key == DeepKeys(screen)
           listed == {list[i] : i \in DOMAIN list}
           results == {ranked[i] : i \in DOMAIN ranked}
           size == Cardinality(S)
<1>1. /\ Len(ranked) = Len(list)
      /\ ranked \in [1 .. size -> S] /\ \A x \in S : \E i \in 1 .. size : ranked[i] = x
      /\ \A i, j \in 1 .. size : Precedes(key[ranked[i]], key[ranked[j]]) <=> i < j
  BY RankedType DEF ByKey
<1>2. results = S
  BY <1>1
<1>3. /\ S = {DraftOf(screen, i) : i \in DOMAIN list}
      /\ \A b \in S : key[b] = DeepPriorityKey(b)
  BY DEF DraftsOf, DeepKeys
<1>4. \A i \in DOMAIN list :
        /\ Chosen(CandidateOf(screen, i)) /\ CandidateOf(screen, i).symbol = list[i]
        /\ Drafted(DraftOf(screen, i), CandidateOf(screen, i))
  BY CandidatesType
<1>5. \A i \in DOMAIN list :
        LET b == DraftOf(screen, i)
        IN  /\ b.candidate = CandidateOf(screen, i)
            /\ DeepPriorityKey(b) \in [1 .. 7 -> Int]
            /\ DeepPriorityKey(b)[1] = QualityPriority(b)
            /\ b.kind = "data_quality_candidate" => QualityPriority(b) < 4
            /\ b.kind = "research_candidate" => QualityPriority(b) = 4
  BY <1>4, DraftType, DeepKeyType
<1>6. Listed(list, q.found)
  BY ScanType
<1> HIDE DEF S, key, results, listed, ranked, list
<1>7. {r.candidate.symbol : r \in results} = listed
  BY <1>2, <1>3, <1>4, <1>5 DEF listed
<1>8. ASSUME NEW i \in DOMAIN ranked, NEW j \in DOMAIN ranked,
             ranked[i].kind = "data_quality_candidate", ranked[j].kind = "research_candidate"
      PROVE  i < j
  <2>1. i \in 1 .. size /\ j \in 1 .. size /\ ranked[i] \in S /\ ranked[j] \in S
    BY <1>1
  <2>2. /\ key[ranked[i]] \in [1 .. 7 -> Int] /\ key[ranked[j]] \in [1 .. 7 -> Int]
        /\ key[ranked[i]][1] < 4 /\ key[ranked[j]][1] = 4
    BY <1>3, <1>5, <1>8, <2>1
  <2>3. key[ranked[i]][1] < key[ranked[j]][1]
    BY <2>2
  <2>4. 7 \in Nat /\ 7 > 0
    OBVIOUS
  <2>5. Precedes(key[ranked[i]], key[ranked[j]])
    BY <2>2, <2>3, <2>4, PrecedesFirst
  <2> QED
    BY <1>1, <2>1, <2>5
<1>9. ASSUME NEW s \in DOMAIN q.found \ listed, NEW t \in listed
      PROVE  Cardinality(Primary(q.found[s])) =< Cardinality(Primary(q.found[t]))
  <2>1. PICK i \in DOMAIN list : t = list[i]
    BY DEF listed
  <2> QED
    BY <1>6, <2>1 DEF Listed, listed
<1>10. ASSUME NEW r \in results,
              screen.then[r.candidate.symbol] = screen.later[r.candidate.symbol]
       PROVE  Repeats(r)
  <2>1. PICK i \in DOMAIN list : r = DraftOf(screen, i)
    BY <1>2, <1>3
  <2>2. r.candidate.symbol = ListOf(screen)[i] /\ i \in DOMAIN ListOf(screen)
    BY <1>4, <1>5, <2>1 DEF list
  <2> QED
    BY <1>10, <2>1, <2>2, ResearchRepeats
<1>11. RankingHolds(q)
  BY <1>1, <1>7, <1>8, <1>9, <1>10 DEF RankingHolds, Repeats, results, listed, ranked, list
<1> QED
  BY <1>11

USE QuestionAssumption

(******************************************************************************)
(* The date of a day.                                                         *)
(******************************************************************************)
LEMMA DayResolves ==
  ASSUME NEW d \in Days
  PROVE  ResolvesPublished(d)
<1> DEFINE state == Classify(d.requested, d.latest)
           r == ResolveTradingDay(d.requested, d.latest)
<1>1. d.requested \in Int /\ d.latest \in Int \cup {NoDate} /\ NoDate \notin Int
  OBVIOUS
<1>2. /\ r.status = ResolutionStatus(state)
      /\ r.resolved = IF state \in Resolves THEN d.latest ELSE NoDate
      /\ r.asked = (d.requested \notin Weekend)
  BY DEF ResolveTradingDay
<1>3. CASE d.requested \in Weekend
  <2>1. state = "weekend"
    BY <1>3 DEF Classify
  <2> QED
    BY <1>2, <1>3, <2>1 DEF ResolvesPublished, ResolutionStatus, Resolves
<1>4. CASE d.requested \notin Weekend /\ d.latest = NoDate
  <2>1. state = "latest_unavailable"
    BY <1>4 DEF Classify
  <2> QED
    BY <1>2, <1>4, <2>1 DEF ResolvesPublished, ResolutionStatus, Resolves
<1>5. CASE d.requested \notin Weekend /\ d.latest # NoDate /\ d.latest < d.requested
  <2>1. state = "latest_before_requested"
    BY <1>5 DEF Classify
  <2> QED
    BY <1>2, <1>5, <2>1 DEF ResolvesPublished, ResolutionStatus, Resolves
<1>6. CASE d.requested \notin Weekend /\ d.latest # NoDate /\ ~(d.latest < d.requested)
  <2>1. state \in Resolves
    BY <1>6 DEF Classify, Resolves
  <2>2. d.latest >= d.requested
    BY <1>1, <1>6
  <2>3. r.status = "resolved"
    BY <1>2, <2>1 DEF ResolutionStatus, Resolves
  <2> QED
    BY <1>2, <1>6, <2>1, <2>2, <2>3 DEF ResolvesPublished
<1> QED
  BY <1>3, <1>4, <1>5, <1>6

(******************************************************************************)
(* The securities of a day.  Rows conflict in their names exactly when two of *)
(* them name the security differently, a delisting row without a name aside.  *)
(******************************************************************************)
LEMMA NamesConflict ==
  ASSUME NEW e \in Evidence
  PROVE  NameConflict(e) <=> \E n, m \in NamesOf(e) : n # m
<1>1. NamesOf(e) \subseteq {"A", "B"}
  BY DEF Evidence, IdentityRow, TradingRow, ValuationRow, DelistingRow, NamesOf
<1>2. \/ NamesOf(e) = {} \/ NamesOf(e) = {"A"} \/ NamesOf(e) = {"B"}
      \/ NamesOf(e) = {"A", "B"}
  BY <1>1
<1> DEFINE size == Cardinality(NamesOf(e))
<1>6. NameConflict(e) <=> size > 1
  BY DEF NameConflict
<1> HIDE DEF size
<1>3. CASE NamesOf(e) = {}
  <2>1. size = 0
    BY <1>3, FS_EmptySet DEF size
  <2>2. ~NameConflict(e)
    BY <1>6, <2>1
  <2> QED
    BY <1>3, <2>2
<1>4. CASE NamesOf(e) = {"A"} \/ NamesOf(e) = {"B"}
  <2>1. size = 1
    BY <1>4, FS_Singleton DEF size
  <2>2. ~NameConflict(e)
    BY <1>6, <2>1
  <2> QED
    BY <1>4, <2>2
<1>5. CASE NamesOf(e) = {"A", "B"}
  <2>1. IsFiniteSet({"A"}) /\ Cardinality({"A"}) = 1
    BY FS_Singleton
  <2>2. "B" \notin {"A"}
    OBVIOUS
  <2>3. Cardinality({"A"} \cup {"B"}) = 1 + 1
    BY <2>1, <2>2, FS_AddElement
  <2>4. {"A"} \cup {"B"} = {"A", "B"}
    OBVIOUS
  <2>5. size = 1 + 1
    BY <1>5, <2>3, <2>4, Zenon DEF size
  <2>6. NameConflict(e)
    BY <1>6, <2>5
  <2> QED
    BY <1>5, <2>6
<1> QED
  BY <1>2, <1>3, <1>4, <1>5

LEMMA ListedScanned ==
  ASSUME NEW s \in Securities
  PROVE  ScannedExactlyWhenListed(s)
<1> DEFINE e == s.evidence
           f == DayEvidence(e)
           class == DayClass(e, s.stable)
           Agree == \A r, t \in e.identity \cup e.trading \cup e.valuation : r.name = t.name
<1>1. e \in Evidence /\ s.day \in Nat /\ s.stable \in Classifications
  OBVIOUS
<1>2. /\ f.identity = e.identity /\ f.trading = e.trading /\ f.valuation = e.valuation
      /\ e.identity # {} => f.delisting = {}
      /\ f \in Evidence
  BY <1>1 DEF DayEvidence, Evidence
<1>3. ASSUME e.identity = {}
      PROVE  DayStatus(e, s.stable, s.day) # "eligible"
  <2>1. class # "common_equity" \/ Delisted(f, s.day) \/ Unresolved(f, class, s.day)
    BY <1>2, <1>3 DEF Unresolved
  <2>2. class \in {"common_equity", "etf", "tdr"} \/ Delisted(f, s.day)
          \/ Unresolved(f, class, s.day)
    BY <1>1 DEF Unresolved, DayClass, Classifications
  <2> QED
    BY <2>1, <2>2 DEF DayStatus, MemberStatus
<1>4. ASSUME e.identity # {}
      PROVE  NameConflict(f) <=> ~Agree
  <2>1. NamesOf(f) = {r.name : r \in e.identity \cup e.trading \cup e.valuation} \ {NoName}
    BY <1>2, <1>4 DEF NamesOf
  <2>2. \A r \in e.identity \cup e.trading \cup e.valuation : r.name # NoName
    BY <1>1 DEF Evidence, IdentityRow, TradingRow, ValuationRow
  <2>3. NamesOf(f) = {r.name : r \in e.identity \cup e.trading \cup e.valuation}
    BY <2>1, <2>2
  <2>4. (\E n, m \in NamesOf(f) : n # m) <=> ~Agree
    BY <2>3
  <2> QED
    BY <1>2, <2>4, NamesConflict
<1>5. ASSUME e.identity # {}
      PROVE  DayStatus(e, s.stable, s.day) = "eligible" <=>
               /\ ~NameConflict(f) /\ ~ListedLater(f, s.day)
               /\ s.stable \notin {"etf", "tdr"} /\ Scannable(f)
  <2>1. ~Delisted(f, s.day)
    BY <1>2, <1>5 DEF Delisted
  <2>2. class = IF s.stable \in {"etf", "tdr"} THEN s.stable ELSE "common_equity"
    BY <1>5 DEF DayClass
  <2>3. Unresolved(f, class, s.day) <=> NameConflict(f) \/ ListedLater(f, s.day)
    BY <1>2, <1>5, <2>1, <2>2 DEF Unresolved
  <2>4. DayStatus(e, s.stable, s.day) = MemberStatus(f, class, s.day)
    BY DEF DayStatus
  <2> QED
    BY <2>1, <2>2, <2>3, <2>4 DEF MemberStatus
<1>6. Scannable(f) <=> e.valuation # {} /\ \E r \in e.trading : r.priced
  BY <1>2 DEF Scannable
<1>7. ListedLater(f, s.day) <=> ~ \A r \in e.identity : r.listed =< s.day
  <2>1. \A r \in e.identity : r.listed \in Nat
    BY <1>1 DEF Evidence, IdentityRow
  <2> QED
    BY <1>1, <1>2, <2>1 DEF ListedLater
<1>8. CASE e.identity = {}
  BY <1>3, <1>8 DEF ScannedExactlyWhenListed
<1>9. CASE e.identity # {}
  BY <1>4, <1>5, <1>6, <1>7, <1>9 DEF ScannedExactlyWhenListed
<1> QED
  BY <1>8, <1>9

LEMMA ClassCarriesOver ==
  ASSUME NEW s \in Securities
  PROVE  CarriedOver(s)
<1> DEFINE e == s.evidence
           f == DayEvidence(e)
           class == DayClass(e, s.stable)
           status == DayStatus(e, s.stable, s.day)
           kept == StableClass(status, class)
<1> SUFFICES ASSUME status # "unresolved"
             PROVE  DayStatus(e, kept, s.day) = status
  BY DEF CarriedOver
<1>1. status = MemberStatus(f, class, s.day)
  BY DEF DayStatus
<1>2. DayStatus(e, kept, s.day) = MemberStatus(f, DayClass(e, kept), s.day)
  BY DEF DayStatus
<1>3. ~Unresolved(f, class, s.day)
  BY <1>1 DEF MemberStatus
<1>4. CASE Delisted(f, s.day)
  <2>1. status = "inactive"
    BY <1>1, <1>3, <1>4 DEF MemberStatus
  <2>2. ~Unresolved(f, DayClass(e, kept), s.day)
    BY <1>3, <1>4 DEF Unresolved
  <2> QED
    BY <1>2, <1>4, <2>1, <2>2 DEF MemberStatus
<1>5. CASE ~Delisted(f, s.day) /\ class \in {"etf", "tdr"}
  <2>1. status = "excluded"
    BY <1>1, <1>3, <1>5 DEF MemberStatus
  <2>2. kept = class
    BY <2>1 DEF StableClass
  <2>3. DayClass(e, class) = class
    BY <1>5 DEF DayClass
  <2> QED
    BY <1>1, <1>2, <2>2, <2>3
<1>6. CASE ~Delisted(f, s.day) /\ class \notin {"etf", "tdr"}
  <2>1. class = "common_equity" /\ status # "excluded"
    <3>1. class \in Classifications
      BY DEF DayClass, Classifications
    <3>2. class \notin {"none", "unknown"}
      BY <1>3, <1>6 DEF Unresolved
    <3> QED
      BY <1>1, <1>3, <1>6, <3>1, <3>2 DEF MemberStatus, Classifications
  <2>2. kept = "common_equity"
    BY <2>1 DEF StableClass
  <2>3. DayClass(e, "common_equity") = "common_equity"
    BY DEF DayClass
  <2> QED
    BY <1>1, <1>2, <2>1, <2>2, <2>3
<1> QED
  BY <1>4, <1>5, <1>6

(******************************************************************************)
(* What a read shows.                                                         *)
(******************************************************************************)
(* The number of observations asked for is nowhere but in the rows returned.  *)
LEMMA StoreAgrees ==
  ASSUME NEW s \in Stores
  PROVE  StoreReadsAgree(s)
<1> DEFINE prices == s.stored.prices
           metrics == s.stored.metrics
           Read(n) == BaselineRead(s.stored, [asOf |-> s.asOf, history |-> n])
           whole == Read(All)
           dates == DatesAsOf(DOMAIN prices, s.asOf)
           canonical == {prices[d].source : d \in dates}
                          \cup {m.source : m \in {x \in metrics : x.date =< s.asOf}}
           validation == ValidationAsOf(s.stored.runs, s.asOf)
           validating == IF validation = NoValidation THEN {} ELSE {"twse", "esun"}
           allowed == SourcesAllowed(canonical, validating, dates # {})
           History1(n) == History(prices, [asOf |-> s.asOf, history |-> n])
           valuation == ValuationAsOf(metrics, s.asOf)
<1>1. /\ s.asOf \in Nat /\ DOMAIN prices \subseteq Nat /\ IsFiniteSet(metrics)
      /\ \A m \in metrics : m.date \in Nat
  BY DEF StoredRows
<1>2. ASSUME NEW n
      PROVE  Read(n) = IF ~allowed THEN Refused
                       ELSE [refused |-> FALSE, history |-> History1(n),
                             valuation |-> valuation, validation |-> validation]
  BY DEF BaselineRead
<1>3. ASSUME NEW n
      PROVE  /\ DOMAIN History1(n).prices = Returned(dates, n)
             /\ History1(n).status = PriceStatus(dates, s.asOf)
  BY DEF History
<1>4. \A d \in dates : d =< s.asOf
  BY DEF DatesAsOf
<1>5. PriceStatus(dates, s.asOf) = "available" <=> s.asOf \in DOMAIN prices
  BY <1>1 DEF PriceStatus, DatesAsOf
<1>6. ASSUME NEW name \in DOMAIN valuation PROVE valuation[name].date =< s.asOf
  <2> DEFINE named == {m \in {x \in metrics : x.date =< s.asOf} : m.name = name}
  <2>1. named # {} /\ valuation[name] = Nearest(named)
    BY <1>6 DEF ValuationAsOf
  <2>2. named \in SUBSET metrics /\ \A m \in named : m.date =< s.asOf
    OBVIOUS
  <2> HIDE DEF named
  <2>3. Nearest(named) \in named
    BY <1>1, <2>1, <2>2, NearestIn
  <2> QED
    BY <2>1, <2>2, <2>3
<1>7. ASSUME NEW n \in Windows
      PROVE  Returned(dates, n) = Latest(Returned(dates, All), n)
  BY DEF Returned, All
<1> HIDE DEF Read, dates, canonical, validation, validating, allowed, History1, valuation
<1>8. ASSUME NEW n PROVE Read(n).refused <=> ~allowed
  BY <1>2 DEF Refused
<1>9. ASSUME NEW n, allowed
      PROVE  /\ DOMAIN Read(n).history.prices = Returned(dates, n)
             /\ Read(n).history.status = PriceStatus(dates, s.asOf)
             /\ Read(n).valuation = valuation /\ Read(n).validation = validation
  BY <1>2, <1>3, <1>9
<1>10. Returned(dates, All) = dates
  BY DEF Returned
<1>11. ASSUME NEW n \in Windows
       PROVE  /\ Read(n).refused <=> Read(All).refused
              /\ ~Read(All).refused =>
                   /\ DOMAIN Read(n).history.prices = Latest(DOMAIN Read(All).history.prices, n)
                   /\ \A d \in DOMAIN Read(All).history.prices : d =< s.asOf
                   /\ Read(n).history.status = Read(All).history.status
                   /\ Read(n).history.status = "available" <=> s.asOf \in DOMAIN prices
                   /\ Read(n).valuation = Read(All).valuation
                   /\ \A name \in DOMAIN Read(All).valuation :
                        Read(All).valuation[name].date =< s.asOf
                   /\ Read(n).validation = Read(All).validation
  <2>1. CASE ~allowed
    BY <1>8, <2>1
  <2>2. CASE allowed
    BY <1>4, <1>5, <1>6, <1>7, <1>8, <1>9, <1>10, <2>2
  <2> QED
    BY <2>1, <2>2
<1> QED
  BY <1>11 DEF StoreReadsAgree, Read

(* A version is read when none of its supplements is cut off.                 *)
LEMMA VersionAgrees ==
  ASSUME NEW v \in Versions
  PROVE  VersionReadsAgree(v)
<1> SUFFICES ASSUME NEW n \in Windows
             PROVE  LET read == VersionRead(v, [asOf |-> v.asOf, history |-> n])
                        tail == Latest(DOMAIN v.prices, n)
                    IN  /\ ~read.refused <=>
                              /\ InRole(v.prices, "supplemental") \subseteq tail
                              /\ InRole(v.prices, "canonical") # {}
                        /\ ~read.refused => DOMAIN read.history.prices = tail
  BY DEF VersionReadsAgree
<1> DEFINE dates == DOMAIN v.prices
           tail == Latest(dates, n)
           request == [asOf |-> v.asOf, history |-> n]
           history == History(v.prices, request)
           whole == InRole(v.prices, "supplemental")
           shown == InRole(history.prices, "supplemental")
           read == VersionRead(v, request)
<1>1. /\ IsVersion(v) /\ v.asOf \in Nat /\ dates \subseteq 0 .. v.asOf
      /\ n \in Nat \ {0}
  BY DEF IsVersion
<1>2. IsFiniteSet(dates)
  <2>1. 0 \in Int /\ v.asOf \in Int /\ dates \in SUBSET (0 .. v.asOf)
    BY <1>1
  <2>2. IsFiniteSet(0 .. v.asOf)
    BY <2>1, FS_Interval
  <2> QED
    BY <2>1, <2>2, FS_Subset
<1>3. DatesAsOf(dates, v.asOf) = dates
  BY <1>1 DEF DatesAsOf
<1>4. history.prices = [d \in tail |-> v.prices[d]] /\ tail \subseteq dates
  BY <1>1, <1>3 DEF History, Returned, All, Latest
<1> HIDE DEF history, tail
<1>5. DOMAIN history.prices = tail /\ \A d \in tail : history.prices[d] = v.prices[d]
  BY <1>4
<1>6. shown = whole \cap tail
  BY <1>4, <1>5 DEF InRole
<1>7. Cardinality(whole) = Cardinality(shown) <=> whole \subseteq tail
  <2>1. whole \subseteq dates
    BY DEF InRole
  <2>2. IsFiniteSet(whole)
    BY <1>2, <2>1, FS_Subset
  <2> HIDE DEF whole, shown
  <2>3. Cardinality(whole) = Cardinality(shown) => whole = shown
    BY <1>6, <2>2, FS_Subset
  <2> QED
    BY <1>6, <2>3
<1>8. \A d \in DOMAIN history.prices :
         history.prices[d].source \in
           (IF history.prices[d].role = "canonical" THEN TwseSources ELSE EsunSources)
  BY <1>1, <1>4, <1>5 DEF IsVersion
<1>9. v.status # "provisional_mixed" => InRole(v.prices, "supplemental") = {}
  BY <1>1 DEF IsVersion
<1>10. DualSourceAllowed(v, history) <=>
         whole \subseteq tail /\ InRole(v.prices, "canonical") # {}
  BY <1>7, <1>8, <1>9 DEF DualSourceAllowed
<1>11. read = IF ~DualSourceAllowed(v, history) THEN Refused
              ELSE [refused |-> FALSE, history |-> history,
                    valuation |-> [name \in {} |-> 0], validation |-> VersionValidation(v)]
  BY DEF VersionRead, history
<1> HIDE DEF read, whole, request
<1>12. ~read.refused <=> DualSourceAllowed(v, history)
  BY <1>11 DEF Refused
<1>13. ~read.refused => DOMAIN read.history.prices = tail
  BY <1>5, <1>11, <1>12
<1> QED
  BY <1>10, <1>12, <1>13 DEF read, request, tail, whole

(******************************************************************************)
(* A question is about one of the inputs it may be asked of, at every state.  *)
(******************************************************************************)
QuestionInv ==
  /\ question.kind = "supplement" => question.of \in Supplements /\ ValidCandidate(question.of)
  /\ question.kind = "day" => question.of \in Days
  /\ question.kind = "security" => question.of \in Securities
  /\ question.kind = "store" => question.of \in Stores
  /\ question.kind = "version" => question.of \in Versions
  /\ question.kind = "history" => question.of \in Histories
  /\ question.kind = "screen" => question.of \in Screens
  /\ question.kind \in {"scanned", "selected", "researched", "ranked"} => Scanned(question.of)
  /\ question.kind \in {"scanned", "selected"} => question.metrics = ScanMetrics(question.of)
  /\ question.kind \in {"selected", "researched", "ranked"} =>
       question.found = FoundBy(question.of) /\ question.list = ListOf(question.of)
  /\ question.kind = "researched" => question.drafts = DraftsOf(question.of)
  /\ question.kind = "ranked" => question.ranked = Ranked(DraftsOf(question.of))

LEMMA QuestionInvariant == Spec => []QuestionInv
<1>1. Init => QuestionInv
  BY DEF Init, NoQuestion, QuestionInv
<1>2. QuestionInv /\ [Next]_question => QuestionInv'
  <2> SUFFICES ASSUME QuestionInv, [Next]_question
               PROVE  QuestionInv'
    OBVIOUS
  <2>1. CASE AskSupplement
    BY <2>1 DEF AskSupplement, Ask, QuestionInv
  <2>2. CASE AskSecurity
    BY <2>2 DEF AskSecurity, Ask, QuestionInv
  <2>3. CASE AskDay
    BY <2>3 DEF AskDay, Ask, QuestionInv
  <2>4. CASE AskStore
    BY <2>4 DEF AskStore, Ask, QuestionInv
  <2>5. CASE AskVersion
    BY <2>5 DEF AskVersion, Ask, QuestionInv
  <2>6. CASE AskHistory
    BY <2>6 DEF AskHistory, Ask, QuestionInv
  <2>7. CASE AskScreen
    BY <2>7 DEF AskScreen, Ask, QuestionInv
  <2>8. CASE Scan
    <3>1. question.kind = "screen" /\ question.of \in Screens
      BY <2>8 DEF Scan, QuestionInv
    <3>2. /\ question'.kind = "scanned" /\ question'.of = question.of
          /\ question'.metrics = ScanMetrics(question.of)
          /\ \A s \in DOMAIN question.of.then :
               Translates(ScanRead(question.of, s), question.of.previous)
      BY <2>8 DEF Scan, ScanMetrics, ScanRead
    <3>3. Scanned(question.of)
      BY <3>1, <3>2 DEF Scanned
    <3> QED
      BY <3>2, <3>3 DEF QuestionInv
  <2>9. CASE Select
    <3>1. /\ question.kind = "scanned" /\ Scanned(question.of)
          /\ question.metrics = ScanMetrics(question.of)
      BY <2>9 DEF Select, QuestionInv
    <3>2. DOMAIN ScanMetrics(question.of) = DOMAIN question.of.then
      BY DEF ScanMetrics
    <3>3. /\ question'.kind = "selected" /\ question'.of = question.of
          /\ question'.metrics = question.metrics
          /\ question'.found = [s \in DOMAIN question.metrics |-> Reasons(question.metrics[s])]
          /\ question'.list = Shortlist(question'.found, question.of.limit)
      BY <2>9 DEF Select
    <3>4. question'.found = FoundBy(question.of)
      BY <3>1, <3>2, <3>3 DEF FoundBy
    <3>5. question'.list = ListOf(question.of)
      BY <3>3, <3>4 DEF ListOf
    <3> QED
      BY <3>1, <3>3, <3>4, <3>5 DEF QuestionInv
  <2>10. CASE Research
    <3>1. /\ question.kind = "selected" /\ Scanned(question.of)
          /\ question.metrics = ScanMetrics(question.of)
          /\ question.found = FoundBy(question.of) /\ question.list = ListOf(question.of)
      BY <2>10 DEF Research, QuestionInv
    <3>2. /\ question'.kind = "researched" /\ question'.of = question.of
          /\ question'.found = question.found /\ question'.list = question.list
          /\ question'.drafts =
               {Draft(Candidate(i), question.of.later[question.list[i]], question.of.asOf) :
                  i \in DOMAIN question.list}
      BY <2>10 DEF Research
    <3>3. \A i : Candidate(i) = CandidateOf(question.of, i)
      BY <3>1 DEF Candidate, CandidateOf
    <3>4. question'.drafts = DraftsOf(question.of)
      BY <3>1, <3>2, <3>3 DEF DraftsOf, DraftOf
    <3> QED
      BY <3>1, <3>2, <3>4 DEF QuestionInv
  <2>11. CASE Rank
    <3>1. /\ question.kind = "researched" /\ Scanned(question.of)
          /\ question.found = FoundBy(question.of) /\ question.list = ListOf(question.of)
          /\ question.drafts = DraftsOf(question.of)
      BY <2>11 DEF Rank, QuestionInv
    <3>2. /\ question'.kind = "ranked" /\ question'.of = question.of
          /\ question'.found = question.found /\ question'.list = question.list
          /\ question'.ranked = Ranked(question.drafts)
      BY <2>11 DEF Rank
    <3> QED
      BY <3>1, <3>2 DEF QuestionInv
  <2>12. CASE UNCHANGED question
    BY <2>12 DEF QuestionInv
  <2> QED
    BY <2>1, <2>2, <2>3, <2>4, <2>5, <2>6, <2>7, <2>8, <2>9, <2>10, <2>11, <2>12 DEF Next
<1> QED
  BY <1>1, <1>2, PTL DEF Spec

(******************************************************************************)
(* evaluate_supplemental lets E.SUN rows in exactly when the five conditions  *)
(* of docs/dual-source-resilience.md hold, for payloads of any length, any    *)
(* dates and any prices: none of its early returns is missing, and none       *)
(* shadows another.                                                           *)
(******************************************************************************)
THEOREM SupplementsDecided == Spec => []EligibleExactlyWhenSafe
<1>1. QuestionInv => EligibleExactlyWhenSafe
  <2> SUFFICES ASSUME QuestionInv, question.kind = "supplement"
               PROVE  DecidesSafely(question.of)
    BY DEF EligibleExactlyWhenSafe
  <2>1. CandidateInput(question.of) /\ ValidCandidate(question.of)
    BY DEF QuestionInv
  <2> QED
    BY <2>1, DecisionSafe
<1> QED
  BY <1>1, QuestionInvariant, PTL

(******************************************************************************)
(* For all dates and all evidence: a requested date resolves to a published   *)
(* date that is not before it, never on a weekend; a security is scanned      *)
(* exactly when the official list names it and nothing speaks against it; and *)
(* a universe carried over to a later day reads the same evidence the same    *)
(* way (resolve_trading_day, _acquire_universe, build_market_universe).       *)
(******************************************************************************)
THEOREM DaysDecided == Spec => []DayDecided
<1>1. QuestionInv => DayDecided
  <2> SUFFICES ASSUME QuestionInv
               PROVE  DayDecided
    OBVIOUS
  <2>1. question.kind = "day" => ResolvesPublished(question.of)
    BY DayResolves DEF QuestionInv
  <2>2. question.kind = "security" =>
          ScannedExactlyWhenListed(question.of) /\ CarriedOver(question.of)
    BY ListedScanned, ClassCarriesOver DEF QuestionInv
  <2> QED
    BY <2>1, <2>2 DEF DayDecided
<1> QED
  BY <1>1, QuestionInvariant, PTL

(******************************************************************************)
(* Of any rows that the tables and contracts admit, for windows and histories *)
(* of any length and any number of symbols: the number of observations asked  *)
(* for decides neither whether a read fails nor anything but how many prices  *)
(* it shows; history_observations is the least number of observations with    *)
(* which no metric of Stage 1 lacks history, and Stage 2 finds its numbers in *)
(* its own; and of a scan the final list ranks exactly the shortlist, the     *)
(* doubtful data first, repeating the changes of valuation that Stage 1 saw   *)
(* wherever no row changed in between (research_dataset.py, stage1.py,        *)
(* stage2.py).                                                                *)
(******************************************************************************)
THEOREM ScreenHolds == Spec => []ScreenSound
<1>1. QuestionInv => ScreenSound
  <2> SUFFICES ASSUME QuestionInv
               PROVE  ScreenSound
    OBVIOUS
  <2>1. /\ question.kind = "store" => StoreReadsAgree(question.of)
        /\ question.kind = "version" => VersionReadsAgree(question.of)
    BY StoreAgrees, VersionAgrees DEF QuestionInv
  <2>2. Histories \subseteq Enough
    BY DEF Enough
  <2>3. question.kind = "history" =>
          Suffices(question.of) /\ DeepSuffices(question.of) /\ StagesMeasureAlike(question.of)
    BY <2>2, HistorySuffices, DeepEnough, StagesAgree DEF QuestionInv
  <2>4. question.kind = "ranked" => RankingHolds(question)
    BY RankedRight DEF QuestionInv
  <2> QED
    BY <2>1, <2>3, <2>4 DEF ScreenSound
<1> QED
  BY <1>1, QuestionInvariant, PTL
=============================================================================
