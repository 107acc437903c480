------------------------- MODULE ResearchReplayProofs -------------------------
(***************************************************************************)
(* Every test bar is in exactly one fold, after its training range; and a  *)
(* fold can only be covered when a quote was observed at the very instant  *)
(* at which its last bar closed.                                           *)
(***************************************************************************)
EXTENDS ResearchReplay, FiniteSetTheorems, TLAPS

Options == [foldCount : 1 .. 10, percent : 1 .. 99, minimum : Nat]

LEMMA Quotient ==
  ASSUME NEW a \in Nat, NEW b \in Nat \ {0}
  PROVE  a \div b \in Nat /\ b * (a \div b) <= a /\ a < b * (a \div b) + b
  OBVIOUS

(* The parts of the split. *)
LEMMA Split ==
  ASSUME NEW bars \in Nat, NEW options \in Options, HistoryIsSufficient(bars, options)
  PROVE  /\ trainingBars(bars, options) \in Nat /\ testBars(bars, options) \in Nat \ {0}
         /\ trainingBars(bars, options) + testBars(bars, options) = bars
         /\ baseLength(bars, options) \in Nat \ {0} /\ remainder(bars, options) \in Nat
         /\ remainder(bars, options) < options.foldCount
         /\ testBars(bars, options)
              = options.foldCount * baseLength(bars, options) + remainder(bars, options)
<1>1. options.foldCount \in Nat \ {0} /\ options.percent \in Nat /\ options.minimum \in Nat
  BY DEF Options
<1>2. bars * options.percent \in Nat
  BY <1>1
<1>3. (bars * options.percent) \div 100 \in Nat
  BY <1>2, Quotient
<1>4. trainingBars(bars, options) \in Nat
  BY <1>1, <1>3 DEF trainingBars
<1>5. testBars(bars, options) >= options.foldCount
  BY DEF HistoryIsSufficient
<1>6. testBars(bars, options) \in Nat \ {0} /\ trainingBars(bars, options) + testBars(bars, options) = bars
  BY <1>1, <1>4, <1>5 DEF testBars
<1> DEFINE c == options.foldCount
           t == testBars(bars, options)
           q == baseLength(bars, options)
<1> HIDE DEF c, t
<1>7. q \in Nat /\ c * q <= t /\ t < c * q + c
  <2>1. c \in Nat \ {0} /\ t \in Nat
    BY <1>1, <1>6 DEF c, t
  <2>2. q = t \div c
    BY DEF baseLength, c, t
  <2> QED
    BY <2>1, <2>2, Quotient
<1> HIDE DEF q
<1>8. q # 0
  BY <1>1, <1>5, <1>6, <1>7 DEF c, t
<1>9. c * q \in Nat
  BY <1>1, <1>7 DEF c
<1>10. remainder(bars, options) = t - c * q
  BY DEF remainder, t, c, q
<1> QED
  BY <1>1, <1>4, <1>6, <1>7, <1>8, <1>9, <1>10 DEF t, c, q

(* Every test bar is in one fold and in no other, the bars before a fold    *)
(* are its training range, and no fold is empty.                            *)
THEOREM EveryTestBarIsInOneFold ==
  ASSUME NEW bars \in Nat, NEW options \in Options, HistoryIsSufficient(bars, options)
  PROVE  LET folds == buildWalkForwardFolds(bars, options)
         IN  /\ \A i \in DOMAIN folds : trainingBars(bars, options) <= folds[i].start
                                        /\ folds[i].start < folds[i].end /\ folds[i].end <= bars
             /\ \A i, j \in DOMAIN folds : i < j => folds[i].end <= folds[j].start
             /\ \A b \in trainingBars(bars, options) .. bars - 1 :
                  \E i \in DOMAIN folds : b \in folds[i].start .. folds[i].end - 1
<1> DEFINE T == trainingBars(bars, options)
           q == baseLength(bars, options)
           r == remainder(bars, options)
           c == options.foldCount
           folds == buildWalkForwardFolds(bars, options)
           Extra(n) == IF n < r THEN n ELSE r
<1>1. T \in Nat /\ q \in Nat \ {0} /\ r \in Nat /\ r < c /\ c \in Nat \ {0}
      /\ bars = T + (c * q + r)
  <2>1. c \in Nat \ {0}
    BY DEF Options
  <2> QED
    BY <2>1, Split
<1>2. DOMAIN folds = 1 .. c
  BY DEF buildWalkForwardFolds
<1>3. \A i \in 1 .. c : folds[i].start = T + (i - 1) * q + Extra(i - 1)
                        /\ folds[i].end = folds[i].start + (q + IF i <= r THEN 1 ELSE 0)
  BY DEF buildWalkForwardFolds, testStartIndex, Length
<1> HIDE DEF T, q, r, c, folds
<1>4. \A i \in 1 .. c : folds[i].end = T + i * q + Extra(i)
  <2> SUFFICES ASSUME NEW i \in 1 .. c
               PROVE  folds[i].end = T + i * q + Extra(i)
    OBVIOUS
  <2>1. (i - 1) * q = i * q - q /\ i * q \in Nat
    BY <1>1
  <2> QED
    BY <1>1, <1>3, <2>1
<1>5. \A m, n \in 0 .. c : m <= n => m * q <= n * q /\ m * q \in Nat /\ n * q \in Nat /\ Extra(m) <= Extra(n) /\ Extra(m) \in Nat
  <2> SUFFICES ASSUME NEW m \in 0 .. c, NEW n \in 0 .. c, m <= n
               PROVE  m * q <= n * q /\ m * q \in Nat /\ n * q \in Nat /\ Extra(m) <= Extra(n) /\ Extra(m) \in Nat
    OBVIOUS
  <2>1. (n - m) * q \in Nat /\ m * q \in Nat
    BY <1>1
  <2>2. n * q = m * q + (n - m) * q
    BY <1>1
  <2> QED
    BY <1>1, <2>1, <2>2
<1>6. \A i \in 1 .. c : T <= folds[i].start /\ folds[i].start < folds[i].end /\ folds[i].end <= bars
  <2> SUFFICES ASSUME NEW i \in 1 .. c
               PROVE  T <= folds[i].start /\ folds[i].start < folds[i].end /\ folds[i].end <= bars
    OBVIOUS
  <2>1. i - 1 \in 0 .. c /\ i \in 0 .. c /\ 0 \in 0 .. c /\ c \in 0 .. c
    BY <1>1
  <2>2. (i - 1) * q \in Nat /\ Extra(i - 1) \in Nat
    BY <1>1, <1>5, <2>1
  <2>3. i * q <= c * q /\ Extra(i) <= Extra(c) /\ i * q \in Nat /\ c * q \in Nat /\ Extra(i) \in Nat
    BY <1>1, <1>5, <2>1
  <2>4. T <= folds[i].start /\ folds[i].start < folds[i].end
    BY <1>1, <1>3, <2>2
  <2>5. folds[i].end <= bars
    BY <1>1, <1>4, <2>3
  <2> QED
    BY <2>4, <2>5
<1>7. \A i, j \in 1 .. c : i < j => folds[i].end <= folds[j].start
  <2> SUFFICES ASSUME NEW i \in 1 .. c, NEW j \in 1 .. c, i < j
               PROVE  folds[i].end <= folds[j].start
    OBVIOUS
  <2>1. i \in 0 .. c /\ j - 1 \in 0 .. c /\ i <= j - 1
    BY <1>1
  <2>2. i * q <= (j - 1) * q /\ Extra(i) <= Extra(j - 1) /\ i * q \in Nat /\ (j - 1) * q \in Nat /\ Extra(i) \in Nat
    BY <1>5, <2>1
  <2>3. Extra(j - 1) \in Nat
    BY <1>1, <2>1
  <2> QED
    BY <1>1, <1>3, <1>4, <2>2, <2>3
<1>8. \A b \in T .. bars - 1 : \E i \in 1 .. c : b \in folds[i].start .. folds[i].end - 1
  <2> SUFFICES ASSUME NEW b \in T .. bars - 1
               PROVE  \E i \in 1 .. c : b \in folds[i].start .. folds[i].end - 1
    OBVIOUS
  <2> DEFINE d == b - T
  <2>1. d \in Nat /\ d < c * q + r /\ c * q \in Nat
    BY <1>1
  <2>2. r * q \in Nat /\ r * (q + 1) = r * q + r
    BY <1>1
  <2>3. CASE d < r * q + r
    <3> DEFINE n == d \div (q + 1)
    <3>1. n \in Nat /\ (q + 1) * n <= d /\ d < (q + 1) * n + (q + 1)
      <4>1. q + 1 \in Nat \ {0} /\ d \in Nat
        BY <1>1, <2>1
      <4> HIDE DEF d
      <4> QED
        BY <4>1, Quotient
    <3> HIDE DEF n, d
    <3>2. (q + 1) * n = n * q + n /\ n * q \in Nat
      BY <1>1, <3>1
    <3>3. n < r
      <4> SUFFICES ASSUME r <= n PROVE FALSE
        BY <1>1, <3>1
      <4>1. (n - r) * q \in Nat
        BY <1>1, <3>1
      <4>2. n * q = r * q + (n - r) * q
        BY <1>1, <3>1
      <4> QED
        BY <1>1, <2>1, <2>2, <2>3, <3>1, <3>2, <4>1, <4>2
    <3>4. n + 1 \in 1 .. c
      BY <1>1, <3>1, <3>3
    <3>5. folds[n + 1].start = T + n * q + n
      <4>1. (n + 1) - 1 = n
        BY <3>1
      <4> QED
        BY <1>3, <3>3, <3>4, <4>1
    <3>6. folds[n + 1].end = T + n * q + n + q + 1
      BY <1>1, <1>3, <3>1, <3>2, <3>3, <3>4, <3>5
    <3>7. b \in folds[n + 1].start .. folds[n + 1].end - 1
      BY <1>1, <2>1, <3>1, <3>2, <3>5, <3>6 DEF d
    <3> QED
      BY <3>4, <3>7
  <2>4. CASE d >= r * q + r
    <3> DEFINE e == d - r - r * q
               k == e \div q
               n == r + k
    <3>1. e \in Nat
      BY <1>1, <2>1, <2>2, <2>4
    <3> HIDE DEF e
    <3>2. k \in Nat /\ q * k <= e /\ e < q * k + q
      BY <1>1, <3>1, Quotient
    <3> HIDE DEF k
    <3>3. n * q = r * q + q * k /\ q * k \in Nat /\ n \in Nat
      BY <1>1, <3>2
    <3> HIDE DEF d
    <3>4. n * q <= d - r /\ d - r < n * q + q
      BY <1>1, <2>1, <2>2, <3>1, <3>2, <3>3 DEF e
    <3>5. n < c
      <4> SUFFICES ASSUME c <= n PROVE FALSE
        BY <1>1, <3>3
      <4>1. (n - c) * q \in Nat
        BY <1>1, <3>3
      <4>2. n * q = c * q + (n - c) * q
        BY <1>1, <3>3
      <4> QED
        BY <1>1, <2>1, <2>2, <3>3, <3>4, <4>1, <4>2
    <3>6. n + 1 \in 1 .. c /\ ~(n + 1 <= r) /\ ~(n < r)
      BY <1>1, <3>2, <3>3, <3>5
    <3> HIDE DEF n
    <3>7. folds[n + 1].start = T + n * q + r
      <4>1. (n + 1) - 1 = n
        BY <3>3
      <4> QED
        BY <1>3, <3>6, <4>1
    <3>8. folds[n + 1].end = T + n * q + r + q
      BY <1>1, <1>3, <3>3, <3>6, <3>7
    <3>9. b \in folds[n + 1].start .. folds[n + 1].end - 1
      BY <1>1, <2>1, <2>2, <3>3, <3>4, <3>7, <3>8 DEF d
    <3> QED
      BY <3>6, <3>9
  <2>5. d < r * q + r \/ d >= r * q + r
    BY <1>1, <2>1, <2>2
  <2> QED
    BY <2>3, <2>4, <2>5
<1> QED
  BY <1>2, <1>6, <1>7, <1>8 DEF T, folds

-----------------------------------------------------------------------------
(* Coverage. *)

(* A replay of one fold: at least one test bar, closes in their order, and  *)
(* quotes at whole instants.                                                *)
IsReplay(closedAt, quotes, fold) ==
  /\ fold.start \in Nat /\ fold.end \in Nat /\ fold.start < fold.end
  /\ \E bars \in Nat : fold.end <= bars /\ closedAt \in [0 .. bars - 1 -> Int]
  /\ \A a, b \in DOMAIN closedAt : a < b => closedAt[a] < closedAt[b]
  /\ quotes \in Seq(Int)

LEMMA IntervalSize ==
  ASSUME NEW a \in Int, NEW b \in Int, a <= b
  PROVE  IsFiniteSet(a .. b) /\ Cardinality(a .. b) = b - a + 1
  BY FS_Interval

(* Only test bars are scanned, and the last of them only on a quote at the  *)
(* instant of its close.                                                    *)
LEMMA ScansAreTestBars ==
  ASSUME NEW closedAt, NEW quotes, NEW fold, IsReplay(closedAt, quotes, fold)
  PROVE  /\ AttemptedScans(closedAt, quotes, fold) \subseteq fold.start .. fold.end - 1
         /\ fold.end - 1 \in AttemptedScans(closedAt, quotes, fold) =>
              \E n \in 1 .. Len(quotes) : quotes[n] = testEndAt(closedAt, fold)
<1>1. PICK bars \in Nat : fold.end <= bars /\ closedAt \in [0 .. bars - 1 -> Int]
  BY DEF IsReplay
<1>2. /\ fold.start \in Nat /\ fold.end \in Nat /\ fold.start < fold.end
      /\ DOMAIN closedAt = 0 .. bars - 1 /\ \A b \in 0 .. bars - 1 : closedAt[b] \in Int
      /\ \A a, b \in 0 .. bars - 1 : a < b => closedAt[a] < closedAt[b]
      /\ \A n \in 1 .. Len(quotes) : quotes[n] \in Int
  BY <1>1 DEF IsReplay
<1>3. fold.start \in 0 .. bars - 1 /\ fold.end - 1 \in 0 .. bars - 1
  BY <1>1, <1>2
<1>4. ASSUME NEW b \in 0 .. bars - 1, NEW n \in 1 .. Len(quotes),
             closedAt[fold.start] <= quotes[n], quotes[n] <= closedAt[fold.end - 1],
             freshClosedM15(closedAt, quotes[n], b)
      PROVE  b \in fold.start .. fold.end - 1 /\ (b = fold.end - 1 => quotes[n] = closedAt[fold.end - 1])
  <2>1. closedAt[b] <= quotes[n] /\ \A later \in 0 .. bars - 1 : closedAt[later] <= quotes[n] => later <= b
    BY <1>2, <1>4 DEF freshClosedM15
  <2>2. fold.start <= b
    BY <1>3, <1>4, <2>1
  <2>3. b <= fold.end - 1
    <3> SUFFICES ASSUME fold.end - 1 < b PROVE FALSE
      BY <1>2
    <3>1. closedAt[fold.end - 1] < closedAt[b]
      BY <1>2, <1>3
    <3> QED
      BY <1>2, <1>3, <1>4, <2>1, <3>1
  <2>4. b = fold.end - 1 => quotes[n] = closedAt[fold.end - 1]
    BY <1>2, <1>3, <1>4, <2>1
  <2> QED
    BY <1>2, <2>2, <2>3, <2>4
<1>5. \A b \in AttemptedScans(closedAt, quotes, fold) :
        b \in 0 .. bars - 1 /\ \E n \in 1 .. Len(quotes) :
          /\ closedAt[fold.start] <= quotes[n] /\ quotes[n] <= closedAt[fold.end - 1]
          /\ freshClosedM15(closedAt, quotes[n], b)
  BY <1>2 DEF AttemptedScans, testStartAt, testEndAt
<1> QED
  BY <1>4, <1>5 DEF testEndAt

(* The coverage of a fold of fewer than twenty thousand bars is complete    *)
(* only if a quote was observed at exactly the instant at which its last    *)
(* bar closed: one an instant later ends the replay before that bar is      *)
(* scanned, so that history with quotes everywhere else is still reported   *)
(* as M15_SCAN_COVERAGE_INCOMPLETE and its performance suppressed.          *)
THEOREM CompleteNeedsQuoteAtLastClose ==
  ASSUME NEW closedAt, NEW quotes, NEW fold, IsReplay(closedAt, quotes, fold),
         fold.end - fold.start < 20000, completeScanCoverage(closedAt, quotes, fold)
  PROVE  \E n \in 1 .. Len(quotes) : quotes[n] = testEndAt(closedAt, fold)
<1> DEFINE scans == AttemptedScans(closedAt, quotes, fold)
           tests == fold.start .. fold.end - 1
<1>1. fold.start \in Nat /\ fold.end \in Nat /\ fold.start < fold.end
  BY DEF IsReplay
<1>2. scans \subseteq tests
  BY ScansAreTestBars
<1>3. IsFiniteSet(tests) /\ Cardinality(tests) = fold.end - fold.start
  <2> DEFINE lo == fold.start
             hi == fold.end - 1
  <2>1. lo \in Int /\ hi \in Int /\ ~(lo > hi) /\ hi - lo + 1 = fold.end - fold.start
    BY <1>1
  <2> HIDE DEF lo, hi
  <2>2. IsFiniteSet(lo .. hi) /\ Cardinality(lo .. hi) = hi - lo + 1
    BY <2>1, IntervalSize
  <2> QED
    BY <2>1, <2>2 DEF lo, hi
<1> HIDE DEF scans, tests
<1>4. IsFiniteSet(scans) /\ Cardinality(scans) <= Cardinality(tests) /\ Cardinality(scans) \in Nat
  BY <1>2, <1>3, FS_Subset, FS_CardinalityType
<1>5. 20000 * (fold.end - fold.start - Cardinality(scans)) <= fold.end - fold.start
  BY DEF completeScanCoverage, scans
<1>6. Cardinality(scans) = Cardinality(tests)
  BY <1>1, <1>3, <1>4, <1>5
<1>7. scans = tests
  BY <1>2, <1>3, <1>6, FS_Subset
<1>8. fold.end - 1 \in scans
  BY <1>1, <1>7 DEF tests
<1> QED
  BY <1>8, ScansAreTestBars DEF scans
===============================================================================
