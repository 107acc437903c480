---------------------------- MODULE ResearchReplay ----------------------------
(***************************************************************************)
(* The walk-forward evaluation of recorded history                         *)
(* (domain/research-evaluation.mjs): how the M15 bars are split into a     *)
(* training range and test folds, which test bars the replay of a fold     *)
(* scans, and when their coverage counts as complete.  The evaluation is   *)
(* sequential and keeps nothing, so these are operators, not actions.      *)
(*                                                                         *)
(* Bars are counted from 0; closedAt[b] is the close of bar b, increasing  *)
(* in b.  quotes is the increasing sequence of the quotes' instants.       *)
(* Instants are whole numbers of any unit.                                 *)
(***************************************************************************)
EXTENDS Integers, Sequences, FiniteSets

CONSTANTS
  REQUIRED_HISTORY,       \* the least number of training bars
  SCAN_PROBE_INTERVAL_MS, \* least time between two scan probes of the worker
  FreshClose              \* how old a close may be to be scanned

-----------------------------------------------------------------------------
(* Folds. *)

(* trainingFraction is a percentage here.  A history that is too short for  *)
(* one test bar in every fold is refused.                                   *)
trainingBars(bars, options) ==
  LET share == (bars * options.percent) \div 100
  IN  IF share > options.minimum THEN share ELSE options.minimum

testBars(bars, options) == bars - trainingBars(bars, options)

HistoryIsSufficient(bars, options) ==
  /\ options.foldCount \in 1 .. 10 /\ options.percent \in 1 .. 99
  /\ options.minimum \in Nat /\ options.minimum >= REQUIRED_HISTORY
  /\ testBars(bars, options) >= options.foldCount

(* The first "remainder" folds are one bar longer than the others. *)
baseLength(bars, options) == testBars(bars, options) \div options.foldCount
remainder(bars, options)  == testBars(bars, options) - options.foldCount * baseLength(bars, options)

testStartIndex(bars, options, i) ==
  trainingBars(bars, options) + (i - 1) * baseLength(bars, options)
    + IF i - 1 < remainder(bars, options) THEN i - 1 ELSE remainder(bars, options)

Length(bars, options, i) ==
  baseLength(bars, options) + IF i <= remainder(bars, options) THEN 1 ELSE 0

buildWalkForwardFolds(bars, options) ==
  [i \in 1 .. options.foldCount |->
     [start |-> testStartIndex(bars, options, i),
      end   |-> testStartIndex(bars, options, i) + Length(bars, options, i)]]

-----------------------------------------------------------------------------
(* Replay. *)

(* The test bars are start .. end - 1; the replay ends with the last quote  *)
(* that is not after the close of the last one.                             *)
testStartAt(closedAt, fold) == closedAt[fold.start]
testEndAt(closedAt, fold)   == closedAt[fold.end - 1]

(* The worker looks for a close to scan at the first quote, and then at the *)
(* first one that is the interval later than its last look.                 *)
LastProbe(quotes) ==
  LET probe[n \in 1 .. Len(quotes)] ==
        IF n = 1 \/ quotes[n] - quotes[probe[n - 1]] >= SCAN_PROBE_INTERVAL_MS THEN n ELSE probe[n - 1]
  IN  probe

IsProbe(quotes, n) == LastProbe(quotes)[n] = n

(* A candle is stored at the first quote that is not before its close, and  *)
(* the newest one stored is scanned, once, while it is fresh.               *)
freshClosedM15(closedAt, at, b) ==
  /\ closedAt[b] <= at /\ at - closedAt[b] <= FreshClose
  /\ \A later \in DOMAIN closedAt : closedAt[later] <= at => later <= b

(* The bars whose scans are counted: entries are paused, and scans not      *)
(* counted, before the first test close.                                    *)
AttemptedScans(closedAt, quotes, fold) ==
  {b \in DOMAIN closedAt :
     \E n \in 1 .. Len(quotes) :
       /\ testStartAt(closedAt, fold) <= quotes[n] /\ quotes[n] <= testEndAt(closedAt, fold)
       /\ IsProbe(quotes, n)
       /\ freshClosedM15(closedAt, quotes[n], b)}

(* The percentage is rounded to two places before it is compared with 100:  *)
(* one bar in twenty thousand may be missing.                               *)
completeScanCoverage(closedAt, quotes, fold) ==
  20000 * (fold.end - fold.start - Cardinality(AttemptedScans(closedAt, quotes, fold))) <= fold.end - fold.start
===============================================================================
