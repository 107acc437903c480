----------------------------- MODULE ScanDecision -----------------------------
(***************************************************************************)
(* What a scan makes of the market: the verdict on each timeframe          *)
(* (strategy.mjs), the entry plan, its size (risk.mjs), and the gate that  *)
(* all of it has to pass (paper-engine.mjs).  There is no state: these are *)
(* the operators behind the plan that PaperLifecycle stages.               *)
(*                                                                         *)
(* A price is a whole number of units that are much smaller than a tick.   *)
(* The code keeps prices in binary floating point, in which decimal prices *)
(* have no exact value: the neighbours of a price are Grid units apart,    *)
(* and a price read from a decimal text is the nearest of them.  Grid = 1  *)
(* is exact arithmetic.  Lots are counted in lot steps.                    *)
(***************************************************************************)
EXTENDS Integers, Sequences

CONSTANTS
  Grid,           \* the distance between neighbouring floating-point prices
  Tolerance,      \* the 1e-10 ticks that roundToTick forgives
  MinimumCandles  \* minimumCandlesPerTimeframe

ASSUME ScanAssumption ==
  Grid \in Nat \ {0} /\ Tolerance \in Nat /\ MinimumCandles \in Nat \ {0}

Timeframes == {"H4", "H1", "M30", "M15"}
FrameMinutes == [f \in Timeframes |-> CASE f = "H4" -> 240 [] f = "H1" -> 60 [] f = "M30" -> 30 [] OTHER -> 15]
timeframeWeights == [f \in Timeframes |-> CASE f = "H4" -> 35 [] f = "H1" -> 30 [] f = "M30" -> 20 [] OTHER -> 15]

takeProfit1R == 2
takeProfit2R == 3
minimumSpreadDistanceMultiple == 2
minimumTickDistanceMultiple == 2
minRiskReward == 2

Lower(a, b) == IF a < b THEN a ELSE b
Higher(a, b) == IF a > b THEN a ELSE b
Distance(a, b) == IF a < b THEN b - a ELSE a - b

-----------------------------------------------------------------------------
(* Timeframes. *)

NoTime == -1

(* What must hold of the closed candles before any indicator is computed;   *)
(* candles are records of closedAt (in minutes), quality and a sound range. *)
CandlesAreUsable(frame, candles, now) ==
  LET n == Len(candles) IN
  /\ n >= MinimumCandles
  /\ \A i \in 1 .. n : candles[i].sound /\ candles[i].quality = "VERIFIED_CLOSED"
  /\ \A i \in 2 .. n : candles[i].closedAt > candles[i - 1].closedAt
  /\ candles[n].closedAt <= now
  /\ now - candles[n].closedAt <= Higher(2 * FrameMinutes[frame], 30)
  /\ \A i \in Higher(2, n - 8) .. n :
       LET gap == candles[i].closedAt - candles[i - 1].closedAt
       IN  ~(gap > 3 * FrameMinutes[frame] /\ gap < 48 * 60)

(* votes: how many indicators could be evaluated, and how many of them say  *)
(* LONG and SHORT.                                                          *)
VoteDirection(votes) ==
  IF votes.long >= 3 /\ votes.long > votes.short THEN "LONG"
  ELSE IF votes.short >= 3 /\ votes.short > votes.long THEN "SHORT"
  ELSE "NEUTRAL"

Strength(votes) ==
  IF votes.cast = 0 THEN 0
  ELSE (200 * Higher(votes.long, votes.short) + votes.cast) \div (2 * votes.cast)

analyzeTimeframe(frame, candles, votes, now) ==
  IF ~CandlesAreUsable(frame, candles, now)
  THEN [direction |-> "UNAVAILABLE", strength |-> 0, fresh |-> FALSE,
        closedAt |-> IF candles = <<>> THEN NoTime ELSE candles[Len(candles)].closedAt]
  ELSE [direction |-> VoteDirection(votes), strength |-> Strength(votes), fresh |-> votes.cast >= 4,
        closedAt |-> candles[Len(candles)].closedAt]

-----------------------------------------------------------------------------
(* The entry plan. *)

(* Number of a decimal text: the nearest floating-point price. *)
Stored(price) == Grid * ((2 * price + Grid) \div (2 * Grid))

RoundDown(price, tick) == Stored(tick * ((price + Tolerance) \div tick))
RoundUp(price, tick)   == Stored(tick * (-((Tolerance - price) \div tick)))

NoPlan == [allowed |-> FALSE, entry |-> 0, stop |-> 0, tp1 |-> 0, tp2 |-> 0]

MinDistance(market, instrument) ==
  Higher(instrument.minStop,
         Higher(minimumSpreadDistanceMultiple * (market.ask - market.bid), minimumTickDistanceMultiple * instrument.tick))

(* The pullback levels on the right side of the middle of the quote; 0 is   *)
(* an indicator that is not available.                                      *)
Levels(side, market) ==
  {l \in {market.level, market.ema} :
     l > 0 /\ IF side = "LONG" THEN 2 * l < market.bid + market.ask ELSE 2 * l > market.bid + market.ask}

EntryLevel(side, market) ==
  CHOOSE l \in Levels(side, market) :
    \A other \in Levels(side, market) : IF side = "LONG" THEN other <= l ELSE other >= l

Entry(side, market, instrument) ==
  IF side = "LONG"
  THEN RoundDown(Lower(EntryLevel(side, market), market.bid - MinDistance(market, instrument)), instrument.tick)
  ELSE RoundUp(Higher(EntryLevel(side, market), market.ask + MinDistance(market, instrument)), instrument.tick)

(* Beyond the swing if it is on the far side of the entry, and at least the *)
(* multiple of the ATR away.                                                *)
Stop(side, market, instrument, entry) ==
  IF side = "LONG"
  THEN RoundDown(IF 0 < market.swing /\ market.swing < entry THEN Lower(market.swing, entry - market.atrStop)
                 ELSE entry - market.atrStop, instrument.tick)
  ELSE RoundUp(IF market.swing > entry THEN Higher(market.swing, entry + market.atrStop)
               ELSE entry + market.atrStop, instrument.tick)

Target(side, instrument, entry, distance) ==
  IF side = "LONG" THEN RoundUp(entry + distance, instrument.tick) ELSE RoundDown(entry - distance, instrument.tick)

(* The reward against the risk: the quotient of two distances on the grid   *)
(* is below minRiskReward exactly if their comparison says so.              *)
PlanOf(side, market, instrument) ==
  LET entry  == Entry(side, market, instrument)
      stop   == Stop(side, market, instrument, entry)
      risk   == Distance(entry, stop)
      target == Target(side, instrument, entry, takeProfit1R * risk)
  IN  IF risk < instrument.minStop \/ risk = 0 THEN NoPlan
      ELSE [allowed |-> Distance(target, entry) >= minRiskReward * risk, entry |-> entry, stop |-> stop,
            tp1 |-> target, tp2 |-> Target(side, instrument, entry, takeProfit2R * risk)]

buildEntryPlan(side, market, instrument) ==
  IF \/ market.ask < market.bid \/ market.atrStop = 0 \/ Levels(side, market) = {}
     \/ Distance(market.bid + market.ask, 2 * Entry(side, market, instrument)) < 2 * MinDistance(market, instrument)
  THEN NoPlan
  ELSE PlanOf(side, market, instrument)

(* The decimal price that a floating-point price on a tick stands for, and  *)
(* whether the plan, so read, has twice the risk between entry and TP1.     *)
Decimal(price, tick) == tick * ((2 * price + tick) \div (2 * tick))

PromisesTwoR(plan, tick) ==
  /\ plan # NoPlan
  /\ Distance(Decimal(plan.tp1, tick), Decimal(plan.entry, tick))
       >= 2 * Distance(Decimal(plan.entry, tick), Decimal(plan.stop, tick))

-----------------------------------------------------------------------------
(* The size. *)

RiskLimitsHold(state, proposed) ==
  /\ state.dailyLoss < state.dailyLossLimit
  /\ state.drawdown < state.drawdownPause
  /\ state.openRisk + proposed <= state.maxOpenRisk

(* What one lot step loses between entry and stop. *)
LossPerStep(plan, instrument) == Distance(plan.entry, plan.stop) * instrument.value

(* The lots that the budget pays for, 0 if the position is refused.         *)
calculatePositionSize(plan, instrument, state) ==
  LET loss == LossPerStep(plan, instrument)
      lots == Lower(state.budget \div loss, instrument.maxLot)
  IN  IF plan.entry <= 0 \/ plan.stop <= 0 \/ lots < instrument.minLot \/ ~RiskLimitsHold(state, lots * loss)
      THEN 0 ELSE lots

-----------------------------------------------------------------------------
(* The gate. *)

One(analysis, side) == IF analysis.fresh /\ analysis.direction = side THEN 1 ELSE 0
Votes(analyses, side) ==
  One(analyses["H4"], side) + One(analyses["H1"], side) + One(analyses["M30"], side) + One(analyses["M15"], side)

Direction(analyses) ==
  IF Votes(analyses, "LONG") = Votes(analyses, "SHORT") THEN "NEUTRAL"
  ELSE IF Votes(analyses, "LONG") > Votes(analyses, "SHORT") THEN "LONG" ELSE "SHORT"

Weighted(analyses, side, f) ==
  IF analyses[f].direction = side THEN timeframeWeights[f] * analyses[f].strength ELSE 0
alignedScore(analyses, side) ==
  (Weighted(analyses, side, "H4") + Weighted(analyses, side, "H1")
     + Weighted(analyses, side, "M30") + Weighted(analyses, side, "M15") + 50) \div 100

IsComplete(analyses) ==
  \A f \in Timeframes : analyses[f].fresh /\ analyses[f].direction \in {"LONG", "SHORT", "NEUTRAL"}

(* Every timeframe was closed with, or less than its own length before, the *)
(* M15 candle.                                                              *)
IsAligned(analyses) ==
  \A f \in Timeframes :
    LET age == analyses["M15"].closedAt - analyses[f].closedAt
    IN  analyses[f].closedAt # NoTime /\ age >= 0 /\ age < FrameMinutes[f]

Agrees(analyses, side) ==
  /\ side \in {"LONG", "SHORT"}
  /\ Votes(analyses, side) >= 3
  /\ 100 * Votes(analyses, side) >= 60 * 4
  /\ alignedScore(analyses, side) >= 70
  /\ \A f \in {"H4", "H1", "M30"} : analyses[f].direction \in {side, "NEUTRAL"}
  /\ analyses["M15"].direction = side

QuotePasses(market) ==
  market.fresh /\ market.ask >= market.bid /\ market.maxSpread > 0 /\ market.ask - market.bid <= market.maxSpread

evaluateMtfGate(analyses, market, state, plan, lots) ==
  /\ IsComplete(analyses) /\ IsAligned(analyses)
  /\ Agrees(analyses, Direction(analyses))
  /\ QuotePasses(market)
  /\ state.newsAllowed
  /\ lots > 0 /\ ~state.entryPaused /\ state.paperMode
  /\ plan.allowed

Refused == [accepted |-> FALSE, side |-> "NEUTRAL", plan |-> NoPlan, lots |-> 0]

evaluatePaperScan(analyses, market, instrument, state) ==
  LET side == Direction(analyses)
      plan == IF side # "NEUTRAL" /\ analyses["M15"].fresh THEN buildEntryPlan(side, market, instrument) ELSE NoPlan
      lots == IF state.fresh /\ plan # NoPlan THEN calculatePositionSize(plan, instrument, state) ELSE 0
  IN  IF evaluateMtfGate(analyses, market, state, plan, lots)
      THEN [accepted |-> TRUE, side |-> side, plan |-> plan, lots |-> lots]
      ELSE Refused

===============================================================================
