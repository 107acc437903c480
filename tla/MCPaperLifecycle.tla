-------------------------- MODULE MCPaperLifecycle --------------------------
(***************************************************************************)
(* Small instances of PaperLifecycle for TLC.                              *)
(***************************************************************************)
EXTENDS PaperLifecycle, ScanDecision, TLC

CONSTANTS buy, again, sell

(* The plans are what a scan makes of a quote one unit wide, a pullback     *)
(* level and a stop distance, in exact prices (Grid = 1, Tolerance = 0).    *)
Instrument == [tick |-> 1, minStop |-> 1, minLot |-> MinimumLot, maxLot |-> 9, value |-> 1]

Market(bid, level, atrStop) ==
  [bid |-> bid, ask |-> bid + 1, level |-> level, ema |-> 0, swing |-> 0, atrStop |-> atrStop]

State(budget) ==
  [budget |-> budget, dailyLoss |-> 0, dailyLossLimit |-> 3, drawdown |-> 0, drawdownPause |-> 8,
   openRisk |-> 0, maxOpenRisk |-> budget]

PlanFor(direction, market, budget) ==
  LET plan == buildEntryPlan(direction, market, Instrument)
  IN  [side |-> IF direction = "LONG" THEN "BUY" ELSE "SELL", type |-> "LIMIT",
       quantity |-> calculatePositionSize(plan, Instrument, State(budget)),
       entry |-> plan.entry, stop |-> plan.stop, tp1 |-> plan.tp1, tp2 |-> plan.tp2,
       lotRisk |-> LossPerStep(plan, Instrument)]

(* A long of two lots, with TP1 at half size.                                *)
BuyLimit == [side |-> "BUY", type |-> "LIMIT", quantity |-> 2, entry |-> 10, stop |-> 8,
             tp1 |-> 14, tp2 |-> 16, lotRisk |-> 2]

(* A long of the same side and of one lot.                                   *)
BuyAgain == [side |-> "BUY", type |-> "LIMIT", quantity |-> 1, entry |-> 12, stop |-> 9,
             tp1 |-> 18, tp2 |-> 21, lotRisk |-> 3]

(* A short of one lot, too small for a partial close at TP1.                 *)
SellLimit == [side |-> "SELL", type |-> "LIMIT", quantity |-> 1, entry |-> 10, stop |-> 12,
              tp1 |-> 6, tp2 |-> 4, lotRisk |-> 2]

ASSUME PlansAreBuilt ==
  /\ BuyLimit = PlanFor("LONG", Market(12, 10, 2), 4)
  /\ BuyAgain = PlanFor("LONG", Market(14, 12, 3), 3)
  /\ SellLimit = PlanFor("SHORT", Market(7, 10, 2), 2)

OneOrder == buy :> BuyLimit
ThreeOrders == (buy :> BuyLimit) @@ (again :> BuyAgain) @@ (sell :> SellLimit)
=============================================================================
