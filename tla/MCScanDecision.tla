--------------------------- MODULE MCScanDecision ---------------------------
(***************************************************************************)
(* Entry plans from prices kept in floating point, for TLC.  Prices are    *)
(* Grid units apart and a tick is no multiple of them, as a decimal tick   *)
(* is no binary fraction.                                                  *)
(***************************************************************************)
EXTENDS ScanDecision

VARIABLES
  setup,  \* what the M15 analysis hands to buildEntryPlan
  plan    \* its answer

Instrument == [tick |-> 20, minStop |-> 20, minLot |-> 1, maxLot |-> 10, value |-> 1]

(* A quote of one tick's spread around the pullback level, and a stop that  *)
(* follows from the ATR alone.                                              *)
Setups ==
  [side : {"LONG", "SHORT"}, level : {20 * n : n \in 30 .. 45}, atrStop : {40, 60, 100}]

Market(s) ==
  [bid |-> Stored(IF s.side = "LONG" THEN s.level + 100 ELSE s.level - 120),
   ask |-> Stored(IF s.side = "LONG" THEN s.level + 120 ELSE s.level - 100),
   level |-> Stored(s.level), ema |-> 0, swing |-> 0, atrStop |-> s.atrStop]

Init == setup \in Setups /\ plan = NoPlan

Scan ==
  /\ setup' \in Setups
  /\ plan' = buildEntryPlan(setup'.side, Market(setup'), Instrument)

Spec == Init /\ [][Scan]_<<setup, plan>>

(* A plan whose prices, read as the decimal prices they stand for, promise  *)
(* twice the risk at TP1 is eligible.  strategy.mjs:49 says "The product    *)
(* brief sets TP1 at a minimum of 2R" and buildEntryPlan sets it there.     *)
TwoRIsEnough == PromisesTwoR(plan, Instrument.tick) => plan.allowed
=============================================================================
