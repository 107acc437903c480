--------------------------- MODULE PaperExecution ---------------------------
(***************************************************************************)
(* The paper broker (domain/paper-execution.mjs): the two pure decisions   *)
(* every simulated order and position goes through.                        *)
(*                                                                         *)
(*   matchPendingOrder    what one quote does to a working order           *)
(*   managePaperPosition  what one quote does to an open position          *)
(*                                                                         *)
(* Prices, money and times are integers.  Lots are counted in lot steps,   *)
(* so rounding down to the lot step is integer division, and one unit of   *)
(* price on one lot step is one unit of money (contract size times rate).  *)
(***************************************************************************)
EXTENDS Integers

CONSTANTS
  SlippagePrice,     \* adverse price shift of market and stop executions
  CommissionPerLot,  \* charged on every executed lot
  MinimumLot,        \* smallest executable quantity
  FillPercent,       \* fillRatio, in percent of the requested quantity
  BreakEvenOffset,   \* distance of the protective stop from the entry
  FillLatency        \* quotes observed earlier than this are not matched

(***************************************************************************)
(* validateCosts throws on anything else.                                  *)
(***************************************************************************)
ASSUME CostsAssumption ==
  /\ SlippagePrice \in Nat
  /\ CommissionPerLot \in Nat
  /\ MinimumLot \in Nat \ {0}
  /\ FillPercent \in 1 .. 100
  /\ BreakEvenOffset \in Nat
  /\ FillLatency \in Nat

Smaller(a, b) == IF a <= b THEN a ELSE b
Larger(a, b)  == IF a >= b THEN a ELSE b

(* Number(x.toFixed(k)) of a quotient: the nearest integer. *)
Rounded(a, b) == (2 * a + b) \div (2 * b)

-----------------------------------------------------------------------------
(* Orders. *)

Triggered(plan, quote) ==
  \/ plan.side = "BUY"  /\ plan.type = "LIMIT" /\ quote.ask <= plan.entry
  \/ plan.side = "BUY"  /\ plan.type = "STOP"  /\ quote.ask >= plan.entry
  \/ plan.side = "SELL" /\ plan.type = "LIMIT" /\ quote.bid >= plan.entry
  \/ plan.side = "SELL" /\ plan.type = "STOP"  /\ quote.bid <= plan.entry

(* A smaller allocation is rounded up to the minimum lot, capped at the     *)
(* remainder.                                                               *)
FilledLots(requested) ==
  Smaller(requested, Larger((requested * FillPercent) \div 100, MinimumLot))

FillPrice(plan, quote) ==
  LET adverse == IF plan.side = "BUY" THEN quote.ask + SlippagePrice ELSE quote.bid - SlippagePrice
  IN  IF plan.type # "LIMIT" THEN adverse
      ELSE IF plan.side = "BUY" THEN Smaller(plan.entry, adverse)
      ELSE Larger(plan.entry, adverse)

(***************************************************************************)
(* The verdict of one fresh quote on "requested" remaining lots of an      *)
(* order, in the order the code takes its early returns.                   *)
(***************************************************************************)
TooEarly(createdAt, quote, now) ==
  \/ quote.observedAt > now
  \/ now < createdAt + FillLatency
  \/ quote.observedAt < createdAt + FillLatency

matchPendingOrder(plan, requested, createdAt, expiresAt, quote, now) ==
  IF      now >= expiresAt                 THEN "EXPIRED"
  ELSE IF requested < MinimumLot           THEN "REJECTED"
  ELSE IF TooEarly(createdAt, quote, now)  THEN "HELD"
  ELSE IF ~Triggered(plan, quote)          THEN "PENDING"
  ELSE IF FilledLots(requested) < MinimumLot THEN "HELD"
  ELSE IF FillPrice(plan, quote) <= 0      THEN "REJECTED"
  ELSE IF FilledLots(requested) < requested THEN "PARTIAL"
  ELSE "FILLED"

-----------------------------------------------------------------------------
(* Positions. *)

movement(side, entry, price) == IF side = "BUY" THEN price - entry ELSE entry - price

(* A long is marked and closed on the bid, a short on the ask. *)
SidePrice(side, quote) == IF side = "BUY" THEN quote.bid ELSE quote.ask

adverseMarketExitPrice(side, price) ==
  IF side = "BUY" THEN price - SlippagePrice ELSE price + SlippagePrice

targetLimitExitPrice(side, price, target) ==
  IF side = "BUY" THEN Larger(target, adverseMarketExitPrice(side, price))
                  ELSE Smaller(target, adverseMarketExitPrice(side, price))

CrossedStop(side, price, stop)     == IF side = "BUY" THEN price <= stop ELSE price >= stop
CrossedTarget(side, price, target) == IF side = "BUY" THEN price >= target ELSE price <= target

BreakEven(side, entry) ==
  IF side = "BUY" THEN entry + BreakEvenOffset ELSE entry - BreakEvenOffset

(* Half of the initial lots leave at TP1, or none when half is no valid lot. *)
Tp1Lots(initial, open) ==
  LET half == initial \div 2
  IN  IF half < MinimumLot \/ half >= open THEN 0 ELSE half

(***************************************************************************)
(* The outcome of one quote: what leaves the position (lots, at price, as  *)
(* event), whether the position closes, and what the event itself carries  *)
(* as realised money (eventNet: the code puts grossPnl and commission into *)
(* the HIT_TP1 and MANUAL_CLOSE events, not into the others).              *)
(***************************************************************************)
Unchanged(p) ==
  [event |-> "NONE", lots |-> 0, gross |-> 0, commission |-> 0, eventNet |-> 0,
   stop |-> p.stop, tp1Hit |-> p.tp1Hit]

ReconciliationRequired(p) == [Unchanged(p) EXCEPT !.event = "RECONCILIATION_REQUIRED"]

Exit(side, p, event, lots, price) ==
  LET gross      == movement(side, p.entry, price) * lots
      commission == lots * CommissionPerLot
  IN  [event |-> event, lots |-> lots, gross |-> gross, commission |-> commission,
       eventNet |-> IF event \in {"HIT_TP1", "MANUAL_CLOSE"} THEN gross - commission ELSE 0,
       stop   |-> IF event = "HIT_TP1" THEN BreakEven(side, p.entry) ELSE p.stop,
       tp1Hit |-> p.tp1Hit \/ event = "HIT_TP1"]

(* An exit at a price that is not positive is refused. *)
ExitIfPriced(side, p, event, lots, price) ==
  IF price <= 0 THEN ReconciliationRequired(p) ELSE Exit(side, p, event, lots, price)

(* A manual close comes first, then the stop (a stop touch wins over any    *)
(* target touch of the same quote), then TP1, and TP2 only after TP1.       *)
managePaperPosition(plan, p, quote, closeRequested) ==
  LET side   == plan.side
      price  == SidePrice(side, quote)
      market == adverseMarketExitPrice(side, price)
      tp1    == Tp1Lots(p.initial, p.open)
  IN  IF p.entry <= 0 \/ p.stop <= 0 \/ p.open <= 0
        THEN ReconciliationRequired(p)
      ELSE IF closeRequested
        THEN ExitIfPriced(side, p, "MANUAL_CLOSE", p.open, market)
      ELSE IF CrossedStop(side, price, p.stop)
        THEN ExitIfPriced(side, p, IF p.tp1Hit THEN "SL_AFTER_TP1" ELSE "SL_DIRECT", p.open, market)
      ELSE IF ~p.tp1Hit /\ CrossedTarget(side, price, plan.tp1)
        THEN IF tp1 = 0
             THEN Exit(side, p, "HIT_TP1", 0, price)
             ELSE ExitIfPriced(side, p, "HIT_TP1", tp1, targetLimitExitPrice(side, price, plan.tp1))
      ELSE IF p.tp1Hit /\ CrossedTarget(side, price, plan.tp2)
        THEN ExitIfPriced(side, p, "HIT_TP2", p.open, targetLimitExitPrice(side, price, plan.tp2))
      ELSE Unchanged(p)

Closing == {"MANUAL_CLOSE", "SL_DIRECT", "SL_AFTER_TP1", "HIT_TP2"}
Closes(r) == r.event \in Closing
=============================================================================
