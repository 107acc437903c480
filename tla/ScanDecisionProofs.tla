-------------------------- MODULE ScanDecisionProofs --------------------------
(***************************************************************************)
(* What a scan hands over, for every market and instrument: its prices are *)
(* in order, its size is within the budget, and what it accepted rests on  *)
(* the latest closed candles.                                              *)
(***************************************************************************)
EXTENDS ScanDecision, TLAPS

Markets == [bid : Nat, ask : Nat, level : Nat, ema : Nat, swing : Nat, atrStop : Nat,
            fresh : BOOLEAN, maxSpread : Nat]
Instruments == [tick : Nat \ {0}, minStop : Nat, minLot : Nat \ {0}, maxLot : Nat, value : Nat \ {0}]
Sides == {"LONG", "SHORT"}

(* A tick is far coarser than what floating point gets wrong. *)
TickIsCoarse(instrument) == 4 * (Grid + Tolerance) <= instrument.tick

-----------------------------------------------------------------------------
(* Division and multiples. *)

(* The quotient is the integer below the fraction. *)
LEMMA Division ==
  ASSUME NEW a \in Int, NEW b \in Nat \ {0}
  PROVE  a \div b \in Int /\ b * (a \div b) <= a /\ a < b * (a \div b) + b
  OBVIOUS

(* Multiples of t that are less than t apart are in the order of their      *)
(* factors.                                                                 *)
LEMMA MultiplesInOrder ==
  ASSUME NEW t \in Nat \ {0}, NEW j \in Int, NEW k \in Int, t * j < t * k + t
  PROVE  j <= k
<1> SUFFICES ASSUME k + 1 <= j PROVE FALSE
  OBVIOUS
<1>1. PICK n \in Nat : j = k + 1 + n
  <2> WITNESS j - k - 1 \in Nat
  <2> QED OBVIOUS
<1>2. t * n >= 0
  OBVIOUS
<1>3. t * j = t * k + t + t * n
  BY <1>1
<1> QED
  BY <1>2, <1>3

(* Smaller factors give multiples that are at least t apart. *)
LEMMA MultiplesApart ==
  ASSUME NEW t \in Nat \ {0}, NEW j \in Int, NEW k \in Int, j < k
  PROVE  t * j + t <= t * k
<1>1. PICK n \in Nat : k = j + 1 + n
  <2> WITNESS k - j - 1 \in Nat
  <2> QED OBVIOUS
<1>2. t * n >= 0
  OBVIOUS
<1>3. t * k = t * j + t + t * n
  BY <1>1
<1> QED
  BY <1>2, <1>3

-----------------------------------------------------------------------------
(* Prices. *)

(* The floating-point price is the nearest neighbour of the decimal one.    *)
LEMMA StoredIsNear ==
  ASSUME NEW p \in Int
  PROVE  Stored(p) \in Int /\ 2 * Stored(p) <= 2 * p + Grid /\ 2 * p < 2 * Stored(p) + Grid
<1> DEFINE q == (2 * p + Grid) \div (2 * Grid)
<1>1. Grid \in Nat \ {0}
  BY ScanAssumption
<1>2. 2 * p + Grid \in Int /\ 2 * Grid \in Nat \ {0}
  BY <1>1
<1>3. q \in Int /\ (2 * Grid) * q <= 2 * p + Grid /\ 2 * p + Grid < (2 * Grid) * q + 2 * Grid
  BY <1>2, Division
<1>4. Stored(p) = Grid * q
  BY DEF Stored
<1> HIDE DEF q
<1>5. (2 * Grid) * q = 2 * (Grid * q) /\ Grid * q \in Int
  BY <1>1, <1>3
<1> QED
  BY <1>1, <1>3, <1>4, <1>5

(* Reading decimal prices keeps their order. *)
LEMMA StoredInOrder ==
  ASSUME NEW p \in Int, NEW r \in Int, p <= r
  PROVE  Stored(p) <= Stored(r)
<1> DEFINE m == (2 * p + Grid) \div (2 * Grid)
           n == (2 * r + Grid) \div (2 * Grid)
<1>1. Grid \in Nat \ {0}
  BY ScanAssumption
<1>2. 2 * p + Grid \in Int /\ 2 * r + Grid \in Int /\ 2 * Grid \in Nat \ {0}
  BY <1>1
<1>3. m \in Int /\ (2 * Grid) * m <= 2 * p + Grid
  BY <1>2, Division
<1>4. n \in Int /\ 2 * r + Grid < (2 * Grid) * n + 2 * Grid
  BY <1>2, Division
<1>5. Stored(p) = Grid * m /\ Stored(r) = Grid * n
  BY DEF Stored
<1> HIDE DEF m, n
<1>6. (2 * Grid) * m \in Int /\ (2 * Grid) * n \in Int
  BY <1>1, <1>3, <1>4
<1>7. (2 * Grid) * m < (2 * Grid) * n + 2 * Grid
  BY <1>1, <1>3, <1>4, <1>6
<1>8. m <= n
  BY <1>2, <1>3, <1>4, <1>7, MultiplesInOrder
<1>9. CASE m = n
  BY <1>5, <1>9, <1>1, <1>3
<1>10. CASE m < n
  <2>1. Grid * m + Grid <= Grid * n
    BY <1>1, <1>3, <1>4, <1>10, MultiplesApart
  <2> QED
    BY <2>1, <1>1, <1>3, <1>4, <1>5
<1> QED
  BY <1>3, <1>4, <1>8, <1>9, <1>10

(* Rounding down ends on the tick at or below the price, forgiving the      *)
(* tolerance; rounding up on the tick at or above it.                       *)
LEMMA RoundedDown ==
  ASSUME NEW p \in Int, NEW tick \in Nat \ {0}
  PROVE  \E k \in Int : RoundDown(p, tick) = Stored(tick * k)
                        /\ tick * k <= p + Tolerance /\ p + Tolerance < tick * k + tick
<1>1. p + Tolerance \in Int
  BY ScanAssumption
<1> (p + Tolerance) \div tick \in Int
  BY <1>1, Division
<1> WITNESS (p + Tolerance) \div tick \in Int
<1> QED
  BY <1>1, Division DEF RoundDown

LEMMA RoundedUp ==
  ASSUME NEW p \in Int, NEW tick \in Nat \ {0}
  PROVE  \E k \in Int : RoundUp(p, tick) = Stored(tick * k)
                        /\ p - Tolerance <= tick * k /\ tick * k < p - Tolerance + tick
<1> DEFINE q == (Tolerance - p) \div tick
<1>1. Tolerance \in Nat /\ Tolerance - p \in Int
  BY ScanAssumption
<1>2. q \in Int /\ tick * q <= Tolerance - p /\ Tolerance - p < tick * q + tick
  BY <1>1, Division
<1>3. RoundUp(p, tick) = Stored(tick * (-q))
  BY DEF RoundUp
<1> HIDE DEF q
<1>4. tick * (-q) = -(tick * q) /\ tick * q \in Int
  BY <1>2
<1> -q \in Int
  BY <1>2
<1> WITNESS -q \in Int
<1> QED
  BY <1>1, <1>2, <1>3, <1>4

-----------------------------------------------------------------------------
(* Plans. *)

LEMMA DistanceIsNat ==
  ASSUME NEW a \in Int, NEW b \in Int
  PROVE  Distance(a, b) \in Nat /\ (a <= b => Distance(a, b) = b - a) /\ (b <= a => Distance(a, b) = a - b)
  BY DEF Distance

LEMMA LevelIsOne ==
  ASSUME NEW side \in Sides, NEW market \in Markets, Levels(side, market) # {}
  PROVE  EntryLevel(side, market) \in Levels(side, market) /\ EntryLevel(side, market) \in Nat
<1>1. market.level \in Nat /\ market.ema \in Nat
  BY DEF Markets
<1>2. Levels(side, market) \subseteq {market.level, market.ema}
  BY DEF Levels
<1>3. \E l \in Levels(side, market) :
        \A other \in Levels(side, market) : IF side = "LONG" THEN other <= l ELSE other >= l
  <2>1. CASE market.level \notin Levels(side, market)
    BY <1>1, <1>2, <2>1
  <2>2. CASE market.ema \notin Levels(side, market)
    BY <1>1, <1>2, <2>2
  <2>3. CASE market.level \in Levels(side, market) /\ market.ema \in Levels(side, market)
    BY <1>1, <1>2, <2>3
  <2> QED
    BY <2>1, <2>2, <2>3
<1> QED
  BY <1>1, <1>2, <1>3 DEF EntryLevel

(* The entry is on a tick, and on the far side of the quote.                *)
LEMMA EntryIsBeyondQuote ==
  ASSUME NEW side \in Sides, NEW market \in Markets, NEW instrument \in Instruments,
         TickIsCoarse(instrument), Levels(side, market) # {}, market.bid <= market.ask
  PROVE  \E k \in Int : Entry(side, market, instrument) = Stored(instrument.tick * k)
                        /\ (side = "LONG" => Entry(side, market, instrument) < market.bid)
                        /\ (side = "SHORT" => market.ask < Entry(side, market, instrument))
<1> DEFINE t == instrument.tick
           d == MinDistance(market, instrument)
           l == EntryLevel(side, market)
<1>1. market.bid \in Nat /\ market.ask \in Nat /\ t \in Nat \ {0} /\ instrument.minStop \in Nat
  BY DEF Markets, Instruments
<1>2. d \in Nat /\ 2 * t <= d
  BY <1>1 DEF MinDistance, Higher, minimumSpreadDistanceMultiple, minimumTickDistanceMultiple
<1>3. l \in Nat
  BY LevelIsOne
<1>4. Grid \in Nat \ {0} /\ Tolerance \in Nat /\ 4 * (Grid + Tolerance) <= t
  BY ScanAssumption DEF TickIsCoarse
<1>5. CASE side = "LONG"
  <2> DEFINE x == Lower(l, market.bid - d)
  <2>1. x \in Int /\ x <= market.bid - d
    BY <1>1, <1>2, <1>3 DEF Lower
  <2>2. Entry(side, market, instrument) = RoundDown(x, t)
    BY <1>5 DEF Entry
  <2> HIDE DEF x, t
  <2>3. PICK k \in Int : RoundDown(x, t) = Stored(t * k) /\ t * k <= x + Tolerance
    BY <1>1, <2>1, RoundedDown
  <2>4. t * k \in Int
    BY <1>1
  <2>5. Stored(t * k) \in Int /\ 2 * Stored(t * k) <= 2 * (t * k) + Grid
    BY <2>4, StoredIsNear
  <2> HIDE DEF d
  <2>6. Stored(t * k) < market.bid
    BY <1>1, <1>2, <1>4, <2>1, <2>3, <2>4, <2>5
  <2> QED
    BY <1>5, <2>2, <2>3, <2>6 DEF t
<1>6. CASE side = "SHORT"
  <2> DEFINE x == Higher(l, market.ask + d)
  <2>1. x \in Int /\ market.ask + d <= x
    BY <1>1, <1>2, <1>3 DEF Higher
  <2>2. Entry(side, market, instrument) = RoundUp(x, t)
    BY <1>6 DEF Entry
  <2> HIDE DEF x, t
  <2>3. PICK k \in Int : RoundUp(x, t) = Stored(t * k) /\ x - Tolerance <= t * k
    BY <1>1, <2>1, RoundedUp
  <2>4. t * k \in Int
    BY <1>1
  <2>5. Stored(t * k) \in Int /\ 2 * (t * k) < 2 * Stored(t * k) + Grid
    BY <2>4, StoredIsNear
  <2> HIDE DEF d
  <2>6. market.ask < Stored(t * k)
    BY <1>1, <1>2, <1>4, <2>1, <2>3, <2>4, <2>5
  <2> QED
    BY <1>6, <2>2, <2>3, <2>6 DEF t
<1> QED
  BY <1>5, <1>6 DEF Sides

(* Two prices on ticks that are not equal are almost a tick apart.          *)
LEMMA TicksApart ==
  ASSUME NEW t \in Nat \ {0}, NEW j \in Int, NEW k \in Int, j < k
  PROVE  Stored(t * j) + t <= Stored(t * k) + Grid
<1>1. t * j \in Int /\ t * k \in Int /\ t * j + t <= t * k
  BY MultiplesApart
<1>2. 2 * Stored(t * j) <= 2 * (t * j) + Grid /\ Stored(t * j) \in Int
  BY <1>1, StoredIsNear
<1>3. 2 * (t * k) < 2 * Stored(t * k) + Grid /\ Stored(t * k) \in Int
  BY <1>1, StoredIsNear
<1> QED
  BY <1>1, <1>2, <1>3, ScanAssumption

(* The stop is on a tick, on the losing side of the entry or on it.         *)
LEMMA StopIsBehind ==
  ASSUME NEW side \in Sides, NEW market \in Markets, NEW instrument \in Instruments,
         TickIsCoarse(instrument), market.atrStop # 0,
         NEW k \in Int, NEW entry, entry = Stored(instrument.tick * k)
  PROVE  LET stop == Stop(side, market, instrument, entry)
         IN  /\ stop \in Int
             /\ side = "LONG"  => stop = entry \/ stop + instrument.tick <= entry + Grid
             /\ side = "SHORT" => stop = entry \/ entry + instrument.tick <= stop + Grid
<1> DEFINE t == instrument.tick
<1>1. market.swing \in Nat /\ market.atrStop \in Nat /\ t \in Nat \ {0}
  BY DEF Markets, Instruments
<1>2. Grid \in Nat \ {0} /\ Tolerance \in Nat /\ 4 * (Grid + Tolerance) <= t
  BY ScanAssumption DEF TickIsCoarse
<1> HIDE DEF t
<1>3. t * k \in Int /\ entry = Stored(t * k)
  BY <1>1 DEF t
<1>4. entry \in Int /\ 2 * entry <= 2 * (t * k) + Grid /\ 2 * (t * k) < 2 * entry + Grid
  BY <1>3, StoredIsNear
<1>5. CASE side = "LONG"
  <2> DEFINE x == IF 0 < market.swing /\ market.swing < entry THEN Lower(market.swing, entry - market.atrStop)
                  ELSE entry - market.atrStop
  <2>1. x \in Int /\ x < entry
    BY <1>1, <1>4 DEF Lower
  <2>2. Stop(side, market, instrument, entry) = RoundDown(x, t)
    BY <1>5 DEF Stop, t
  <2> HIDE DEF x
  <2>3. PICK j \in Int : RoundDown(x, t) = Stored(t * j) /\ t * j <= x + Tolerance
    BY <1>1, <2>1, RoundedDown
  <2>4. t * j \in Int /\ Stored(t * j) \in Int
    BY <1>1, StoredIsNear
  <2>5. t * j < t * k + t
    BY <1>1, <1>2, <1>3, <1>4, <2>1, <2>3, <2>4
  <2>6. j <= k
    BY <1>1, <2>5, MultiplesInOrder
  <2>7. CASE j = k
    BY <1>3, <1>5, <2>2, <2>3, <2>4, <2>7
  <2>8. CASE j < k
    <3>1. Stored(t * j) + t <= Stored(t * k) + Grid
      BY <1>1, <2>8, TicksApart
    <3> QED
      BY <1>3, <1>5, <2>2, <2>3, <2>4, <3>1 DEF t
  <2> QED
    BY <2>6, <2>7, <2>8
<1>6. CASE side = "SHORT"
  <2> DEFINE x == IF market.swing > entry THEN Higher(market.swing, entry + market.atrStop)
                  ELSE entry + market.atrStop
  <2>1. x \in Int /\ entry < x
    BY <1>1, <1>4 DEF Higher
  <2>2. Stop(side, market, instrument, entry) = RoundUp(x, t)
    BY <1>6 DEF Stop, t
  <2> HIDE DEF x
  <2>3. PICK j \in Int : RoundUp(x, t) = Stored(t * j) /\ x - Tolerance <= t * j
    BY <1>1, <2>1, RoundedUp
  <2>4. t * j \in Int /\ Stored(t * j) \in Int
    BY <1>1, StoredIsNear
  <2>5. t * k < t * j + t
    BY <1>1, <1>2, <1>3, <1>4, <2>1, <2>3, <2>4
  <2>6. k <= j
    BY <1>1, <2>5, MultiplesInOrder
  <2>7. CASE j = k
    BY <1>3, <1>6, <2>2, <2>3, <2>4, <2>7
  <2>8. CASE k < j
    <3>1. Stored(t * k) + t <= Stored(t * j) + Grid
      BY <1>1, <2>8, TicksApart
    <3> QED
      BY <1>3, <1>6, <2>2, <2>3, <2>4, <3>1 DEF t
  <2> QED
    BY <2>6, <2>7, <2>8
<1> QED
  BY <1>5, <1>6 DEF Sides

(* A target is on the winning side: not short of the distance by more than  *)
(* rounding forgives, and a longer distance is not a nearer target.         *)
LEMMA TargetIsAhead ==
  ASSUME NEW side \in Sides, NEW instrument \in Instruments, NEW entry \in Int, NEW distance \in Nat
  PROVE  LET target == Target(side, instrument, entry, distance)
         IN  /\ target \in Int
             /\ side = "LONG"  => 2 * (entry + distance) < 2 * target + 2 * Tolerance + Grid
             /\ side = "SHORT" => 2 * target <= 2 * (entry - distance) + 2 * Tolerance + Grid
<1> DEFINE t == instrument.tick
<1>1. t \in Nat \ {0} /\ Tolerance \in Nat /\ Grid \in Nat
  BY ScanAssumption DEF Instruments
<1> HIDE DEF t
<1>2. CASE side = "LONG"
  <2>1. PICK k \in Int : RoundUp(entry + distance, t) = Stored(t * k) /\ (entry + distance) - Tolerance <= t * k
    <3> DEFINE x == entry + distance
    <3>1. x \in Int
      OBVIOUS
    <3> HIDE DEF x
    <3>2. \E k \in Int : RoundUp(x, t) = Stored(t * k) /\ x - Tolerance <= t * k
      BY <1>1, <3>1, RoundedUp
    <3> QED
      BY <3>2 DEF x
  <2>2. t * k \in Int
    BY <1>1
  <2>3. Stored(t * k) \in Int /\ 2 * (t * k) < 2 * Stored(t * k) + Grid
    BY <2>2, StoredIsNear
  <2> QED
    BY <1>1, <1>2, <2>1, <2>2, <2>3 DEF Target, t
<1>3. CASE side = "SHORT"
  <2>1. PICK k \in Int : RoundDown(entry - distance, t) = Stored(t * k) /\ t * k <= entry - distance + Tolerance
    <3> DEFINE x == entry - distance
    <3>1. x \in Int
      OBVIOUS
    <3> HIDE DEF x
    <3>2. \E k \in Int : RoundDown(x, t) = Stored(t * k) /\ t * k <= x + Tolerance
      BY <1>1, <3>1, RoundedDown
    <3> QED
      BY <3>2 DEF x
  <2>2. t * k \in Int
    BY <1>1
  <2>3. Stored(t * k) \in Int /\ 2 * Stored(t * k) <= 2 * (t * k) + Grid
    BY <2>2, StoredIsNear
  <2> QED
    BY <1>1, <1>3, <2>1, <2>2, <2>3 DEF Target, t
<1> QED
  BY <1>2, <1>3 DEF Sides

LEMMA RoundsInOrder ==
  ASSUME NEW p \in Int, NEW r \in Int, p <= r, NEW tick \in Nat \ {0}
  PROVE  RoundDown(p, tick) <= RoundDown(r, tick) /\ RoundUp(p, tick) <= RoundUp(r, tick)
<1>1. ASSUME NEW j \in Int, NEW k \in Int, tick * j < tick * k + tick
      PROVE  Stored(tick * j) <= Stored(tick * k)
  <2>1. j <= k
    BY <1>1, MultiplesInOrder
  <2>2. tick * j \in Int /\ tick * k \in Int
    OBVIOUS
  <2>3. CASE j = k
    BY <2>2, <2>3, StoredInOrder
  <2>4. CASE j < k
    <3>1. tick * j <= tick * k
      BY <2>2, <2>4, MultiplesApart
    <3> QED
      BY <2>2, <3>1, StoredInOrder
  <2> QED
    BY <2>1, <2>3, <2>4
<1>2. RoundDown(p, tick) <= RoundDown(r, tick)
  <2>1. PICK j \in Int : RoundDown(p, tick) = Stored(tick * j) /\ tick * j <= p + Tolerance
    BY RoundedDown
  <2>2. PICK k \in Int : RoundDown(r, tick) = Stored(tick * k) /\ r + Tolerance < tick * k + tick
    BY RoundedDown
  <2>3. tick * j \in Int /\ tick * k \in Int
    OBVIOUS
  <2>4. tick * j < tick * k + tick
    BY <2>1, <2>2, <2>3, ScanAssumption
  <2> QED
    BY <1>1, <2>1, <2>2, <2>4
<1>3. RoundUp(p, tick) <= RoundUp(r, tick)
  <2>1. PICK j \in Int : RoundUp(p, tick) = Stored(tick * j) /\ tick * j < p - Tolerance + tick
    BY RoundedUp
  <2>2. PICK k \in Int : RoundUp(r, tick) = Stored(tick * k) /\ r - Tolerance <= tick * k
    BY RoundedUp
  <2>3. tick * j \in Int /\ tick * k \in Int
    OBVIOUS
  <2>4. tick * j < tick * k + tick
    BY <2>1, <2>2, <2>3, ScanAssumption
  <2> QED
    BY <1>1, <2>1, <2>2, <2>4
<1> QED
  BY <1>2, <1>3

(* What buildEntryPlan returns when it returns levels: an entry beyond the  *)
(* quote, the stop behind it and both targets ahead.                        *)
InOrder(side, market, plan) ==
  IF side = "LONG"
  THEN plan.stop < plan.entry /\ plan.entry < market.bid /\ plan.entry < plan.tp1 /\ plan.tp1 <= plan.tp2
  ELSE plan.entry < plan.stop /\ market.ask < plan.entry /\ plan.tp1 < plan.entry /\ plan.tp2 <= plan.tp1

(* The levels of every plan, allowed or not, are in their order: the entry  *)
(* is a limit away from the market, the stop on its losing side, the        *)
(* targets on the winning side with TP2 not nearer than TP1.                *)
THEOREM PlansAreInOrder ==
  ASSUME NEW side \in Sides, NEW market \in Markets, NEW instrument \in Instruments,
         TickIsCoarse(instrument), buildEntryPlan(side, market, instrument) # NoPlan
  PROVE  InOrder(side, market, buildEntryPlan(side, market, instrument))
<1> DEFINE entry  == Entry(side, market, instrument)
           stop   == Stop(side, market, instrument, entry)
           risk   == Distance(entry, stop)
           tp1    == Target(side, instrument, entry, takeProfit1R * risk)
           tp2    == Target(side, instrument, entry, takeProfit2R * risk)
           plan   == buildEntryPlan(side, market, instrument)
<1>1. ~(market.ask < market.bid) /\ market.atrStop # 0 /\ Levels(side, market) # {}
      /\ plan = PlanOf(side, market, instrument)
  BY DEF buildEntryPlan
<1>2. risk # 0 /\ plan.entry = entry /\ plan.stop = stop /\ plan.tp1 = tp1 /\ plan.tp2 = tp2
  BY <1>1 DEF PlanOf
<1>3. market.bid \in Nat /\ market.ask \in Nat /\ instrument.tick \in Nat \ {0}
  BY DEF Markets, Instruments
<1>4. Grid \in Nat \ {0} /\ Tolerance \in Nat /\ 4 * (Grid + Tolerance) <= instrument.tick
  BY ScanAssumption DEF TickIsCoarse
<1>5. PICK k \in Int : entry = Stored(instrument.tick * k)
                      /\ (side = "LONG" => entry < market.bid) /\ (side = "SHORT" => market.ask < entry)
  BY <1>1, <1>3, EntryIsBeyondQuote
<1>6. instrument.tick * k \in Int
  BY <1>3
<1>7. entry \in Int
  BY <1>5, <1>6, StoredIsNear
<1>8. /\ stop \in Int
      /\ side = "LONG"  => stop = entry \/ stop + instrument.tick <= entry + Grid
      /\ side = "SHORT" => stop = entry \/ entry + instrument.tick <= stop + Grid
  BY <1>1, <1>5, StopIsBehind
<1>9. plan.entry = entry /\ plan.stop = stop /\ plan.tp1 = tp1 /\ plan.tp2 = tp2
  BY <1>2
<1> HIDE DEF entry, stop, plan
<1>10. risk \in Nat /\ stop # entry /\ (stop <= entry => risk = entry - stop) /\ (entry <= stop => risk = stop - entry)
  BY <1>2, <1>7, <1>8, DistanceIsNat
<1> HIDE DEF risk
<1>11. takeProfit1R * risk = 2 * risk /\ takeProfit2R * risk = 3 * risk /\ 2 * risk \in Nat /\ 3 * risk \in Nat
  BY <1>10 DEF takeProfit1R, takeProfit2R
<1>12. /\ tp1 \in Int
       /\ side = "LONG"  => 2 * (entry + 2 * risk) < 2 * tp1 + 2 * Tolerance + Grid
       /\ side = "SHORT" => 2 * tp1 <= 2 * (entry - 2 * risk) + 2 * Tolerance + Grid
  BY <1>7, <1>11, TargetIsAhead
<1>13. CASE side = "LONG"
  <2>1. tp1 <= tp2
    BY <1>3, <1>7, <1>10, <1>11, <1>13, RoundsInOrder DEF Target
  <2>2. stop < entry /\ entry < tp1
    BY <1>3, <1>4, <1>7, <1>8, <1>10, <1>12, <1>13
  <2> QED
    BY <1>5, <1>9, <1>13, <2>1, <2>2 DEF InOrder, plan
<1>14. CASE side = "SHORT"
  <2>1. tp2 <= tp1
    BY <1>3, <1>7, <1>10, <1>11, <1>14, RoundsInOrder DEF Target
  <2>2. entry < stop /\ tp1 < entry
    BY <1>3, <1>4, <1>7, <1>8, <1>10, <1>12, <1>14
  <2> QED
    BY <1>5, <1>9, <1>14, <2>1, <2>2 DEF InOrder, plan
<1> QED
  BY <1>13, <1>14 DEF Sides

(* With exact prices the rule of 2R refuses no plan that has levels: what   *)
(* the run min_reward shows is the rounding's doing alone.                  *)
THEOREM ExactPricesKeepTwoR ==
  ASSUME Grid = 1, Tolerance = 0,
         NEW side \in Sides, NEW market \in Markets, NEW instrument \in Instruments,
         TickIsCoarse(instrument), buildEntryPlan(side, market, instrument) # NoPlan
  PROVE  buildEntryPlan(side, market, instrument).allowed
<1> DEFINE entry  == Entry(side, market, instrument)
           stop   == Stop(side, market, instrument, entry)
           risk   == Distance(entry, stop)
           tp1    == Target(side, instrument, entry, takeProfit1R * risk)
           plan   == buildEntryPlan(side, market, instrument)
<1>1. ~(market.ask < market.bid) /\ market.atrStop # 0 /\ Levels(side, market) # {}
      /\ plan = PlanOf(side, market, instrument)
  BY DEF buildEntryPlan
<1>2. plan.allowed = (Distance(tp1, entry) >= minRiskReward * risk)
  BY <1>1 DEF PlanOf
<1>3. market.bid \in Nat /\ market.ask \in Nat /\ instrument.tick \in Nat \ {0}
  BY DEF Markets, Instruments
<1>4. PICK k \in Int : entry = Stored(instrument.tick * k)
  BY <1>1, <1>3, EntryIsBeyondQuote
<1>5. instrument.tick * k \in Int
  BY <1>3
<1>6. entry \in Int
  BY <1>4, <1>5, StoredIsNear
<1>7. stop \in Int
  BY <1>1, <1>4, StopIsBehind
<1> HIDE DEF entry, stop
<1>8. risk \in Nat
  BY <1>6, <1>7, DistanceIsNat
<1> HIDE DEF risk
<1>9. takeProfit1R * risk = 2 * risk /\ minRiskReward * risk = 2 * risk /\ 2 * risk \in Nat
  BY <1>8 DEF takeProfit1R, minRiskReward
<1>10. /\ tp1 \in Int
       /\ side = "LONG"  => 2 * (entry + 2 * risk) < 2 * tp1 + 2 * Tolerance + Grid
       /\ side = "SHORT" => 2 * tp1 <= 2 * (entry - 2 * risk) + 2 * Tolerance + Grid
  BY <1>6, <1>9, TargetIsAhead
<1>11. Distance(tp1, entry) >= 2 * risk
  <2>1. (entry <= tp1 => Distance(tp1, entry) = tp1 - entry) /\ (tp1 <= entry => Distance(tp1, entry) = entry - tp1)
    BY <1>6, <1>10, DistanceIsNat
  <2> HIDE DEF tp1
  <2>2. CASE side = "LONG"
    BY <1>6, <1>8, <1>10, <2>1, <2>2
  <2>3. CASE side = "SHORT"
    BY <1>6, <1>8, <1>10, <2>1, <2>3
  <2> QED
    BY <2>2, <2>3 DEF Sides
<1> QED
  BY <1>2, <1>9, <1>11

-----------------------------------------------------------------------------
(* Sizes. *)

States == [budget : Nat, dailyLoss : Nat, dailyLossLimit : Nat, drawdown : Nat, drawdownPause : Nat,
           openRisk : Nat, maxOpenRisk : Nat, fresh : BOOLEAN, newsAllowed : BOOLEAN,
           entryPaused : BOOLEAN, paperMode : BOOLEAN]

(* A size, when one is given, is an order the contract allows, costs no     *)
(* more than the budget of the trade at its stop, and keeps the open risk   *)
(* within its limit.                                                        *)
THEOREM SizeStaysInBudget ==
  ASSUME NEW instrument \in Instruments, NEW state \in States, NEW plan,
         plan.entry \in Int, plan.stop \in Int, plan.entry # plan.stop
  PROVE  LET lots == calculatePositionSize(plan, instrument, state)
             loss == lots * LossPerStep(plan, instrument)
         IN  lots # 0 => /\ lots \in instrument.minLot .. instrument.maxLot
                         /\ loss <= state.budget
                         /\ state.openRisk + loss <= state.maxOpenRisk
                         /\ state.dailyLoss < state.dailyLossLimit /\ state.drawdown < state.drawdownPause
<1> DEFINE unit == LossPerStep(plan, instrument)
           paid == state.budget \div unit
           lots == Lower(paid, instrument.maxLot)
<1>1. instrument.minLot \in Nat \ {0} /\ instrument.maxLot \in Nat /\ instrument.value \in Nat \ {0}
      /\ state.budget \in Nat /\ state.openRisk \in Nat /\ state.maxOpenRisk \in Nat
  BY DEF Instruments, States
<1>2. Distance(plan.entry, plan.stop) \in Nat \ {0}
  BY DEF Distance
<1>3. unit \in Nat \ {0}
  BY <1>1, <1>2 DEF LossPerStep
<1> HIDE DEF unit
<1>4. paid \in Int /\ unit * paid <= state.budget
  BY <1>1, <1>3, Division
<1> HIDE DEF paid
<1>5. lots \in Int /\ lots <= paid /\ lots <= instrument.maxLot
  BY <1>1, <1>4 DEF Lower
<1>6. calculatePositionSize(plan, instrument, state) \in {0, lots}
      /\ (calculatePositionSize(plan, instrument, state) # 0 =>
             /\ instrument.minLot <= lots
             /\ RiskLimitsHold(state, lots * unit))
  BY <1>1, <1>5 DEF calculatePositionSize, unit, paid
<1> HIDE DEF lots
<1>7. lots * unit <= state.budget
  <2>1. lots * unit = unit * lots
    BY <1>3, <1>5
  <2>2. unit * (paid - lots) >= 0
    BY <1>3, <1>4, <1>5
  <2>3. unit * paid = unit * lots + unit * (paid - lots)
    BY <1>3, <1>4, <1>5
  <2> QED
    BY <1>1, <1>3, <1>4, <1>5, <2>1, <2>2, <2>3
<1> QED
  BY <1>1, <1>5, <1>6, <1>7 DEF RiskLimitsHold, unit

-----------------------------------------------------------------------------
(* Accepted scans. *)

Analyses == [Timeframes -> [direction : Sides \cup {"NEUTRAL", "UNAVAILABLE"}, strength : 0 .. 100,
                            fresh : BOOLEAN, closedAt : Int]]

(* No accepted scan rests on a candle of any timeframe that a later one had *)
(* already replaced when the M15 candle closed: candles close on multiples  *)
(* of their length, and the accepted ones are the last before it.           *)
THEOREM AcceptedUsesLatestCloses ==
  ASSUME NEW analyses \in Analyses, NEW market, NEW instrument, NEW state,
         evaluatePaperScan(analyses, market, instrument, state).accepted,
         NEW f \in Timeframes, NEW n \in Int, analyses[f].closedAt = FrameMinutes[f] * n,
         NEW m \in Int, FrameMinutes[f] * m <= analyses["M15"].closedAt
  PROVE  m <= n
<1>1. IsAligned(analyses)
  BY DEF evaluatePaperScan, evaluateMtfGate, Refused
<1>2. FrameMinutes[f] \in Nat \ {0}
  BY DEF FrameMinutes
<1>3. analyses[f].closedAt \in Int /\ analyses["M15"].closedAt \in Int
  BY DEF Analyses, Timeframes
<1>4. analyses["M15"].closedAt - analyses[f].closedAt < FrameMinutes[f]
  BY <1>1 DEF IsAligned
<1>5. FrameMinutes[f] * m \in Int /\ FrameMinutes[f] * n \in Int
  BY <1>2
<1>6. FrameMinutes[f] * m < FrameMinutes[f] * n + FrameMinutes[f]
  BY <1>2, <1>3, <1>4, <1>5
<1> QED
  BY <1>2, <1>6, MultiplesInOrder

(* An accepted scan looks back less than one candle and half an hour on     *)
(* every timeframe, although each one alone may be two candles old.         *)
THEOREM AcceptedIsRecent ==
  ASSUME NEW candles, NEW votes, NEW now \in Int, NEW analyses, NEW market, NEW instrument, NEW state,
         \A f \in Timeframes : candles[f] \in Seq([closedAt : Int, quality : STRING, sound : BOOLEAN]),
         analyses = [f \in Timeframes |-> analyzeTimeframe(f, candles[f], votes[f], now)],
         evaluatePaperScan(analyses, market, instrument, state).accepted,
         NEW f \in Timeframes
  PROVE  analyses[f].closedAt <= now /\ now - analyses[f].closedAt < FrameMinutes[f] + 30
<1>1. IsAligned(analyses) /\ IsComplete(analyses)
  BY DEF evaluatePaperScan, evaluateMtfGate, Refused
<1>2. "M15" \in Timeframes /\ FrameMinutes["M15"] = 15 /\ FrameMinutes[f] \in Nat
  BY DEF Timeframes, FrameMinutes
<1>3. \A g \in Timeframes : analyses[g] = analyzeTimeframe(g, candles[g], votes[g], now)
  OBVIOUS
<1>4. \A g \in Timeframes : CandlesAreUsable(g, candles[g], now)
                            /\ analyses[g].closedAt = candles[g][Len(candles[g])].closedAt
  <2> SUFFICES ASSUME NEW g \in Timeframes
               PROVE  CandlesAreUsable(g, candles[g], now)
                      /\ analyses[g].closedAt = candles[g][Len(candles[g])].closedAt
    OBVIOUS
  <2>1. analyses[g].fresh
    BY <1>1 DEF IsComplete
  <2>2. analyses[g] = analyzeTimeframe(g, candles[g], votes[g], now)
    BY <1>3
  <2> QED
    BY <2>1, <2>2 DEF analyzeTimeframe
<1>5. \A g \in Timeframes : analyses[g].closedAt \in Int /\ analyses[g].closedAt <= now
  <2> SUFFICES ASSUME NEW g \in Timeframes
               PROVE  analyses[g].closedAt \in Int /\ analyses[g].closedAt <= now
    OBVIOUS
  <2>1. Len(candles[g]) >= MinimumCandles /\ candles[g][Len(candles[g])].closedAt <= now
    BY <1>4 DEF CandlesAreUsable
  <2>2. Len(candles[g]) \in 1 .. Len(candles[g])
    BY <2>1, ScanAssumption
  <2> DEFINE Candle == [closedAt : Int, quality : STRING, sound : BOOLEAN]
             list == candles[g]
  <2>3. list \in Seq(Candle)
    OBVIOUS
  <2> HIDE DEF Candle, list
  <2>4. \A i \in 1 .. Len(list) : list[i] \in Candle
    BY <2>3
  <2>5. candles[g][Len(candles[g])] \in Candle
    BY <2>2, <2>4 DEF list
  <2>6. candles[g][Len(candles[g])].closedAt \in Int
    BY <2>5 DEF Candle
  <2> QED
    BY <1>4, <2>1, <2>6
<1>6. now - analyses["M15"].closedAt <= 30
  <2>1. now - analyses["M15"].closedAt <= Higher(2 * FrameMinutes["M15"], 30)
    BY <1>2, <1>4 DEF CandlesAreUsable
  <2> QED
    BY <1>2, <2>1 DEF Higher
<1>7. analyses["M15"].closedAt - analyses[f].closedAt < FrameMinutes[f]
  BY <1>1 DEF IsAligned
<1> QED
  BY <1>2, <1>5, <1>6, <1>7

(* No timeframe contradicts an accepted direction and at most one abstains. *)
THEOREM AcceptedIsUndisputed ==
  ASSUME NEW analyses \in Analyses, NEW market, NEW instrument, NEW state,
         evaluatePaperScan(analyses, market, instrument, state).accepted
  PROVE  LET side == evaluatePaperScan(analyses, market, instrument, state).side
         IN  /\ side \in Sides
             /\ \A f \in Timeframes : analyses[f].direction \in {side, "NEUTRAL"}
             /\ \A f, g \in Timeframes : analyses[f].direction = "NEUTRAL" /\ analyses[g].direction = "NEUTRAL" => f = g
<1> DEFINE side == Direction(analyses)
<1>1. Agrees(analyses, side) /\ evaluatePaperScan(analyses, market, instrument, state).side = side
  BY DEF evaluatePaperScan, evaluateMtfGate, Refused
<1> HIDE DEF side
<1>2. side \in Sides /\ Votes(analyses, side) >= 3
      /\ analyses["M15"].direction = side /\ \A f \in {"H4", "H1", "M30"} : analyses[f].direction \in {side, "NEUTRAL"}
  BY <1>1 DEF Agrees, Sides
<1>3. \A f \in Timeframes : analyses[f].direction \in {side, "NEUTRAL"}
  BY <1>2 DEF Timeframes
<1>4. \A f \in Timeframes : One(analyses[f], side) \in {0, 1} /\ (analyses[f].direction = "NEUTRAL" => One(analyses[f], side) = 0)
  BY <1>2 DEF One, Sides
<1>5. One(analyses["H4"], side) + One(analyses["H1"], side) + One(analyses["M30"], side) + One(analyses["M15"], side) >= 3
  BY <1>2 DEF Votes
<1>6. ASSUME NEW f \in Timeframes, NEW g \in Timeframes, f # g,
             analyses[f].direction = "NEUTRAL", analyses[g].direction = "NEUTRAL"
      PROVE  FALSE
  BY <1>4, <1>5, <1>6 DEF Timeframes
<1> QED
  BY <1>1, <1>2, <1>3, <1>6
===============================================================================
