------------------------ MODULE PaperLifecycleProofs ------------------------
(***************************************************************************)
(* Proofs about PaperLifecycle, for every set of orders, every plan, every *)
(* cost model and every bound:                                             *)
(*                                                                         *)
(*   the broker and the transactions    what each of them does to the rows *)
(*   the inductive invariant IInv       and the safety invariants it gives *)
(*   refinement                         of PaperContract                   *)
(*   one exposure per side, fills, sums over the orders, open risk         *)
(*   the price of a position, what a pass settles and how it ends          *)
(***************************************************************************)
EXTENDS PaperLifecycle, FiniteSetTheorems, WellFoundedInduction, TLAPS

-----------------------------------------------------------------------------
(* The broker. *)

(* FilledLots never fills more than was asked for, nor nothing.             *)
LEMMA FilledLotsBounds ==
  ASSUME NEW requested \in Nat \ {0}
  PROVE  /\ FilledLots(requested) \in Nat
         /\ FilledLots(requested) >= 1
         /\ FilledLots(requested) <= requested
<1> DEFINE share == (requested * FillPercent) \div 100
<1>1. share \in Int BY CostsAssumption
<1>2. Larger(share, MinimumLot) \in Int /\ Larger(share, MinimumLot) >= 1
  <2> HIDE DEF share
  <2> QED BY <1>1, CostsAssumption DEF Larger
<1> DEFINE offer == Larger(share, MinimumLot)
<1>3. FilledLots(requested) = Smaller(requested, offer) BY DEF FilledLots
<1> HIDE DEF offer
<1> QED BY <1>2, <1>3 DEF Smaller, offer

(* The half taken at TP1 leaves something open.                             *)
LEMMA Tp1LotsBounds ==
  ASSUME NEW initial \in Nat, NEW open \in Nat \ {0}
  PROVE  Tp1Lots(initial, open) \in Nat /\ Tp1Lots(initial, open) < open
BY CostsAssumption DEF Tp1Lots

(***************************************************************************)
(* What the transactions rely on in an outcome r of managePaperPosition    *)
(* for a position p.                                                       *)
(***************************************************************************)
Outcome(r, side, p) ==
  /\ r.event \in Closing \cup {"NONE", "HIT_TP1", "RECONCILIATION_REQUIRED"}
  /\ r.lots \in Nat /\ r.lots <= p.open
  /\ r.gross \in Int /\ r.commission \in Int /\ r.eventNet \in Int
  /\ r.stop \in Int /\ r.tp1Hit \in BOOLEAN
  /\ Closes(r) => r.lots = p.open /\ r.tp1Hit = p.tp1Hit /\ r.stop = p.stop
  /\ r.event = "HIT_TP1" =>
       /\ ~p.tp1Hit /\ r.tp1Hit /\ r.lots < p.open
       /\ r.stop = BreakEven(side, p.entry)
  /\ r.event = "NONE" =>
       r.lots = 0 /\ r.gross = 0 /\ r.commission = 0 /\ r.tp1Hit = p.tp1Hit /\ r.stop = p.stop

LEMMA BreakEvenType ==
  ASSUME NEW side, NEW entry \in Int
  PROVE  BreakEven(side, entry) \in Int
BY CostsAssumption DEF BreakEven

LEMMA UnchangedOutcome ==
  ASSUME NEW side, NEW p \in PositionRow
  PROVE  Outcome(Unchanged(p), side, p)
BY DEF Outcome, Unchanged, Closing, Closes, PositionRow

LEMMA ReconciliationOutcome ==
  ASSUME NEW side, NEW p \in PositionRow
  PROVE  Outcome(ReconciliationRequired(p), side, p)
BY DEF Outcome, ReconciliationRequired, Unchanged, Closing, Closes, PositionRow

LEMMA ExitOutcome ==
  ASSUME NEW side, NEW p \in PositionRow, NEW lots \in Nat, NEW price \in Int,
         NEW event \in Closing \cup {"HIT_TP1"},
         event \in Closing => lots = p.open,
         event = "HIT_TP1" => lots < p.open /\ ~p.tp1Hit
  PROVE  Outcome(Exit(side, p, event, lots, price), side, p)
<1> DEFINE gross == movement(side, p.entry, price) * lots
           commission == lots * CommissionPerLot
           r == Exit(side, p, event, lots, price)
<1>1. gross \in Int /\ commission \in Int
  BY CostsAssumption DEF movement, PositionRow
<1>2. BreakEven(side, p.entry) \in Int
  BY BreakEvenType DEF PositionRow
<1>3. /\ r.event = event /\ r.lots = lots /\ r.gross = gross /\ r.commission = commission
      /\ r.eventNet = IF event \in {"HIT_TP1", "MANUAL_CLOSE"} THEN gross - commission ELSE 0
      /\ r.stop = IF event = "HIT_TP1" THEN BreakEven(side, p.entry) ELSE p.stop
      /\ r.tp1Hit = (p.tp1Hit \/ event = "HIT_TP1")
  BY DEF Exit
<1>4. p.tp1Hit \in BOOLEAN /\ p.stop \in Int /\ p.open \in Nat
  BY DEF PositionRow
<1> HIDE DEF gross, commission, r
<1>5. r.tp1Hit \in BOOLEAN /\ r.stop \in Int /\ r.eventNet \in Int
  BY <1>1, <1>2, <1>3, <1>4
<1>6. r.event \in Closing => r.lots = p.open /\ r.tp1Hit = p.tp1Hit /\ r.stop = p.stop
  BY <1>3, <1>4 DEF Closing
<1>7. r.event = "HIT_TP1" =>
         ~p.tp1Hit /\ r.tp1Hit /\ r.lots < p.open /\ r.stop = BreakEven(side, p.entry)
  BY <1>3, <1>4
<1>8. /\ r.event # "NONE" /\ r.event \in Closing \cup {"HIT_TP1"}
      /\ r.lots \in Nat /\ r.lots <= p.open /\ r.gross \in Int /\ r.commission \in Int
  BY <1>1, <1>3, <1>4 DEF Closing
<1>9. Outcome(r, side, p)
  BY <1>5, <1>6, <1>7, <1>8 DEF Outcome, Closes
<1> QED BY <1>9 DEF r

LEMMA ExitIfPricedOutcome ==
  ASSUME NEW side, NEW p \in PositionRow, NEW lots \in Nat, NEW price \in Int,
         NEW event \in Closing \cup {"HIT_TP1"},
         event \in Closing => lots = p.open,
         event = "HIT_TP1" => lots < p.open /\ ~p.tp1Hit
  PROVE  Outcome(ExitIfPriced(side, p, event, lots, price), side, p)
BY ExitOutcome, ReconciliationOutcome DEF ExitIfPriced

(* Every outcome of managePaperPosition is of that form.                    *)
LEMMA ManageOutcome ==
  ASSUME NEW plan \in PlanRecord, NEW p \in PositionRow, p.open > 0,
         NEW q \in Quotes \cup {NoQuote}, NEW close \in BOOLEAN
  PROVE  Outcome(managePaperPosition(plan, p, q, close), plan.side, p)
<1> DEFINE side == plan.side
           price == SidePrice(side, q)
           market == adverseMarketExitPrice(side, price)
           tp1 == Tp1Lots(p.initial, p.open)
<1>1. price \in Int
  BY BoundsAssumption DEF SidePrice, Quotes, NoQuote
<1>2. market \in Int
  BY <1>1, CostsAssumption DEF adverseMarketExitPrice
<1>3. /\ targetLimitExitPrice(side, price, plan.tp1) \in Int
      /\ targetLimitExitPrice(side, price, plan.tp2) \in Int
  BY <1>2 DEF targetLimitExitPrice, Larger, Smaller, PlanRecord
<1>4. tp1 \in Nat /\ tp1 < p.open
  BY Tp1LotsBounds DEF PositionRow
<1>5. Outcome(ReconciliationRequired(p), side, p) /\ Outcome(Unchanged(p), side, p)
  BY ReconciliationOutcome, UnchangedOutcome
<1>6. Outcome(ExitIfPriced(side, p, "MANUAL_CLOSE", p.open, market), side, p)
  BY <1>2, ExitIfPricedOutcome DEF Closing, PositionRow
<1>7. Outcome(ExitIfPriced(side, p, IF p.tp1Hit THEN "SL_AFTER_TP1" ELSE "SL_DIRECT",
                           p.open, market), side, p)
  BY <1>2, ExitIfPricedOutcome DEF Closing, PositionRow
<1>8. ~p.tp1Hit => Outcome(Exit(side, p, "HIT_TP1", 0, price), side, p)
  BY <1>1, ExitOutcome DEF Closing
<1>9. ~p.tp1Hit => Outcome(ExitIfPriced(side, p, "HIT_TP1", tp1,
                             targetLimitExitPrice(side, price, plan.tp1)), side, p)
  BY <1>3, <1>4, ExitIfPricedOutcome DEF Closing
<1>10. Outcome(ExitIfPriced(side, p, "HIT_TP2", p.open,
                            targetLimitExitPrice(side, price, plan.tp2)), side, p)
  BY <1>3, ExitIfPricedOutcome DEF Closing, PositionRow
<1> QED
  BY <1>5, <1>6, <1>7, <1>8, <1>9, <1>10 DEF managePaperPosition

-----------------------------------------------------------------------------
(* The inductive invariant. *)

(***************************************************************************)
(* What the named invariants leave out: which order and position statuses  *)
(* occur together, and that a position which was never opened is blank.    *)
(***************************************************************************)
LinkedOf(o) ==
  /\ order[o].status \in {"NONE", "PENDING"} => position[o].status = "NONE"
  /\ order[o].status = "PARTIAL" => position[o].status = "OPEN"
  /\ order[o].status = "NONE" => signal[o] = "NONE"
  /\ position[o].status = "NONE" => position[o] = NoPosition
  /\ position[o].status = "OPEN" => ~position[o].tp1Hit
  /\ position[o].status = "PARTIAL" => position[o].tp1Hit

(* The risk on the books of a position is the stop distance of its fills.   *)
RiskOf(o) == position[o].initialRisk = Plan[o].lotRisk * position[o].initial

Coherent(o) ==
  /\ LinkedOf(o) /\ LotsOf(o) /\ BooksOf(o) /\ SettledOf(o) /\ ProtectedOf(o) /\ SignalOf(o)
  /\ RiskOf(o)

(* The work list of a phase holds only rows the phase is meant for.         *)
WorkListOf(t) ==
  /\ t.phase \in {"idle", "awaiting", "account"} => t.todo = {}
  /\ t.phase \in {"expire", "cancel", "fill"} => \A o \in t.todo : IsWorking(o)
  /\ t.phase = "monitor" => \A o \in t.todo : IsOpen(o)
WorkListsOK == WorkListOf(tick)

IInv == TypeOK /\ WorkListsOK /\ \A o \in Orders : Coherent(o)

(***************************************************************************)
(* The ways the lots of an order may move: the actions of PaperContract in *)
(* terms of the rows.                                                      *)
(***************************************************************************)
Ended == {"EXPIRED", "CANCELLED", "REJECTED"}

Stages(o) ==
  /\ order[o].status = "NONE" /\ order'[o].status = "PENDING"
  /\ order'[o].remaining = Plan[o].quantity
  /\ position[o] = NoPosition /\ position'[o] = NoPosition

Fills(o) ==
  /\ IsWorking(o) /\ order'[o].status \in {"PARTIAL", "FILLED"}
  /\ position'[o].status = "OPEN" /\ ~position[o].tp1Hit /\ ~position'[o].tp1Hit
  /\ \E lots \in 1 .. order[o].remaining :
       /\ order'[o].remaining = order[o].remaining - lots
       /\ position'[o].open = position[o].open + lots
       /\ position'[o].initial = position[o].initial + lots

Abandons(o) ==
  /\ IsWorking(o) /\ order'[o].status \in Ended /\ order'[o].remaining = 0
  /\ position'[o] = position[o]

TakesProfit(o) ==
  /\ IsOpen(o) /\ position'[o].status = "PARTIAL"
  /\ order'[o].status \notin {"NONE", "PENDING", "PARTIAL"}
  /\ ~position[o].tp1Hit /\ position'[o].tp1Hit
  /\ \E lots \in 0 .. position[o].open - 1 : position'[o].open = position[o].open - lots
  /\ position'[o].initial = position[o].initial

Settles(o) ==
  /\ IsOpen(o) /\ position'[o].status = "CLOSED"
  /\ order'[o].status \notin {"NONE", "PENDING", "PARTIAL"}
  /\ position'[o].open = 0 /\ position'[o].initial = position[o].initial
  /\ position'[o].tp1Hit = position[o].tp1Hit

Rests(o) ==
  /\ order'[o] = order[o]
  /\ position'[o].status = position[o].status /\ position'[o].open = position[o].open
  /\ position'[o].initial = position[o].initial /\ position'[o].tp1Hit = position[o].tp1Hit

FlowStep(o) ==
  Stages(o) \/ Fills(o) \/ Abandons(o) \/ TakesProfit(o) \/ Settles(o) \/ Rests(o)

(***************************************************************************)
(* A transaction on o keeps the types and the coherence of its own rows,   *)
(* and touches no other rows.                                              *)
(***************************************************************************)
RowsKept(o) ==
  /\ order'[o] = order[o] /\ signal'[o] = signal[o] /\ position'[o] = position[o]
  /\ trade'[o] = trade[o] /\ ledger'[o] = ledger[o]

KeepsCoherence(o) ==
  /\ BooksTypeOK'
  /\ Coherent(o)'
  /\ \A x \in Orders \ {o} : RowsKept(x)
  /\ FlowStep(o)

LEMMA RowsKeptCoherent ==
  ASSUME NEW o \in Orders, Coherent(o), RowsKept(o)
  PROVE  Coherent(o)'
BY DEF Coherent, RowsKept, LinkedOf, LotsOf, BooksOf, SettledOf, ProtectedOf, SignalOf, RiskOf,
       IsWorking, IsOpen

(* EndOrder leaves a well-typed row without a remainder.                    *)
LEMMA EndOrderRow ==
  ASSUME order \in [Orders -> OrderRow], NEW o \in Orders,
         NEW status \in {"EXPIRED", "CANCELLED", "REJECTED"}, EndOrder(o, status)
  PROVE  /\ order' \in [Orders -> OrderRow]
         /\ order'[o].status = status /\ order'[o].remaining = 0
         /\ \A x \in Orders \ {o} : order'[x] = order[x]
<1> DEFINE row == [order[o] EXCEPT !.status = status, !.remaining = 0]
<1>1. order[o] \in OrderRow
  OBVIOUS
<1>2. row \in OrderRow /\ row.status = status /\ row.remaining = 0
  BY <1>1 DEF OrderRow
<1>3. order' = [order EXCEPT ![o] = row]
  BY <1>1 DEF EndOrder, OrderRow
<1> HIDE DEF row
<1> QED BY <1>2, <1>3

LEMMA ExpireKeeps ==
  ASSUME BooksTypeOK, NEW o \in Orders, Coherent(o), IsWorking(o), expireOrder(o)
  PROVE  KeepsCoherence(o)
<1> USE DEF expireOrder, SignalIfPending
<1>1. PICK status \in {"EXPIRED", "CANCELLED", "REJECTED"} : EndOrder(o, status)
  OBVIOUS
<1>2. /\ order' \in [Orders -> OrderRow]
      /\ order'[o].status = status /\ order'[o].remaining = 0
      /\ \A x \in Orders \ {o} : order'[x] = order[x]
  BY <1>1, EndOrderRow DEF BooksTypeOK
<1>3. BooksTypeOK'
  BY <1>2 DEF BooksTypeOK
<1>4. Coherent(o)'
  BY <1>1, <1>2 DEF BooksTypeOK, OrderRow, Coherent, LinkedOf, LotsOf, BooksOf, SettledOf,
     ProtectedOf, SignalOf, RiskOf, IsWorking, IsOpen, Working, Open
<1>5. \A x \in Orders \ {o} : RowsKept(x)
  BY <1>2 DEF BooksTypeOK, RowsKept
<1>6. Abandons(o)
  BY <1>2 DEF Abandons, Ended
<1> QED BY <1>3, <1>4, <1>5, <1>6 DEF KeepsCoherence, FlowStep

LEMMA CancelKeeps ==
  ASSUME BooksTypeOK, NEW o \in Orders, Coherent(o), IsWorking(o), cancelOrderForPaperOff(o)
  PROVE  KeepsCoherence(o)
<1> USE DEF cancelOrderForPaperOff
<1>1. PICK status \in {"EXPIRED", "CANCELLED", "REJECTED"} : EndOrder(o, status)
  OBVIOUS
<1>2. /\ order' \in [Orders -> OrderRow]
      /\ order'[o].status = status /\ order'[o].remaining = 0
      /\ \A x \in Orders \ {o} : order'[x] = order[x]
  BY <1>1, EndOrderRow DEF BooksTypeOK
<1>3. BooksTypeOK'
  BY <1>2 DEF BooksTypeOK
<1>4. Coherent(o)'
  BY <1>1, <1>2 DEF BooksTypeOK, OrderRow, Coherent, LinkedOf, LotsOf, BooksOf, SettledOf,
     ProtectedOf, SignalOf, RiskOf, IsWorking, IsOpen, Working, Open
<1>5. \A x \in Orders \ {o} : RowsKept(x)
  BY <1>2 DEF BooksTypeOK, RowsKept
<1>6. Abandons(o)
  BY <1>2 DEF Abandons, Ended
<1> QED BY <1>3, <1>4, <1>5, <1>6 DEF KeepsCoherence, FlowStep

LEMMA RejectKeeps ==
  ASSUME BooksTypeOK, NEW o \in Orders, Coherent(o), IsWorking(o), NEW verdict,
         RejectForRisk(o, verdict)
  PROVE  KeepsCoherence(o)
<1> USE DEF RejectForRisk
<1>1. PICK status \in {"EXPIRED", "CANCELLED", "REJECTED"} : EndOrder(o, status)
  OBVIOUS
<1>2. /\ order' \in [Orders -> OrderRow]
      /\ order'[o].status = status /\ order'[o].remaining = 0
      /\ \A x \in Orders \ {o} : order'[x] = order[x]
  BY <1>1, EndOrderRow DEF BooksTypeOK
<1>3. BooksTypeOK'
  BY <1>2 DEF BooksTypeOK
<1>4. Coherent(o)'
  BY <1>1, <1>2 DEF BooksTypeOK, OrderRow, Coherent, LinkedOf, LotsOf, BooksOf, SettledOf,
     ProtectedOf, SignalOf, RiskOf, IsWorking, IsOpen, Working, Open
<1>5. \A x \in Orders \ {o} : RowsKept(x)
  BY <1>2 DEF BooksTypeOK, RowsKept
<1>6. Abandons(o)
  BY <1>2 DEF Abandons, Ended
<1> QED BY <1>3, <1>4, <1>5, <1>6 DEF KeepsCoherence, FlowStep

LEMMA EndUnfilledKeeps ==
  ASSUME BooksTypeOK, NEW o \in Orders, Coherent(o), IsWorking(o), NEW verdict,
         EndUnfilled(o, verdict)
  PROVE  KeepsCoherence(o)
<1> USE DEF EndUnfilled, SignalIfPending
<1>1. PICK status \in {"EXPIRED", "CANCELLED", "REJECTED"} : EndOrder(o, status)
  OBVIOUS
<1>2. /\ order' \in [Orders -> OrderRow]
      /\ order'[o].status = status /\ order'[o].remaining = 0
      /\ \A x \in Orders \ {o} : order'[x] = order[x]
  BY <1>1, EndOrderRow DEF BooksTypeOK
<1>3. BooksTypeOK'
  BY <1>2 DEF BooksTypeOK
<1>4. Coherent(o)'
  BY <1>1, <1>2 DEF BooksTypeOK, OrderRow, Coherent, LinkedOf, LotsOf, BooksOf, SettledOf,
     ProtectedOf, SignalOf, RiskOf, IsWorking, IsOpen, Working, Open
<1>5. \A x \in Orders \ {o} : RowsKept(x)
  BY <1>2 DEF BooksTypeOK, RowsKept
<1>6. Abandons(o)
  BY <1>2 DEF Abandons, Ended
<1> QED BY <1>3, <1>4, <1>5, <1>6 DEF KeepsCoherence, FlowStep

LEMMA NothingKeeps ==
  ASSUME BooksTypeOK, NEW o \in Orders, Coherent(o), UNCHANGED books
  PROVE  KeepsCoherence(o)
<1>1. \A x \in Orders : RowsKept(x)
  BY DEF books, RowsKept
<1>2. BooksTypeOK'
  BY DEF BooksTypeOK, books
<1>3. Rests(o)
  BY DEF books, Rests
<1> QED BY <1>1, <1>2, <1>3, RowsKeptCoherent DEF KeepsCoherence, FlowStep

(* A verdict to fill means that the order asks for at least one lot, and    *)
(* that the verdict says whether the whole remainder is filled.             *)
LEMMA FillVerdictMeans ==
  ASSUME NEW o \in Orders, NEW q, NEW now,
         FillVerdict(o, q, now) \in {"PARTIAL", "FILLED"}
  PROVE  /\ ~position[o].tp1Hit
         /\ FillVerdict(o, q, now) = "PARTIAL" => FilledLots(order[o].remaining) < order[o].remaining
         /\ FillVerdict(o, q, now) = "FILLED" => ~(FilledLots(order[o].remaining) < order[o].remaining)
BY DEF FillVerdict, matchPendingOrder

LEMMA ExecuteFillKeeps ==
  ASSUME BooksTypeOK, NEW o \in Orders, Coherent(o), IsWorking(o),
         NEW q \in Quotes \cup {NoQuote}, NEW now \in Nat,
         ExecuteFill(o, FillVerdict(o, q, now), q, now)
  PROVE  KeepsCoherence(o)
<1> DEFINE verdict == FillVerdict(o, q, now)
           lots    == FilledLots(order[o].remaining)
           p       == position[o]
           price   == FillPrice(Plan[o], q)
           after   == Filled(o, lots, price, q, now)
<1>1. order[o] \in OrderRow /\ p \in PositionRow /\ Plan[o] \in PlanRecord /\ ledger[o] \in Int
  BY PlanAssumption DEF BooksTypeOK
<1>2. order[o].remaining \in Nat \ {0}
  BY <1>1 DEF OrderRow, Coherent, LotsOf
<1>3. lots \in Nat /\ lots >= 1 /\ lots <= order[o].remaining
  BY <1>2, FilledLotsBounds
<1>4. price \in Int
  BY <1>1, CostsAssumption, BoundsAssumption
  DEF FillPrice, Smaller, Larger, PlanRecord, Quotes, NoQuote
<1>5. verdict \in {"PARTIAL", "FILLED"} /\ ~p.tp1Hit
  BY FillVerdictMeans DEF ExecuteFill, Remaining
<1>6. /\ verdict = "PARTIAL" => lots < order[o].remaining
      /\ verdict = "FILLED" => lots = order[o].remaining
  BY <1>2, <1>3, FillVerdictMeans, <1>5
<1>7. /\ after \in PositionRow
      /\ after.status = (IF p.status = "NONE" THEN "OPEN" ELSE p.status)
      /\ after.open = p.open + lots /\ after.initial = p.initial + lots
      /\ after.tp1Hit = p.tp1Hit /\ after.gross = p.gross /\ after.swap = p.swap
      /\ after.commission = p.commission + lots * CommissionPerLot
      /\ after.initialRisk = Plan[o].lotRisk * (p.initial + lots)
  <2> DEFINE initial == p.initial + lots
             fee     == lots * CommissionPerLot
             total   == p.initial * p.entry + lots * price
             entry   == Rounded(total, initial)
             atRisk  == Plan[o].lotRisk * initial
  <2>1. initial \in Nat \ {0} /\ fee \in Int /\ total \in Int
    BY <1>1, <1>3, <1>4, CostsAssumption DEF PositionRow
  <2>2. entry \in Int
    <3> HIDE DEF total, initial
    <3>1. 2 * total + initial \in Int /\ 2 * initial \in Nat \ {0}
      BY <2>1
    <3>2. (2 * total + initial) \div (2 * initial) \in Int
      BY <3>1
    <3> QED BY <3>2 DEF Rounded
  <2>3. atRisk \in Int
    BY <2>1, <1>1 DEF PlanRecord
  <2>4. q.observedAt \in Nat /\ Plan[o].stop \in Int
    BY <1>1, BoundsAssumption DEF Quotes, NoQuote, PlanRecord
  <2>5. after =
          [p EXCEPT !.status = IF p.status = "NONE" THEN "OPEN" ELSE p.status,
                    !.open = p.open + lots, !.initial = initial, !.entry = entry,
                    !.stop = IF p.status = "NONE" THEN Plan[o].stop ELSE p.stop,
                    !.commission = p.commission + fee, !.realized = p.realized - fee,
                    !.initialRisk = atRisk,
                    !.openedAt = IF p.status = "NONE" THEN now ELSE p.openedAt,
                    !.lastSwapAt = now, !.lastFillAt = q.observedAt]
    BY DEF Filled, InitialRisk
  <2>6. p.open + lots \in Nat /\ p.commission + fee \in Int /\ p.realized - fee \in Int
    BY <1>1, <1>3, <2>1 DEF PositionRow
  <2> HIDE DEF initial, fee, entry, atRisk, after, p, lots
  <2>7. /\ after \in PositionRow
        /\ after.status = (IF p.status = "NONE" THEN "OPEN" ELSE p.status)
        /\ after.open = p.open + lots /\ after.initial = initial
        /\ after.tp1Hit = p.tp1Hit /\ after.gross = p.gross /\ after.swap = p.swap
        /\ after.commission = p.commission + fee /\ after.initialRisk = atRisk
    BY <1>1, <2>1, <2>2, <2>3, <2>4, <2>5, <2>6 DEF PositionRow
  <2> QED BY <2>7 DEF initial, fee, atRisk
<1>9. /\ position' = [position EXCEPT ![o] = after]
      /\ order' = [order EXCEPT ![o].status = verdict, ![o].remaining = @ - lots]
      /\ ledger' = [ledger EXCEPT ![o] = @ - lots * CommissionPerLot]
      /\ signal' = [signal EXCEPT ![o] = IF verdict = "PARTIAL" THEN "PARTIAL" ELSE "OPEN"]
      /\ trade' = trade
  BY DEF ExecuteFill, Remaining
<1> HIDE DEF verdict, lots, p, price, after
<1>10. lots * CommissionPerLot \in Int
  BY <1>3, CostsAssumption
<1>11. BooksTypeOK'
  BY <1>1, <1>3, <1>5, <1>7, <1>9, <1>10 DEF BooksTypeOK, OrderRow
<1>12. Coherent(o)'
  <2>1. /\ position'[o] = after /\ trade'[o] = trade[o]
        /\ order'[o].status = verdict /\ order'[o].remaining = order[o].remaining - lots
        /\ ledger'[o] = ledger[o] - lots * CommissionPerLot
        /\ signal'[o] = IF verdict = "PARTIAL" THEN "PARTIAL" ELSE "OPEN"
    BY <1>1, <1>9 DEF BooksTypeOK, OrderRow
  <2>2. /\ p.status \in {"NONE", "OPEN"} /\ after.status = "OPEN" /\ trade[o].reason = "NONE"
        /\ p.status = "NONE" => p.open = 0 /\ p.initial = 0
    BY <1>1, <1>5, <1>7 DEF Coherent, LinkedOf, SettledOf, IsWorking, Working, NoPosition, p
  <2>3. /\ p.initial + order[o].remaining = Plan[o].quantity /\ p.open = p.initial
        /\ p.open \in Nat /\ p.initial \in Nat
    BY <1>1, <1>5, <2>2
    DEF Coherent, LotsOf, IsOpen, Open, PositionRow, p
  <2>4. LinkedOf(o)'
    BY <1>5, <1>7, <2>1, <2>2 DEF LinkedOf
  <2>5. LotsOf(o)'
    BY <1>2, <1>3, <1>5, <1>6, <1>7, <2>1, <2>2, <2>3
    DEF LotsOf, IsWorking, Working, IsOpen, Open
  <2>6. BooksOf(o)'
    BY <1>1, <1>7, <1>10, <2>1, <2>2 DEF Coherent, BooksOf, NetPnl, p, PositionRow
  <2>7. SettledOf(o)' /\ ProtectedOf(o)' /\ SignalOf(o)'
    BY <1>5, <1>7, <2>1, <2>2 DEF SettledOf, ProtectedOf, SignalOf, IsOpen, Open
  <2>8. RiskOf(o)'
    BY <1>7, <2>1 DEF RiskOf
  <2> QED BY <2>4, <2>5, <2>6, <2>7, <2>8 DEF Coherent
<1>13. \A x \in Orders \ {o} : RowsKept(x)
  BY <1>9 DEF BooksTypeOK, RowsKept
<1>14. Fills(o)
  <2>1. /\ position'[o] = after /\ order'[o].status = verdict
        /\ order'[o].remaining = order[o].remaining - lots
    BY <1>1, <1>9 DEF BooksTypeOK, OrderRow
  <2>2. p.status \in {"NONE", "OPEN"}
    BY DEF Coherent, LinkedOf, IsWorking, Working, p
  <2> QED BY <1>2, <1>3, <1>5, <1>7, <2>1, <2>2 DEF Fills, p
<1> QED BY <1>11, <1>12, <1>13, <1>14 DEF KeepsCoherence, FlowStep

(* The row of a position after an outcome.                                  *)
LEMMA ManagedRow ==
  ASSUME NEW o \in Orders, NEW r, NEW now \in Nat,
         position[o] \in PositionRow, Outcome(r, Plan[o].side, position[o])
  PROVE  /\ SwapDelta(o, now) \in Int
         /\ Managed(o, r, now) \in PositionRow
         /\ Managed(o, r, now).status = (IF Closes(r) THEN "CLOSED"
              ELSE IF r.event = "HIT_TP1" THEN "PARTIAL" ELSE position[o].status)
         /\ Managed(o, r, now).open = position[o].open - r.lots
         /\ Managed(o, r, now).initial = position[o].initial
         /\ Managed(o, r, now).entry = position[o].entry
         /\ Managed(o, r, now).stop = r.stop
         /\ Managed(o, r, now).tp1Hit = r.tp1Hit
         /\ Managed(o, r, now).gross = position[o].gross + r.gross
         /\ Managed(o, r, now).commission = position[o].commission + r.commission
         /\ Managed(o, r, now).swap = position[o].swap + SwapDelta(o, now)
         /\ Managed(o, r, now).initialRisk = position[o].initialRisk
<1> DEFINE p     == position[o]
           due   == p.open * SwapRate * (now - p.lastSwapAt)
           swap  == SwapDelta(o, now)
           after == Managed(o, r, now)
           realized == p.realized + r.eventNet
                         + (IF Closes(r) THEN r.gross - r.commission ELSE 0) - swap
<1>1. swap \in Int
  <2>1. due \in Int /\ SwapUnit \in Nat \ {0}
    BY BoundsAssumption DEF PositionRow
  <2> HIDE DEF due
  <2>2. 2 * due + SwapUnit \in Int /\ 2 * SwapUnit \in Nat \ {0}
    BY <2>1
  <2>3. (2 * due + SwapUnit) \div (2 * SwapUnit) \in Int
    BY <2>2
  <2> QED BY <2>3 DEF SwapDelta, Rounded, due
<1>2. after =
        [p EXCEPT
           !.status = IF Closes(r) THEN "CLOSED" ELSE IF r.event = "HIT_TP1" THEN "PARTIAL"
                      ELSE p.status,
           !.open = p.open - r.lots, !.stop = r.stop, !.tp1Hit = r.tp1Hit,
           !.gross = p.gross + r.gross, !.commission = p.commission + r.commission,
           !.swap = p.swap + swap, !.realized = realized, !.lastSwapAt = now]
  BY DEF Managed, PositionRow
<1>3. /\ p \in PositionRow /\ p.open - r.lots \in Nat /\ p.gross + r.gross \in Int
      /\ p.commission + r.commission \in Int /\ p.swap + swap \in Int /\ realized \in Int
      /\ r.stop \in Int /\ r.tp1Hit \in BOOLEAN
  <2> HIDE DEF swap
  <2> QED BY <1>1 DEF Outcome, PositionRow
<1> HIDE DEF p, swap, after, realized
<1>4. /\ swap \in Int
      /\ after \in PositionRow
      /\ after.status = (IF Closes(r) THEN "CLOSED"
           ELSE IF r.event = "HIT_TP1" THEN "PARTIAL" ELSE p.status)
      /\ after.open = p.open - r.lots /\ after.initial = p.initial /\ after.entry = p.entry
      /\ after.stop = r.stop /\ after.tp1Hit = r.tp1Hit
      /\ after.gross = p.gross + r.gross
      /\ after.commission = p.commission + r.commission
      /\ after.swap = p.swap + swap /\ after.initialRisk = p.initialRisk
  BY <1>1, <1>2, <1>3 DEF PositionRow
<1> QED BY <1>4 DEF p, swap, after

(* Cancelling the remainder of an order that has a position.                *)
LEMMA CancelRemainderRow ==
  ASSUME order \in [Orders -> OrderRow], NEW o \in Orders, CancelRemainder(o)
  PROVE  /\ order' \in [Orders -> OrderRow]
         /\ \A x \in Orders \ {o} : order'[x] = order[x]
         /\ \/ order[o].status = "PARTIAL" /\ order'[o].status = "CANCELLED"
               /\ order'[o].remaining = 0
            \/ order[o].status # "PARTIAL" /\ order'[o] = order[o]
<1>1. CASE order[o].status = "PARTIAL"
  <2>1. EndOrder(o, "CANCELLED")
    BY <1>1 DEF CancelRemainder, EndOrder
  <2> QED BY <1>1, <2>1, EndOrderRow
<1>2. CASE order[o].status # "PARTIAL"
  BY <1>2 DEF CancelRemainder
<1> QED BY <1>1, <1>2

LEMMA ManageKeeps ==
  ASSUME BooksTypeOK, NEW o \in Orders, Coherent(o), IsOpen(o), NEW r, NEW now \in Nat,
         Outcome(r, Plan[o].side, position[o]), ManagePosition(o, r, now)
  PROVE  KeepsCoherence(o)
<1> DEFINE p     == position[o]
           swap  == SwapDelta(o, now)
           after == Managed(o, r, now)
<1>1. p \in PositionRow /\ order[o] \in OrderRow /\ ledger[o] \in Int
  BY DEF BooksTypeOK
<1>2. r.event \in {"NONE", "HIT_TP1"} /\ ~Closes(r)
  BY DEF ManagePosition, Booked, Outcome, Closes
<1>3. /\ after \in PositionRow /\ swap \in Int
      /\ after.status = (IF r.event = "HIT_TP1" THEN "PARTIAL" ELSE p.status)
      /\ after.open = p.open - r.lots /\ after.initial = p.initial /\ after.entry = p.entry
      /\ after.stop = r.stop /\ after.tp1Hit = r.tp1Hit
      /\ after.gross = p.gross + r.gross /\ after.commission = p.commission + r.commission
      /\ after.swap = p.swap + swap /\ after.initialRisk = p.initialRisk
  BY <1>1, <1>2, ManagedRow
<1>4. /\ position' = [position EXCEPT ![o] = after] /\ trade' = trade
      /\ ledger' = [ledger EXCEPT ![o] = @ + r.gross - r.commission - swap]
      /\ signal' = IF r.event = "HIT_TP1" THEN [signal EXCEPT ![o] = "PARTIAL"] ELSE signal
      /\ r.event = "HIT_TP1" => CancelRemainder(o)
      /\ r.event # "HIT_TP1" => order' = order
  BY DEF ManagePosition, Booked
<1>5. /\ order' \in [Orders -> OrderRow]
      /\ \A x \in Orders \ {o} : order'[x] = order[x]
      /\ \/ r.event = "HIT_TP1" /\ order[o].status = "PARTIAL" /\ order'[o].status = "CANCELLED"
            /\ order'[o].remaining = 0
         \/ (r.event = "HIT_TP1" => order[o].status # "PARTIAL") /\ order'[o] = order[o]
  BY <1>4, CancelRemainderRow DEF BooksTypeOK
<1> HIDE DEF swap, after
<1>6. r.gross \in Int /\ r.commission \in Int /\ r.lots \in Nat
  BY DEF Outcome
<1>7. BooksTypeOK'
  <2>1. ledger[o] + r.gross - r.commission - swap \in Int
    BY <1>1, <1>3, <1>6
  <2> QED BY <1>3, <1>4, <1>5, <2>1 DEF BooksTypeOK
<1>8. /\ position'[o] = after /\ trade'[o] = trade[o]
      /\ ledger'[o] = ledger[o] + r.gross - r.commission - swap
      /\ signal'[o] = IF r.event = "HIT_TP1" THEN "PARTIAL" ELSE signal[o]
  BY <1>4 DEF BooksTypeOK
<1>9. /\ p.status \in {"OPEN", "PARTIAL"} /\ order[o].status \notin {"NONE", "PENDING"}
      /\ trade[o].reason = "NONE"
  BY DEF Coherent, LinkedOf, SettledOf, IsOpen, Open
<1>10. /\ r.lots < p.open /\ r.tp1Hit = (p.tp1Hit \/ r.event = "HIT_TP1")
       /\ r.event = "HIT_TP1" => r.stop = BreakEven(Plan[o].side, p.entry)
       /\ r.event = "NONE" => r.stop = p.stop /\ r.lots = 0
  <2>1. p.open \in Nat /\ p.open >= 1 /\ p.tp1Hit \in BOOLEAN
    BY <1>1 DEF Coherent, LotsOf, PositionRow
  <2> QED BY <1>2, <2>1 DEF Outcome
<1>11. LinkedOf(o)'
  BY <1>3, <1>5, <1>8, <1>9, <1>10 DEF Coherent, LinkedOf
<1>12. LotsOf(o)'
  BY <1>1, <1>2, <1>3, <1>5, <1>6, <1>8, <1>9, <1>10
  DEF Coherent, LotsOf, IsWorking, Working, IsOpen, Open, PositionRow, OrderRow
<1>13. BooksOf(o)'
  BY <1>1, <1>2, <1>3, <1>6, <1>8, <1>9 DEF Coherent, BooksOf, NetPnl, PositionRow
<1>14. SettledOf(o)'
  BY <1>3, <1>8, <1>9 DEF SettledOf
<1>15. ProtectedOf(o)'
  BY <1>2, <1>3, <1>5, <1>8, <1>9, <1>10
  DEF Coherent, LinkedOf, ProtectedOf, IsWorking, Working, IsOpen, Open
<1>16. SignalOf(o)'
  BY <1>3, <1>5, <1>8, <1>9 DEF Coherent, SignalOf, IsOpen, Open
<1>17. \A x \in Orders \ {o} : RowsKept(x)
  BY <1>4, <1>5 DEF BooksTypeOK, RowsKept
<1>18. TakesProfit(o) \/ Rests(o)
  <2>1. CASE r.event = "HIT_TP1"
    <3>1. p.open - r.lots \in Nat /\ r.lots \in 0 .. p.open - 1
      BY <1>1, <1>6, <1>10 DEF PositionRow
    <3>2. ~p.tp1Hit
      BY <2>1 DEF Outcome
    <3> QED BY <1>3, <1>5, <1>8, <1>9, <1>10, <2>1, <3>1, <3>2 DEF TakesProfit
  <2>2. CASE r.event = "NONE"
    <3>1. p.open - r.lots = p.open /\ r.tp1Hit = p.tp1Hit
      BY <1>1, <1>10, <2>2 DEF PositionRow, Outcome
    <3> QED BY <1>3, <1>5, <1>8, <2>2, <3>1 DEF Rests
  <2> QED BY <1>2, <2>1, <2>2
<1>19. RiskOf(o)'
  BY <1>3, <1>8 DEF Coherent, RiskOf
<1> QED
  BY <1>7, <1>11, <1>12, <1>13, <1>14, <1>15, <1>16, <1>17, <1>18, <1>19
  DEF KeepsCoherence, Coherent, FlowStep

LEMMA CloseKeeps ==
  ASSUME BooksTypeOK, NEW o \in Orders, Coherent(o), IsOpen(o), NEW r, NEW now \in Nat,
         Outcome(r, Plan[o].side, position[o]), ClosePosition(o, r, now)
  PROVE  KeepsCoherence(o)
<1> DEFINE p     == position[o]
           swap  == SwapDelta(o, now)
           after == Managed(o, r, now)
           sold  == insertTrade(p, after, r.event)
<1>1. p \in PositionRow /\ order[o] \in OrderRow /\ ledger[o] \in Int
  BY DEF BooksTypeOK
<1>2. Closes(r) /\ r.event \in Closing /\ r.lots = p.open
  BY DEF ClosePosition, Booked, Closes, Outcome
<1>3. /\ after \in PositionRow /\ swap \in Int /\ after.status = "CLOSED"
      /\ after.open = p.open - r.lots /\ after.initial = p.initial
      /\ after.tp1Hit = p.tp1Hit
      /\ after.gross = p.gross + r.gross /\ after.commission = p.commission + r.commission
      /\ after.swap = p.swap + swap /\ after.initialRisk = p.initialRisk
  BY <1>1, <1>2, ManagedRow DEF Outcome
<1>4. /\ position' = [position EXCEPT ![o] = after]
      /\ trade' = [trade EXCEPT ![o] = sold]
      /\ ledger' = [ledger EXCEPT ![o] = @ + r.gross - r.commission - swap]
      /\ signal' = [signal EXCEPT ![o] = "CLOSED"]
      /\ CancelRemainder(o)
  BY DEF ClosePosition, Booked
<1> HIDE DEF swap, after
<1>5. /\ sold.reason = r.event /\ sold.net = NetPnl(after)
      /\ sold \in [reason : Closing \cup {"NONE"}, net : Int, valid : BOOLEAN]
  BY <1>1, <1>2, <1>3 DEF insertTrade, NetPnl, PositionRow
<1> HIDE DEF sold
<1>6. /\ order' \in [Orders -> OrderRow]
      /\ \A x \in Orders \ {o} : order'[x] = order[x]
      /\ \/ order[o].status = "PARTIAL" /\ order'[o].status = "CANCELLED"
            /\ order'[o].remaining = 0
         \/ order[o].status # "PARTIAL" /\ order'[o] = order[o]
  BY <1>4, CancelRemainderRow DEF BooksTypeOK
<1>7. r.gross \in Int /\ r.commission \in Int /\ r.event # "NONE"
  BY <1>2 DEF Outcome, Closing
<1>8. BooksTypeOK'
  <2>1. ledger[o] + r.gross - r.commission - swap \in Int
    BY <1>1, <1>3, <1>7
  <2> QED BY <1>3, <1>4, <1>5, <1>6, <2>1 DEF BooksTypeOK
<1>9. /\ position'[o] = after /\ trade'[o] = sold /\ signal'[o] = "CLOSED"
      /\ ledger'[o] = ledger[o] + r.gross - r.commission - swap
  BY <1>4 DEF BooksTypeOK
<1>10. p.status \in {"OPEN", "PARTIAL"} /\ order[o].status \notin {"NONE", "PENDING"}
  BY DEF Coherent, LinkedOf, IsOpen, Open
<1>11. ~IsWorking(o)' /\ order'[o].status \notin {"NONE", "PENDING", "PARTIAL"}
  BY <1>6, <1>10 DEF IsWorking, Working
<1>12. LinkedOf(o)'
  BY <1>3, <1>9, <1>11 DEF LinkedOf
<1>13. LotsOf(o)'
  BY <1>1, <1>3, <1>6, <1>9, <1>10, <1>11
  DEF Coherent, LotsOf, IsWorking, Working, IsOpen, Open, PositionRow, OrderRow
<1>14. BooksOf(o)'
  BY <1>1, <1>3, <1>5, <1>7, <1>9 DEF Coherent, BooksOf, NetPnl, PositionRow
<1>15. SettledOf(o)' /\ ProtectedOf(o)' /\ SignalOf(o)'
  BY <1>1, <1>2, <1>3, <1>5, <1>7, <1>9, <1>11
  DEF SettledOf, ProtectedOf, SignalOf, IsOpen, Open, PositionRow
<1>16. \A x \in Orders \ {o} : RowsKept(x)
  BY <1>4, <1>6 DEF BooksTypeOK, RowsKept
<1>17. Settles(o)
  BY <1>1, <1>2, <1>3, <1>9, <1>11 DEF Settles, PositionRow
<1>18. RiskOf(o)'
  BY <1>3, <1>9 DEF Coherent, RiskOf
<1> QED BY <1>8, <1>12, <1>13, <1>14, <1>15, <1>16, <1>17, <1>18
  DEF KeepsCoherence, Coherent, FlowStep

(* The two handlers of the pass, from whatever quote they are given.        *)
LEMMA MonitorKeeps ==
  ASSUME BooksTypeOK, NEW o \in Orders, Coherent(o), IsOpen(o),
         NEW q \in Quotes \cup {NoQuote}, NEW now \in Nat, NEW manualClose \in BOOLEAN,
         monitorPosition(o, q, now, manualClose)
  PROVE  KeepsCoherence(o)
<1> DEFINE r == managePaperPosition(Plan[o], position[o], q, manualClose)
<1>1. Outcome(r, Plan[o].side, position[o])
  <2>1. position[o] \in PositionRow /\ position[o].open > 0 /\ Plan[o] \in PlanRecord
    BY PlanAssumption DEF BooksTypeOK, Coherent, LotsOf, PositionRow
  <2> QED BY <2>1, ManageOutcome
<1> HIDE DEF r
<1>2. CASE SkipForClockSkew(o, now)
  BY <1>2, NothingKeeps DEF SkipForClockSkew
<1>3. CASE RequireReconciliation(o, r, now)
  BY <1>3, NothingKeeps DEF RequireReconciliation
<1>4. CASE ManagePosition(o, r, now)
  BY <1>1, <1>4, ManageKeeps
<1>5. CASE ClosePosition(o, r, now)
  BY <1>1, <1>5, CloseKeeps
<1> QED BY <1>2, <1>3, <1>4, <1>5 DEF monitorPosition, r

LEMMA FillOrderKeeps ==
  ASSUME BooksTypeOK, NEW o \in Orders, Coherent(o), IsWorking(o),
         NEW q \in Quotes \cup {NoQuote}, NEW now \in Nat, fillOrder(o, q, now)
  PROVE  KeepsCoherence(o)
<1> DEFINE verdict == FillVerdict(o, q, now)
<1>1. CASE RejectForRisk(o, verdict)
  BY <1>1, RejectKeeps
<1>2. CASE EndUnfilled(o, verdict)
  BY <1>2, EndUnfilledKeeps
<1>3. CASE HoldOrder(o, verdict)
  BY <1>3, NothingKeeps DEF HoldOrder
<1>4. CASE ExecuteFill(o, verdict, q, now)
  BY <1>4, ExecuteFillKeeps
<1> QED BY <1>1, <1>2, <1>3, <1>4 DEF fillOrder

LEMMA StageKeeps ==
  ASSUME BooksTypeOK, NEW o \in Orders, Coherent(o), NEW now \in Nat, persistScanResult(o, now)
  PROVE  KeepsCoherence(o)
<1> DEFINE row == [status |-> "PENDING", remaining |-> Plan[o].quantity, createdAt |-> now]
<1>1. Plan[o].quantity \in Nat \ {0}
  BY PlanAssumption DEF PlanRecord
<1>2. /\ row \in OrderRow
      /\ order' = [order EXCEPT ![o] = row] /\ signal' = [signal EXCEPT ![o] = "PENDING"]
      /\ order[o].status = "NONE"
      /\ position' = position /\ trade' = trade /\ ledger' = ledger
  BY <1>1 DEF persistScanResult, KeyIsNew, OrderRow
<1>3. row.status = "PENDING" /\ row.remaining = Plan[o].quantity
  OBVIOUS
<1> HIDE DEF row
<1>4. BooksTypeOK'
  BY <1>2 DEF BooksTypeOK
<1>5. /\ order'[o] = row /\ signal'[o] = "PENDING" /\ position'[o] = NoPosition
      /\ trade'[o] = trade[o] /\ ledger'[o] = ledger[o] /\ trade[o].reason = "NONE"
      /\ position[o] = NoPosition
  BY <1>2 DEF BooksTypeOK, Coherent, LinkedOf, SettledOf, NoPosition
<1>6. Coherent(o)'
  BY <1>1, <1>3, <1>5
  DEF Coherent, LinkedOf, LotsOf, BooksOf, SettledOf, ProtectedOf, SignalOf, RiskOf, IsWorking,
      Working, IsOpen, Open, NoPosition
<1>7. \A x \in Orders \ {o} : RowsKept(x)
  BY <1>2 DEF BooksTypeOK, RowsKept
<1>8. Stages(o)
  BY <1>2, <1>3, <1>5 DEF Stages
<1> QED BY <1>4, <1>6, <1>7, <1>8 DEF KeepsCoherence, FlowStep

-----------------------------------------------------------------------------
(* The invariant is inductive. *)

LEMMA InitIInv == Init => IInv
<1> SUFFICES ASSUME Init PROVE IInv
  OBVIOUS
<1>1. TypeOK
  BY DEF Init, TypeOK, TickRow, IdleTick, BooksTypeOK, OrderRow, NoOrder, PositionRow, NoPosition,
         NoTrade, NoRisk
<1>2. WorkListsOK
  BY DEF Init, WorkListsOK, WorkListOf, IdleTick
<1>3. ASSUME NEW o \in Orders PROVE Coherent(o)
  <2>1. /\ order[o] = NoOrder /\ signal[o] = "NONE" /\ position[o] = NoPosition
        /\ trade[o] = NoTrade /\ ledger[o] = 0
    BY DEF Init
  <2>2. Plan[o].quantity \in Nat /\ Plan[o].lotRisk \in Nat
    BY PlanAssumption DEF PlanRecord
  <2>3. RiskOf(o)
    BY <2>1, <2>2 DEF RiskOf, NoPosition
  <2> QED
    BY <2>1, <2>2, <2>3
    DEF Coherent, LinkedOf, LotsOf, BooksOf, SettledOf, ProtectedOf, SignalOf, IsWorking, Working,
        IsOpen, Open, NoOrder, NoPosition, NoTrade, NetPnl
<1> QED BY <1>1, <1>2, <1>3 DEF IInv

(* A transaction on one order keeps the books of all of them.               *)
LEMMA OneRowStep ==
  ASSUME \A x \in Orders : Coherent(x), NEW o \in Orders, KeepsCoherence(o)
  PROVE  BooksTypeOK' /\ \A x \in Orders : Coherent(x)'
BY RowsKeptCoherent DEF KeepsCoherence

(* An action that leaves the books alone leaves them coherent.              *)
LEMMA BooksUnchanged ==
  ASSUME IInv, UNCHANGED books
  PROVE  BooksTypeOK' /\ \A x \in Orders : Coherent(x)'
<1>1. \A x \in Orders : RowsKept(x)
  BY DEF books, RowsKept
<1> QED BY <1>1, RowsKeptCoherent DEF IInv, TypeOK, BooksTypeOK, books

(* One step of a phase takes its order off the work list and keeps the rest *)
(* of the list fit for the phase.                                           *)
LEMMA PhaseStep ==
  ASSUME IInv, NEW phase \in {"expire", "cancel", "monitor", "fill"}, NEW o \in Orders,
         InPhase(phase, o)
  PROVE  /\ phase = "monitor" => IsOpen(o)
         /\ phase # "monitor" => IsWorking(o)
         /\ tick.quote \in Quotes \cup {NoQuote} /\ tick.now \in Nat
         /\ tick' \in TickRow
         /\ KeepsCoherence(o) => WorkListsOK'
<1>1. o \in tick.todo /\ tick.phase = phase /\ tick' = [tick EXCEPT !.todo = @ \ {o}]
  BY DEF InPhase, NextOrders, NextPositions, Oldest
<1>2. tick \in TickRow /\ WorkListsOK
  BY DEF IInv, TypeOK
<1>3. tick' \in TickRow /\ tick'.phase = phase /\ tick'.todo = tick.todo \ {o}
  BY <1>1, <1>2 DEF TickRow
<1>4. ASSUME KeepsCoherence(o) PROVE WorkListsOK'
  <2>1. \A x \in tick'.todo : x \in Orders \ {o} /\ x \in tick.todo
    BY <1>2, <1>3 DEF TickRow
  <2>2. \A x \in tick'.todo : order'[x] = order[x] /\ position'[x] = position[x]
    BY <1>4, <2>1 DEF KeepsCoherence, RowsKept
  <2> QED BY <1>1, <1>2, <1>3, <2>1, <2>2 DEF WorkListsOK, WorkListOf, IsWorking, IsOpen
<1> QED BY <1>1, <1>2, <1>3, <1>4 DEF WorkListsOK, WorkListOf, TickRow

LEMMA WorkKeepsIInv ==
  ASSUME IInv, NEW o \in Orders, Work(o)
  PROVE  IInv'
<1>1. BooksTypeOK /\ Coherent(o)
  BY DEF IInv, TypeOK
<1>2. PICK phase \in {"expire", "cancel", "monitor", "fill"} :
        InPhase(phase, o) /\ KeepsCoherence(o)
  <2>1. CASE ExpireOne(o)
    BY <1>1, <2>1, PhaseStep, ExpireKeeps DEF ExpireOne
  <2>2. CASE CancelOne(o)
    BY <1>1, <2>2, PhaseStep, CancelKeeps DEF CancelOne
  <2>3. CASE MonitorOne(o)
    BY <1>1, <2>3, PhaseStep, MonitorKeeps DEF MonitorOne
  <2>4. CASE FillOne(o)
    BY <1>1, <2>4, PhaseStep, FillOrderKeeps DEF FillOne
  <2> QED BY <2>1, <2>2, <2>3, <2>4 DEF Work
<1>3. BooksTypeOK' /\ \A x \in Orders : Coherent(x)'
  BY <1>2, OneRowStep DEF IInv
<1>4. tick' \in TickRow /\ WorkListsOK'
  BY <1>2, PhaseStep
<1>5. UNCHANGED <<clock, bounds, quote, risk>>
  BY <1>2 DEF InPhase
<1>6. paperMode' \in BOOLEAN /\ entryPaused' \in BOOLEAN
  BY DEF Work, ExpireOne, expireOrder, CancelOne, cancelOrderForPaperOff, MonitorOne,
         monitorPosition, SkipForClockSkew, RequireReconciliation, ManagePosition, ClosePosition,
         FillOne, fillOrder, RejectForRisk, EndUnfilled, HoldOrder, ExecuteFill, control,
         IInv, TypeOK
<1> QED BY <1>3, <1>4, <1>5, <1>6 DEF IInv, TypeOK, bounds

(* Every phase of a pass starts with a work list that fits it.              *)
GoodTick(t) == t \in TickRow /\ WorkListOf(t)

LEMMA PhasesAreGood ==
  ASSUME tick \in TickRow
  PROVE  /\ GoodTick(FillPhase) /\ GoodTick(MonitorPhase) /\ GoodTick(CancelPhase)
         /\ GoodTick(ExpirePhase) /\ GoodTick(Phase("account", {}))
<1>1. ASSUME NEW name \in {"expire", "cancel", "monitor", "fill", "account"},
             NEW todo \in SUBSET Orders
      PROVE  /\ Phase(name, todo) \in TickRow
             /\ Phase(name, todo).phase = name /\ Phase(name, todo).todo = todo
  BY DEF Phase, TickRow
<1>2. WorkingOrders \in SUBSET Orders /\ OpenPositions \in SUBSET Orders
  BY DEF WorkingOrders, OpenPositions
<1>3. GoodTick(Phase("account", {}))
  BY <1>1 DEF GoodTick, WorkListOf
<1>4. GoodTick(Phase("fill", WorkingOrders))
  BY <1>1, <1>2 DEF GoodTick, WorkListOf, WorkingOrders
<1>5. GoodTick(Phase("cancel", WorkingOrders))
  BY <1>1, <1>2 DEF GoodTick, WorkListOf, WorkingOrders
<1>6. GoodTick(Phase("monitor", OpenPositions))
  BY <1>1, <1>2 DEF GoodTick, WorkListOf, OpenPositions
<1>7. GoodTick(FillPhase)
  BY <1>3, <1>4 DEF FillPhase
<1>8. GoodTick(MonitorPhase)
  BY <1>3, <1>6, <1>7 DEF MonitorPhase
<1>9. GoodTick(CancelPhase)
  BY <1>5, <1>8 DEF CancelPhase
<1>10. GoodTick(ExpirePhase)
  <2> DEFINE expired == {o \in WorkingOrders : ExpiresAt(o) <= tick.now}
  <2>1. expired \in SUBSET Orders /\ \A o \in expired : IsWorking(o)
    BY <1>2 DEF WorkingOrders
  <2> HIDE DEF expired
  <2>2. GoodTick(Phase("expire", expired))
    BY <1>1, <2>1 DEF GoodTick, WorkListOf
  <2> QED BY <1>9, <2>2 DEF ExpirePhase, expired
<1> QED BY <1>3, <1>7, <1>8, <1>9, <1>10

LEMMA WorkListKept ==
  ASSUME IInv, tick.todo = {} \/ UNCHANGED books, UNCHANGED tick
  PROVE  WorkListsOK'
BY DEF IInv, WorkListsOK, WorkListOf, books, IsWorking, IsOpen

(* Outside a pass the work list is empty.                                   *)
LEMMA NoWorkWhileFree ==
  ASSUME IInv, LoopIsFree
  PROVE  tick.todo = {}
BY DEF IInv, WorkListsOK, WorkListOf, LoopIsFree

LEMMA IdleTickGood == GoodTick(IdleTick)
BY DEF GoodTick, IdleTick, TickRow, WorkListOf

(* What all steps that do not work on an order have in common.              *)
LEMMA TickStepKeeps ==
  ASSUME IInv, GoodTick(tick'), UNCHANGED books
  PROVE  tick' \in TickRow /\ WorkListsOK' /\ BooksTypeOK' /\ \A x \in Orders : Coherent(x)'
<1>1. BooksTypeOK' /\ \A x \in Orders : Coherent(x)'
  BY BooksUnchanged
<1>2. tick' \in TickRow /\ WorkListsOK'
  BY DEF GoodTick, WorkListsOK, WorkListOf, books, IsWorking, IsOpen
<1> QED BY <1>1, <1>2

LEMMA StageKeepsIInv ==
  ASSUME IInv, NEW o \in Orders, NEW now \in ScanTimes, persistScanResult(o, now)
  PROVE  IInv'
<1>1. now \in Nat
  BY DEF IInv, TypeOK, ScanTimes, RequestTimes, TickRow
<1>2. KeepsCoherence(o)
  BY <1>1, StageKeeps DEF IInv, TypeOK
<1>3. WorkListsOK'
  BY NoWorkWhileFree, WorkListKept DEF persistScanResult
<1> QED BY <1>2, <1>3, OneRowStep DEF IInv, TypeOK, persistScanResult, bounds, control

LEMMA ManualCloseKeepsIInv ==
  ASSUME IInv, NEW o \in Orders, NEW now \in RequestTimes, closePaperPosition(o, now)
  PROVE  IInv'
<1>1. KeepsCoherence(o)
  <2>1. now \in Nat
    BY DEF RequestTimes, IInv, TypeOK
  <2> QED BY <2>1, MonitorKeeps DEF IInv, TypeOK, closePaperPosition
<1>2. WorkListsOK'
  BY NoWorkWhileFree, WorkListKept DEF closePaperPosition, Request
<1>3. paperMode' \in BOOLEAN /\ entryPaused' \in BOOLEAN
  BY DEF closePaperPosition, monitorPosition, SkipForClockSkew, RequireReconciliation,
         ManagePosition, ClosePosition, control, IInv, TypeOK
<1> QED BY <1>1, <1>2, <1>3, OneRowStep DEF IInv, TypeOK, closePaperPosition, Request

THEOREM NextKeepsIInv == IInv /\ [Next]_vars => IInv'
<1> SUFFICES ASSUME IInv, [Next]_vars PROVE IInv'
  OBVIOUS
<1>1. ASSUME UNCHANGED books, GoodTick(tick'), clock' \in Nat, setbacks' \in Nat,
             requests' \in Nat, faults' \in Nat, quote' \in Quotes \cup {NoQuote},
             paperMode' \in BOOLEAN, entryPaused' \in BOOLEAN,
             risk' \in [known : BOOLEAN, at : Nat, blocked : BOOLEAN, cap : Nat]
      PROVE  IInv'
  BY <1>1, TickStepKeeps DEF IInv, TypeOK
<1>2. GoodTick(tick)
  BY DEF IInv, TypeOK, GoodTick, WorkListsOK
<1> USE DEF IInv, TypeOK
<1>3. CASE Advance \/ StepBack
  BY <1>1, <1>2, <1>3 DEF Advance, StepBack, bounds, control
<1>4. CASE Pause \/ Resume \/ \E enabled \in BOOLEAN : SetPaperMode(enabled)
  <2>1. /\ Request /\ UNCHANGED books
        /\ paperMode' \in BOOLEAN /\ entryPaused' \in BOOLEAN
    BY <1>4 DEF Pause, Resume, SetPaperMode
  <2>2. GoodTick(tick')
    BY <1>2, <2>1 DEF Request
  <2> QED BY <1>1, <2>1, <2>2 DEF Request
<1>5. CASE \E o \in Orders : \E now \in ScanTimes : persistScanResult(o, now)
  BY <1>5, StageKeepsIInv
<1>6. CASE \E o \in Orders : \E now \in RequestTimes : closePaperPosition(o, now)
  BY <1>6, ManualCloseKeepsIInv
<1>7. CASE \E q \in Quotes : ReadMarketData(q)
  <2>1. PICK q \in Quotes : ReadMarketData(q)
    BY <1>7
  <2>2. GoodTick(tick')
    BY <1>2, <2>1 DEF ReadMarketData, GoodTick, WorkListOf, TickRow
  <2> QED BY <1>1, <2>1, <2>2 DEF ReadMarketData, bounds, control
<1>8. CASE TickBegin
  <2>1. GoodTick(tick')
    BY <1>8 DEF TickBegin, GoodTick, WorkListOf, TickRow, IdleTick
  <2> QED BY <1>1, <1>8, <2>1 DEF TickBegin, bounds, control
<1>9. CASE reconcilePaperExecution
  <2>1. GoodTick(tick')
    BY <1>9, PhasesAreGood DEF reconcilePaperExecution
  <2> QED BY <1>1, <1>9, <2>1 DEF reconcilePaperExecution, bounds, control
<1>10. CASE TickEnd
  <2>1. risk' \in [known : BOOLEAN, at : Nat, blocked : BOOLEAN, cap : Nat]
    <3>1. CASE paperMode
      <4>1. PICK blocked \in BOOLEAN, cap \in RiskCaps :
              risk' = [known |-> TRUE, at |-> tick.now, blocked |-> blocked, cap |-> cap]
        BY <1>10, <3>1 DEF TickEnd
      <4>2. cap \in Nat /\ tick.now \in Nat
        BY BoundsAssumption DEF TickRow
      <4> QED BY <4>1, <4>2
    <3>2. CASE ~paperMode
      BY <1>10, <3>2 DEF TickEnd
    <3> QED BY <3>1, <3>2
  <2>2. GoodTick(tick')
    BY <1>10, IdleTickGood DEF TickEnd
  <2>3. UNCHANGED <<clock, bounds, quote, books, control>>
    BY <1>10 DEF TickEnd
  <2> QED BY <1>1, <2>1, <2>2, <2>3 DEF bounds, control
<1>11. CASE \E o \in Orders : Work(o)
  BY <1>11, WorkKeepsIInv
<1>12. CASE TickFails
  <2>1. GoodTick(tick') /\ entryPaused' \in BOOLEAN
    BY <1>12, IdleTickGood DEF TickFails
  <2>2. UNCHANGED <<clock, setbacks, requests, quote, books, paperMode, risk>> /\ faults' \in Nat
    BY <1>12 DEF TickFails
  <2> QED BY <1>1, <2>1, <2>2
<1>13. CASE Restart
  BY <1>1, <1>13, IdleTickGood DEF Restart
<1>14. CASE UNCHANGED vars
  BY <1>1, <1>2, <1>14 DEF vars, bounds, control
<1> QED
  BY <1>3, <1>4, <1>5, <1>6, <1>7, <1>8, <1>9, <1>10, <1>11, <1>12, <1>13, <1>14
  DEF Next, TickStep

THEOREM Invariance == Spec => []IInv
BY InitIInv, NextKeepsIInv, PTL DEF Spec

(* Every variable keeps its type; in particular no remainder and no open    *)
(* quantity of the lifecycle service ever goes below zero.                  *)
THEOREM TypeCorrect == Spec => []TypeOK
<1>1. IInv => TypeOK BY DEF IInv
<1> QED BY <1>1, Invariance, PTL

(* No lot is lost or created between an order and its position.             *)
THEOREM LotsAreConserved == Spec => []LotsConserved
<1>1. IInv => LotsConserved BY DEF IInv, Coherent, LotsConserved
<1> QED BY <1>1, Invariance, PTL

(* The ledger, the totals of the position and the trade always agree.       *)
THEOREM BooksAlwaysAgree == Spec => []BooksAgree
<1>1. IInv => BooksAgree BY DEF IInv, Coherent, BooksAgree
<1> QED BY <1>1, Invariance, PTL

(* A closed position is settled as a whole, and nothing else has a trade.   *)
THEOREM ClosingIsAtomic == Spec => []ClosedIsSettled
<1>1. IInv => ClosedIsSettled BY DEF IInv, Coherent, ClosedIsSettled
<1> QED BY <1>1, Invariance, PTL

(* After TP1 the stop stays at the break-even of the position's entry.      *)
THEOREM Tp1Protects == Spec => []ProtectedAfterTp1
<1>1. IInv => ProtectedAfterTp1 BY DEF IInv, Coherent, ProtectedAfterTp1
<1> QED BY <1>1, Invariance, PTL

(* The signal always tells whether its position is open.                    *)
THEOREM SignalsAreTrue == Spec => []SignalFollowsPosition
<1>1. IInv => SignalFollowsPosition BY DEF IInv, Coherent, SignalFollowsPosition
<1> QED BY <1>1, Invariance, PTL

-----------------------------------------------------------------------------
(* What one step does to the rows.                                          *)

LEMMA WorkTransacts ==
  ASSUME IInv, NEW o \in Orders, Work(o)
  PROVE  KeepsCoherence(o)
<1>1. BooksTypeOK /\ Coherent(o)
  BY DEF IInv, TypeOK
<1>2. CASE ExpireOne(o)
  BY <1>1, <1>2, PhaseStep, ExpireKeeps DEF ExpireOne
<1>3. CASE CancelOne(o)
  BY <1>1, <1>3, PhaseStep, CancelKeeps DEF CancelOne
<1>4. CASE MonitorOne(o)
  BY <1>1, <1>4, PhaseStep, MonitorKeeps DEF MonitorOne
<1>5. CASE FillOne(o)
  BY <1>1, <1>5, PhaseStep, FillOrderKeeps DEF FillOne
<1> QED BY <1>2, <1>3, <1>4, <1>5 DEF Work

(* A step stages an order, works on one, or leaves the books alone.         *)
LEMMA StepForms ==
  ASSUME IInv, [Next]_vars
  PROVE  \/ \E o \in Orders, now \in Nat : persistScanResult(o, now) /\ KeepsCoherence(o)
         \/ \E o \in Orders : KeepsCoherence(o) /\ ~Stages(o)
         \/ UNCHANGED books
<1>1. CASE \E o \in Orders : \E now \in ScanTimes : persistScanResult(o, now)
  <2>1. PICK o \in Orders, now \in ScanTimes : persistScanResult(o, now)
    BY <1>1
  <2>2. now \in Nat
    BY DEF IInv, TypeOK, ScanTimes, RequestTimes, TickRow
  <2> QED BY <2>1, <2>2, StageKeeps DEF IInv, TypeOK
<1>2. ASSUME NEW o \in Orders, IsWorking(o) \/ IsOpen(o), Coherent(o)
      PROVE  ~Stages(o)
  BY <1>2 DEF Stages, Coherent, LinkedOf, IsWorking, Working, IsOpen, Open
<1>3. CASE \E o \in Orders : \E now \in RequestTimes : closePaperPosition(o, now)
  <2>1. PICK o \in Orders, now \in RequestTimes : closePaperPosition(o, now)
    BY <1>3
  <2>2. KeepsCoherence(o)
    <3>1. now \in Nat
      BY DEF RequestTimes, IInv, TypeOK
    <3> QED BY <2>1, <3>1, MonitorKeeps DEF IInv, TypeOK, closePaperPosition
  <2> QED BY <1>2, <2>1, <2>2 DEF IInv, closePaperPosition
<1>4. CASE \E o \in Orders : Work(o)
  <2>1. PICK o \in Orders : Work(o)
    BY <1>4
  <2>2. KeepsCoherence(o)
    BY <2>1, WorkTransacts
  <2>3. IsWorking(o) \/ IsOpen(o)
    BY <2>1, PhaseStep DEF Work, ExpireOne, CancelOne, MonitorOne, FillOne
  <2> QED BY <1>2, <2>2, <2>3 DEF IInv
<1>5. CASE \/ Advance \/ StepBack \/ TickBegin \/ reconcilePaperExecution \/ TickEnd
           \/ TickFails \/ Restart \/ \E q \in Quotes : ReadMarketData(q)
  BY <1>5 DEF Advance, StepBack, TickBegin, reconcilePaperExecution, TickEnd, TickFails, Restart,
              ReadMarketData
<1>6. CASE Pause \/ Resume \/ \E enabled \in BOOLEAN : SetPaperMode(enabled)
  BY <1>6 DEF Pause, Resume, SetPaperMode
<1>7. CASE UNCHANGED vars
  BY <1>7 DEF vars
<1> QED BY <1>1, <1>3, <1>4, <1>5, <1>6, <1>7 DEF Next, TickStep

-----------------------------------------------------------------------------
(* Refinement. *)

Stage     == [o \in Orders |-> StageOf(o)]
Unfilled  == [o \in Orders |-> order[o].remaining]
Held      == [o \in Orders |-> position[o].open]
Exited    == [o \in Orders |-> position[o].initial - position[o].open]
Protected == [o \in Orders |-> position[o].tp1Hit]

(* A row that is kept has the same image.                                   *)
LEMMA KeptImage ==
  ASSUME NEW o \in Orders, RowsKept(o)
  PROVE  /\ Stage'[o] = Stage[o] /\ Unfilled'[o] = Unfilled[o] /\ Held'[o] = Held[o]
         /\ Exited'[o] = Exited[o] /\ Protected'[o] = Protected[o]
BY DEF RowsKept, Stage, Unfilled, Held, Exited, Protected, StageOf, IsWorking, IsOpen

(* Changing the image of one order is an EXCEPT.                            *)
LEMMA OneImage ==
  ASSUME NEW o \in Orders, \A x \in Orders \ {o} : RowsKept(x)
  PROVE  /\ Stage' = [Stage EXCEPT ![o] = Stage'[o]]
         /\ Unfilled' = [Unfilled EXCEPT ![o] = Unfilled'[o]]
         /\ Held' = [Held EXCEPT ![o] = Held'[o]]
         /\ Exited' = [Exited EXCEPT ![o] = Exited'[o]]
         /\ Protected' = [Protected EXCEPT ![o] = Protected'[o]]
<1>1. \A x \in Orders \ {o} :
        /\ Stage'[x] = Stage[x] /\ Unfilled'[x] = Unfilled[x] /\ Held'[x] = Held[x]
        /\ Exited'[x] = Exited[x] /\ Protected'[x] = Protected[x]
  BY KeptImage
<1> QED BY <1>1 DEF Stage, Unfilled, Held, Exited, Protected

LEMMA TransactionRefines ==
  ASSUME IInv, NEW o \in Orders, KeepsCoherence(o)
  PROVE  [Contract!Next]_(Contract!cvars)
<1>1. /\ Stage' = [Stage EXCEPT ![o] = Stage'[o]]
      /\ Unfilled' = [Unfilled EXCEPT ![o] = Unfilled'[o]]
      /\ Held' = [Held EXCEPT ![o] = Held'[o]]
      /\ Exited' = [Exited EXCEPT ![o] = Exited'[o]]
      /\ Protected' = [Protected EXCEPT ![o] = Protected'[o]]
  BY OneImage DEF KeepsCoherence
<1>2. /\ Stage[o] = StageOf(o) /\ Stage'[o] = StageOf(o)'
      /\ Unfilled[o] = order[o].remaining /\ Unfilled'[o] = order'[o].remaining
      /\ Held[o] = position[o].open /\ Held'[o] = position'[o].open
      /\ Exited[o] = position[o].initial - position[o].open
      /\ Exited'[o] = position'[o].initial - position'[o].open
      /\ Protected[o] = position[o].tp1Hit /\ Protected'[o] = position'[o].tp1Hit
  BY DEF Stage, Unfilled, Held, Exited, Protected
<1>3. /\ DOMAIN Stage = Orders /\ DOMAIN Unfilled = Orders /\ DOMAIN Held = Orders
      /\ DOMAIN Exited = Orders /\ DOMAIN Protected = Orders
      /\ Stage = [x \in Orders |-> Stage[x]] /\ Unfilled = [x \in Orders |-> Unfilled[x]]
      /\ Held = [x \in Orders |-> Held[x]] /\ Exited = [x \in Orders |-> Exited[x]]
      /\ Protected = [x \in Orders |-> Protected[x]]
  BY DEF Stage, Unfilled, Held, Exited, Protected
<1>4. /\ order[o] \in OrderRow /\ position[o] \in PositionRow
      /\ order'[o] \in OrderRow /\ position'[o] \in PositionRow
      /\ Coherent(o) /\ Coherent(o)'
  BY DEF IInv, TypeOK, BooksTypeOK, KeepsCoherence
<1>5. /\ position[o].open \in Nat /\ position'[o].open \in Nat /\ order[o].remaining \in Nat
      /\ position[o].initial \in Nat /\ position'[o].initial \in Nat /\ order'[o].remaining \in Nat
  BY <1>4 DEF OrderRow, PositionRow
<1>6. /\ Stage'[o] = Stage[o] => Stage' = Stage
      /\ Unfilled'[o] = Unfilled[o] => Unfilled' = Unfilled
      /\ Held'[o] = Held[o] => Held' = Held
      /\ Exited'[o] = Exited[o] => Exited' = Exited
      /\ Protected'[o] = Protected[o] => Protected' = Protected
  BY <1>1, <1>3
<1>7. CASE Stages(o)
  <2>1. /\ Stage[o] = "none" /\ Stage' = [Stage EXCEPT ![o] = "live"]
        /\ Unfilled' = [Unfilled EXCEPT ![o] = Plan[o].quantity]
        /\ UNCHANGED <<Held, Exited, Protected>>
    BY <1>1, <1>2, <1>6, <1>7 DEF Stages, StageOf, IsWorking, Working, NoPosition
  <2>2. Contract!Stage(o)
    BY <2>1 DEF Contract!Stage, Stage, Unfilled, Held, Exited, Protected
  <2> QED BY <2>2 DEF Contract!Next
<1>8. CASE Fills(o)
  <2>1. PICK lots \in 1 .. order[o].remaining :
          /\ order'[o].remaining = order[o].remaining - lots
          /\ position'[o].open = position[o].open + lots
          /\ position'[o].initial = position[o].initial + lots
    BY <1>8 DEF Fills
  <2>2. Stage[o] = "live" /\ Stage'[o] = "live"
    BY <1>2, <1>4, <1>8
    DEF Fills, StageOf, IsWorking, Working, IsOpen, Open, Coherent, SettledOf
  <2>3. /\ Stage[o] = "live" /\ ~Protected[o]
        /\ lots \in 1 .. Unfilled[o]
        /\ Unfilled' = [Unfilled EXCEPT ![o] = Unfilled[o] - lots]
        /\ Held' = [Held EXCEPT ![o] = Held[o] + lots]
        /\ UNCHANGED <<Stage, Exited, Protected>>
    BY <1>1, <1>2, <1>4, <1>5, <1>6, <1>8, <2>1, <2>2 DEF Fills, PositionRow
  <2>4. Contract!Fill(o)
    BY <2>3 DEF Contract!Fill, Stage, Unfilled, Held, Exited, Protected
  <2> QED BY <2>4 DEF Contract!Next
<1>9. CASE Abandons(o)
  <2>1. /\ Stage[o] = "live" /\ order[o].remaining > 0
        /\ Stage'[o] = IF position[o].open = 0 THEN "dead" ELSE "live"
    <3>1. ~IsWorking(o)' /\ order'[o].status # "NONE" /\ position'[o] = position[o]
      BY <1>9 DEF Abandons, Ended, IsWorking, Working
    <3>2. IsWorking(o) /\ order[o].status # "NONE" /\ position[o].status # "CLOSED"
      BY <1>4, <1>9 DEF Abandons, Coherent, SettledOf, IsWorking, Working
    <3>3. IsOpen(o) <=> position[o].open # 0
      BY <1>4, <1>5, <3>2
      DEF Coherent, LinkedOf, LotsOf, IsWorking, Working, IsOpen, Open, NoPosition
    <3> QED BY <1>2, <1>4, <1>5, <3>1, <3>2, <3>3 DEF StageOf, IsOpen, Coherent, LotsOf
  <2>2. /\ Stage[o] = "live" /\ Unfilled[o] > 0
        /\ Unfilled' = [Unfilled EXCEPT ![o] = 0]
        /\ Stage' = [Stage EXCEPT ![o] = IF Held[o] = 0 THEN "dead" ELSE "live"]
        /\ UNCHANGED <<Held, Exited, Protected>>
    BY <1>1, <1>2, <1>6, <1>9, <2>1 DEF Abandons
  <2>3. Contract!Abandon(o)
    BY <2>2 DEF Contract!Abandon, Stage, Unfilled, Held, Exited, Protected
  <2> QED BY <2>3 DEF Contract!Next
<1>10. ASSUME IsOpen(o), order'[o].status \notin {"NONE", "PENDING", "PARTIAL"}
       PROVE  Stage[o] = "live" /\ position[o].open > 0 /\ order'[o].remaining = 0
  <2>1. order[o].status # "NONE" /\ position[o].status # "CLOSED"
    BY <1>4, <1>10 DEF Coherent, LinkedOf, IsOpen, Open
  <2>2. Stage[o] = "live"
    BY <1>2, <1>10, <2>1 DEF StageOf
  <2>3. position[o].open > 0
    BY <1>4, <1>5, <1>10 DEF Coherent, LotsOf
  <2>4. order'[o].remaining = 0
    BY <1>4, <1>5, <1>10 DEF Coherent, LotsOf, IsWorking, Working
  <2> QED BY <2>2, <2>3, <2>4
<1>11. CASE TakesProfit(o)
  <2>1. PICK lots \in 0 .. position[o].open - 1 : position'[o].open = position[o].open - lots
    BY <1>11 DEF TakesProfit
  <2>2. Stage'[o] = "live"
    BY <1>2, <1>11 DEF TakesProfit, StageOf, IsOpen, Open
  <2>3. /\ Stage[o] = "live" /\ ~Protected[o] /\ Held[o] > 0
        /\ lots \in 0 .. Held[o] - 1
        /\ Held' = [Held EXCEPT ![o] = Held[o] - lots]
        /\ Exited' = [Exited EXCEPT ![o] = Exited[o] + lots]
        /\ Unfilled' = [Unfilled EXCEPT ![o] = 0]
        /\ Protected' = [Protected EXCEPT ![o] = TRUE]
        /\ UNCHANGED Stage
    <3>1. /\ Exited'[o] = Exited[o] + lots /\ Held'[o] = Held[o] - lots /\ Unfilled'[o] = 0
      BY <1>2, <1>5, <1>10, <1>11, <2>1 DEF TakesProfit
    <3>2. ~Protected[o] /\ Protected'[o] = TRUE
      BY <1>2, <1>4, <1>11 DEF TakesProfit, PositionRow
    <3>3. Stage[o] = "live" /\ Held[o] > 0
      BY <1>2, <1>10, <1>11 DEF TakesProfit
    <3> QED BY <1>1, <1>2, <1>6, <2>1, <2>2, <3>1, <3>2, <3>3
  <2>4. Contract!TakeProfit(o)
    BY <2>3 DEF Contract!TakeProfit, Stage, Unfilled, Held, Exited, Protected
  <2> QED BY <2>4 DEF Contract!Next
<1>12. CASE Settles(o)
  <2>1. Stage'[o] = "settled"
    BY <1>2, <1>12 DEF Settles, StageOf
  <2>2. /\ Stage[o] = "live" /\ Held[o] > 0
        /\ Exited' = [Exited EXCEPT ![o] = Exited[o] + Held[o]]
        /\ Held' = [Held EXCEPT ![o] = 0]
        /\ Unfilled' = [Unfilled EXCEPT ![o] = 0]
        /\ Stage' = [Stage EXCEPT ![o] = "settled"]
        /\ UNCHANGED Protected
    <3>1. Exited'[o] = Exited[o] + Held[o] /\ Held'[o] = 0 /\ Unfilled'[o] = 0
      BY <1>2, <1>5, <1>10, <1>12 DEF Settles
    <3>2. Stage[o] = "live" /\ Held[o] > 0 /\ Protected'[o] = Protected[o]
      BY <1>2, <1>10, <1>12 DEF Settles
    <3> QED BY <1>1, <1>6, <2>1, <3>1, <3>2
  <2>3. Contract!Settle(o)
    BY <2>2 DEF Contract!Settle, Stage, Unfilled, Held, Exited, Protected
  <2> QED BY <2>3 DEF Contract!Next
<1>13. CASE Rests(o)
  <2>1. UNCHANGED <<Stage, Unfilled, Held, Exited, Protected>>
    BY <1>2, <1>6, <1>13 DEF Rests, StageOf, IsWorking, IsOpen
  <2> QED BY <2>1 DEF Contract!cvars, Stage, Unfilled, Held, Exited, Protected
<1> QED BY <1>7, <1>8, <1>9, <1>11, <1>12, <1>13 DEF KeepsCoherence, FlowStep

LEMMA StepRefines ==
  ASSUME IInv, [Next]_vars
  PROVE  [Contract!Next]_(Contract!cvars)
<1>1. CASE UNCHANGED books
  BY <1>1 DEF books, Contract!cvars, StageOf, IsWorking, IsOpen
<1>2. CASE \E o \in Orders : KeepsCoherence(o)
  BY <1>2, TransactionRefines
<1> QED BY <1>1, <1>2, StepForms

LEMMA InitRefines == Init => Contract!Init
BY DEF Init, Contract!Init, StageOf, IsWorking, Working, IsOpen, Open, NoOrder, NoPosition

(* The lifecycle service implements the contract: whatever quotes, faults,  *)
(* restarts, requests and clocks do, the lots of an order flow one way, the *)
(* first exit ends the filling, and the trade is settled once.              *)
THEOREM Implements == Spec => ImplementsContract
<1>1. Init => Contract!Init
  BY InitRefines
<1>2. IInv /\ [Next]_vars => [Contract!Next]_(Contract!cvars)
  BY StepRefines
<1> QED BY <1>1, <1>2, Invariance, PTL DEF Spec, ImplementsContract, Contract!Spec

-----------------------------------------------------------------------------
(* One exposure per side. *)

(* Apart from staging, a transaction exposes nothing that was not exposed.  *)
LEMMA OnlyStagingExposes ==
  ASSUME IInv, NEW o \in Orders, KeepsCoherence(o), ~Stages(o),
         IsWorking(o)' \/ IsOpen(o)'
  PROVE  IsWorking(o) \/ IsOpen(o)
BY DEF KeepsCoherence, FlowStep, Fills, Abandons, TakesProfit, Settles, Rests, IsWorking, Working,
       IsOpen, Open, Ended

LEMMA KeptExposure ==
  ASSUME NEW o \in Orders, RowsKept(o)
  PROVE  (IsWorking(o)' \/ IsOpen(o)') = (IsWorking(o) \/ IsOpen(o))
BY DEF RowsKept, IsWorking, IsOpen

LEMMA ExposureStep ==
  ASSUME IInv, OneExposurePerSide, [Next]_vars
  PROVE  OneExposurePerSide'
<1> SUFFICES ASSUME NEW o \in Orders, NEW p \in Orders, o # p, Plan[o].side = Plan[p].side,
                    IsWorking(o)' \/ IsOpen(o)', IsWorking(p)' \/ IsOpen(p)'
             PROVE  FALSE
  BY DEF OneExposurePerSide
<1>1. CASE \E x \in Orders, now \in Nat : persistScanResult(x, now) /\ KeepsCoherence(x)
  <2>1. PICK x \in Orders, now \in Nat : persistScanResult(x, now) /\ KeepsCoherence(x)
    BY <1>1
  <2>2. \A y \in Orders \ {x} : IsWorking(y)' \/ IsOpen(y)' => IsWorking(y) \/ IsOpen(y)
    BY <2>1, KeptExposure DEF KeepsCoherence
  <2>3. \A y \in Orders : Plan[y].side = Plan[x].side => ~(IsWorking(y) \/ IsOpen(y))
    BY <2>1 DEF persistScanResult, Exposed
  <2> QED BY <2>2, <2>3 DEF OneExposurePerSide
<1>2. CASE \E x \in Orders : KeepsCoherence(x) /\ ~Stages(x)
  <2>1. PICK x \in Orders : KeepsCoherence(x) /\ ~Stages(x)
    BY <1>2
  <2>2. \A y \in Orders : IsWorking(y)' \/ IsOpen(y)' => IsWorking(y) \/ IsOpen(y)
    BY <2>1, KeptExposure, OnlyStagingExposes DEF KeepsCoherence
  <2> QED BY <2>2 DEF OneExposurePerSide
<1>3. CASE UNCHANGED books
  BY <1>3 DEF books, OneExposurePerSide, IsWorking, IsOpen
<1> QED BY <1>1, <1>2, <1>3, StepForms

(* One side of the market never carries two working orders or positions.    *)
THEOREM OneExposure == Spec => []OneExposurePerSide
<1>1. Init => OneExposurePerSide
  BY DEF Init, OneExposurePerSide, IsWorking, Working, IsOpen, Open, NoOrder, NoPosition
<1>2. IInv /\ OneExposurePerSide /\ [Next]_vars => OneExposurePerSide'
  BY ExposureStep
<1> QED BY <1>1, <1>2, Invariance, PTL DEF Spec

-----------------------------------------------------------------------------
(* Fills. *)

(* A matching verdict means the order is neither expired nor young, and     *)
(* the quote was not matched before.                                        *)
LEMMA MatchMeans ==
  ASSUME NEW o \in Orders, NEW q, NEW now, FillVerdict(o, q, now) \in {"PARTIAL", "FILLED"}
  PROVE  /\ ~(now >= ExpiresAt(o)) /\ ~AlreadyMatched(o, q)
         /\ ~TooEarly(order[o].createdAt, q, now)
<1>1. matchPendingOrder(Plan[o], order[o].remaining, order[o].createdAt, ExpiresAt(o), q, now)
        \in {"PARTIAL", "FILLED"}
      /\ ~(now >= ExpiresAt(o)) /\ ~AlreadyMatched(o, q)
  BY DEF FillVerdict
<1> QED BY <1>1 DEF matchPendingOrder

(* Managing a position changes neither what was filled into it nor at what  *)
(* price.                                                                   *)
LEMMA MonitorFillsNothing ==
  ASSUME BooksTypeOK, NEW o \in Orders, Coherent(o), IsOpen(o),
         NEW q \in Quotes \cup {NoQuote}, NEW now \in Nat, NEW manualClose \in BOOLEAN,
         monitorPosition(o, q, now, manualClose)
  PROVE  /\ position'[o].initial = position[o].initial
         /\ position'[o].entry = position[o].entry
<1> DEFINE r == managePaperPosition(Plan[o], position[o], q, manualClose)
<1>1. Outcome(r, Plan[o].side, position[o])
  <2>1. position[o] \in PositionRow /\ position[o].open > 0 /\ Plan[o] \in PlanRecord
    BY PlanAssumption DEF BooksTypeOK, Coherent, LotsOf, PositionRow
  <2> QED BY <2>1, ManageOutcome
<1> HIDE DEF r
<1>2. /\ Managed(o, r, now).initial = position[o].initial
      /\ Managed(o, r, now).entry = position[o].entry
  BY DEF BooksTypeOK, Managed, PositionRow
<1>3. position' \in {position, [position EXCEPT ![o] = Managed(o, r, now)]}
  BY DEF monitorPosition, SkipForClockSkew, RequireReconciliation, ManagePosition, ClosePosition,
         books, r
<1> QED BY <1>2, <1>3 DEF BooksTypeOK

(* Only a match of the fill phase adds lots to a position or sets its price. *)
LEMMA OnlyMatchesFill ==
  ASSUME IInv, [Next]_vars, NEW o \in Orders,
         position'[o].initial # position[o].initial \/ position'[o].entry # position[o].entry
  PROVE  /\ tick.phase = "fill" /\ KeepsCoherence(o) /\ IsWorking(o)
         /\ ExecuteFill(o, FillVerdict(o, tick.quote, tick.now), tick.quote, tick.now)
<1>1. BooksTypeOK /\ Coherent(o)
  BY DEF IInv, TypeOK
<1>2. position'[o].initial # position[o].initial \/ position'[o].entry # position[o].entry
  OBVIOUS
<1>3. CASE \E x \in Orders : \E now \in ScanTimes : persistScanResult(x, now)
  BY <1>2, <1>3 DEF persistScanResult
<1>4. CASE \E x \in Orders : \E now \in RequestTimes : closePaperPosition(x, now)
  <2>1. PICK x \in Orders, now \in RequestTimes : closePaperPosition(x, now)
    BY <1>4
  <2>2. now \in Nat
    BY DEF RequestTimes, IInv, TypeOK
  <2>3. monitorPosition(x, quote, now, TRUE) /\ IsOpen(x) /\ Coherent(x)
    BY <2>1 DEF closePaperPosition, IInv
  <2>4. x = o
    BY <1>1, <1>2, <2>2, <2>3, MonitorKeeps DEF IInv, TypeOK, KeepsCoherence, RowsKept
  <2> QED BY <1>1, <1>2, <2>2, <2>3, <2>4, MonitorFillsNothing DEF IInv, TypeOK
<1>5. CASE \E x \in Orders : Work(x)
  <2>1. PICK x \in Orders : Work(x)
    BY <1>5
  <2>2. x = o /\ KeepsCoherence(o)
    BY <1>2, <2>1, WorkTransacts DEF KeepsCoherence, RowsKept
  <2>3. ~ExpireOne(o) /\ ~CancelOne(o)
    BY <1>2 DEF ExpireOne, expireOrder, CancelOne, cancelOrderForPaperOff
  <2>4. ~MonitorOne(o)
    BY <1>1, <1>2, PhaseStep, MonitorFillsNothing DEF MonitorOne
  <2>5. FillOne(o) /\ IsWorking(o)
    BY <2>1, <2>2, <2>3, <2>4, PhaseStep DEF Work, FillOne
  <2> QED BY <1>2, <2>2, <2>5
          DEF FillOne, InPhase, fillOrder, RejectForRisk, EndUnfilled, HoldOrder, books
<1>6. CASE \/ Advance \/ StepBack \/ TickBegin \/ reconcilePaperExecution \/ TickEnd
           \/ TickFails \/ Restart \/ \E q \in Quotes : ReadMarketData(q)
  BY <1>2, <1>6 DEF Advance, StepBack, TickBegin, reconcilePaperExecution, TickEnd, TickFails,
                    Restart, ReadMarketData, books
<1>7. CASE Pause \/ Resume \/ \E enabled \in BOOLEAN : SetPaperMode(enabled)
  BY <1>2, <1>7 DEF Pause, Resume, SetPaperMode, books
<1>8. CASE UNCHANGED vars
  BY <1>2, <1>8 DEF vars, books
<1> QED BY <1>3, <1>4, <1>5, <1>6, <1>7, <1>8 DEF Next, TickStep

(* A fill phase is entered with paper mode on, and no request is served     *)
(* before it ends.                                                          *)
FillsInPaperMode == tick.phase = "fill" => paperMode

LEMMA WorkKeepsMode ==
  ASSUME NEW o \in Orders, Work(o), IInv
  PROVE  paperMode' = paperMode /\ tick'.phase = tick.phase
<1>1. tick'.phase = tick.phase
  BY DEF Work, ExpireOne, CancelOne, MonitorOne, FillOne, InPhase, IInv, TypeOK, TickRow
<1>2. paperMode' = paperMode
  BY DEF Work, ExpireOne, expireOrder, CancelOne, cancelOrderForPaperOff, MonitorOne,
         monitorPosition, SkipForClockSkew, RequireReconciliation, ManagePosition, ClosePosition,
         FillOne, fillOrder, RejectForRisk, EndUnfilled, HoldOrder, ExecuteFill, control
<1> QED BY <1>1, <1>2

LEMMA PhasesRespectMode ==
  ASSUME tick \in TickRow, reconcilePaperExecution
  PROVE  tick'.phase = "fill" => paperMode
<1>1. \A name, todo : Phase(name, todo).phase = name
  BY DEF Phase, TickRow
<1>2. FillPhase.phase = "fill" => paperMode
  BY <1>1 DEF FillPhase
<1>3. MonitorPhase.phase = "fill" => paperMode
  BY <1>1, <1>2 DEF MonitorPhase
<1>4. CancelPhase.phase = "fill" => paperMode
  BY <1>1, <1>3 DEF CancelPhase
<1>5. ExpirePhase.phase = "fill" => paperMode
  BY <1>1, <1>4 DEF ExpirePhase
<1> QED BY <1>1, <1>2, <1>3, <1>4, <1>5 DEF reconcilePaperExecution

LEMMA ModeStep ==
  ASSUME IInv, FillsInPaperMode, [Next]_vars
  PROVE  FillsInPaperMode'
<1> USE DEF FillsInPaperMode
<1>1. CASE \E o \in Orders : Work(o)
  BY <1>1, WorkKeepsMode
<1>2. CASE reconcilePaperExecution
  BY <1>2, PhasesRespectMode DEF IInv, TypeOK, reconcilePaperExecution, control
<1>3. CASE TickBegin \/ TickEnd \/ TickFails \/ Restart
  <2>1. IdleTick.phase = "idle" /\ [IdleTick EXCEPT !.phase = "awaiting", !.now = clock].phase # "fill"
    BY DEF IdleTick
  <2>2. tick' \in {IdleTick, [IdleTick EXCEPT !.phase = "awaiting", !.now = clock]}
    BY <1>3 DEF TickBegin, TickEnd, TickFails, Restart
  <2> QED BY <2>1, <2>2
<1>4. CASE \E q \in Quotes : ReadMarketData(q)
  BY <1>4 DEF ReadMarketData, IInv, TypeOK, TickRow
<1>5. CASE Pause \/ Resume \/ \E enabled \in BOOLEAN : SetPaperMode(enabled)
  BY <1>5 DEF Pause, Resume, SetPaperMode, Request, LoopIsFree
<1>6. CASE \E o \in Orders : \/ \E now \in ScanTimes : persistScanResult(o, now)
                             \/ \E now \in RequestTimes : closePaperPosition(o, now)
  BY <1>6 DEF persistScanResult, closePaperPosition, Request, LoopIsFree
<1>7. CASE Advance \/ StepBack \/ UNCHANGED vars
  BY <1>7 DEF Advance, StepBack, vars, control
<1> QED BY <1>1, <1>2, <1>3, <1>4, <1>5, <1>6, <1>7 DEF Next, TickStep

LEMMA FillIsFresh ==
  ASSUME IInv, FillsInPaperMode, [Next]_vars, NEW o \in Orders,
         position'[o].initial > position[o].initial
  PROVE  /\ tick.quote.observedAt >= order[o].createdAt + FillLatency
         /\ tick.now < ExpiresAt(o)
         /\ position[o].initial > 0 => tick.quote.observedAt > position[o].lastFillAt
         /\ position'[o].open - position[o].open = position'[o].initial - position[o].initial
         /\ paperMode /\ position[o].status # "CLOSED"
<1> DEFINE q   == tick.quote
           now == tick.now
<1>1. /\ tick.phase = "fill" /\ KeepsCoherence(o)
      /\ ExecuteFill(o, FillVerdict(o, q, now), q, now)
  <2>1. position'[o].initial # position[o].initial
    <3>1. position[o].initial \in Nat
      BY DEF IInv, TypeOK, BooksTypeOK, PositionRow
    <3> QED BY <3>1
  <2> QED BY <2>1, OnlyMatchesFill
<1>2. /\ position[o] \in PositionRow /\ position'[o] \in PositionRow /\ order[o] \in OrderRow
      /\ now \in Nat /\ q \in Quotes \cup {NoQuote}
      /\ Coherent(o)
  BY <1>1 DEF IInv, TypeOK, BooksTypeOK, TickRow, KeepsCoherence
<1>3. /\ position[o].initial \in Nat /\ position[o].open \in Nat /\ position[o].lastFillAt \in Nat
      /\ position'[o].initial \in Nat /\ position'[o].open \in Nat
      /\ order[o].createdAt \in Nat /\ q.observedAt \in Nat
  BY <1>2 DEF PositionRow, OrderRow, Quotes, NoQuote
<1>4. ~(now >= ExpiresAt(o)) /\ ~AlreadyMatched(o, q) /\ ~TooEarly(order[o].createdAt, q, now)
  BY <1>1, MatchMeans DEF ExecuteFill
<1>5. now < ExpiresAt(o)
  BY <1>2, <1>3, <1>4, BoundsAssumption DEF ExpiresAt
<1>6. q.observedAt >= order[o].createdAt + FillLatency
  BY <1>3, <1>4, CostsAssumption DEF TooEarly
<1>7. position[o].initial > 0 => q.observedAt > position[o].lastFillAt
  <2>1. position[o].initial > 0 => position[o].status # "NONE"
    BY <1>2 DEF Coherent, LinkedOf, NoPosition
  <2> QED BY <1>3, <1>4, <2>1 DEF AlreadyMatched
<1>8. Fills(o)
  BY <1>1, <1>3
  DEF KeepsCoherence, FlowStep, Stages, Abandons, TakesProfit, Settles, Rests, NoPosition
<1>9. position'[o].open - position[o].open = position'[o].initial - position[o].initial
  <2>1. PICK lots \in 1 .. order[o].remaining :
          /\ position'[o].open = position[o].open + lots
          /\ position'[o].initial = position[o].initial + lots
    BY <1>8 DEF Fills
  <2> QED BY <1>3, <2>1
<1>10. position[o].status # "CLOSED"
  BY <1>2, <1>8 DEF Fills, Coherent, SettledOf
<1> QED BY <1>1, <1>5, <1>6, <1>7, <1>9, <1>10 DEF FillsInPaperMode

(* No order is filled twice on a quote, on a quote older than its last fill *)
(* or its own latency, after its expiry, after a close, or while paper mode *)
(* is off.                                                                  *)
THEOREM FillsAreAlwaysFresh == Spec => FillsAreFresh
<1>1. Init => FillsInPaperMode
  BY DEF Init, FillsInPaperMode
<1>2. IInv /\ FillsInPaperMode /\ [Next]_vars => FillsInPaperMode'
  BY ModeStep
<1>3. IInv /\ FillsInPaperMode /\ [Next]_vars =>
        [\A o \in Orders :
           position'[o].initial > position[o].initial =>
             /\ tick.quote.observedAt >= order[o].createdAt + FillLatency
             /\ tick.now < ExpiresAt(o)
             /\ position[o].initial > 0 => tick.quote.observedAt > position[o].lastFillAt
             /\ position'[o].open - position[o].open = position'[o].initial - position[o].initial
             /\ paperMode /\ position[o].status # "CLOSED"]_vars
  BY FillIsFresh
<1> QED BY <1>1, <1>2, <1>3, Invariance, PTL DEF Spec, FillsAreFresh

-----------------------------------------------------------------------------
(* Sums over the orders.  The fold of the community modules is a recursive  *)
(* function on the subsets of a set.                                        *)

First(S) == CHOOSE x \in S : TRUE
SumOf(g, f, T) == IF T = {} THEN 0 ELSE f[First(T)] + g[T \ {First(T)}]

Small(S, n) == {T \in SUBSET S : Cardinality(T) <= n}

LEMMA FirstIsMember ==
  ASSUME NEW T, T # {}
  PROVE  First(T) \in T
BY DEF First

(* What is left of a small set without its first element is smaller.        *)
LEMMA SmallerRest ==
  ASSUME NEW S, IsFiniteSet(S), NEW n \in Nat, NEW T \in Small(S, n), T # {}
  PROVE  n - 1 \in Nat /\ T \ {First(T)} \in Small(S, n - 1)
<1>1. T \in SUBSET S /\ IsFiniteSet(T) /\ Cardinality(T) <= n
  BY FS_Subset DEF Small
<1>2. First(T) \in T
  BY FirstIsMember
<1>3. IsFiniteSet(T \ {First(T)}) /\ Cardinality(T \ {First(T)}) = Cardinality(T) - 1
  BY <1>1, <1>2, FS_RemoveElement
<1>4. Cardinality(T) \in Nat /\ Cardinality(T \ {First(T)}) \in Nat
  BY <1>1, <1>3, FS_CardinalityType
<1> QED BY <1>1, <1>3, <1>4 DEF Small

(* The recursive function exists on the subsets of any size.                *)
LEMMA PartialSums ==
  ASSUME NEW S, IsFiniteSet(S), NEW f \in [S -> Int]
  PROVE  \A n \in Nat : \E g \in [Small(S, n) -> Int] :
           \A T \in Small(S, n) : g[T] = SumOf(g, f, T)
<1> DEFINE Has(n) == \E g \in [Small(S, n) -> Int] : \A T \in Small(S, n) : g[T] = SumOf(g, f, T)
           Lacking == {n \in Nat : ~Has(n)}
<1> SUFFICES ASSUME Lacking # {} PROVE FALSE
  OBVIOUS
<1>1. PICK n \in Lacking : \A m \in Lacking : ~(<<m, n>> \in OpToRel(<, Nat))
  <2>1. Lacking \subseteq Nat OBVIOUS
  <2> HIDE DEF Lacking
  <2> QED BY <2>1, NatLessThanWellFounded, WFMin, Zenon
<1>2. n \in Nat /\ ~Has(n)
  OBVIOUS
<1>3. ASSUME NEW m \in Nat, m < n PROVE Has(m)
  <2> HIDE DEF Has
  <2>1. <<m, n>> \in OpToRel(<, Nat)
    BY <1>2, <1>3 DEF OpToRel
  <2> QED BY <1>1, <2>1
<1>4. ASSUME NEW T \in Small(S, n), T # {}
      PROVE  First(T) \in S /\ n - 1 \in Nat /\ T \ {First(T)} \in Small(S, n - 1)
  BY <1>2, <1>4, SmallerRest, FirstIsMember DEF Small
<1>5. CASE n = 0
  <2>1. \A T \in Small(S, n) : T = {}
    <3> SUFFICES ASSUME NEW T \in Small(S, n), T # {} PROVE FALSE
      OBVIOUS
    <3> QED BY <1>4, <1>5
  <2> DEFINE g == [T \in Small(S, n) |-> 0]
  <2>2. g \in [Small(S, n) -> Int] /\ \A T \in Small(S, n) : g[T] = SumOf(g, f, T)
    BY <2>1 DEF SumOf
  <2> QED BY <1>2, <2>2
<1>6. CASE n # 0
  <2>1. n - 1 \in Nat /\ n - 1 < n
    BY <1>2, <1>6
  <2>2. PICK g \in [Small(S, n - 1) -> Int] :
          \A T \in Small(S, n - 1) : g[T] = SumOf(g, f, T)
    BY <1>3, <2>1
  <2> DEFINE h == [T \in Small(S, n) |-> SumOf(g, f, T)]
  <2>3. h \in [Small(S, n) -> Int]
    <3> SUFFICES ASSUME NEW T \in Small(S, n) PROVE SumOf(g, f, T) \in Int
      OBVIOUS
    <3>1. T # {} => f[First(T)] \in Int /\ g[T \ {First(T)}] \in Int
      BY <1>4
    <3> QED BY <3>1 DEF SumOf
  <2>4. ASSUME NEW T \in Small(S, n) PROVE h[T] = SumOf(h, f, T)
    <3>1. T # {} => T \ {First(T)} \in Small(S, n) /\ h[T \ {First(T)}] = g[T \ {First(T)}]
      <4>1. Small(S, n - 1) \subseteq Small(S, n)
        <5> SUFFICES ASSUME NEW U \in Small(S, n - 1) PROVE U \in Small(S, n)
          OBVIOUS
        <5>1. U \in SUBSET S /\ Cardinality(U) \in Nat /\ Cardinality(U) <= n - 1
          BY FS_Subset, FS_CardinalityType DEF Small
        <5> QED BY <1>2, <5>1 DEF Small
      <4> QED BY <1>4, <2>2, <4>1
    <3> QED BY <3>1 DEF SumOf
  <2> HIDE DEF h
  <2> QED BY <1>2, <2>3, <2>4
<1> QED BY <1>5, <1>6

SumsUp(g, f, S) ==
  /\ g = [T \in SUBSET S |-> g[T]]
  /\ \A T \in SUBSET S : g[T] = SumOf(g, f, T)

LEMMA SumExists ==
  ASSUME NEW S, IsFiniteSet(S), NEW f \in [S -> Int]
  PROVE  \E g : SumsUp(g, f, S)
<1>1. Cardinality(S) \in Nat
  BY FS_CardinalityType
<1>2. Small(S, Cardinality(S)) = SUBSET S
  BY FS_Subset DEF Small
<1>3. PICK g \in [Small(S, Cardinality(S)) -> Int] :
          \A T \in Small(S, Cardinality(S)) : g[T] = SumOf(g, f, T)
  <2>1. \A n \in Nat : \E g \in [Small(S, n) -> Int] :
          \A T \in Small(S, n) : g[T] = SumOf(g, f, T)
    BY PartialSums
  <2> QED BY <1>1, <2>1
<1> QED BY <1>2, <1>3 DEF SumsUp

(* Among some subsets of a finite set there is one that contains no other.  *)
LEMMA SmallestSet ==
  ASSUME NEW S, IsFiniteSet(S), NEW Some \in SUBSET SUBSET S, Some # {}
  PROVE  \E T \in Some : \A U \in SUBSET T : U # T => U \notin Some
<1>1. Some \subseteq FiniteSubsetsOf(S)
  BY FS_Subset DEF FiniteSubsetsOf
<1>2. PICK T \in Some : \A U \in Some : ~(<<U, T>> \in StrictSubsetOrdering(S))
  BY <1>1, FS_StrictSubsetOrderingWellFounded, WFMin, Zenon
<1>3. \A U \in Some : U \subseteq T => U = T
  BY <1>2 DEF StrictSubsetOrdering
<1> QED BY <1>3

(* A sum of smaller terms is not larger.                                    *)
LEMMA SumsInOrder ==
  ASSUME NEW S, IsFiniteSet(S), NEW f \in [S -> Int], NEW e \in [S -> Int],
         \A x \in S : f[x] <= e[x],
         NEW g, SumsUp(g, f, S), NEW h, SumsUp(h, e, S)
  PROVE  g[S] <= h[S]
<1> DEFINE Wrong == {T \in SUBSET S : ~(g[T] \in Int /\ h[T] \in Int /\ g[T] <= h[T])}
<1> SUFFICES ASSUME Wrong # {} PROVE FALSE
  OBVIOUS
<1>1. PICK T \in Wrong : \A U \in SUBSET T : U # T => U \notin Wrong
  <2>1. Wrong \in SUBSET SUBSET S OBVIOUS
  <2> HIDE DEF Wrong
  <2> QED BY <2>1, SmallestSet
<1>2. T \in SUBSET S /\ g[T] = SumOf(g, f, T) /\ h[T] = SumOf(h, e, T)
  BY DEF SumsUp
<1>3. T # {}
  BY <1>2 DEF SumOf
<1> DEFINE x == First(T)
           U == T \ {First(T)}
<1>4. x \in S /\ U \in SUBSET S /\ U \in SUBSET T /\ U # T
  BY <1>2, <1>3, FirstIsMember
<1>5. g[U] \in Int /\ h[U] \in Int /\ g[U] <= h[U]
  BY <1>1, <1>4
<1>6. g[T] = f[x] + g[U] /\ h[T] = e[x] + h[U]
  BY <1>2, <1>3 DEF SumOf
<1>7. f[x] \in Int /\ e[x] \in Int /\ f[x] <= e[x]
  BY <1>4
<1> HIDE DEF x, U
<1> QED BY <1>5, <1>6, <1>7

(* The risk of each order, and calculatePaperOpenRisk as the sum of it.     *)
RiskTaken == [o \in Orders |-> PendingRisk(o) + PositionRisk(o)]

LEMMA OpenRiskIsSum ==
  RiskTaken \in [Orders -> Int] =>
    \E g : SumsUp(g, RiskTaken, Orders) /\ calculatePaperOpenRisk = g[Orders]
<1> SUFFICES ASSUME RiskTaken \in [Orders -> Int]
             PROVE  \E g : SumsUp(g, RiskTaken, Orders) /\ calculatePaperOpenRisk = g[Orders]
  OBVIOUS
<1> DEFINE Body(g) ==
             [T \in SUBSET Orders |->
                IF T = {} THEN 0
                ELSE PendingRisk(CHOOSE x \in T : TRUE) + PositionRisk(CHOOSE x \in T : TRUE)
                       + g[T \ {CHOOSE x \in T : TRUE}]]
           it == CHOOSE g : g = Body(g)
<1>1. calculatePaperOpenRisk = it[Orders]
  BY DEF calculatePaperOpenRisk, MapThenSumSet, MapThenFoldSet
<1>2. \A g : \A T \in SUBSET Orders : Body(g)[T] = SumOf(g, RiskTaken, T)
  <2> SUFFICES ASSUME NEW g, NEW T \in SUBSET Orders
               PROVE  Body(g)[T] = SumOf(g, RiskTaken, T)
    OBVIOUS
  <2>1. T # {} => First(T) \in Orders
    BY FirstIsMember
  <2> QED BY <2>1 DEF SumOf, RiskTaken, First
<1>3. PICK g : SumsUp(g, RiskTaken, Orders)
  BY PlanAssumption, SumExists
<1>4. g = Body(g)
  <2>1. \A T \in SUBSET Orders : g[T] = Body(g)[T]
    BY <1>2, <1>3 DEF SumsUp
  <2>2. g = [T \in SUBSET Orders |-> g[T]]
    BY <1>3 DEF SumsUp
  <2>3. Body(g) = [T \in SUBSET Orders |-> Body(g)[T]]
    OBVIOUS
  <2> HIDE DEF Body
  <2> QED BY <2>1, <2>2, <2>3
<1>5. it = Body(it)
  <2> HIDE DEF Body
  <2> QED BY <1>4, Zenon
<1>6. SumsUp(it, RiskTaken, Orders)
  <2>1. it = [T \in SUBSET Orders |-> it[T]]
    <3>1. Body(it) = [T \in SUBSET Orders |-> Body(it)[T]]
      OBVIOUS
    <3> HIDE DEF Body, it
    <3> QED BY <1>5, <3>1
  <2>2. \A T \in SUBSET Orders : it[T] = SumOf(it, RiskTaken, T)
    <3> HIDE DEF Body, it
    <3> QED BY <1>2, <1>5
  <2> HIDE DEF it
  <2> QED BY <2>1, <2>2 DEF SumsUp
<1> HIDE DEF it
<1> QED BY <1>1, <1>6

-----------------------------------------------------------------------------
(* Open risk. *)

(* The lots of an order that the account still answers for.                 *)
Exposure(o) == order[o].remaining + position[o].open

(* A share of a risk that was booked per lot is the risk of the share.      *)
LEMMA ProRata ==
  ASSUME NEW perLot \in Nat, NEW initial \in Nat \ {0}, NEW open \in Nat
  PROVE  ((perLot * initial) * open) \div initial = perLot * open
<1> DEFINE part == perLot * open
<1>1. part \in Nat /\ (perLot * initial) * open = part * initial
  OBVIOUS
<1> HIDE DEF part
<1>2. (part * initial) \div initial = part
  BY <1>1
<1> QED BY <1>1, <1>2 DEF part

(* The risk of an order is that of its unfilled and its open lots.          *)
RiskIsByLots == \A o \in Orders : RiskTaken[o] = Plan[o].lotRisk * Exposure(o)

LEMMA RiskOfLots == IInv => RiskIsByLots /\ RiskTaken \in [Orders -> Int]
<1> SUFFICES ASSUME IInv, NEW o \in Orders
             PROVE  RiskTaken[o] = Plan[o].lotRisk * Exposure(o) /\ RiskTaken[o] \in Int
  BY DEF RiskIsByLots, RiskTaken
<1>1. Coherent(o) /\ order[o] \in OrderRow /\ position[o] \in PositionRow
  BY DEF IInv, TypeOK, BooksTypeOK
<1>2. Plan[o].lotRisk \in Nat
  BY PlanAssumption DEF PlanRecord
<1>3. order[o].remaining \in Nat /\ position[o].open \in Nat /\ position[o].initial \in Nat
  BY <1>1 DEF OrderRow, PositionRow
<1>4. PendingRisk(o) = Plan[o].lotRisk * order[o].remaining
  <2>1. ~IsWorking(o) => order[o].remaining = 0
    BY <1>1, <1>3 DEF Coherent, LotsOf
  <2> QED BY <1>2, <2>1 DEF PendingRisk
<1>5. PositionRisk(o) = Plan[o].lotRisk * position[o].open
  <2>1. CASE IsOpen(o)
    <3>1. position[o].initial \in Nat \ {0}
      BY <1>1, <1>3, <2>1 DEF Coherent, LotsOf
    <3>2. position[o].initialRisk = Plan[o].lotRisk * position[o].initial
      BY <1>1 DEF Coherent, RiskOf
    <3> QED BY <1>2, <1>3, <2>1, <3>1, <3>2, ProRata DEF PositionRisk
  <2>2. CASE ~IsOpen(o)
    <3>1. position[o].open = 0
      BY <1>1, <2>2 DEF Coherent, LinkedOf, SettledOf, IsOpen, Open, NoPosition, PositionRow
    <3> QED BY <1>2, <2>2, <3>1 DEF PositionRisk
  <2> QED BY <2>1, <2>2
<1>6. RiskTaken[o] = Plan[o].lotRisk * order[o].remaining + Plan[o].lotRisk * position[o].open
  BY <1>4, <1>5 DEF RiskTaken
<1> QED BY <1>2, <1>3, <1>6 DEF Exposure

(* No transaction but staging adds to the lots of an order.                 *)
LEMMA ExposureFalls ==
  ASSUME IInv, NEW o \in Orders, BooksTypeOK', Coherent(o)', FlowStep(o), ~Stages(o)
  PROVE  Exposure(o)' <= Exposure(o)
<1>1. /\ order[o].remaining \in Nat /\ position[o].open \in Nat
      /\ order'[o].remaining \in Nat /\ position'[o].open \in Nat
  BY DEF IInv, TypeOK, BooksTypeOK, OrderRow, PositionRow
<1>2. order'[o].status \notin {"NONE", "PENDING", "PARTIAL"} => order'[o].remaining = 0
  BY <1>1 DEF Coherent, LotsOf, IsWorking, Working
<1>3. CASE Fills(o)
  BY <1>1, <1>3 DEF Fills, Exposure
<1>4. CASE Abandons(o)
  BY <1>1, <1>4 DEF Abandons, Exposure
<1>5. CASE TakesProfit(o)
  BY <1>1, <1>2, <1>5 DEF TakesProfit, Exposure
<1>6. CASE Settles(o)
  BY <1>1, <1>2, <1>6 DEF Settles, Exposure
<1>7. CASE Rests(o)
  BY <1>1, <1>7 DEF Rests, Exposure
<1> QED BY <1>3, <1>4, <1>5, <1>6, <1>7 DEF FlowStep

LEMMA RiskFalls ==
  ASSUME IInv, IInv', [Next]_vars,
         \A o \in Orders : order[o].status = "NONE" => order'[o].status = "NONE"
  PROVE  calculatePaperOpenRisk' <= calculatePaperOpenRisk
<1>1. \A o \in Orders : Exposure(o)' <= Exposure(o)
  <2>1. ASSUME NEW o \in Orders, KeepsCoherence(o), ~Stages(o)
        PROVE  \A x \in Orders : Exposure(x)' <= Exposure(x)
    <3>1. Exposure(o)' <= Exposure(o)
      BY <2>1, ExposureFalls DEF KeepsCoherence
    <3>2. \A x \in Orders \ {o} : Exposure(x)' = Exposure(x) /\ Exposure(x) \in Nat
      BY <2>1 DEF KeepsCoherence, RowsKept, Exposure, IInv, TypeOK, BooksTypeOK, OrderRow, PositionRow
    <3> QED BY <3>1, <3>2
  <2>2. ASSUME NEW o \in Orders, Stages(o)
        PROVE  FALSE
    BY <2>2 DEF Stages
  <2>3. CASE UNCHANGED books
    BY <2>3 DEF books, Exposure, IInv, TypeOK, BooksTypeOK, OrderRow, PositionRow
  <2>4. CASE \E o \in Orders : KeepsCoherence(o)
    BY <2>1, <2>2, <2>4
  <2> QED BY <2>3, <2>4, StepForms
<1>2. RiskIsByLots /\ RiskTaken \in [Orders -> Int]
  BY RiskOfLots
<1>3. RiskIsByLots' /\ (RiskTaken \in [Orders -> Int])'
  BY RiskOfLots, PTL
<1>4. \A o \in Orders : RiskTaken'[o] <= RiskTaken[o]
  <2> SUFFICES ASSUME NEW o \in Orders PROVE RiskTaken'[o] <= RiskTaken[o]
    OBVIOUS
  <2>1. /\ RiskTaken[o] = Plan[o].lotRisk * Exposure(o)
        /\ RiskTaken'[o] = Plan[o].lotRisk * Exposure(o)'
    BY <1>2, <1>3 DEF RiskIsByLots
  <2>2. Plan[o].lotRisk \in Nat
    BY PlanAssumption DEF PlanRecord
  <2>3. Exposure(o) \in Nat /\ Exposure(o)' \in Nat
    BY DEF Exposure, IInv, TypeOK, BooksTypeOK, OrderRow, PositionRow
  <2>4. \A r, a, b \in Nat : a <= b => r * a <= r * b
    OBVIOUS
  <2> QED BY <1>1, <2>1, <2>2, <2>3, <2>4
<1>5. PICK h : SumsUp(h, RiskTaken, Orders) /\ calculatePaperOpenRisk = h[Orders]
  BY <1>2, OpenRiskIsSum
<1>6. (\E g : SumsUp(g, RiskTaken, Orders) /\ calculatePaperOpenRisk = g[Orders])'
  BY <1>3, OpenRiskIsSum, PTL
<1>7. PICK g : SumsUp(g, RiskTaken', Orders) /\ calculatePaperOpenRisk' = g[Orders]
  BY <1>6 DEF SumsUp, SumOf
<1> QED BY <1>2, <1>3, <1>4, <1>5, <1>7, PlanAssumption, SumsInOrder

(* Only a scan that stages an order adds to the open risk of the account:   *)
(* no fill, exit, cancellation, restart or request ever does.               *)
THEOREM OnlyStagingAdds == Spec => OnlyStagingAddsRisk
<1>1. IInv /\ IInv' /\ [Next]_vars =>
        [(\A o \in Orders : order[o].status = "NONE" => order'[o].status = "NONE")
            => calculatePaperOpenRisk' <= calculatePaperOpenRisk]_vars
  BY RiskFalls
<1> QED BY <1>1, Invariance, PTL DEF Spec, OnlyStagingAddsRisk

-----------------------------------------------------------------------------
(* The price of a position. *)

(* Rounding to the nearest integer does not pass an integer.                *)
LEMMA RoundedBounds ==
  ASSUME NEW a \in Int, NEW b \in Nat \ {0}, NEW bound \in Int
  PROVE  /\ Rounded(a, b) \in Int
         /\ a <= bound * b => Rounded(a, b) <= bound
         /\ bound * b <= a => bound <= Rounded(a, b)
<1> DEFINE n == 2 * a + b
           d == 2 * b
           q == n \div d
           e == bound * b
<1>1. n \in Int /\ d \in Nat \ {0} /\ q \in Int /\ e \in Int
  OBVIOUS
<1>2. d * q <= n /\ n < d * q + d
  <2> HIDE DEF n, d
  <2> QED BY <1>1
<1>3. d * bound = 2 * e
  OBVIOUS
<1>4. \A x \in Int : bound + 1 <= x => d * bound + d <= d * x
  OBVIOUS
<1>5. \A x \in Int : x + 1 <= bound => d * x + d <= d * bound
  OBVIOUS
<1>6. a <= e => q <= bound
  <2>1. SUFFICES ASSUME a <= e, bound + 1 <= q PROVE FALSE
    BY <1>1
  <2>2. d * bound + d <= d * q
    BY <1>1, <1>4, <2>1
  <2>3. n <= 2 * e + b
    BY <1>1, <2>1
  <2> QED BY <1>1, <1>2, <1>3, <2>2, <2>3
<1>7. e <= a => bound <= q
  <2>1. SUFFICES ASSUME e <= a, q + 1 <= bound PROVE FALSE
    BY <1>1
  <2>2. d * q + d <= d * bound
    BY <1>1, <1>5, <2>1
  <2>3. 2 * e + b <= n
    BY <1>1, <2>1
  <2> QED BY <1>1, <1>2, <1>3, <2>2, <2>3
<1> QED BY <1>1, <1>6, <1>7 DEF Rounded

(* A rounded average lies on the side of a bound on which its parts lie.    *)
LEMMA AverageBounds ==
  ASSUME NEW n \in Nat, NEW x \in Int, NEW m \in Nat \ {0}, NEW y \in Int, NEW bound \in Int
  PROVE  /\ (n = 0 \/ x <= bound) /\ y <= bound => Rounded(n * x + m * y, n + m) <= bound
         /\ (n = 0 \/ bound <= x) /\ bound <= y => bound <= Rounded(n * x + m * y, n + m)
<1> DEFINE nx == n * x
           my == m * y
           nb == n * bound
           mb == m * bound
<1>1. nx \in Int /\ my \in Int /\ nb \in Int /\ mb \in Int /\ n + m \in Nat \ {0}
  OBVIOUS
<1>2. bound * (n + m) = nb + mb
  OBVIOUS
<1>3. \A k \in Nat, u, v \in Int : u <= v => k * u <= k * v
  OBVIOUS
<1>4. (x <= bound => nx <= nb) /\ (y <= bound => my <= mb)
  BY <1>3
<1>5. (bound <= x => nb <= nx) /\ (bound <= y => mb <= my)
  BY <1>3
<1>6. n = 0 => nx = 0 /\ nb = 0
  OBVIOUS
<1> HIDE DEF nx, my, nb, mb
<1>7. (n = 0 \/ x <= bound) /\ y <= bound => nx + my <= bound * (n + m)
  BY <1>1, <1>2, <1>4, <1>6
<1>8. (n = 0 \/ bound <= x) /\ bound <= y => bound * (n + m) <= nx + my
  BY <1>1, <1>2, <1>5, <1>6
<1>9. nx + my \in Int
  BY <1>1
<1>10. Rounded(nx + my, n + m) = Rounded(n * x + m * y, n + m)
  BY DEF nx, my
<1> QED BY <1>1, <1>7, <1>8, <1>9, <1>10, RoundedBounds

(* A limit order is filled at its entry price or better.                    *)
LEMMA LimitFillPrice ==
  ASSUME NEW o \in Orders, NEW q \in Quotes \cup {NoQuote}, Plan[o].type = "LIMIT"
  PROVE  /\ FillPrice(Plan[o], q) \in Int
         /\ Plan[o].side = "BUY" => FillPrice(Plan[o], q) <= Plan[o].entry
         /\ Plan[o].side # "BUY" => Plan[o].entry <= FillPrice(Plan[o], q)
<1>1. q.ask \in Int /\ q.bid \in Int /\ Plan[o].entry \in Int /\ SlippagePrice \in Int
  BY PlanAssumption, BoundsAssumption, CostsAssumption DEF Quotes, NoQuote, PlanRecord
<1> QED BY <1>1 DEF FillPrice, Smaller, Larger

(* The entry of a position is the rounded average of what its order was     *)
(* filled at; no sequence of partial fills, slippage or rounding carries it *)
(* beyond the limit price of the order.                                     *)
EntryKeeps(o) ==
  position[o].status # "NONE" /\ Plan[o].type = "LIMIT" =>
    IF Plan[o].side = "BUY" THEN position[o].entry <= Plan[o].entry
                            ELSE Plan[o].entry <= position[o].entry
EntryKeepsLimit == \A o \in Orders : EntryKeeps(o)

LEMMA FillKeepsLimit ==
  ASSUME IInv, EntryKeepsLimit, NEW o \in Orders, NEW verdict, IsWorking(o),
         ExecuteFill(o, verdict, tick.quote, tick.now)
  PROVE  EntryKeeps(o)'
<1> SUFFICES ASSUME Plan[o].type = "LIMIT"
             PROVE  IF Plan[o].side = "BUY" THEN position'[o].entry <= Plan[o].entry
                                            ELSE Plan[o].entry <= position'[o].entry
  BY DEF EntryKeeps
<1> DEFINE p     == position[o]
           lots  == FilledLots(order[o].remaining)
           price == FillPrice(Plan[o], tick.quote)
           limit == Plan[o].entry
<1>1. /\ p \in PositionRow /\ order[o].remaining \in Nat \ {0}
      /\ tick.quote \in Quotes \cup {NoQuote} /\ limit \in Int /\ Coherent(o)
  BY PlanAssumption
  DEF IInv, TypeOK, BooksTypeOK, TickRow, OrderRow, PlanRecord, Coherent, LotsOf
<1>2. p.initial \in Nat /\ p.entry \in Int /\ lots \in Nat \ {0} /\ price \in Int
  BY <1>1, FilledLotsBounds, LimitFillPrice DEF PositionRow
<1>3. p.status = "NONE" => p.initial = 0
  BY <1>1 DEF Coherent, LinkedOf, NoPosition
<1>4. position'[o].entry = Rounded(p.initial * p.entry + lots * price, p.initial + lots)
  <2>1. position' = [position EXCEPT ![o] = Filled(o, lots, price, tick.quote, tick.now)]
    BY DEF ExecuteFill
  <2>2. position'[o] = Filled(o, lots, price, tick.quote, tick.now)
    BY <2>1 DEF IInv, TypeOK, BooksTypeOK
  <2> QED BY <1>1, <2>2 DEF Filled, PositionRow
<1>5. IF Plan[o].side = "BUY" THEN (p.initial = 0 \/ p.entry <= limit) /\ price <= limit
                              ELSE (p.initial = 0 \/ limit <= p.entry) /\ limit <= price
  BY <1>1, <1>3, LimitFillPrice DEF EntryKeepsLimit, EntryKeeps
<1> HIDE DEF p, lots, price, limit
<1>6. IF Plan[o].side = "BUY"
      THEN Rounded(p.initial * p.entry + lots * price, p.initial + lots) <= limit
      ELSE limit <= Rounded(p.initial * p.entry + lots * price, p.initial + lots)
  BY <1>1, <1>2, <1>5, AverageBounds
<1> QED BY <1>4, <1>6 DEF limit

LEMMA EntryStep ==
  ASSUME IInv, EntryKeepsLimit, [Next]_vars
  PROVE  EntryKeepsLimit'
<1> SUFFICES ASSUME NEW o \in Orders PROVE EntryKeeps(o)'
  BY DEF EntryKeepsLimit
<1>1. CASE position'[o].initial # position[o].initial \/ position'[o].entry # position[o].entry
  <2>1. IsWorking(o) /\ ExecuteFill(o, FillVerdict(o, tick.quote, tick.now), tick.quote, tick.now)
    BY <1>1, OnlyMatchesFill
  <2> QED BY <2>1, FillKeepsLimit
<1>2. CASE position'[o].initial = position[o].initial /\ position'[o].entry = position[o].entry
  <2>1. position'[o].status # "NONE" => position[o].status # "NONE"
    <3>1. ASSUME NEW x \in Orders, KeepsCoherence(x) PROVE position'[o].status # "NONE" => position[o].status # "NONE"
      <4>1. CASE x # o
        BY <3>1, <4>1 DEF KeepsCoherence, RowsKept
      <4>2. CASE x = o
        <5>1. FlowStep(o) /\ position[o].initial \in Nat
          BY <3>1, <4>2 DEF KeepsCoherence, IInv, TypeOK, BooksTypeOK, PositionRow
        <5>2. ~Fills(o)
          BY <1>2, <5>1 DEF Fills
        <5> QED BY <5>1, <5>2 DEF FlowStep, Stages, Abandons, TakesProfit, Settles, Rests, IsOpen,
                                  Open, NoPosition
      <4> QED BY <4>1, <4>2
    <3>2. CASE UNCHANGED books
      BY <3>2 DEF books
    <3>3. CASE \E x \in Orders : KeepsCoherence(x)
      BY <3>1, <3>3
    <3> QED BY <3>2, <3>3, StepForms
  <2> QED BY <1>2, <2>1 DEF EntryKeepsLimit, EntryKeeps
<1> QED BY <1>1, <1>2

(* The entry of a limit position is never worse than the limit of its order. *)
THEOREM LimitsAreKept == Spec => []EntryKeepsLimit
<1>1. Init => EntryKeepsLimit
  BY DEF Init, NoPosition, EntryKeepsLimit, EntryKeeps
<1>2. IInv /\ EntryKeepsLimit /\ [Next]_vars => EntryKeepsLimit'
  BY EntryStep
<1> QED BY <1>1, <1>2, Invariance, PTL DEF Spec

-----------------------------------------------------------------------------
(***************************************************************************)
(* What a pass settles.  PassOf names what each phase may rely on: what    *)
(* the phases before it have ended.                                        *)
(***************************************************************************)
Unexpired(t) == \A o \in Orders : IsWorking(o) => t.now < ExpiresAt(o)

PassOf(t) ==
  /\ t.phase = "expire" =>
       \A o \in Orders : IsWorking(o) => o \in t.todo \/ t.now < ExpiresAt(o)
  /\ t.phase \in {"cancel", "monitor", "fill", "account"} => Unexpired(t)
  /\ t.phase = "cancel" => ~paperMode /\ WorkingOrders \subseteq t.todo
  /\ t.phase \in {"monitor", "fill", "account"} => paperMode \/ WorkingOrders = {}

PassOK == PassOf(tick)

(* The creation time of an order never changes once it is staged, and no    *)
(* step of a pass makes an order working.                                   *)
LEMMA CreatedKept ==
  ASSUME order \in [Orders -> OrderRow], NEW o \in Orders, NEW status, NEW remaining,
         order' = [order EXCEPT ![o].status = status, ![o].remaining = remaining]
  PROVE  \A x \in Orders : order'[x].createdAt = order[x].createdAt
<1> DEFINE row == [order[o] EXCEPT !.status = status, !.remaining = remaining]
<1>1. order[o] \in OrderRow
  OBVIOUS
<1>2. row.createdAt = order[o].createdAt
  BY <1>1 DEF OrderRow
<1>3. order' = [order EXCEPT ![o] = row]
  BY <1>1 DEF OrderRow
<1> HIDE DEF row
<1> QED BY <1>2, <1>3

LEMMA WorkKeepsExpiry ==
  ASSUME IInv, NEW o \in Orders, Work(o)
  PROVE  \A x \in Orders : order'[x].createdAt = order[x].createdAt
<1>1. order \in [Orders -> OrderRow]
  BY DEF IInv, TypeOK, BooksTypeOK
<1>2. \/ order' = order
      \/ \E status, remaining :
           order' = [order EXCEPT ![o].status = status, ![o].remaining = remaining]
  <2>1. CASE ExpireOne(o) \/ CancelOne(o)
    BY <2>1 DEF ExpireOne, expireOrder, CancelOne, cancelOrderForPaperOff, EndOrder
  <2>2. CASE MonitorOne(o)
    BY <2>2 DEF MonitorOne, monitorPosition, SkipForClockSkew, RequireReconciliation,
                ManagePosition, ClosePosition, CancelRemainder, books
  <2>3. CASE FillOne(o)
    BY <2>3 DEF FillOne, fillOrder, RejectForRisk, EndUnfilled, HoldOrder, ExecuteFill, EndOrder,
                books
  <2> QED BY <2>1, <2>2, <2>3 DEF Work
<1> QED BY <1>1, <1>2, CreatedKept

LEMMA WorkStartsNothing ==
  ASSUME IInv, NEW o \in Orders, Work(o), NEW x \in Orders, IsWorking(x)'
  PROVE  IsWorking(x) /\ ExpiresAt(x)' = ExpiresAt(x)
<1>1. KeepsCoherence(o)
  BY WorkTransacts
<1>2. IsWorking(o) \/ IsOpen(o)
  BY PhaseStep DEF Work, ExpireOne, CancelOne, MonitorOne, FillOne
<1>3. ~Stages(o)
  BY <1>2 DEF IInv, Stages, Coherent, LinkedOf, IsWorking, Working, IsOpen, Open
<1>4. x # o => order'[x] = order[x]
  BY <1>1 DEF KeepsCoherence, RowsKept
<1>5. IsWorking(o)' => IsWorking(o)
  BY <1>1, <1>3
  DEF KeepsCoherence, FlowStep, Fills, Abandons, TakesProfit, Settles, Rests, IsWorking, Working,
      Ended
<1> QED BY <1>4, <1>5, WorkKeepsExpiry DEF IsWorking, ExpiresAt

LEMMA WorkSettles ==
  ASSUME IInv, PassOK, NEW o \in Orders, Work(o)
  PROVE  PassOK'
<1>1. /\ paperMode' = paperMode /\ tick'.phase = tick.phase
      /\ tick'.now = tick.now /\ tick'.todo = tick.todo \ {o}
  BY WorkKeepsMode
  DEF Work, ExpireOne, CancelOne, MonitorOne, FillOne, InPhase, IInv, TypeOK, TickRow
<1>2. \A x \in Orders : IsWorking(x)' => IsWorking(x) /\ ExpiresAt(x)' = ExpiresAt(x)
  BY WorkStartsNothing
<1>3. tick.phase \in {"expire", "cancel"} => ~IsWorking(o)'
  <2>1. order \in [Orders -> OrderRow]
    BY DEF IInv, TypeOK, BooksTypeOK
  <2>2. SUFFICES ASSUME tick.phase \in {"expire", "cancel"} PROVE ~IsWorking(o)'
    OBVIOUS
  <2>3. EndOrder(o, "EXPIRED") \/ EndOrder(o, "CANCELLED")
    BY <2>2 DEF Work, ExpireOne, expireOrder, CancelOne, cancelOrderForPaperOff, MonitorOne,
                FillOne, InPhase
  <2> QED BY <2>1, <2>3, EndOrderRow DEF IsWorking, Working
<1>4. WorkingOrders' \subseteq WorkingOrders /\ (o \in WorkingOrders' => IsWorking(o)')
  BY <1>2 DEF WorkingOrders
<1> QED BY <1>1, <1>2, <1>3, <1>4 DEF PassOK, PassOf, Unexpired

LEMMA PhasesSettle ==
  ASSUME IInv
  PROVE  /\ PassOf(ExpirePhase)
         /\ Unexpired(tick) => PassOf(CancelPhase)
         /\ Unexpired(tick) /\ (paperMode \/ WorkingOrders = {}) =>
              PassOf(MonitorPhase) /\ PassOf(FillPhase) /\ PassOf(Phase("account", {}))
<1> DEFINE Clean == paperMode \/ WorkingOrders = {}
<1>1. ASSUME NEW name, NEW todo
      PROVE  /\ Phase(name, todo).phase = name /\ Phase(name, todo).todo = todo
             /\ Phase(name, todo).now = tick.now
  BY DEF Phase, IInv, TypeOK, TickRow
<1>2. Unexpired(tick) /\ Clean => PassOf(Phase("account", {}))
  BY <1>1 DEF PassOf, Unexpired
<1>3. Unexpired(tick) /\ Clean => PassOf(FillPhase)
  <2>1. Unexpired(tick) /\ Clean => PassOf(Phase("fill", WorkingOrders))
    BY <1>1 DEF PassOf, Unexpired
  <2> QED BY <1>2, <2>1 DEF FillPhase
<1>4. Unexpired(tick) /\ Clean => PassOf(MonitorPhase)
  <2>1. Unexpired(tick) /\ Clean => PassOf(Phase("monitor", OpenPositions))
    BY <1>1 DEF PassOf, Unexpired
  <2> QED BY <1>2, <1>3, <2>1 DEF MonitorPhase
<1>5. Unexpired(tick) => PassOf(CancelPhase)
  <2>1. Unexpired(tick) /\ ~paperMode => PassOf(Phase("cancel", WorkingOrders))
    BY <1>1 DEF PassOf, Unexpired
  <2> QED BY <1>4, <2>1 DEF CancelPhase
<1>6. PassOf(ExpirePhase)
  <2> DEFINE expired == {o \in WorkingOrders : ExpiresAt(o) <= tick.now}
  <2>1. \A o \in Orders : IsWorking(o) => o \in expired \/ tick.now < ExpiresAt(o)
    <3>1. SUFFICES ASSUME NEW o \in Orders, IsWorking(o), ~(ExpiresAt(o) <= tick.now)
                   PROVE  tick.now < ExpiresAt(o)
      BY DEF WorkingOrders
    <3>2. tick.now \in Nat /\ order[o].createdAt \in Nat /\ ExpiresAfter \in Nat
      BY BoundsAssumption DEF IInv, TypeOK, BooksTypeOK, TickRow, OrderRow
    <3> QED BY <3>1, <3>2 DEF ExpiresAt
  <2>2. PassOf(Phase("expire", expired))
    BY <1>1, <2>1 DEF PassOf
  <2>3. expired = {} => Unexpired(tick)
    BY <2>1 DEF Unexpired
  <2> QED BY <1>5, <2>2, <2>3 DEF ExpirePhase
<1> QED BY <1>2, <1>3, <1>4, <1>5, <1>6

LEMMA PassStep ==
  ASSUME IInv, PassOK, [Next]_vars
  PROVE  PassOK'
<1> USE DEF PassOK
<1>1. CASE \E o \in Orders : Work(o)
  BY <1>1, WorkSettles
<1>2. CASE reconcilePaperExecution
  <2>1. PassOf(tick')
    <3>1. tick.phase = "expire" /\ tick.todo = {} => Unexpired(tick)
      BY DEF PassOf, Unexpired
    <3>2. tick.phase = "cancel" /\ tick.todo = {} => Unexpired(tick) /\ WorkingOrders = {}
      BY DEF PassOf
    <3>3. tick.phase \in {"monitor", "fill"} => Unexpired(tick) /\ (paperMode \/ WorkingOrders = {})
      BY DEF PassOf
    <3> QED BY <1>2, <3>1, <3>2, <3>3, PhasesSettle DEF reconcilePaperExecution
  <2>2. order' = order /\ paperMode' = paperMode
    BY <1>2 DEF reconcilePaperExecution, books, control
  <2>3. WorkingOrders' = WorkingOrders
    BY <2>2 DEF WorkingOrders, IsWorking
  <2> HIDE DEF PassOK
  <2>4. PassOK' = PassOf(tick')
    BY <2>2, <2>3 DEF PassOK, PassOf, Unexpired, IsWorking, ExpiresAt
  <2> QED BY <2>1, <2>4
<1>3. ASSUME tick'.phase \in {"idle", "awaiting"} PROVE PassOK'
  BY <1>3 DEF PassOf
<1>4. CASE TickBegin \/ TickEnd \/ TickFails \/ Restart
  <2>1. \/ tick' = IdleTick
        \/ tick' = [IdleTick EXCEPT !.phase = "awaiting", !.now = clock]
    BY <1>4 DEF TickBegin, TickEnd, TickFails, Restart
  <2>2. IdleTick.phase = "idle"
        /\ [IdleTick EXCEPT !.phase = "awaiting", !.now = clock].phase = "awaiting"
    BY DEF IdleTick
  <2> QED BY <1>3, <2>1, <2>2
<1>5. CASE \E q \in Quotes : ReadMarketData(q)
  BY <1>3, <1>5 DEF ReadMarketData, IInv, TypeOK, TickRow
<1>6. CASE \/ Advance \/ StepBack
           \/ Pause \/ Resume \/ \E enabled \in BOOLEAN : SetPaperMode(enabled)
           \/ \E o \in Orders : \/ \E now \in ScanTimes : persistScanResult(o, now)
                                \/ \E now \in RequestTimes : closePaperPosition(o, now)
  BY <1>3, <1>6 DEF Advance, StepBack, Pause, Resume, SetPaperMode, persistScanResult,
                    closePaperPosition, Request, LoopIsFree
<1>7. CASE UNCHANGED vars
  BY <1>7 DEF vars, books, control, PassOf, Unexpired, WorkingOrders, IsWorking, ExpiresAt
<1> QED BY <1>1, <1>2, <1>4, <1>5, <1>6, <1>7 DEF Next, TickStep

(* What each phase of the reconcile pass relies on was done by the phases   *)
(* before it, whatever requests, crashes and clock corrections came between *)
(* the passes.                                                              *)
THEOREM PassInvariance == Spec => []PassOK
<1>1. Init => PassOK
  BY DEF Init, IdleTick, PassOK, PassOf
<1>2. IInv /\ PassOK /\ [Next]_vars => PassOK'
  BY PassStep
<1> QED BY <1>1, <1>2, Invariance, PTL DEF Spec

(* A tick that runs to its end leaves no order working beyond its expiry,   *)
(* with or without market data, and none at all while paper mode is off:    *)
(* the step on which WorkingOrdersEnd and PaperOffCancels rest.             *)
PassSettles ==
  [][TickEnd => \A o \in Orders : IsWorking(o)' => paperMode' /\ tick.now < ExpiresAt(o)']_vars

(* A completed reconcile pass leaves no expired order working, and no order *)
(* at all while paper mode is off.                                          *)
THEOREM PassSettlesOrders == Spec => PassSettles
<1>1. IInv /\ PassOK =>
        [TickEnd =>
           \A o \in Orders : IsWorking(o)' => paperMode' /\ tick.now < ExpiresAt(o)']_vars
  <2> SUFFICES ASSUME IInv, PassOK, TickEnd, NEW o \in Orders, IsWorking(o)'
               PROVE  paperMode' /\ tick.now < ExpiresAt(o)'
    OBVIOUS
  <2>1. IsWorking(o) /\ ExpiresAt(o)' = ExpiresAt(o) /\ paperMode' = paperMode
    BY DEF TickEnd, books, control, IsWorking, ExpiresAt
  <2> QED BY <2>1 DEF TickEnd, PassOK, PassOf, Unexpired, WorkingOrders
<1> QED BY <1>1, Invariance, PassInvariance, PTL DEF PassSettles

-----------------------------------------------------------------------------
(* The end of a pass. *)

LaterPhases(phase) ==
  CASE phase = "expire"  -> {"cancel", "monitor", "fill", "account"}
    [] phase = "cancel"  -> {"monitor", "fill", "account"}
    [] phase = "monitor" -> {"fill", "account"}
    [] phase = "fill"    -> {"account"}
    [] phase = "account" -> {"idle"}

Progresses ==
  \/ tick'.phase \in LaterPhases(tick.phase)
  \/ /\ tick'.phase = tick.phase
     /\ \E o \in tick.todo : tick'.todo = tick.todo \ {o}

LEMMA PhasesFollow ==
  ASSUME IInv, reconcilePaperExecution, ~LoopIsFree
  PROVE  tick'.phase \in LaterPhases(tick.phase)
<1>1. \A name, todo : Phase(name, todo).phase = name
  BY DEF Phase, IInv, TypeOK, TickRow
<1>2. FillPhase.phase \in {"fill", "account"}
  BY <1>1 DEF FillPhase
<1>3. MonitorPhase.phase \in {"monitor", "fill", "account"}
  BY <1>1, <1>2 DEF MonitorPhase
<1>4. CancelPhase.phase \in {"cancel", "monitor", "fill", "account"}
  BY <1>1, <1>3 DEF CancelPhase
<1> QED BY <1>1, <1>2, <1>3, <1>4 DEF reconcilePaperExecution, LoopIsFree, LaterPhases

(* Once a pass runs, nothing but its own steps, a failure of one of them    *)
(* and a restart happens, and each of its steps either moves on to a later  *)
(* phase or shortens the work list of the phase it is in.                   *)
PassNearsItsEnd == [][~LoopIsFree => (TickStep /\ Progresses) \/ TickFails \/ Restart]_vars

(* A reconcile pass cannot be interleaved with requests or other ticks, and *)
(* every step of it brings it nearer to its end.                            *)
THEOREM PassProgresses == Spec => PassNearsItsEnd
<1>1. IInv /\ [Next]_vars =>
        [~LoopIsFree => (TickStep /\ Progresses) \/ TickFails \/ Restart]_vars
  <2> SUFFICES ASSUME IInv, Next, ~LoopIsFree
               PROVE  (TickStep /\ Progresses) \/ TickFails \/ Restart
    OBVIOUS
  <2>1. TickStep \/ TickFails \/ Restart
    BY DEF Next, Advance, StepBack, Pause, Resume, SetPaperMode, persistScanResult,
           closePaperPosition, Request, ReadMarketData, LoopIsFree
  <2>2. CASE TickStep
    <3>1. ~TickBegin
      BY DEF TickBegin, LoopIsFree
    <3>2. TickEnd => Progresses
      BY DEF TickEnd, IdleTick, Progresses, LaterPhases
    <3>3. reconcilePaperExecution => Progresses
      BY PhasesFollow DEF Progresses
    <3>4. ASSUME NEW o \in Orders, Work(o) PROVE Progresses
      <4>1. tick'.phase = tick.phase /\ o \in tick.todo /\ tick'.todo = tick.todo \ {o}
        BY <3>4, WorkKeepsMode
        DEF Work, ExpireOne, CancelOne, MonitorOne, FillOne, InPhase, NextOrders, NextPositions,
            Oldest, IInv, TypeOK, TickRow
      <4> QED BY <4>1 DEF Progresses
    <3> QED BY <2>2, <3>1, <3>2, <3>3, <3>4 DEF TickStep
  <2> QED BY <2>1, <2>2
<1> QED BY <1>1, Invariance, PTL DEF Spec, PassNearsItsEnd
=============================================================================
