--------------------------- MODULE PaperLifecycle ---------------------------
(***************************************************************************)
(* The life of a simulated order: staged by a scan, matched or ended by    *)
(* the reconcile pass of a worker tick, managed as a position, closed into *)
(* a trade (paper-lifecycle-service.mjs, paper-scan-service.mjs and the    *)
(* tick of worker.mjs).                                                    *)
(*                                                                         *)
(* The process is single threaded and SQLite is synchronous, so the grain  *)
(* of an action is one transaction.  A tick reads its clock first, then    *)
(* awaits health, market data and news; everything after the last await    *)
(* runs to the end without yielding, but as a series of transactions       *)
(* between which the process may die.  Operator requests, and the clock,   *)
(* interleave with the awaits only.                                        *)
(***************************************************************************)
EXTENDS PaperExecution, FiniteSetsExt

CONSTANTS
  Orders,        \* one element per (M15 close, direction): the logical order key
  Plan,          \* the plan a scan attaches to an order: see PlanAssumption
  Bids, Spread,  \* quotes: a bid, and the ask at a fixed spread above it
  ExpiresAfter,  \* expiresAfterMinutes: life of an unfilled order
  QuoteMaxAge,   \* PAPER_EXECUTION_QUOTE_MAX_AGE_MS
  RiskMaxAge,    \* MAX_RISK_STATE_AGE_MS
  RiskCaps,      \* values of maxTotalOpenRiskPct times the equity of a tick
  SwapRate, SwapUnit, \* swap per lot and time unit, as SwapRate/SwapUnit cents
  QuoteAges,     \* how old a quote may already be when the worker reads it
  BodyDelays,    \* how long a request's body may arrive after its clock was read
  MaxClock,      \* bound: the last clock value
  MaxRequests,   \* bound: how many operator requests are served
  MaxSetbacks,   \* bound: how often the clock is stepped back
  MaxFaults      \* bound: how often a tick fails or the process restarts

(* What a scan hands over: lotRisk is the stop distance of one lot step in  *)
(* money, so that lotRisk * quantity is the risk the sizing budgeted.       *)
PlanRecord ==
  [side : {"BUY", "SELL"}, type : {"LIMIT", "STOP"}, quantity : Nat \ {0},
   entry : Nat \ {0}, stop : Nat \ {0}, tp1 : Nat \ {0}, tp2 : Nat \ {0}, lotRisk : Nat \ {0}]

ASSUME PlanAssumption ==
  /\ IsFiniteSet(Orders)
  /\ DOMAIN Plan = Orders
  /\ \A o \in Orders : Plan[o] \in PlanRecord

ASSUME BoundsAssumption ==
  /\ Bids \subseteq Nat \ {0}
  /\ RiskCaps \subseteq Nat
  /\ QuoteAges \subseteq Nat
  /\ BodyDelays \subseteq Nat
  /\ {Spread, ExpiresAfter, QuoteMaxAge, RiskMaxAge, SwapRate} \subseteq Nat
  /\ {MaxClock, MaxRequests, MaxSetbacks, MaxFaults} \subseteq Nat
  /\ SwapUnit \in Nat \ {0}

VARIABLES
  clock,       \* the wall clock
  setbacks,    \* how often it was stepped back
  requests,    \* how many operator requests were served
  faults,      \* how often a tick failed or the process died
  tick,        \* the worker tick in flight: phase, now, quote, todo
  quote,       \* the row of market_snapshots with the latest received_at
  order,       \* orders: status, remaining_quantity_lots, created_at
  signal,      \* signals.status
  position,    \* positions
  trade,       \* trades (UNIQUE per position)
  ledger,      \* sum of ledger_entries.amount of the position
  paperMode, entryPaused,  \* app_state
  risk         \* app_state riskMetrics: at, blocked, cap

books   == <<order, signal, position, trade, ledger>>
control == <<paperMode, entryPaused>>
bounds  == <<setbacks, requests, faults>>
vars    == <<clock, bounds, tick, quote, books, control, risk>>

-----------------------------------------------------------------------------
(* Rows and their initial values. *)

Working == {"PENDING", "PARTIAL"}
Open    == {"OPEN", "PARTIAL"}

NoQuote    == [bid |-> 0, ask |-> 0, observedAt |-> 0, receivedAt |-> 0]
NoOrder    == [status |-> "NONE", remaining |-> 0, createdAt |-> 0]
NoPosition ==
  [status |-> "NONE", open |-> 0, initial |-> 0, entry |-> 0, stop |-> 0, tp1Hit |-> FALSE,
   gross |-> 0, commission |-> 0, swap |-> 0, realized |-> 0, initialRisk |-> 0,
   openedAt |-> 0, lastSwapAt |-> 0, lastFillAt |-> 0]
NoTrade    == [reason |-> "NONE", net |-> 0, valid |-> TRUE]
NoRisk     == [known |-> FALSE, at |-> 0, blocked |-> FALSE, cap |-> 0]
IdleTick   == [phase |-> "idle", now |-> 0, quote |-> NoQuote, todo |-> {}]

IsWorking(o) == order[o].status \in Working
IsOpen(o)    == position[o].status \in Open
ExpiresAt(o) == order[o].createdAt + ExpiresAfter

Quotes ==
  {[bid |-> b, ask |-> b + Spread, observedAt |-> seen, receivedAt |-> read] :
     b \in Bids, seen \in 0 .. MaxClock, read \in 0 .. MaxClock}

(* Neither the tick's own quote nor a stored one may be older than the      *)
(* execution window, or come from after "now".                              *)
quoteIsFreshMarketData(q, now) ==
  /\ q.bid > 0
  /\ q.observedAt <= now /\ now - q.observedAt <= QuoteMaxAge
  /\ q.receivedAt <= now /\ now - q.receivedAt <= QuoteMaxAge

-----------------------------------------------------------------------------
(* Risk state. *)

PendingRisk(o) ==
  IF IsWorking(o) THEN Plan[o].lotRisk * order[o].remaining ELSE 0
PositionRisk(o) ==
  IF IsOpen(o) THEN (position[o].initialRisk * position[o].open) \div position[o].initial ELSE 0

calculatePaperOpenRisk == MapThenSumSet(LAMBDA o : PendingRisk(o) + PositionRisk(o), Orders)

RiskIsFresh(now) == risk.known /\ risk.at <= now /\ now - risk.at <= RiskMaxAge

evaluateRiskGuard(proposed) ==
  /\ ~risk.blocked
  /\ calculatePaperOpenRisk + proposed <= risk.cap

-----------------------------------------------------------------------------
Init ==
  /\ clock = 0 /\ setbacks = 0 /\ requests = 0 /\ faults = 0
  /\ tick = IdleTick
  /\ quote = NoQuote
  /\ order = [o \in Orders |-> NoOrder]
  /\ signal = [o \in Orders |-> "NONE"]
  /\ position = [o \in Orders |-> NoPosition]
  /\ trade = [o \in Orders |-> NoTrade]
  /\ ledger = [o \in Orders |-> 0]
  /\ paperMode = TRUE /\ entryPaused = TRUE
  /\ risk = NoRisk

(* Requests are served, and time passes, only while no pass is running.     *)
LoopIsFree == tick.phase \in {"idle", "awaiting"}

Advance ==
  /\ LoopIsFree /\ clock < MaxClock
  /\ clock' = clock + 1
  /\ UNCHANGED <<bounds, tick, quote, books, control, risk>>

(* The operating system corrects the clock backwards.                       *)
StepBack ==
  /\ LoopIsFree /\ clock > 0 /\ setbacks < MaxSetbacks
  /\ clock' = clock - 1
  /\ setbacks' = setbacks + 1
  /\ UNCHANGED <<requests, faults, tick, quote, books, control, risk>>

-----------------------------------------------------------------------------
(* Operator requests.  A request reads the clock when it arrives and acts    *)
(* when its body has been read; a tick may have run in between.              *)

RequestTimes == {t \in 0 .. clock : clock - t \in BodyDelays}

Request ==
  /\ LoopIsFree /\ requests < MaxRequests
  /\ requests' = requests + 1
  /\ UNCHANGED <<clock, setbacks, faults, tick, quote, risk>>

Pause ==
  /\ Request
  /\ entryPaused' = TRUE
  /\ UNCHANGED <<books, paperMode>>

(* readinessReasons must be empty; feed, candles and news are external.     *)
Resume ==
  /\ Request
  /\ \E now \in RequestTimes : RiskIsFresh(now)
  /\ paperMode /\ evaluateRiskGuard(0)
  /\ entryPaused' = FALSE
  /\ UNCHANGED <<books, paperMode>>

SetPaperMode(enabled) ==
  /\ Request
  /\ paperMode' = enabled
  /\ entryPaused' = (entryPaused \/ ~enabled)
  /\ UNCHANGED books

(* Mutant: an open position is not looked for. *)
ExposedIfWorking(o) == IsWorking(o)
Exposed(o) == IsWorking(o) \/ IsOpen(o)

(* Mutant: an order key may be staged again once its order has ended. *)
KeyNotWorking(o) == ~IsWorking(o)
KeyIsNew(o) == order[o].status = "NONE"

(***************************************************************************)
(* A scan that passes every gate stages its order, at the tick's time or,  *)
(* for an operator's scan, at its request's time.  The strategy, news and  *)
(* spread gates are external.  A working order or an open position on the  *)
(* same side makes it a duplicate; an order key is used once.              *)
(***************************************************************************)
persistScanResult(o, now) ==
  /\ LoopIsFree
  /\ ~entryPaused /\ paperMode
  /\ RiskIsFresh(now) /\ evaluateRiskGuard(Plan[o].lotRisk * Plan[o].quantity)
  /\ KeyIsNew(o)
  /\ ~\E p \in Orders : Plan[p].side = Plan[o].side /\ Exposed(p)
  /\ order' = [order EXCEPT ![o] =
                 [status |-> "PENDING", remaining |-> Plan[o].quantity, createdAt |-> now]]
  /\ signal' = [signal EXCEPT ![o] = "PENDING"]
  /\ UNCHANGED <<clock, bounds, tick, quote, position, trade, ledger, control, risk>>

-----------------------------------------------------------------------------
(* Transactions on one order. *)

(* Only a signal that never had a fill follows its order. *)
SignalIfPending(o, status) ==
  signal' = IF signal[o] = "PENDING" THEN [signal EXCEPT ![o] = status] ELSE signal

(* Mutant: the whole quantity is taken off, filled or not. *)
EndWholeQuantity(o, status) ==
  order' = [order EXCEPT ![o].status = status, ![o].remaining = @ - Plan[o].quantity]

EndOrder(o, status) ==
  order' = [order EXCEPT ![o].status = status, ![o].remaining = 0]

expireOrder(o) ==
  /\ EndOrder(o, "EXPIRED")
  /\ SignalIfPending(o, "EXPIRED")
  /\ UNCHANGED <<position, trade, ledger, control>>

(* Mutant: the signal is cancelled even when a position is open. *)
CancelWithSignal(o) ==
  /\ EndOrder(o, "CANCELLED")
  /\ signal' = [signal EXCEPT ![o] = "CANCELLED"]
  /\ UNCHANGED <<position, trade, ledger, control>>

cancelOrderForPaperOff(o) ==
  /\ EndOrder(o, "CANCELLED")
  /\ signal' = IF ~IsOpen(o) /\ signal[o] \in {"PENDING", "PARTIAL"}
               THEN [signal EXCEPT ![o] = "CANCELLED"] ELSE signal
  /\ UNCHANGED <<position, trade, ledger, control>>

(* Mutant: a quote is matched again. *)
OlderThanLastFill(o, q) == position[o].status # "NONE" /\ q.observedAt < position[o].lastFillAt
AlreadyMatched(o, q) == position[o].status # "NONE" /\ q.observedAt <= position[o].lastFillAt

(* What fillOrder decides before it touches a row. *)
FillVerdict(o, q, now) ==
  IF      now >= ExpiresAt(o)        THEN "EXPIRED"
  ELSE IF ~RiskIsFresh(now)          THEN "HELD"
  ELSE IF ~evaluateRiskGuard(0)      THEN "RISK"
  ELSE IF AlreadyMatched(o, q)       THEN "HELD"
  ELSE IF position[o].tp1Hit         THEN "CANCELLED"
  ELSE matchPendingOrder(Plan[o], order[o].remaining, order[o].createdAt, ExpiresAt(o), q, now)

(* The guard tripped since the order was staged: the unfilled quantity goes *)
(* and entries are paused.                                                  *)
RejectForRisk(o, verdict) ==
  /\ verdict = "RISK"
  /\ EndOrder(o, IF IsOpen(o) THEN "CANCELLED" ELSE "REJECTED")
  /\ signal' = IF IsOpen(o) THEN signal ELSE [signal EXCEPT ![o] = "REJECTED"]
  /\ entryPaused' = TRUE
  /\ UNCHANGED <<position, trade, ledger, paperMode>>

EndUnfilled(o, verdict) ==
  /\ verdict \in {"EXPIRED", "REJECTED", "CANCELLED"}
  /\ EndOrder(o, verdict)
  /\ SignalIfPending(o, verdict)
  /\ UNCHANGED <<position, trade, ledger, control>>

(* Nothing matched, or no usable cost model to match with. *)
HoldOrder(o, verdict) ==
  /\ verdict \notin {"EXPIRED", "RISK"}
  /\ UNCHANGED <<books, control>>

(* Mutant: a partial fill books the whole risk. *)
WholeRisk(o, initial) == Plan[o].lotRisk * Plan[o].quantity
InitialRisk(o, initial) == Plan[o].lotRisk * initial

(* The position row after "lots" more lots at "price". *)
Filled(o, lots, price, q, now) ==
  LET p       == position[o]
      initial == p.initial + lots
      fee     == lots * CommissionPerLot
  IN  [p EXCEPT
         !.status      = IF p.status = "NONE" THEN "OPEN" ELSE p.status,
         !.open        = p.open + lots,
         !.initial     = initial,
         !.entry       = Rounded(p.initial * p.entry + lots * price, initial),
         !.stop        = IF p.status = "NONE" THEN Plan[o].stop ELSE p.stop,
         !.commission  = p.commission + fee,
         !.realized    = p.realized - fee,
         !.initialRisk = InitialRisk(o, initial),
         !.openedAt    = IF p.status = "NONE" THEN now ELSE p.openedAt,
         !.lastSwapAt  = now,
         !.lastFillAt  = q.observedAt]

(* Mutants: the remainder is counted from the ordered quantity; it stays.   *)
RemainingOfQuantity(o, lots) == Plan[o].quantity - lots
RemainingKept(o, lots) == order[o].remaining
Remaining(o, lots) == order[o].remaining - lots

ExecuteFill(o, verdict, q, now) ==
  /\ verdict \in {"PARTIAL", "FILLED"}
  /\ LET lots == FilledLots(order[o].remaining)
     IN  /\ position' = [position EXCEPT ![o] = Filled(o, lots, FillPrice(Plan[o], q), q, now)]
         /\ order' = [order EXCEPT ![o].status = verdict, ![o].remaining = Remaining(o, lots)]
         /\ ledger' = [ledger EXCEPT ![o] = @ - lots * CommissionPerLot]
  /\ signal' = [signal EXCEPT ![o] = IF verdict = "PARTIAL" THEN "PARTIAL" ELSE "OPEN"]
  /\ UNCHANGED <<trade, control>>

fillOrder(o, q, now) ==
  LET verdict == FillVerdict(o, q, now)
  IN  \/ RejectForRisk(o, verdict)
      \/ EndUnfilled(o, verdict)
      \/ HoldOrder(o, verdict)
      \/ ExecuteFill(o, verdict, q, now)

-----------------------------------------------------------------------------
(* Transactions on one position. *)

(* Swap since the last checkpoint, rounded to money each time. *)
SwapDelta(o, now) ==
  Rounded(position[o].open * SwapRate * (now - position[o].lastSwapAt), SwapUnit)

(* The net of the trade, from the running totals of the position. *)
NetPnl(p) == p.gross - p.commission - p.swap

(* Quarantined beyond 1.5 R. *)
insertTrade(before, after, reason) ==
  [reason |-> reason, net |-> NetPnl(after),
   valid |-> ~(before.initialRisk > 0 /\ -2 * NetPnl(after) > 3 * before.initialRisk)]

(* The position row after outcome r of managePaperPosition. *)
Managed(o, r, now) ==
  LET swap == SwapDelta(o, now)
  IN  [position[o] EXCEPT
         !.status     = IF Closes(r) THEN "CLOSED" ELSE IF r.event = "HIT_TP1" THEN "PARTIAL" ELSE @,
         !.open       = @ - r.lots,
         !.stop       = r.stop,
         !.tp1Hit     = r.tp1Hit,
         !.gross      = @ + r.gross,
         !.commission = @ + r.commission,
         !.swap       = @ + swap,
         !.realized   = @ + r.eventNet + (IF Closes(r) THEN r.gross - r.commission ELSE 0) - swap,
         !.lastSwapAt = now]

(* Time ran backwards: the position is left alone and entries are paused. *)
SkipForClockSkew(o, now) ==
  /\ now < position[o].lastSwapAt
  /\ entryPaused' = TRUE
  /\ UNCHANGED <<books, paperMode>>

RequireReconciliation(o, r, now) ==
  /\ now >= position[o].lastSwapAt
  /\ r.event = "RECONCILIATION_REQUIRED"
  /\ entryPaused' = TRUE
  /\ UNCHANGED <<books, paperMode>>

(* Mutant: the remainder stays working after the close. *)
KeepRemainder(o) == UNCHANGED order

(* TP1 and the close cancel whatever is still unfilled. *)
CancelRemainder(o) ==
  order' = IF order[o].status = "PARTIAL"
           THEN [order EXCEPT ![o].status = "CANCELLED", ![o].remaining = 0] ELSE order

(* The ledger entries of an outcome. *)
(* Mutant: none for the swap. *)
BookedWithoutSwap(o, r, now) == r.gross - r.commission
Booked(o, r, now) == r.gross - r.commission - SwapDelta(o, now)

ManagePosition(o, r, now) ==
  /\ now >= position[o].lastSwapAt
  /\ r.event \notin Closing \cup {"RECONCILIATION_REQUIRED"}
  /\ position' = [position EXCEPT ![o] = Managed(o, r, now)]
  /\ ledger' = [ledger EXCEPT ![o] = @ + Booked(o, r, now)]
  /\ IF r.event = "HIT_TP1"
     THEN signal' = [signal EXCEPT ![o] = "PARTIAL"] /\ CancelRemainder(o)
     ELSE UNCHANGED <<signal, order>>
  /\ UNCHANGED <<trade, control>>

ClosePosition(o, r, now) ==
  /\ now >= position[o].lastSwapAt
  /\ Closes(r)
  /\ LET after == Managed(o, r, now)
         sold  == insertTrade(position[o], after, r.event)
     IN  /\ position' = [position EXCEPT ![o] = after]
         /\ trade' = [trade EXCEPT ![o] = sold]
         /\ entryPaused' = (entryPaused \/ ~sold.valid)
  /\ ledger' = [ledger EXCEPT ![o] = @ + Booked(o, r, now)]
  /\ signal' = [signal EXCEPT ![o] = "CLOSED"]
  /\ CancelRemainder(o)
  /\ UNCHANGED paperMode

monitorPosition(o, q, now, manualClose) ==
  LET r == managePaperPosition(Plan[o], position[o], q, manualClose)
  IN  \/ SkipForClockSkew(o, now)
      \/ RequireReconciliation(o, r, now)
      \/ ManagePosition(o, r, now)
      \/ ClosePosition(o, r, now)

(* POST /api/actions/close: the newest stored quote, at the request's time. *)
closePaperPosition(o, now) ==
  /\ Request
  /\ quoteIsFreshMarketData(quote, now)
  /\ IsOpen(o)
  /\ monitorPosition(o, quote, now, TRUE)

-----------------------------------------------------------------------------
(* The tick. *)

TickBegin ==
  /\ tick.phase = "idle"
  /\ tick' = [IdleTick EXCEPT !.phase = "awaiting", !.now = clock]
  /\ UNCHANGED <<clock, bounds, quote, books, control, risk>>

(* persistMarketData stores what the provider answered during the await,    *)
(* stamped with the time of the tick.                                       *)
ReadMarketData(q) ==
  /\ tick.phase = "awaiting" /\ tick.quote = NoQuote
  /\ q.receivedAt = tick.now
  /\ \E age \in QuoteAges : q.observedAt + age = clock
  /\ tick' = [tick EXCEPT !.quote = q]
  /\ quote' = IF q.receivedAt >= quote.receivedAt THEN q ELSE quote
  /\ UNCHANGED <<clock, bounds, books, control, risk>>

(* The pass takes its work lists one after the other, oldest row first.     *)
Oldest(todo, createdAt(_)) == {o \in todo : \A p \in todo : createdAt(o) <= createdAt(p)}
NextOrders    == Oldest(tick.todo, LAMBDA o : order[o].createdAt)
NextPositions == Oldest(tick.todo, LAMBDA o : position[o].openedAt)

WorkingOrders == {o \in Orders : IsWorking(o)}
OpenPositions == {o \in Orders : IsOpen(o)}

InPhase(phase, o) ==
  /\ tick.phase = phase
  /\ o \in (IF phase = "monitor" THEN NextPositions ELSE NextOrders)
  /\ tick' = [tick EXCEPT !.todo = @ \ {o}]
  /\ UNCHANGED <<clock, bounds, quote, risk>>

ExpireOne(o)  == InPhase("expire", o) /\ expireOrder(o)
CancelOne(o)  == InPhase("cancel", o) /\ cancelOrderForPaperOff(o)
MonitorOne(o) == InPhase("monitor", o) /\ monitorPosition(o, tick.quote, tick.now, FALSE)
FillOne(o)    == InPhase("fill", o) /\ fillOrder(o, tick.quote, tick.now)

(***************************************************************************)
(* The phases of a pass, each with its work list; a phase with no work is  *)
(* passed over.  Without a fresh quote the pass ends before it monitors    *)
(* anything; with paper mode off it cancels what is unfilled, monitors,    *)
(* and fills nothing.                                                      *)
(***************************************************************************)
Phase(name, todo) == [tick EXCEPT !.phase = name, !.todo = todo]

FillPhase ==
  IF paperMode /\ WorkingOrders # {} THEN Phase("fill", WorkingOrders) ELSE Phase("account", {})
MonitorPhase ==
  IF      ~quoteIsFreshMarketData(tick.quote, tick.now) THEN Phase("account", {})
  ELSE IF OpenPositions # {}                            THEN Phase("monitor", OpenPositions)
  ELSE FillPhase
(* Mutant: the cancellation pass is skipped. *)
NoCancelPhase == MonitorPhase
CancelPhase ==
  IF ~paperMode /\ WorkingOrders # {} THEN Phase("cancel", WorkingOrders) ELSE MonitorPhase
(* Mutant: orders expire only with market data. *)
ExpireOnQuotePhase ==
  LET expired == {o \in WorkingOrders : ExpiresAt(o) <= tick.now}
  IN  IF quoteIsFreshMarketData(tick.quote, tick.now) /\ expired # {}
      THEN Phase("expire", expired) ELSE CancelPhase
ExpirePhase ==
  LET expired == {o \in WorkingOrders : ExpiresAt(o) <= tick.now}
  IN  IF expired # {} THEN Phase("expire", expired) ELSE CancelPhase

reconcilePaperExecution ==
  /\ tick.todo = {}
  /\ \/ tick.phase = "awaiting" /\ tick' = ExpirePhase
     \/ tick.phase = "expire"   /\ tick' = CancelPhase
     \/ tick.phase = "cancel"   /\ tick' = MonitorPhase
     \/ tick.phase = "monitor"  /\ tick' = FillPhase
     \/ tick.phase = "fill"     /\ tick' = Phase("account", {})
  /\ UNCHANGED <<clock, bounds, quote, books, control, risk>>

(* The accounting at the end of the tick renews the risk state, in paper    *)
(* mode only; what it measures is external to this module.                  *)
TickEnd ==
  /\ tick.phase = "account"
  /\ tick' = IdleTick
  /\ IF paperMode
     THEN \E blocked \in BOOLEAN, cap \in RiskCaps :
            risk' = [known |-> TRUE, at |-> tick.now, blocked |-> blocked, cap |-> cap]
     ELSE UNCHANGED risk
  /\ UNCHANGED <<clock, bounds, quote, books, control>>

(* A step throws: its transaction is rolled back, the rest of the tick is   *)
(* skipped and entries are paused, unless that write fails too.             *)
TickFails ==
  /\ tick.phase # "idle" /\ faults < MaxFaults
  /\ faults' = faults + 1
  /\ tick' = IdleTick
  /\ entryPaused' \in {TRUE, entryPaused}
  /\ UNCHANGED <<clock, setbacks, requests, quote, books, paperMode, risk>>

(* The process dies between two transactions; initializeDatabase pauses.    *)
Restart ==
  /\ faults < MaxFaults
  /\ faults' = faults + 1
  /\ tick' = IdleTick
  /\ entryPaused' = TRUE
  /\ UNCHANGED <<clock, setbacks, requests, quote, books, paperMode, risk>>

-----------------------------------------------------------------------------
ScanTimes == RequestTimes \cup (IF tick.phase = "awaiting" THEN {tick.now} ELSE {})

Work(o) == ExpireOne(o) \/ CancelOne(o) \/ MonitorOne(o) \/ FillOne(o)

TickStep ==
  \/ TickBegin \/ reconcilePaperExecution \/ TickEnd
  \/ \E o \in Orders : Work(o)

Next ==
  \/ Advance \/ StepBack
  \/ Pause \/ Resume \/ \E enabled \in BOOLEAN : SetPaperMode(enabled)
  \/ \E o \in Orders :
       \/ \E now \in ScanTimes : persistScanResult(o, now)
       \/ \E now \in RequestTimes : closePaperPosition(o, now)
  \/ \E q \in Quotes : ReadMarketData(q)
  \/ TickStep
  \/ TickFails \/ Restart

Spec == Init /\ [][Next]_vars

(* setInterval keeps ticking, every await has a deadline, time passes.      *)
Fairness == WF_vars(TickStep) /\ SF_vars(Advance)

FairSpec == Spec /\ Fairness

-----------------------------------------------------------------------------
(* Properties. *)

OrderRow ==
  [status : {"NONE", "PENDING", "PARTIAL", "FILLED", "EXPIRED", "CANCELLED", "REJECTED"},
   remaining : Nat, createdAt : Nat]
PositionRow ==
  [status : {"NONE", "OPEN", "PARTIAL", "CLOSED"}, open : Nat, initial : Nat,
   entry : Int, stop : Int, tp1Hit : BOOLEAN, gross : Int, commission : Int, swap : Int,
   realized : Int, initialRisk : Int, openedAt : Nat, lastSwapAt : Nat, lastFillAt : Nat]
TickRow ==
  [phase : {"idle", "awaiting", "expire", "cancel", "monitor", "fill", "account"},
   now : Nat, quote : Quotes \cup {NoQuote}, todo : SUBSET Orders]

BooksTypeOK ==
  /\ order \in [Orders -> OrderRow]
  /\ signal \in [Orders -> {"NONE", "PENDING", "PARTIAL", "OPEN", "CLOSED", "EXPIRED",
                            "CANCELLED", "REJECTED"}]
  /\ position \in [Orders -> PositionRow]
  /\ trade \in [Orders -> [reason : Closing \cup {"NONE"}, net : Int, valid : BOOLEAN]]
  /\ ledger \in [Orders -> Int]

(* Every variable has its type; above all, no remainder and no open         *)
(* quantity ever goes below zero.                                           *)
TypeOK ==
  /\ clock \in Nat /\ setbacks \in Nat /\ requests \in Nat /\ faults \in Nat
  /\ tick \in TickRow
  /\ quote \in Quotes \cup {NoQuote}
  /\ BooksTypeOK
  /\ paperMode \in BOOLEAN /\ entryPaused \in BOOLEAN
  /\ risk \in [known : BOOLEAN, at : Nat, blocked : BOOLEAN, cap : Nat]

(* No lot is lost or created on its way from the order to the position: the *)
(* position holds what the order lost, an ended order has no remainder, and *)
(* before TP1 everything that was filled is still open.                     *)
LotsOf(o) ==
  /\ IsWorking(o) \/ order[o].status = "FILLED" =>
       position[o].initial + order[o].remaining = Plan[o].quantity
  /\ IsWorking(o) <=> order[o].remaining > 0
  /\ position[o].initial <= Plan[o].quantity
  /\ IsOpen(o) => position[o].open \in 1 .. position[o].initial
  /\ IsOpen(o) /\ ~position[o].tp1Hit => position[o].open = position[o].initial
LotsConserved == \A o \in Orders : LotsOf(o)

(* The ledger, the running totals of the position and the net of the trade  *)
(* tell the same story, through partial fills, TP1 and every kind of close. *)
BooksOf(o) ==
  /\ ledger[o] = NetPnl(position[o])
  /\ position[o].status = "CLOSED" => trade[o].net = ledger[o]
BooksAgree == \A o \in Orders : BooksOf(o)

(* Closing is all or nothing: a closed position has its trade, no open lot, *)
(* no working remainder that could reopen it, and a closed signal; nothing  *)
(* else has a trade.                                                        *)
SettledOf(o) ==
  /\ position[o].status = "CLOSED" <=> trade[o].reason # "NONE"
  /\ position[o].status = "CLOSED" =>
       ~IsWorking(o) /\ position[o].open = 0 /\ signal[o] = "CLOSED"
ClosedIsSettled == \A o \in Orders : SettledOf(o)

(* One side of the market carries at most one working order or open         *)
(* position, whatever scans, crashes and late fills do.                     *)
OneExposurePerSide ==
  \A o, p \in Orders :
    o # p /\ Plan[o].side = Plan[p].side =>
      ~((IsWorking(o) \/ IsOpen(o)) /\ (IsWorking(p) \/ IsOpen(p)))

(* After TP1 the stop sits at break-even of the entry the position really   *)
(* has: no later fill may average the entry away from under it.             *)
ProtectedOf(o) ==
  IsOpen(o) /\ position[o].tp1Hit =>
    /\ ~IsWorking(o)
    /\ position[o].stop = BreakEven(Plan[o].side, position[o].entry)
ProtectedAfterTp1 == \A o \in Orders : ProtectedOf(o)

(* A signal never claims an open trade that is not there, nor hides one.    *)
SignalOf(o) ==
  /\ IsOpen(o) => signal[o] \in {"PARTIAL", "OPEN"}
  /\ signal[o] \in {"PARTIAL", "OPEN"} => IsOpen(o)
  /\ signal[o] = "PENDING" <=> order[o].status = "PENDING"
SignalFollowsPosition == \A o \in Orders : SignalOf(o)

(* Only staging an order may raise the risk the account is exposed to: a    *)
(* fill moves risk from the order to the position, an exit or a             *)
(* cancellation releases it.                                                *)
OnlyStagingAddsRisk ==
  [][ (\A o \in Orders : order[o].status = "NONE" => order'[o].status = "NONE")
        => calculatePaperOpenRisk' <= calculatePaperOpenRisk ]_vars

(* An entry is filled once per quote, each time on a strictly newer quote,  *)
(* before the expiry of its order and never after a part of it left.        *)
FillsAreFresh ==
  [][ \A o \in Orders :
        position'[o].initial > position[o].initial =>
          /\ tick.quote.observedAt >= order[o].createdAt + FillLatency
          /\ tick.now < ExpiresAt(o)
          /\ position[o].initial > 0 => tick.quote.observedAt > position[o].lastFillAt
          /\ position'[o].open - position[o].open = position'[o].initial - position[o].initial
          /\ paperMode /\ position[o].status # "CLOSED" ]_vars

(* Every working order ends (filled, expired, cancelled or rejected), with  *)
(* or without market data, if the clock reaches its expiry.                 *)
WorkingOrdersEnd ==
  \A o \in Orders :
    (IsWorking(o) /\ ExpiresAt(o) <= MaxClock - MaxSetbacks) ~> ~IsWorking(o)

(* With paper mode off for good, no unfilled quantity survives. *)
PaperOffCancels ==
  <>[](~paperMode) => <>[](\A o \in Orders : ~IsWorking(o))

(* Turning paper mode off cancels all unfilled quantity: an order that was   *)
(* still pending when it was off is never filled later.                     *)
PaperOffIsFinal ==
  \A o \in Orders :
    (~paperMode /\ order[o].status = "PENDING") ~>
      order[o].status \in {"CANCELLED", "EXPIRED", "REJECTED"}

(* positions.realized_pnl is the money of the ledger.                       *)
RealizedMatchesLedger == \A o \in Orders : position[o].realized = ledger[o]

-----------------------------------------------------------------------------
(* The abstract life of an order. *)

StageOf(o) ==
  IF      order[o].status = "NONE"      THEN "none"
  ELSE IF position[o].status = "CLOSED" THEN "settled"
  ELSE IF IsWorking(o) \/ IsOpen(o)     THEN "live"
  ELSE "dead"

Contract == INSTANCE PaperContract WITH
  Quantity  <- [o \in Orders |-> Plan[o].quantity],
  stage     <- [o \in Orders |-> StageOf(o)],
  unfilled  <- [o \in Orders |-> order[o].remaining],
  held      <- [o \in Orders |-> position[o].open],
  exited    <- [o \in Orders |-> position[o].initial - position[o].open],
  protected <- [o \in Orders |-> position[o].tp1Hit]

(* Every step of the service is a step of the contract, or invisible to it. *)
ImplementsContract == Contract!Spec
=============================================================================
