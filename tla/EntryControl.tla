----------------------------- MODULE EntryControl -----------------------------
(***************************************************************************)
(* What decides whether a new paper entry may be staged, and how old it    *)
(* may be: the pause and the paper mode an operator sets, the heartbeat of *)
(* the worker, the risk state it derives from the equity snapshots and the *)
(* trades of the day, and the news calendar.                               *)
(*                                                                         *)
(* A tick reads the clock, awaits the feed and the calendar, and then      *)
(* scans, reconciles and accounts without interruption; requests come in   *)
(* between, the process may die or a tick fail anywhere.  Time is counted  *)
(* in intervals of the worker and kept as ages; a tick that is under way   *)
(* sees the ages of its beginning.                                         *)
(***************************************************************************)
EXTENDS Integers

CONSTANTS
  RiskMaxAge,        \* MAX_RISK_STATE_AGE_MS
  SnapshotInterval,  \* SNAPSHOT_INTERVAL_MS
  HeartbeatMaxAge,   \* the 45 s of workerReady
  NewsRefresh,       \* NEWS_REFRESH_MS
  NewsMaxAge,        \* the half hour of the news gate
  TickLength,        \* the deadlines of the three dependencies of a tick
  DailyLossLimit,    \* risk.dailyLossLimitR
  Environments,      \* what varies in a behaviour: see Varying
  MaxLoss,           \* bound: losses of a day, in R
  MaxFaults          \* bound: failing ticks and ends of the process

(* Whether the drawdown moves, trades lose, those that an operator closes   *)
(* too, events are announced and the calendar fails to answer.              *)
Varying == {"drawdown", "loss", "manual", "events", "calendar"}

ASSUME ControlAssumption ==
  /\ {RiskMaxAge, SnapshotInterval, HeartbeatMaxAge, NewsRefresh, NewsMaxAge} \subseteq Nat \ {0}
  /\ {TickLength, MaxLoss, MaxFaults} \subseteq Nat
  /\ DailyLossLimit \in Nat \ {0}
  /\ TickLength <= RiskMaxAge /\ TickLength <= HeartbeatMaxAge /\ NewsRefresh + TickLength <= NewsMaxAge
  /\ Environments \subseteq SUBSET Varying

(* Ages beyond which nothing depends on them.                               *)
RiskOld      == RiskMaxAge + TickLength + 1
SnapshotOld  == SnapshotInterval + TickLength
HeartbeatOld == HeartbeatMaxAge + 1
FetchOld     == NewsMaxAge + TickLength + 1
AttemptOld   == NewsRefresh + TickLength
SinceOld     == SnapshotInterval + RiskMaxAge + TickLength
OpenedOld    == TickLength + 1

None == -1
Older(age, old) == IF age = None \/ age = old THEN age ELSE age + 1

VARIABLES
  paperMode, entryPaused, \* app_state
  worker,    \* app_state worker: running, and the age of heartbeatAt
  risk,      \* app_state riskMetrics, and the age of its updated_at
  snapshot,  \* the latest row of equity_snapshots, which the worker also keeps
  memory,    \* #paperRiskState.dailyLossR, and whether #paperRiskDayStart is today
  news,      \* app_state newsProvider: status, age of fetchedAt; age of the last attempt
  exposed,   \* there is an order or a position: a scan stages no second one
  books,     \* what accounting would find now: see Init
  event,     \* an event of high impact: see Init
  tick,      \* where the tick is, and how long ago it read the clock
  ticked,    \* no state of the code: a tick was finished since the last stop
  faults, env

state == <<paperMode, entryPaused, worker, risk, snapshot, memory, news>>
world == <<books, event>>
vars  == <<state, exposed, world, tick, ticked, faults, env>>

Drawdowns == {"allowed", "paused"}

(* books: the drawdown of the equity at present marks, and the time since   *)
(* it was last below the pause limit; the loss of the day, and the time     *)
(* since it reached its limit.  event: the ages of its announcement and of  *)
(* the opening of its blackout, and whether the database has it.            *)
Init ==
  /\ env \in Environments
  /\ paperMode = TRUE /\ entryPaused = TRUE
  /\ worker = [running |-> FALSE, age |-> HeartbeatOld]
  /\ risk = [age |-> RiskOld, drawdown |-> "allowed", loss |-> 0]
  /\ snapshot = [age |-> SnapshotOld, drawdown |-> "allowed"]
  /\ memory = [loss |-> None, today |-> FALSE]
  /\ news = [status |-> "OFFLINE", age |-> FetchOld, attempt |-> AttemptOld]
  /\ exposed = FALSE
  /\ books = [drawdown |-> "allowed", since |-> 0, loss |-> 0, over |-> None]
  /\ event = [announced |-> None, opened |-> None, known |-> FALSE]
  /\ tick = [at |-> "idle", age |-> 0]
  /\ ticked = FALSE /\ faults = 0

LoopIsFree == tick.at \in {"idle", "reading", "scanning"}

-----------------------------------------------------------------------------
(* Time and the world. *)

Loses(b) ==
  [b EXCEPT !.loss = @ + 1,
            !.over = IF @ = None /\ b.loss + 1 >= DailyLossLimit THEN 0 ELSE @]

(* A tick that is under way is ended by the deadlines of what it awaits.    *)
Wait ==
  /\ LoopIsFree
  /\ tick.at # "idle" => tick.age < TickLength
  /\ tick' = IF tick.at = "idle" THEN tick ELSE [tick EXCEPT !.age = @ + 1]
  /\ worker' = [worker EXCEPT !.age = Older(@, HeartbeatOld)]
  /\ risk' = [risk EXCEPT !.age = Older(@, RiskOld)]
  /\ snapshot' = [snapshot EXCEPT !.age = Older(@, SnapshotOld)]
  /\ news' = [news EXCEPT !.age = Older(@, FetchOld), !.attempt = Older(@, AttemptOld)]
  /\ books' = [books EXCEPT !.since = IF books.drawdown = "allowed" THEN 0 ELSE Older(@, SinceOld),
                            !.over = Older(@, RiskOld)]
  /\ event' = [event EXCEPT !.announced = Older(@, FetchOld), !.opened = Older(@, OpenedOld)]
  /\ UNCHANGED <<paperMode, entryPaused, memory, exposed, ticked, faults, env>>

NewDay ==
  /\ tick.at = "idle" /\ books.loss > 0
  /\ books' = [books EXCEPT !.loss = 0, !.over = None]
  /\ memory' = [memory EXCEPT !.today = FALSE]
  /\ UNCHANGED <<paperMode, entryPaused, worker, risk, snapshot, news, exposed, event, tick, ticked, faults, env>>

DrawdownMoves ==
  /\ LoopIsFree /\ "drawdown" \in env
  /\ \E d \in Drawdowns : books' = [books EXCEPT !.drawdown = d, !.since = 0]
  /\ UNCHANGED <<state, exposed, event, tick, ticked, faults, env>>

(* An event may be announced, and its blackout open, at any time; it ends.  *)
EventMoves ==
  /\ LoopIsFree /\ "events" \in env
  /\ \/ event.announced = None /\ event' = [event EXCEPT !.announced = 0]
     \/ event.announced # None /\ event.opened = None /\ event' = [event EXCEPT !.opened = 0]
     \/ event.opened # None /\ tick.at = "idle"
          /\ event' = [announced |-> None, opened |-> None, known |-> FALSE]
  /\ UNCHANGED <<state, exposed, books, tick, ticked, faults, env>>

-----------------------------------------------------------------------------
(* The gates, as a request or a tick that read the clock e intervals ago    *)
(* sees them.                                                               *)

(* Mutant: a risk state counts as fresh whatever its age. *)
RiskIsPresent(e) == risk.age - e < RiskOld
RiskIsFresh(e) == risk.age - e <= RiskMaxAge

evaluateRiskGuard(e) ==
  RiskIsFresh(e) /\ risk.drawdown = "allowed" /\ risk.loss < DailyLossLimit

NewsIsFresh(e) == news.status = "HEALTHY" /\ news.age - e <= NewsMaxAge

InBlackout(e) == event.known /\ event.opened # None /\ event.opened >= e

evaluateNewsBlackout(e) == NewsIsFresh(e) /\ ~InBlackout(e)

WorkerReady == worker.running /\ worker.age <= HeartbeatMaxAge

(* readinessReasons is empty, but for the market. *)
IsReady == paperMode /\ WorkerReady /\ NewsIsFresh(0) /\ evaluateRiskGuard(0)

(* evaluatePaperScan: the risk a scan may take on.                          *)
RiskAllows(e) == ~entryPaused /\ paperMode /\ evaluateRiskGuard(e)

(* What of the gate does not depend on the market.                          *)
evaluateMtfGate(e) == evaluateNewsBlackout(e) /\ RiskAllows(e)

(* The strategy finds a setup, with a fresh quote and a tolerable spread,   *)
(* or does not.                                                             *)
Scan(e) ==
  \/ UNCHANGED exposed
  \/ evaluateMtfGate(e) /\ exposed' = TRUE

-----------------------------------------------------------------------------
(* The requests of an operator; one that is refused changes nothing here.   *)

Pause ==
  /\ LoopIsFree /\ entryPaused' = TRUE
  /\ UNCHANGED <<paperMode, worker, risk, snapshot, memory, news, exposed, world, tick, ticked, faults, env>>

Resume ==
  /\ LoopIsFree /\ IsReady /\ entryPaused' = FALSE
  /\ UNCHANGED <<paperMode, worker, risk, snapshot, memory, news, exposed, world, tick, ticked, faults, env>>

Paper(enabled) ==
  /\ LoopIsFree
  /\ paperMode' = enabled /\ entryPaused' = (entryPaused \/ ~enabled)
  /\ UNCHANGED <<worker, risk, snapshot, memory, news, exposed, world, tick, ticked, faults, env>>

(* A close books a result; a losing one costs one R.                        *)
Result(b) == IF "loss" \in env /\ b.loss < MaxLoss THEN {b, Loses(b)} ELSE {b}

ManualClose ==
  /\ LoopIsFree /\ exposed /\ exposed' = FALSE
  /\ books' \in IF "manual" \in env THEN Result(books) ELSE {books}
  /\ UNCHANGED <<state, event, tick, ticked, faults, env>>

OperatorScan ==
  /\ LoopIsFree /\ Scan(0)
  /\ UNCHANGED <<state, world, tick, ticked, faults, env>>

-----------------------------------------------------------------------------
(* The tick. *)

TickStarts ==
  /\ tick.at = "idle" /\ tick' = [at |-> "reading", age |-> 0]
  /\ UNCHANGED <<state, exposed, world, ticked, faults, env>>

(* Mutant: a calendar that is healthy is not asked for again. *)
DueIfUnhealthy(e) == news.attempt - e >= NewsRefresh /\ news.status # "HEALTHY"
NewsIsDue(e) == news.attempt - e >= NewsRefresh

(* What fetchedAt is after an attempt that failed.                          *)
(* Mutant: the time of the attempt. *)
AttemptedAt(e) == e
FetchedAt(e) == news.age

(* A calendar that fails is healthy as long as the cached one is fresh; no  *)
(* calendar at all is OFFLINE.                                              *)
RefreshNews ==
  /\ tick.at = "reading" /\ tick' = [tick EXCEPT !.at = "scanning"]
  /\ IF ~NewsIsDue(tick.age) THEN UNCHANGED <<news, event>>
     ELSE \/ /\ news' = [status |-> "HEALTHY", age |-> tick.age, attempt |-> tick.age]
             /\ event' = [event EXCEPT !.known = event.announced # None]
          \/ /\ "calendar" \in env
             /\ news' = [status |-> IF news.age - tick.age <= NewsMaxAge THEN "HEALTHY" ELSE "OFFLINE",
                         age |-> FetchedAt(tick.age), attempt |-> tick.age]
             /\ UNCHANGED event
  /\ UNCHANGED <<paperMode, entryPaused, worker, risk, snapshot, memory, exposed, books, ticked, faults, env>>

TickScans ==
  /\ tick.at = "scanning" /\ tick' = [tick EXCEPT !.at = "accounting"]
  /\ Scan(tick.age)
  /\ UNCHANGED <<state, world, ticked, faults, env>>

(* capturePaperEquitySnapshot, of the books that the tick leaves.           *)
(* Mutant: a snapshot that is kept is never too old. *)
KeptForever(e, force) == ~force /\ snapshot.age < SnapshotOld
SnapshotIsKept(e, force) == ~force /\ snapshot.age - e < SnapshotInterval
Captured(e, force, b) ==
  IF SnapshotIsKept(e, force) THEN snapshot ELSE [age |-> e, drawdown |-> b.drawdown]

(* The loss that persistPaperRiskState was handed, and what it makes of it: *)
(* Number of an absent loss is 0.                                           *)
CachedLoss(force) == IF ~force /\ memory.today THEN memory.loss ELSE None
AsNumber(cached) == IF cached = None THEN 0 ELSE cached
(* Mutant: an absent loss is passed on. *)
LossAsCached(force, b) == CachedLoss(force)
DailyLoss(force, b) ==
  IF AsNumber(CachedLoss(force)) >= 0 THEN AsNumber(CachedLoss(force)) ELSE b.loss

(* Reconciliation fills or closes, accounting follows, and the heartbeat.   *)
Account ==
  /\ tick.at = "accounting" /\ tick' = [at |-> "idle", age |-> 0]
  /\ \E closes \in {FALSE, exposed}, force \in BOOLEAN :
       /\ (closes => force) /\ (force => exposed)
       /\ exposed' = (exposed /\ ~closes)
       /\ \E b \in IF closes THEN Result(books) ELSE {books} :
            /\ books' = b
            /\ snapshot' = Captured(tick.age, force, b)
            /\ IF paperMode
               THEN /\ risk' = [age |-> tick.age, drawdown |-> snapshot'.drawdown, loss |-> DailyLoss(force, b)]
                    /\ memory' = [loss |-> DailyLoss(force, b), today |-> TRUE]
               ELSE UNCHANGED <<risk, memory>>
  /\ worker' = [running |-> TRUE, age |-> tick.age]
  /\ ticked' = TRUE
  /\ UNCHANGED <<paperMode, entryPaused, news, event, faults, env>>

(* The tick fails before its scan, after it or in it; the two writes that   *)
(* follow are no transaction.                                               *)
TickFails ==
  /\ tick.at # "idle" /\ tick' = [at |-> "idle", age |-> 0]
  /\ faults < MaxFaults /\ faults' = faults + 1
  /\ \/ UNCHANGED <<worker, entryPaused, ticked>>
     \/ worker' = [running |-> FALSE, age |-> tick.age] /\ UNCHANGED <<entryPaused, ticked>>
     \/ /\ worker' = [running |-> FALSE, age |-> tick.age]
        /\ entryPaused' = TRUE /\ ticked' = FALSE
  /\ UNCHANGED <<paperMode, risk, snapshot, memory, news, exposed, world, env>>

(* Mutant: the heartbeat of the last process is left as it was. *)
PausedOnly == entryPaused' = TRUE /\ UNCHANGED worker
initializeDatabase == entryPaused' = TRUE /\ worker' = [running |-> FALSE, age |-> HeartbeatOld]

Restart ==
  /\ faults < MaxFaults /\ faults' = faults + 1
  /\ initializeDatabase
  /\ memory' = [loss |-> None, today |-> FALSE]
  /\ news' = [news EXCEPT !.attempt = AttemptOld]
  /\ tick' = [at |-> "idle", age |-> 0] /\ ticked' = FALSE
  /\ UNCHANGED <<paperMode, risk, snapshot, exposed, world, env>>

TickProceeds == RefreshNews \/ TickScans \/ Account

World == Wait \/ NewDay \/ DrawdownMoves \/ EventMoves
Operator == Pause \/ Resume \/ (\E enabled \in BOOLEAN : Paper(enabled)) \/ ManualClose \/ OperatorScan
Next == World \/ Operator \/ TickStarts \/ TickProceeds \/ TickFails \/ Restart

Spec == Init /\ [][Next]_vars

(* setInterval starts ticks, every await of a tick has a deadline, and time *)
(* passes between the ticks.                                                *)
FairSpec == Spec /\ WF_vars(TickStarts) /\ WF_vars(TickProceeds) /\ SF_vars(Wait)

-----------------------------------------------------------------------------
(* Properties. *)

TypeOK ==
  /\ paperMode \in BOOLEAN /\ entryPaused \in BOOLEAN
  /\ worker \in [running : BOOLEAN, age : 0 .. HeartbeatOld]
  /\ risk \in [age : 0 .. RiskOld, drawdown : Drawdowns, loss : 0 .. MaxLoss]
  /\ snapshot \in [age : 0 .. SnapshotOld, drawdown : Drawdowns]
  /\ memory \in [loss : {None} \cup 0 .. MaxLoss, today : BOOLEAN]
  /\ news \in [status : {"HEALTHY", "OFFLINE"}, age : 0 .. FetchOld, attempt : 0 .. AttemptOld]
  /\ exposed \in BOOLEAN /\ ticked \in BOOLEAN
  /\ books \in [drawdown : Drawdowns, since : 0 .. SinceOld, loss : 0 .. MaxLoss, over : None .. RiskOld]
  /\ event \in [announced : None .. FetchOld, opened : None .. OpenedOld, known : BOOLEAN]
  /\ tick \in [at : {"idle", "reading", "scanning", "accounting"}, age : 0 .. TickLength]
  /\ faults \in 0 .. MaxFaults /\ env \in Environments

Entry == ~exposed /\ exposed'

(* Between a restart, or a failed tick that could pause entries, and the    *)
(* next tick that is finished no entry is staged, by the worker or by an    *)
(* operator: the resume that the pause asks for waits for the heartbeat.    *)
EntriesFollowATick == [][Entry => ticked]_vars

(* An entry is staged only if the drawdown was below its limit within the   *)
(* ages that the snapshot, the risk state and the tick may add up to.       *)
EntriesRespectDrawdown ==
  [][Entry => books.since < SnapshotInterval + RiskMaxAge + TickLength]_vars

(* No entry is staged in the blackout of an event that had been announced   *)
(* for longer than a calendar may be used, failing refreshes or not.        *)
EntriesAvoidNews ==
  [][Entry => ~(event.announced > NewsMaxAge + TickLength /\ event.opened > TickLength)]_vars

(* With paper mode left on, drawdown and loss of the day below their limits *)
(* and a calendar that answers, an operator can resume again and again,     *)
(* whatever failed and whatever loss an earlier day had.                    *)
ReadyAgain ==
  <>[](/\ paperMode /\ "calendar" \notin env
       /\ books.drawdown = "allowed" /\ books.loss < DailyLossLimit) => []<>IsReady

(* config.mjs: the product brief pauses new entries at 3R daily loss.  One  *)
(* that has been reached for longer than a risk state is used stops them.   *)
DailyLossStopsEntries ==
  [][Entry => books.over <= RiskMaxAge + TickLength]_vars
===============================================================================
