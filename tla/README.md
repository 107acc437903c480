# NEXORA XAU: verification of the paper-trading terminal

NEXORA XAU is a local terminal that scans gold (XAU/USD) on closed M15 candles,
stages *simulated* orders, fills them with an adverse paper broker, manages the
resulting positions and reports by web page and Telegram.  It is one Node.js
process over one SQLite file: JavaScript runs to the next `await` without
interruption, SQLite is synchronous and a transaction is atomic.  What is hard is
what happens between transactions and across awaits: operator requests that act
during a tick's awaits, a pass that dies half way, a quote seen twice, a clock
that steps back, three accounts of the same money kept by different branches, a
Telegram update that comes twice, a message of which nobody knows whether it was
accepted, a candle that is handed on once or never, a quote source that hangs, a
risk figure whose age is the sum of three caches.

Line references below are to the repository's files; `lifecycle` abbreviates
`src/services/paper-lifecycle-service.mjs`, `telegram`
`src/services/telegram-service.mjs`, `provider`
`src/providers/twelvedata-market-provider.mjs`.

## 1. Inventory

| Component | State | Operations | Interacts with | What is hard | Status |
|---|---|---|---|---|---|
| paper broker (`domain/paper-execution.mjs`) | none (pure) | `matchPendingOrder`, `managePaperPosition` | called by the lifecycle for each order / position and quote | exit priority inside one quote, gaps, half lots, prices driven to zero by slippage | modelled |
| paper lifecycle (`lifecycle`) | `orders`, `signals`, `positions`, `trades`, `ledger_entries` | expire, cancel for paper off, fill, reject for risk, monitor, TP1, close, manual close, reconcile pass | called by the tick and by `POST /api/actions/close` | a pass is many transactions; same rows updated by many branches | modelled |
| paper scan (`services/paper-scan-service.mjs`, `domain/paper-engine.mjs`) | inserts `signals`, `orders`, `scan_runs` | scan, `persistScanResult` | tick (once per M15 close), `POST /api/actions/scan` | duplicate gates read before, order key unique, the key of a close used up | modelled |
| strategy (`domain/strategy.mjs`) | none (pure) | `analyzeTimeframe`, `buildEntryPlan`, `evaluateMtfGate` | scan | prices in binary floating point against decimal ticks; old or missing candles | partly: all but the values of the indicators |
| indicators, sessions (`domain/indicators.mjs`, `market-sessions.mjs`) | none | series over candles | strategy | numerical | not modelled |
| risk state (`services/risk-state-service.mjs`, `domain/risk.mjs`) | `app_state.riskMetrics` | guard, sizing, open risk, daily loss, drawdown | scan, fill, resume, accounting | stale metrics, cached daily loss | modelled |
| worker tick (`worker.mjs`) | `app_state` flags, in-memory caches, `heartbeats` | tick: health, market data, news, scan, reconcile, accounting | every other component | awaits with deadlines, failure in the middle, restart, rollback against caches | partly: telemetry is left out |
| operator control (`server.mjs`) | `app_state.entryPaused`, `paperMode`, `idempotency_keys` | pause, resume, paper on/off, close, scan, news refresh, shutdown | tick (shared rows), Telegram (as a client) | requests during awaits, replays, readiness at resume | partly: keys of Telegram commands only, no news request |
| Telegram channel (`telegram`) | `telegram_notification_outbox`, update offset, audit cursor, last summary date, status; `commandLastAt` in memory | poll, process update, queue audit notifications, queue daily summaries, drain, start, stop | server (commands, as its client, under a key per update), audit events of everything, Telegram API | redelivery, crash between act and answer or between send and record, aborted sends, retries, backlog, changed allowlist | modelled |
| market provider (`provider`, `market-source.mjs`) | quote cache, published snapshot, candle history, emission marks, back-offs, timers, refresh in flight | background refresh, `readHealth`, `readMarketData` | tick; Twelve Data, Biquote, Swissquote | hanging requests and bodies, partial refreshes, wrong instruments, back-off, marks set before the write | modelled |
| news (`providers/forexfactory-news-provider.mjs`, `domain/news.mjs`) | `news_events`, `app_state.newsProvider` | refresh, blackout decision | tick, scan, resume | a calendar that fails but is still fresh | partly: no XML |
| paper equity (`services/paper-equity-service.mjs`) | `equity_snapshots` | capture | accounting | snapshots kept, partially closed positions | partly: when, not the sums |
| research (`domain/research-evaluation.mjs`, `services/research-service.mjs`, `research-cli.mjs`) | `research_*` rows | folds, replay, coverage, report | broker, worker, scan | which bars a replay scans | partly: folds and coverage |
| statistics (`domain/statistics.mjs`) | none | ratios for reports | reports | | not modelled |
| database and maintenance (`database.mjs`, `maintenance.mjs`, `migrations/`) | SQLite schema, backups | transaction, `runIdempotent`, migrate, backup, restore | everything | idempotency key and action commit together | partly: transactions as atomic actions |
| configuration (`config.mjs`) | none | limits and defaults | everything | | its limits are the CONSTANTS |
| dashboard (`dist/app.js`) | browser only | presentation | HTTP API | | not modelled |

What makes the modelled components correct:

* lots are conserved between order and position, and nothing ends with a
  remainder (`LotsConserved`);
* ledger, running totals and trade agree (`BooksAgree`); a close is all or
  nothing (`ClosedIsSettled`);
* after TP1 the stop protects the entry the position really has
  (`ProtectedAfterTp1`);
* signals say what is there (`SignalFollowsPosition`);
* one exposure per side whatever scans, crashes and late fills do
  (`OneExposurePerSide`), and the guarded risk never grows after the gate
  (`OnlyStagingAddsRisk`);
* one fill per quote, inside the order's life (`FillsAreFresh`);
* a working order ends even when market data does not come (`WorkingOrdersEnd`),
  and lasting paper mode off leaves nothing working (`PaperOffCancels`).

* a Telegram command acts once (`ActsAtMostOnce`), in order (`CommandsInOrder`), and is
  answered (`ActionsAreAnswered`) with the truth (`RepliesAreTrue`); every update is
  settled and every reply ends (`UpdatesAreSettled`, `RepliesEnd`);
* a message is sent a bounded number of times, ends once and is not sent after
  its end (`ImplementsContract`), never to a removed chat (`RemovedChatsGetNothing`),
  with its text kept as long as it can be sent (`PendingKeepsText`);
* no audit event or day is left out of the notifications (`NothingSkipped`);
* a usable set of quotes is taken away by no refresh, partial, refused or failing,
  unless what it brings came too late (`HealthLasts`), what it publishes as new it
  fetched itself, every symbol of it (`PublishedIsFetched`), a refresh ends
  (`RefreshEnds`) and a fallback brings the feed back (`FallbackRecovers`);
* a candle missing from the history was passed over by a batch that lacked it, refused,
  or handed on in vain, and by nothing else (`HolesWereMissed`); what the worker
  remembers of rows is what is stored (`RememberedRowIsStored`);
* each close is scanned, neither left out nor gone back to (`ClosesAreScanned`,
  `MarkedWasScanned`, `ScansMoveForward`);
* no entry is staged before a tick was finished (`EntriesFollowATick`), beyond the
  drawdown limit (`EntriesRespectDrawdown`) or in a known blackout
  (`EntriesAvoidNews`), and an operator can resume again (`ReadyAgain`);
* plans have their levels in order and promise what they say, sizes stay in the
  budget, an accepted scan rests on the latest closes (theorems of
  `ScanDecisionProofs`); the test folds cover every test bar once (`ResearchReplayProofs`).

`PROJECT.json` lists the hazards, each at its line, with the properties that
catch it or the reason why none does yet.

## 2. Modules

| Module | Models |
|---|---|
| `PaperExecution` | The broker, as operators: fill price and lots of a working order, exit of a position (stop, TP1, TP2, manual close, their priority, gaps, slippage, commission, reconciliation). |
| `PaperLifecycle` | The rows and every transaction on them, the reconcile pass of a tick, operator requests, the clock, failures and restarts. |
| `PaperContract` | What the service promises of one order, abstractly: lots flow one way, unfilled to held to exited; TP1 ends filling; settled once. |
| `ScanDecision` | What a scan makes of the market, as operators: candle checks, votes, entry plan on ticks in floating point, size, gate. |
| `MCPaperLifecycle` | The plans of the TLC instances, each what `ScanDecision` builds of a quote (`PlansAreBuilt`). |
| `PaperLifecycleProofs` | The inductive invariant, the safety theorems, the refinement of `PaperContract`, fills, sums of risk, what a pass settles. |
| `TelegramOutbox` | The Telegram bridge: the poll-and-flush loop with its awaits, commands and their keys, replies, cursor and summaries, drains, retries, start, stop, crashes. |
| `DeliveryContract` | What the outbox promises of each message, abstractly: at most `Limit` copies, one end, nothing after it. |
| `MCTelegramOutbox` | The TLC instances. |
| `TelegramOutboxProofs` | The inductive invariant, the safety theorems, completeness of the notifications. |
| `TelegramOutboxRefinement` | The refinement of `DeliveryContract`, and the action properties. |
| `MarketFeed`, `MCMarketFeed` | The provider: background refresh over three sources, deadlines, back-offs, timers, publication, and the ticks that read it. |
| `MarketFeedProofs` | Its inductive invariant, safety theorems, and the progress of a refresh. |
| `MarketIngest` | The way of M15 candles and quotes into the database and to the scan: emission marks, insert / conflict / repair, the cached row, probe, scan, note. |
| `MarketIngestProofs` | Its inductive invariants and safety theorems. |
| `EntryControl`, `MCEntryControl` | What decides whether an entry may be staged and how old that may be: pause, paper mode, heartbeat, equity snapshot, risk state, daily loss, calendar. |
| `EntryControlProofs` | Its inductive invariants and safety theorems. |
| `ScanDecisionProofs`, `MCScanDecision` | Theorems about plans, sizes and the gate for every price grid; the floating-point instance of finding 5. |
| `ResearchReplay`, `ResearchReplayProofs` | Folds and scan coverage of the walk-forward evaluation, as operators, with their theorems. |

**How they fit.**  The tick is one loop and the modules cut it along its awaits and
tables.  `MarketFeed` is what `readHealth` and `readMarketData` read; what it serves
(a usable quote, or none) is the quote of `MarketIngest` and `PaperLifecycle`.
`MarketIngest` ends where a scan of a close begins; `EntryControl` and `ScanDecision`
say whether that scan may stage, the first for the gates that change with time, the
second for those computed from candles and quote; `PaperLifecycle` stages the plan and
carries it to its end.  `ScanDecision` is composed with `PaperLifecycle` in
`MCPaperLifecycle`: the plans of its instances are what `buildEntryPlan` and
`calculatePositionSize` return.  Every transaction of the lifecycle and every operator
action appends audit events, which `TelegramOutbox` takes as `AuditEvent` (an
environment action), and its commands are the operator requests of the others.
Otherwise the modules share no variable beyond the flags and ages that each of them
carries, so they are checked apart.

### How PaperLifecycle corresponds to the code

* **State.** One element of `Orders` is a logical order key (M15 close and
  direction).  `order`, `signal`, `position`, `trade` are its rows, `ledger` the
  sum of its ledger entries, `paperMode` / `entryPaused` / `risk` the entries of
  `app_state`, `quote` the market snapshot with the latest `received_at`, `tick`
  the tick in flight: its phase, the time it read at its beginning, the quote it
  received and the rest of its work list.
* **Grain.** One action per transaction.  `TickBegin`, `ReadMarketData`,
  `reconcilePaperExecution` (from one phase to the next), one of `ExpireOne`,
  `CancelOne`, `MonitorOne`, `FillOne` per row, `TickEnd`.  After the last await
  of a tick the pass runs to the end without yielding, so requests, scans and
  the clock act only in the phases `idle` and `awaiting` (`LoopIsFree`); a
  failure (`TickFails`) or a death (`Restart`) may fall between any two
  transactions.
* **Time.** A tick uses the time it read at its beginning for everything it
  does, a request the time it read before its body arrived (`RequestTimes`,
  `server.mjs:1040`): both act on a clock that may have moved on.  The wall clock
  may step back.  A quote carries `observedAt` and `receivedAt`, the second
  being the time of the tick that read it.
* **Broker and verdicts.** `fillOrder` first decides (`FillVerdict`, in the order
  of the early returns) and then one of four disjuncts writes the rows.  Its
  checks for expiry and for TP1 are kept although a pass in which the earlier
  phases ran does not reach them.  An unusable cost model is `HoldOrder`.
* **Money and lots.** Lots are counted in lot steps, prices in ticks, money in
  cents; `lotRisk` is the risk of one lot step, so no rounding of the budget is
  modelled, while the rounding of swap, entry average and partial lots is.

### What is abstracted

One symbol: the code takes each symbol in turn and its duplicate gate is per
symbol.  In this module the gates of a scan and of resume that read external data
are nondeterministic, so it allows more scans and resumes than the code; they are
modelled in `ScanDecision` and `EntryControl`.  Plans of the code are LIMIT orders
only; the broker's branch for STOP orders is in `PaperExecution` and covered by the
proofs, which hold for every plan, not by the instances.  What the accounting measures
(`blocked`, and `cap`, the allowed risk times equity) is nondeterministic at the
end of a tick; it is stored in paper mode only.  The pause written by the catch
block of a tick may fail.  Excursions (MAE, MFE), unrealised profit, reason codes,
audit rows and telemetry are left out.  `LIMIT 100` on the candidate rows is not
modelled (the instances hold one or two orders).

### How TelegramOutbox corresponds to the code

* **State.** `inbox[u]` is the sender of update `u` (user and chat are one: both must
  be allowed); `ran[u]` counts how often its action was carried out, and the key
  `telegram-update-u` is in `idempotency_keys` when it is not 0.  `audit[e]` says
  whether event `e` has a message (`notificationsForAudit`).  A row of `outbox` has the
  columns of the table; `waiting` stands for a `retry_after_at` in the future, `shown`
  is no column but counts how often Telegram accepted the message.  `recent[c]` is
  `commandLastAt` as long as it is within the cooldown.  -1 stands for a cursor or
  a summary date that was never stored.
* **The loop.** `loop.at` is the await or the transaction the loop stands at,
  `loop.todo` the rest of the batch or of the drain, `loop.run` tells the drain
  after a poll, the one of the flush, and that of the last flush, which runs
  without the abort signal (`telegram:491`).  One action is what runs without
  yielding: `PollAnswered` (271), per update `SkipStale`, `IgnoreUpdate`,
  `RefuseCommand` or `SendCommand` followed by the local API (`CommandActs`,
  `CommandRefused`) and by `RecordReply`; `queueAuditNotifications`,
  `queueDailySummaries`; `drainNotificationOutbox` selects the rows, and for each
  `DiscardRow`, or `AttemptRow` followed by the await of `sendMessage` and one of
  `Sent`, `SendGivenUp`, `SendFailed`, `SendAborted`.  `TelegramAccepts` is Telegram's own
  step and may happen although the outcome is then an error, an abort or a crash.
* **Commands.** `CommandActs` is `runIdempotent`: action, audit event and key commit
  together, and a known key gives the stored answer.  An answer that the API
  stores although it is a refusal (a resume that is not ready) counts as acting:
  it writes an audit event and a key.  `CommandRefused` is every answer that leaves no
  key: errors, malformed commands (`server.mjs:1490`) and commands that only read.
* **Failure.** `StepFails` is an exception from any transaction or from the request
  to the local API, also after the action committed; the loop's catch starts
  over.  `Crash` keeps the database and loses the rest.  `Start` may come with
  another allowlist and another notification setting, as after an edit of the
  configuration.  After `Stop` the running send or poll is aborted and the stop
  routine flushes once more.

Abstracted: rows queued in one transaction get their ids in any order;
`TELEGRAM_RATE_LIMITED` and `TELEGRAM_REPLY_FAILED` are one error (`TRANSIENT`), the
longer of their delays being left to `RetryDue`; every action of a command has a
notification; a poll answer may also repeat older updates, which the real API
does not do after an offset but `telegram:211` guards against; the sleep after an
error and the minimum interval of sends are no steps; wording, the length limit,
fingerprints and their salt are left out; a bridge that is configured off does
nothing and is not modelled.

### How MarketFeed corresponds to the code

* **State.** `quotes` is the quote cache, `snapshot` and `published` the complete set
  and its age, `verified` the symbols whose M15 candles are there to check quotes
  against (`provider:52`), `backoff` the time before which Twelve Data is not asked,
  `retry` that of the background refresh with its timer, `cycle` the turn of the
  timeframes, `refresh` the refresh in flight, `health` what the last tick saw,
  `sound` the sources that have come to answer well.
* **Grain.** What happens between two answers is one step of the event loop; an
  action is one answer: `ReadBatch` or `BatchFails`, `ReadSingle`, `ReadFallback`,
  `ReadCandles` or `CandlesFail`, `ReadBars`, each with all that follows without an
  await (`Continue`, `QuotesSettled`, `Finished`).  `Prime`, `IntervalFires`, `RetryFires`
  are timers.  `WorkerTick` is the passing of a tick's period with the tick's own
  `readHealth` and `readMarketData`, which only read the cache while the feed runs.
* **Sources.** An answer brings, for any of the symbols asked for, a quote that is
  fresh or not and of the right instrument or not.  A request may hang without an
  answer until the deadline aborts it, or with the headers of one (`late`), when the
  abort no longer applies (`provider:138`).  A sound source answers at once and well.
  That each request is also aborted after 12 s (`provider:26`) is not modelled: a hang
  lasts until the refresh is aborted, so one source may use up the time of a refresh.
  The model allows more delay than the code.
* **Abstracted.** Ages are those of quotes: the age of the fetch follows from them.
  Endpoints tried for one symbol are one request, symbols are asked in any order.
  A final failure of a refresh and "no candles" count as not rate-limited; an answer
  of Biquote without candles is an error.  Candles are of the right instrument.

### How MarketIngest corresponds to the code

`batch` is the candle cache of the provider: the closes of which it has a row, `emitted`
the mark of what was handed on, `candles`, `row`, `scanned`, `runs` the rows and keys of
the database, `rowCache` the worker's memory of the latest row, `probe` the time to the
next probe.

* **Batches.** `ReadCandleBatch` brings any rows of closes that have settled, at most
  `Window` of them (`CANDLE_COUNT`, `provider:17`): a source may lag, an outage may have
  outlasted the window, and a row that is absent or unreadable is dropped
  (`provider:272`, `773`).  Freshness (`provider:793`) is asked of Twelve Data only, so
  any batch that is not empty may come, from Biquote.  The source may still revise the
  newest row.
* **Handing on.** A tick hands on the rows after the mark and moves the mark to the newest
  row (`provider:713`-`721`), over the closes the batch lacks too (`Lacked`).  In
  `TickWithMarket` they reach the transaction of `persistMarketData`, which may fail at its
  beginning or later (`worker.mjs:407`, `Remembered`) and may refuse rows (`candleValid`);
  its `slice` (344) cuts nothing, as no batch has more rows.  In `TickWithoutQuote` a quote
  expired between `readHealth` and `readMarketData`, which throws once the mark is moved
  (`provider:732`).
* **`missed`** is no state of the code: it has the closes the mark was moved over without
  their row, those refused and those handed on in vain, until they are stored after all.
* `ScanProbe` and `MarkScanned` are the rest of the tick.  One symbol, one timeframe; values
  are `early` or `final`.

### How EntryControl corresponds to the code

Time is kept as ages.  `risk`, `snapshot`, `worker` and `news` are the stored rows with
their ages, `memory` what the worker keeps of the daily loss, `books` what accounting
would find now, `event` one event of high impact: since when it is announced and its
blackout open, and whether the database has it.  A tick is `TickStarts`, `RefreshNews`,
`TickScans`, `Account`, each with the age of the clock reading (`tick.age`), between which
operators act and time passes up to the deadlines of the dependencies; `TickFails`
leaves any prefix of its two writes, `Restart` is `initializeDatabase`.  `Scan` takes the
gates of `evaluatePaperScan` that do not depend on the market and leaves the rest open.
Drawdown is below or above its limit, a losing trade costs one R.  `ticked` is no state
of the code.

### How ScanDecision and ResearchReplay correspond to the code

They are operators with the names of the functions.  In `ScanDecision` a price is a
whole number of units; neighbouring floating-point numbers are `Grid` units apart and
`Number(text)` is the nearest (`Stored`), which is what `roundToTick` returns, with its
`1e-10` as `Tolerance`.  Sums and differences are exact, as those of prices of similar
size nearly are; the comparison of the quotient with 2 becomes one of distances.
Indicators are inputs: the votes and the levels.  In `ResearchReplay` the worker's probe
and candle choice are those of `worker.mjs:485` and `692` at the instants of the quotes.

## 3. Runs

`Advance` stops at `MaxClock`, so the lifecycle runs reach states with nothing left to
do at the end of time and say `CHECK_DEADLOCK FALSE`; so may the bridge, when it is
down and `MaxStarts` is reached, and the other instances when their clock stands still.
A cfg names in `Environments` what may vary in a behaviour: each behaviour draws one of
them at its beginning, so that a run covers several questions without their product.

| Run | Instance | Question |
|---|---|---|
| `lifecycle` | one order of 2 lots, quotes at the stop, in the zone of the entry and beyond TP2, one clock setback, late requests, 2 requests, clock to 2 | Do lots, money, signals, protection and closing stay coherent, are fills fresh, and is every step one of the contract? |
| `exposure` | two longs and a short, one crash or failed tick, prices down to 1 where slippage leaves none to execute at | Never two exposures on a side; only staging adds risk; books with several work items per phase. |
| `liveness` | one order, quotes that may never come, one crash, one setback, fairness | Working orders end; lasting paper off leaves nothing working. |
| `outbox` | one chat, that may be removed and added, two starts, one fault, two attempts per message; in turn: two updates and transient errors, one update and every error, notifications with events up to two besides those of the bridge and two days, a batch of one; fairness | Do commands act once, in order, and get true answers; is the outbox a delivery contract; do removed chats get nothing; is any event or day left out; is every update settled, does every reply end? |
| `feed` | two symbols, one of which a source may confuse, quotes handed out two units old by a source that is not sound, one timeframe, Biquote may become sound, back-off growing over three failures, fairness | Does a usable set last, is what is published as new fetched by its refresh, do refreshes end, does a fallback bring the feed back? |
| `ingest` | three closes, a window of two, a batch that may lag, lack rows, be revised and conflict, rows refused, one fault, clock to 3, fairness | Is every hole of the history a candle that was passed over, refused or handed on in vain; is every close scanned, none left out or gone back to; is the remembered row the stored one? |
| `control` | in turn: a moving drawdown; losses; events and a failing calendar; two faults, every cache living one or two intervals; fairness | Do entries wait for a tick, respect drawdown and news; can an operator always resume again? |
| `manual_close` (violation) | one order | `RealizedMatchesLedger` fails: finding 1. |
| `paper_off_on` (violation) | one order, three requests, fairness | `PaperOffIsFinal` fails: finding 2. |
| `outbox_discard` (violation) | one update, both kinds of send errors | `EndedTextIsGone` fails: finding 3. |
| `daily_loss` (violation) | losing trades, no faults | `DailyLossStopsEntries` fails: finding 4. |
| `min_reward` (violation) | prices 3 units apart, a tick of 20 | `TwoRIsEnough` fails: finding 5. |

**Bounds.** Two lots are the least that can be filled in part, and the least that
TP1 can halve; the one-lot plans cover the TP1 that closes nothing.  `Bids` reach
each branch of the broker: at the stop and in the entry zone, through TP1 and TP2, and
below the slippage (1).  A clock to 2 with quotes and risk metrics
that live one or two units covers a fresh, an ageing and a stale quote, one
order that expires, and two monitoring passes on one position.  Two requests
allow resume followed by a close or a paper switch; a third, in `paper_off_on`,
allows off followed by on.  Crashes are in `exposure` and `liveness` and, for
every property below, in the proofs; the `lifecycle` run spends its budget on
the setback instead.  Orders never interact except through risk and the duplicate
gate, which is why three suffice.

In the outbox, two attempts are the least with a first, a retry and a last one;
two updates the least that can be out of order and that let the cooldown and a
redelivery meet; two starts with one fault cover every point at which a process
may die and be followed by another.  A drain of one row with two replies, and a
batch of one event while a start, a stop and others write up to five,
make the backlogs happen.  Commands and notifications meet in the rows only, and a row
is drained for itself, so they are varied in turn.  A reply behind queued notifications is
therefore in no behaviour TLC visits: each action of a command is an event of its own, and
both together exceed its reach.  The safety theorems cover the mixture; `RepliesEnd` and
`UpdatesAreSettled` are checked with notifications off.

In the feed, two symbols are the least with a partial refresh and with one symbol
refused; quotes live as long as a period of the feed, so that one missed refresh ends
health.  Sources hand out quotes that are two units old of the three a quote lives, new
ones (only a sound source does) or none that is fresh: a quote can grow too old during
the refresh that fetched it and displace a usable one, the case that `HealthLasts` excepts.
One timeframe has its turn in every refresh.  In the ingest, three closes are the least
of which a window of two leaves one out, and a boundary can be a conflict with a hole
below and a close above it; one fault is a failed transaction, a crash between a scan
and its note, or a restart. Two of them, and quotes ahead of the clock, exceed TLC's
reach beside three closes: they are left to the proofs, and `ClosesAreScanned` is
checked without them.  In control, every age has its own bound of one or two intervals,
in the order the code's bounds have, and ages beyond the largest that matters are one.
In `min_reward` the tick is no multiple of the grid, as a decimal tick is no binary
fraction; with `Grid = 1` the property holds (`ExactPricesKeepTwoR`).

**Fairness.** `WF_vars(TickStep)`: `setInterval` keeps starting ticks and each
await of a tick has a deadline (`withDeadline`, `worker.mjs:211`), so a tick that
can go on does.  `SF_vars(Advance)`: time passes whatever else happens; it is
strong because the clock cannot move while a pass runs.  Nothing is assumed of
quotes, operators, or faults beyond their bound.

For the bridge, `WF_vars(LoopStep \/ (loop.stopping /\ PollFailed))`: requests to
Telegram time out after 25 s and 10 s (`telegram:170`), the stop aborts them, and
the local API answers (it is the same process).  Polls may fail, but not for
ever, which liveness needs: `PollFailed` alone does not count as progress.  A reply
that waits becomes due at last (`WF` of `RetryDue` of the replies; attempts are limited,
so that one does not keep another waiting), the clock moving on.  Nothing is
assumed of users, of the audit, or of Telegram accepting anything.  `UpdatesAreSettled` and
`RepliesEnd` end with every update settled, every reply ended, or the bridge down (users
send finitely many, so that all is a promise about each): one
that is shut down and not started again settles nothing, one that is started
again owes it anew.

For the feed, `WF_vars(Answer)`, `WF_vars(Timer)` and `WF_vars(WorkerTick)`: requests end, at
the latest when the deadline of the refresh aborts them or, for a stalled body, when the
platform does; timers fire; ticks are started by `setInterval`.  Nothing is assumed of the
sources until one is sound, which it need not become.  `FallbackRecovers` assumes besides
that bodies do not stall again and again (`<>[](~refresh.late)`): a stalled body holds up
the one refresh in flight, and no deadline of the program applies to it.  It is run for
Biquote, which is asked first; for Swissquote, asked after it, it fails in this model,
as a hanging Biquote may use up every refresh, which the 12 s per request that are not
modelled prevent in the code.  For the ingest,
`WF_vars(Tick)`.  For control, `WF` of `TickStarts` and of what follows in a tick, and
`SF_vars(Wait)`: time passes between ticks however often they run.  `ReadyAgain` assumes
that paper mode stays on, that drawdown and loss of the day stay below their limits and
that the calendar answers.  The loss is that of the books, not the one the risk state
carries, which is always 0 (finding 4): the property holds as well with that finding
mended, when a loss of an earlier day must not keep the pause up.

## 4. Proofs

### The paper lifecycle

`PaperLifecycleProofs` proves, for every finite set of orders, every plan, quote, cost, delay and bound satisfying `PlanAssumption`,
`BoundsAssumption` and `CostsAssumption`:

| Theorem | States |
|---|---|
| `NextKeepsIInv`, `Invariance` | `IInv` is inductive and holds in every reachable state |
| `TypeCorrect`, `LotsAreConserved`, `BooksAlwaysAgree`, `ClosingIsAtomic`, `Tp1Protects`, `SignalsAreTrue` | the invariants of the `lifecycle` run |
| `OneExposure` | `OneExposurePerSide` |
| `FillsAreAlwaysFresh` | `FillsAreFresh` |
| `OnlyStagingAdds` | `OnlyStagingAddsRisk` |
| `LimitsAreKept` | the entry of a limit position is never worse than the limit price of its order |
| `PassInvariance`, `PassSettlesOrders` | a tick that runs to its end leaves nothing expired working, and nothing at all with paper mode off |
| `PassProgresses` | only a failure or a restart comes between the steps of a pass, each of which brings it nearer to its end |
| `Implements` | `Spec => Contract!Spec` |

**The argument.** None of the properties is inductive alone: `SignalFollowsPosition`
needs to know that an order without fills has no position, `LotsConserved` that a
fill only reaches a working order, which depends on the work list of the pass
still naming working orders.  The inductive invariant is

    IInv == TypeOK /\ WorkListsOK /\ \A o \in Orders : Coherent(o)

`WorkListsOK` says that what is left on the list of a phase is still working
(expire, cancel, fill) or open (monitor): requests cannot act inside a pass and
the transactions of one phase touch only their own row.  `Coherent(o)` conjoins
the per-order parts of the invariants above with `LinkedOf`, which ties the
status of the order to the existence of the position.  Each transaction is shown
to keep `Coherent` of its own order and the rows of all others (`KeepsCoherence`);
`ManageOutcome` abstracts what `managePaperPosition` may return, so that no
transaction proof opens the broker.  The refinement maps the rows of an order to
stage, unfilled, held and exited lots; each transaction is one step of the
contract or a stutter.

*Fills.*  Only a match of the fill phase adds lots to a position (`OnlyMatchesFill`);
that it then has paper mode on is a second invariant, `FillsInPaperMode`: the phase is
entered with it on and no request is served before the pass ends.

*Prices.*  The entry is averaged anew and rounded at every partial fill; that it stays on
its side of the limit price (`LimitsAreKept`) is inductive, given that a rounded average
does not pass a bound its parts keep (`AverageBounds`).

*Risk.*  `OnlyStagingAddsRisk` compares two sums over all orders, which the code and the
model fold.  For a plan with whole lots the risk of an order is `lotRisk` times the lots
it has not filled plus those its position still has open (`RiskOfLots`, by the division
in `PositionRisk` being exact, `ProRata`), and no transaction but staging adds to
these (`ExposureFalls`).  That the fold of smaller terms is not larger (`SumsInOrder`)
would be an induction over sets; it is proved as the absence of a smallest subset
whose sum is larger (`SmallestSet`), and the fold, a recursive function on finite sets,
is shown to exist (`SumExists`) in the same way.

*Passes.*  `PassOK` states what each phase relies on: after the first no working order has
expired, the cancellation is entered with paper mode off and has every working order
on its list, and behind it nothing works unless paper mode is on.  With `PassNearsItsEnd`
this is all of `WorkingOrdersEnd` and `PaperOffCancels` but the fairness: the passes that
must come, end, and settle what they find.

**Only model-checked:** `WorkingOrdersEnd` and `PaperOffCancels` themselves.

### The Telegram bridge

`TelegramOutboxProofs` and `TelegramOutboxRefinement` prove, for every finite set of
chats and every limit and bound satisfying `OutboxAssumption`:

| Theorem | States |
|---|---|
| `Invariance` | `IInv` holds in every reachable state |
| `TypeCorrect`, `ActsOnce`, `Ordered`, `TrueReplies`, `TextIsKept` | the invariants of the `outbox` run |
| `NoneSkipped` | `NothingSkipped` |
| `OutboxImplements` | `Spec => Contract!Spec` |
| `RemovedChats`, `Answers` | the action properties `RemovedChatsGetNothing`, `ActionsAreAnswered` |

**The argument.** That a key makes an action unique is immediate; that the *reply*
is right is not: after a crash a redelivered command must find its own entry in
the cooldown, or none, and the reply must be of an update at or before the
offset.  `IInv == TypeOK /\ CommandOK /\ DeliveryOK`.  `CommandOK`: what is left of a
polled batch is an interval that begins at or before the first unsettled update
(`BatchOK`), so a command in flight is that one; only it can have acted without
being settled, and then the cooldown of its chat is its own or has passed
(`ActedOK`); replies are to settled updates (`ReplyOK`).  `DeliveryOK`: copies never
exceed attempts, the rows a drain still has to take have not ended and have an
attempt left, and the one being sent has used it.  Steps are grouped by what
they do to the outbox (`RowsAdded`, `RowsUpdated`), and the refinement maps a row to its
state and its copies: adding rows is `Queue`, an attempt or a retry a stutter, and
the drain's sweep drops the rows whose last attempt was cut off.

*Notifications.*  `NothingSkipped` is inductive with two more facts (`NoticesOK`): no row is
ahead of the audit cursor or of the last day summarised, so that what a flush queues is
new and its insertion is not ignored as a duplicate; and the owners are on every
allowlist a start brings, so that it is queued for each of them.  A flush takes a
prefix of the backlog (`QueueLimit` bounds it), and the cursor moves with the rows in one
transaction: that is the step in which a crash, a limit or a removed chat could lose one.

**Only model-checked:** `UpdatesAreSettled`, `RepliesEnd`.

### Entries

`EntryControlProofs` proves, for every age and bound satisfying `ControlAssumption` and every
set of environments:

| Theorem | States | Inductive invariant besides the types |
|---|---|---|
| `TypeCorrect` | `TypeOK` | |
| `EntriesWait` | `EntriesFollowATick` | `TickInv`: entries that are on, or a worker that runs, follow a finished tick |
| `EntriesStop` | `EntriesRespectDrawdown` | `DrawdownInv`: what a snapshot allows held at most its age ago, what a risk state allows at most its age and that of the snapshot it came from |
| `EntriesAreQuiet` | `EntriesAvoidNews` | `NewsInv`: an event announced before the calendar was fetched is known |

The properties speak of entries, the invariants of the caches behind them: each step of
the time makes all ages grow together, each refresh resets one against another, and a
scan compares what is left with its limits (`EntryIsScanned`).  **Only model-checked:**
`ReadyAgain`.

### Ingestion

`MarketIngestProofs` proves, for every period, window, age and bound satisfying `IngestAssumption`:

| Theorem | States | Inductive invariant besides the types |
|---|---|---|
| `TypeCorrect` | `TypeOK` | |
| `NoOtherHoles` | `HolesWereMissed` | `HoleInv`: up to the mark, and below every stored candle, all is stored or missed; no row of the batch is ahead of the clock |
| `NoScanIsLeftOut`, `NoScanIsTakenBack` | `MarkedWasScanned`, `ScansMoveForward` | `ScanInv`: the noted close is stored and scanned; between a scan and its note the close to note is the one scanned |
| `RememberedRow` | `RememberedRowIsStored` | itself |

For the holes, a tick is one of two kinds: it stores what it hands on, or what it hands on
is missed (`MarkMoves`, of which a tick in vain is a case).  What a transaction leaves out
is older than a stored candle or a conflict (`BoundaryIsStored`), so the invariant itself
says that it is there or was missed before; and it is never left out for being in the
future, for which the clock must not be behind the batch.

**Only model-checked:** `ClosesAreScanned`.

### The market feed

`MarketFeedProofs` proves, for every set of symbols, every age, cycle and back-off
satisfying `FeedAssumption`:

| Theorem | States |
|---|---|
| `TypeCorrect` | `TypeOK` |
| `PublishesWhatItFetched` | `PublishedIsFetched` |
| `UsableSetLasts` | `HealthLasts` |
| `RefreshNearsItsEnd` | a refresh in flight waits for something, and every answer ends it, moves it to a later stage or leaves fewer symbols to ask |

The inductive invariant is `IInv == Types /\ TakenOK /\ Awaited`.  `TakenOK`: what a refresh
has already taken is no older than a source and the time since its beginning make it, and
in the range of the candles, which change only once the quotes are settled.  So what it
publishes it has fetched, and is usable unless it has grown too old meanwhile; that a
quote ages no faster than the refresh in flight (`FetchedAges`) is what a tick must keep.
`Awaited`: the stage a refresh is at has something left to ask.  Usability is of two
maps, the cache and the published set, of which a tick reads one: publication replaces
the set by a complete one (`Awaited` and the last answer), and a partial refresh only
touches the cache, which then is not what is read.

The first form of `HealthLasts` had no exception for late answers, and was wrong: see the
observations below.

**Only model-checked:** `RefreshEnds`, of which `RefreshNearsItsEnd` is what fairness is
applied to, and `FallbackRecovers`.

### What stays with TLC

Every safety property of a passing run is also a theorem.  The eight liveness properties
(`WorkingOrdersEnd`, `PaperOffCancels`, `UpdatesAreSettled`, `RepliesEnd`, `RefreshEnds`,
`FallbackRecovers`, `ClosesAreScanned`, `ReadyAgain`) need fairness and `ENABLED`, which the
proof system does not handle; for three of them the safety half, that every step of the
work in flight brings it nearer to its end, is proved.  The properties of the five
violation runs are false.

### Decisions

`ScanDecisionProofs` proves about every quote, level, instrument whose tick is coarser than
the grid, and every `Grid` and `Tolerance` satisfying `ScanAssumption`:
`PlansAreInOrder` (entry away from the quote, stop beyond it, targets ahead),
`ExactPricesKeepTwoR` (in exact arithmetic every plan is allowed), `SizeStaysInBudget`
(what a sized position loses at its stop, and the open risk with it),
`AcceptedUsesLatestCloses`, `AcceptedIsRecent` and `AcceptedIsUndisputed` (what an accepted
scan has seen of each timeframe).  The lemmas are about rounding: rounding to ticks and
to the grid keeps order, and ticks stay apart on the grid.

`ResearchReplayProofs` proves `EveryTestBarIsInOneFold`, and `CompleteNeedsQuoteAtLastClose`:
with fewer than 20,000 test bars, the coverage of a fold is complete only if a quote lies
exactly on the close of its last bar (see the observations below).

## 5. Findings

1. **A manual close is counted twice in `positions.realized_pnl`**
   (`lifecycle:299`; run `manual_close`).  `realizedDelta` adds the amounts of
   the event and, as the position closed, those of the close again, and the
   `MANUAL_CLOSE` event is the one closing event that carries amounts
   (`domain/paper-execution.mjs:150`).  Ledger and trade count it once.
2. **Paper mode off and on again cancels nothing** (`lifecycle:598`; run
   `paper_off_on`).  The switch only writes the flag; orders are cancelled by a
   later pass that still reads it as off.  `docs/RUNBOOK.md:27` says turning it
   off "cancels all unfilled paper order quantity".
3. **A message given up after a cut-off attempt keeps its text** (`telegram:381`; run
   `outbox_discard`).  `docs/ADR-002-telegram-outbox.md:17` says the body becomes
   `[DISCARDED]` "after permanent recipient/retry failure" and remains "only while
   delivery can still be retried"; the sweep sets `DELIVERY_RETRY_LIMIT` and leaves
   the text, while the same outcome at `telegram:409` replaces it.
4. **The daily loss is always 0** (`worker.mjs:148`; run `daily_loss`).  The accounting
   passes `null` to have the loss computed, `Number(null)` is 0 and counts as a cached
   loss, so it is never computed and the limit of `config.mjs:152` ("pauses new entries
   at 3R daily loss") never bites.  Were that mended, a close by an operator would still
   not be recounted until the next fill or close of a pass (`worker.mjs:740`).
5. **A reward of exactly 2R may be refused** (`domain/strategy.mjs:242`; run
   `min_reward`).  TP1 is set at twice the risk and the quotient of two floating-point
   distances is then compared with 2 without a tolerance: 2424.09, 2421.45, 2429.37 give
   1.9999999999996554.  About a third of all plans are refused so.

Observations that no document of the repository contradicts:

* Each monitoring pass rounds the swap since the last one to cents and moves the
  checkpoint on (`lifecycle:259`, `340`): less than half a cent per tick is never charged.
  The market provider's default rate is 0 (`provider:104`).
* The replay of a research fold ends with the last quote not after the last test close
  (`domain/research-evaluation.mjs:417`), so that close is scanned only if a quote lies
  exactly on it, on a probe; else the metrics are suppressed as
  `M15_SCAN_COVERAGE_INCOMPLETE`.  The tests place quotes exactly on closes.
* With both fallbacks down, Twelve Data alone does not bring the feed back: every failing
  health check of a tick pushes back the time at which it may be asked (`provider:379`, `666`).
* A complete set of quotes replaces the published one although they grew too old while they
  were fetched: a refresh compares them with the time at which it began
  (`provider:390`).  The published set may still have been usable.
* A candle may never be handed on, or in vain, and the hole it leaves below a newer one is
  not filled: the mark moves to the newest row of a batch (`provider:721`) whatever rows the
  batch lacks, before `readMarketData` may still throw (`provider:732`) and before the
  transaction that may fail (`worker.mjs:407`) or refuse the row (348).  A restart hands the
  rows of its first batch on again, and those from the latest candle, or the latest in
  conflict, are stored.
* Paper mode switched on while it is on is audited as "new entries remain paused",
  whatever `entryPaused` is (`server.mjs:1327`).

## 6. Not modelled

* **Indicators and sessions** (`domain/indicators.mjs`, `market-sessions.mjs`): sequential
  floating-point series and a table of hours; they are a matter of numerical tests.
  `ScanDecision` takes their results as inputs, so its theorems hold whatever they are.
* **Statistics** (`domain/statistics.mjs`) and the report of the research: averages and
  ratios for a reader, on which nothing in the program acts.
* **Parsing**: provider answers, the calendar's XML, the environment, HTTP bodies; seen by
  the modules as good, bad or missing input.
* **The read-only HTTP API and the dashboard** (`server.mjs`, `dist/app.js`): presentation.
* **Maintenance and the migration runner** (`maintenance.mjs`, `database.mjs`): commands of
  one user on a stopped program.
* **Keys of other clients of the API**: `runIdempotent` is modelled for Telegram; others use
  it in the same way.
* **Telemetry**, its pruning, audit texts, MAE/MFE, snapshots stored for display.

## 7. Plan

`PaperExecution`, `PaperLifecycle`, `TelegramOutbox`, `EntryControl`, `MarketIngest`, `MarketFeed`,
`ScanDecision`, `ResearchReplay` with their contracts, refinements and proofs are done.  What
would add most next: the 12 s of a single request in `MarketFeed`, so that recovery can be
asked of Swissquote too; backup and restore as actions that keep state across a crash; a
second symbol in `EntryControl`, for the readiness that looks at the latest row of any
symbol (`server.mjs:634`); the steps of the other liveness arguments (`ClosesAreScanned`,
`RepliesEnd`) as theorems in the manner of `PassProgresses`.
