----------------------------- MODULE MarketIngest -----------------------------
(***************************************************************************)
(* The way of M15 candles and quotes of one symbol into the database and   *)
(* to the scan: readMarketData of the provider, persistMarketData and the  *)
(* scan probe of the worker.                                               *)
(*                                                                         *)
(* The provider keeps the last batch of candles it fetched and hands each  *)
(* on once; what it handed on is in memory, what became of it in the       *)
(* database.  A batch is a window of rows of which some may be absent.     *)
(* A tick is synchronous from the reading of its clock up to the news      *)
(* calendar, and again from there to its end: the news and the pause       *)
(* between ticks are where the feed, an operator and the clock interleave; *)
(* the process may die between any two transactions.                       *)
(*                                                                         *)
(* Time is counted in ticks; candle c closes at time c * Period.           *)
(***************************************************************************)
EXTENDS Integers, FiniteSets, FiniteSetsExt

CONSTANTS
  Period,        \* length of a candle
  Window,        \* CANDLE_COUNT and MAX_CANDLES_PER_FRAME
  SettleDelay,   \* CANDLE_SETTLE_DELAY_MS
  Skew,          \* MAX_QUOTE_FUTURE_SKEW_MS
  QuoteMaxAge,   \* MARKET_QUOTE_MAX_AGE_MS
  RefreshAfter,  \* MARKET_SNAPSHOT_REFRESH_MS
  ProbeEvery,    \* SCAN_PROBE_INTERVAL_MS
  CandleMaxAge,  \* the half hour of freshClosedM15
  MaxNow,        \* bound: the time at which the clock stands still
  MaxFaults      \* bound: failing transactions and ends of the process

ASSUME IngestAssumption ==
  /\ {Period, Window, RefreshAfter, ProbeEvery, MaxNow} \subseteq Nat \ {0}
  /\ {SettleDelay, Skew, QuoteMaxAge, CandleMaxAge, MaxFaults} \subseteq Nat

Closes == 1 .. MaxNow \div Period

(* The source may still revise the newest candle of a batch, no older one.  *)
Values == {"early", "final"}

VARIABLES
  now,      \* the clock of the last tick
  batch,    \* candleCache: the closes that have a row, last the value of the newest
  emitted,  \* lastEmittedCandleAt, 0 if there is none
  candles,  \* the table candles, by close
  row,      \* the row of market_snapshots with the latest received_at
  rowCache, \* snapshotCache of the worker
  probe,    \* time until the next scan probe
  scanned,  \* app_state lastWorkerM15Close, 0 if there is none
  runs,     \* the closes under whose key scan_runs has a row
  phase,    \* where the tick is
  missed,   \* no state of the code: candles passed over, see PassesOver
  faults

vars == <<now, batch, emitted, candles, row, rowCache, probe, scanned, runs, phase, missed, faults>>

NoBatch  == [rows |-> {}, last |-> "final"]
NoCandle == [quality |-> "none", value |-> "final"]
NoRow    == [observed |-> -1, received |-> -1, status |-> "none"]

Init ==
  /\ now = 0 /\ batch = NoBatch /\ emitted = 0
  /\ candles = [c \in Closes |-> NoCandle]
  /\ row = NoRow /\ rowCache = NoRow
  /\ probe = 0 /\ scanned = 0 /\ runs = {}
  /\ phase = "idle" /\ missed = {} /\ faults = 0

LoopIsFree == phase \in {"idle", "news"}

-----------------------------------------------------------------------------
(* The provider. *)

Settled == {c \in Closes : c * Period + SettleDelay <= now}

(* A batch arrives: at most a window of rows, in place of the last batch.   *)
(* A source that lags behind has not the newest closes, an outage leaves    *)
(* more of them than a window, and a row that is absent or cannot be read   *)
(* is a close the batch lacks.                                              *)
ReadCandleBatch ==
  /\ LoopIsFree
  /\ \E rows \in (SUBSET Settled) \ {{}}, v \in Values :
       Cardinality(rows) <= Window /\ batch' = [rows |-> rows, last |-> v]
  /\ UNCHANGED <<now, emitted, candles, row, rowCache, probe, scanned, runs, phase, missed, faults>>

Newest == Max(batch.rows \cup {0})
ValueOf(c) == IF c = Newest THEN batch.last ELSE "final"

(* readMarketData hands on what follows the last candle it handed on, and   *)
(* takes note of the newest it has, even if that is older.                  *)
Payload == {c \in batch.rows : c > emitted}
(* Mutant: the note is one candle ahead. *)
NextEmitted == IF batch.rows # {} THEN Newest + 1 ELSE emitted
Emitted == IF batch.rows # {} THEN Newest ELSE emitted

(* The closes that this note passes although the batch has no row of them.  *)
Lacked == {c \in Closes \ batch.rows : emitted < c /\ c < Newest}

-----------------------------------------------------------------------------
(* persistMarketData: one transaction. *)

Stored    == {c \in Closes : candles[c].quality # "none"}
Conflicts == {c \in Closes : candles[c].quality = "CONFLICT"}
Latest    == Max(Stored \cup {0})

(* What a note passes over is missed until it is stored after all.          *)
PassesOver(some) == missed' = (missed \cup Lacked \cup some) \ Stored'

(* What is handed on reaches no transaction that commits.                   *)
HandedOnInVain == UNCHANGED <<row, candles>> /\ PassesOver(Payload)

(* Older candles than the latest, or than the latest in conflict, are not   *)
(* looked at.                                                               *)
(* Mutant: neither is the latest conflict, nor anything but the newest. *)
NewestOnly == Max({Latest, Newest})
Boundary == IF Conflicts # {} THEN Max(Conflicts) ELSE Latest
Written(refused) == {c \in Payload \ refused : c >= Boundary /\ c * Period <= now'}

(* A candle in conflict keeps its value until it is delivered again; then   *)
(* the delivered value stands.                                              *)
Upsert(c) ==
  IF candles[c].quality # "VERIFIED_CLOSED" THEN [quality |-> "VERIFIED_CLOSED", value |-> ValueOf(c)]
  ELSE IF candles[c].value # ValueOf(c) THEN [candles[c] EXCEPT !.quality = "CONFLICT"]
  ELSE candles[c]

StatusOf(observed) ==
  IF observed <= now' /\ now' - observed <= QuoteMaxAge THEN "BROKER" ELSE "STALE"

(* The row that is there will do for this quote. *)
IsCovered(previous, observed) ==
  /\ previous.observed = observed /\ previous.status = StatusOf(observed)
  /\ now' - previous.received < RefreshAfter

PersistQuote(observed) ==
  LET previous == IF rowCache # NoRow THEN rowCache ELSE row
      new == [observed |-> observed, received |-> now', status |-> StatusOf(observed)]
  IN  IF IsCovered(previous, observed) THEN rowCache' = previous /\ UNCHANGED row
      ELSE rowCache' = new /\ row' = new

(* Rows whose prices do not fit together are refused.                       *)
Persist(observed) ==
  /\ PersistQuote(observed)
  /\ \E refused \in SUBSET Payload :
       /\ candles' = [c \in Closes |-> IF c \in Written(refused) THEN Upsert(c) ELSE candles[c]]
       /\ PassesOver(refused)
  /\ UNCHANGED faults

(* What is remembered of rows after a rollback.                             *)
(* Mutant: the row that was not written after all. *)
StillRemembered(observed) == [observed |-> observed, received |-> now', status |-> StatusOf(observed)]
Remembered(observed) == NoRow

(* The transaction fails: at its beginning, where nothing is forgotten, or  *)
(* later.                                                                   *)
PersistFails(observed) ==
  /\ faults < MaxFaults /\ faults' = faults + 1
  /\ rowCache' \in {rowCache, Remembered(observed)}
  /\ HandedOnInVain

-----------------------------------------------------------------------------
(* The tick. *)

Advance == now' = (IF now < MaxNow THEN now + 1 ELSE now)
(* Mutant: every tick counts as a probe. *)
Postponed == ProbeEvery
Sooner == IF probe > 0 THEN probe - 1 ELSE 0

(* The quote may be of any age that the provider still serves. *)
TickWithMarket ==
  /\ phase = "idle" /\ phase' = "news"
  /\ Advance /\ probe' = Sooner
  /\ emitted' = Emitted
  /\ \E observed \in 0 .. now' + Skew :
       now' - observed <= QuoteMaxAge /\ (Persist(observed) \/ PersistFails(observed))
  /\ UNCHANGED <<batch, scanned, runs>>

(* A quote expires between readHealth and readMarketData, which fails when  *)
(* it has taken note of the candles.                                        *)
TickWithoutQuote ==
  /\ phase = "idle" /\ phase' = "news"
  /\ Advance /\ probe' = Sooner
  /\ emitted' = Emitted
  /\ HandedOnInVain
  /\ UNCHANGED <<batch, rowCache, scanned, runs, faults>>

(* readHealth finds no market, or readMarketData nothing to read.           *)
TickWithoutMarket ==
  /\ phase = "idle" /\ phase' = "news"
  /\ Advance /\ probe' = Sooner
  /\ UNCHANGED <<batch, emitted, candles, row, rowCache, scanned, runs, missed, faults>>

(* freshClosedM15, 0 for null. *)
RowIsFresh ==
  /\ row.status = "BROKER"
  /\ row.observed <= now /\ now - row.observed <= QuoteMaxAge
  /\ row.received <= now /\ now - row.received <= QuoteMaxAge
IsEligible(c) ==
  c \in Closes /\ candles[c].quality = "VERIFIED_CLOSED" /\ c * Period <= now /\ now - c * Period <= CandleMaxAge
(* Mutant: a conflict is passed over. *)
LatestVerified ==
  IF RowIsFresh THEN Max({c \in Stored : IsEligible(c)} \cup {0}) ELSE 0
FreshClosedM15 == IF RowIsFresh /\ IsEligible(Latest) THEN Latest ELSE 0

(* Mutant: the note comes first. *)
NoteFirst ==
  /\ phase = "news"
  /\ IF probe > 0 \/ FreshClosedM15 \in {0, scanned}
     THEN phase' = "idle" /\ UNCHANGED scanned
     ELSE phase' = "scanned" /\ scanned' = FreshClosedM15
  /\ probe' = IF probe > 0 THEN probe ELSE ProbeEvery
  /\ UNCHANGED <<now, batch, emitted, candles, row, rowCache, runs, missed, faults>>

(* The scan is keyed by the close; a second one under its key is a replay.  *)
ScanProbe ==
  /\ phase = "news"
  /\ IF probe > 0
     THEN phase' = "idle" /\ UNCHANGED <<probe, runs>>
     ELSE /\ probe' = ProbeEvery
          /\ IF FreshClosedM15 \in {0, scanned}
             THEN phase' = "idle" /\ UNCHANGED runs
             ELSE phase' = "scanned" /\ runs' = runs \cup {FreshClosedM15}
  /\ UNCHANGED <<now, batch, emitted, candles, row, rowCache, scanned, missed, faults>>

MarkScanned ==
  /\ phase = "scanned" /\ phase' = "idle"
  /\ scanned' = FreshClosedM15
  /\ UNCHANGED <<now, batch, emitted, candles, row, rowCache, probe, runs, missed, faults>>

(* The scan or the note of it fails, and with it the tick. *)
TickFails ==
  /\ phase \in {"news", "scanned"} /\ phase' = "idle"
  /\ faults < MaxFaults /\ faults' = faults + 1
  /\ probe' \in IF phase = "news" /\ probe = 0 THEN {0, ProbeEvery} ELSE {probe}
  /\ UNCHANGED <<now, batch, emitted, candles, row, rowCache, scanned, runs, missed>>

(* An operator's scan asks neither for a fresh quote nor for a candle       *)
(* without conflict before it takes the key of the close.                   *)
OperatorScan ==
  /\ LoopIsFree /\ Latest # 0
  /\ runs' = runs \cup {Latest}
  /\ UNCHANGED <<now, batch, emitted, candles, row, rowCache, probe, scanned, phase, missed, faults>>

(* The process ends and is started again some time later. *)
Restart ==
  /\ faults < MaxFaults /\ faults' = faults + 1
  /\ now' \in now .. MaxNow
  /\ batch' = NoBatch /\ emitted' = 0 /\ rowCache' = NoRow
  /\ probe' = 0 /\ phase' = "idle"
  /\ UNCHANGED <<candles, row, scanned, runs, missed>>

Tick == TickWithMarket \/ TickWithoutQuote \/ TickWithoutMarket \/ ScanProbe \/ MarkScanned

Next == Tick \/ TickFails \/ ReadCandleBatch \/ OperatorScan \/ Restart

Spec == Init /\ [][Next]_vars

(* setInterval goes on, and a tick that began ends. *)
FairSpec == Spec /\ WF_vars(Tick)

-----------------------------------------------------------------------------
(* Properties. *)

Row == [observed : Int, received : Int, status : {"none", "BROKER", "STALE"}]

TypeOK ==
  /\ now \in 0 .. MaxNow
  /\ batch \in [rows : SUBSET Closes, last : Values]
  /\ emitted \in {0} \cup Closes
  /\ candles \in [Closes -> [quality : {"none", "VERIFIED_CLOSED", "CONFLICT"}, value : Values]]
  /\ row \in Row /\ rowCache \in Row
  /\ probe \in 0 .. ProbeEvery
  /\ scanned \in {0} \cup Closes /\ runs \subseteq Closes
  /\ phase \in {"idle", "news", "scanned"}
  /\ missed \subseteq Closes /\ faults \in 0 .. MaxFaults

(* A candle missing below the latest was passed over: the batch that went   *)
(* beyond it had no row of it, its row was refused, or it was handed on in  *)
(* vain.  Lagging sources, revisions, conflicts, windows that overlap,      *)
(* restarts and repeated deliveries make no hole of a candle that was       *)
(* handed on in a transaction that committed.                               *)
HolesWereMissed == \A c \in Closes : c < Latest /\ c \notin Stored => c \in missed

(* The close that the worker noted as scanned has its scan: a crash between *)
(* the two makes a scan repeat, never be left out.                          *)
MarkedWasScanned == scanned = 0 \/ scanned \in runs

(* What the worker remembers as the latest row is the latest row, whatever  *)
(* transactions failed: it leaves a quote out of the database when it       *)
(* remembers to have written it, and readers judge freshness by the row.    *)
RememberedRowIsStored == rowCache # NoRow => rowCache = row

(* The worker never goes back to an older close, although the latest one    *)
(* may turn into a conflict and back.                                       *)
ScansMoveForward == [][scanned' >= scanned]_vars

(* The worker catches up: a latest close that can be scanned is scanned, or *)
(* ceases to be the latest, verified and fresh.                             *)
ClosesAreScanned ==
  FreshClosedM15 \notin {0, scanned} ~> FreshClosedM15 \in {0, scanned}
===============================================================================
