------------------------------ MODULE MarketFeed ------------------------------
(***************************************************************************)
(* The quote and candle feed of twelvedata-market-provider.mjs, and the    *)
(* reading of it by the tick of worker.mjs.                                *)
(*                                                                         *)
(* A refresh runs in the background: it asks Twelve Data for all quotes at *)
(* once, then one by one, then Biquote, then Swissquote for what is        *)
(* missing, publishes a snapshot when it has every symbol, and reads one   *)
(* candle timeframe.  What happens between two answers is one step of the  *)
(* event loop, so the grain of an action is one answer.  Ticks, timers and *)
(* the passing of time interleave with the requests.                       *)
(*                                                                         *)
(* Time is counted in ticks of the worker; clocks are ages and countdowns. *)
(* Everything but the state of the outside world is memory of the process, *)
(* so a restart is an initial state.                                       *)
(***************************************************************************)
EXTENDS Integers

CONSTANTS
  Symbols,         \* the watchlist, PRIMARY_SYMBOL included
  Timeframes,      \* how many candle timeframes take turns; 0 is M15
  QuoteMaxAge,     \* MARKET_QUOTE_MAX_AGE_MS and QUOTE_CACHE_MS
  Cycle,           \* CANDLE_CYCLE_MS, the period of the feed
  RefreshTimeout,  \* BACKGROUND_REFRESH_TIMEOUT_MS
  MaxFailures,     \* failures after which the delay grows no more
  Delay,           \* Delay[n]: the back-off after n failures in a row
  MaxDelay,        \* the back-off after a rate limit
  SourceAges,      \* how old a quote may be when a source hands it out
  Confused,        \* symbols under whose name another price may be handed out
  Recoverable      \* the sources that may come to answer every request well

Sources == {"TwelveData", "Biquote", "Swissquote"}

ASSUME FeedAssumption ==
  /\ Symbols # {}
  /\ {Timeframes, QuoteMaxAge, Cycle, RefreshTimeout, MaxFailures, MaxDelay} \subseteq Nat \ {0}
  /\ Delay \in [1 .. MaxFailures -> 1 .. MaxDelay]
  /\ SourceAges \subseteq 0 .. QuoteMaxAge
  /\ Confused \subseteq Symbols
  /\ Recoverable \subseteq Sources

VARIABLES
  quotes,    \* quoteCache: the last quote accepted of each symbol
  snapshot,  \* completeQuoteSnapshot
  published, \* the age of completeQuoteSnapshotFetchedAt, Never if there is none
  verified,  \* the symbols with M15 candles in candleCache, the baseline of quotes
  frames,    \* the timeframes of which candleCache holds some symbol
  backoff,   \* failureCount and marketDataRetryAt
  retry,     \* backgroundFailureCount, backgroundRetryAt, backgroundRetryTimer
  cycle,     \* age of lastCandleCycleAt, candleCursor
  timer,     \* backgroundTimer and backgroundPrimingScheduled
  refresh,   \* the refresh in flight
  health,    \* what the last tick of the worker saw
  sound      \* the sources that answer every request well and at once

cache == <<quotes, snapshot, published, verified, frames>>
vars  == <<cache, backoff, retry, cycle, timer, refresh, health, sound>>

(***************************************************************************)
(* Quotes.  A source may deliver the price of another instrument: such a   *)
(* quote is not right, and out of the range of the M15 candles once there  *)
(* are any.  A quote that is too old to be used is as good as none.        *)
(***************************************************************************)
TooOld   == QuoteMaxAge + 1
Quote    == [age : 0 .. TooOld, right : BOOLEAN]
NoQuote  == [age |-> TooOld, right |-> TRUE]
NoQuotes == [s \in Symbols |-> NoQuote]
Never    == -1

QuoteIsFresh(q) == q.age <= QuoteMaxAge
QuoteWithinCandleRange(s, q) == s \in verified => q.right
Usable(s, q) == QuoteIsFresh(q) /\ QuoteWithinCandleRange(s, q)

(* cachedQuotes: the snapshot if all of it can be used, else what can be    *)
(* used of the quotes symbol by symbol.                                     *)
CachedQuotes ==
  IF \A s \in Symbols : Usable(s, snapshot[s]) THEN snapshot
  ELSE [s \in Symbols |-> IF Usable(s, quotes[s]) THEN quotes[s] ELSE NoQuote]

IsComplete(qs) == \A s \in Symbols : QuoteIsFresh(qs[s])

(***************************************************************************)
(* Back-off.                                                               *)
(***************************************************************************)
(* Mutant: a countdown that does not stop at zero. *)
LessAlways(n) == n - 1
Less(n) == IF n > 0 THEN n - 1 ELSE n
Grown(n, bound) == IF n < bound THEN n + 1 ELSE n

RecordFailure(b, limited) ==
  [failures |-> Grown(b.failures, MaxFailures),
   retryIn  |-> IF limited THEN MaxDelay ELSE Delay[Grown(b.failures, MaxFailures)]]
RecordSuccess == [failures |-> 0, retryIn |-> 0]

(***************************************************************************)
(* The refresh in flight.  at is the request it waits for, todo the        *)
(* symbols it has no quote of yet (the quotes it has are those of the      *)
(* other symbols in quoteCache, which nothing else writes), next the       *)
(* symbols to ask one by one, taken the time since its start, late whether *)
(* the body of an answer does not arrive.                                  *)
(***************************************************************************)
Stages == {"idle", "batch", "single", "biquote", "swissquote", "candles", "bars"}

Idle == [at |-> "idle", todo |-> {}, next |-> {}, frame |-> 0,
         taken |-> 0, late |-> FALSE, ok |-> FALSE]

(* Mutant: the back-off is not looked at. *)
AllowedAlways(b) == TRUE
TwelveDataAllowed(b) == b.retryIn = 0

(* Mutant: quotes of the cache that can be used are not asked for again. *)
ResumedRefresh(b, blocked) ==
  IF refresh.at # "idle" \/ blocked > 0 THEN refresh
  ELSE [Idle EXCEPT !.at = IF TwelveDataAllowed(b) THEN "batch" ELSE "biquote",
                    !.todo = {s \in Symbols : ~Usable(s, quotes[s])}]

(* refreshBackgroundFeed, up to its first request.  It is forced: all       *)
(* symbols are asked for, whatever the cache holds.                         *)
RefreshBackgroundFeed(b, blocked) ==
  IF refresh.at # "idle" \/ blocked > 0 THEN refresh
  ELSE [Idle EXCEPT !.at = IF TwelveDataAllowed(b) THEN "batch" ELSE "biquote",
                    !.todo = Symbols]

SourceAt(stage) ==
  CASE stage \in {"batch", "single", "candles"} -> "TwelveData"
    [] stage \in {"biquote", "bars"} -> "Biquote"
    [] OTHER -> "Swissquote"

(* The deadline of the refresh aborts requests, but not the arrival of a    *)
(* body whose headers are there.                                            *)
Aborted == refresh.taken >= RefreshTimeout /\ ~refresh.late
IsSound == SourceAt(refresh.at) \in sound
MayAnswer == ~Aborted
MayFail   == Aborted \/ ~IsSound

(* What a request brings for the symbols it was for: a quote as old as the  *)
(* source makes it, of the right price or not; a refused or unreadable one  *)
(* counts as too old; a symbol may be missing.  Ages are those at the start *)
(* of the refresh, which is the time the code compares them with.           *)
Answers == [age : SourceAges \cup {TooOld}, right : BOOLEAN]
Replies(asked) ==
  IF IsSound THEN {[s \in asked |-> [age |-> 0, right |-> TRUE]]}
  ELSE UNION {{reply \in [some -> Answers] : \A s \in some \ Confused : reply[s].right} : some \in SUBSET asked}

(* Mutant: an answer is not compared with the candles. *)
AcceptedUnchecked(reply) == {s \in DOMAIN reply : QuoteIsFresh(reply[s])}
Accepted(reply) == {s \in DOMAIN reply : Usable(s, reply[s])}
Aged(q, by) == IF q.age + by < TooOld THEN [q EXCEPT !.age = @ + by] ELSE NoQuote

StoreQuotes(reply) ==
  quotes' = [s \in Symbols |-> IF s \in Accepted(reply) THEN Aged(reply[s], refresh.taken) ELSE quotes[s]]

(* refresh after some symbols were accepted. *)
Taken(reply) == [refresh EXCEPT !.todo = @ \ Accepted(reply), !.late = FALSE]

(***************************************************************************)
(* What follows the last request for quotes and the last for candles,      *)
(* without another await.                                                  *)
(***************************************************************************)
(* Mutant: a refresh that failed is not taken off the record. *)
FinishedIfOk(ok) == refresh' = (IF ok THEN Idle ELSE refresh) /\ UNCHANGED retry

Finished(ok) ==
  /\ refresh' = Idle
  /\ retry' = IF ok THEN [retry EXCEPT !.failures = 0, !.blocked = 0]
              ELSE LET n == Grown(retry.failures, MaxFailures)
                   IN  [failures |-> n, blocked |-> Delay[n],
                        timer |-> IF retry.timer = Never THEN Delay[n] ELSE retry.timer]

(* Quotes are settled: publish them or record the failure; then the next    *)
(* timeframe of candles if its turn has come.                               *)
QuotesSettled(r, b) ==
  LET ok    == r.todo = {}
      after == IF ok THEN RecordSuccess ELSE RecordFailure(b, FALSE)
  IN /\ backoff' = after
     /\ snapshot' = IF ok THEN quotes' ELSE snapshot
     /\ published' = IF ok THEN 0 ELSE published
     /\ IF cycle.age = Cycle
        THEN /\ cycle' = [age |-> 0, cursor |-> (cycle.cursor + 1) % Timeframes]
             /\ refresh' = [Idle EXCEPT !.at = IF TwelveDataAllowed(after) THEN "candles" ELSE "bars",
                              !.next = Symbols, !.frame = cycle.cursor, !.taken = r.taken, !.ok = ok]
             /\ UNCHANGED retry
        ELSE Finished(ok) /\ UNCHANGED cycle

(* On to the next source if symbols are missing.                            *)
Continue(r, stage, b) ==
  IF r.todo # {} /\ stage # "end"
  THEN /\ refresh' = [r EXCEPT !.at = stage, !.next = IF stage = "single" THEN r.todo ELSE {}]
       /\ backoff' = b
       /\ UNCHANGED <<snapshot, published, cycle, retry>>
  ELSE QuotesSettled(r, b)

CandlesSettled(b) ==
  /\ backoff' = IF refresh.frame \in frames' THEN RecordSuccess ELSE RecordFailure(b, FALSE)
  /\ Finished(refresh.ok)

(* Candles of some symbols are put in the cache. *)
StoreCandles(some) ==
  /\ frames' = IF some = {} THEN frames ELSE frames \cup {refresh.frame}
  /\ verified' = IF refresh.frame = 0 THEN verified \cup some ELSE verified

(* Candles of the symbols in next are still to be had from Biquote. *)
MoreCandles(next, b) ==
  IF next # {}
  THEN /\ refresh' = [refresh EXCEPT !.at = "bars", !.next = next, !.late = FALSE]
       /\ backoff' = b
       /\ UNCHANGED retry
  ELSE CandlesSettled(b)

(***************************************************************************)
(* Requests.                                                               *)
(***************************************************************************)
RefusedOf(reply) == DOMAIN reply \ Accepted(reply)

(* One request for all symbols.  A refused quote spares the requests symbol *)
(* by symbol.                                                               *)
ReadBatch ==
  /\ refresh.at = "batch" /\ MayAnswer
  /\ \E reply \in Replies(Symbols) :
       /\ StoreQuotes(reply)
       /\ Continue(Taken(reply), IF RefusedOf(reply) = {} THEN "single" ELSE "biquote", backoff)
  /\ UNCHANGED <<verified, frames, timer, health, sound>>

BatchFails ==
  /\ refresh.at = "batch" /\ MayFail
  /\ \E limited \in BOOLEAN :
       Continue([refresh EXCEPT !.late = FALSE], IF limited THEN "biquote" ELSE "single",
                RecordFailure(backoff, limited))
  /\ UNCHANGED <<quotes, verified, frames, timer, health, sound>>

(* Three endpoints for one symbol; their errors only end up in a message.   *)
ReadSingle ==
  /\ refresh.at = "single"
  /\ \E s \in refresh.next :
       \E reply \in (IF MayAnswer THEN Replies({s}) ELSE {<<>>}) :
         LET r == [Taken(reply) EXCEPT !.next = @ \ {s}] IN
         /\ StoreQuotes(reply)
         /\ IF r.next # {}
            THEN refresh' = r /\ UNCHANGED <<snapshot, published, backoff, cycle, retry>>
            ELSE Continue(r, "biquote", backoff)
  /\ UNCHANGED <<verified, frames, timer, health, sound>>

(* The fallbacks, asked for all missing symbols at once. *)
ReadFallback ==
  /\ refresh.at \in {"biquote", "swissquote"}
  /\ \E reply \in (IF MayAnswer THEN Replies(refresh.todo) ELSE {<<>>}) :
       /\ StoreQuotes(reply)
       /\ Continue(Taken(reply), IF refresh.at = "biquote" THEN "swissquote" ELSE "end", backoff)
  /\ UNCHANGED <<verified, frames, timer, health, sound>>

(* Twelve Data's candles of all symbols: those that are fresh are taken. *)
ReadCandles ==
  /\ refresh.at = "candles" /\ MayAnswer
  /\ \E some \in (IF IsSound THEN {Symbols} ELSE SUBSET Symbols) :
       StoreCandles(some) /\ MoreCandles(Symbols \ some, backoff)
  /\ UNCHANGED <<quotes, snapshot, published, cycle, timer, health, sound>>

CandlesFail ==
  /\ refresh.at = "candles" /\ MayFail
  /\ \E limited \in BOOLEAN :
       StoreCandles({}) /\ MoreCandles(Symbols, RecordFailure(backoff, limited))
  /\ UNCHANGED <<quotes, snapshot, published, cycle, timer, health, sound>>

(* Biquote's candles, symbol by symbol. *)
ReadBars ==
  /\ refresh.at = "bars"
  /\ \E s \in refresh.next :
       \/ MayAnswer /\ StoreCandles({s}) /\ MoreCandles(refresh.next \ {s}, backoff)
       \/ MayFail /\ StoreCandles({}) /\ MoreCandles(refresh.next \ {s}, backoff)
  /\ UNCHANGED <<quotes, snapshot, published, cycle, timer, health, sound>>

(***************************************************************************)
(* Timers, and the ticks of the worker.                                    *)
(***************************************************************************)
Prime ==
  /\ timer.priming
  /\ timer' = [timer EXCEPT !.priming = FALSE]
  /\ refresh' = RefreshBackgroundFeed(backoff, retry.blocked)
  /\ UNCHANGED <<cache, backoff, retry, cycle, health, sound>>

IntervalFires ==
  /\ timer.in = 0
  /\ timer' = [timer EXCEPT !.in = Cycle]
  /\ refresh' = RefreshBackgroundFeed(backoff, retry.blocked)
  /\ UNCHANGED <<cache, backoff, retry, cycle, health, sound>>

RetryFires ==
  /\ retry.timer = 0
  /\ retry' = [retry EXCEPT !.timer = Never]
  /\ refresh' = RefreshBackgroundFeed(backoff, retry.blocked)
  /\ UNCHANGED <<cache, backoff, cycle, timer, health, sound>>

(* A request takes no time that matters unless it hangs: without an answer, *)
(* until the refresh is aborted, or with the headers of one, in which case  *)
(* no deadline applies any more.                                            *)
Hangs ==
  /\ ~IsSound /\ ~Aborted
  /\ \E late \in {refresh.late, TRUE} :
       refresh' = [refresh EXCEPT !.taken = Grown(@, TooOld), !.late = late]

(* readHealth, and readMarketData if healthy: with the feed running both    *)
(* only read the cache.                                                     *)
Tick(b, blocked) ==
  IF IsComplete(CachedQuotes)'
  THEN /\ health' = "HEALTHY"
       /\ backoff' = b
       /\ IF refresh.at # "idle" THEN Hangs
          ELSE refresh' = IF published' = Cycle THEN RefreshBackgroundFeed(b, blocked) ELSE refresh
  ELSE /\ health' = "OFFLINE"
       /\ backoff' = RecordFailure(b, FALSE)
       /\ IF refresh.at # "idle" THEN Hangs ELSE UNCHANGED refresh

(* The worker's period passes, when what is due has happened, up to its     *)
(* next tick.                                                               *)
WorkerTick ==
  /\ ~timer.priming /\ timer.in > 0 /\ retry.timer # 0
  /\ quotes' = [s \in Symbols |-> Aged(quotes[s], 1)]
  /\ snapshot' = [s \in Symbols |-> Aged(snapshot[s], 1)]
  /\ published' = IF published = Never THEN Never ELSE Grown(published, Cycle)
  /\ retry' = [retry EXCEPT !.blocked = Less(@), !.timer = Less(@)]
  /\ cycle' = [cycle EXCEPT !.age = Grown(@, Cycle)]
  /\ timer' = [timer EXCEPT !.in = @ - 1]
  /\ UNCHANGED <<verified, frames, sound>>
  /\ Tick([backoff EXCEPT !.retryIn = Less(@)], retry'.blocked)

SourceRecovers ==
  /\ \E source \in Recoverable \ sound : sound' = sound \cup {source}
  /\ refresh.at = "idle"
  /\ UNCHANGED <<cache, backoff, retry, cycle, timer, refresh, health>>

(* The provider is started and read by the first tick, which finds nothing, *)
(* before any timer fires.                                                  *)
Init ==
  /\ quotes = NoQuotes /\ snapshot = NoQuotes /\ published = Never
  /\ verified = {} /\ frames = {}
  /\ backoff = RecordFailure(RecordSuccess, FALSE)
  /\ retry = [failures |-> 0, blocked |-> 0, timer |-> Never]
  /\ cycle = [age |-> Cycle, cursor |-> 0]
  /\ timer = [in |-> Cycle, priming |-> TRUE]
  /\ refresh = Idle
  /\ health = "OFFLINE"
  /\ sound \in SUBSET Recoverable

Answer == ReadBatch \/ BatchFails \/ ReadSingle \/ ReadFallback \/ ReadCandles \/ CandlesFail \/ ReadBars
Timer == Prime \/ IntervalFires \/ RetryFires

Next == Answer \/ Timer \/ WorkerTick \/ SourceRecovers

Spec == Init /\ [][Next]_vars

(* Timers fire and ticks run; every request ends, at the latest when the    *)
(* platform gives up on its body.                                           *)
FairSpec == Spec /\ WF_vars(Answer) /\ WF_vars(Timer) /\ WF_vars(WorkerTick)

(***************************************************************************)
(* Properties.                                                             *)
(***************************************************************************)
TypeOK ==
  /\ quotes \in [Symbols -> Quote] /\ snapshot \in [Symbols -> Quote]
  /\ published \in {Never} \cup 0 .. Cycle
  /\ verified \subseteq Symbols /\ frames \subseteq 0 .. Timeframes - 1
  /\ backoff \in [failures : 0 .. MaxFailures, retryIn : 0 .. MaxDelay]
  /\ retry \in [failures : 0 .. MaxFailures, blocked : 0 .. MaxDelay, timer : {Never} \cup 0 .. MaxDelay]
  /\ cycle \in [age : 0 .. Cycle, cursor : 0 .. Timeframes - 1]
  /\ timer \in [in : 0 .. Cycle, priming : BOOLEAN]
  /\ refresh \in [at : Stages, todo : SUBSET Symbols, next : SUBSET Symbols,
                   frame : 0 .. Timeframes - 1, taken : 0 .. TooOld, late : BOOLEAN, ok : BOOLEAN]
  /\ health \in {"HEALTHY", "OFFLINE"}
  /\ sound \subseteq Recoverable

(* An answer that was not too old when the refresh began, which is the time *)
(* the code compares it with, has become so when it is put in the cache or, *)
(* as part of a complete set, is published.                                 *)
CameTooLate ==
  \E s \in Symbols :
    \/ quotes'[s] # quotes[s] /\ ~QuoteIsFresh(quotes'[s])
    \/ snapshot'[s] # snapshot[s] /\ ~QuoteIsFresh(snapshot'[s])

(* A set of quotes that can be used stays usable until a quote grows too    *)
(* old, answers that took too long to arrive displace it, or the first      *)
(* candles of a symbol refute it; a refresh in flight, partial, refused or  *)
(* failing, takes nothing from it (#completeQuoteSnapshot, lines 348-356).  *)
HealthLasts ==
  [][ (/\ IsComplete(CachedQuotes)
       /\ \A s \in Symbols : CachedQuotes[s].age < QuoteMaxAge
       /\ WorkerTick \/ ~CameTooLate
       /\ verified' = verified)
      => IsComplete(CachedQuotes)' ]_vars

(* A quote as old as one that a source hands out becomes in that time.      *)
FetchedSince(q, time) == \E age \in SourceAges \cup {0} : q.age <= age + time

(* What a refresh publishes as new it fetched itself, symbol by symbol and  *)
(* over all its sources, awaits and ticks, and found in the range of the    *)
(* candles there are: no quote that an earlier refresh left in the cache is *)
(* published again and again (lines 430-433).                               *)
PublishedIsFetched ==
  [][ Answer /\ ~UNCHANGED <<snapshot, published>> =>
        \A s \in Symbols : /\ FetchedSince(snapshot'[s], refresh.taken)
                          /\ QuoteWithinCandleRange(s, snapshot'[s]) ]_vars

(* Whatever the sources do, a refresh ends and makes room for the next one. *)
RefreshEnds == (refresh.at # "idle") ~> (refresh.at = "idle")

(* A fallback source that works brings the feed back, however Twelve Data   *)
(* fails or hangs, unless bodies stall again and again.                     *)
FallbackRecovers ==
  <>[](~refresh.late) =>
    \A source \in Recoverable \ {"TwelveData"} : (source \in sound) ~> (health = "HEALTHY")
===============================================================================
