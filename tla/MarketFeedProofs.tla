--------------------------- MODULE MarketFeedProofs ---------------------------
(***************************************************************************)
(* MarketFeed for every watchlist, age, delay and choice of sources: its   *)
(* types, what a refresh publishes, how long a usable set of quotes lasts, *)
(* and that a refresh in flight comes nearer to its end with every answer. *)
(***************************************************************************)
EXTENDS MarketFeed, TLAPS

-----------------------------------------------------------------------------
(* Types of the parts. *)

QuoteMap   == [Symbols -> Quote]
BackoffRec == [failures : 0 .. MaxFailures, retryIn : 0 .. MaxDelay]
RetryRec   == [failures : 0 .. MaxFailures, blocked : 0 .. MaxDelay, timer : {Never} \cup 0 .. MaxDelay]
CycleRec   == [age : 0 .. Cycle, cursor : 0 .. Timeframes - 1]
TimerRec   == [in : 0 .. Cycle, priming : BOOLEAN]
RefreshRec == [at : Stages, todo : SUBSET Symbols, next : SUBSET Symbols,
               frame : 0 .. Timeframes - 1, taken : 0 .. TooOld, late : BOOLEAN, ok : BOOLEAN]

Types ==
  /\ quotes \in QuoteMap /\ snapshot \in QuoteMap
  /\ published \in {Never} \cup 0 .. Cycle
  /\ verified \subseteq Symbols /\ frames \subseteq 0 .. Timeframes - 1
  /\ backoff \in BackoffRec /\ retry \in RetryRec
  /\ cycle \in CycleRec /\ timer \in TimerRec /\ refresh \in RefreshRec
  /\ health \in {"HEALTHY", "OFFLINE"} /\ sound \subseteq Recoverable

LEMMA ConstantTypes ==
  /\ Symbols # {}
  /\ Timeframes \in Nat \ {0} /\ QuoteMaxAge \in Nat \ {0} /\ Cycle \in Nat \ {0}
  /\ RefreshTimeout \in Nat \ {0} /\ MaxFailures \in Nat \ {0} /\ MaxDelay \in Nat \ {0}
  /\ SourceAges \subseteq 0 .. QuoteMaxAge
  /\ TooOld \in Nat \ {0} /\ TooOld = QuoteMaxAge + 1
BY FeedAssumption DEF TooOld

(* Counting up to a bound and down to zero. *)
LEMMA GrownType ==
  ASSUME NEW bound \in Nat, NEW n \in 0 .. bound
  PROVE  Grown(n, bound) \in 0 .. bound /\ (bound # 0 => Grown(n, bound) \in 1 .. bound)
BY DEF Grown

LEMMA LessType ==
  ASSUME NEW bound \in Nat
  PROVE  /\ \A n \in 0 .. bound : Less(n) \in 0 .. bound
         /\ \A n \in {Never} \cup 0 .. bound : Less(n) \in {Never} \cup 0 .. bound
BY DEF Less, Never

LEMMA DelayType ==
  ASSUME NEW n \in 1 .. MaxFailures
  PROVE  Delay[n] \in 1 .. MaxDelay
BY FeedAssumption

LEMMA FailureType ==
  ASSUME NEW b \in BackoffRec, NEW limited \in BOOLEAN
  PROVE  RecordFailure(b, limited) \in BackoffRec
<1>1. b.failures \in 0 .. MaxFailures BY DEF BackoffRec
<1>2. Grown(b.failures, MaxFailures) \in 1 .. MaxFailures BY <1>1, GrownType, ConstantTypes
<1>3. Delay[Grown(b.failures, MaxFailures)] \in 1 .. MaxDelay BY <1>2, DelayType
<1> QED BY <1>2, <1>3, ConstantTypes DEF RecordFailure, BackoffRec

LEMMA SuccessType == RecordSuccess \in BackoffRec
BY ConstantTypes DEF RecordSuccess, BackoffRec

(* An idle refresh, and one that begins. *)
LEMMA BegunType ==
  ASSUME refresh \in RefreshRec, NEW b, NEW blocked
  PROVE  Idle \in RefreshRec /\ RefreshBackgroundFeed(b, blocked) \in RefreshRec
<1>1. Idle \in RefreshRec BY ConstantTypes DEF Idle, RefreshRec, Stages
<1>2. \A at \in Stages : [Idle EXCEPT !.at = at, !.todo = Symbols] \in RefreshRec
  BY <1>1 DEF RefreshRec
<1>3. (IF TwelveDataAllowed(b) THEN "batch" ELSE "biquote") \in Stages BY DEF Stages
<1> QED BY <1>1, <1>2, <1>3 DEF RefreshBackgroundFeed

-----------------------------------------------------------------------------
(* Quotes. *)

LEMMA AgedType ==
  ASSUME NEW q \in Quote, NEW by \in Nat
  PROVE  Aged(q, by) \in Quote /\ (Aged(q, by).right \/ ~q.right)
<1>1. NoQuote \in Quote /\ NoQuote.right BY ConstantTypes DEF NoQuote, Quote
<1>2. CASE q.age + by < TooOld
  <2>1. q.age \in Nat /\ q.right \in BOOLEAN BY ConstantTypes DEF Quote
  <2>2. [q EXCEPT !.age = @ + by] \in Quote /\ [q EXCEPT !.age = @ + by].right = q.right
    BY <1>2, <2>1, ConstantTypes DEF Quote
  <2> QED BY <1>2, <2>2 DEF Aged
<1>3. CASE ~(q.age + by < TooOld) BY <1>1, <1>3 DEF Aged
<1> QED BY <1>2, <1>3

(* A quote younger than the limit can still be used a tick later. *)
LEMMA AgedByOne ==
  ASSUME NEW q \in Quote, q.age < QuoteMaxAge
  PROVE  QuoteIsFresh(Aged(q, 1)) /\ Aged(q, 1).right = q.right
<1>1. q.age \in Nat /\ q.age + 1 < TooOld BY ConstantTypes DEF Quote, TooOld
<1>2. Aged(q, 1) = [q EXCEPT !.age = @ + 1] BY <1>1 DEF Aged
<1> QED BY <1>1, <1>2, ConstantTypes DEF Quote, QuoteIsFresh

(* Ageing adds no more than the time that passes. *)
LEMMA AgedNoMore ==
  ASSUME NEW q \in Quote, NEW by \in Nat
  PROVE  Aged(q, by).age <= q.age + by
<1>1. q.age \in Nat /\ NoQuote.age = TooOld BY ConstantTypes DEF Quote, NoQuote
<1>2. CASE q.age + by < TooOld
  <2>1. Aged(q, by) = [q EXCEPT !.age = @ + by] BY <1>2 DEF Aged
  <2> QED BY <1>1, <2>1 DEF Quote
<1>3. CASE ~(q.age + by < TooOld) BY <1>1, <1>3, ConstantTypes DEF Aged
<1> QED BY <1>2, <1>3

(* A quote grows older no faster than the refresh that fetched it. *)
LEMMA FetchedAges ==
  ASSUME NEW q \in Quote, NEW time \in 0 .. TooOld, FetchedSince(q, time)
  PROVE  FetchedSince(Aged(q, 1), Grown(time, TooOld))
<1>1. PICK age \in SourceAges \cup {0} : q.age <= age + time BY DEF FetchedSince
<1>2. Aged(q, 1) \in Quote BY AgedType
<1>3. /\ age \in Nat /\ time \in Nat /\ q.age \in Nat
      /\ Aged(q, 1).age \in 0 .. TooOld /\ Aged(q, 1).age <= q.age + 1
  BY <1>2, ConstantTypes, AgedNoMore DEF Quote
<1> DEFINE older == Aged(q, 1)
<1> HIDE DEF older
<1>4. older.age \in 0 .. TooOld /\ older.age <= q.age + 1 BY <1>3 DEF older
<1>5. older.age <= age + Grown(time, TooOld)
  <2>1. CASE time < TooOld BY <1>1, <1>3, <1>4, <2>1, ConstantTypes DEF Grown
  <2>2. CASE ~(time < TooOld) BY <1>3, <1>4, <2>2, ConstantTypes DEF Grown
  <2> QED BY <2>1, <2>2
<1>6. FetchedSince(older, Grown(time, TooOld)) BY <1>5 DEF FetchedSince
<1> QED BY <1>6 DEF older

(* What a request may bring, none at all included. *)
LEMMA ReplyType ==
  ASSUME NEW asked \in SUBSET Symbols, NEW reply, reply \in Replies(asked) \cup {<<>>}
  PROVE  /\ DOMAIN reply \subseteq asked /\ Accepted(reply) \subseteq asked
         /\ \A s \in DOMAIN reply : reply[s] \in Quote
         /\ \A s \in Accepted(reply) : reply[s].age \in SourceAges \cup {0}
<1>1. CASE reply = <<>> BY <1>1 DEF Accepted
<1>2. CASE reply \in Replies(asked) /\ IsSound
  <2>1. reply = [s \in asked |-> [age |-> 0, right |-> TRUE]] BY <1>2 DEF Replies
  <2> QED BY <2>1, ConstantTypes DEF Quote, Accepted
<1>3. CASE reply \in Replies(asked) /\ ~IsSound
  <2>1. PICK some \in SUBSET asked : reply \in [some -> Answers] BY <1>3 DEF Replies
  <2>2. SourceAges \cup {TooOld} \subseteq 0 .. TooOld BY ConstantTypes
  <2>3. Answers \subseteq Quote BY <2>2 DEF Answers, Quote
  <2>4. ASSUME NEW s \in Accepted(reply) PROVE reply[s].age \in SourceAges \cup {0}
    <3>1. reply[s] \in Answers /\ reply[s].age <= QuoteMaxAge
      BY <2>1 DEF Accepted, Usable, QuoteIsFresh
    <3> QED BY <3>1, ConstantTypes DEF Answers
  <2> QED BY <2>1, <2>3, <2>4 DEF Accepted
<1> QED BY <1>1, <1>2, <1>3

LEMMA StoredType ==
  ASSUME quotes \in QuoteMap, refresh \in RefreshRec, NEW asked \in SUBSET Symbols,
         NEW reply, reply \in Replies(asked) \cup {<<>>}, StoreQuotes(reply)
  PROVE  /\ quotes' \in QuoteMap
         /\ Taken(reply) \in RefreshRec
         /\ \A s \in Symbols : s \notin Accepted(reply) => quotes'[s] = quotes[s]
         /\ \A s \in Accepted(reply) :
              QuoteWithinCandleRange(s, quotes'[s]) /\ FetchedSince(quotes'[s], refresh.taken)
<1>1. refresh.taken \in Nat BY ConstantTypes DEF RefreshRec
<1>2. /\ Accepted(reply) \subseteq Symbols /\ Accepted(reply) \subseteq DOMAIN reply
      /\ \A s \in DOMAIN reply : reply[s] \in Quote
  BY ReplyType DEF Accepted
<1>3. \A s \in Accepted(reply) :
        Aged(reply[s], refresh.taken) \in Quote /\ (Aged(reply[s], refresh.taken).right \/ ~reply[s].right)
  BY <1>1, <1>2, AgedType
<1>4. quotes' \in QuoteMap BY <1>3 DEF StoreQuotes, QuoteMap
<1>5. \A s \in Accepted(reply) : QuoteWithinCandleRange(s, quotes'[s])
  <2> SUFFICES ASSUME NEW s \in Accepted(reply) PROVE QuoteWithinCandleRange(s, quotes'[s])
    OBVIOUS
  <2>1. quotes'[s] = Aged(reply[s], refresh.taken) BY <1>2 DEF StoreQuotes
  <2>2. QuoteWithinCandleRange(s, reply[s]) BY DEF Accepted, Usable
  <2> QED BY <1>3, <2>1, <2>2 DEF QuoteWithinCandleRange
<1>6. Taken(reply) \in RefreshRec BY DEF Taken, RefreshRec
<1>7. \A s \in Accepted(reply) : FetchedSince(quotes'[s], refresh.taken)
  <2> SUFFICES ASSUME NEW s \in Accepted(reply) PROVE FetchedSince(quotes'[s], refresh.taken)
    OBVIOUS
  <2>1. quotes'[s] = Aged(reply[s], refresh.taken) BY <1>2 DEF StoreQuotes
  <2>2. reply[s] \in Quote /\ reply[s].age \in SourceAges \cup {0} BY <1>2, ReplyType
  <2>3. Aged(reply[s], refresh.taken).age <= reply[s].age + refresh.taken
    BY <1>1, <2>2, AgedNoMore
  <2> QED BY <2>1, <2>2, <2>3 DEF FetchedSince
<1> QED BY <1>4, <1>5, <1>6, <1>7 DEF StoreQuotes
-----------------------------------------------------------------------------
(* The ends of a step. *)

LEMMA FinishedTypes ==
  ASSUME refresh \in RefreshRec, retry \in RetryRec, NEW ok \in BOOLEAN, Finished(ok)
  PROVE  refresh' \in RefreshRec /\ retry' \in RetryRec
<1>1. refresh' \in RefreshRec BY BegunType DEF Finished
<1> DEFINE n == Grown(retry.failures, MaxFailures)
<1>2. n \in 1 .. MaxFailures /\ Delay[n] \in 1 .. MaxDelay
  BY GrownType, DelayType, ConstantTypes DEF RetryRec
<1>3. CASE ok
  <2>1. retry' = [retry EXCEPT !.failures = 0, !.blocked = 0] BY <1>3 DEF Finished
  <2>2. 0 \in 0 .. MaxFailures /\ 0 \in 0 .. MaxDelay BY ConstantTypes
  <2> HIDE DEF n
  <2> QED BY <1>1, <2>1, <2>2 DEF RetryRec
<1>4. CASE ~ok
  <2>1. retry' = [failures |-> n, blocked |-> Delay[n],
                  timer |-> IF retry.timer = Never THEN Delay[n] ELSE retry.timer]
    BY <1>4 DEF Finished
  <2> HIDE DEF n
  <2>2. n \in 0 .. MaxFailures /\ Delay[n] \in 0 .. MaxDelay BY <1>2, ConstantTypes
  <2>3. retry.timer \in {Never} \cup 0 .. MaxDelay BY DEF RetryRec
  <2> QED BY <1>1, <2>1, <2>2, <2>3 DEF RetryRec
<1> QED BY <1>3, <1>4

LEMMA NextCursor ==
  ASSUME cycle \in CycleRec
  PROVE  [age |-> 0, cursor |-> (cycle.cursor + 1) % Timeframes] \in CycleRec
<1>1. (cycle.cursor + 1) % Timeframes \in 0 .. Timeframes - 1
  BY ConstantTypes DEF CycleRec
<1> QED BY <1>1, ConstantTypes DEF CycleRec

LEMMA ContinueTypes ==
  ASSUME Types, NEW r \in RefreshRec, NEW b \in BackoffRec, quotes' \in QuoteMap,
         NEW stage \in {"single", "biquote", "swissquote", "end"}, Continue(r, stage, b)
  PROVE  /\ snapshot' \in QuoteMap /\ published' \in {Never} \cup 0 .. Cycle
         /\ backoff' \in BackoffRec /\ retry' \in RetryRec /\ cycle' \in CycleRec
         /\ refresh' \in RefreshRec
<1> USE DEF Types
<1>1. CASE r.todo # {} /\ stage # "end"
  <2>1. stage \in Stages /\ r.todo \subseteq Symbols BY <1>1 DEF Stages, RefreshRec
  <2>2. refresh' = [r EXCEPT !.at = stage, !.next = IF stage = "single" THEN r.todo ELSE {}]
    BY <1>1 DEF Continue
  <2>3. refresh' \in RefreshRec BY <2>1, <2>2 DEF RefreshRec
  <2> QED BY <1>1, <2>3 DEF Continue
<1>2. CASE ~(r.todo # {} /\ stage # "end")
  <2> DEFINE ok    == r.todo = {}
             after == IF ok THEN RecordSuccess ELSE RecordFailure(b, FALSE)
  <2>1. QuotesSettled(r, b) BY <1>2 DEF Continue
  <2>2. after \in BackoffRec BY FailureType, SuccessType
  <2>3. backoff' \in BackoffRec BY <2>1, <2>2 DEF QuotesSettled
  <2>4. snapshot' \in QuoteMap /\ published' \in {Never} \cup 0 .. Cycle
    BY <2>1, ConstantTypes DEF QuotesSettled
  <2>5. CASE cycle.age = Cycle
    <3>1. cycle' = [age |-> 0, cursor |-> (cycle.cursor + 1) % Timeframes] /\ retry' = retry
      BY <2>1, <2>5 DEF QuotesSettled
    <3>2. PICK at \in {"candles", "bars"} :
            refresh' = [Idle EXCEPT !.at = at, !.next = Symbols, !.frame = cycle.cursor,
                                    !.taken = r.taken, !.ok = ok]
      BY <2>1, <2>5 DEF QuotesSettled
    <3>3. Idle \in RefreshRec BY BegunType
    <3>4. cycle.cursor \in 0 .. Timeframes - 1 /\ r.taken \in 0 .. TooOld BY DEF CycleRec, RefreshRec
    <3>5. at \in Stages /\ ok \in BOOLEAN BY DEF Stages
    <3> HIDE DEF ok, after
    <3>6. refresh' \in RefreshRec BY <3>2, <3>3, <3>4, <3>5 DEF RefreshRec
    <3> QED BY <2>3, <2>4, <3>1, <3>6, NextCursor
  <2>6. CASE cycle.age # Cycle
    <3>1. Finished(ok) /\ cycle' = cycle BY <2>1, <2>6 DEF QuotesSettled
    <3>2. ok \in BOOLEAN OBVIOUS
    <3> HIDE DEF ok
    <3> QED BY <2>3, <2>4, <3>1, <3>2, FinishedTypes
  <2> QED BY <2>5, <2>6
<1> QED BY <1>1, <1>2

LEMMA MoreCandlesTypes ==
  ASSUME Types, NEW next \in SUBSET Symbols, NEW b \in BackoffRec, MoreCandles(next, b)
  PROVE  backoff' \in BackoffRec /\ retry' \in RetryRec /\ refresh' \in RefreshRec
<1> USE DEF Types
<1>1. CASE next # {}
  <2>1. refresh' = [refresh EXCEPT !.at = "bars", !.next = next, !.late = FALSE]
    BY <1>1 DEF MoreCandles
  <2>2. refresh' \in RefreshRec BY <2>1 DEF RefreshRec, Stages
  <2> QED BY <1>1, <2>2 DEF MoreCandles
<1>2. CASE next = {}
  <2>1. CandlesSettled(b) BY <1>2 DEF MoreCandles
  <2>2. refresh.ok \in BOOLEAN /\ Finished(refresh.ok) BY <2>1 DEF CandlesSettled, RefreshRec
  <2>3. backoff' \in BackoffRec
    <3>1. backoff' = RecordSuccess \/ backoff' = RecordFailure(b, FALSE) BY <2>1 DEF CandlesSettled
    <3> QED BY <3>1, FailureType, SuccessType
  <2> QED BY <2>2, <2>3, FinishedTypes
<1> QED BY <1>1, <1>2

LEMMA CandleTypes ==
  ASSUME Types, NEW some \in SUBSET Symbols, StoreCandles(some)
  PROVE  verified' \subseteq Symbols /\ frames' \subseteq 0 .. Timeframes - 1
BY DEF Types, StoreCandles, RefreshRec

-----------------------------------------------------------------------------
(* Types of every step. *)

LEMMA InitTypes == Init => Types
<1> SUFFICES ASSUME Init PROVE Types
  OBVIOUS
<1>1. NoQuotes \in QuoteMap BY ConstantTypes DEF NoQuotes, NoQuote, QuoteMap, Quote
<1>2. backoff \in BackoffRec
  <2>1. backoff = RecordFailure(RecordSuccess, FALSE) BY DEF Init
  <2> QED BY <2>1, SuccessType, FailureType
<1>3. retry \in RetryRec /\ cycle \in CycleRec /\ timer \in TimerRec
  BY ConstantTypes DEF Init, RetryRec, CycleRec, TimerRec
<1>4. refresh \in RefreshRec BY ConstantTypes DEF Init, Idle, RefreshRec, Stages
<1>5. quotes \in QuoteMap /\ snapshot \in QuoteMap BY <1>1 DEF Init
<1>6. /\ published = Never /\ verified = {} /\ frames = {} /\ health = "OFFLINE"
      /\ sound \subseteq Recoverable
  BY DEF Init
<1> QED BY <1>2, <1>3, <1>4, <1>5, <1>6 DEF Types

(* An answer, or none, for one symbol. *)
AnsweredFor(s, reply) ==
  LET r == [Taken(reply) EXCEPT !.next = @ \ {s}]
  IN  /\ reply \in Replies({s}) \cup {<<>>} /\ StoreQuotes(reply)
      /\ IF r.next # {}
         THEN refresh' = r /\ UNCHANGED <<snapshot, published, backoff, cycle, retry>>
         ELSE Continue(r, "biquote", backoff)

LEMMA SingleAnswer ==
  ASSUME ReadSingle
  PROVE  \E s \in refresh.next : \E reply : AnsweredFor(s, reply)
BY DEF ReadSingle, AnsweredFor

LEMMA QuoteAnswerTypes ==
  ASSUME Types, ReadBatch \/ BatchFails \/ ReadSingle \/ ReadFallback
  PROVE  Types'
<1> USE DEF Types
<1>1. CASE ReadBatch
  <2>1. PICK reply \in Replies(Symbols) :
          /\ StoreQuotes(reply)
          /\ Continue(Taken(reply), IF RefusedOf(reply) = {} THEN "single" ELSE "biquote", backoff)
    BY <1>1 DEF ReadBatch
  <2>2. quotes' \in QuoteMap /\ Taken(reply) \in RefreshRec BY <2>1, StoredType
  <2>3. (IF RefusedOf(reply) = {} THEN "single" ELSE "biquote") \in {"single", "biquote", "swissquote", "end"}
    OBVIOUS
  <2>4. /\ snapshot' \in QuoteMap /\ published' \in {Never} \cup 0 .. Cycle
        /\ backoff' \in BackoffRec /\ retry' \in RetryRec /\ cycle' \in CycleRec
        /\ refresh' \in RefreshRec
    BY <2>1, <2>2, <2>3, ContinueTypes
  <2> QED BY <1>1, <2>2, <2>4 DEF ReadBatch
<1>2. CASE BatchFails
  <2>1. PICK limited \in BOOLEAN :
          Continue([refresh EXCEPT !.late = FALSE], IF limited THEN "biquote" ELSE "single",
                   RecordFailure(backoff, limited))
    BY <1>2 DEF BatchFails
  <2>2. RecordFailure(backoff, limited) \in BackoffRec BY FailureType
  <2>3. [refresh EXCEPT !.late = FALSE] \in RefreshRec BY DEF RefreshRec
  <2>4. (IF limited THEN "biquote" ELSE "single") \in {"single", "biquote", "swissquote", "end"} OBVIOUS
  <2>5. quotes' \in QuoteMap BY <1>2 DEF BatchFails
  <2>6. /\ snapshot' \in QuoteMap /\ published' \in {Never} \cup 0 .. Cycle
        /\ backoff' \in BackoffRec /\ retry' \in RetryRec /\ cycle' \in CycleRec
        /\ refresh' \in RefreshRec
    BY <2>1, <2>2, <2>3, <2>4, <2>5, ContinueTypes
  <2> QED BY <1>2, <2>5, <2>6 DEF BatchFails
<1>3. CASE ReadSingle
  <2>9. PICK s \in refresh.next : \E reply : AnsweredFor(s, reply) BY <1>3, SingleAnswer
  <2>0. PICK reply : AnsweredFor(s, reply) BY <2>9
  <2> DEFINE r == [Taken(reply) EXCEPT !.next = @ \ {s}]
  <2>1. /\ reply \in Replies({s}) \cup {<<>>} /\ StoreQuotes(reply)
        /\ IF r.next # {}
           THEN refresh' = r /\ UNCHANGED <<snapshot, published, backoff, cycle, retry>>
           ELSE Continue(r, "biquote", backoff)
    BY <2>0 DEF AnsweredFor
  <2>2. {s} \subseteq Symbols BY DEF RefreshRec
  <2>3. quotes' \in QuoteMap /\ Taken(reply) \in RefreshRec BY <2>1, <2>2, StoredType
  <2>4. r \in RefreshRec BY <2>3 DEF RefreshRec
  <2>5. /\ snapshot' \in QuoteMap /\ published' \in {Never} \cup 0 .. Cycle
        /\ backoff' \in BackoffRec /\ retry' \in RetryRec /\ cycle' \in CycleRec
        /\ refresh' \in RefreshRec
    <3>1. CASE r.next # {} BY <2>1, <2>4, <3>1
    <3>2. CASE r.next = {} BY <2>1, <2>3, <2>4, <3>2, ContinueTypes
    <3> QED BY <3>1, <3>2
  <2> QED BY <1>3, <2>3, <2>5 DEF ReadSingle
<1>4. CASE ReadFallback
  <2>1. PICK reply \in Replies(refresh.todo) \cup {<<>>} :
          /\ StoreQuotes(reply)
          /\ Continue(Taken(reply), IF refresh.at = "biquote" THEN "swissquote" ELSE "end", backoff)
    BY <1>4 DEF ReadFallback
  <2>2. refresh.todo \subseteq Symbols BY DEF RefreshRec
  <2>3. quotes' \in QuoteMap /\ Taken(reply) \in RefreshRec BY <2>1, <2>2, StoredType
  <2>4. (IF refresh.at = "biquote" THEN "swissquote" ELSE "end") \in {"single", "biquote", "swissquote", "end"}
    OBVIOUS
  <2>5. /\ snapshot' \in QuoteMap /\ published' \in {Never} \cup 0 .. Cycle
        /\ backoff' \in BackoffRec /\ retry' \in RetryRec /\ cycle' \in CycleRec
        /\ refresh' \in RefreshRec
    BY <2>1, <2>3, <2>4, ContinueTypes
  <2> QED BY <1>4, <2>3, <2>5 DEF ReadFallback
<1> QED BY <1>1, <1>2, <1>3, <1>4
LEMMA CandleAnswerTypes ==
  ASSUME Types, ReadCandles \/ CandlesFail \/ ReadBars
  PROVE  Types'
<1> USE DEF Types
<1>1. ASSUME NEW some \in SUBSET Symbols, NEW next \in SUBSET Symbols, NEW b \in BackoffRec,
             StoreCandles(some), MoreCandles(next, b),
             UNCHANGED <<quotes, snapshot, published, cycle, timer, health, sound>>
      PROVE  Types'
  BY <1>1, CandleTypes, MoreCandlesTypes
<1>2. CASE ReadCandles
  <2>1. PICK some \in SUBSET Symbols :
          StoreCandles(some) /\ MoreCandles(Symbols \ some, backoff)
    BY <1>2 DEF ReadCandles
  <2> QED BY <1>1, <1>2, <2>1 DEF ReadCandles
<1>3. CASE CandlesFail
  <2>1. PICK limited \in BOOLEAN :
          StoreCandles({}) /\ MoreCandles(Symbols, RecordFailure(backoff, limited))
    BY <1>3 DEF CandlesFail
  <2>2. RecordFailure(backoff, limited) \in BackoffRec BY FailureType
  <2> QED BY <1>1, <1>3, <2>1, <2>2 DEF CandlesFail
<1>4. CASE ReadBars
  <2>3. PICK s \in refresh.next :
          \E some \in SUBSET {s} : StoreCandles(some) /\ MoreCandles(refresh.next \ {s}, backoff)
    BY <1>4 DEF ReadBars
  <2>1. PICK some \in SUBSET {s} : StoreCandles(some) /\ MoreCandles(refresh.next \ {s}, backoff)
    BY <2>3
  <2>2. refresh.next \subseteq Symbols BY DEF RefreshRec
  <2> QED BY <1>1, <1>4, <2>1, <2>2 DEF ReadBars
<1> QED BY <1>2, <1>3, <1>4

LEMMA HangsType ==
  ASSUME refresh \in RefreshRec, Hangs
  PROVE  refresh' \in RefreshRec
<1>1. refresh.taken \in 0 .. TooOld /\ refresh.late \in BOOLEAN BY DEF RefreshRec
<1>2. Grown(refresh.taken, TooOld) \in 0 .. TooOld BY <1>1, GrownType, ConstantTypes
<1>3. PICK late \in BOOLEAN :
        refresh' = [refresh EXCEPT !.taken = Grown(refresh.taken, TooOld), !.late = late]
  BY <1>1 DEF Hangs
<1> QED BY <1>2, <1>3 DEF RefreshRec

LEMMA TickTypes ==
  ASSUME Types, WorkerTick
  PROVE  Types'
<1> USE DEF Types
<1> DEFINE b       == [backoff EXCEPT !.retryIn = Less(@)]
           blocked == Less(retry.blocked)
<1>1. quotes' \in QuoteMap /\ snapshot' \in QuoteMap
  <2>1. \A s \in Symbols : Aged(quotes[s], 1) \in Quote /\ Aged(snapshot[s], 1) \in Quote
    BY AgedType DEF QuoteMap
  <2> QED BY <2>1 DEF WorkerTick, QuoteMap
<1>2. published' \in {Never} \cup 0 .. Cycle
  BY GrownType, ConstantTypes DEF WorkerTick
<1>3. retry' \in RetryRec
  <2>1. retry' = [retry EXCEPT !.blocked = Less(retry.blocked), !.timer = Less(retry.timer)]
    BY DEF WorkerTick
  <2>2. Less(retry.blocked) \in 0 .. MaxDelay /\ Less(retry.timer) \in {Never} \cup 0 .. MaxDelay
    BY LessType, ConstantTypes DEF RetryRec
  <2> QED BY <2>1, <2>2 DEF RetryRec
<1>4. cycle' \in CycleRec
  <2>1. cycle' = [cycle EXCEPT !.age = Grown(cycle.age, Cycle)] BY DEF WorkerTick
  <2>2. Grown(cycle.age, Cycle) \in 0 .. Cycle BY GrownType, ConstantTypes DEF CycleRec
  <2> QED BY <2>1, <2>2 DEF CycleRec
<1>5. timer' \in TimerRec
  BY ConstantTypes DEF WorkerTick, TimerRec
<1>6. b \in BackoffRec
  <2>1. Less(backoff.retryIn) \in 0 .. MaxDelay BY LessType, ConstantTypes DEF BackoffRec
  <2> QED BY <2>1 DEF BackoffRec
<1>7. Tick(b, retry'.blocked) BY DEF WorkerTick
<1> HIDE DEF b, blocked
<1>8. backoff' \in BackoffRec /\ health' \in {"HEALTHY", "OFFLINE"}
  <2>1. RecordFailure(b, FALSE) \in BackoffRec BY <1>6, FailureType
  <2> QED BY <1>6, <1>7, <2>1 DEF Tick
<1>9. refresh' \in RefreshRec
  <2>1. Hangs \/ refresh' = refresh \/ refresh' = RefreshBackgroundFeed(b, retry'.blocked)
    BY <1>7 DEF Tick
  <2> QED BY <2>1, HangsType, BegunType
<1> QED BY <1>1, <1>2, <1>3, <1>4, <1>5, <1>8, <1>9 DEF WorkerTick

LEMMA NextTypes ==
  ASSUME Types, [Next]_vars
  PROVE  Types'
<1> USE DEF Types
<1>1. CASE Answer BY <1>1, QuoteAnswerTypes, CandleAnswerTypes DEF Answer
<1>2. CASE Prime
  <2>1. refresh' \in RefreshRec BY <1>2, BegunType DEF Prime
  <2>2. timer' \in TimerRec BY <1>2 DEF Prime, TimerRec
  <2> QED BY <1>2, <2>1, <2>2 DEF Prime, cache
<1>3. CASE IntervalFires
  <2>1. refresh' \in RefreshRec BY <1>3, BegunType DEF IntervalFires
  <2>2. timer' \in TimerRec BY <1>3, ConstantTypes DEF IntervalFires, TimerRec
  <2> QED BY <1>3, <2>1, <2>2 DEF IntervalFires, cache
<1>4. CASE RetryFires
  <2>1. refresh' \in RefreshRec BY <1>4, BegunType DEF RetryFires
  <2>2. retry' \in RetryRec BY <1>4 DEF RetryFires, RetryRec
  <2> QED BY <1>4, <2>1, <2>2 DEF RetryFires, cache
<1>5. CASE WorkerTick BY <1>5, TickTypes
<1>6. CASE SourceRecovers BY <1>6 DEF SourceRecovers, cache
<1>7. CASE UNCHANGED vars BY <1>7 DEF vars, cache
<1> QED BY <1>1, <1>2, <1>3, <1>4, <1>5, <1>6, <1>7 DEF Next, Timer

(* The cache, the back-offs, the timers and the refresh keep their types.   *)
THEOREM TypeCorrect == Spec => []TypeOK
<1>1. Types /\ [Next]_vars => Types' BY NextTypes
<1>2. Types => TypeOK
  BY DEF Types, TypeOK, QuoteMap, BackoffRec, RetryRec, CycleRec, TimerRec, RefreshRec
<1> QED BY <1>1, <1>2, InitTypes, PTL DEF Spec
-----------------------------------------------------------------------------
(***************************************************************************)
(* What a refresh has and what it waits for.  The quotes that it has taken *)
(* are no older than it makes them, and in the range of the candles: these *)
(* change only when quotes are settled.  As long as it waits for quotes it lacks some, and the symbols *)
(* that it asks one by one are among them and not yet all asked.           *)
(***************************************************************************)
ForQuotes == refresh.at \in {"batch", "single", "biquote", "swissquote"}

Good(s, q, time) == QuoteWithinCandleRange(s, q) /\ FetchedSince(q, time)

TakenOK ==
  ForQuotes => \A s \in Symbols \ refresh.todo : Good(s, quotes[s], refresh.taken)

Awaited ==
  /\ ForQuotes => refresh.todo # {}
  /\ refresh.at \in {"single", "candles", "bars"} => refresh.next # {}
  /\ refresh.at = "single" => refresh.next \subseteq refresh.todo

IInv == Types /\ TakenOK /\ Awaited

(* The stages still to come at most, and what an answer brings nearer: the  *)
(* end of the refresh, or that of a stage that asks symbol by symbol.       *)
Remaining(at) ==
  CASE at = "batch"      -> 6 [] at = "single" -> 5 [] at = "biquote" -> 4
    [] at = "swissquote" -> 3 [] at = "candles" -> 2 [] at = "bars" -> 1
    [] OTHER -> 0

Nearer ==
  \/ Remaining(refresh'.at) < Remaining(refresh.at)
  \/ /\ refresh'.at = refresh.at
     /\ refresh'.next \subseteq refresh.next /\ refresh'.next # refresh.next

(* What follows the last answer of a stage keeps it, and publishes only     *)
(* quotes that were taken.                                                  *)
LEMMA ContinueKeeps ==
  ASSUME NEW r, NEW b, NEW stage \in {"single", "biquote", "swissquote", "end"},
         Continue(r, stage, b), verified' = verified,
         \A s \in Symbols \ r.todo : Good(s, quotes'[s], r.taken), r \in RefreshRec
  PROVE  /\ TakenOK' /\ Awaited'
         /\ UNCHANGED <<snapshot, published>> \/ (snapshot' = quotes' /\ r.todo = {})
         /\ refresh'.at \in {stage, "candles", "bars", "idle"} \ {"end"}
<1>1. CASE r.todo # {} /\ stage # "end"
  <2>1. /\ refresh' = [r EXCEPT !.at = stage, !.next = IF stage = "single" THEN r.todo ELSE {}]
        /\ UNCHANGED <<snapshot, published>>
    BY <1>1 DEF Continue
  <2>2. /\ refresh'.at = stage /\ refresh'.todo = r.todo /\ refresh'.taken = r.taken
        /\ refresh'.next = IF stage = "single" THEN r.todo ELSE {}
    BY <2>1 DEF RefreshRec
  <2>3. \A s \in Symbols \ r.todo : Good(s, quotes[s], refresh.taken)'
    BY <2>2 DEF Good, QuoteWithinCandleRange, FetchedSince
  <2> QED BY <1>1, <2>1, <2>2, <2>3 DEF TakenOK, Awaited, ForQuotes
<1>2. CASE ~(r.todo # {} /\ stage # "end")
  <2>1. QuotesSettled(r, b) BY <1>2 DEF Continue
  <2>2. refresh'.at \in {"candles", "bars", "idle"} /\ (refresh'.at # "idle" => refresh'.next # {})
    <3>1. CASE cycle.age = Cycle
      <4>1. PICK at \in {"candles", "bars"} : \E ok :
              refresh' = [Idle EXCEPT !.at = at, !.next = Symbols, !.frame = cycle.cursor,
                                      !.taken = r.taken, !.ok = ok]
        BY <2>1, <3>1 DEF QuotesSettled
      <4>2. refresh'.at = at /\ refresh'.next = Symbols BY <4>1 DEF Idle
      <4> QED BY <4>2, ConstantTypes
    <3>2. CASE cycle.age # Cycle
      <4>1. refresh' = Idle BY <2>1, <3>2 DEF QuotesSettled, Finished
      <4> QED BY <4>1 DEF Idle
    <3> QED BY <3>1, <3>2
  <2>3. UNCHANGED <<snapshot, published>> \/ (snapshot' = quotes' /\ r.todo = {})
    BY <2>1 DEF QuotesSettled
  <2> QED BY <2>2, <2>3 DEF TakenOK, Awaited, ForQuotes
<1> QED BY <1>1, <1>2

(* After an answer, the quotes taken are no older than the refresh makes    *)
(* them and in the range of the candles.                                    *)
LEMMA TakenAreGood ==
  ASSUME IInv, ForQuotes, NEW asked \in SUBSET Symbols, NEW reply,
         reply \in Replies(asked) \cup {<<>>}, StoreQuotes(reply)
  PROVE  /\ Taken(reply) \in RefreshRec
         /\ Taken(reply).todo = refresh.todo \ Accepted(reply)
         /\ Taken(reply).at = refresh.at /\ Taken(reply).next = refresh.next
         /\ Taken(reply).taken = refresh.taken
         /\ \A s \in Symbols \ Taken(reply).todo : Good(s, quotes'[s], refresh.taken)
<1>1. quotes \in QuoteMap /\ refresh \in RefreshRec BY DEF IInv, Types
<1>2. /\ Taken(reply).todo = refresh.todo \ Accepted(reply)
      /\ Taken(reply).at = refresh.at /\ Taken(reply).next = refresh.next
      /\ Taken(reply).taken = refresh.taken
  BY <1>1 DEF Taken, RefreshRec
<1>3. /\ Taken(reply) \in RefreshRec
      /\ \A s \in Symbols : s \notin Accepted(reply) => quotes'[s] = quotes[s]
      /\ \A s \in Accepted(reply) : Good(s, quotes'[s], refresh.taken)
  BY <1>1, StoredType DEF Good
<1>4. \A s \in Symbols \ refresh.todo : Good(s, quotes[s], refresh.taken) BY DEF IInv, TakenOK
<1> QED BY <1>2, <1>3, <1>4

(* The effects of an answer about quotes. *)
LEMMA QuoteAnswerKeeps ==
  ASSUME IInv, ReadBatch \/ BatchFails \/ ReadSingle \/ ReadFallback
  PROVE  /\ TakenOK' /\ Awaited' /\ Nearer /\ verified' = verified
         /\ \A s \in Symbols : quotes'[s] = quotes[s] \/ QuoteWithinCandleRange(s, quotes'[s])
         /\ \/ UNCHANGED <<snapshot, published>>
            \/ snapshot' = quotes' /\ \A s \in Symbols : Good(s, quotes'[s], refresh.taken)
<1>0. quotes \in QuoteMap /\ refresh \in RefreshRec BY DEF IInv, Types
<1>1. ASSUME NEW asked \in SUBSET Symbols, NEW reply, reply \in Replies(asked) \cup {<<>>}, StoreQuotes(reply)
      PROVE  \A s \in Symbols : quotes'[s] = quotes[s] \/ QuoteWithinCandleRange(s, quotes'[s])
  BY <1>0, <1>1, StoredType
<1>2. CASE ReadBatch
  <2>1. PICK reply \in Replies(Symbols) :
          /\ StoreQuotes(reply)
          /\ Continue(Taken(reply), IF RefusedOf(reply) = {} THEN "single" ELSE "biquote", backoff)
    BY <1>2 DEF ReadBatch
  <2>2. ForQuotes /\ verified' = verified BY <1>2 DEF ReadBatch, ForQuotes
  <2>3. (IF RefusedOf(reply) = {} THEN "single" ELSE "biquote") \in {"single", "biquote", "swissquote", "end"}
    OBVIOUS
  <2>4. /\ Taken(reply) \in RefreshRec
        /\ Taken(reply).taken = refresh.taken
        /\ \A s \in Symbols \ Taken(reply).todo : Good(s, quotes'[s], refresh.taken)
    BY <2>1, <2>2, TakenAreGood
  <2>5. /\ TakenOK' /\ Awaited'
        /\ UNCHANGED <<snapshot, published>> \/ (snapshot' = quotes' /\ Taken(reply).todo = {})
        /\ refresh'.at \in {"single", "biquote", "candles", "bars", "idle"}
    BY <2>1, <2>2, <2>3, <2>4, ContinueKeeps
  <2>6. Nearer BY <1>2, <2>5 DEF ReadBatch, Nearer, Remaining
  <2> QED BY <1>1, <2>1, <2>2, <2>4, <2>5, <2>6
<1>3. CASE BatchFails
  <2> DEFINE r == [refresh EXCEPT !.late = FALSE]
  <2>1. PICK limited \in BOOLEAN :
          Continue(r, IF limited THEN "biquote" ELSE "single", RecordFailure(backoff, limited))
    BY <1>3 DEF BatchFails
  <2>2. ForQuotes /\ verified' = verified /\ quotes' = quotes BY <1>3 DEF BatchFails, ForQuotes
  <2>3. (IF limited THEN "biquote" ELSE "single") \in {"single", "biquote", "swissquote", "end"} OBVIOUS
  <2>4. r \in RefreshRec /\ r.todo = refresh.todo /\ r.taken = refresh.taken BY <1>0 DEF RefreshRec
  <2>5. \A s \in Symbols \ r.todo : Good(s, quotes'[s], r.taken)
    BY <2>2, <2>4 DEF IInv, TakenOK
  <2> HIDE DEF r
  <2>6. /\ TakenOK' /\ Awaited'
        /\ UNCHANGED <<snapshot, published>> \/ (snapshot' = quotes' /\ r.todo = {})
        /\ refresh'.at \in {"single", "biquote", "candles", "bars", "idle"}
    BY <2>1, <2>2, <2>3, <2>4, <2>5, ContinueKeeps
  <2>7. Nearer BY <1>3, <2>6 DEF BatchFails, Nearer, Remaining
  <2> QED BY <2>2, <2>4, <2>5, <2>6, <2>7
<1>4. CASE ReadSingle
  <2>0. PICK s \in refresh.next : \E reply : AnsweredFor(s, reply) BY <1>4, SingleAnswer
  <2>1. PICK reply : AnsweredFor(s, reply) BY <2>0
  <2> DEFINE r == [Taken(reply) EXCEPT !.next = @ \ {s}]
  <2>2. /\ reply \in Replies({s}) \cup {<<>>} /\ StoreQuotes(reply)
        /\ IF r.next # {}
           THEN refresh' = r /\ UNCHANGED <<snapshot, published, backoff, cycle, retry>>
           ELSE Continue(r, "biquote", backoff)
    BY <2>1 DEF AnsweredFor
  <2>3. ForQuotes /\ verified' = verified /\ refresh.at = "single" BY <1>4 DEF ReadSingle, ForQuotes
  <2>4. {s} \subseteq Symbols BY <1>0 DEF RefreshRec
  <2>5. /\ Taken(reply) \in RefreshRec
        /\ Taken(reply).todo = refresh.todo \ Accepted(reply)
        /\ Taken(reply).at = refresh.at /\ Taken(reply).next = refresh.next
        /\ Taken(reply).taken = refresh.taken
        /\ \A x \in Symbols \ Taken(reply).todo : Good(x, quotes'[x], refresh.taken)
    BY <2>2, <2>3, <2>4, TakenAreGood
  <2>6. /\ r \in RefreshRec /\ r.todo = refresh.todo \ Accepted(reply)
        /\ r.at = "single" /\ r.next = refresh.next \ {s} /\ r.taken = refresh.taken
    BY <2>3, <2>5 DEF RefreshRec
  <2>7. \A x \in Symbols \ r.todo : Good(x, quotes'[x], r.taken) BY <2>5, <2>6
  <2>8. Accepted(reply) \subseteq {s} BY <2>2, <2>4, ReplyType
  <2> HIDE DEF r
  <2>9. CASE r.next # {}
    <3>1. refresh' = r /\ UNCHANGED <<snapshot, published>> BY <2>2, <2>9
    <3>2. refresh.next \subseteq refresh.todo BY <2>3 DEF IInv, Awaited
    <3>3. r.next \subseteq r.todo BY <2>6, <2>8, <3>2
    <3>4. Nearer BY <2>3, <2>6, <3>1 DEF Nearer
    <3>5. \A x \in Symbols \ r.todo : Good(x, quotes[x], refresh.taken)'
      BY <2>3, <2>7, <3>1 DEF Good, QuoteWithinCandleRange, FetchedSince
    <3>6. TakenOK' /\ Awaited'
      BY <2>6, <2>9, <3>1, <3>3, <3>5 DEF TakenOK, Awaited, ForQuotes
    <3> QED BY <1>1, <2>2, <2>3, <2>4, <3>1, <3>4, <3>6
  <2>10. CASE r.next = {}
    <3>1. Continue(r, "biquote", backoff) BY <2>2, <2>10
    <3>2. /\ TakenOK' /\ Awaited'
          /\ UNCHANGED <<snapshot, published>> \/ (snapshot' = quotes' /\ r.todo = {})
          /\ refresh'.at \in {"biquote", "candles", "bars", "idle"}
      BY <2>3, <2>6, <2>7, <3>1, ContinueKeeps
    <3>3. Nearer BY <2>3, <3>2 DEF Nearer, Remaining
    <3> QED BY <1>1, <2>2, <2>3, <2>4, <2>6, <2>7, <3>2, <3>3
  <2> QED BY <2>9, <2>10
<1>5. CASE ReadFallback
  <2>1. PICK reply \in Replies(refresh.todo) \cup {<<>>} :
          /\ StoreQuotes(reply)
          /\ Continue(Taken(reply), IF refresh.at = "biquote" THEN "swissquote" ELSE "end", backoff)
    BY <1>5 DEF ReadFallback
  <2>2. ForQuotes /\ verified' = verified BY <1>5 DEF ReadFallback, ForQuotes
  <2>3. (IF refresh.at = "biquote" THEN "swissquote" ELSE "end") \in {"single", "biquote", "swissquote", "end"}
    OBVIOUS
  <2>4. refresh.todo \subseteq Symbols BY <1>0 DEF RefreshRec
  <2>5. /\ Taken(reply) \in RefreshRec
        /\ Taken(reply).taken = refresh.taken
        /\ \A s \in Symbols \ Taken(reply).todo : Good(s, quotes'[s], refresh.taken)
    BY <2>1, <2>2, <2>4, TakenAreGood
  <2>6. /\ TakenOK' /\ Awaited'
        /\ UNCHANGED <<snapshot, published>> \/ (snapshot' = quotes' /\ Taken(reply).todo = {})
        /\ \/ refresh'.at \in {"candles", "bars", "idle"}
           \/ refresh.at = "biquote" /\ refresh'.at = "swissquote"
    BY <2>1, <2>2, <2>3, <2>5, ContinueKeeps
  <2>7. Nearer
    <3>1. refresh.at \in {"biquote", "swissquote"} BY <1>5 DEF ReadFallback
    <3> QED BY <2>6, <3>1 DEF Nearer, Remaining
  <2> QED BY <1>1, <2>1, <2>2, <2>4, <2>5, <2>6, <2>7
<1> QED BY <1>2, <1>3, <1>4, <1>5
(* An answer about candles leaves the quotes alone. *)
LEMMA CandleAnswerKeeps ==
  ASSUME IInv, ReadCandles \/ CandlesFail \/ ReadBars
  PROVE  /\ TakenOK' /\ Awaited' /\ Nearer
         /\ UNCHANGED <<quotes, snapshot, published>>
<1>0. refresh \in RefreshRec BY DEF IInv, Types
<1>1. ASSUME NEW next, NEW b, MoreCandles(next, b)
      PROVE  \/ next # {} /\ refresh'.at = "bars" /\ refresh'.next = next
             \/ refresh'.at = "idle"
  <2>1. CASE next # {}
    <3>1. refresh' = [refresh EXCEPT !.at = "bars", !.next = next, !.late = FALSE]
      BY <1>1, <2>1 DEF MoreCandles
    <3> QED BY <1>0, <2>1, <3>1 DEF RefreshRec
  <2>2. CASE next = {}
    <3>1. refresh' = Idle BY <1>1, <2>2 DEF MoreCandles, CandlesSettled, Finished
    <3> QED BY <3>1 DEF Idle
  <2> QED BY <2>1, <2>2
<1>2. ASSUME \/ refresh'.next # {} /\ refresh'.at = "bars"
             \/ refresh'.at = "idle"
      PROVE  TakenOK' /\ Awaited'
  BY <1>2 DEF TakenOK, Awaited, ForQuotes
<1>3. CASE ReadCandles \/ CandlesFail
  <2>1. PICK next, b : MoreCandles(next, b) BY <1>3 DEF ReadCandles, CandlesFail
  <2>2. refresh.at = "candles" BY <1>3 DEF ReadCandles, CandlesFail
  <2>3. Nearer BY <1>1, <2>1, <2>2 DEF Nearer, Remaining
  <2>4. TakenOK' /\ Awaited' BY <1>1, <1>2, <2>1
  <2> QED BY <1>3, <2>3, <2>4 DEF ReadCandles, CandlesFail
<1>4. CASE ReadBars
  <2>1. PICK s \in refresh.next : MoreCandles(refresh.next \ {s}, backoff) BY <1>4 DEF ReadBars
  <2>2. refresh.at = "bars" BY <1>4 DEF ReadBars
  <2>3. Nearer BY <1>1, <2>1, <2>2 DEF Nearer, Remaining
  <2>4. TakenOK' /\ Awaited' BY <1>1, <1>2, <2>1
  <2> QED BY <1>4, <2>3, <2>4 DEF ReadBars
<1> QED BY <1>3, <1>4

(* What begins a refresh and what lets one hang. *)
Begins ==
  \/ refresh' = refresh
  \/ refresh.at = "idle" /\ \E b, blocked : refresh' = RefreshBackgroundFeed(b, blocked)
  \/ Hangs

(* Quotes that a refresh has taken stay as good as it makes them. *)
StaysGood ==
  ForQuotes => \A s \in Symbols :
    Good(s, quotes[s], refresh.taken) => Good(s, quotes[s], refresh.taken)'

LEMMA BeginsKeeps ==
  ASSUME IInv, Begins, verified' = verified,
         StaysGood
  PROVE  /\ TakenOK' /\ Awaited'
         /\ refresh.at # "idle" =>
              refresh'.at = refresh.at /\ refresh'.todo = refresh.todo /\ refresh'.next = refresh.next
<1>0. refresh \in RefreshRec BY DEF IInv, Types
<1>1. CASE refresh'.at = refresh.at /\ refresh'.todo = refresh.todo /\ refresh'.next = refresh.next
  BY <1>1 DEF IInv, TakenOK, Awaited, ForQuotes, StaysGood
<1>2. CASE Hangs
  <2>1. PICK late : refresh' = [refresh EXCEPT !.taken = Grown(refresh.taken, TooOld), !.late = late]
    BY <1>2 DEF Hangs
  <2>2. refresh'.at = refresh.at /\ refresh'.todo = refresh.todo /\ refresh'.next = refresh.next
    BY <1>0, <2>1 DEF RefreshRec
  <2> QED BY <1>1, <2>2
<1>3. CASE refresh.at = "idle" /\ \E b, blocked : refresh' = RefreshBackgroundFeed(b, blocked)
  <2>1. PICK b, blocked : refresh' = RefreshBackgroundFeed(b, blocked) BY <1>3
  <2>2. CASE blocked > 0 BY <1>1, <2>1, <2>2 DEF RefreshBackgroundFeed
  <2>3. CASE ~(blocked > 0)
    <3>1. PICK at \in {"batch", "biquote"} : refresh' = [Idle EXCEPT !.at = at, !.todo = Symbols]
      BY <1>3, <2>1, <2>3 DEF RefreshBackgroundFeed
    <3>2. refresh'.at = at /\ refresh'.todo = Symbols BY <3>1 DEF Idle
    <3> QED BY <1>3, <3>2, ConstantTypes DEF TakenOK, Awaited, ForQuotes
  <2> QED BY <2>2, <2>3
<1>4. CASE refresh' = refresh BY <1>1, <1>4
<1> QED BY <1>2, <1>3, <1>4 DEF Begins

(* The steps that are no answers. *)
LEMMA OtherSteps ==
  ASSUME IInv, Timer \/ WorkerTick \/ SourceRecovers \/ UNCHANGED vars
  PROVE  /\ Begins /\ verified' = verified
         /\ StaysGood
         /\ WorkerTick \/ UNCHANGED <<quotes, snapshot>>
<1>0. ASSUME UNCHANGED <<quotes, verified, refresh>> \/ ~ForQuotes PROVE StaysGood
  BY <1>0 DEF StaysGood, Good, QuoteWithinCandleRange, FetchedSince
<1>1. CASE Timer
  <2>1. refresh' = RefreshBackgroundFeed(backoff, retry.blocked) /\ UNCHANGED cache
    BY <1>1 DEF Timer, Prime, IntervalFires, RetryFires
  <2>2. refresh.at = "idle" \/ refresh' = refresh BY <2>1 DEF RefreshBackgroundFeed
  <2>3. StaysGood BY <1>0, <2>1, <2>2 DEF cache, ForQuotes
  <2> QED BY <2>1, <2>2, <2>3 DEF Begins, cache
<1>2. CASE WorkerTick
  <2>t. Tick([backoff EXCEPT !.retryIn = Less(@)], retry'.blocked) /\ verified' = verified
    BY <1>2 DEF WorkerTick
  <2>1. StaysGood
    <3> SUFFICES ASSUME ForQuotes, NEW s \in Symbols, Good(s, quotes[s], refresh.taken)
                 PROVE  Good(s, quotes[s], refresh.taken)'
      BY DEF StaysGood
    <3>1. quotes[s] \in Quote /\ refresh \in RefreshRec /\ refresh.taken \in 0 .. TooOld
      BY DEF IInv, Types, QuoteMap, RefreshRec
    <3>2. quotes'[s] = Aged(quotes[s], 1) BY <1>2 DEF WorkerTick
    <3>3. Hangs BY <2>t DEF Tick, ForQuotes
    <3>4. refresh'.taken = Grown(refresh.taken, TooOld)
      <4>1. PICK late : refresh' = [refresh EXCEPT !.taken = Grown(refresh.taken, TooOld), !.late = late]
        BY <3>3 DEF Hangs
      <4> QED BY <3>1, <4>1 DEF RefreshRec
    <3>5. FetchedSince(quotes'[s], refresh'.taken)
      BY <3>1, <3>2, <3>4, FetchedAges DEF Good
    <3>6. Aged(quotes[s], 1).right \/ ~quotes[s].right BY <3>1, AgedType
    <3> QED BY <2>t, <3>2, <3>5, <3>6 DEF Good, QuoteWithinCandleRange, FetchedSince
  <2>2. Begins BY <2>t DEF Tick, Begins
  <2> QED BY <1>2, <2>1, <2>2 DEF WorkerTick
<1>3. CASE SourceRecovers
  <2>1. UNCHANGED <<quotes, snapshot, verified, refresh>> BY <1>3 DEF SourceRecovers, cache
  <2> QED BY <1>0, <2>1 DEF Begins
<1>4. CASE UNCHANGED vars
  <2>1. UNCHANGED <<quotes, snapshot, verified, refresh>> BY <1>4 DEF vars, cache
  <2> QED BY <1>0, <2>1 DEF Begins
<1> QED BY <1>1, <1>2, <1>3, <1>4

LEMMA NextKeeps ==
  ASSUME IInv, [Next]_vars
  PROVE  IInv'
<1>1. Types' BY NextTypes DEF IInv
<1>2. CASE Answer BY <1>1, <1>2, QuoteAnswerKeeps, CandleAnswerKeeps DEF Answer, IInv
<1>3. CASE ~Answer BY <1>1, <1>3, OtherSteps, BeginsKeeps DEF Next, IInv
<1> QED BY <1>2, <1>3

LEMMA Invariance == Spec => []IInv
<1>1. Init => IInv
  BY InitTypes DEF Init, IInv, TakenOK, Awaited, ForQuotes, Idle
<1>2. IInv /\ [Next]_vars => IInv' BY NextKeeps
<1> QED BY <1>1, <1>2, PTL DEF Spec
-----------------------------------------------------------------------------
(* What is published. *)

(* What a refresh publishes as new, whatever it took over the awaits and    *)
(* ticks since it began, it fetched itself and found in the range of the    *)
(* candles.                                                                 *)
THEOREM PublishesWhatItFetched == Spec => PublishedIsFetched
<1> DEFINE Published == Answer /\ ~UNCHANGED <<snapshot, published>> =>
      \A s \in Symbols : /\ FetchedSince(snapshot'[s], refresh.taken)
                        /\ QuoteWithinCandleRange(s, snapshot'[s])
<1>1. IInv /\ [Next]_vars => [Published]_vars
  <2> SUFFICES ASSUME IInv, Answer, ~UNCHANGED <<snapshot, published>>, NEW s \in Symbols
               PROVE  /\ FetchedSince(snapshot'[s], refresh.taken)
                      /\ QuoteWithinCandleRange(s, snapshot'[s])
    OBVIOUS
  <2>1. Good(s, snapshot'[s], refresh.taken)
    BY QuoteAnswerKeeps, CandleAnswerKeeps DEF Answer
  <2> QED BY <2>1 DEF Good
<1> QED BY <1>1, Invariance, PTL DEF Spec, PublishedIsFetched

-----------------------------------------------------------------------------
(* What is served. *)

SnapshotServes == \A s \in Symbols : Usable(s, snapshot[s])
QuotesServe    == \A s \in Symbols : Usable(s, quotes[s])

(* A tick finds every symbol if all of the snapshot can be used, or all of  *)
(* the quotes; a quote that it leaves out counts as too old.                *)
Served ==
  /\ IsComplete(CachedQuotes) <=> (SnapshotServes \/ QuotesServe)
  /\ SnapshotServes => CachedQuotes = snapshot
  /\ ~SnapshotServes /\ QuotesServe => \A s \in Symbols : CachedQuotes[s] = quotes[s]

LEMMA ServedMeans == Served
<1> USE DEF Served
<1>1. ~QuoteIsFresh(NoQuote) BY ConstantTypes DEF NoQuote, QuoteIsFresh
<1>2. CASE SnapshotServes
  <2>1. CachedQuotes = snapshot BY <1>2 DEF SnapshotServes, CachedQuotes
  <2> QED BY <1>2, <2>1 DEF SnapshotServes, IsComplete, Usable
<1>3. CASE ~SnapshotServes
  <2>1. CachedQuotes = [s \in Symbols |-> IF Usable(s, quotes[s]) THEN quotes[s] ELSE NoQuote]
    BY <1>3 DEF SnapshotServes, CachedQuotes
  <2>2. \A s \in Symbols : QuoteIsFresh(CachedQuotes[s]) <=> Usable(s, quotes[s])
    BY <1>1, <2>1 DEF Usable
  <2>3. IsComplete(CachedQuotes) <=> QuotesServe BY <2>2 DEF IsComplete, QuotesServe
  <2>4. QuotesServe => \A s \in Symbols : CachedQuotes[s] = quotes[s] BY <2>1 DEF QuotesServe
  <2> QED BY <1>3, <2>3, <2>4
<1> QED BY <1>2, <1>3

(* A usable set and the next step: what a tick ages is still fresh, and     *)
(* what an answer changes or publishes in time is in the range of the       *)
(* candles, as was all that the refresh took before.                        *)
LEMMA ServesOn ==
  ASSUME IInv, [Next]_vars, Served, IsComplete(CachedQuotes),
         \A s \in Symbols : CachedQuotes[s].age < QuoteMaxAge,
         WorkerTick \/ ~CameTooLate, verified' = verified
  PROVE  SnapshotServes' \/ QuotesServe'
<1> USE DEF SnapshotServes, QuotesServe, Usable
<1>1. quotes \in QuoteMap /\ snapshot \in QuoteMap BY DEF IInv, Types
<1>2. SnapshotServes \/ (~SnapshotServes /\ QuotesServe) BY DEF Served
<1>3. CASE WorkerTick
  <2>1. CASE SnapshotServes
    <3>1. ASSUME NEW s \in Symbols PROVE Usable(s, snapshot[s])'
      <4>1. snapshot[s] \in Quote /\ snapshot[s].age < QuoteMaxAge /\ Usable(s, snapshot[s])
        BY <1>1, <2>1 DEF QuoteMap, Served
      <4>2. snapshot'[s] = Aged(snapshot[s], 1) BY <1>3 DEF WorkerTick
      <4>3. QuoteIsFresh(Aged(snapshot[s], 1)) /\ Aged(snapshot[s], 1).right = snapshot[s].right
        BY <4>1, AgedByOne
      <4> QED BY <4>1, <4>2, <4>3 DEF QuoteIsFresh, QuoteWithinCandleRange
    <3> QED BY <3>1
  <2>2. CASE ~SnapshotServes /\ QuotesServe
    <3>1. ASSUME NEW s \in Symbols PROVE Usable(s, quotes[s])'
      <4>1. quotes[s] \in Quote /\ quotes[s].age < QuoteMaxAge /\ Usable(s, quotes[s])
        BY <1>1, <2>2 DEF QuoteMap, Served
      <4>2. quotes'[s] = Aged(quotes[s], 1) BY <1>3 DEF WorkerTick
      <4>3. QuoteIsFresh(Aged(quotes[s], 1)) /\ Aged(quotes[s], 1).right = quotes[s].right
        BY <4>1, AgedByOne
      <4> QED BY <4>1, <4>2, <4>3 DEF QuoteIsFresh, QuoteWithinCandleRange
    <3> QED BY <3>1
  <2> QED BY <1>2, <2>1, <2>2
<1>4. CASE UNCHANGED <<quotes, snapshot>>
  BY <1>2, <1>4 DEF QuoteIsFresh, QuoteWithinCandleRange
<1>5. CASE ~WorkerTick /\ (ReadBatch \/ BatchFails \/ ReadSingle \/ ReadFallback)
  <2>1. /\ \A s \in Symbols : quotes'[s] = quotes[s] \/ QuoteWithinCandleRange(s, quotes'[s])
        /\ \/ snapshot' = snapshot
           \/ snapshot' = quotes' /\ \A s \in Symbols : QuoteWithinCandleRange(s, quotes'[s])
    BY <1>5, QuoteAnswerKeeps DEF Good
  <2>2. \A s \in Symbols : /\ quotes'[s] = quotes[s] \/ QuoteIsFresh(quotes'[s])
                           /\ snapshot'[s] = snapshot[s] \/ QuoteIsFresh(snapshot'[s])
    BY <1>5 DEF CameTooLate
  <2>3. CASE SnapshotServes
    <3>1. ASSUME NEW s \in Symbols PROVE Usable(s, snapshot[s])'
      BY <2>1, <2>2, <2>3 DEF QuoteIsFresh, QuoteWithinCandleRange
    <3> QED BY <3>1
  <2>4. CASE QuotesServe
    <3>1. ASSUME NEW s \in Symbols PROVE Usable(s, quotes[s])'
      BY <2>1, <2>2, <2>4 DEF QuoteIsFresh, QuoteWithinCandleRange
    <3> QED BY <3>1
  <2> QED BY <1>2, <2>3, <2>4
<1>6. CASE ReadCandles \/ CandlesFail \/ ReadBars
  BY <1>4, <1>6, CandleAnswerKeeps
<1>7. CASE Timer \/ SourceRecovers \/ UNCHANGED vars
  BY <1>3, <1>4, <1>7, OtherSteps
<1> QED BY <1>3, <1>5, <1>6, <1>7 DEF Next, Answer

(* A set of quotes that can be used is not taken away by a refresh.         *)
THEOREM UsableSetLasts == Spec => HealthLasts
<1> DEFINE Lasts ==
      (/\ IsComplete(CachedQuotes)
       /\ \A s \in Symbols : CachedQuotes[s].age < QuoteMaxAge
       /\ WorkerTick \/ ~CameTooLate
       /\ verified' = verified)
      => IsComplete(CachedQuotes)'
<1>1. IInv /\ Served /\ Served' /\ [Next]_vars => [Lasts]_vars
  <2> SUFFICES ASSUME IInv, Served, Served', [Next]_vars, IsComplete(CachedQuotes),
                      \A s \in Symbols : CachedQuotes[s].age < QuoteMaxAge,
                      WorkerTick \/ ~CameTooLate, verified' = verified
               PROVE  IsComplete(CachedQuotes)'
    OBVIOUS
  <2>1. SnapshotServes' \/ QuotesServe' BY ServesOn
  <2> QED BY <2>1 DEF Served
<1>2. []Served BY ServedMeans, PTL
<1> QED BY <1>1, <1>2, Invariance, PTL DEF Spec, HealthLasts

-----------------------------------------------------------------------------
(* Progress. *)

(* While a refresh is in flight it waits for something.  An answer ends the *)
(* refresh, moves it to a later stage or leaves fewer symbols to ask in the *)
(* stage; ticks, timers and sources that recover take nothing of that back. *)
(* With answers that come (FairSpec) this is why a refresh ends: at most    *)
(* one answer per stage and symbol is due.                                  *)
NearsItsEnd ==
  [][ refresh.at # "idle" =>
        \/ Answer /\ Nearer
        \/ /\ refresh'.at = refresh.at /\ refresh'.todo = refresh.todo
           /\ refresh'.next = refresh.next ]_vars

THEOREM RefreshNearsItsEnd == Spec => []Awaited /\ NearsItsEnd
<1> DEFINE Step ==
      refresh.at # "idle" =>
        \/ Answer /\ Nearer
        \/ /\ refresh'.at = refresh.at /\ refresh'.todo = refresh.todo
           /\ refresh'.next = refresh.next
<1>1. IInv /\ [Next]_vars => [Step]_vars
  <2> SUFFICES ASSUME IInv, Next, refresh.at # "idle" PROVE Step
    OBVIOUS
  <2>1. CASE Answer BY <2>1, QuoteAnswerKeeps, CandleAnswerKeeps DEF Answer
  <2>2. CASE ~Answer BY <2>2, OtherSteps, BeginsKeeps DEF Next
  <2> QED BY <2>1, <2>2
<1>2. IInv => Awaited BY DEF IInv
<1> QED BY <1>1, <1>2, Invariance, PTL DEF Spec, NearsItsEnd
=============================================================================
