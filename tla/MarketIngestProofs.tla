-------------------------- MODULE MarketIngestProofs --------------------------
(***************************************************************************)
(* MarketIngest for all periods, windows, ages and bounds: its types, and  *)
(* that a hole of the history was passed over, a scan is not left out or   *)
(* taken back and the row that is remembered is the row that is stored.    *)
(***************************************************************************)
EXTENDS MarketIngest, WellFoundedInduction, TLAPS

USE IngestAssumption

-----------------------------------------------------------------------------
(* Helpers. *)

(* A bounded set of numbers has a greatest one, which Max is. *)
LEMMA MaxIsMember ==
  ASSUME NEW n \in Nat, NEW S \in SUBSET (0 .. n), S # {}
  PROVE  Max(S) \in S /\ \A y \in S : y <= Max(S)
<1> DEFINE T == {n - x : x \in S}
<1>0. \A x \in S : x \in 0 .. n /\ n - x \in Nat OBVIOUS
<1>1. T \subseteq Nat /\ T # {} BY <1>0
<1> HIDE DEF T
<1>2. PICK t \in T : \A u \in T : ~(<<u, t>> \in OpToRel(<, Nat))
  BY <1>1, NatLessThanWellFounded, WFMin, Zenon
<1>3. \A u \in T : ~(u < t) BY <1>1, <1>2, Zenon DEF OpToRel
<1>4. \A u \in T : t <= u BY <1>1, <1>3
<1>5. PICK x \in S : t = n - x BY DEF T
<1>6. \A y \in S : x >= y
  <2> SUFFICES ASSUME NEW y \in S PROVE x >= y
    OBVIOUS
  <2>1. n - y \in T BY DEF T
  <2>2. t <= n - y BY <1>4, <2>1
  <2> QED BY <1>5, <2>2
<1>7. Max(S) \in S /\ \A y \in S : Max(S) >= y BY <1>6 DEF Max
<1> QED BY <1>7

LEMMA ConstantTypes ==
  /\ Period \in Nat \ {0} /\ SettleDelay \in Nat /\ ProbeEvery \in Nat \ {0}
  /\ MaxNow \in Nat /\ MaxFaults \in Nat /\ Skew \in Nat
  /\ MaxNow \div Period \in Nat
<1>1. Period \in Nat \ {0} /\ MaxNow \in Nat OBVIOUS
<1>2. MaxNow \div Period \in Nat BY <1>1
<1> QED BY <1>1, <1>2

LEMMA CloseIsNat ==
  ASSUME NEW c \in Closes
  PROVE  c \in Nat \ {0} /\ c <= MaxNow \div Period
  BY ConstantTypes DEF Closes

LEMMA BelowIsClose ==
  ASSUME NEW d \in Closes, NEW c \in Nat \ {0}, c <= d
  PROVE  c \in Closes
  BY ConstantTypes DEF Closes

(* The latest close is stored, if any is, and no stored one is later. *)
LEMMA LatestIsStored ==
  /\ Latest \in Stored \cup {0} /\ Latest \in Nat
  /\ \A c \in Stored : c <= Latest
<1>1. Stored \cup {0} \in SUBSET (0 .. MaxNow \div Period)
  BY ConstantTypes DEF Stored, Closes
<1>2. Latest \in Stored \cup {0} /\ \A y \in Stored \cup {0} : y <= Latest
  BY <1>1, MaxIsMember, ConstantTypes DEF Latest
<1> QED BY <1>1, <1>2

(* What is left out of a delivery is older than a close that is stored.     *)
LEMMA BoundaryIsStored == Boundary \in Stored \cup {0} /\ Boundary \in Nat
<1>1. CASE Conflicts # {}
  <2>1. Conflicts \in SUBSET (0 .. MaxNow \div Period)
    BY ConstantTypes DEF Conflicts, Closes
  <2>2. Max(Conflicts) \in Conflicts BY <1>1, <2>1, MaxIsMember, ConstantTypes
  <2>3. Conflicts \subseteq Stored BY DEF Conflicts, Stored
  <2>m. \A c \in Conflicts : c \in Stored /\ c \in Nat BY <2>1, <2>3
  <2>4. Max(Conflicts) \in Stored /\ Max(Conflicts) \in Nat BY <2>2, <2>m
  <2>5. Boundary = Max(Conflicts) BY <1>1 DEF Boundary
  <2> QED BY <2>4, <2>5
<1>2. CASE Conflicts = {} BY <1>2, LatestIsStored DEF Boundary
<1> QED BY <1>1, <1>2

(* A close before one that has passed has passed. *)
LEMMA EarlierHasPassed ==
  ASSUME NEW c \in Nat, NEW d \in Nat, c <= d, NEW t \in Nat, d * Period <= t
  PROVE  c * Period <= t
<1>1. Period \in Nat OBVIOUS
<1> DEFINE k == d - c
<1>2. k \in Nat /\ d = c + k OBVIOUS
<1> HIDE DEF k
<1>3. k * Period \in Nat /\ c * Period \in Nat BY <1>1, <1>2
<1>4. d * Period = c * Period + k * Period BY <1>1, <1>2
<1> QED BY <1>3, <1>4

-----------------------------------------------------------------------------
(* Types. *)

BatchType   == [rows : SUBSET Closes, last : Values]
CandleType  == [quality : {"none", "VERIFIED_CLOSED", "CONFLICT"}, value : Values]

Types ==
  /\ now \in 0 .. MaxNow
  /\ batch \in BatchType
  /\ emitted \in {0} \cup Closes
  /\ candles \in [Closes -> CandleType]
  /\ row \in Row /\ rowCache \in Row
  /\ probe \in 0 .. ProbeEvery
  /\ scanned \in {0} \cup Closes /\ runs \subseteq Closes
  /\ phase \in {"idle", "news", "scanned"}
  /\ missed \subseteq Closes /\ faults \in 0 .. MaxFaults

LEMMA InitType == Init => Types
<1> SUFFICES ASSUME Init PROVE Types
  OBVIOUS
<1>1. batch \in BatchType BY DEF Init, NoBatch, BatchType, Values
<1>2. candles \in [Closes -> CandleType]
  <2>1. NoCandle \in CandleType BY DEF NoCandle, CandleType, Values
  <2> QED BY <2>1 DEF Init
<1>3. row \in Row /\ rowCache \in Row BY DEF Init, NoRow, Row
<1> QED BY <1>1, <1>2, <1>3, ConstantTypes DEF Init, Types

LEMMA PayloadIsCloses == Types => Payload \subseteq Closes
BY DEF Payload, Types, BatchType

(* The newest close of a batch is one of its rows, and none is newer.       *)
LEMMA NewestIsRow ==
  ASSUME Types
  PROVE  /\ Newest \in batch.rows \cup {0} /\ Newest \in Nat
         /\ \A c \in batch.rows : c <= Newest
<1>1. batch.rows \cup {0} \in SUBSET (0 .. MaxNow \div Period)
  BY ConstantTypes DEF Types, BatchType, Closes
<1>2. Newest \in batch.rows \cup {0} /\ \A y \in batch.rows \cup {0} : y <= Newest
  BY <1>1, MaxIsMember, ConstantTypes DEF Newest
<1> QED BY <1>1, <1>2

LEMMA UpsertType ==
  ASSUME Types, NEW c \in Closes
  PROVE  Upsert(c) \in CandleType /\ Upsert(c).quality # "none"
<1>1. candles[c] \in CandleType BY DEF Types
<1>2. ValueOf(c) \in Values BY DEF ValueOf, Types, BatchType, Values
<1> HIDE DEF ValueOf
<1> QED BY <1>1, <1>2 DEF Upsert, CandleType

LEMMA EmittedType == Types => Emitted \in {0} \cup Closes
BY NewestIsRow DEF Emitted, Types, BatchType

(* What is passed over are closes. *)
LEMMA MissedType ==
  ASSUME Types, NEW some \in SUBSET Payload, PassesOver(some)
  PROVE  missed' \subseteq Closes
BY PayloadIsCloses DEF PassesOver, Lacked, Types

LEMMA NextProbe == Types => Sooner \in 0 .. ProbeEvery
BY ConstantTypes DEF Sooner, Types

(* A close that can be scanned is the latest one. *)
LEMMA FreshIsLatest ==
  ASSUME FreshClosedM15 # 0
  PROVE  FreshClosedM15 = Latest /\ FreshClosedM15 \in Closes
BY DEF FreshClosedM15, IsEligible

LEMMA TypeStep == Types /\ [Next]_vars => Types'
<1> SUFFICES ASSUME Types, [Next]_vars PROVE Types'
  OBVIOUS
<1>1. CASE TickWithMarket
  <2>1. PICK observed \in 0 .. now' + Skew : Persist(observed) \/ PersistFails(observed)
    BY <1>1 DEF TickWithMarket
  <2>2. now' \in 0 .. MaxNow BY <1>1, ConstantTypes DEF TickWithMarket, Advance, Types
  <2>3. observed \in Int /\ now' \in Int BY <2>1, <2>2
  <2>4. CASE Persist(observed)
    <3>0. PICK refused \in SUBSET Payload :
            /\ candles' = [c \in Closes |-> IF c \in Written(refused) THEN Upsert(c) ELSE candles[c]]
            /\ PassesOver(refused)
      BY <2>4 DEF Persist
    <3>1. candles' \in [Closes -> CandleType]
      <4>1. \A c \in Closes : (IF c \in Written(refused) THEN Upsert(c) ELSE candles[c]) \in CandleType
        BY UpsertType DEF Types
      <4> QED BY <4>1, <3>0
    <3>2. row' \in Row /\ rowCache' \in Row
      <4> DEFINE new == [observed |-> observed, received |-> now', status |-> StatusOf(observed)]
      <4>1. new \in Row BY <2>3 DEF StatusOf, Row
      <4>2. \/ row' = row /\ rowCache' = (IF rowCache # NoRow THEN rowCache ELSE row)
            \/ row' = new /\ rowCache' = new
        BY <2>4 DEF Persist, PersistQuote
      <4> HIDE DEF new
      <4> QED BY <4>1, <4>2 DEF Types
    <3>3. missed' \subseteq Closes /\ UNCHANGED faults BY <2>4, <3>0, MissedType DEF Persist
    <3> QED BY <1>1, <2>2, <3>1, <3>2, <3>3, EmittedType, NextProbe DEF TickWithMarket, Types
  <2>5. CASE PersistFails(observed)
    <3>1. faults' \in 0 .. MaxFaults BY <2>5, ConstantTypes DEF PersistFails, Types
    <3>2. rowCache' \in Row /\ UNCHANGED <<row, candles>>
      BY <2>5 DEF PersistFails, HandedOnInVain, Remembered, NoRow, Row, Types
    <3>3. missed' \subseteq Closes BY <2>5, MissedType DEF PersistFails, HandedOnInVain
    <3> QED BY <1>1, <2>2, <3>1, <3>2, <3>3, EmittedType, NextProbe DEF TickWithMarket, Types
  <2> QED BY <2>1, <2>4, <2>5
<1>2. CASE TickWithoutMarket
  <2>1. now' \in 0 .. MaxNow BY <1>2, ConstantTypes DEF TickWithoutMarket, Advance, Types
  <2> QED BY <1>2, <2>1, NextProbe DEF TickWithoutMarket, Types
<1>3. CASE ScanProbe
  <2>1. probe' \in 0 .. ProbeEvery BY <1>3, ConstantTypes DEF ScanProbe, Types
  <2>2. runs' \subseteq Closes BY <1>3, FreshIsLatest DEF ScanProbe, Types
  <2>3. phase' \in {"idle", "news", "scanned"} BY <1>3 DEF ScanProbe
  <2> QED BY <1>3, <2>1, <2>2, <2>3 DEF ScanProbe, Types
<1>4. CASE MarkScanned
  <2>1. scanned' \in {0} \cup Closes BY <1>4, FreshIsLatest DEF MarkScanned
  <2> QED BY <1>4, <2>1 DEF MarkScanned, Types
<1>5. CASE TickFails
  <2>1. probe' \in 0 .. ProbeEvery /\ faults' \in 0 .. MaxFaults
    BY <1>5, ConstantTypes DEF TickFails, Types
  <2> QED BY <1>5, <2>1 DEF TickFails, Types
<1>6. CASE ReadCandleBatch
  <2>1. batch' \in BatchType BY <1>6 DEF ReadCandleBatch, Settled, BatchType, Values
  <2> QED BY <1>6, <2>1 DEF ReadCandleBatch, Types
<1>7. CASE OperatorScan
  <2>1. Latest \in Closes BY <1>7, LatestIsStored DEF OperatorScan, Stored
  <2>2. runs' \subseteq Closes BY <1>7, <2>1 DEF OperatorScan, Types
  <2> QED BY <1>7, <2>2 DEF OperatorScan, Types
<1>8. CASE Restart
  <2>1. batch' \in BatchType BY <1>8 DEF Restart, NoBatch, BatchType, Values
  <2>2. rowCache' \in Row BY <1>8 DEF Restart, NoRow, Row
  <2>3. now' \in 0 .. MaxNow /\ probe' \in 0 .. ProbeEvery /\ faults' \in 0 .. MaxFaults
    BY <1>8, ConstantTypes DEF Restart, Types
  <2> QED BY <1>8, <2>1, <2>2, <2>3 DEF Restart, Types
<1>9. CASE UNCHANGED vars BY <1>9 DEF vars, Types
<1>10. CASE TickWithoutQuote
  <2>1. now' \in 0 .. MaxNow BY <1>10, ConstantTypes DEF TickWithoutQuote, Advance, Types
  <2>2. missed' \subseteq Closes BY <1>10, MissedType DEF TickWithoutQuote, HandedOnInVain
  <2>3. UNCHANGED <<row, candles>> BY <1>10 DEF TickWithoutQuote, HandedOnInVain
  <2> QED BY <1>10, <2>1, <2>2, <2>3, EmittedType, NextProbe DEF TickWithoutQuote, Types
<1> QED BY <1>1, <1>2, <1>3, <1>4, <1>5, <1>6, <1>7, <1>8, <1>9, <1>10 DEF Next, Tick

(* The database and the memory of provider and worker have their types.     *)
THEOREM TypeCorrect == Spec => []TypeOK
<1>1. Types => TypeOK BY DEF Types, TypeOK, BatchType, CandleType
<1> QED BY <1>1, InitType, TypeStep, PTL DEF Spec

-----------------------------------------------------------------------------
(* Holes. *)

(* A candle up to the mark, or older than a stored one, is stored or was    *)
(* passed over; and a batch holds closes that have passed only, so that no  *)
(* part of it is left out for being in the future.                          *)
HoleInv ==
  /\ \A c \in Closes : c <= emitted => c \in Stored \cup missed
  /\ \A c \in Closes, d \in Stored : c < d => c \in Stored \cup missed
  /\ \A c \in batch.rows : c * Period <= now

LEMMA InitHoles == Init => HoleInv
<1> SUFFICES ASSUME Init PROVE HoleInv
  OBVIOUS
<1>1. \A c \in Closes : ~(c <= emitted) BY CloseIsNat DEF Init
<1>2. Stored = {} BY DEF Init, Stored, NoCandle
<1>3. batch.rows = {} BY DEF Init, NoBatch
<1> QED BY <1>1, <1>2, <1>3 DEF HoleInv

LEMMA Advances == Types /\ Advance => now' \in Nat /\ now <= now'
BY ConstantTypes DEF Advance, Types

(* The closes of a batch that stays remain closes that have passed.         *)
LEMMA RowsHavePassed ==
  ASSUME Types, HoleInv, now' \in Nat, now <= now', batch' = batch, NEW c \in batch.rows
  PROVE  c * Period <= now'
<1>1. c \in Nat /\ now \in Nat BY CloseIsNat DEF Types, BatchType
<1>2. c * Period \in Nat BY <1>1, ConstantTypes
<1>3. c * Period <= now BY DEF HoleInv
<1> QED BY <1>1, <1>2, <1>3

(* What a step leaves alone. *)
LEMMA HolesUnchanged ==
  ASSUME Types, HoleInv, UNCHANGED <<candles, emitted, batch, missed>>, now' \in Nat, now <= now'
  PROVE  HoleInv'
<1>1. Stored' = Stored BY DEF Stored
<1>2. \A c \in batch'.rows : c * Period <= now' BY RowsHavePassed
<1> QED BY <1>1, <1>2 DEF HoleInv

(* All that is handed on, not refused and not older than the boundary is    *)
(* written.                                                                 *)
LEMMA WrittenIsPayload ==
  ASSUME Types, HoleInv, Advance, batch' = batch, NEW refused
  PROVE  Written(refused) = {c \in Payload \ refused : c >= Boundary}
<1>1. \A c \in Payload : c * Period <= now'
  BY Advances, RowsHavePassed DEF Payload
<1> QED BY <1>1 DEF Written

(* What is handed on and not refused is in the database afterwards, or was  *)
(* passed over before, if the transaction does not fail.                    *)
LEMMA HandedOn ==
  ASSUME Types, HoleInv, Advance, batch' = batch, NEW refused, NEW c \in Payload \ refused
  PROVE  c \in Written(refused) \/ c \in Stored \cup missed
<1>1. CASE c >= Boundary BY <1>1, WrittenIsPayload
<1>2. CASE ~(c >= Boundary)
  <2>1. c \in Closes /\ c \in Nat BY PayloadIsCloses, CloseIsNat
  <2>2. c < Boundary /\ Boundary \in Stored BY <1>2, <2>1, BoundaryIsStored
  <2> QED BY <2>1, <2>2 DEF HoleInv
<1> QED BY <1>1, <1>2

(* The mark goes past what was handed on before, what is handed on now and  *)
(* what the batch lacks.                                                    *)
LEMMA EmittedFollows ==
  ASSUME Types, NEW c \in Closes, c <= Emitted
  PROVE  c <= emitted \/ c \in Payload \/ c \in Lacked
<1>1. c \in Nat \ {0} /\ emitted \in Nat /\ Newest \in Nat
  BY CloseIsNat, NewestIsRow DEF Types
<1>2. CASE batch.rows = {} BY <1>2 DEF Emitted
<1>3. CASE batch.rows # {} /\ c \in batch.rows BY <1>1, <1>3 DEF Payload
<1>4. CASE batch.rows # {} /\ c \notin batch.rows
  <2>1. Newest \in batch.rows
    <3>1. \A r \in batch.rows : r \in Nat \ {0} /\ r <= Newest
      BY CloseIsNat, NewestIsRow DEF Types, BatchType
    <3> QED BY <3>1, <1>1, <1>4, NewestIsRow
  <2>2. c <= Newest /\ c # Newest BY <1>4, <2>1 DEF Emitted
  <2> QED BY <1>1, <1>4, <2>2 DEF Lacked
<1> QED BY <1>2, <1>3, <1>4

(* A tick that moves the mark over the candles it hands on keeps the        *)
(* history without other holes if each of these candles is stored or put    *)
(* down as missed.                                                          *)
LEMMA MarkMoves ==
  ASSUME Types, HoleInv, Advance, batch' = batch, emitted' = Emitted,
         NEW some, PassesOver(some),
         \A c \in Stored : c \in Stored',
         \A d \in Stored' : d \in Stored \/ d \in Payload,
         \A c \in Payload : c \in Stored' \cup some \cup missed
  PROVE  HoleInv'
<1>1. \A c \in Closes : c \in Stored' \cup missed \cup Lacked \cup some => c \in (Stored \cup missed)'
  BY DEF PassesOver
<1>2. ASSUME NEW c \in Closes, c \in Stored \cup missed PROVE c \in (Stored \cup missed)'
  BY <1>1, <1>2
<1>3. ASSUME NEW c \in Closes, c <= emitted' PROVE c \in (Stored \cup missed)'
  <2>1. c <= emitted \/ c \in Payload \/ c \in Lacked BY <1>3, EmittedFollows
  <2>2. CASE c <= emitted BY <2>2, <1>2 DEF HoleInv
  <2>3. CASE c \in Payload BY <2>3, <1>1
  <2>4. CASE c \in Lacked BY <2>4, <1>1
  <2> QED BY <2>1, <2>2, <2>3, <2>4
<1>4. ASSUME NEW c \in Closes, NEW d \in Stored', c < d PROVE c \in (Stored \cup missed)'
  <2>1. CASE d \in Stored BY <2>1, <1>2, <1>4 DEF HoleInv
  <2>2. CASE d \in Payload
    <3>1. d \in batch.rows /\ d \in Nat /\ c \in Nat
      BY <2>2, PayloadIsCloses, CloseIsNat DEF Payload
    <3>2. d <= Newest /\ Newest \in Nat /\ emitted' = Newest
      BY <3>1, NewestIsRow DEF Emitted
    <3> QED BY <3>1, <3>2, <1>3, <1>4
  <2> QED BY <2>1, <2>2
<1>5. \A c \in batch'.rows : c * Period <= now' BY Advances, RowsHavePassed
<1> QED BY <1>3, <1>4, <1>5 DEF HoleInv

(* So does one that hands them on in vain. *)
LEMMA VainTick ==
  ASSUME Types, HoleInv, Advance, batch' = batch, emitted' = Emitted, HandedOnInVain
  PROVE  HoleInv'
<1>1. Stored' = Stored BY DEF HandedOnInVain, Stored
<1> QED BY <1>1, MarkMoves DEF HandedOnInVain

LEMMA HoleStep == Types /\ HoleInv /\ [Next]_vars => HoleInv'
<1> SUFFICES ASSUME Types, HoleInv, [Next]_vars PROVE HoleInv'
  OBVIOUS
<1>n. now \in Nat /\ now <= now BY DEF Types
<1>1. CASE TickWithMarket
  <2>1. PICK observed \in 0 .. now' + Skew : Persist(observed) \/ PersistFails(observed)
    BY <1>1 DEF TickWithMarket
  <2>2. Advance /\ emitted' = Emitted /\ batch' = batch BY <1>1 DEF TickWithMarket
  <2>3. CASE Persist(observed)
    <3>1. PICK refused \in SUBSET Payload :
            /\ candles' = [c \in Closes |-> IF c \in Written(refused) THEN Upsert(c) ELSE candles[c]]
            /\ PassesOver(refused)
      BY <2>3 DEF Persist
    <3>2. Written(refused) \subseteq Payload /\ Written(refused) \subseteq Closes
      BY PayloadIsCloses DEF Written
    <3>3. Stored' = Stored \cup Written(refused)
      <4>1. \A c \in Closes : candles'[c].quality # "none" <=> (c \in Written(refused) \/ candles[c].quality # "none")
        BY <3>1, UpsertType
      <4> QED BY <4>1, <3>2 DEF Stored
    <3>4. \A c \in Payload : c \in Stored' \cup refused \cup missed
      <4> SUFFICES ASSUME NEW c \in Payload \ refused PROVE c \in Stored' \cup missed
        OBVIOUS
      <4>1. c \in Written(refused) \/ c \in Stored \cup missed BY <2>2, HandedOn
      <4> QED BY <4>1, <3>3
    <3> QED BY <2>2, <3>1, <3>2, <3>3, <3>4, MarkMoves
  <2>4. CASE PersistFails(observed) BY <2>2, <2>4, VainTick DEF PersistFails
  <2> QED BY <2>1, <2>3, <2>4
<1>2. CASE TickWithoutQuote BY <1>2, VainTick DEF TickWithoutQuote
<1>3. CASE TickWithoutMarket
  BY <1>3, Advances, HolesUnchanged DEF TickWithoutMarket
<1>4. CASE ScanProbe \/ MarkScanned \/ TickFails \/ OperatorScan
  BY <1>4, <1>n, HolesUnchanged DEF ScanProbe, MarkScanned, TickFails, OperatorScan
<1>5. CASE ReadCandleBatch
  <2>1. PICK rows \in SUBSET Settled, v \in Values : batch' = [rows |-> rows, last |-> v]
    BY <1>5 DEF ReadCandleBatch
  <2>2. UNCHANGED <<now, candles, emitted, missed>> BY <1>5 DEF ReadCandleBatch
  <2>3. ASSUME NEW c \in batch'.rows PROVE c * Period <= now'
    <3>1. c \in Closes /\ c * Period + SettleDelay <= now BY <2>1, <2>3 DEF Settled
    <3>2. c * Period \in Nat BY <3>1, CloseIsNat, ConstantTypes
    <3> QED BY <3>1, <3>2, <2>2, <1>n, ConstantTypes
  <2>4. Stored' = Stored BY <2>2 DEF Stored
  <2> QED BY <2>2, <2>3, <2>4 DEF HoleInv
<1>6. CASE Restart
  <2>1. batch'.rows = {} /\ emitted' = 0 /\ UNCHANGED <<candles, missed>>
    BY <1>6 DEF Restart, NoBatch
  <2>2. Stored' = Stored BY <2>1 DEF Stored
  <2>3. \A c \in Closes : ~(c <= emitted') BY <2>1, CloseIsNat
  <2> QED BY <2>1, <2>2, <2>3 DEF HoleInv
<1>7. CASE UNCHANGED vars BY <1>7, <1>n, HolesUnchanged DEF vars
<1> QED BY <1>1, <1>2, <1>3, <1>4, <1>5, <1>6, <1>7 DEF Next, Tick

(* Whatever lags, fails or is restarted, a candle missing below the latest  *)
(* was passed over: by a batch without its row, by a refusal of its row or  *)
(* by handing it on in vain.                                                *)
THEOREM NoOtherHoles == Spec => []HolesWereMissed
<1>1. HoleInv => HolesWereMissed
  <2> SUFFICES ASSUME HoleInv, NEW c \in Closes, c < Latest, c \notin Stored PROVE c \in missed
    BY DEF HolesWereMissed
  <2>1. c \in Nat BY CloseIsNat
  <2>2. Latest \in Stored BY <2>1, LatestIsStored
  <2> QED BY <2>2 DEF HoleInv
<1> QED BY <1>1, InitType, InitHoles, TypeStep, HoleStep, PTL DEF Spec

-----------------------------------------------------------------------------
(* Scans. *)

(* The close noted is stored; between the scan and the note, the close that *)
(* will be noted is the latest and has its scan.                            *)
ScanInv ==
  /\ scanned = 0 \/ scanned \in runs
  /\ scanned \in Stored \cup {0}
  /\ phase = "scanned" => FreshClosedM15 \in runs \ {0}

LEMMA ScanUnchanged ==
  ASSUME UNCHANGED <<now, candles, row>>
  PROVE  FreshClosedM15' = FreshClosedM15 /\ Stored' = Stored /\ Latest' = Latest
<1>1. Stored' = Stored BY DEF Stored
<1>2. Latest' = Latest BY <1>1 DEF Latest
<1>3. RowIsFresh' = RowIsFresh BY DEF RowIsFresh
<1>4. IsEligible(Latest)' = IsEligible(Latest) BY <1>2 DEF IsEligible
<1> QED BY <1>1, <1>2, <1>3, <1>4 DEF FreshClosedM15

(* Candles are only added. *)
LEMMA StoredGrows ==
  ASSUME Types, [Next]_vars, NEW c \in Stored
  PROVE  c \in Stored'
<1>1. CASE UNCHANGED candles BY <1>1 DEF Stored
<1>2. CASE TickWithMarket
  <2>1. PICK observed : Persist(observed) \/ PersistFails(observed) BY <1>2 DEF TickWithMarket
  <2>2. CASE Persist(observed)
    <3>1. PICK refused \in SUBSET Payload :
            candles' = [d \in Closes |-> IF d \in Written(refused) THEN Upsert(d) ELSE candles[d]]
      BY <2>2 DEF Persist
    <3>2. c \in Closes /\ candles[c].quality # "none" BY DEF Stored
    <3>3. candles'[c].quality # "none" BY <3>1, <3>2, UpsertType
    <3> QED BY <3>2, <3>3 DEF Stored
  <2>3. CASE PersistFails(observed) BY <2>3, <1>1 DEF PersistFails, HandedOnInVain
  <2> QED BY <2>1, <2>2, <2>3
<1>3. CASE TickWithoutQuote \/ TickWithoutMarket \/ ScanProbe \/ MarkScanned \/ TickFails
  BY <1>3, <1>1 DEF TickWithoutQuote, HandedOnInVain, TickWithoutMarket, ScanProbe, MarkScanned, TickFails
<1>4. CASE ReadCandleBatch \/ OperatorScan \/ Restart \/ UNCHANGED vars
  BY <1>4, <1>1 DEF ReadCandleBatch, OperatorScan, Restart, vars
<1> QED BY <1>2, <1>3, <1>4 DEF Next, Tick

LEMMA ScanStep == Types /\ ScanInv /\ [Next]_vars => ScanInv'
<1> SUFFICES ASSUME Types, ScanInv, [Next]_vars PROVE ScanInv'
  OBVIOUS
<1>s. scanned \in Stored' \cup {0} BY StoredGrows DEF ScanInv
<1>1. CASE TickWithMarket \/ TickWithoutQuote \/ TickWithoutMarket
  BY <1>1, <1>s DEF TickWithMarket, TickWithoutQuote, TickWithoutMarket, ScanInv
<1>2. CASE ScanProbe
  <2>1. UNCHANGED <<now, candles, row, scanned>> BY <1>2 DEF ScanProbe
  <2>2. phase' = "scanned" => FreshClosedM15 # 0 /\ runs' = runs \cup {FreshClosedM15}
    BY <1>2 DEF ScanProbe
  <2>3. scanned \in runs => scanned \in runs' BY <1>2 DEF ScanProbe
  <2> QED BY <1>s, <2>1, <2>2, <2>3, ScanUnchanged DEF ScanInv
<1>3. CASE MarkScanned
  <2>1. scanned' = FreshClosedM15 /\ FreshClosedM15 \in runs \ {0} /\ runs' = runs /\ phase' = "idle"
    BY <1>3 DEF MarkScanned, ScanInv
  <2>2. UNCHANGED <<now, candles, row>> BY <1>3 DEF MarkScanned
  <2>3. FreshClosedM15 \in Stored \cup {0} BY <2>1, FreshIsLatest, LatestIsStored
  <2> QED BY <2>1, <2>2, <2>3, ScanUnchanged DEF ScanInv
<1>4. CASE TickFails \/ Restart
  BY <1>4, <1>s DEF TickFails, Restart, ScanInv
<1>5. CASE ReadCandleBatch
  BY <1>5, <1>s DEF ReadCandleBatch, LoopIsFree, ScanInv
<1>6. CASE OperatorScan
  BY <1>6, <1>s DEF OperatorScan, LoopIsFree, ScanInv
<1>7. CASE UNCHANGED vars
  BY <1>7, <1>s, ScanUnchanged DEF vars, ScanInv
<1> QED BY <1>1, <1>2, <1>3, <1>4, <1>5, <1>6, <1>7 DEF Next, Tick

LEMMA InitScans == Init => ScanInv
BY DEF Init, ScanInv

(* No close is noted as scanned that was not.                               *)
THEOREM NoScanIsLeftOut == Spec => []MarkedWasScanned
<1>1. ScanInv => MarkedWasScanned BY DEF ScanInv, MarkedWasScanned
<1> QED BY <1>1, InitType, InitScans, TypeStep, ScanStep, PTL DEF Spec

(* The worker does not go back to an older close.                           *)
THEOREM NoScanIsTakenBack == Spec => ScansMoveForward
<1> DEFINE A == scanned' >= scanned
<1>1. Types /\ ScanInv /\ [Next]_vars => [A]_vars
  <2> SUFFICES ASSUME Types, ScanInv, [Next]_vars PROVE A
    OBVIOUS
  <2>n. scanned \in Nat BY CloseIsNat DEF Types
  <2>1. CASE MarkScanned
    <3>1. scanned' = FreshClosedM15 /\ FreshClosedM15 # 0 BY <2>1 DEF MarkScanned, ScanInv
    <3>2. scanned' = Latest BY <3>1, FreshIsLatest
    <3>3. scanned <= Latest /\ Latest \in Nat BY LatestIsStored DEF ScanInv
    <3> QED BY <3>2, <3>3, <2>n
  <2>2. CASE UNCHANGED scanned BY <2>2, <2>n
  <2>3. CASE TickWithMarket \/ TickWithoutQuote \/ TickWithoutMarket \/ ScanProbe \/ TickFails
    BY <2>3, <2>2 DEF TickWithMarket, TickWithoutQuote, TickWithoutMarket, ScanProbe, TickFails
  <2>4. CASE ReadCandleBatch \/ OperatorScan \/ Restart \/ UNCHANGED vars
    BY <2>4, <2>2 DEF ReadCandleBatch, OperatorScan, Restart, vars
  <2> QED BY <2>1, <2>3, <2>4 DEF Next, Tick
<1>2. ScansMoveForward <=> [][A]_vars BY DEF ScansMoveForward
<1> HIDE DEF A
<1> QED BY <1>1, <1>2, InitType, InitScans, TypeStep, ScanStep, PTL DEF Spec

-----------------------------------------------------------------------------
(* The row that is remembered. *)

LEMMA RowStep == RememberedRowIsStored /\ [Next]_vars => RememberedRowIsStored'
<1> SUFFICES ASSUME RememberedRowIsStored, [Next]_vars PROVE RememberedRowIsStored'
  OBVIOUS
<1>1. CASE TickWithMarket
  <2>1. PICK observed : Persist(observed) \/ PersistFails(observed) BY <1>1 DEF TickWithMarket
  <2>2. CASE Persist(observed)
    <3>1. \/ row' = row /\ rowCache' = (IF rowCache # NoRow THEN rowCache ELSE row)
          \/ rowCache' = row'
      BY <2>2 DEF Persist, PersistQuote
    <3> QED BY <3>1 DEF RememberedRowIsStored
  <2>3. CASE PersistFails(observed)
    BY <2>3 DEF PersistFails, HandedOnInVain, Remembered, RememberedRowIsStored
  <2> QED BY <2>1, <2>2, <2>3
<1>2. CASE TickWithoutQuote \/ TickWithoutMarket \/ ScanProbe \/ MarkScanned \/ TickFails
  BY <1>2 DEF TickWithoutQuote, HandedOnInVain, TickWithoutMarket, ScanProbe, MarkScanned, TickFails, RememberedRowIsStored
<1>3. CASE ReadCandleBatch \/ OperatorScan \/ UNCHANGED vars
  BY <1>3 DEF ReadCandleBatch, OperatorScan, vars, RememberedRowIsStored
<1>4. CASE Restart BY <1>4 DEF Restart, RememberedRowIsStored
<1> QED BY <1>1, <1>2, <1>3, <1>4 DEF Next, Tick

(* The worker remembers no row that is not in the database.                 *)
THEOREM RememberedRow == Spec => []RememberedRowIsStored
<1>1. Init => RememberedRowIsStored BY DEF Init, RememberedRowIsStored
<1> QED BY <1>1, RowStep, PTL DEF Spec

===============================================================================
