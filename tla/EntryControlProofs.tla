-------------------------- MODULE EntryControlProofs --------------------------
(***************************************************************************)
(* EntryControl for all ages, limits and environments: its types, and the  *)
(* three bounds on when an entry is staged.                                *)
(***************************************************************************)
EXTENDS EntryControl, TLAPS

USE ControlAssumption

-----------------------------------------------------------------------------
(* Helpers. *)

LEMMA ConstantTypes ==
  /\ RiskMaxAge \in Nat /\ SnapshotInterval \in Nat \ {0} /\ HeartbeatMaxAge \in Nat
  /\ NewsRefresh \in Nat /\ NewsMaxAge \in Nat /\ TickLength \in Nat
  /\ MaxLoss \in Nat /\ MaxFaults \in Nat /\ DailyLossLimit \in Nat \ {0}
  OBVIOUS

(* The ages at which counting stops are ages. *)
LEMMA OldTypes ==
  /\ RiskOld \in Nat /\ SnapshotOld \in Nat /\ HeartbeatOld \in Nat
  /\ FetchOld \in Nat /\ AttemptOld \in Nat /\ SinceOld \in Nat /\ OpenedOld \in Nat
  /\ RiskOld = RiskMaxAge + TickLength + 1 /\ SnapshotOld = SnapshotInterval + TickLength
  /\ FetchOld = NewsMaxAge + TickLength + 1 /\ OpenedOld = TickLength + 1
  /\ SinceOld = SnapshotInterval + RiskMaxAge + TickLength
  BY ConstantTypes DEF RiskOld, SnapshotOld, HeartbeatOld, FetchOld, AttemptOld, SinceOld, OpenedOld

LEMMA OlderIsAge ==
  ASSUME NEW old \in Nat, NEW age \in 0 .. old
  PROVE  /\ Older(age, old) \in 0 .. old
         /\ age < old => Older(age, old) = age + 1
         /\ age = old => Older(age, old) = old
  BY DEF Older, None

LEMMA OlderBelow ==
  ASSUME NEW old \in Nat, NEW age \in 0 .. old, Older(age, old) < old
  PROVE  age < old /\ Older(age, old) = age + 1
  BY DEF Older, None

LEMMA OlderIsAgeOrNone ==
  ASSUME NEW old \in Nat, NEW age \in None .. old
  PROVE  /\ Older(age, old) \in None .. old
         /\ age = None => Older(age, old) = None
         /\ age # None => age \in 0 .. old
  BY DEF Older, None

(* A result adds at most one R to the loss and starts the time over it. *)
LEMMA ResultTypes ==
  ASSUME NEW b \in [drawdown : Drawdowns, since : 0 .. SinceOld, loss : 0 .. MaxLoss, over : None .. RiskOld],
         NEW r \in Result(b)
  PROVE  /\ r \in [drawdown : Drawdowns, since : 0 .. SinceOld, loss : 0 .. MaxLoss, over : None .. RiskOld]
         /\ r.drawdown = b.drawdown /\ r.since = b.since
<1>1. CASE r = b BY <1>1
<1>2. CASE r = Loses(b) /\ b.loss < MaxLoss
  <2> DEFINE over == IF b.over = None /\ b.loss + 1 >= DailyLossLimit THEN 0 ELSE b.over
             c == [b EXCEPT !.loss = b.loss + 1]
  <2>1. b.loss + 1 \in 0 .. MaxLoss /\ over \in None .. RiskOld
    BY <1>2, ConstantTypes, OldTypes DEF None
  <2>2. r = [c EXCEPT !.over = over] BY <1>2 DEF Loses
  <2> HIDE DEF over
  <2>3. /\ c \in [drawdown : Drawdowns, since : 0 .. SinceOld, loss : 0 .. MaxLoss, over : None .. RiskOld]
        /\ c.drawdown = b.drawdown /\ c.since = b.since
    BY <2>1
  <2> HIDE DEF c
  <2> QED BY <2>1, <2>2, <2>3
<1> QED BY <1>1, <1>2 DEF Result

-----------------------------------------------------------------------------
(* Types. *)

BooksType == [drawdown : Drawdowns, since : 0 .. SinceOld, loss : 0 .. MaxLoss, over : None .. RiskOld]
EventType == [announced : None .. FetchOld, opened : None .. OpenedOld, known : BOOLEAN]
NewsType  == [status : {"HEALTHY", "OFFLINE"}, age : 0 .. FetchOld, attempt : 0 .. AttemptOld]
TickType  == [at : {"idle", "reading", "scanning", "accounting"}, age : 0 .. TickLength]

Types ==
  /\ paperMode \in BOOLEAN /\ entryPaused \in BOOLEAN
  /\ worker \in [running : BOOLEAN, age : 0 .. HeartbeatOld]
  /\ risk \in [age : 0 .. RiskOld, drawdown : Drawdowns, loss : 0 .. MaxLoss]
  /\ snapshot \in [age : 0 .. SnapshotOld, drawdown : Drawdowns]
  /\ memory \in [loss : {None} \cup 0 .. MaxLoss, today : BOOLEAN]
  /\ news \in NewsType
  /\ exposed \in BOOLEAN /\ ticked \in BOOLEAN
  /\ books \in BooksType
  /\ event \in EventType
  /\ tick \in TickType
  /\ faults \in 0 .. MaxFaults /\ env \in Environments

LEMMA InitType == Init => Types
<1> SUFFICES ASSUME Init PROVE Types
  OBVIOUS
<1>1. /\ None \in None .. RiskOld /\ None \in None .. FetchOld /\ None \in None .. OpenedOld
      /\ 0 \in 0 .. SinceOld /\ 0 \in 0 .. MaxLoss /\ 0 \in 0 .. MaxFaults /\ 0 \in 0 .. TickLength
  BY ConstantTypes, OldTypes DEF None
<1>2. /\ RiskOld \in 0 .. RiskOld /\ SnapshotOld \in 0 .. SnapshotOld /\ HeartbeatOld \in 0 .. HeartbeatOld
      /\ FetchOld \in 0 .. FetchOld /\ AttemptOld \in 0 .. AttemptOld
  BY OldTypes
<1>3. books \in BooksType /\ event \in EventType /\ tick \in TickType
  BY <1>1 DEF Init, BooksType, EventType, TickType, Drawdowns
<1>4. news \in NewsType /\ risk \in [age : 0 .. RiskOld, drawdown : Drawdowns, loss : 0 .. MaxLoss]
  BY <1>1, <1>2 DEF Init, NewsType, Drawdowns
<1>5. /\ worker \in [running : BOOLEAN, age : 0 .. HeartbeatOld]
      /\ snapshot \in [age : 0 .. SnapshotOld, drawdown : Drawdowns]
      /\ memory \in [loss : {None} \cup 0 .. MaxLoss, today : BOOLEAN]
  BY <1>2 DEF Init, Drawdowns
<1> QED BY <1>1, <1>3, <1>4, <1>5 DEF Init, Types

(* What accounting writes has its type. *)
LEMMA CapturedType ==
  ASSUME Types, NEW force \in BOOLEAN, NEW b \in BooksType
  PROVE  /\ Captured(tick.age, force, b) \in [age : 0 .. SnapshotOld, drawdown : Drawdowns]
         /\ DailyLoss(force, b) \in 0 .. MaxLoss
<1>1. tick.age \in 0 .. SnapshotOld BY ConstantTypes, OldTypes DEF TickType, Types
<1>2. Captured(tick.age, force, b) \in [age : 0 .. SnapshotOld, drawdown : Drawdowns]
  BY <1>1 DEF Captured, BooksType, Types
<1>3. CachedLoss(force) \in {None} \cup 0 .. MaxLoss BY DEF CachedLoss, Types
<1>4. AsNumber(CachedLoss(force)) \in 0 .. MaxLoss BY <1>3, ConstantTypes DEF AsNumber, None
<1>5. DailyLoss(force, b) \in 0 .. MaxLoss BY <1>4 DEF DailyLoss, BooksType
<1> QED BY <1>2, <1>5

LEMMA TypeStep == Types /\ [Next]_vars => Types'
<1> SUFFICES ASSUME Types, [Next]_vars PROVE Types'
  OBVIOUS
<1>c. /\ tick.age \in 0 .. TickLength /\ tick.age \in Nat
      /\ 0 \in 0 .. SinceOld /\ 0 \in None .. RiskOld /\ 0 \in None .. FetchOld /\ 0 \in None .. OpenedOld
      /\ None \in None .. RiskOld /\ None \in None .. FetchOld /\ None \in None .. OpenedOld
  BY ConstantTypes, OldTypes DEF TickType, None, Types
<1>d. \A n \in 0 .. TickLength :
         n \in 0 .. HeartbeatOld /\ n \in 0 .. RiskOld /\ n \in 0 .. FetchOld /\ n \in 0 .. AttemptOld
  BY ConstantTypes DEF HeartbeatOld, RiskOld, FetchOld, AttemptOld
<1>1. CASE Wait
  <2>1. worker' \in [running : BOOLEAN, age : 0 .. HeartbeatOld]
    BY <1>1, OlderIsAge, OldTypes DEF Wait, Types
  <2>2. risk' \in [age : 0 .. RiskOld, drawdown : Drawdowns, loss : 0 .. MaxLoss]
    BY <1>1, OlderIsAge, OldTypes DEF Wait, Types
  <2>3. snapshot' \in [age : 0 .. SnapshotOld, drawdown : Drawdowns]
    BY <1>1, OlderIsAge, OldTypes DEF Wait, Types
  <2>4. news' \in NewsType
    BY <1>1, OlderIsAge, OldTypes DEF Wait, NewsType, Types
  <2>5. books' \in BooksType
    BY <1>1, <1>c, OlderIsAge, OlderIsAgeOrNone, OldTypes DEF Wait, BooksType, Types
  <2>6. event' \in EventType
    BY <1>1, OlderIsAgeOrNone, OldTypes DEF Wait, EventType, Types
  <2>7. tick' \in TickType
    BY <1>1, ConstantTypes DEF Wait, TickType, Types
  <2> QED BY <1>1, <2>1, <2>2, <2>3, <2>4, <2>5, <2>6, <2>7 DEF Wait, Types
<1>2. CASE NewDay
  <2> DEFINE c == [books EXCEPT !.loss = 0]
  <2>c. c \in BooksType BY ConstantTypes DEF BooksType, Types
  <2>d. books' = [c EXCEPT !.over = None] BY <1>2 DEF NewDay
  <2> HIDE DEF c
  <2>1. books' \in BooksType BY <2>c, <2>d, <1>c DEF BooksType
  <2>2. memory' \in [loss : {None} \cup 0 .. MaxLoss, today : BOOLEAN] BY <1>2 DEF NewDay, Types
  <2> QED BY <1>2, <2>1, <2>2 DEF NewDay, Types
<1>3. CASE DrawdownMoves
  <2>1. books' \in BooksType BY <1>3, <1>c DEF DrawdownMoves, BooksType, Types
  <2> QED BY <1>3, <2>1 DEF DrawdownMoves, state, Types
<1>4. CASE EventMoves
  <2>1. event' \in EventType
    <3>1. CASE event' = [event EXCEPT !.announced = 0] BY <3>1, <1>c DEF EventType, Types
    <3>2. CASE event' = [event EXCEPT !.opened = 0] BY <3>2, <1>c DEF EventType, Types
    <3>3. CASE event' = [announced |-> None, opened |-> None, known |-> FALSE] BY <3>3, <1>c DEF EventType
    <3> QED BY <1>4, <3>1, <3>2, <3>3 DEF EventMoves
  <2> QED BY <1>4, <2>1 DEF EventMoves, state, Types
<1>5. CASE Pause BY <1>5 DEF Pause, world, Types
<1>6. CASE Resume BY <1>6 DEF Resume, world, Types
<1>7. CASE \E enabled \in BOOLEAN : Paper(enabled) BY <1>7 DEF Paper, world, Types
<1>8. CASE ManualClose
  <2>1. books' \in BooksType BY <1>8, ResultTypes DEF ManualClose, BooksType, Types
  <2> QED BY <1>8, <2>1 DEF ManualClose, state, Types
<1>9. CASE OperatorScan BY <1>9 DEF OperatorScan, Scan, state, world, Types
<1>10. CASE TickStarts
  <2>1. tick' \in TickType BY <1>10, ConstantTypes DEF TickStarts, TickType
  <2> QED BY <1>10, <2>1 DEF TickStarts, state, world, Types
<1>11. CASE RefreshNews
  <2>1. tick' \in TickType BY <1>11 DEF RefreshNews, TickType, Types
  <2>2. news' \in NewsType BY <1>11, <1>c, <1>d DEF RefreshNews, NewsType, FetchedAt, Types
  <2>3. event' \in EventType BY <1>11 DEF RefreshNews, EventType, Types
  <2> QED BY <1>11, <2>1, <2>2, <2>3 DEF RefreshNews, Types
<1>12. CASE TickScans
  <2>1. tick' \in TickType BY <1>12 DEF TickScans, TickType, Types
  <2> QED BY <1>12, <2>1 DEF TickScans, Scan, state, world, Types
<1>13. CASE Account
  <2>1. tick' \in TickType BY <1>13, ConstantTypes DEF Account, TickType
  <2>2. PICK closes \in {FALSE, exposed}, force \in BOOLEAN :
          /\ exposed' = (exposed /\ ~closes)
          /\ \E b \in IF closes THEN Result(books) ELSE {books} :
               /\ books' = b
               /\ snapshot' = Captured(tick.age, force, b)
               /\ IF paperMode
                  THEN /\ risk' = [age |-> tick.age, drawdown |-> snapshot'.drawdown, loss |-> DailyLoss(force, b)]
                       /\ memory' = [loss |-> DailyLoss(force, b), today |-> TRUE]
                  ELSE UNCHANGED <<risk, memory>>
    BY <1>13 DEF Account
  <2>3. books' \in BooksType BY <2>2, ResultTypes DEF BooksType, Types
  <2>4. snapshot' \in [age : 0 .. SnapshotOld, drawdown : Drawdowns]
    BY <2>2, <2>3, CapturedType
  <2>5. DailyLoss(force, books') \in 0 .. MaxLoss BY <2>3, CapturedType
  <2>6. risk' \in [age : 0 .. RiskOld, drawdown : Drawdowns, loss : 0 .. MaxLoss]
    BY <2>2, <2>4, <2>5, <1>c, <1>d DEF Types
  <2>7. memory' \in [loss : {None} \cup 0 .. MaxLoss, today : BOOLEAN]
    <3>1. CASE paperMode
      <4> DEFINE loss == DailyLoss(force, books')
      <4>1. memory' = [loss |-> loss, today |-> TRUE] BY <3>1, <2>2
      <4>2. loss \in 0 .. MaxLoss BY <2>5
      <4> HIDE DEF loss
      <4> QED BY <4>1, <4>2
    <3>2. CASE ~paperMode BY <3>2, <2>2 DEF Types
    <3> QED BY <3>1, <3>2
  <2>8. worker' \in [running : BOOLEAN, age : 0 .. HeartbeatOld] BY <1>13, <1>c, <1>d DEF Account
  <2>9. exposed' \in BOOLEAN /\ ticked' \in BOOLEAN BY <1>13, <2>2 DEF Account, Types
  <2> QED BY <1>13, <2>1, <2>3, <2>4, <2>6, <2>7, <2>8, <2>9 DEF Account, Types
<1>14. CASE TickFails
  <2>1. tick' \in TickType BY <1>14, ConstantTypes DEF TickFails, TickType
  <2>2. worker' \in [running : BOOLEAN, age : 0 .. HeartbeatOld]
    <3>1. CASE worker' = worker BY <3>1 DEF Types
    <3>2. CASE worker' = [running |-> FALSE, age |-> tick.age] BY <3>2, <1>c, <1>d
    <3>3. worker' = worker \/ worker' = [running |-> FALSE, age |-> tick.age]
      BY <1>14 DEF TickFails
    <3> QED BY <3>1, <3>2, <3>3
  <2>3. faults' \in 0 .. MaxFaults BY <1>14, ConstantTypes DEF TickFails, Types
  <2>4. entryPaused' \in BOOLEAN /\ ticked' \in BOOLEAN BY <1>14 DEF TickFails, Types
  <2> QED BY <1>14, <2>1, <2>2, <2>3, <2>4 DEF TickFails, world, Types
<1>15. CASE Restart
  <2>1. tick' \in TickType BY <1>15, ConstantTypes DEF Restart, TickType
  <2>2. worker' \in [running : BOOLEAN, age : 0 .. HeartbeatOld] BY <1>15, OldTypes DEF Restart, initializeDatabase
  <2>3. faults' \in 0 .. MaxFaults BY <1>15, ConstantTypes DEF Restart, Types
  <2>4. news' \in NewsType BY <1>15, OldTypes DEF Restart, NewsType, Types
  <2>5. memory' \in [loss : {None} \cup 0 .. MaxLoss, today : BOOLEAN] BY <1>15 DEF Restart
  <2> QED BY <1>15, <2>1, <2>2, <2>3, <2>4, <2>5 DEF Restart, initializeDatabase, world, Types
<1>16. CASE UNCHANGED vars BY <1>16 DEF vars, state, world, Types
<1> QED BY <1>1, <1>2, <1>3, <1>4, <1>5, <1>6, <1>7, <1>8, <1>9, <1>10, <1>11, <1>12, <1>13, <1>14, <1>15, <1>16
        DEF Next, World, Operator, TickProceeds

(* The state of the database and the memory of the worker have their types. *)
THEOREM TypeCorrect == Spec => []TypeOK
<1>1. Types => TypeOK BY DEF Types, TypeOK, BooksType, EventType, NewsType, TickType
<1> QED BY <1>1, InitType, TypeStep, PTL DEF Spec

-----------------------------------------------------------------------------
(* Entries follow a finished tick: a running worker and open entries both  *)
(* mean that one was finished, and a resume waits for the first.           *)

TickInv == (worker.running => ticked) /\ (~entryPaused => ticked)

(* A tick that is accounted for is the only one that sets the heartbeat,    *)
(* and what resets ticked resets the heartbeat and pauses entries.          *)
LEMMA TickStep == Types /\ TickInv /\ [Next]_vars => TickInv'
<1> SUFFICES ASSUME Types, TickInv, [Next]_vars PROVE TickInv'
  OBVIOUS
<1>1. CASE Wait BY <1>1 DEF Wait, TickInv, Types
<1>2. CASE NewDay \/ DrawdownMoves \/ EventMoves
  BY <1>2 DEF NewDay, DrawdownMoves, EventMoves, state, TickInv
<1>3. CASE Pause \/ (\E enabled \in BOOLEAN : Paper(enabled))
  BY <1>3 DEF Pause, Paper, TickInv
<1>4. CASE Resume BY <1>4 DEF Resume, IsReady, WorkerReady, TickInv
<1>5. CASE ManualClose \/ OperatorScan \/ TickStarts \/ TickScans
  BY <1>5 DEF ManualClose, OperatorScan, TickStarts, TickScans, state, TickInv
<1>6. CASE RefreshNews BY <1>6 DEF RefreshNews, TickInv
<1>7. CASE Account BY <1>7 DEF Account, TickInv
<1>8. CASE TickFails
  <2>1. CASE UNCHANGED <<worker, entryPaused, ticked>> BY <2>1 DEF TickInv
  <2>2. CASE worker' = [running |-> FALSE, age |-> tick.age] /\ UNCHANGED <<entryPaused, ticked>>
    BY <2>2 DEF TickInv
  <2>3. CASE worker' = [running |-> FALSE, age |-> tick.age] /\ entryPaused' = TRUE
    BY <2>3 DEF TickInv
  <2> QED BY <1>8, <2>1, <2>2, <2>3 DEF TickFails
<1>9. CASE Restart BY <1>9 DEF Restart, initializeDatabase, TickInv
<1>10. CASE UNCHANGED vars BY <1>10 DEF vars, state, TickInv
<1> QED BY <1>1, <1>2, <1>3, <1>4, <1>5, <1>6, <1>7, <1>8, <1>9, <1>10
        DEF Next, World, Operator, TickProceeds

(* An entry is staged by a scan, that of a request at the present time or   *)
(* that of a tick at the time it read, and passes the gates of that time.   *)
LEMMA EntryIsScanned ==
  ASSUME Types, [Next]_vars, Entry
  PROVE  \E e \in 0 .. TickLength : evaluateMtfGate(e)
<1>c. tick.age \in 0 .. TickLength /\ 0 \in 0 .. TickLength
  BY ConstantTypes DEF TickType, Types
<1>1. CASE OperatorScan
  <2>1. evaluateMtfGate(0) BY <1>1 DEF OperatorScan, Scan, Entry
  <2> QED BY <2>1, <1>c
<1>2. CASE TickScans
  <2>1. evaluateMtfGate(tick.age) BY <1>2 DEF TickScans, Scan, Entry
  <2> QED BY <2>1, <1>c
<1>3. CASE ManualClose \/ Account \/ UNCHANGED exposed
  BY <1>3 DEF ManualClose, Account, Entry
<1>4. CASE World BY <1>4, <1>3 DEF World, Wait, NewDay, DrawdownMoves, EventMoves
<1>5. CASE Pause \/ Resume \/ (\E enabled \in BOOLEAN : Paper(enabled))
  BY <1>5, <1>3 DEF Pause, Resume, Paper
<1>6. CASE TickStarts \/ RefreshNews \/ TickFails \/ Restart
  BY <1>6, <1>3 DEF TickStarts, RefreshNews, TickFails, Restart
<1>7. CASE UNCHANGED vars BY <1>7, <1>3 DEF vars
<1> QED BY <1>1, <1>2, <1>3, <1>4, <1>5, <1>6, <1>7 DEF Next, Operator, TickProceeds

(* No entry is staged before a tick was finished since the last stop.       *)
THEOREM EntriesWait == Spec => EntriesFollowATick
<1> DEFINE A == Entry => ticked
<1>1. Init => TickInv BY DEF Init, TickInv
<1>2. Types /\ TickInv /\ [Next]_vars => [A]_vars
  <2> SUFFICES ASSUME Types, TickInv, [Next]_vars, Entry PROVE ticked
    OBVIOUS
  <2>1. ~entryPaused BY EntryIsScanned DEF evaluateMtfGate, RiskAllows
  <2> QED BY <2>1 DEF TickInv
<1>3. EntriesFollowATick <=> [][A]_vars BY DEF EntriesFollowATick
<1> HIDE DEF A
<1> QED BY <1>1, <1>2, <1>3, InitType, TypeStep, TickStep, PTL DEF Spec

-----------------------------------------------------------------------------
(* Entries respect the drawdown: a snapshot was taken when the drawdown was *)
(* below its limit, a risk state when the snapshot was not yet too old.     *)

DrawdownInv ==
  /\ books.drawdown = "allowed" => books.since = 0
  /\ snapshot.drawdown = "allowed" /\ snapshot.age < SnapshotOld => books.since <= snapshot.age
  /\ risk.drawdown = "allowed" /\ risk.age < RiskOld => books.since < risk.age + SnapshotInterval

LEMMA DrawdownStep == Types /\ DrawdownInv /\ [Next]_vars => DrawdownInv'
<1> SUFFICES ASSUME Types, DrawdownInv, [Next]_vars PROVE DrawdownInv'
  OBVIOUS
<1>c. /\ tick.age \in 0 .. TickLength /\ risk.age \in 0 .. RiskOld /\ snapshot.age \in 0 .. SnapshotOld
      /\ books.since \in 0 .. SinceOld
  BY DEF TickType, BooksType, Types
<1>1. CASE Wait
  <2>1. /\ books'.drawdown = books.drawdown
        /\ books'.since = IF books.drawdown = "allowed" THEN 0 ELSE Older(books.since, SinceOld)
    BY <1>1 DEF Wait, BooksType, Types
  <2>2. /\ snapshot'.drawdown = snapshot.drawdown /\ snapshot'.age = Older(snapshot.age, SnapshotOld)
        /\ risk'.drawdown = risk.drawdown /\ risk'.age = Older(risk.age, RiskOld)
    BY <1>1 DEF Wait, Types
  <2>3. books'.since \in Nat /\ books'.since <= books.since + 1
    <3>1. Older(books.since, SinceOld) \in Nat /\ Older(books.since, SinceOld) <= books.since + 1
      BY <1>c, OldTypes DEF Older, None
    <3> HIDE DEF Older
    <3> QED BY <2>1, <3>1, <1>c
  <2>4. books'.drawdown = "allowed" => books'.since = 0 BY <2>1
  <2>5. ASSUME snapshot'.drawdown = "allowed", snapshot'.age < SnapshotOld
        PROVE  books'.since <= snapshot'.age
    <3>1. snapshot.age < SnapshotOld /\ snapshot'.age = snapshot.age + 1
      BY <2>2, <2>5, <1>c, OlderBelow, OldTypes
    <3>2. books.since <= snapshot.age BY <2>2, <2>5, <3>1 DEF DrawdownInv
    <3> QED BY <3>1, <3>2, <2>3, <1>c
  <2>6. ASSUME risk'.drawdown = "allowed", risk'.age < RiskOld
        PROVE  books'.since < risk'.age + SnapshotInterval
    <3>1. risk.age < RiskOld /\ risk'.age = risk.age + 1
      BY <2>2, <2>6, <1>c, OlderBelow, OldTypes
    <3>2. books.since < risk.age + SnapshotInterval BY <2>2, <2>6, <3>1 DEF DrawdownInv
    <3> QED BY <3>1, <3>2, <2>3, <1>c, ConstantTypes
  <2> QED BY <2>4, <2>5, <2>6 DEF DrawdownInv
<1>2. CASE NewDay
  <2>1. books'.drawdown = books.drawdown /\ books'.since = books.since /\ UNCHANGED <<snapshot, risk>>
    BY <1>2 DEF NewDay, BooksType, Types
  <2> QED BY <2>1 DEF DrawdownInv
<1>3. CASE DrawdownMoves
  <2>1. books'.since = 0 /\ UNCHANGED <<snapshot, risk>>
    BY <1>3 DEF DrawdownMoves, state, BooksType, Types
  <2> QED BY <2>1, <1>c, ConstantTypes DEF DrawdownInv
<1>4. CASE UNCHANGED <<books, snapshot, risk>>
  BY <1>4 DEF DrawdownInv
<1>5. CASE ManualClose
  <2>1. books'.drawdown = books.drawdown /\ books'.since = books.since
    BY <1>5, ResultTypes DEF ManualClose, BooksType, Types
  <2>2. UNCHANGED <<snapshot, risk>> BY <1>5 DEF ManualClose, state
  <2> QED BY <2>1, <2>2 DEF DrawdownInv
<1>6. CASE Account
  <2>1. PICK closes \in {FALSE, exposed}, force \in BOOLEAN :
          \E b \in IF closes THEN Result(books) ELSE {books} :
            /\ books' = b
            /\ snapshot' = Captured(tick.age, force, b)
            /\ IF paperMode
               THEN risk' = [age |-> tick.age, drawdown |-> snapshot'.drawdown, loss |-> DailyLoss(force, b)]
               ELSE UNCHANGED risk
    BY <1>6 DEF Account
  <2>2. books'.drawdown = books.drawdown /\ books'.since = books.since
    BY <2>1, ResultTypes DEF BooksType, Types
  <2>3. snapshot' = Captured(tick.age, force, books') BY <2>1
  <2>4. CASE SnapshotIsKept(tick.age, force)
    <3>1. snapshot' = snapshot BY <2>3, <2>4 DEF Captured
    <3>2. snapshot.age < SnapshotInterval + tick.age
      BY <2>4, <1>c, OldTypes, ConstantTypes DEF SnapshotIsKept
    <3>3. snapshot.age < SnapshotOld BY <3>2, <1>c, OldTypes, ConstantTypes
    <3>4. snapshot'.drawdown = "allowed" => books'.since < tick.age + SnapshotInterval
      BY <3>1, <3>2, <3>3, <2>2, <1>c, OldTypes, ConstantTypes DEF DrawdownInv
    <3>5. risk'.drawdown = "allowed" /\ risk'.age < RiskOld => books'.since < risk'.age + SnapshotInterval
      <4>1. CASE paperMode
        <5>1. risk'.drawdown = snapshot'.drawdown /\ risk'.age = tick.age BY <4>1, <2>1
        <5> QED BY <5>1, <3>4
      <4>2. CASE ~paperMode BY <4>2, <2>1, <2>2 DEF DrawdownInv
      <4> QED BY <4>1, <4>2
    <3> QED BY <3>1, <3>5, <2>2 DEF DrawdownInv
  <2>5. CASE ~SnapshotIsKept(tick.age, force)
    <3>1. snapshot' = [age |-> tick.age, drawdown |-> books'.drawdown] BY <2>3, <2>5 DEF Captured
    <3>2. snapshot'.drawdown = "allowed" => books'.since = 0 BY <3>1, <2>2 DEF DrawdownInv
    <3>3. risk'.drawdown = "allowed" /\ risk'.age < RiskOld => books'.since < risk'.age + SnapshotInterval
      <4>1. CASE paperMode
        <5>1. risk'.drawdown = snapshot'.drawdown /\ risk'.age = tick.age BY <4>1, <2>1
        <5> QED BY <5>1, <3>2, <1>c, ConstantTypes
      <4>2. CASE ~paperMode BY <4>2, <2>1, <2>2 DEF DrawdownInv
      <4> QED BY <4>1, <4>2
    <3>4. snapshot'.age = tick.age BY <3>1
    <3> QED BY <3>2, <3>3, <3>4, <2>2, <1>c DEF DrawdownInv
  <2> QED BY <2>4, <2>5
<1>7. CASE EventMoves \/ OperatorScan \/ TickStarts \/ TickScans
  BY <1>7, <1>4 DEF EventMoves, OperatorScan, TickStarts, TickScans, state, world
<1>8. CASE Pause \/ Resume \/ (\E enabled \in BOOLEAN : Paper(enabled))
  BY <1>8, <1>4 DEF Pause, Resume, Paper, world
<1>9. CASE RefreshNews \/ TickFails \/ Restart
  BY <1>9, <1>4 DEF RefreshNews, TickFails, Restart, world
<1>10. CASE UNCHANGED vars BY <1>10, <1>4 DEF vars, state, world
<1> QED BY <1>1, <1>2, <1>3, <1>5, <1>6, <1>7, <1>8, <1>9, <1>10
        DEF Next, World, Operator, TickProceeds

(* The ages of the snapshot, the risk state and the tick bound how long     *)
(* entries go on after the drawdown has reached its limit.                  *)
THEOREM EntriesStop == Spec => EntriesRespectDrawdown
<1> DEFINE A == Entry => books.since < SnapshotInterval + RiskMaxAge + TickLength
<1>1. Init => DrawdownInv BY OldTypes DEF Init, DrawdownInv
<1>2. Types /\ DrawdownInv /\ [Next]_vars => [A]_vars
  <2> SUFFICES ASSUME Types, DrawdownInv, [Next]_vars, Entry
               PROVE  books.since < SnapshotInterval + RiskMaxAge + TickLength
    OBVIOUS
  <2>1. PICK e \in 0 .. TickLength : evaluateMtfGate(e) BY EntryIsScanned
  <2>2. risk.age \in 0 .. RiskOld /\ books.since \in 0 .. SinceOld BY DEF BooksType, Types
  <2>3. risk.drawdown = "allowed" /\ risk.age - e <= RiskMaxAge
    BY <2>1 DEF evaluateMtfGate, RiskAllows, evaluateRiskGuard, RiskIsFresh
  <2>4. risk.age < RiskOld BY <2>2, <2>3, OldTypes, ConstantTypes
  <2>5. books.since < risk.age + SnapshotInterval BY <2>3, <2>4 DEF DrawdownInv
  <2> QED BY <2>2, <2>3, <2>5, OldTypes, ConstantTypes
<1>3. EntriesRespectDrawdown <=> [][A]_vars BY DEF EntriesRespectDrawdown
<1> HIDE DEF A
<1> QED BY <1>1, <1>2, <1>3, InitType, TypeStep, DrawdownStep, PTL DEF Spec

-----------------------------------------------------------------------------
(* Entries avoid news: an event announced before the calendar was fetched   *)
(* is in the database.                                                      *)

NewsInv == news.age < FetchOld /\ event.announced > news.age => event.known

LEMMA NewsStep == Types /\ NewsInv /\ [Next]_vars => NewsInv'
<1> SUFFICES ASSUME Types, NewsInv, [Next]_vars PROVE NewsInv'
  OBVIOUS
<1>c. /\ tick.age \in 0 .. TickLength /\ news.age \in 0 .. FetchOld
      /\ event.announced \in None .. FetchOld
  BY DEF TickType, NewsType, EventType, Types
<1>1. CASE Wait
  <2>1. /\ news'.age = Older(news.age, FetchOld)
        /\ event'.announced = Older(event.announced, FetchOld) /\ event'.known = event.known
    BY <1>1 DEF Wait, NewsType, EventType, Types
  <2>2. event'.announced <= event.announced + 1 /\ event'.announced \in Int
    BY <2>1, <1>c, OldTypes DEF Older, None
  <2> SUFFICES ASSUME news'.age < FetchOld, event'.announced > news'.age PROVE event'.known
    BY DEF NewsInv
  <2>3. news.age < FetchOld /\ news'.age = news.age + 1 BY <2>1, <1>c, OlderBelow, OldTypes
  <2>4. event.announced > news.age BY <2>2, <2>3, <1>c DEF None
  <2> QED BY <2>1, <2>3, <2>4 DEF NewsInv
<1>2. CASE UNCHANGED <<news, event>> BY <1>2 DEF NewsInv
<1>3. CASE EventMoves
  <2>1. UNCHANGED news BY <1>3 DEF EventMoves, state
  <2>2. CASE event' = [event EXCEPT !.announced = 0]
    <3>1. event'.announced = 0 BY <2>2 DEF EventType, Types
    <3> QED BY <3>1, <2>1, <1>c DEF NewsInv
  <2>3. CASE event' = [event EXCEPT !.opened = 0]
    <3>1. event'.announced = event.announced /\ event'.known = event.known
      BY <2>3 DEF EventType, Types
    <3> QED BY <3>1, <2>1 DEF NewsInv
  <2>4. CASE event' = [announced |-> None, opened |-> None, known |-> FALSE]
    <3>1. event'.announced = None BY <2>4
    <3> QED BY <3>1, <2>1, <1>c DEF NewsInv, None
  <2> QED BY <1>3, <2>2, <2>3, <2>4 DEF EventMoves
<1>4. CASE RefreshNews
  <2>1. CASE UNCHANGED <<news, event>> BY <2>1, <1>2
  <2>2. CASE /\ news' = [status |-> "HEALTHY", age |-> tick.age, attempt |-> tick.age]
             /\ event' = [event EXCEPT !.known = event.announced # None]
    <3> DEFINE announced == event.announced # None
    <3>1. news'.age = tick.age BY <2>2
    <3>2. event' = [event EXCEPT !.known = announced] BY <2>2
    <3>3. event.announced > tick.age => announced BY <1>c DEF None
    <3> HIDE DEF announced
    <3>4. event'.announced = event.announced /\ event'.known = announced
      BY <3>2 DEF EventType, Types
    <3> QED BY <3>1, <3>3, <3>4 DEF NewsInv
  <2>3. CASE /\ news' = [status |-> IF news.age - tick.age <= NewsMaxAge THEN "HEALTHY" ELSE "OFFLINE",
                         age |-> FetchedAt(tick.age), attempt |-> tick.age]
             /\ UNCHANGED event
    <3>1. news'.age = news.age BY <2>3 DEF FetchedAt
    <3> QED BY <2>3, <3>1 DEF NewsInv
  <2> QED BY <1>4, <2>1, <2>2, <2>3 DEF RefreshNews
<1>5. CASE Restart
  <2>1. news'.age = news.age /\ UNCHANGED event BY <1>5 DEF Restart, world, NewsType, Types
  <2> QED BY <2>1 DEF NewsInv
<1>6. CASE NewDay \/ DrawdownMoves \/ ManualClose \/ OperatorScan
  BY <1>6, <1>2 DEF NewDay, DrawdownMoves, ManualClose, OperatorScan, state, world
<1>7. CASE Pause \/ Resume \/ (\E enabled \in BOOLEAN : Paper(enabled))
  BY <1>7, <1>2 DEF Pause, Resume, Paper, world
<1>8. CASE TickStarts \/ TickScans \/ TickFails
  BY <1>8, <1>2 DEF TickStarts, TickScans, TickFails, state, world
<1>9. CASE Account BY <1>9, <1>2 DEF Account
<1>10. CASE UNCHANGED vars BY <1>10, <1>2 DEF vars, state, world
<1> QED BY <1>1, <1>3, <1>4, <1>5, <1>6, <1>7, <1>8, <1>9, <1>10
        DEF Next, World, Operator, TickProceeds

(* No entry is staged in the blackout of an event that had been announced   *)
(* for longer than a calendar may be used.                                  *)
THEOREM EntriesAreQuiet == Spec => EntriesAvoidNews
<1> DEFINE A == Entry => ~(event.announced > NewsMaxAge + TickLength /\ event.opened > TickLength)
<1>1. Init => NewsInv BY OldTypes DEF Init, NewsInv, None
<1>2. Types /\ NewsInv /\ [Next]_vars => [A]_vars
  <2> SUFFICES ASSUME Types, NewsInv, [Next]_vars, Entry,
                      event.announced > NewsMaxAge + TickLength, event.opened > TickLength
               PROVE  FALSE
    OBVIOUS
  <2>1. PICK e \in 0 .. TickLength : evaluateMtfGate(e) BY EntryIsScanned
  <2>2. news.age \in 0 .. FetchOld /\ event.announced \in None .. FetchOld /\ event.opened \in None .. OpenedOld
    BY DEF NewsType, EventType, Types
  <2>3. news.age - e <= NewsMaxAge /\ ~InBlackout(e)
    BY <2>1 DEF evaluateMtfGate, evaluateNewsBlackout, NewsIsFresh
  <2>4. news.age < FetchOld /\ event.announced > news.age
    BY <2>2, <2>3, OldTypes, ConstantTypes DEF None
  <2>5. event.known BY <2>4 DEF NewsInv
  <2>6. event.opened # None /\ event.opened >= e BY <2>2, ConstantTypes, OldTypes DEF None
  <2> QED BY <2>3, <2>5, <2>6 DEF InBlackout
<1>3. EntriesAvoidNews <=> [][A]_vars BY DEF EntriesAvoidNews
<1> HIDE DEF A
<1> QED BY <1>1, <1>2, <1>3, InitType, TypeStep, NewsStep, PTL DEF Spec
===============================================================================
