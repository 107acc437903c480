------------------------ MODULE TelegramOutboxProofs ------------------------
(***************************************************************************)
(* Proofs about TelegramOutbox, for every set of chats and every bound.    *)
(***************************************************************************)
EXTENDS TelegramOutbox, FiniteSetTheorems, SequenceTheorems, TLAPS

-----------------------------------------------------------------------------
(* Batches and rows. *)

(* The bounds, one by one. *)
LEMMA Constants ==
  /\ MaxAttempts \in Nat \ {0} /\ QueueLimit \in Nat \ {0} /\ SummaryLimit \in Nat \ {0}
  /\ HoursPerDay \in Nat \ {0} /\ MaxUpdates \in Nat
BY OutboxAssumption

(* The environments, part by part. *)
LEMMA Env ==
  ASSUME NEW e \in Environments
  PROVE  e.owners \subseteq Chats /\ e.notifications \subseteq BOOLEAN /\ e.updates \in 0 .. MaxUpdates
BY OutboxAssumption DEF Environment

(* A new row is well formed. *)
LEMMA NewRowType ==
  ASSUME NEW key \in Keys, NEW chat \in Chats, NEW text \in Texts
  PROVE  NewRow(key, chat, text) \in Row
<1> HIDE DEF Keys, Texts
<1> QED BY Constants DEF NewRow, Row

(* A nonempty set of numbers has its minimum as a member. *)
LEMMA MinIsMember ==
  ASSUME NEW S \in SUBSET Nat, S # {}
  PROVE  Min(S) \in S /\ \A x \in S : Min(S) <= x
<1>1. PICK x \in S : \A y \in S : ~(<<y, x>> \in OpToRel(<, Nat))
  BY NatLessThanWellFounded, WFMin, Zenon
<1>2. \A y \in S : ~(y < x) BY <1>1, Zenon DEF OpToRel
<1>3. \A y \in S : x <= y BY <1>2
<1> QED BY <1>3 DEF Min

(* The next of consecutive updates is the first, and the rest follows it.   *)
LEMMA MinOfRange ==
  ASSUME NEW k \in Nat, NEW n \in Nat, k <= n
  PROVE  Min(k .. n) = k /\ (k .. n) \ {k} = k + 1 .. n
<1>1. Min(k .. n) \in k .. n /\ \A x \in k .. n : Min(k .. n) <= x BY MinIsMember
<1> QED BY <1>1

(* A row that replaces another leaves the rest of the outbox as it is.      *)
LEMMA UpdatedRows ==
  ASSUME outbox \in Seq(Row), NEW i \in DOMAIN outbox, NEW row \in Row,
         outbox' = [outbox EXCEPT ![i] = row]
  PROVE  /\ outbox' \in Seq(Row)
         /\ DOMAIN outbox' = DOMAIN outbox
         /\ \A j \in DOMAIN outbox : outbox'[j] = IF j = i THEN row ELSE outbox[j]
<1> HIDE DEF Row
<1> QED OBVIOUS

(* Inserting keeps what is queued and adds only rows of the given set.      *)
LEMMA InsertedRows ==
  ASSUME outbox \in Seq(Row), NEW rows \in SUBSET Row, IsFiniteSet(rows), Insert(rows)
  PROVE  /\ outbox' \in Seq(Row)
         /\ DOMAIN outbox \subseteq DOMAIN outbox'
         /\ \A i \in DOMAIN outbox : outbox'[i] = outbox[i]
         /\ \A i \in DOMAIN outbox' \ DOMAIN outbox : outbox'[i] \in rows
<1> DEFINE new == {r \in rows : ~IsQueued(r.key, r.chat)}
<1>1. IsFiniteSet(new) /\ Cardinality(new) \in Nat BY FS_Subset, FS_CardinalityType
<1>2. PICK added \in [1 .. Cardinality(new) -> new] : outbox' = outbox \o added
  BY DEF Insert
<1> HIDE DEF Row
<1>3. added \in Seq(rows)
  <2> DEFINE n == Cardinality(new)
  <2>1. n \in Nat /\ added \in [1 .. n -> rows] BY <1>1, <1>2
  <2> HIDE DEF n
  <2> QED BY <2>1, SeqDef
<1>4. added \in Seq(Row) BY <1>3, SeqMonotonic
<1> HIDE DEF new
<1>5. outbox' \in Seq(Row) /\ Len(outbox') = Len(outbox) + Len(added)
  BY <1>2, <1>4, ConcatProperties
<1>6. \A i \in 1 .. Len(outbox) + Len(added) :
        outbox'[i] = IF i <= Len(outbox) THEN outbox[i] ELSE added[i - Len(outbox)]
  BY <1>2, <1>4, ConcatProperties
<1>7. Len(outbox) \in Nat /\ Len(added) \in Nat BY <1>4, LenProperties
<1>8. DOMAIN outbox = 1 .. Len(outbox) /\ DOMAIN outbox' = 1 .. Len(outbox) + Len(added)
  BY <1>5, LenProperties
<1>9. \A i \in 1 .. Len(added) : added[i] \in rows BY <1>3, ElementOfSeq
<1>10. \A i \in DOMAIN outbox : i \in DOMAIN outbox' /\ outbox'[i] = outbox[i]
  BY <1>6, <1>7, <1>8
<1>11. ASSUME NEW i \in DOMAIN outbox' \ DOMAIN outbox PROVE outbox'[i] \in rows
  <2>1. i - Len(outbox) \in 1 .. Len(added) /\ ~(i <= Len(outbox)) BY <1>7, <1>8
  <2>2. outbox'[i] = added[i - Len(outbox)] BY <1>6, <1>8, <2>1
  <2> QED BY <1>9, <2>1, <2>2
<1> QED BY <1>5, <1>10, <1>11

(* A reply that is inserted is in the outbox. *)
LEMMA InsertedReply ==
  ASSUME outbox \in Seq(Row), NEW row \in Row, Insert({row})
  PROVE  \E i \in DOMAIN outbox' : outbox'[i].key = row.key
<1> DEFINE new == {r \in {row} : ~IsQueued(r.key, r.chat)}
<1>1. CASE IsQueued(row.key, row.chat)
  <2>1. IsFiniteSet({row}) BY FS_Singleton
  <2> QED BY <1>1, <2>1, InsertedRows DEF IsQueued
<1>2. CASE ~IsQueued(row.key, row.chat)
  <2>1. new = {row} /\ Cardinality(new) = 1 BY <1>2, FS_Singleton
  <2>2. PICK added \in [1 .. 1 -> {row}] : outbox' = outbox \o added
    BY <2>1 DEF Insert
  <2> HIDE DEF Row
  <2>3. added \in Seq(Row) /\ Len(added) = 1 /\ added[1] = row
    <3>1. added \in [1 .. 1 -> Row] BY <2>2
    <3>2. \E n \in Nat : added \in [1 .. n -> Row] BY <3>1
    <3>3. added \in Seq(Row) BY <3>2, SeqDef
    <3> QED BY <2>2, <3>1, <3>3, LenProperties
  <2>4. Len(outbox) + 1 \in DOMAIN outbox' /\ outbox'[Len(outbox) + 1] = row
    BY <2>2, <2>3, ConcatProperties, LenProperties
  <2> QED BY <2>4
<1> QED BY <1>1, <1>2

(* The rows queued for a set of events or days are well formed.             *)
LEMMA NoticeRows ==
  ASSUME settings.allowed \subseteq Chats, NEW keys, IsFiniteSet(keys), keys \subseteq Keys
  PROVE  IsFiniteSet(Notices(keys)) /\ Notices(keys) \subseteq Row
<1> DEFINE pairs == keys \X settings.allowed
           f == [p \in pairs |-> NewRow(p[1], p[2], "notice")]
<1>1. IsFiniteSet(settings.allowed) BY OutboxAssumption, FS_Subset
<1>2. IsFiniteSet(pairs) BY <1>1, FS_Product
<1>3. f \in Surjection(pairs, Notices(keys))
  <2> HIDE DEF Keys
  <2>1. ASSUME NEW p \in pairs PROVE f[p] \in Notices(keys) BY DEF Notices
  <2>2. ASSUME NEW r \in Notices(keys) PROVE \E p \in pairs : f[p] = r
    <3>1. PICK k \in keys, c \in settings.allowed : r = NewRow(k, c, "notice") BY DEF Notices
    <3>2. <<k, c>> \in pairs /\ f[<<k, c>>] = r BY <3>1
    <3> QED BY <3>2
  <2> QED BY <2>1, <2>2 DEF Surjection
<1>4. IsFiniteSet(Notices(keys)) BY <1>2, <1>3, FS_Surjection
<1>5. Notices(keys) \subseteq Row
  BY NewRowType DEF Notices, Texts
<1> QED BY <1>4, <1>5

(* A reply is a well-formed row. *)
LEMMA ReplyRow ==
  ASSUME NEW u \in Nat, inbox[u] \in Chats, NEW text \in Texts
  PROVE  IsFiniteSet({Reply(u, text)}) /\ Reply(u, text) \in Row
<1>1. <<"reply", u>> \in Keys BY DEF Keys
<1>2. Reply(u, text) \in Row BY <1>1, NewRowType DEF Reply
<1> QED BY <1>2, FS_Singleton

-----------------------------------------------------------------------------
(***************************************************************************)
(* The inductive invariant.                                                *)
(*                                                                         *)
(* Commands.  What is left of a polled batch is consecutive and begins at  *)
(* or before the first unsettled update, so a command in flight is that    *)
(* one.  Only it can have acted without being settled, and then the        *)
(* cooldown of its chat is its own or has passed.  Replies are to settled  *)
(* updates.                                                                *)
(***************************************************************************)
InFlight == loop.at \in {"command", "reply", "refused"}

BatchOK ==
  /\ loop.at = "updates" =>
       \E k \in 1 .. offset + 1, n \in 0 .. Len(inbox) : loop.todo = k .. n
  /\ InFlight =>
       /\ \E n \in offset + 1 .. Len(inbox) : loop.todo = offset + 1 .. n
       /\ inbox[offset + 1] \in settings.allowed
       /\ recent[inbox[offset + 1]] \in {0, offset + 1}
  /\ loop.at = "reply" => ran[offset + 1] = 1

ActedOK ==
  \A u \in DOMAIN ran : ran[u] > 0 =>
    /\ ran[u] = 1 /\ u <= offset + 1 /\ u <= Len(inbox)
    /\ u = offset + 1 => inbox[u] \in Chats /\ recent[inbox[u]] \in {0, u}

ReplyOK(row) ==
  row.key[1] = "reply" =>
    /\ row.key[2] \in 1 .. offset
    /\ row.text = "done" => ran[row.key[2]] = 1
    /\ row.text = "limited" => ran[row.key[2]] = 0

CommandOK ==
  /\ Len(inbox) <= MaxUpdates
  /\ BatchOK /\ ActedOK
  /\ \A i \in DOMAIN outbox : ReplyOK(outbox[i])

(***************************************************************************)
(* Delivery.  The rows that a drain still has to take can still be sent    *)
(* and have an attempt left; the one being sent has used it.               *)
(***************************************************************************)
RowOK(row) == row.shown <= row.attempts /\ (Ended(row) \/ row.text \in Texts)

SendingOK ==
  loop.at = "sending" =>
    /\ loop.todo # {}
    /\ outbox[NextItem].chat \in settings.allowed
    /\ IF loop.accepted THEN outbox[NextItem].shown > 0
       ELSE outbox[NextItem].shown < outbox[NextItem].attempts

DeliveryOK ==
  /\ \A i \in DOMAIN outbox : RowOK(outbox[i])
  /\ loop.at \in {"deliver", "sending"} =>
       /\ loop.todo \subseteq DOMAIN outbox
       /\ \A i \in loop.todo :
            /\ ~Ended(outbox[i])
            /\ outbox[i].attempts < MaxAttempts \/ (loop.at = "sending" /\ i = NextItem)
  /\ SendingOK

IInv == TypeOK /\ CommandOK /\ DeliveryOK

-----------------------------------------------------------------------------
(* What the loop is about to take. *)

(* An update that is taken is at most the first unsettled one, and the rest *)
(* of the batch follows it.                                                 *)
LEMMA TakenUpdate ==
  ASSUME TypeOK, CommandOK, NEW u, Taking(u)
  PROVE  /\ u \in 1 .. Len(inbox) /\ u <= offset + 1
         /\ \E n \in u .. Len(inbox) : loop.todo = u .. n /\ Rest = u + 1 .. n
<1>1. PICK k \in 1 .. offset + 1, n \in 0 .. Len(inbox) : loop.todo = k .. n
  BY DEF Taking, CommandOK, BatchOK
<1>2. Len(inbox) \in Nat /\ offset \in Nat BY DEF TypeOK
<1>3. k <= n /\ u = Min(k .. n) BY <1>1, <1>2 DEF Taking, NextItem
<1>4. k \in Nat /\ n \in Nat BY <1>2
<1>5. u = k /\ Rest = k + 1 .. n BY <1>1, <1>3, <1>4, MinOfRange DEF Rest, NextItem
<1> QED BY <1>1, <1>2, <1>3, <1>5

(* A command in flight is the first unsettled update, and its sender is a   *)
(* chat that was allowed.                                                   *)
LEMMA FlightUpdate ==
  ASSUME TypeOK, CommandOK, InFlight
  PROVE  /\ NextItem = offset + 1 /\ offset + 1 \in 1 .. Len(inbox)
         /\ inbox[offset + 1] \in Chats /\ inbox[offset + 1] \in settings.allowed
         /\ \E n \in offset + 1 .. Len(inbox) : Rest = offset + 2 .. n
<1>1. PICK n \in offset + 1 .. Len(inbox) : loop.todo = offset + 1 .. n
  BY DEF CommandOK, BatchOK
<1>2. Len(inbox) \in Nat /\ offset \in Nat /\ settings.allowed \subseteq Chats BY DEF TypeOK
<1>3. inbox[offset + 1] \in settings.allowed BY DEF CommandOK, BatchOK
<1>4. NextItem = offset + 1 /\ Rest = offset + 1 + 1 .. n
  <2>1. offset + 1 \in Nat /\ n \in Nat /\ offset + 1 <= n BY <1>2
  <2> QED BY <1>1, <2>1, MinOfRange DEF Rest, NextItem
<1>5. offset + 1 + 1 = offset + 2 BY <1>2
<1> QED BY <1>2, <1>3, <1>4, <1>5

(* A row that is taken is queued, has not ended, and is not taken again.    *)
LEMMA TakenRow ==
  ASSUME TypeOK, DeliveryOK, loop.at \in {"deliver", "sending"}, loop.todo # {}
  PROVE  /\ NextItem \in loop.todo /\ NextItem \notin Rest
         /\ Rest \subseteq loop.todo
         /\ NextItem \in DOMAIN outbox /\ outbox[NextItem] \in Row
         /\ ~Ended(outbox[NextItem])
<1>1. loop.todo \in SUBSET Nat BY DEF TypeOK, Loop
<1>2. NextItem \in loop.todo BY <1>1, MinIsMember DEF NextItem
<1>3. NextItem \in DOMAIN outbox /\ ~Ended(outbox[NextItem]) BY <1>2 DEF DeliveryOK
<1>4. outbox[NextItem] \in Row
  <2>1. outbox \in Seq(Row) BY DEF TypeOK
  <2> HIDE DEF Row
  <2> QED BY <1>3, <2>1
<1> QED BY <1>2, <1>3, <1>4 DEF Rest

-----------------------------------------------------------------------------
(* Types. *)

(* The variables other than the outbox. *)
OtherTypes ==
  /\ inbox \in Seq(Chats \cup {Ignored}) /\ audit \in Seq({"notify", "silent"}) /\ hour \in Nat
  /\ ran \in [1 .. MaxUpdates -> Nat]
  /\ offset \in 0 .. Len(inbox) /\ cursor \in -1 .. Len(audit) /\ summaryDay \in Int
  /\ connected \in BOOLEAN
  /\ loop \in Loop
  /\ recent \in [Chats -> 0 .. MaxUpdates]
  /\ settings \in [allowed : SUBSET Chats, notifications : BOOLEAN]
  /\ starts \in Nat /\ faults \in Nat /\ env \in Environments

LEMMA SplitTypes == TypeOK <=> (OtherTypes /\ outbox \in Seq(Row))
BY DEF TypeOK, OtherTypes

(* Restarting the loop or ending it keeps its type. *)
LEMMA LoopTypes ==
  ASSUME loop \in Loop
  PROVE  Down \in Loop /\ Begin \in Loop /\ LastFlush \in Loop
BY DEF Loop, Down, Begin, LastFlush

LEMMA WorldKeepsTypes ==
  ASSUME OtherTypes,
         \/ \E sender \in Chats \cup {Ignored} : UserSends(sender)
         \/ \E kind \in {"notify", "silent"} : AuditEvent(kind)
         \/ HourPasses
         \/ \E c \in Chats : CooldownPasses(c)
         \/ \E i \in DOMAIN outbox : RetryDue(i)
  PROVE  OtherTypes'
<1> USE DEF OtherTypes
<1>1. CASE \E sender \in Chats \cup {Ignored} : UserSends(sender)
  BY <1>1 DEF UserSends, store, bounds
<1>2. CASE \E kind \in {"notify", "silent"} : AuditEvent(kind)
  BY <1>2 DEF AuditEvent, store, bounds
<1>3. CASE HourPasses BY <1>3 DEF HourPasses, store, bounds
<1>4. CASE \E c \in Chats : CooldownPasses(c)
  BY <1>4, Constants DEF CooldownPasses, world, store, bounds
<1>5. CASE \E i \in DOMAIN outbox : RetryDue(i) BY <1>5 DEF RetryDue, world, bounds
<1> QED BY <1>1, <1>2, <1>3, <1>4, <1>5

(* Events are only added to the audit. *)
LEMMA LongerAudit ==
  ASSUME audit \in Seq({"notify", "silent"}),
         \/ audit' = audit \/ \E kind \in {"notify", "silent"} : audit' = Append(audit, kind)
         \/ audit' = audit \o <<"notify">> \/ audit' = audit \o <<"notify", "notify">>
  PROVE  /\ audit' \in Seq({"notify", "silent"})
         /\ Len(audit) \in Nat /\ Len(audit') \in Nat /\ Len(audit') >= Len(audit)
         /\ \A e \in 1 .. Len(audit) : audit'[e] = audit[e]
<1> DEFINE K == {"notify", "silent"}
<1>1. <<"notify">> \in Seq(K) /\ Len(<<"notify">>) = 1 OBVIOUS
<1>2. <<"notify", "notify">> \in Seq(K) /\ Len(<<"notify", "notify">>) = 2 OBVIOUS
<1>3. audit \in Seq(K) OBVIOUS
<1> HIDE DEF K
<1>4. CASE audit' = audit BY <1>3, <1>4, LenProperties
<1>5. ASSUME NEW kind \in K, audit' = Append(audit, kind)
      PROVE  audit' \in Seq(K) /\ Len(audit') = Len(audit) + 1 /\ Len(audit) \in Nat
             /\ \A e \in 1 .. Len(audit) : audit'[e] = audit[e]
  BY <1>3, <1>5, AppendProperties, LenProperties
<1>6. CASE audit' = audit \o <<"notify">> BY <1>1, <1>3, <1>6, ConcatProperties, LenProperties
<1>7. CASE audit' = audit \o <<"notify", "notify">>
  BY <1>2, <1>3, <1>7, ConcatProperties, LenProperties
<1> QED BY <1>4, <1>5, <1>6, <1>7 DEF K

LEMMA ProcessKeepsTypes ==
  ASSUME OtherTypes, CommandOK, outbox \in Seq(Row), Start \/ Stop \/ StepFails \/ Crash \/ PollFailed
  PROVE  OtherTypes'
<1>1. CASE Start
  <2>1. settings' \in [allowed : SUBSET Chats, notifications : BOOLEAN]
    <3>1. env.notifications \subseteq BOOLEAN BY Env DEF OtherTypes
    <3>2. settings' \in [allowed : {A \in SUBSET Chats : env.owners \subseteq A},
                         notifications : env.notifications]
      BY <1>1 DEF Start
    <3> QED BY <3>1, <3>2
  <2>2. audit' \in Seq({"notify", "silent"}) /\ Len(audit') >= Len(audit) /\ Len(audit) \in Nat
    BY <1>1, LongerAudit DEF Start, OtherTypes
  <2>3. cursor' \in -1 .. Len(audit') BY <1>1, <2>2 DEF Start, OtherTypes
  <2>4. loop' \in Loop BY <1>1, LoopTypes DEF Start, OtherTypes
  <2>5. recent' \in [Chats -> 0 .. MaxUpdates] BY <1>1, Constants DEF Start
  <2>6. /\ starts' = starts + 1 /\ connected' = FALSE
        /\ UNCHANGED <<inbox, ran, hour, offset, summaryDay, outbox, faults, env>>
    BY <1>1 DEF Start
  <2>7. /\ inbox \in Seq(Chats \cup {Ignored}) /\ ran \in [1 .. MaxUpdates -> Nat]
        /\ hour \in Nat /\ offset \in 0 .. Len(inbox) /\ summaryDay \in Int
        /\ starts + 1 \in Nat /\ faults \in Nat /\ env \in Environments
    BY DEF OtherTypes
  <2> QED BY <2>1, <2>2, <2>3, <2>4, <2>5, <2>6, <2>7, Zenon DEF OtherTypes
<1>2. CASE Stop
  <2>1. audit' \in Seq({"notify", "silent"}) /\ Len(audit') >= Len(audit) /\ Len(audit) \in Nat
    BY <1>2, LongerAudit DEF Stop, OtherTypes
  <2>2. loop' \in Loop BY <1>2 DEF Stop, OtherTypes, Loop
  <2> QED BY <1>2, <2>1, <2>2 DEF Stop, OtherTypes, store, bounds
<1>3. CASE StepFails
  <2>1. loop' \in Loop /\ connected' \in BOOLEAN
    BY <1>3, LoopTypes DEF StepFails, AfterError, OtherTypes
  <2>2. recent' \in [Chats -> 0 .. MaxUpdates]
    <3>1. CASE Answered
      <4>1. InFlight BY <3>1 DEF Answered, InFlight
      <4>2. NextItem \in 1 .. Len(inbox)
        BY <4>1, FlightUpdate, SplitTypes
      <4>3. NextItem \in 0 .. MaxUpdates
        BY <4>2, Constants DEF CommandOK, OtherTypes
      <4> QED BY <1>3, <3>1, <4>3 DEF StepFails, OtherTypes
    <3>2. CASE ~Answered BY <1>3, <3>2 DEF StepFails, OtherTypes
    <3> QED BY <3>1, <3>2
  <2> QED BY <1>3, <2>1, <2>2 DEF StepFails, OtherTypes, world
<1>4. CASE Crash BY <1>4, LoopTypes DEF Crash, OtherTypes, world, store
<1>5. CASE PollFailed
  BY <1>5, LoopTypes DEF PollFailed, AfterError, OtherTypes, world, bounds
<1> QED BY <1>1, <1>2, <1>3, <1>4, <1>5

(* A batch, and its rest, are sets of numbers. *)
LEMMA CommandsKeepTypes ==
  ASSUME OtherTypes, CommandOK, outbox \in Seq(Row),
         \/ PollAnswered \/ SkipStale \/ IgnoreUpdate \/ RefuseCommand
         \/ SendCommand \/ CommandActs \/ CommandRefused \/ RecordReply \/ UpdatesDone
  PROVE  OtherTypes'
<1>1. TypeOK BY SplitTypes
<1>2. Len(inbox) \in Nat BY DEF OtherTypes
<1>3. CASE PollAnswered
  <2>1. PICK first \in {1, offset + 1} :
          loop' = [loop EXCEPT !.at = "updates", !.todo = first .. Len(inbox)]
    BY <1>3 DEF PollAnswered
  <2>2. first \in Nat BY DEF OtherTypes
  <2>3. first .. Len(inbox) \subseteq Nat BY <1>2, <2>2
  <2>4. loop' \in Loop BY <2>1, <2>3 DEF OtherTypes, Loop
  <2> QED BY <1>3, <2>4 DEF PollAnswered, OtherTypes, world, store, bounds
<1>4. CASE SkipStale
  <2>1. loop' \in Loop BY <1>4 DEF SkipStale, OtherTypes, Loop, Rest
  <2> QED BY <1>4, <2>1 DEF SkipStale, OtherTypes, world, store, bounds
<1>5. CASE IgnoreUpdate
  <2>1. PICK u \in loop.todo : Taking(u) /\ Acknowledge(u, {}) BY <1>5 DEF IgnoreUpdate
  <2>2. offset' \in 0 .. Len(inbox) BY <1>1, <1>2, <2>1, TakenUpdate DEF Acknowledge
  <2>3. loop' \in Loop BY <2>1 DEF Acknowledge, OtherTypes, Loop, Rest
  <2> QED BY <1>5, <2>1, <2>2, <2>3 DEF IgnoreUpdate, Acknowledge, OtherTypes, world, bounds
<1>6. CASE RefuseCommand
  <2>1. PICK u \in loop.todo : Taking(u) /\ Acknowledge(u, {Reply(u, "limited")})
    BY <1>6 DEF RefuseCommand
  <2>2. offset' \in 0 .. Len(inbox) BY <1>1, <1>2, <2>1, TakenUpdate DEF Acknowledge
  <2>3. loop' \in Loop BY <2>1 DEF Acknowledge, OtherTypes, Loop, Rest
  <2> QED BY <1>6, <2>1, <2>2, <2>3 DEF RefuseCommand, Acknowledge, OtherTypes, world, bounds
<1>7. CASE SendCommand
  <2>1. loop' \in Loop BY <1>7 DEF SendCommand, Go, OtherTypes, Loop
  <2> QED BY <1>7, <2>1 DEF SendCommand, OtherTypes, world, store, bounds
<1>8. CASE CommandActs
  <2>1. NextItem \in Nat BY <1>1, <1>2, <1>8, FlightUpdate DEF CommandActs, InFlight
  <2>2. loop' \in Loop BY <1>8 DEF CommandActs, Go, OtherTypes, Loop
  <2>3. ran' \in [1 .. MaxUpdates -> Nat] BY <1>8, <2>1 DEF CommandActs, OtherTypes
  <2>4. audit' \in Seq({"notify", "silent"}) /\ Len(audit') >= Len(audit) /\ Len(audit) \in Nat
    BY <1>8, LongerAudit DEF CommandActs, OtherTypes
  <2> QED BY <1>8, <2>2, <2>3, <2>4 DEF CommandActs, OtherTypes, store, bounds
<1>9. CASE CommandRefused
  <2>1. loop' \in Loop BY <1>9 DEF CommandRefused, Go, OtherTypes, Loop
  <2> QED BY <1>9, <2>1 DEF CommandRefused, OtherTypes, world, store, bounds
<1>10. CASE RecordReply
  <2>1. NextItem \in 1 .. Len(inbox) /\ NextItem \in 0 .. MaxUpdates
    BY <1>1, <1>2, <1>10, FlightUpdate, Constants DEF RecordReply, Answered, InFlight, CommandOK
  <2>2. loop' \in Loop BY <1>10 DEF RecordReply, Acknowledge, OtherTypes, Loop, Rest
  <2>3. recent' \in [Chats -> 0 .. MaxUpdates] BY <1>10, <2>1 DEF RecordReply, OtherTypes
  <2>4. offset' \in 0 .. Len(inbox) BY <1>2, <1>10, <2>1 DEF RecordReply, Acknowledge
  <2> QED BY <1>10, <2>2, <2>3, <2>4 DEF RecordReply, Acknowledge, OtherTypes, world, bounds
<1>11. CASE UpdatesDone
  <2>1. loop' \in Loop BY <1>11 DEF UpdatesDone, Go, OtherTypes, Loop
  <2> QED BY <1>11, <2>1 DEF UpdatesDone, OtherTypes, world, store, bounds
<1> QED BY <1>3, <1>4, <1>5, <1>6, <1>7, <1>8, <1>9, <1>10, <1>11

(* The smaller of two numbers. *)
LEMMA MinOfTwo ==
  ASSUME NEW a \in Int, NEW b \in Int
  PROVE  Min({a, b}) = IF a <= b THEN a ELSE b
<1> DEFINE m == IF a <= b THEN a ELSE b
<1>1. m \in {a, b} /\ \A y \in {a, b} : m <= y OBVIOUS
<1>2. \A x \in {a, b} : (\A y \in {a, b} : x <= y) => x = m OBVIOUS
<1> QED BY <1>1, <1>2 DEF Min

(* The cursor never moves back, nor beyond the end of the audit. *)
LEMMA LastTakenBounds ==
  ASSUME OtherTypes
  PROVE  LastTaken \in cursor .. Len(audit)
<1>1. Len(audit) \in Nat /\ cursor \in Int /\ cursor <= Len(audit) /\ cursor + QueueLimit \in Int
  BY Constants DEF OtherTypes
<1>2. LastTaken = IF Len(audit) <= cursor + QueueLimit THEN Len(audit) ELSE cursor + QueueLimit
  BY <1>1, MinOfTwo DEF LastTaken
<1> QED BY <1>1, <1>2, Constants

(* The days that are due are finitely many, and the last is one of them.    *)
LEMMA DaysDueBounds ==
  ASSUME OtherTypes
  PROVE  /\ IsFiniteSet(DaysDue) /\ DaysDue \subseteq Int
         /\ DaysDue # {} => Max(DaysDue) \in Int
<1>1. Yesterday \in Int BY Constants DEF OtherTypes, Yesterday
<1>2. CASE summaryDay = -1
  <2>1. DaysDue = {Yesterday} BY <1>2 DEF DaysDue
  <2>2. Max({Yesterday}) = Yesterday BY <1>1 DEF Max
  <2> QED BY <1>1, <2>1, <2>2, FS_Singleton
<1>3. CASE summaryDay # -1
  <2> DEFINE last == Min({Yesterday, summaryDay + SummaryLimit})
  <2>1. last \in Int
    <3>1. summaryDay + SummaryLimit \in Int BY Constants DEF OtherTypes
    <3> QED BY <1>1, <3>1, MinOfTwo
  <2>2. DaysDue = summaryDay + 1 .. last BY <1>3 DEF DaysDue
  <2>3. summaryDay + 1 \in Int BY DEF OtherTypes
  <2> HIDE DEF last
  <2>4. IsFiniteSet(DaysDue) BY <2>1, <2>2, <2>3, FS_Interval
  <2>5. ASSUME DaysDue # {} PROVE Max(DaysDue) \in Int
    <3>1. last \in DaysDue /\ \A y \in DaysDue : last >= y BY <2>1, <2>2, <2>3, <2>5
    <3> QED BY <2>2, <3>1 DEF Max
  <2> QED BY <2>2, <2>4, <2>5
<1> QED BY <1>2, <1>3

LEMMA DeliveryKeepsTypes ==
  ASSUME OtherTypes, DeliveryOK, outbox \in Seq(Row),
         \/ queueAuditNotifications \/ queueDailySummaries
         \/ drainNotificationOutbox \/ DiscardRow \/ AttemptRow \/ TelegramAccepts
         \/ Outcome \/ DrainDone
  PROVE  OtherTypes'
<1>1. loop.todo \subseteq Nat /\ Rest \subseteq Nat BY DEF OtherTypes, Loop, Rest
<1>2. CASE queueAuditNotifications
  <2>1. loop' \in Loop BY <1>2 DEF queueAuditNotifications, Go, OtherTypes, Loop
  <2>2. cursor' \in -1 .. Len(audit)
    BY <1>2, LastTakenBounds DEF queueAuditNotifications, OtherTypes
  <2> QED BY <1>2, <2>1, <2>2 DEF queueAuditNotifications, OtherTypes, world, bounds
<1>3. CASE queueDailySummaries
  <2>1. loop' \in Loop BY <1>3 DEF queueDailySummaries, Go, OtherTypes, Loop
  <2>2. summaryDay' \in Int BY <1>3, DaysDueBounds DEF queueDailySummaries, OtherTypes
  <2> QED BY <1>3, <2>1, <2>2 DEF queueDailySummaries, OtherTypes, world, bounds
<1>4. CASE drainNotificationOutbox
  <2> DEFINE due == {i \in DOMAIN outbox : IsDue(outbox[i])}
             first == {i \in due : Cardinality({j \in due : j < i}) < DrainLimit}
  <2>1. first \subseteq Nat
    <3>1. DOMAIN outbox = 1 .. Len(outbox) /\ Len(outbox) \in Nat
      <4> HIDE DEF Row
      <4> QED BY LenProperties
    <3> QED BY <3>1
  <2>2. loop' = [loop EXCEPT !.at = "deliver", !.todo = first] BY <1>4 DEF drainNotificationOutbox
  <2> HIDE DEF first
  <2>3. loop' \in Loop BY <2>1, <2>2 DEF OtherTypes, Loop
  <2> QED BY <1>4, <2>3 DEF drainNotificationOutbox, OtherTypes, world, bounds
<1>5. CASE DiscardRow
  <2>1. loop' \in Loop BY <1>1, <1>5 DEF DiscardRow, OtherTypes, Loop
  <2> QED BY <1>5, <2>1 DEF DiscardRow, OtherTypes, world, bounds
<1>6. CASE AttemptRow
  <2>1. loop' \in Loop BY <1>6 DEF AttemptRow, OtherTypes, Loop
  <2> QED BY <1>6, <2>1 DEF AttemptRow, OtherTypes, world, bounds
<1>7. CASE TelegramAccepts
  <2>1. loop' \in Loop BY <1>7 DEF TelegramAccepts, OtherTypes, Loop
  <2> QED BY <1>7, <2>1 DEF TelegramAccepts, OtherTypes, world, bounds
<1>8. ASSUME NEW todo \in SUBSET Nat, Resume(todo) PROVE loop' \in Loop
  BY <1>8 DEF Resume, OtherTypes, Loop
<1>9. CASE Sent
  BY <1>1, <1>8, <1>9 DEF Sent, OtherTypes, world, bounds
<1>10. CASE SendGivenUp
  BY <1>1, <1>8, <1>10 DEF SendGivenUp, OtherTypes, world, bounds
<1>11. CASE SendFailed
  BY <1>1, <1>8, <1>11 DEF SendFailed, OtherTypes, world, bounds
<1>12. CASE SendAborted
  BY <1>12, LoopTypes DEF SendAborted, OtherTypes, world, store, bounds
<1>13. CASE DrainDone
  <2>1. loop' \in Loop BY <1>13, LoopTypes DEF DrainDone, OtherTypes, Loop
  <2>2. connected' \in BOOLEAN BY <1>13 DEF DrainDone, OtherTypes
  <2> QED BY <1>13, <2>1, <2>2 DEF DrainDone, OtherTypes, world, bounds
<1> QED BY <1>2, <1>3, <1>4, <1>5, <1>6, <1>7, <1>9, <1>10, <1>11, <1>12, <1>13 DEF Outcome

-----------------------------------------------------------------------------
(* The rows of the outbox. *)

Fresh(row) ==
  /\ row.attempts = 0 /\ row.shown = 0 /\ row.text \in Texts
  /\ ~row.sent /\ row.error = "none"

(* Rows are added, and all others are as they were.                         *)
RowsAdded ==
  /\ DOMAIN outbox \subseteq DOMAIN outbox'
  /\ \A i \in DOMAIN outbox : outbox'[i] = outbox[i]
  /\ \A i \in DOMAIN outbox' \ DOMAIN outbox : Fresh(outbox'[i])

(* Rows stay, for the same chat and under the same key; a text can only be  *)
(* wiped out.                                                               *)
RowsUpdated ==
  /\ DOMAIN outbox' = DOMAIN outbox
  /\ \A i \in DOMAIN outbox :
       /\ outbox'[i].key = outbox[i].key /\ outbox'[i].chat = outbox[i].chat
       /\ outbox'[i].text \in {outbox[i].text, "[DELIVERED]", "[DISCARDED]"}

(* The row being sent, changed in what an update may change.                *)
LEMMA UpdateKeepsRows ==
  ASSUME TypeOK, DeliveryOK, loop.at \in {"deliver", "sending"}, loop.todo # {},
         NEW row \in Row, Update(row),
         row.key = outbox[NextItem].key, row.chat = outbox[NextItem].chat,
         row.text \in {outbox[NextItem].text, "[DELIVERED]", "[DISCARDED]"}
  PROVE  outbox' \in Seq(Row) /\ RowsUpdated
<1>1. NextItem \in DOMAIN outbox /\ outbox \in Seq(Row) BY TakenRow DEF TypeOK
<1>2. /\ outbox' \in Seq(Row) /\ DOMAIN outbox' = DOMAIN outbox
      /\ \A j \in DOMAIN outbox : outbox'[j] = IF j = NextItem THEN row ELSE outbox[j]
  <2> HIDE DEF Row
  <2> QED BY <1>1, UpdatedRows DEF Update
<1> QED BY <1>2 DEF RowsUpdated

LEMMA SendingKeepsRows ==
  ASSUME TypeOK, DeliveryOK,
         DiscardRow \/ AttemptRow \/ TelegramAccepts \/ Sent \/ SendGivenUp \/ SendFailed
  PROVE  outbox' \in Seq(Row) /\ RowsUpdated
<1>1. loop.at \in {"deliver", "sending"} /\ loop.todo # {}
  BY DEF DiscardRow, AttemptRow, TelegramAccepts, Sent, SendGivenUp, SendFailed, DeliveryOK, SendingOK
<1> DEFINE item == outbox[NextItem]
<1>2. item \in Row /\ NextItem \in loop.todo BY <1>1, TakenRow
<1>3. CASE DiscardRow
  <2>1. [item EXCEPT !.error = "NOT_ALLOWLISTED", !.text = "[DISCARDED]"] \in Row
    BY <1>2 DEF Row, Permanent
  <2> QED BY <1>1, <1>2, <1>3, <2>1, UpdateKeepsRows DEF DiscardRow, Row
<1>4. CASE AttemptRow
  <2>1. item.attempts < MaxAttempts BY <1>2, <1>4 DEF AttemptRow, DeliveryOK
  <2>2. Attempted(item) \in Row
    <3>1. item.attempts + 1 \in 0 .. MaxAttempts BY <1>2, <2>1, Constants DEF Row
    <3>2. Attempted(item) = [item EXCEPT !.attempts = item.attempts + 1, !.error = "none"]
      BY <1>2 DEF Attempted, Row
    <3> QED BY <1>2, <3>1, <3>2 DEF Row
  <2>3. Attempted(item).key = item.key /\ Attempted(item).chat = item.chat
        /\ Attempted(item).text = item.text
    BY <1>2 DEF Attempted, Row
  <2> QED BY <1>1, <1>4, <2>2, <2>3, UpdateKeepsRows DEF AttemptRow
<1>5. CASE TelegramAccepts
  <2>1. [item EXCEPT !.shown = @ + 1] \in Row BY <1>2 DEF Row
  <2> QED BY <1>1, <1>2, <1>5, <2>1, UpdateKeepsRows DEF TelegramAccepts, Row
<1>6. CASE Sent
  <2>1. [item EXCEPT !.sent = TRUE, !.waiting = FALSE, !.error = "none", !.text = "[DELIVERED]"] \in Row
    BY <1>2 DEF Row
  <2> QED BY <1>1, <1>2, <1>6, <2>1, UpdateKeepsRows DEF Sent, Row
<1>7. CASE SendGivenUp
  <2>1. ASSUME NEW e \in Permanent, Update(GiveUp(e)) PROVE outbox' \in Seq(Row) /\ RowsUpdated
    <3>1. GiveUp(e) \in Row /\ GiveUp(e).key = item.key /\ GiveUp(e).chat = item.chat
          /\ GiveUp(e).text = "[DISCARDED]"
      BY <1>2 DEF GiveUp, Row
    <3> QED BY <1>1, <2>1, <3>1, UpdateKeepsRows
  <2> QED BY <1>7, <2>1 DEF SendGivenUp, Permanent
<1>8. CASE SendFailed
  <2>1. Retried(item) \in Row /\ Retried(item).key = item.key /\ Retried(item).chat = item.chat
        /\ Retried(item).text = item.text
    BY <1>2 DEF Retried, Row
  <2> QED BY <1>1, <1>8, <2>1, UpdateKeepsRows DEF SendFailed
<1> QED BY <1>3, <1>4, <1>5, <1>6, <1>7, <1>8

LEMMA RetryKeepsRows ==
  ASSUME TypeOK, NEW i \in DOMAIN outbox, RetryDue(i)
  PROVE  outbox' \in Seq(Row) /\ RowsUpdated
<1>1. outbox \in Seq(Row) BY DEF TypeOK
<1>2. outbox[i] \in Row
  <2> HIDE DEF Row
  <2> QED BY <1>1
<1> DEFINE row == [outbox[i] EXCEPT !.waiting = FALSE]
<1>3. row \in Row /\ row.key = outbox[i].key /\ row.chat = outbox[i].chat /\ row.text = outbox[i].text
  BY <1>2 DEF Row
<1>4. outbox' = [outbox EXCEPT ![i] = row]
  <2> HIDE DEF Row
  <2> QED BY <1>1 DEF RetryDue
<1> HIDE DEF row
<1>5. /\ outbox' \in Seq(Row) /\ DOMAIN outbox' = DOMAIN outbox
      /\ \A j \in DOMAIN outbox : outbox'[j] = IF j = i THEN row ELSE outbox[j]
  BY <1>1, <1>3, <1>4, UpdatedRows
<1> QED BY <1>3, <1>5 DEF RowsUpdated

LEMMA DrainKeepsRows ==
  ASSUME TypeOK, drainNotificationOutbox
  PROVE  outbox' \in Seq(Row) /\ RowsUpdated
<1> DEFINE After(row) == IF WasCutOff(row)
                         THEN [row EXCEPT !.error = "RETRY_LIMIT", !.waiting = FALSE] ELSE row
<1>1. outbox \in Seq(Row) BY DEF TypeOK
<1>2. outbox' = [i \in DOMAIN outbox |-> After(outbox[i])] BY DEF drainNotificationOutbox
<1>3. ASSUME NEW row \in Row
      PROVE  After(row) \in Row /\ After(row).key = row.key /\ After(row).chat = row.chat
             /\ After(row).text = row.text
  BY <1>3 DEF Row, Permanent
<1>4. /\ Len(outbox) \in Nat /\ DOMAIN outbox = 1 .. Len(outbox)
      /\ \A i \in DOMAIN outbox : outbox[i] \in Row
  <2> HIDE DEF Row
  <2> QED BY <1>1, LenProperties, ElementOfSeq
<1> HIDE DEF After
<1>5. outbox' \in [1 .. Len(outbox) -> Row] BY <1>2, <1>3, <1>4
<1>6. \E n \in Nat : outbox' \in [1 .. n -> Row] BY <1>4, <1>5
<1>7. outbox' \in Seq(Row) BY <1>6, SeqDef
<1> QED BY <1>2, <1>3, <1>4, <1>7 DEF RowsUpdated

(* A fresh reply or notice is Fresh. *)
LEMMA NewRowsAreFresh ==
  /\ \A u : \A text \in Texts : Fresh(Reply(u, text))
  /\ \A keys : \A r \in Notices(keys) : Fresh(r) /\ \E k \in keys : r.key = k
BY DEF Fresh, Reply, Notices, NewRow, Texts

LEMMA NoticesKeepRows ==
  ASSUME TypeOK, NEW keys, IsFiniteSet(keys), keys \subseteq Keys, Insert(Notices(keys)),
         \A k \in keys : k[1] # "reply"
  PROVE  /\ outbox' \in Seq(Row) /\ RowsAdded
         /\ \A i \in DOMAIN outbox' \ DOMAIN outbox : outbox'[i].key[1] # "reply"
<1>1. outbox \in Seq(Row) /\ settings.allowed \subseteq Chats BY DEF TypeOK
<1>2. IsFiniteSet(Notices(keys)) /\ Notices(keys) \subseteq Row BY <1>1, NoticeRows
<1> HIDE DEF Row, Keys
<1>3. /\ outbox' \in Seq(Row) /\ DOMAIN outbox \subseteq DOMAIN outbox'
      /\ \A i \in DOMAIN outbox : outbox'[i] = outbox[i]
      /\ \A i \in DOMAIN outbox' \ DOMAIN outbox : outbox'[i] \in Notices(keys)
  BY <1>1, <1>2, InsertedRows
<1> QED BY <1>3, NewRowsAreFresh DEF RowsAdded

(* What one flush queues: finitely many events and days. *)
TakenEvents == {n \in cursor + 1 .. Min({Len(audit), cursor + QueueLimit}) : audit[n] = "notify"}
EventKeys == {<<"audit", e>> : e \in TakenEvents}
DayKeys   == {<<"day", d>> : d \in DaysDue}

LEMMA EventKeysFinite ==
  ASSUME OtherTypes
  PROVE  /\ TakenEvents \subseteq cursor + 1 .. LastTaken
         /\ IsFiniteSet(EventKeys) /\ EventKeys \subseteq Keys /\ \A k \in EventKeys : k[1] = "audit"
<1> DEFINE f == [e \in TakenEvents |-> <<"audit", e>>]
<1>1. cursor + 1 \in Int /\ LastTaken \in Int BY LastTakenBounds DEF OtherTypes
<1>2. IsFiniteSet(cursor + 1 .. LastTaken) BY <1>1, FS_Interval
<1>3. TakenEvents \in SUBSET (cursor + 1 .. LastTaken) BY DEF LastTaken, TakenEvents
<1>4. IsFiniteSet(TakenEvents) BY <1>2, <1>3, FS_Subset
<1>5. TakenEvents \subseteq Int BY <1>1, <1>3
<1>6. f \in Surjection(TakenEvents, EventKeys) BY DEF Surjection, EventKeys
<1>7. IsFiniteSet(EventKeys)
  <2> HIDE DEF f
  <2> QED BY <1>4, <1>6, FS_Surjection
<1>8. EventKeys \subseteq Keys /\ \A k \in EventKeys : k[1] = "audit"
  BY <1>5 DEF EventKeys, Keys
<1> QED BY <1>3, <1>7, <1>8

LEMMA DayKeysFinite ==
  ASSUME OtherTypes
  PROVE  IsFiniteSet(DayKeys) /\ DayKeys \subseteq Keys /\ \A k \in DayKeys : k[1] = "day"
<1> DEFINE f == [d \in DaysDue |-> <<"day", d>>]
<1>1. IsFiniteSet(DaysDue) /\ DaysDue \subseteq Int BY DaysDueBounds
<1>2. f \in Surjection(DaysDue, DayKeys) BY DEF Surjection, DayKeys
<1>3. IsFiniteSet(DayKeys)
  <2> HIDE DEF f
  <2> QED BY <1>1, <1>2, FS_Surjection
<1>4. DayKeys \subseteq Keys /\ \A k \in DayKeys : k[1] = "day"
  <2>1. ASSUME NEW d \in DaysDue PROVE <<"day", d>> \in Keys BY <1>1 DEF Keys
  <2> HIDE DEF Keys
  <2> QED BY <2>1 DEF DayKeys
<1> QED BY <1>3, <1>4

LEMMA QueueingKeepsRows ==
  ASSUME TypeOK, queueAuditNotifications \/ queueDailySummaries
  PROVE  /\ outbox' \in Seq(Row) /\ RowsAdded
         /\ \A i \in DOMAIN outbox' \ DOMAIN outbox : outbox'[i].key[1] # "reply"
<1>1. CASE UNCHANGED outbox
  <2>1. outbox' \in Seq(Row) BY <1>1 DEF TypeOK
  <2> QED BY <1>1, <2>1 DEF RowsAdded
<1>2. Insert(Notices(EventKeys)) \/ Insert(Notices(DayKeys)) \/ UNCHANGED outbox
  BY DEF queueAuditNotifications, queueDailySummaries, EventKeys, TakenEvents, DayKeys
<1>3. OtherTypes BY SplitTypes
<1> QED BY <1>1, <1>2, <1>3, EventKeysFinite, DayKeysFinite, NoticesKeepRows

(* The reply to one update, or none, is all that an acknowledgement adds.   *)
LEMMA AcknowledgeKeepsRows ==
  ASSUME TypeOK, NEW u \in Nat, NEW text \in Texts, NEW rows,
         rows = {} \/ (inbox[u] \in Chats /\ rows = {Reply(u, text)}), Acknowledge(u, rows)
  PROVE  /\ outbox' \in Seq(Row) /\ RowsAdded
         /\ \A i \in DOMAIN outbox' \ DOMAIN outbox :
              outbox'[i].key = <<"reply", u>> /\ outbox'[i].text = text
<1>1. outbox \in Seq(Row) /\ Insert(rows) BY DEF TypeOK, Acknowledge
<1>2. IsFiniteSet(rows) /\ rows \subseteq Row BY ReplyRow, FS_EmptySet
<1> HIDE DEF Row
<1>3. /\ outbox' \in Seq(Row) /\ DOMAIN outbox \subseteq DOMAIN outbox'
      /\ \A i \in DOMAIN outbox : outbox'[i] = outbox[i]
      /\ \A i \in DOMAIN outbox' \ DOMAIN outbox : outbox'[i] \in rows
  BY <1>1, <1>2, InsertedRows
<1>4. \A r \in rows : Fresh(r) /\ r.key = <<"reply", u>> /\ r.text = text
  BY NewRowsAreFresh DEF Reply, NewRow
<1> QED BY <1>3, <1>4 DEF RowsAdded

(***************************************************************************)
(* Every step keeps the type of the outbox, and adds or updates rows.      *)
(***************************************************************************)
LEMMA PollKeepsRows ==
  ASSUME TypeOK, CommandOK, IgnoreUpdate \/ RefuseCommand \/ RecordReply
  PROVE  /\ outbox' \in Seq(Row) /\ RowsAdded
         /\ \A i \in DOMAIN outbox' \ DOMAIN outbox : outbox'[i].key[1] = "reply"
<1> USE DEF Texts
<1>1. Len(inbox) \in Nat /\ offset \in Nat BY DEF TypeOK
<1>2. CASE IgnoreUpdate
  <2>1. PICK u \in loop.todo : Taking(u) /\ Acknowledge(u, {}) BY <1>2 DEF IgnoreUpdate
  <2>2. u \in Nat BY <1>1, <2>1, TakenUpdate
  <2>3. "done" \in Texts OBVIOUS
  <2> QED BY <2>1, <2>2, <2>3, AcknowledgeKeepsRows
<1>3. CASE RefuseCommand
  <2>1. PICK u \in loop.todo : Taking(u) /\ IsCommand(u) /\ Acknowledge(u, {Reply(u, "limited")})
    BY <1>3 DEF RefuseCommand
  <2>2. u \in Nat BY <1>1, <2>1, TakenUpdate
  <2>3. inbox[u] \in Chats BY <2>1 DEF IsCommand, TypeOK
  <2>4. "limited" \in Texts OBVIOUS
  <2> QED BY <2>1, <2>2, <2>3, <2>4, AcknowledgeKeepsRows
<1>4. CASE RecordReply
  <2> DEFINE text == IF loop.at = "reply" THEN "done" ELSE "refused"
  <2>1. Acknowledge(NextItem, {Reply(NextItem, text)}) BY <1>4 DEF RecordReply
  <2>2. NextItem \in Nat /\ inbox[NextItem] \in Chats
    BY <1>1, <1>4, FlightUpdate DEF RecordReply, Answered, InFlight
  <2>3. text \in Texts OBVIOUS
  <2> HIDE DEF text
  <2> QED BY <2>1, <2>2, <2>3, AcknowledgeKeepsRows
<1> QED BY <1>2, <1>3, <1>4

(* The steps that change the outbox. *)
LEMMA OutboxSteps ==
  ASSUME [Next]_vars
  PROVE  \/ UNCHANGED outbox
         \/ \E i \in DOMAIN outbox : RetryDue(i)
         \/ IgnoreUpdate \/ RefuseCommand \/ RecordReply
         \/ queueAuditNotifications \/ queueDailySummaries \/ drainNotificationOutbox
         \/ DiscardRow \/ AttemptRow \/ TelegramAccepts \/ Sent \/ SendGivenUp \/ SendFailed
BY DEF Next, LoopStep, Outcome, vars, world, store, bounds, UserSends, AuditEvent, HourPasses,
       CooldownPasses, Start, Stop, StepFails, Crash, PollFailed, PollAnswered, SkipStale,
       SendCommand, CommandActs, CommandRefused, UpdatesDone, SendAborted, DrainDone

(* Every step keeps the types. *)
THEOREM NextKeepsTypes ==
  ASSUME IInv, [Next]_vars
  PROVE  TypeOK'
<1>1. OtherTypes /\ outbox \in Seq(Row) /\ TypeOK /\ CommandOK /\ DeliveryOK
  BY SplitTypes DEF IInv
<1>2. OtherTypes'
  <2>1. CASE UNCHANGED vars
    BY <1>1, <2>1 DEF OtherTypes, vars, world, store, bounds
  <2>2. CASE Next
    BY <1>1, <2>2, WorldKeepsTypes, ProcessKeepsTypes, CommandsKeepTypes, DeliveryKeepsTypes
    DEF Next, LoopStep
  <2> QED BY <2>1, <2>2
<1>3. outbox' \in Seq(Row)
  <2>1. CASE UNCHANGED outbox BY <1>1, <2>1
  <2>2. CASE \E i \in DOMAIN outbox : RetryDue(i) BY <1>1, <2>2, RetryKeepsRows
  <2>3. CASE IgnoreUpdate \/ RefuseCommand \/ RecordReply BY <1>1, <2>3, PollKeepsRows
  <2>4. CASE queueAuditNotifications \/ queueDailySummaries BY <1>1, <2>4, QueueingKeepsRows
  <2>5. CASE drainNotificationOutbox BY <1>1, <2>5, DrainKeepsRows
  <2>6. CASE DiscardRow \/ AttemptRow \/ TelegramAccepts \/ Sent \/ SendGivenUp \/ SendFailed
    BY <1>1, <2>6, SendingKeepsRows
  <2> QED BY <2>1, <2>2, <2>3, <2>4, <2>5, <2>6, OutboxSteps
<1> HIDE DEF Row
<1> QED BY <1>2, <1>3 DEF TypeOK, OtherTypes

-----------------------------------------------------------------------------
(* Commands. *)

NotPolling(at) == at \notin {"updates", "command", "reply", "refused"}

(* A step that settles no update and carries nothing out.                   *)
LEMMA CommandsUntouched ==
  ASSUME CommandOK, UNCHANGED <<inbox, ran, offset, recent>>, BatchOK',
         \A i \in DOMAIN outbox' : ReplyOK(outbox'[i])
  PROVE  CommandOK'
BY DEF CommandOK, ActedOK, ReplyOK

LEMMA UpdatedReplies ==
  ASSUME CommandOK, RowsUpdated
  PROVE  \A i \in DOMAIN outbox' : ReplyOK(outbox'[i])
BY DEF CommandOK, RowsUpdated, ReplyOK

LEMMA AddedReplies ==
  ASSUME CommandOK, RowsAdded,
         \A i \in DOMAIN outbox' \ DOMAIN outbox : outbox'[i].key[1] # "reply"
  PROVE  \A i \in DOMAIN outbox' : ReplyOK(outbox'[i])
BY DEF CommandOK, RowsAdded, ReplyOK

LEMMA NotPollingBatch ==
  ASSUME NotPolling(loop'.at)
  PROVE  BatchOK'
BY DEF NotPolling, BatchOK, InFlight

(* Where the loop goes after an error. *)
LEMMA AfterErrorAt ==
  ASSUME TypeOK, AfterError \/ loop' = Down \/ loop' = LastFlush \/ loop' = Begin
  PROVE  NotPolling(loop'.at)
<1>1. Down.at = "down" BY DEF Down
<1>2. Begin.at = "poll" /\ LastFlush.at = "queue" BY DEF TypeOK, Loop, Begin, LastFlush
<1>3. loop' \in {Down, Begin, LastFlush} BY DEF AfterError
<1> QED BY <1>1, <1>2, <1>3 DEF NotPolling

LEMMA WorldKeepsCommands ==
  ASSUME TypeOK, CommandOK,
         \/ UNCHANGED vars
         \/ \E sender \in Chats \cup {Ignored} : UserSends(sender)
         \/ \E kind \in {"notify", "silent"} : AuditEvent(kind)
         \/ HourPasses
         \/ \E c \in Chats : CooldownPasses(c)
         \/ \E i \in DOMAIN outbox : RetryDue(i)
  PROVE  CommandOK'
<1>1. CASE UNCHANGED <<inbox, ran, offset, recent, settings, loop>>
          /\ \A i \in DOMAIN outbox' : ReplyOK(outbox'[i])
  <2>1. BatchOK' BY <1>1 DEF CommandOK, BatchOK, InFlight
  <2> QED BY <1>1, <2>1, CommandsUntouched
<1>2. ASSUME UNCHANGED outbox PROVE \A i \in DOMAIN outbox' : ReplyOK(outbox'[i])
  BY <1>2 DEF CommandOK
<1>3. CASE \E sender \in Chats \cup {Ignored} : UserSends(sender)
  <2>1. PICK sender \in Chats \cup {Ignored} : UserSends(sender) BY <1>3
  <2>2. inbox \in Seq(Chats \cup {Ignored}) BY DEF TypeOK
  <2>3. Len(inbox) \in Nat /\ Len(inbox') = Len(inbox) + 1 BY <2>1, <2>2 DEF UserSends
  <2>4. \A u \in 1 .. Len(inbox) : inbox'[u] = inbox[u] BY <2>1, <2>2 DEF UserSends
  <2>5. UNCHANGED <<ran, offset, recent, settings, loop, outbox>> BY <2>1 DEF UserSends, store
  <2>6. offset \in Nat /\ MaxUpdates \in Nat /\ env.updates \in 0 .. MaxUpdates
    BY Constants, Env DEF TypeOK
  <2>7. Len(inbox') <= MaxUpdates BY <2>1, <2>3, <2>6 DEF UserSends
  <2>8. BatchOK'
    <3>1. ASSUME loop.at = "updates"
          PROVE  \E k \in 1 .. offset + 1, n \in 0 .. Len(inbox') : loop.todo = k .. n
      BY <2>3, <3>1 DEF CommandOK, BatchOK
    <3>2. ASSUME InFlight
          PROVE  /\ \E n \in offset + 1 .. Len(inbox') : loop.todo = offset + 1 .. n
                 /\ inbox'[offset + 1] = inbox[offset + 1]
      BY <2>3, <2>4, <2>6, <3>2 DEF CommandOK, BatchOK
    <3> QED BY <2>5, <3>1, <3>2 DEF CommandOK, BatchOK, InFlight
  <2>9. ActedOK'
    <3>1. ASSUME NEW u \in DOMAIN ran, ran[u] > 0
          PROVE  u \in 1 .. Len(inbox) /\ u <= Len(inbox') /\ inbox'[u] = inbox[u]
      <4>1. u \in 1 .. MaxUpdates /\ u <= Len(inbox) BY <3>1 DEF CommandOK, ActedOK, TypeOK
      <4> QED BY <2>3, <2>4, <2>6, <4>1
    <3> QED BY <2>5, <3>1 DEF CommandOK, ActedOK
  <2> QED BY <2>5, <2>7, <2>8, <2>9 DEF CommandOK, ReplyOK
<1>4. CASE \E c \in Chats : CooldownPasses(c)
  <2>1. PICK c \in Chats : CooldownPasses(c) BY <1>4
  <2>2. UNCHANGED <<inbox, ran, offset, settings, loop, outbox>>
        /\ recent' = [recent EXCEPT ![c] = 0]
    BY <2>1 DEF CooldownPasses, world, store
  <2>3. \A d, u : recent[d] \in {0, u} => recent'[d] \in {0, u} BY <2>2 DEF TypeOK
  <2>4. BatchOK' BY <2>2, <2>3 DEF CommandOK, BatchOK, InFlight
  <2>5. ActedOK' BY <2>2, <2>3 DEF CommandOK, ActedOK
  <2> QED BY <2>2, <2>4, <2>5 DEF CommandOK, ReplyOK
<1>5. CASE \E i \in DOMAIN outbox : RetryDue(i)
  BY <1>1, <1>5, RetryKeepsRows, UpdatedReplies DEF RetryDue, world
<1>6. CASE \E kind \in {"notify", "silent"} : AuditEvent(kind)
  BY <1>1, <1>2, <1>6 DEF AuditEvent, store
<1>7. CASE HourPasses BY <1>1, <1>2, <1>7 DEF HourPasses, store
<1>8. CASE UNCHANGED vars BY <1>1, <1>2, <1>8 DEF vars, world, store
<1> QED BY <1>3, <1>4, <1>5, <1>6, <1>7, <1>8

LEMMA ProcessKeepsCommands ==
  ASSUME TypeOK, CommandOK, Start \/ Stop \/ StepFails \/ Crash \/ PollFailed \/ SendAborted
  PROVE  CommandOK'
<1>1. \A i \in DOMAIN outbox' : ReplyOK(outbox'[i])
  BY DEF CommandOK, Start, Stop, StepFails, Crash, PollFailed, SendAborted, store
<1>2. CASE Start
  <2>1. UNCHANGED <<inbox, ran, offset, outbox>> /\ recent' = [c \in Chats |-> 0]
    BY <1>2 DEF Start
  <2>2. BatchOK' BY <1>2, AfterErrorAt, NotPollingBatch DEF Start
  <2>3. ActedOK' BY <2>1 DEF CommandOK, ActedOK
  <2> QED BY <2>1, <2>2, <2>3 DEF CommandOK, ReplyOK
<1>3. CASE Stop
  <2>1. loop'.at = loop.at /\ loop'.todo = loop.todo
        /\ UNCHANGED <<inbox, ran, offset, recent, settings>>
    BY <1>3 DEF Stop, store, TypeOK, Loop
  <2>2. BatchOK' BY <2>1 DEF CommandOK, BatchOK, InFlight
  <2> QED BY <1>1, <2>1, <2>2, CommandsUntouched
<1>4. CASE StepFails
  <2>1. UNCHANGED <<inbox, ran, offset, outbox>> BY <1>4 DEF StepFails, world
  <2>2. BatchOK' BY <1>4, AfterErrorAt, NotPollingBatch DEF StepFails
  <2>3. CASE UNCHANGED recent BY <1>1, <2>1, <2>2, <2>3, CommandsUntouched
  <2>4. CASE recent' = [recent EXCEPT ![inbox[NextItem]] = NextItem] /\ Answered
    <3>1. NextItem = offset + 1 BY <2>4, FlightUpdate DEF Answered, InFlight
    <3>2. ActedOK' BY <2>1, <2>4, <3>1 DEF CommandOK, ActedOK, TypeOK
    <3> QED BY <1>1, <2>1, <2>2, <3>2 DEF CommandOK, ReplyOK
  <2> QED BY <1>4, <2>3, <2>4 DEF StepFails
<1>5. CASE Crash \/ PollFailed \/ SendAborted
  <2>1. UNCHANGED <<inbox, ran, offset, recent>>
    BY <1>5 DEF Crash, PollFailed, SendAborted, world, store
  <2>2. NotPolling(loop'.at) BY <1>5, AfterErrorAt DEF Crash, PollFailed, SendAborted
  <2> QED BY <1>1, <2>1, <2>2, NotPollingBatch, CommandsUntouched
<1> QED BY <1>2, <1>3, <1>4, <1>5

LEMMA DeliveryKeepsCommands ==
  ASSUME TypeOK, CommandOK, DeliveryOK,
         \/ UpdatesDone \/ queueAuditNotifications \/ queueDailySummaries
         \/ drainNotificationOutbox \/ DiscardRow \/ AttemptRow \/ TelegramAccepts
         \/ Sent \/ SendGivenUp \/ SendFailed \/ DrainDone
  PROVE  CommandOK'
<1>1. UNCHANGED <<inbox, ran, offset, recent>>
  BY DEF UpdatesDone, queueAuditNotifications, queueDailySummaries, drainNotificationOutbox, DiscardRow,
         AttemptRow, TelegramAccepts, Sent, SendGivenUp, SendFailed, DrainDone, world, store
<1>2. BatchOK'
  <2>1. CASE DrainDone
    BY <2>1, AfterErrorAt, NotPollingBatch DEF DrainDone, TypeOK, Loop, NotPolling
  <2>2. CASE ~DrainDone
    <3>1. loop'.at \in {"drain", "summaries", "deliver", "sending"}
      BY <2>2 DEF UpdatesDone, queueAuditNotifications, queueDailySummaries, drainNotificationOutbox,
             DiscardRow, AttemptRow, TelegramAccepts, Sent, SendGivenUp, SendFailed, Go, Resume, TypeOK, Loop
    <3> QED BY <3>1, NotPollingBatch DEF NotPolling
  <2> QED BY <2>1, <2>2
<1>3. \A i \in DOMAIN outbox' : ReplyOK(outbox'[i])
  <2>1. CASE UpdatesDone \/ DrainDone BY <2>1 DEF UpdatesDone, DrainDone, store, CommandOK
  <2>2. CASE queueAuditNotifications \/ queueDailySummaries
    BY <2>2, QueueingKeepsRows, AddedReplies
  <2>3. CASE drainNotificationOutbox BY <2>3, DrainKeepsRows, UpdatedReplies
  <2>4. CASE DiscardRow \/ AttemptRow \/ TelegramAccepts \/ Sent \/ SendGivenUp \/ SendFailed
    BY <2>4, SendingKeepsRows, UpdatedReplies
  <2> QED BY <2>1, <2>2, <2>3, <2>4
<1> QED BY <1>1, <1>2, <1>3, CommandsUntouched

(* Settling the first unsettled update, with a true reply or none.          *)
LEMMA SettlingKeepsCommands ==
  ASSUME TypeOK, CommandOK, NEW u \in 1 .. Len(inbox), u = offset + 1,
         NEW n \in u .. Len(inbox), Rest = u + 1 .. n, NEW text \in Texts, NEW rows,
         rows = {} \/ (inbox[u] \in Chats /\ rows = {Reply(u, text)}), Acknowledge(u, rows),
         UNCHANGED <<inbox, ran>>,
         rows # {} /\ text = "done" => ran[u] = 1, rows # {} /\ text = "limited" => ran[u] = 0
  PROVE  CommandOK'
<1>1. Len(inbox) \in Nat /\ offset \in Nat /\ offset' = u
  BY DEF TypeOK, Acknowledge
<1>2. loop'.at = "updates" /\ loop'.todo = u + 1 .. n
  BY DEF Acknowledge, TypeOK, Loop
<1>3. BatchOK'
  <2>1. u + 1 \in 1 .. offset' + 1 /\ n \in 0 .. Len(inbox') BY <1>1
  <2> QED BY <1>2, <2>1 DEF BatchOK, InFlight
<1>4. ActedOK'
  <2>1. ASSUME NEW v \in DOMAIN ran, ran[v] > 0
        PROVE  ran[v] = 1 /\ v <= offset' /\ v <= Len(inbox) /\ v # offset' + 1
    BY <1>1, <2>1 DEF CommandOK, ActedOK, TypeOK
  <2>2. \A v \in DOMAIN ran : v \in Int BY DEF TypeOK
  <2> QED BY <1>1, <2>1, <2>2 DEF ActedOK
<1>5. RowsAdded /\ \A i \in DOMAIN outbox' \ DOMAIN outbox :
        outbox'[i].key = <<"reply", u>> /\ outbox'[i].text = text
  BY <1>1, AcknowledgeKeepsRows
<1>6. ASSUME NEW i \in DOMAIN outbox' PROVE ReplyOK(outbox[i])'
  <2>1. CASE i \in DOMAIN outbox
    <3>1. outbox'[i] = outbox[i] /\ ReplyOK(outbox[i]) BY <1>5, <2>1 DEF RowsAdded, CommandOK
    <3> QED BY <1>1, <3>1 DEF ReplyOK
  <2>2. CASE i \notin DOMAIN outbox
    <3>1. rows # {}
      <4>1. ASSUME rows = {} PROVE FALSE
        <5>1. IsFiniteSet(rows) /\ rows \subseteq Row /\ outbox \in Seq(Row)
          BY <4>1, FS_EmptySet DEF TypeOK
        <5> HIDE DEF Row
        <5>2. outbox'[i] \in rows BY <2>2, <5>1, InsertedRows DEF Acknowledge
        <5> QED BY <4>1, <5>2
      <4> QED BY <4>1
    <3>2. outbox'[i].key = <<"reply", u>> /\ outbox'[i].text = text BY <1>5, <2>2
    <3> QED BY <1>1, <3>1, <3>2 DEF ReplyOK
  <2> QED BY <2>1, <2>2
<1> QED BY <1>3, <1>4, <1>6 DEF CommandOK

LEMMA CommandsKeepCommands ==
  ASSUME TypeOK, CommandOK,
         \/ PollAnswered \/ SkipStale \/ IgnoreUpdate \/ RefuseCommand
         \/ SendCommand \/ CommandActs \/ CommandRefused \/ RecordReply
  PROVE  CommandOK'
<1>1. Len(inbox) \in Nat /\ offset \in Nat /\ offset <= Len(inbox) /\ MaxUpdates \in Nat
      /\ Len(inbox) <= MaxUpdates
  BY Constants DEF TypeOK, CommandOK
<1>2. ASSUME UNCHANGED <<inbox, ran, offset, recent, outbox>>, BatchOK' PROVE CommandOK'
  BY <1>2, CommandsUntouched DEF CommandOK
<1>3. CASE PollAnswered
  <2>1. PICK first \in {1, offset + 1} :
          loop' = [loop EXCEPT !.at = "updates", !.todo = first .. Len(inbox)]
    BY <1>3 DEF PollAnswered
  <2>2. loop'.at = "updates" /\ loop'.todo = first .. Len(inbox) BY <2>1 DEF TypeOK, Loop
  <2>3. first \in 1 .. offset + 1 /\ Len(inbox) \in 0 .. Len(inbox) BY <1>1
  <2>4. UNCHANGED <<inbox, ran, offset, recent, outbox>> BY <1>3 DEF PollAnswered, world, store
  <2>5. BatchOK' BY <2>2, <2>3, <2>4 DEF BatchOK, InFlight
  <2> QED BY <1>2, <2>4, <2>5
<1>4. CASE SkipStale
  <2>1. PICK u \in loop.todo : Taking(u) /\ IsStale(u) BY <1>4 DEF SkipStale
  <2>2. PICK n \in u .. Len(inbox) : Rest = u + 1 .. n BY <2>1, TakenUpdate
  <2>3. u \in 1 .. Len(inbox) /\ u <= offset BY <2>1, TakenUpdate DEF IsStale
  <2>4. loop'.at = "updates" /\ loop'.todo = u + 1 .. n
    BY <1>4, <2>1, <2>2 DEF SkipStale, Taking, TypeOK, Loop
  <2>5. u + 1 \in 1 .. offset + 1 /\ n \in 0 .. Len(inbox) BY <1>1, <2>3
  <2>6. UNCHANGED <<inbox, ran, offset, recent, outbox>> BY <1>4 DEF SkipStale, world, store
  <2>7. BatchOK' BY <2>4, <2>5, <2>6 DEF BatchOK, InFlight
  <2> QED BY <1>2, <2>6, <2>7
<1>5. ASSUME NEW u, Taking(u), ~IsStale(u)
      PROVE  /\ u = offset + 1 /\ u \in 1 .. Len(inbox)
             /\ \E n \in u .. Len(inbox) : loop.todo = u .. n /\ Rest = u + 1 .. n
  BY <1>1, <1>5, TakenUpdate DEF IsStale
<1>6. CASE IgnoreUpdate
  <2>1. PICK u \in loop.todo : Taking(u) /\ ~IsStale(u) /\ Acknowledge(u, {})
    BY <1>6 DEF IgnoreUpdate
  <2>2. "done" \in Texts /\ UNCHANGED <<inbox, ran>> BY <1>6 DEF Texts, IgnoreUpdate, world
  <2> QED BY <1>5, <2>1, <2>2, SettlingKeepsCommands
<1>7. CASE RefuseCommand
  <2>1. PICK u \in loop.todo : /\ Taking(u) /\ ~IsStale(u) /\ IsCommand(u) /\ IsRateLimited(u)
                               /\ Acknowledge(u, {Reply(u, "limited")})
    BY <1>7 DEF RefuseCommand
  <2>2. "limited" \in Texts /\ UNCHANGED <<inbox, ran>> BY <1>7 DEF Texts, RefuseCommand, world
  <2>3. u = offset + 1 /\ u \in 1 .. Len(inbox) BY <1>5, <2>1
  <2>4. inbox[u] \in Chats BY <2>1 DEF IsCommand, TypeOK
  <2>5. u \in DOMAIN ran /\ ran[u] \in Nat BY <1>1, <2>3 DEF TypeOK
  <2>6. ran[u] = 0 BY <2>1, <2>3, <2>5 DEF IsRateLimited, CommandOK, ActedOK
  <2> QED BY <1>5, <2>1, <2>2, <2>4, <2>6, SettlingKeepsCommands
<1>8. CASE SendCommand
  <2>1. PICK u \in loop.todo : Taking(u) /\ ~IsStale(u) /\ IsCommand(u) /\ ~IsRateLimited(u)
    BY <1>8 DEF SendCommand
  <2>2. PICK n \in u .. Len(inbox) : u = offset + 1 /\ loop.todo = u .. n BY <1>5, <2>1
  <2>3. loop'.at = "command" /\ loop'.todo = loop.todo BY <1>8 DEF SendCommand, Go, TypeOK, Loop
  <2>4. UNCHANGED <<inbox, ran, offset, recent, outbox, settings>>
    BY <1>8 DEF SendCommand, world, store
  <2>5. BatchOK'
    BY <2>1, <2>2, <2>3, <2>4 DEF BatchOK, InFlight, IsCommand, IsRateLimited
  <2> QED BY <1>2, <2>4, <2>5
<1>9. CASE CommandActs
  <2>1. InFlight BY <1>9 DEF CommandActs, InFlight
  <2> DEFINE u == offset + 1
  <2>2. NextItem = u /\ u \in 1 .. Len(inbox) /\ inbox[u] \in Chats
        /\ recent[inbox[u]] \in {0, u}
    BY <2>1, FlightUpdate DEF CommandOK, BatchOK
  <2>3. UNCHANGED <<inbox, offset, recent, settings, outbox>> BY <1>9 DEF CommandActs, store
  <2>4. loop'.at = "reply" /\ loop'.todo = loop.todo BY <1>9 DEF CommandActs, Go, TypeOK, Loop
  <2>5. u \in DOMAIN ran /\ ran[u] \in Nat /\ (ran[u] > 0 => ran[u] = 1)
    BY <1>1, <2>2 DEF TypeOK, CommandOK, ActedOK
  <2>6. ran' = [ran EXCEPT ![u] = 1]
    BY <1>9, <2>2, <2>5 DEF CommandActs, KeyIsNew, TypeOK
  <2>7. DOMAIN ran' = DOMAIN ran /\ ran'[u] = 1 /\ \A v \in DOMAIN ran : v # u => ran'[v] = ran[v]
    BY <2>5, <2>6 DEF TypeOK
  <2>8. BatchOK' BY <2>1, <2>3, <2>4, <2>7 DEF CommandOK, BatchOK, InFlight
  <2>9. ActedOK'
    <3>1. ASSUME NEW v \in DOMAIN ran, ran'[v] > 0
          PROVE  /\ ran'[v] = 1 /\ v <= offset + 1 /\ v <= Len(inbox)
                 /\ v = offset + 1 => inbox[v] \in Chats /\ recent[inbox[v]] \in {0, v}
      BY <1>1, <2>2, <2>7, <3>1 DEF CommandOK, ActedOK
    <3> QED BY <2>3, <2>7, <3>1 DEF ActedOK
  <2>10. ASSUME NEW i \in DOMAIN outbox PROVE ReplyOK(outbox[i])'
    <3>1. ASSUME outbox[i].key[1] = "reply" PROVE ran'[outbox[i].key[2]] = ran[outbox[i].key[2]]
      <4>1. outbox[i].key[2] \in 1 .. offset BY <3>1 DEF CommandOK, ReplyOK
      <4>2. outbox[i].key[2] \in DOMAIN ran /\ outbox[i].key[2] # u BY <1>1, <4>1 DEF TypeOK
      <4> QED BY <2>7, <4>2
    <3> QED BY <2>3, <3>1 DEF CommandOK, ReplyOK
  <2> QED BY <2>3, <2>8, <2>9, <2>10 DEF CommandOK
<1>10. CASE CommandRefused
  <2>1. loop'.at = "refused" /\ loop'.todo = loop.todo
    BY <1>10 DEF CommandRefused, Go, TypeOK, Loop
  <2>2. UNCHANGED <<inbox, ran, offset, recent, outbox, settings>>
    BY <1>10 DEF CommandRefused, world, store
  <2>3. BatchOK' BY <1>10, <2>1, <2>2 DEF CommandRefused, CommandOK, BatchOK, InFlight
  <2> QED BY <1>2, <2>2, <2>3
<1>11. CASE RecordReply
  <2> DEFINE text == IF loop.at = "reply" THEN "done" ELSE "refused"
  <2>1. InFlight BY <1>11 DEF RecordReply, Answered, InFlight
  <2>2. PICK n \in offset + 1 .. Len(inbox) : Rest = offset + 2 .. n BY <2>1, FlightUpdate
  <2>3. NextItem = offset + 1 /\ offset + 1 \in 1 .. Len(inbox) /\ inbox[offset + 1] \in Chats
    BY <2>1, FlightUpdate
  <2>4. Acknowledge(offset + 1, {Reply(offset + 1, text)}) /\ UNCHANGED <<inbox, ran>>
    BY <1>11, <2>3 DEF RecordReply, world
  <2>5. text \in Texts /\ text # "limited" BY DEF Texts
  <2>6. text = "done" => ran[offset + 1] = 1 BY DEF CommandOK, BatchOK
  <2>7. Rest = (offset + 1) + 1 .. n BY <1>1, <2>2
  <2> HIDE DEF text
  <2> QED BY <2>3, <2>4, <2>5, <2>6, <2>7, SettlingKeepsCommands
<1> QED BY <1>3, <1>4, <1>6, <1>7, <1>8, <1>9, <1>10, <1>11

(* Every step keeps the order of commands and the truth of replies.         *)
THEOREM NextKeepsCommands ==
  ASSUME IInv, [Next]_vars
  PROVE  CommandOK'
BY WorldKeepsCommands, ProcessKeepsCommands, DeliveryKeepsCommands, CommandsKeepCommands
DEF IInv, Next, LoopStep, Outcome

-----------------------------------------------------------------------------
(* Delivery. *)

LEMMA FreshRowOK ==
  ASSUME NEW row, Fresh(row)
  PROVE  RowOK(row)
BY DEF Fresh, RowOK

(* A step of the rest of the loop, or of the world. *)
LEMMA OutsideDelivery ==
  ASSUME DeliveryOK, RowsAdded \/ UNCHANGED outbox, loop'.at \notin {"deliver", "sending"}
  PROVE  DeliveryOK'
<1>1. \A i \in DOMAIN outbox' : RowOK(outbox'[i])
  BY FreshRowOK DEF DeliveryOK, RowsAdded
<1>2. (\A i \in DOMAIN outbox : RowOK(outbox[i]))'
  BY <1>1 DEF RowOK, Ended
<1> QED BY <1>2 DEF DeliveryOK, SendingOK

LEMMA DeliveryUntouched ==
  ASSUME TypeOK, DeliveryOK, UNCHANGED <<outbox, settings>>,
         loop'.at = loop.at, loop'.todo = loop.todo, loop'.accepted = loop.accepted
  PROVE  DeliveryOK'
BY DEF DeliveryOK, SendingOK, RowOK, Ended, NextItem

(* The row that was taken is put back, and the drain goes on or ends.       *)
LEMMA UpdateKeepsDelivery ==
  ASSUME TypeOK, DeliveryOK, loop.at \in {"deliver", "sending"}, loop.todo # {},
         NEW row \in Row, Update(row), RowOK(row),
         loop'.at = "deliver", loop'.todo \subseteq Rest
  PROVE  DeliveryOK'
<1>1. NextItem \in DOMAIN outbox /\ NextItem \notin Rest /\ Rest \subseteq loop.todo
  BY TakenRow
<1>2. /\ DOMAIN outbox' = DOMAIN outbox
      /\ \A j \in DOMAIN outbox : outbox'[j] = IF j = NextItem THEN row ELSE outbox[j]
  <2>1. outbox \in Seq(Row) BY DEF TypeOK
  <2> HIDE DEF Row
  <2> QED BY <1>1, <2>1, UpdatedRows DEF Update
<1>3. \A i \in DOMAIN outbox' : RowOK(outbox'[i]) BY <1>2 DEF DeliveryOK
<1>4. ASSUME NEW i \in loop'.todo
      PROVE  i \in DOMAIN outbox' /\ ~Ended(outbox'[i]) /\ outbox'[i].attempts < MaxAttempts
  <2>1. i \in Rest /\ i \in loop.todo /\ i # NextItem BY <1>1
  <2>2. i \in DOMAIN outbox /\ ~Ended(outbox[i]) /\ outbox[i].attempts < MaxAttempts
    BY <2>1 DEF DeliveryOK
  <2> QED BY <1>2, <2>1, <2>2
<1> QED BY <1>3, <1>4 DEF DeliveryOK, SendingOK, RowOK, Ended

(* The row that was taken stays taken. *)
LEMMA SendingUpdate ==
  ASSUME TypeOK, DeliveryOK, loop.at \in {"deliver", "sending"}, loop.todo # {},
         NEW row \in Row, Update(row), RowOK(row), ~Ended(row), UNCHANGED settings,
         loop'.at = "sending", loop'.todo = loop.todo, row.chat \in settings.allowed,
         IF loop'.accepted THEN row.shown > 0 ELSE row.shown < row.attempts
  PROVE  DeliveryOK'
<1>1. NextItem \in DOMAIN outbox BY TakenRow
<1>2. /\ DOMAIN outbox' = DOMAIN outbox
      /\ \A j \in DOMAIN outbox : outbox'[j] = IF j = NextItem THEN row ELSE outbox[j]
  <2>1. outbox \in Seq(Row) BY DEF TypeOK
  <2> HIDE DEF Row
  <2> QED BY <1>1, <2>1, UpdatedRows DEF Update
<1>3. \A i \in DOMAIN outbox' : RowOK(outbox'[i]) BY <1>2 DEF DeliveryOK
<1>4. NextItem' = NextItem BY DEF NextItem
<1>5. ASSUME NEW i \in loop.todo
      PROVE  /\ i \in DOMAIN outbox' /\ ~Ended(outbox'[i])
             /\ outbox'[i].attempts < MaxAttempts \/ i = NextItem
  BY <1>2 DEF DeliveryOK
<1>6. outbox'[NextItem] = row BY <1>1, <1>2
<1> HIDE DEF NextItem, Row
<1> QED BY <1>3, <1>4, <1>5, <1>6 DEF DeliveryOK, SendingOK, RowOK, Ended

LEMMA SendingKeepsDelivery ==
  ASSUME TypeOK, DeliveryOK,
         DiscardRow \/ AttemptRow \/ TelegramAccepts \/ Sent \/ SendGivenUp \/ SendFailed
  PROVE  DeliveryOK'
<1>1. loop.at \in {"deliver", "sending"} /\ loop.todo # {}
  BY DEF DiscardRow, AttemptRow, TelegramAccepts, Sent, SendGivenUp, SendFailed, DeliveryOK, SendingOK
<1> DEFINE item == outbox[NextItem]
<1>2. item \in Row /\ NextItem \in loop.todo /\ ~Ended(item) /\ RowOK(item)
  BY <1>1, TakenRow DEF DeliveryOK
<1>3. item.shown \in Nat /\ item.attempts \in Nat /\ item.shown <= item.attempts /\ item.text \in Texts
  BY <1>2, Constants DEF RowOK, Row
<1>4. ASSUME NEW todo \in SUBSET Rest, Resume(todo)
      PROVE  loop'.at = "deliver" /\ loop'.todo \subseteq Rest
  BY <1>4 DEF Resume, TypeOK, Loop
<1>5. CASE DiscardRow
  <2> DEFINE row == [item EXCEPT !.error = "NOT_ALLOWLISTED", !.text = "[DISCARDED]"]
  <2>1. row \in Row /\ row.error = "NOT_ALLOWLISTED" /\ row.shown = item.shown
        /\ row.attempts = item.attempts
    BY <1>2 DEF Row, Permanent
  <2>2. RowOK(row) BY <1>3, <2>1 DEF RowOK, Ended, Permanent
  <2>3. loop'.at = "deliver" /\ loop'.todo = Rest BY <1>5 DEF DiscardRow, TypeOK, Loop
  <2> QED BY <1>1, <1>5, <2>1, <2>2, <2>3, UpdateKeepsDelivery DEF DiscardRow
<1>6. CASE AttemptRow
  <2> DEFINE row == Attempted(item)
  <2>1. item.attempts < MaxAttempts BY <1>2, <1>6 DEF AttemptRow, DeliveryOK
  <2>2. row.error = "none" /\ row.shown = item.shown /\ row.attempts = item.attempts + 1
        /\ row.sent = item.sent /\ row.text = item.text /\ row.chat = item.chat
    BY <1>2 DEF Attempted, Row
  <2>3. row \in Row
    <3>1. item.attempts + 1 \in 0 .. MaxAttempts BY <1>3, <2>1, Constants
    <3>2. row = [item EXCEPT !.attempts = item.attempts + 1, !.error = "none"]
      BY <1>2 DEF Attempted, Row
    <3> QED BY <1>2, <3>1, <3>2 DEF Row
  <2>4. RowOK(row) /\ ~Ended(row) /\ row.shown < row.attempts
    BY <1>2, <1>3, <2>2 DEF RowOK, Ended, Permanent
  <2>5. loop'.at = "sending" /\ loop'.todo = loop.todo /\ loop'.accepted = FALSE
    BY <1>6 DEF AttemptRow, TypeOK, Loop
  <2>6. row.chat \in settings.allowed BY <1>6, <2>2 DEF AttemptRow, IsTarget
  <2>7. Update(row) /\ UNCHANGED settings BY <1>6 DEF AttemptRow
  <2> HIDE DEF row
  <2> QED BY <1>1, <2>3, <2>4, <2>5, <2>6, <2>7, SendingUpdate
<1>7. CASE TelegramAccepts
  <2> DEFINE row == [item EXCEPT !.shown = @ + 1]
  <2>1. row \in Row /\ row.shown = item.shown + 1 /\ row.attempts = item.attempts
        /\ row.error = item.error /\ row.sent = item.sent /\ row.text = item.text /\ row.chat = item.chat
    BY <1>2 DEF Row
  <2>2. item.shown < item.attempts /\ item.chat \in settings.allowed
    BY <1>7 DEF TelegramAccepts, DeliveryOK, SendingOK
  <2>3. RowOK(row) /\ ~Ended(row) /\ row.shown > 0
    BY <1>2, <1>3, <2>1, <2>2 DEF RowOK, Ended
  <2>4. loop'.at = "sending" /\ loop'.todo = loop.todo /\ loop'.accepted = TRUE
    BY <1>7 DEF TelegramAccepts, TypeOK, Loop
  <2>5. Update(row) /\ UNCHANGED settings BY <1>7 DEF TelegramAccepts
  <2>6. row.chat \in settings.allowed BY <2>1, <2>2
  <2> HIDE DEF row
  <2> QED BY <1>1, <2>1, <2>3, <2>4, <2>5, <2>6, SendingUpdate
<1>8. CASE Sent
  <2> DEFINE row == [item EXCEPT !.sent = TRUE, !.waiting = FALSE, !.error = "none",
                                 !.text = "[DELIVERED]"]
  <2>1. row \in Row /\ row.sent = TRUE /\ row.shown = item.shown /\ row.attempts = item.attempts
    BY <1>2 DEF Row
  <2>2. RowOK(row) BY <1>3, <2>1 DEF RowOK, Ended
  <2>3. loop'.at = "deliver" /\ loop'.todo \subseteq Rest BY <1>4, <1>8 DEF Sent
  <2>4. Update(row) BY <1>8 DEF Sent
  <2> HIDE DEF row
  <2> QED BY <1>1, <2>1, <2>2, <2>3, <2>4, UpdateKeepsDelivery
<1>9. CASE SendGivenUp
  <2>1. ASSUME NEW e \in Permanent, Update(GiveUp(e)) PROVE DeliveryOK'
    <3>1. GiveUp(e) \in Row /\ GiveUp(e).error = e /\ GiveUp(e).shown = item.shown
          /\ GiveUp(e).attempts = item.attempts
      BY <1>2 DEF GiveUp, Row
    <3>2. RowOK(GiveUp(e)) BY <1>3, <3>1 DEF RowOK, Ended
    <3>3. loop'.at = "deliver" /\ loop'.todo \subseteq Rest BY <1>4, <1>9 DEF SendGivenUp
    <3> QED BY <1>1, <2>1, <3>1, <3>2, <3>3, UpdateKeepsDelivery
  <2> QED BY <1>9, <2>1 DEF SendGivenUp, Permanent
<1>10. CASE SendFailed
  <2> DEFINE row == Retried(item)
  <2>1. row \in Row /\ row.shown = item.shown /\ row.attempts = item.attempts /\ row.text = item.text
    BY <1>2 DEF Retried, Row
  <2>2. RowOK(row) BY <1>3, <2>1 DEF RowOK
  <2>3. loop'.at = "deliver" /\ loop'.todo \subseteq Rest BY <1>4, <1>10 DEF SendFailed
  <2>4. Update(row) BY <1>10 DEF SendFailed
  <2> HIDE DEF row
  <2> QED BY <1>1, <2>1, <2>2, <2>3, <2>4, UpdateKeepsDelivery
<1> QED BY <1>5, <1>6, <1>7, <1>8, <1>9, <1>10

LEMMA DrainKeepsDelivery ==
  ASSUME TypeOK, DeliveryOK, drainNotificationOutbox
  PROVE  DeliveryOK'
<1> DEFINE After(row) == IF WasCutOff(row)
                         THEN [row EXCEPT !.error = "RETRY_LIMIT", !.waiting = FALSE] ELSE row
           due == {i \in DOMAIN outbox : IsDue(outbox[i])}
           first == {i \in due : Cardinality({j \in due : j < i}) < DrainLimit}
<1>1. DOMAIN outbox' = DOMAIN outbox /\ \A i \in DOMAIN outbox : outbox'[i] = After(outbox[i])
  BY DEF drainNotificationOutbox
<1>2. \A i \in DOMAIN outbox : outbox[i] \in Row
  <2> HIDE DEF Row
  <2> QED BY ElementOfSeq, LenProperties DEF TypeOK
<1>3. ASSUME NEW row \in Row, RowOK(row) PROVE RowOK(After(row))
  BY <1>3 DEF RowOK, Ended, Permanent, Row
<1>4. \A i \in DOMAIN outbox' : RowOK(outbox'[i])
  <2> HIDE DEF After, Row
  <2> QED BY <1>1, <1>2, <1>3 DEF DeliveryOK
<1>5. ASSUME NEW row \in Row, IsDue(row)
      PROVE  ~Ended(After(row)) /\ After(row).attempts < MaxAttempts
  BY <1>5, Constants DEF IsDue, Ended, Permanent, WasCutOff, Row
<1>6. loop'.at = "deliver" /\ loop'.todo = first
  BY DEF drainNotificationOutbox, TypeOK, Loop
<1>7. first \subseteq due OBVIOUS
<1> HIDE DEF After, first, Row
<1>8. ASSUME NEW i \in loop'.todo
      PROVE  i \in DOMAIN outbox' /\ ~Ended(outbox'[i]) /\ outbox'[i].attempts < MaxAttempts
  BY <1>1, <1>2, <1>5, <1>6, <1>7
<1> QED BY <1>4, <1>6, <1>8 DEF DeliveryOK, SendingOK, RowOK, Ended

LEMMA RetryKeepsDelivery ==
  ASSUME TypeOK, DeliveryOK, NEW i \in DOMAIN outbox, RetryDue(i)
  PROVE  DeliveryOK'
<1>1. outbox \in Seq(Row) /\ UNCHANGED <<loop, settings>> BY DEF TypeOK, RetryDue
<1>2. outbox[i] \in Row
  <2> HIDE DEF Row
  <2> QED BY <1>1
<1> DEFINE row == [outbox[i] EXCEPT !.waiting = FALSE]
<1>3. /\ row.chat = outbox[i].chat /\ row.text = outbox[i].text /\ row.sent = outbox[i].sent
      /\ row.error = outbox[i].error /\ row.shown = outbox[i].shown
      /\ row.attempts = outbox[i].attempts
  BY <1>2 DEF Row
<1>4. DOMAIN outbox' = DOMAIN outbox
      /\ \A j \in DOMAIN outbox : outbox'[j] = IF j = i THEN row ELSE outbox[j]
  <2> HIDE DEF Row
  <2> QED BY <1>1 DEF RetryDue
<1> HIDE DEF row
<1>5. \A j \in DOMAIN outbox :
        /\ outbox'[j].chat = outbox[j].chat /\ outbox'[j].text = outbox[j].text
        /\ outbox'[j].shown = outbox[j].shown /\ outbox'[j].attempts = outbox[j].attempts
        /\ Ended(outbox'[j]) <=> Ended(outbox[j])
  BY <1>3, <1>4 DEF Ended
<1>6. \A j \in DOMAIN outbox' : RowOK(outbox'[j]) BY <1>4, <1>5 DEF DeliveryOK, RowOK
<1>7. NextItem' = NextItem BY <1>1 DEF NextItem
<1>8. loop.at = "sending" => NextItem \in DOMAIN outbox BY TakenRow DEF DeliveryOK, SendingOK
<1> HIDE DEF NextItem
<1> QED BY <1>1, <1>4, <1>5, <1>6, <1>7, <1>8 DEF DeliveryOK, SendingOK, RowOK, Ended

(* Every step keeps the rows in order, and what a drain still has to take. *)
THEOREM NextKeepsDelivery ==
  ASSUME IInv, [Next]_vars
  PROVE  DeliveryOK'
<1> USE DEF IInv
<1>1. CASE \/ UNCHANGED vars
           \/ \E sender \in Chats \cup {Ignored} : UserSends(sender)
           \/ \E kind \in {"notify", "silent"} : AuditEvent(kind)
           \/ HourPasses
           \/ \E c \in Chats : CooldownPasses(c)
  <2>1. UNCHANGED <<outbox, settings, loop>>
    BY <1>1 DEF UserSends, AuditEvent, HourPasses, CooldownPasses, vars, world, store
  <2> QED BY <2>1, DeliveryUntouched
<1>2. CASE \E i \in DOMAIN outbox : RetryDue(i) BY <1>2, RetryKeepsDelivery
<1>3. CASE Stop
  <2>1. /\ UNCHANGED <<outbox, settings>> /\ loop'.at = loop.at
        /\ loop'.todo = loop.todo /\ loop'.accepted = loop.accepted
    BY <1>3 DEF Stop, store, TypeOK, Loop
  <2> QED BY <2>1, DeliveryUntouched
<1>4. CASE Start \/ StepFails \/ Crash \/ PollFailed \/ SendAborted
  <2>1. loop' \in {Down, Begin, LastFlush} /\ UNCHANGED outbox
    BY <1>4 DEF Start, StepFails, Crash, PollFailed, SendAborted, AfterError, store
  <2>2. Down.at = "down" /\ Begin.at = "poll" /\ LastFlush.at = "queue"
    BY DEF TypeOK, Loop, Down, Begin, LastFlush
  <2> QED BY <2>1, <2>2, OutsideDelivery
<1>5. CASE \/ PollAnswered \/ SkipStale \/ SendCommand \/ CommandActs \/ CommandRefused
           \/ UpdatesDone
  <2>1. loop'.at \notin {"deliver", "sending"} /\ UNCHANGED outbox
    BY <1>5 DEF PollAnswered, SkipStale, Taking, SendCommand, CommandActs, CommandRefused, UpdatesDone,
                Go, TypeOK, Loop, store
  <2> QED BY <2>1, OutsideDelivery
<1>6. CASE IgnoreUpdate \/ RefuseCommand \/ RecordReply
  <2>1. loop'.at = "updates"
    BY <1>6 DEF IgnoreUpdate, RefuseCommand, RecordReply, Acknowledge, TypeOK, Loop
  <2>2. RowsAdded BY <1>6, PollKeepsRows
  <2> QED BY <2>1, <2>2, OutsideDelivery
<1>7. CASE queueAuditNotifications \/ queueDailySummaries
  <2>1. loop'.at \in {"summaries", "drain"}
    BY <1>7 DEF queueAuditNotifications, queueDailySummaries, Go, TypeOK, Loop
  <2>2. RowsAdded BY <1>7, QueueingKeepsRows
  <2> QED BY <2>1, <2>2, OutsideDelivery
<1>8. CASE drainNotificationOutbox BY <1>8, DrainKeepsDelivery
<1>9. CASE DiscardRow \/ AttemptRow \/ TelegramAccepts \/ Sent \/ SendGivenUp \/ SendFailed
  BY <1>9, SendingKeepsDelivery
<1>10. CASE DrainDone
  <2>1. loop'.at \notin {"deliver", "sending"} /\ UNCHANGED outbox
    <3>1. Down.at = "down" /\ Begin.at = "poll" /\ LastFlush.at = "queue"
      BY DEF TypeOK, Loop, Down, Begin, LastFlush
    <3>2. [loop EXCEPT !.at = "queue", !.run = "flush"].at = "queue" BY DEF TypeOK, Loop
    <3> QED BY <1>10, <3>1, <3>2 DEF DrainDone
  <2> QED BY <2>1, OutsideDelivery
<1> QED BY <1>1, <1>2, <1>3, <1>4, <1>5, <1>6, <1>7, <1>8, <1>9, <1>10 DEF Next, LoopStep, Outcome

-----------------------------------------------------------------------------
(* The invariant, and what follows from it. *)

LEMMA InitEstablishesIInv ==
  ASSUME Init
  PROVE  IInv
<1>1. OtherTypes
  <2>1. Down \in Loop BY DEF Loop, Down
  <2>2. settings \in [allowed : SUBSET Chats, notifications : BOOLEAN]
    BY Env DEF Init
  <2>3. ran \in [1 .. MaxUpdates -> Nat] /\ recent \in [Chats -> 0 .. MaxUpdates] /\ hour \in Nat
    BY Constants DEF Init
  <2>4. /\ inbox \in Seq(Chats \cup {Ignored}) /\ audit \in Seq({"notify", "silent"})
        /\ Len(inbox) = 0 /\ Len(audit) = 0
    BY DEF Init
  <2>5. /\ offset \in 0 .. Len(inbox) /\ cursor \in -1 .. Len(audit) /\ summaryDay \in Int
        /\ connected \in BOOLEAN /\ starts \in Nat /\ faults \in Nat /\ loop \in Loop
    <3>1. offset = 0 /\ cursor = -1 /\ summaryDay = -1 /\ connected = FALSE /\ starts = 0
          /\ faults = 0 /\ loop = Down
      BY DEF Init
    <3>2. offset \in 0 .. Len(inbox) BY <2>4, <3>1
    <3>3. cursor \in -1 .. Len(audit) BY <2>4, <3>1
    <3>4. summaryDay \in Int /\ starts \in Nat /\ faults \in Nat BY <3>1
    <3>5. connected \in BOOLEAN /\ loop \in Loop BY <2>1, <3>1
    <3> QED BY <3>2, <3>3, <3>4, <3>5
  <2>6. env \in Environments BY DEF Init
  <2> QED BY <2>2, <2>3, <2>4, <2>5, <2>6 DEF OtherTypes
<1>2. outbox = << >> /\ outbox \in Seq(Row) BY DEF Init
<1>3. CommandOK
  <2>1. Len(inbox) = 0 BY DEF Init
  <2>2. BatchOK BY DEF Init, Down, BatchOK, InFlight
  <2>3. ActedOK BY DEF Init, ActedOK
  <2> QED BY <1>2, <2>1, <2>2, <2>3, Constants DEF CommandOK
<1>4. DeliveryOK BY <1>2 DEF Init, Down, DeliveryOK, SendingOK
<1> QED BY <1>1, <1>2, <1>3, <1>4, SplitTypes DEF IInv

(* The inductive invariant holds in every reachable state.                  *)
THEOREM Invariance == Spec => []IInv
<1>1. Init => IInv BY InitEstablishesIInv
<1>2. IInv /\ [Next]_vars => IInv'
  BY NextKeepsTypes, NextKeepsCommands, NextKeepsDelivery DEF IInv
<1> QED BY <1>1, <1>2, PTL DEF Spec

(* Every variable keeps its type; in particular no row is attempted more    *)
(* often than MAX_DELIVERY_ATTEMPTS.                                        *)
THEOREM TypeCorrect == Spec => []TypeOK
<1>1. IInv => TypeOK BY DEF IInv
<1> QED BY <1>1, Invariance, PTL

(* A command acts at most once. *)
THEOREM ActsOnce == Spec => []ActsAtMostOnce
<1>1. IInv => ActsAtMostOnce
  BY DEF IInv, TypeOK, CommandOK, ActedOK, ActsAtMostOnce
<1> QED BY <1>1, Invariance, PTL

(* No command overtakes an earlier one. *)
THEOREM Ordered == Spec => []CommandsInOrder
<1>1. IInv => CommandsInOrder
  BY DEF IInv, TypeOK, CommandOK, ActedOK, CommandsInOrder
<1> QED BY <1>1, Invariance, PTL

(* Replies tell what happened. *)
THEOREM TrueReplies == Spec => []RepliesAreTrue
<1>1. IInv => RepliesAreTrue
  BY DEF IInv, CommandOK, ReplyOK, RepliesAreTrue
<1> QED BY <1>1, Invariance, PTL

(* A message that can still be sent has its text. *)
THEOREM TextIsKept == Spec => []PendingKeepsText
<1>1. IInv => PendingKeepsText
  BY DEF IInv, DeliveryOK, RowOK, PendingKeepsText
<1> QED BY <1>1, Invariance, PTL

-----------------------------------------------------------------------------
(***************************************************************************)
(* Notifications.  No row is ahead of the cursor or of the last day that   *)
(* was summarised, so what a flush queues comes after all that was queued; *)
(* and the owners are on every allowlist, so it is queued for each of them.*)
(***************************************************************************)
BehindCursor(row) ==
  /\ row.key[1] = "audit" => row.key[2] <= cursor
  /\ row.key[1] = "day" => row.key[2] <= summaryDay

NoticesOK ==
  /\ env.owners \subseteq settings.allowed
  /\ \A i \in DOMAIN outbox : BehindCursor(outbox[i])
  /\ NothingSkipped

(* What a row's key is made of. *)
LEMMA RowKeys ==
  ASSUME TypeOK, NEW i \in DOMAIN outbox
  PROVE  outbox[i].key \in Keys /\ outbox[i].key[2] \in Int
<1>1. outbox \in Seq(Row) BY DEF TypeOK
<1>2. outbox[i] \in Row
  <2> HIDE DEF Row
  <2> QED BY <1>1, ElementOfSeq, LenProperties
<1>3. outbox[i].key \in Keys
  <2> HIDE DEF Keys
  <2> QED BY <1>2 DEF Row
<1> QED BY <1>3 DEF Keys

(* INSERT OR IGNORE leaves nothing out. *)
LEMMA InsertedAll ==
  ASSUME outbox \in Seq(Row), NEW rows \in SUBSET Row, IsFiniteSet(rows), Insert(rows), NEW r \in rows
  PROVE  IsQueued(r.key, r.chat)'
<1> DEFINE new == {x \in rows : ~IsQueued(x.key, x.chat)}
           n == Cardinality(new)
<1>1. IsFiniteSet(new) /\ n \in Nat BY FS_Subset, FS_CardinalityType
<1>2. PICK added \in [1 .. n -> new] :
         /\ \A i, j \in DOMAIN added : i # j => added[i] # added[j]
         /\ outbox' = outbox \o added
  BY DEF Insert
<1>3. CASE IsQueued(r.key, r.chat)
  BY <1>3, InsertedRows DEF IsQueued
<1>4. CASE ~IsQueued(r.key, r.chat)
  <2>1. added \in Injection(1 .. n, new)
    <3> HIDE DEF new, n
    <3> QED BY <1>2, Zenon DEF Injection, IsInjective
  <2>2. IsFiniteSet(1 .. n) /\ Cardinality(1 .. n) = n
    <3> HIDE DEF n
    <3> QED BY <1>1, FS_Interval
  <2>3. added \in Surjection(1 .. n, new)
    BY <1>1, <2>1, <2>2, FS_Injection
  <2>4. r \in new BY <1>4
  <2>5. added \in Seq(Row) /\ Len(added) = n
    <3>1. added \in [1 .. n -> Row] /\ n \in Nat BY <1>1, <1>2
    <3> HIDE DEF n, Row
    <3> QED BY <3>1, SeqDef, LenProperties
  <2> HIDE DEF new, n, Row
  <2>6. PICK k \in 1 .. n : added[k] = r BY <2>3, <2>4 DEF Surjection
  <2>7. Len(outbox) \in Nat /\ Len(outbox) + k \in 1 .. Len(outbox) + n /\ ~(Len(outbox) + k <= Len(outbox))
        /\ (Len(outbox) + k) - Len(outbox) = k
    BY <1>1, LenProperties
  <2>8. /\ outbox' \in Seq(Row) /\ Len(outbox') = Len(outbox) + n
        /\ outbox'[Len(outbox) + k] = r
    BY <1>2, <2>5, <2>6, <2>7, ConcatProperties
  <2>9. Len(outbox) + k \in DOMAIN outbox' BY <2>7, <2>8, LenProperties
  <2> QED BY <2>8, <2>9 DEF IsQueued
<1> QED BY <1>3, <1>4

(* The notices of some keys, all of them, for every allowed chat.           *)
LEMMA NoticesQueued ==
  ASSUME TypeOK, NEW keys, IsFiniteSet(keys), keys \subseteq Keys, Insert(Notices(keys))
  PROVE  /\ \A i \in DOMAIN outbox : i \in DOMAIN outbox' /\ outbox'[i] = outbox[i]
         /\ \A i \in DOMAIN outbox' \ DOMAIN outbox : outbox'[i].key \in keys
         /\ \A k \in keys, c \in settings.allowed : IsQueued(k, c)'
<1>1. outbox \in Seq(Row) /\ settings.allowed \subseteq Chats BY DEF TypeOK
<1>2. IsFiniteSet(Notices(keys)) /\ Notices(keys) \subseteq Row BY <1>1, NoticeRows
<1> HIDE DEF Row, Keys
<1>3. /\ DOMAIN outbox \subseteq DOMAIN outbox'
      /\ \A i \in DOMAIN outbox : outbox'[i] = outbox[i]
      /\ \A i \in DOMAIN outbox' \ DOMAIN outbox : outbox'[i] \in Notices(keys)
  BY <1>1, <1>2, InsertedRows
<1>4. ASSUME NEW k \in keys, NEW c \in settings.allowed PROVE IsQueued(k, c)'
  <2>1. NewRow(k, c, "notice") \in Notices(keys) BY DEF Notices
  <2>2. NewRow(k, c, "notice").key = k /\ NewRow(k, c, "notice").chat = c BY DEF NewRow
  <2> QED BY <1>1, <1>2, <2>1, <2>2, InsertedAll
<1> QED BY <1>3, <1>4, NewRowsAreFresh

(* Neither replies nor changed rows matter to the notifications.            *)
SameNotices ==
  /\ \A i \in DOMAIN outbox : \E j \in DOMAIN outbox' :
       outbox'[j].key = outbox[i].key /\ outbox'[j].chat = outbox[i].chat
  /\ \A j \in DOMAIN outbox' :
       \/ outbox'[j].key[1] = "reply"
       \/ \E i \in DOMAIN outbox :
            outbox'[j].key = outbox[i].key /\ outbox'[j].chat = outbox[i].chat

LEMMA NoticesUntouched ==
  ASSUME TypeOK, NoticesOK, SameNotices, UNCHANGED <<cursor, summaryDay, env>>,
         env.owners \subseteq settings'.allowed, \A e \in 1 .. cursor : audit'[e] = audit[e]
  PROVE  NoticesOK'
<1>1. ASSUME NEW k, k[1] # "reply", NEW c
      PROVE  IsQueued(k, c)' <=> IsQueued(k, c)
  BY <1>1 DEF SameNotices, IsQueued
<1>2. NothingSkipped'
  <2>1. \A n, c : /\ IsQueued(<<"audit", n>>, c)' <=> IsQueued(<<"audit", n>>, c)
                  /\ IsQueued(<<"day", n>>, c)' <=> IsQueued(<<"day", n>>, c)
    BY <1>1
  <2> QED BY <2>1 DEF NoticesOK, NothingSkipped
<1>3. \A j \in DOMAIN outbox' : BehindCursor(outbox[j])'
  BY DEF SameNotices, BehindCursor, NoticesOK
<1> QED BY <1>2, <1>3 DEF NoticesOK

(* The first start with notifications begins at the end of the audit; there *)
(* is no notice of an event before.                                         *)
LEMMA StartKeepsNotices ==
  ASSUME TypeOK, NoticesOK, Start
  PROVE  NoticesOK'
<1>1. /\ UNCHANGED <<outbox, summaryDay, env>> /\ env.owners \subseteq settings'.allowed
      /\ cursor' = cursor \/ (cursor = -1 /\ cursor' = Len(audit))
  <2>1. settings' \in [allowed : {A \in SUBSET Chats : env.owners \subseteq A},
                       notifications : env.notifications]
    BY DEF Start
  <2> QED BY <2>1 DEF Start
<1>2. cursor \in Int /\ cursor <= Len(audit) /\ Len(audit) \in Nat BY DEF TypeOK
<1>3. \A e \in 1 .. Len(audit) : audit'[e] = audit[e]
  BY LongerAudit DEF Start, TypeOK
<1>4. CASE cursor' = cursor
  <2>1. \A e \in 1 .. cursor : audit'[e] = audit[e] BY <1>2, <1>3
  <2>2. SameNotices BY <1>1 DEF SameNotices
  <2> QED BY <1>1, <1>4, <2>1, <2>2, NoticesUntouched
<1>5. CASE cursor = -1 /\ cursor' = Len(audit)
  <2>1. ASSUME NEW e \in 1 .. cursor', NEW c PROVE ~IsQueued(<<"audit", e>>, c)'
    <3>1. e \in Nat /\ e > -1 BY <1>2, <1>5
    <3> QED BY <1>1, <1>5, <3>1 DEF IsQueued, NoticesOK, BehindCursor
  <2>2. \A n, c : IsQueued(<<"day", n>>, c)' <=> IsQueued(<<"day", n>>, c)
    BY <1>1 DEF IsQueued
  <2>3. NothingSkipped' BY <1>1, <2>1, <2>2 DEF NoticesOK, NothingSkipped
  <2>4. ASSUME NEW i \in DOMAIN outbox' PROVE BehindCursor(outbox[i])'
    <3>1. BehindCursor(outbox[i]) /\ outbox'[i] = outbox[i] BY <1>1 DEF NoticesOK
    <3>2. outbox[i].key[1] = "audit" => outbox[i].key[2] <= Len(audit)
      <4>1. outbox[i].key[2] \in Int BY <1>1, RowKeys
      <4> QED BY <1>2, <1>5, <3>1, <4>1 DEF BehindCursor
    <3> QED BY <1>1, <1>5, <3>1, <3>2 DEF BehindCursor
  <2> QED BY <1>1, <2>3, <2>4 DEF NoticesOK
<1> QED BY <1>1, <1>4, <1>5

(* A flush queues every event up to its new cursor. *)
LEMMA EventsKeepNotices ==
  ASSUME TypeOK, NoticesOK, queueAuditNotifications
  PROVE  NoticesOK'
<1>1. UNCHANGED <<audit, summaryDay, env, settings>> BY DEF queueAuditNotifications, world, bounds
<1>2. CASE ~settings.notifications
  <2>1. UNCHANGED <<outbox, cursor>> BY <1>2 DEF queueAuditNotifications
  <2>2. SameNotices BY <2>1 DEF SameNotices
  <2> QED BY <1>1, <2>1, <2>2, NoticesUntouched DEF NoticesOK
<1>3. CASE settings.notifications
  <2>1. Insert(Notices(EventKeys)) /\ cursor' = LastTaken
    BY <1>3 DEF queueAuditNotifications, EventKeys, TakenEvents
  <2>2. OtherTypes BY SplitTypes
  <2>3. cursor \in Int /\ LastTaken \in Int /\ cursor <= LastTaken
    BY <2>2, LastTakenBounds DEF OtherTypes
  <2>4. /\ TakenEvents \subseteq cursor + 1 .. LastTaken
        /\ IsFiniteSet(EventKeys) /\ EventKeys \subseteq Keys
    BY <2>2, EventKeysFinite
  <2>5. /\ \A i \in DOMAIN outbox : i \in DOMAIN outbox' /\ outbox'[i] = outbox[i]
        /\ \A i \in DOMAIN outbox' \ DOMAIN outbox : outbox'[i].key \in EventKeys
        /\ \A k \in EventKeys, c \in settings.allowed : IsQueued(k, c)'
    <3> HIDE DEF Keys
    <3> QED BY <2>1, <2>4, NoticesQueued
  <2>6. ASSUME NEW k, NEW c PROVE IsQueued(k, c)' => IsQueued(k, c) \/ k \in EventKeys
    BY <2>5 DEF IsQueued
  <2>7. ASSUME NEW k, NEW c, IsQueued(k, c) PROVE IsQueued(k, c)'
    BY <2>5, <2>7 DEF IsQueued
  <2>8. \A n \in Int : <<"audit", n>> \in EventKeys <=> n \in TakenEvents
    BY DEF EventKeys
  <2>9. \A n, c : IsQueued(<<"day", n>>, c)' <=> IsQueued(<<"day", n>>, c)
    BY <2>6, <2>7 DEF EventKeys
  <2>10. ASSUME NEW c \in env.owners, NEW e \in 1 .. cursor', NEW f \in 1 .. cursor', e < f,
                audit[f] = "notify", IsQueued(<<"audit", e>>, c)'
         PROVE  IsQueued(<<"audit", f>>, c)'
    <3>1. e \in Int /\ f \in Int /\ 1 <= e /\ 1 <= f /\ f <= LastTaken BY <2>1, <2>3
    <3>2. CASE f <= cursor
      <4>1. <<"audit", e>> \notin EventKeys BY <2>3, <2>4, <2>8, <2>10, <3>1, <3>2
      <4>2. IsQueued(<<"audit", e>>, c) BY <2>6, <2>10, <4>1
      <4>3. e \in 1 .. cursor /\ f \in 1 .. cursor BY <2>3, <2>10, <3>1, <3>2
      <4> QED BY <2>7, <2>10, <4>2, <4>3 DEF NoticesOK, NothingSkipped
    <3>3. CASE ~(f <= cursor)
      <4>1. f \in TakenEvents BY <2>3, <2>10, <3>1, <3>3 DEF TakenEvents, LastTaken
      <4>2. <<"audit", f>> \in EventKeys BY <2>8, <3>1, <4>1
      <4> QED BY <2>5, <4>2 DEF NoticesOK
    <3> QED BY <3>2, <3>3
  <2>11. NothingSkipped' BY <1>1, <2>9, <2>10 DEF NoticesOK, NothingSkipped
  <2>12. ASSUME NEW i \in DOMAIN outbox' PROVE BehindCursor(outbox[i])'
    <3>1. CASE i \in DOMAIN outbox
      <4>1. outbox[i].key[1] = "audit" => outbox[i].key[2] <= LastTaken
        <5>1. outbox[i].key[2] \in Int BY <3>1, RowKeys
        <5> QED BY <2>3, <3>1, <5>1 DEF NoticesOK, BehindCursor
      <4> QED BY <1>1, <2>1, <2>5, <3>1, <4>1 DEF NoticesOK, BehindCursor
    <3>2. CASE i \notin DOMAIN outbox
      <4>1. PICK e \in TakenEvents : outbox'[i].key = <<"audit", e>> BY <2>5, <3>2 DEF EventKeys
      <4>2. e <= LastTaken BY <2>3, <2>4
      <4> QED BY <2>1, <4>1, <4>2 DEF BehindCursor
    <3> QED BY <3>1, <3>2
  <2> QED BY <1>1, <2>11, <2>12 DEF NoticesOK
<1> QED BY <1>2, <1>3

(* The days that are due follow the last one that was summarised, or are    *)
(* yesterday alone; the last of them is the next one that counts.           *)
LEMMA DaysFollow ==
  ASSUME OtherTypes, DaysDue # {}
  PROVE  /\ Max(DaysDue) \in Int /\ summaryDay <= Max(DaysDue)
         /\ \A d \in DaysDue : d \in Int /\ d <= Max(DaysDue) /\ (summaryDay < d \/ summaryDay = -1)
         /\ \A d \in Int : summaryDay # -1 /\ summaryDay < d /\ d <= Max(DaysDue) => d \in DaysDue
         /\ summaryDay = -1 => DaysDue = {Max(DaysDue)}
<1>1. Yesterday \in Int /\ Yesterday >= -1
  <2>1. HoursPerDay \in Nat \ {0} /\ hour \in Nat BY Constants DEF OtherTypes
  <2>2. hour \div HoursPerDay \in Nat BY <2>1
  <2> QED BY <2>2 DEF Yesterday
<1>2. CASE summaryDay = -1
  <2>1. DaysDue = {Yesterday} BY <1>2 DEF DaysDue
  <2>2. Max({Yesterday}) = Yesterday BY <1>1 DEF Max
  <2> QED BY <1>1, <1>2, <2>1, <2>2
<1>3. CASE summaryDay # -1
  <2> DEFINE last == Min({Yesterday, summaryDay + SummaryLimit})
  <2>1. last \in Int
    <3>1. summaryDay + SummaryLimit \in Int BY Constants DEF OtherTypes
    <3> QED BY <1>1, <3>1, MinOfTwo
  <2>2. DaysDue = summaryDay + 1 .. last BY <1>3 DEF DaysDue
  <2>3. summaryDay \in Int BY DEF OtherTypes
  <2> HIDE DEF last
  <2>4. last \in DaysDue /\ \A y \in DaysDue : last >= y BY <2>1, <2>2, <2>3
  <2>5. Max(DaysDue) = last
    <3>1. Max(DaysDue) \in DaysDue /\ \A y \in DaysDue : Max(DaysDue) >= y BY <2>4 DEF Max
    <3> QED BY <2>1, <2>2, <2>3, <2>4, <3>1
  <2> QED BY <1>3, <2>1, <2>2, <2>3, <2>5
<1> QED BY <1>2, <1>3

(* A flush summarises every day up to the new last one. *)
LEMMA DaysKeepNotices ==
  ASSUME TypeOK, NoticesOK, queueDailySummaries
  PROVE  NoticesOK'
<1>1. UNCHANGED <<audit, cursor, env, settings>> BY DEF queueDailySummaries, world, bounds
<1>2. CASE UNCHANGED <<outbox, summaryDay>>
  <2>1. SameNotices BY <1>2 DEF SameNotices
  <2> QED BY <1>1, <1>2, <2>1, NoticesUntouched DEF NoticesOK
<1>3. CASE ~UNCHANGED <<outbox, summaryDay>>
  <2>1. Insert(Notices(DayKeys)) /\ DaysDue # {} /\ summaryDay' = Max(DaysDue)
    BY <1>3 DEF queueDailySummaries, DayKeys
  <2>2. OtherTypes BY SplitTypes
  <2>3. summaryDay \in Int BY <2>2 DEF OtherTypes
  <2>4. /\ Max(DaysDue) \in Int /\ summaryDay <= Max(DaysDue)
        /\ \A d \in DaysDue : d \in Int /\ d <= Max(DaysDue) /\ (summaryDay < d \/ summaryDay = -1)
        /\ \A d \in Int : summaryDay # -1 /\ summaryDay < d /\ d <= Max(DaysDue) => d \in DaysDue
        /\ summaryDay = -1 => DaysDue = {Max(DaysDue)}
    BY <2>1, <2>2, DaysFollow
  <2>5. /\ \A i \in DOMAIN outbox : i \in DOMAIN outbox' /\ outbox'[i] = outbox[i]
        /\ \A i \in DOMAIN outbox' \ DOMAIN outbox : outbox'[i].key \in DayKeys
        /\ \A k \in DayKeys, c \in settings.allowed : IsQueued(k, c)'
    <3> HIDE DEF Keys
    <3> QED BY <2>1, <2>2, DayKeysFinite, NoticesQueued
  <2>6. ASSUME NEW k, NEW c PROVE IsQueued(k, c)' => IsQueued(k, c) \/ k \in DayKeys
    BY <2>5 DEF IsQueued
  <2>7. ASSUME NEW k, NEW c, IsQueued(k, c) PROVE IsQueued(k, c)'
    BY <2>5, <2>7 DEF IsQueued
  <2>8. \A n \in Int : <<"day", n>> \in DayKeys <=> n \in DaysDue
    BY DEF DayKeys
  <2>9. \A n, c : IsQueued(<<"audit", n>>, c)' <=> IsQueued(<<"audit", n>>, c)
    BY <2>6, <2>7 DEF DayKeys
  <2>10. ASSUME NEW c \in env.owners, NEW d \in 0 .. summaryDay', NEW e \in 0 .. summaryDay', d < e,
                IsQueued(<<"day", d>>, c)'
         PROVE  IsQueued(<<"day", e>>, c)'
    <3>1. d \in Int /\ e \in Int /\ 0 <= d /\ 0 <= e /\ e <= Max(DaysDue) BY <2>1, <2>4
    <3>2. CASE e \in DaysDue
      <4>1. <<"day", e>> \in DayKeys BY <2>8, <3>1, <3>2
      <4> QED BY <2>5, <4>1 DEF NoticesOK
    <3>3. CASE e \notin DaysDue
      <4>1. d \notin DaysDue BY <2>3, <2>4, <2>10, <3>1, <3>3
      <4>2. <<"day", d>> \notin DayKeys BY <2>8, <3>1, <4>1
      <4>3. IsQueued(<<"day", d>>, c) BY <2>6, <2>10, <4>2
      <4>4. d <= summaryDay BY <4>3 DEF IsQueued, NoticesOK, BehindCursor
      <4>5. d \in 0 .. summaryDay /\ e \in 0 .. summaryDay BY <2>3, <2>4, <3>1, <3>3, <4>4
      <4> QED BY <2>7, <2>10, <4>3, <4>5 DEF NoticesOK, NothingSkipped
    <3> QED BY <3>2, <3>3
  <2>11. NothingSkipped' BY <1>1, <2>9, <2>10 DEF NoticesOK, NothingSkipped
  <2>12. ASSUME NEW i \in DOMAIN outbox' PROVE BehindCursor(outbox[i])'
    <3>1. CASE i \in DOMAIN outbox
      <4>1. outbox[i].key[1] = "day" => outbox[i].key[2] <= Max(DaysDue)
        <5>1. outbox[i].key[2] \in Int BY <3>1, RowKeys
        <5> QED BY <2>3, <2>4, <3>1, <5>1 DEF NoticesOK, BehindCursor
      <4> QED BY <1>1, <2>1, <2>5, <3>1, <4>1 DEF NoticesOK, BehindCursor
    <3>2. CASE i \notin DOMAIN outbox
      <4>1. PICK d \in DaysDue : outbox'[i].key = <<"day", d>> BY <2>5, <3>2 DEF DayKeys
      <4> QED BY <2>1, <2>4, <4>1 DEF BehindCursor
    <3> QED BY <3>1, <3>2
  <2> QED BY <1>1, <2>11, <2>12 DEF NoticesOK
<1> QED BY <1>2, <1>3

(* What a step that neither starts the bridge nor queues notices leaves.    *)
LEMMA CursorSteps ==
  ASSUME [Next]_vars, ~Start, ~queueAuditNotifications, ~queueDailySummaries
  PROVE  /\ UNCHANGED <<cursor, summaryDay, env, settings>>
         /\ audit' = audit \/ \E kind \in {"notify", "silent"} : audit' = Append(audit, kind)
BY DEF Next, LoopStep, Outcome, vars, world, store, bounds, UserSends, AuditEvent, HourPasses,
       CooldownPasses, RetryDue, Stop, StepFails, Crash, PollFailed, PollAnswered, SkipStale,
       IgnoreUpdate, RefuseCommand, RecordReply, Acknowledge, SendCommand, CommandActs,
       CommandRefused, UpdatesDone, drainNotificationOutbox, DiscardRow, AttemptRow,
       TelegramAccepts, Sent, SendGivenUp, SendFailed, SendAborted, DrainDone

LEMMA NextKeepsNotices ==
  ASSUME IInv, NoticesOK, [Next]_vars
  PROVE  NoticesOK'
<1>1. TypeOK /\ CommandOK /\ DeliveryOK BY DEF IInv
<1>2. CASE Start BY <1>1, <1>2, StartKeepsNotices
<1>3. CASE queueAuditNotifications BY <1>1, <1>3, EventsKeepNotices
<1>4. CASE queueDailySummaries BY <1>1, <1>4, DaysKeepNotices
<1>5. CASE ~Start /\ ~queueAuditNotifications /\ ~queueDailySummaries
  <2>1. SameNotices
    <3>1. CASE UNCHANGED outbox BY <3>1 DEF SameNotices
    <3>2. CASE RowsUpdated BY <3>2 DEF RowsUpdated, SameNotices
    <3>3. CASE IgnoreUpdate \/ RefuseCommand \/ RecordReply
      BY <1>1, <3>3, PollKeepsRows DEF RowsAdded, SameNotices
    <3> QED BY <1>1, <1>5, <3>1, <3>2, <3>3, OutboxSteps, RetryKeepsRows, DrainKeepsRows,
               SendingKeepsRows
  <2>2. /\ UNCHANGED <<cursor, summaryDay, env, settings>>
        /\ audit' = audit \/ \E kind \in {"notify", "silent"} : audit' = Append(audit, kind)
    BY <1>5, CursorSteps
  <2>3. \A e \in 1 .. Len(audit) : audit'[e] = audit[e]
    BY <1>1, <2>2, LongerAudit DEF TypeOK
  <2>4. \A e \in 1 .. cursor : audit'[e] = audit[e]
    <3>1. cursor \in Int /\ cursor <= Len(audit) /\ Len(audit) \in Nat BY <1>1 DEF TypeOK
    <3> QED BY <2>3, <3>1
  <2> QED BY <1>1, <2>1, <2>2, <2>4, NoticesUntouched DEF NoticesOK
<1> QED BY <1>2, <1>3, <1>4, <1>5

(* Once notifications began, no owner of the bridge misses an event or a    *)
(* day, whatever crashed, however many piled up and whoever else was put on *)
(* the allowlist or taken off it.                                           *)
THEOREM NoneSkipped == Spec => []NothingSkipped
<1>1. Init => NoticesOK
  BY DEF Init, NoticesOK, NothingSkipped, IsQueued
<1>2. IInv /\ NoticesOK /\ [Next]_vars => NoticesOK'
  BY NextKeepsNotices
<1>3. NoticesOK => NothingSkipped BY DEF NoticesOK
<1> QED BY <1>1, <1>2, <1>3, Invariance, PTL DEF Spec

=============================================================================
