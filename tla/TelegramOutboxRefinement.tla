---------------------- MODULE TelegramOutboxRefinement ----------------------
(***************************************************************************)
(* TelegramOutbox implements DeliveryContract, and its action properties,  *)
(* for every set of chats and every bound.                                 *)
(***************************************************************************)
EXTENDS TelegramOutboxProofs

-----------------------------------------------------------------------------
(* The steps of the contract. *)

LEMMA MailDomain ==
  /\ DOMAIN Mail = DOMAIN outbox /\ DOMAIN Mail' = DOMAIN outbox'
  /\ \A i \in DOMAIN outbox : Mail[i] = Seen(outbox[i])
  /\ \A i \in DOMAIN outbox' : Mail'[i] = Seen(outbox'[i])
BY DEF Mail, Seen

(* What is queued is a row, and the contract sees it as a message. *)
LEMMA RowsInOrder ==
  ASSUME outbox \in Seq(Row), DeliveryOK
  PROVE  /\ Len(outbox) \in Nat /\ DOMAIN outbox = 1 .. Len(outbox)
         /\ \A i \in DOMAIN outbox :
              /\ outbox[i] \in Row /\ outbox[i].shown <= outbox[i].attempts
              /\ Seen(outbox[i]) \in Contract!Message
<1>1. /\ Len(outbox) \in Nat /\ DOMAIN outbox = 1 .. Len(outbox)
      /\ \A i \in DOMAIN outbox : outbox[i] \in Row
  <2> HIDE DEF Row
  <2> QED BY LenProperties, ElementOfSeq
<1>2. ASSUME NEW row \in Row, row.shown <= row.attempts PROVE Seen(row) \in Contract!Message
  <2>1. row.shown \in 0 .. MaxAttempts BY <1>2, Constants DEF Row
  <2> QED BY <2>1 DEF Seen, Contract!Message
<1> HIDE DEF Row
<1>3. \A i \in DOMAIN outbox : outbox[i].shown <= outbox[i].attempts BY DEF DeliveryOK, RowOK
<1> QED BY <1>1, <1>2, <1>3

(* Rows that are added are messages that were queued. *)
LEMMA QueueStep ==
  ASSUME outbox \in Seq(Row), DeliveryOK, outbox' \in Seq(Row), RowsAdded
  PROVE  Contract!Queue
<1> HIDE DEF Row
<1>1. \A i \in DOMAIN Mail : i \in DOMAIN Mail' /\ Mail'[i] = Mail[i]
  BY MailDomain DEF RowsAdded
<1>2. \A i \in DOMAIN outbox' \ DOMAIN outbox : Seen(outbox'[i]) = Contract!Fresh
  BY DEF RowsAdded, Fresh, Seen, Permanent, Contract!Fresh
<1>3. Contract!Fresh \in Contract!Message BY Constants DEF Contract!Fresh, Contract!Message
<1>4. \A i \in DOMAIN outbox' : Seen(outbox'[i]) \in Contract!Message
  BY <1>2, <1>3, RowsInOrder DEF RowsAdded
<1>5. Len(outbox') \in Nat /\ DOMAIN outbox' = 1 .. Len(outbox') BY LenProperties
<1>6. Mail' \in [1 .. Len(outbox') -> Contract!Message] BY <1>4, <1>5 DEF Mail, Seen
<1>7. \E n \in Nat : Mail' \in [1 .. n -> Contract!Message] BY <1>5, <1>6
<1>8. Mail' \in Seq(Contract!Message) BY <1>7, SeqDef
<1> QED BY <1>1, <1>2, <1>8, MailDomain DEF Contract!Queue

(* One row is replaced: its message alone can change. *)
LEMMA UpdatedMail ==
  ASSUME outbox \in Seq(Row), NEW i \in DOMAIN outbox, NEW row \in Row,
         outbox' = [outbox EXCEPT ![i] = row]
  PROVE  Mail' = [Mail EXCEPT ![i] = Seen(row)]
<1>1. DOMAIN outbox' = DOMAIN outbox
      /\ \A j \in DOMAIN outbox : outbox'[j] = IF j = i THEN row ELSE outbox[j]
  <2> HIDE DEF Row
  <2> QED BY UpdatedRows
<1> QED BY <1>1 DEF Mail, Seen

(* The changes of the row being sent, as the contract sees them.            *)
LEMMA SentMail ==
  ASSUME IInv, loop.at \in {"deliver", "sending"}, loop.todo # {}, NEW row \in Row, Update(row)
  PROVE  /\ row.sent = FALSE /\ row.error \notin Permanent /\ row.shown = outbox[NextItem].shown
              => UNCHANGED Mail
         /\ row.sent = FALSE /\ row.error \in Permanent /\ row.shown = outbox[NextItem].shown
              => Contract!Drop
         /\ row.sent = TRUE /\ row.shown = outbox[NextItem].shown /\ row.shown > 0
              => Contract!Confirm
         /\ row.sent = FALSE /\ row.error \notin Permanent /\ row.shown = outbox[NextItem].shown + 1
            /\ row.shown <= MaxAttempts
              => Contract!Send
<1> DEFINE item == outbox[NextItem]
<1>1. /\ NextItem \in DOMAIN outbox /\ item \in Row /\ ~Ended(item) /\ outbox \in Seq(Row)
  BY TakenRow DEF IInv, TypeOK
<1>2. Mail' = [Mail EXCEPT ![NextItem] = Seen(row)] BY <1>1, UpdatedMail DEF Update
<1>3. /\ NextItem \in DOMAIN Mail
      /\ Mail[NextItem] = [state |-> "pending", copies |-> item.shown]
      /\ Mail = [i \in DOMAIN Mail |-> Mail[i]]
  BY <1>1 DEF Mail, Seen, Ended
<1>4. item.shown \in Nat /\ row.shown \in Nat BY <1>1 DEF Row
<1> HIDE DEF Mail, Row, NextItem, item
<1>5. ASSUME row.sent = FALSE, row.error \notin Permanent, row.shown = item.shown
      PROVE  UNCHANGED Mail
  <2>1. Seen(row) = Mail[NextItem] BY <1>3, <1>5 DEF Seen
  <2> QED BY <1>2, <1>3, <2>1
<1>6. ASSUME row.sent = FALSE, row.error \in Permanent, row.shown = item.shown
      PROVE  Contract!Drop
  <2>1. Seen(row) = [Mail[NextItem] EXCEPT !.state = "dropped"] BY <1>3, <1>6 DEF Seen
  <2>2. Mail' = [i \in DOMAIN Mail |-> IF i \in {NextItem}
                   THEN [Mail[i] EXCEPT !.state = "dropped"] ELSE Mail[i]]
    BY <1>2, <1>3, <2>1
  <2>3. {NextItem} \in SUBSET DOMAIN Mail /\ \A i \in {NextItem} : Mail[i].state = "pending"
    BY <1>3
  <2> QED BY <2>2, <2>3 DEF Contract!Drop
<1>7. ASSUME row.sent = TRUE, row.shown = item.shown, row.shown > 0
      PROVE  Contract!Confirm
  <2>1. Seen(row) = [Mail[NextItem] EXCEPT !.state = "delivered"] BY <1>3, <1>7 DEF Seen
  <2>2. Mail' = [Mail EXCEPT ![NextItem].state = "delivered"] BY <1>2, <1>3, <2>1
  <2>3. Mail[NextItem].state = "pending" /\ Mail[NextItem].copies > 0 BY <1>3, <1>7
  <2> QED BY <1>3, <2>2, <2>3 DEF Contract!Confirm
<1>8. ASSUME row.sent = FALSE, row.error \notin Permanent, row.shown = item.shown + 1,
             row.shown <= MaxAttempts
      PROVE  Contract!Send
  <2>1. Seen(row) = [Mail[NextItem] EXCEPT !.copies = @ + 1] BY <1>3, <1>8 DEF Seen
  <2>2. Mail' = [Mail EXCEPT ![NextItem].copies = @ + 1] BY <1>2, <1>3, <2>1
  <2>3. Mail[NextItem].state = "pending" /\ Mail[NextItem].copies < MaxAttempts
    BY <1>3, <1>4, <1>8, Constants
  <2> QED BY <1>3, <2>2, <2>3 DEF Contract!Send
<1> QED BY <1>5, <1>6, <1>7, <1>8 DEF item

-----------------------------------------------------------------------------
(* The steps of the service. *)

LEMMA SendingRefines ==
  ASSUME IInv, DiscardRow \/ AttemptRow \/ TelegramAccepts \/ Sent \/ SendGivenUp \/ SendFailed
  PROVE  Contract!Send \/ Contract!Confirm \/ Contract!Drop \/ UNCHANGED Mail
<1>1. loop.at \in {"deliver", "sending"} /\ loop.todo # {}
  BY DEF DiscardRow, AttemptRow, TelegramAccepts, Sent, SendGivenUp, SendFailed, IInv, DeliveryOK, SendingOK
<1> DEFINE item == outbox[NextItem]
<1>2. item \in Row /\ NextItem \in loop.todo /\ ~Ended(item) BY <1>1, TakenRow DEF IInv
<1>3. /\ item.shown \in Nat /\ item.attempts \in 0 .. MaxAttempts /\ item.sent = FALSE
      /\ item.error \notin Permanent
  BY <1>2 DEF Row, Ended
<1>4. CASE DiscardRow
  <2> DEFINE row == [item EXCEPT !.error = "NOT_ALLOWLISTED", !.text = "[DISCARDED]"]
  <2>1. row \in Row /\ row.error \in Permanent /\ row.shown = item.shown /\ row.sent = FALSE
    BY <1>2, <1>3 DEF Row, Permanent
  <2>2. Update(row) BY <1>4 DEF DiscardRow
  <2> HIDE DEF row
  <2> QED BY <1>1, <2>1, <2>2, SentMail
<1>5. CASE AttemptRow
  <2> DEFINE row == Attempted(item)
  <2>1. item.attempts < MaxAttempts BY <1>2, <1>5 DEF AttemptRow, IInv, DeliveryOK
  <2>2. row \in Row
    <3>1. item.attempts + 1 \in 0 .. MaxAttempts BY <1>3, <2>1, Constants
    <3>2. row = [item EXCEPT !.attempts = item.attempts + 1, !.error = "none"]
      BY <1>2 DEF Attempted, Row
    <3> QED BY <1>2, <3>1, <3>2 DEF Row
  <2>3. row.error \notin Permanent /\ row.shown = item.shown /\ row.sent = FALSE
    BY <1>2, <1>3 DEF Attempted, Row, Permanent
  <2>4. Update(row) BY <1>5 DEF AttemptRow
  <2> HIDE DEF row
  <2> QED BY <1>1, <2>2, <2>3, <2>4, SentMail
<1>6. CASE TelegramAccepts
  <2> DEFINE row == [item EXCEPT !.shown = @ + 1]
  <2>1. row \in Row /\ row.error \notin Permanent /\ row.shown = item.shown + 1 /\ row.sent = FALSE
    BY <1>2, <1>3 DEF Row
  <2>2. item.shown < item.attempts BY <1>6 DEF TelegramAccepts, IInv, DeliveryOK, SendingOK
  <2>3. row.shown <= MaxAttempts BY <1>3, <2>1, <2>2, Constants
  <2>4. Update(row) BY <1>6 DEF TelegramAccepts
  <2> HIDE DEF row
  <2> QED BY <1>1, <2>1, <2>3, <2>4, SentMail
<1>7. CASE Sent
  <2> DEFINE row == [item EXCEPT !.sent = TRUE, !.waiting = FALSE, !.error = "none",
                                 !.text = "[DELIVERED]"]
  <2>1. row \in Row /\ row.shown = item.shown /\ row.sent = TRUE
    BY <1>2 DEF Row
  <2>2. item.shown > 0 BY <1>7 DEF Sent, IInv, DeliveryOK, SendingOK
  <2>3. Update(row) BY <1>7 DEF Sent
  <2> HIDE DEF row
  <2> QED BY <1>1, <2>1, <2>2, <2>3, SentMail
<1>8. CASE SendGivenUp
  <2>1. ASSUME NEW e \in Permanent, Update(GiveUp(e)) PROVE Contract!Drop
    <3>1. GiveUp(e) \in Row /\ GiveUp(e).error = e /\ GiveUp(e).shown = item.shown
          /\ GiveUp(e).sent = FALSE
      BY <1>2, <1>3 DEF GiveUp, Row
    <3> QED BY <1>1, <2>1, <3>1, SentMail
  <2> QED BY <1>8, <2>1 DEF SendGivenUp, Permanent
<1>9. CASE SendFailed
  <2> DEFINE row == Retried(item)
  <2>1. row \in Row /\ row.error \notin Permanent /\ row.shown = item.shown /\ row.sent = FALSE
    BY <1>2, <1>3 DEF Retried, Row, Permanent
  <2>2. Update(row) BY <1>9 DEF SendFailed
  <2> HIDE DEF row
  <2> QED BY <1>1, <2>1, <2>2, SentMail
<1> QED BY <1>4, <1>5, <1>6, <1>7, <1>8, <1>9

(* The rows whose last attempt was cut off are dropped together.            *)
LEMMA DrainRefines ==
  ASSUME IInv, drainNotificationOutbox
  PROVE  Contract!Drop
<1> DEFINE gone == {i \in DOMAIN outbox : WasCutOff(outbox[i])}
           After(row) == [row EXCEPT !.error = "RETRY_LIMIT", !.waiting = FALSE]
<1>1. \A i \in DOMAIN outbox : outbox[i] \in Row
  BY RowsInOrder DEF IInv, TypeOK
<1>2. ASSUME NEW row \in Row, WasCutOff(row)
      PROVE  Seen(row).state = "pending" /\ Seen(After(row)) = [Seen(row) EXCEPT !.state = "dropped"]
  BY <1>2 DEF WasCutOff, Seen, Permanent, Row
<1>3. /\ DOMAIN outbox' = DOMAIN outbox
      /\ \A i \in DOMAIN outbox : outbox'[i] = IF i \in gone THEN After(outbox[i]) ELSE outbox[i]
  BY DEF drainNotificationOutbox
<1> HIDE DEF After, Row
<1>4. \A i \in gone : Mail[i].state = "pending" /\ Seen(outbox'[i]) = [Mail[i] EXCEPT !.state = "dropped"]
  BY <1>1, <1>2, <1>3, MailDomain
<1>5. Mail' = [i \in DOMAIN Mail |->
                 IF i \in gone THEN [Mail[i] EXCEPT !.state = "dropped"] ELSE Mail[i]]
  <2>1. Mail' = [i \in DOMAIN outbox' |-> Seen(outbox'[i])] BY DEF Mail, Seen
  <2>2. \A i \in DOMAIN outbox :
          Seen(outbox'[i]) = IF i \in gone THEN [Mail[i] EXCEPT !.state = "dropped"] ELSE Mail[i]
    BY <1>3, <1>4, MailDomain
  <2> HIDE DEF Mail, Seen, gone
  <2> QED BY <1>3, <2>1, <2>2, MailDomain
<1>6. gone \in SUBSET DOMAIN Mail BY MailDomain
<1> HIDE DEF gone, Mail
<1> QED BY <1>4, <1>5, <1>6 DEF Contract!Drop

(* Waiting is no matter of the contract. *)
LEMMA RetryRefines ==
  ASSUME IInv, NEW i \in DOMAIN outbox, RetryDue(i)
  PROVE  UNCHANGED Mail
<1>1. outbox \in Seq(Row) /\ outbox[i] \in Row BY RowsInOrder DEF IInv, TypeOK
<1> DEFINE row == [outbox[i] EXCEPT !.waiting = FALSE]
<1>2. row \in Row /\ Seen(row) = Seen(outbox[i]) BY <1>1 DEF Row, Seen
<1>3. outbox' = [outbox EXCEPT ![i] = row]
  <2> HIDE DEF Row
  <2> QED BY <1>1 DEF RetryDue
<1> HIDE DEF row, Row
<1>4. Mail' = [Mail EXCEPT ![i] = Seen(outbox[i])] BY <1>1, <1>2, <1>3, UpdatedMail
<1> QED BY <1>4 DEF Mail

LEMMA StepRefines ==
  ASSUME IInv, [Next]_vars
  PROVE  [Contract!Next]_(Contract!cvars)
<1> USE DEF Contract!Next, Contract!cvars
<1>0. TypeOK /\ CommandOK /\ DeliveryOK /\ outbox \in Seq(Row) BY DEF IInv, TypeOK
<1>1. CASE UNCHANGED outbox BY <1>1 DEF Mail, Seen
<1>2. CASE \E i \in DOMAIN outbox : RetryDue(i) BY <1>2, RetryRefines
<1>3. CASE IgnoreUpdate \/ RefuseCommand \/ RecordReply BY <1>0, <1>3, PollKeepsRows, QueueStep
<1>4. CASE queueAuditNotifications \/ queueDailySummaries BY <1>0, <1>4, QueueingKeepsRows, QueueStep
<1>5. CASE drainNotificationOutbox BY <1>5, DrainRefines
<1>6. CASE DiscardRow \/ AttemptRow \/ TelegramAccepts \/ Sent \/ SendGivenUp \/ SendFailed
  BY <1>6, SendingRefines
<1> QED BY <1>1, <1>2, <1>3, <1>4, <1>5, <1>6, OutboxSteps

(* The outbox keeps its contract: every message is handed to Telegram at    *)
(* most MAX_DELIVERY_ATTEMPTS times, ends at most once, as delivered only   *)
(* if it was accepted, and is not sent after its end, whatever crashes.     *)
THEOREM OutboxImplements == Spec => ImplementsContract
<1>1. Init => Contract!Init
  <2>1. ASSUME outbox = << >> PROVE Mail = << >> BY <2>1 DEF Mail
  <2> QED BY <2>1 DEF Init, Contract!Init
<1>2. IInv /\ [Next]_vars => [Contract!Next]_(Contract!cvars)
  BY StepRefines
<1> QED BY <1>1, <1>2, Invariance, PTL DEF Spec, ImplementsContract, Contract!Spec

-----------------------------------------------------------------------------
(* Removed chats. *)

LEMMA SendingAsksAllowlist ==
  ASSUME IInv, DiscardRow \/ AttemptRow \/ TelegramAccepts \/ Sent \/ SendGivenUp \/ SendFailed,
         NEW i \in DOMAIN outbox
  PROVE  outbox'[i].shown > outbox[i].shown => outbox[i].chat \in settings.allowed
<1>1. outbox[i] \in Row /\ outbox \in Seq(Row) BY RowsInOrder DEF IInv, TypeOK
<1>2. outbox[i].shown \in Nat BY <1>1 DEF Row
<1>3. CASE i # NextItem
  <2>1. \A row : Update(row) => outbox'[i] = outbox[i]
    <3> HIDE DEF Row, NextItem
    <3> QED BY <1>1, <1>3 DEF Update
  <2>2. \E row : Update(row)
    BY DEF DiscardRow, AttemptRow, TelegramAccepts, Sent, SendGivenUp, SendFailed
  <2> QED BY <1>2, <2>1, <2>2
<1>4. CASE i = NextItem /\ ~DiscardRow
  BY <1>4 DEF AttemptRow, IsTarget, TelegramAccepts, Sent, SendGivenUp, SendFailed, IInv, DeliveryOK, SendingOK
<1>5. CASE i = NextItem /\ DiscardRow
  <2> DEFINE row == [outbox[i] EXCEPT !.error = "NOT_ALLOWLISTED", !.text = "[DISCARDED]"]
  <2>1. row.shown = outbox[i].shown BY <1>1 DEF Row
  <2>2. outbox' = [outbox EXCEPT ![i] = row] BY <1>5 DEF DiscardRow, Update
  <2> HIDE DEF row, Row
  <2>3. outbox'[i] = row BY <1>1, <2>2
  <2> QED BY <1>2, <2>1, <2>3
<1> QED BY <1>3, <1>4, <1>5

LEMMA DrainShowsNothing ==
  ASSUME IInv, drainNotificationOutbox, NEW i \in DOMAIN outbox
  PROVE  outbox'[i].shown = outbox[i].shown
<1>1. outbox[i] \in Row BY RowsInOrder DEF IInv, TypeOK
<1>2. outbox'[i] = IF WasCutOff(outbox[i])
                   THEN [outbox[i] EXCEPT !.error = "RETRY_LIMIT", !.waiting = FALSE] ELSE outbox[i]
  BY DEF drainNotificationOutbox
<1> QED BY <1>1, <1>2 DEF Row

LEMMA RetryShowsNothing ==
  ASSUME IInv, NEW j \in DOMAIN outbox, RetryDue(j), NEW i \in DOMAIN outbox
  PROVE  outbox'[i].shown = outbox[i].shown
<1>1. outbox \in Seq(Row) /\ outbox[j] \in Row BY RowsInOrder DEF IInv, TypeOK
<1>2. [outbox[j] EXCEPT !.waiting = FALSE].shown = outbox[j].shown BY <1>1 DEF Row
<1>3. outbox' = [outbox EXCEPT ![j] = [outbox[j] EXCEPT !.waiting = FALSE]]
  <2> HIDE DEF Row
  <2> QED BY <1>1 DEF RetryDue
<1> HIDE DEF Row
<1> QED BY <1>1, <1>2, <1>3

(* What was queued for a chat that was then removed from the allowlist is   *)
(* never sent.                                                              *)
THEOREM RemovedChats == Spec => RemovedChatsGetNothing
<1> DEFINE Allowed == \A i \in DOMAIN outbox :
                        outbox'[i].shown > outbox[i].shown => outbox[i].chat \in settings.allowed
<1>1. ASSUME IInv, [Next]_vars PROVE Allowed
  <2> SUFFICES ASSUME NEW i \in DOMAIN outbox
               PROVE  outbox'[i].shown > outbox[i].shown => outbox[i].chat \in settings.allowed
    OBVIOUS
  <2>1. outbox[i].shown \in Nat /\ DeliveryOK /\ TypeOK /\ CommandOK
    BY <1>1, RowsInOrder DEF IInv, TypeOK, Row
  <2>2. CASE UNCHANGED outbox BY <2>1, <2>2
  <2>3. CASE \E j \in DOMAIN outbox : RetryDue(j) BY <1>1, <2>1, <2>3, RetryShowsNothing
  <2>4. CASE IgnoreUpdate \/ RefuseCommand \/ RecordReply
    BY <2>1, <2>4, PollKeepsRows DEF RowsAdded
  <2>5. CASE queueAuditNotifications \/ queueDailySummaries
    BY <2>1, <2>5, QueueingKeepsRows DEF RowsAdded
  <2>6. CASE drainNotificationOutbox BY <1>1, <2>1, <2>6, DrainShowsNothing
  <2>7. CASE DiscardRow \/ AttemptRow \/ TelegramAccepts \/ Sent \/ SendGivenUp \/ SendFailed
    BY <1>1, <2>7, SendingAsksAllowlist
  <2> QED BY <1>1, <2>2, <2>3, <2>4, <2>5, <2>6, <2>7, OutboxSteps
<1>2. IInv /\ [Next]_vars => [Allowed]_vars BY <1>1
<1>3. RemovedChatsGetNothing <=> [][Allowed]_vars BY DEF RemovedChatsGetNothing
<1> HIDE DEF Allowed
<1> QED BY <1>2, <1>3, Invariance, PTL DEF Spec

-----------------------------------------------------------------------------
(* Answers. *)

(* The steps that settle an update. *)
LEMMA OffsetSteps ==
  ASSUME [Next]_vars
  PROVE  UNCHANGED offset \/ IgnoreUpdate \/ RefuseCommand \/ RecordReply
BY DEF Next, LoopStep, Outcome, vars, world, store, bounds, UserSends, AuditEvent, HourPasses,
       CooldownPasses, RetryDue, Start, Stop, StepFails, Crash, PollFailed, PollAnswered, SkipStale,
       SendCommand, CommandActs, CommandRefused, UpdatesDone, queueAuditNotifications,
       queueDailySummaries, drainNotificationOutbox, DiscardRow, AttemptRow, TelegramAccepts, Sent,
       SendGivenUp, SendFailed, SendAborted, DrainDone

LEMMA ReplyIsQueued ==
  ASSUME IInv, NEW u \in Nat, inbox[u] \in Chats, NEW text \in Texts,
         Acknowledge(u, {Reply(u, text)})
  PROVE  \E i \in DOMAIN outbox' : outbox'[i].key = <<"reply", u>>
<1>1. outbox \in Seq(Row) /\ Insert({Reply(u, text)}) BY DEF IInv, TypeOK, Acknowledge
<1>2. Reply(u, text) \in Row /\ Reply(u, text).key = <<"reply", u>>
  BY ReplyRow DEF Reply, NewRow
<1> HIDE DEF Row
<1> QED BY <1>1, <1>2, InsertedReply

(* No action is settled without its reply. *)
THEOREM Answers == Spec => ActionsAreAnswered
<1> DEFINE Answer ==
      \A u \in DOMAIN ran :
        offset < u /\ u <= offset' /\ ran[u] > 0 /\ inbox[u] \in settings.allowed =>
          \E i \in DOMAIN outbox' : outbox'[i].key = <<"reply", u>>
<1>1. ASSUME IInv, [Next]_vars PROVE Answer
  <2>1. /\ TypeOK /\ CommandOK /\ offset \in Nat /\ settings.allowed \subseteq Chats
        /\ DOMAIN ran \subseteq Nat /\ Len(inbox) \in Nat
    BY <1>1 DEF IInv, TypeOK
  <2> SUFFICES ASSUME NEW u \in DOMAIN ran, offset < u, u <= offset', inbox[u] \in settings.allowed
               PROVE  \E i \in DOMAIN outbox' : outbox'[i].key = <<"reply", u>>
    OBVIOUS
  <2>2. CASE UNCHANGED offset BY <2>1, <2>2
  <2>3. CASE IgnoreUpdate
    <3>1. PICK v \in loop.todo : Taking(v) /\ ~IsCommand(v) /\ Acknowledge(v, {})
      BY <2>3 DEF IgnoreUpdate
    <3>2. v \in Nat /\ v <= offset + 1 /\ offset' = v
      BY <2>1, <3>1, TakenUpdate DEF Acknowledge
    <3>3. u = v BY <2>1, <3>2
    <3> QED BY <3>1, <3>3 DEF IsCommand
  <2>4. CASE RefuseCommand
    <3>1. PICK v \in loop.todo : Taking(v) /\ Acknowledge(v, {Reply(v, "limited")})
      BY <2>4 DEF RefuseCommand
    <3>2. v \in Nat /\ v <= offset + 1 /\ offset' = v
      BY <2>1, <3>1, TakenUpdate DEF Acknowledge
    <3>3. u = v BY <2>1, <3>2
    <3>4. "limited" \in Texts BY DEF Texts
    <3> QED BY <1>1, <2>1, <3>1, <3>2, <3>3, <3>4, ReplyIsQueued
  <2>5. CASE RecordReply
    <3> DEFINE text == IF loop.at = "reply" THEN "done" ELSE "refused"
    <3>1. NextItem = offset + 1
      BY <2>1, <2>5, FlightUpdate DEF RecordReply, Answered, InFlight
    <3>2. Acknowledge(NextItem, {Reply(NextItem, text)}) /\ offset' = NextItem
      BY <2>5 DEF RecordReply, Acknowledge
    <3>3. u = NextItem /\ u \in Nat BY <2>1, <3>1, <3>2
    <3>4. text \in Texts BY DEF Texts
    <3> HIDE DEF text
    <3> QED BY <1>1, <2>1, <3>2, <3>3, <3>4, ReplyIsQueued
  <2> QED BY <1>1, <2>2, <2>3, <2>4, <2>5, OffsetSteps
<1>2. IInv /\ [Next]_vars => [Answer]_vars BY <1>1
<1>3. ActionsAreAnswered <=> [][Answer]_vars BY DEF ActionsAreAnswered
<1> HIDE DEF Answer
<1> QED BY <1>2, <1>3, Invariance, PTL DEF Spec
=============================================================================
