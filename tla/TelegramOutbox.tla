--------------------------- MODULE TelegramOutbox ---------------------------
(***************************************************************************)
(* The Telegram bridge (telegram-service.mjs): a loop that polls Telegram  *)
(* for commands, carries each out through the local API under a key        *)
(* derived from the update, queues its reply and the notifications of      *)
(* audit events in an outbox, and sends what is queued.                    *)
(*                                                                         *)
(* The loop and the stop routine are the only users of the outbox, one     *)
(* after the other; audit events, users, the stop request and the end of   *)
(* the process interleave with every await.                                *)
(***************************************************************************)
EXTENDS Integers, Sequences, FiniteSetsExt

CONSTANTS
  Chats,               \* chats that may ever be on the allowlist
  Ignored,             \* sender of an update that is no command
  MaxAttempts,         \* MAX_DELIVERY_ATTEMPTS
  DrainLimit,          \* rows taken by one drain
  QueueLimit,          \* audit events taken by one flush
  SummaryLimit,        \* days summarised by one flush
  HoursPerDay, SummaryHour,
  Environments,        \* what the bridge may be met with: see Environment
  MaxUpdates,          \* bound: updates users send in any environment
  MaxStarts,           \* bound: how often the process is started
  MaxFaults            \* bound: crashes and failing steps

(* owners are the chats that stay on the allowlist; notifications the       *)
(* values of NEXORA_TELEGRAM_NOTIFICATIONS_ENABLED; errors what a send may  *)
(* fail with (see SendGivenUp, SendFailed).  The rest are bounds: updates   *)
(* that users send, the length of the audit at which others stop writing,   *)
(* and the last hour.                                                       *)
Environment ==
  [owners : SUBSET Chats, notifications : SUBSET BOOLEAN, errors : SUBSET {"UNAVAILABLE", "TRANSIENT"},
   updates : 0 .. MaxUpdates, events : Nat, hours : Nat]

ASSUME OutboxAssumption ==
  /\ IsFiniteSet(Chats) /\ Ignored \notin Chats
  /\ Environments \subseteq Environment
  /\ {MaxAttempts, DrainLimit, QueueLimit, SummaryLimit, HoursPerDay} \subseteq Nat \ {0}
  /\ {SummaryHour, MaxUpdates, MaxStarts, MaxFaults} \subseteq Nat

VARIABLES
  inbox,       \* what users sent, by update id
  ran,         \* how often the action of an update was carried out; its key
               \* is in idempotency_keys once it was
  audit,       \* audit_events, by rowid: does the event have a message?
  hour,        \* the clock, in hours
  offset, cursor, summaryDay,   \* app_state
  connected,   \* app_state telegram.status is CONNECTED
  outbox,      \* telegram_notification_outbox, by id
  loop,        \* where the loop is; see Loop
  recent,      \* commandLastAt: the last command of a chat, within the cooldown
  settings,    \* of this process: allowed chats, notifications
  starts, faults,
  env          \* the environment of this behaviour

world  == <<inbox, ran, audit, hour>>
store  == <<offset, cursor, summaryDay, connected, outbox>>
bounds == <<starts, faults, env>>
vars   == <<world, store, loop, recent, settings, bounds>>

-----------------------------------------------------------------------------
(* Rows of the outbox.  "shown" is no column: how often Telegram accepted   *)
(* the message.  "waiting" means that retry_after_at is in the future.      *)

Texts     == {"done", "refused", "limited", "notice"}
Permanent == {"UNAVAILABLE", "NOT_ALLOWLISTED", "RETRY_LIMIT"}

NewRow(key, chat, text) ==
  [key |-> key, chat |-> chat, text |-> text, attempts |-> 0, sent |-> FALSE,
   error |-> "none", waiting |-> FALSE, shown |-> 0]

Ended(row)  == row.sent \/ row.error \in Permanent
IsQueued(key, chat) == \E i \in DOMAIN outbox : outbox[i].key = key /\ outbox[i].chat = chat

(* INSERT OR IGNORE of a set of rows, in some order.                        *)
Insert(rows) ==
  LET new == {r \in rows : ~IsQueued(r.key, r.chat)}
  IN  \E added \in [1 .. Cardinality(new) -> new] :
        /\ \A i, j \in DOMAIN added : i # j => added[i] # added[j]
        /\ outbox' = outbox \o added

-----------------------------------------------------------------------------
(* "run" tells the three drains apart: after a poll, after the queueing of  *)
(* a flush, and of the last flush, which the stop signal does not reach.    *)
Loop ==
  [at : {"down", "poll", "updates", "command", "reply", "refused", "queue",
         "summaries", "drain", "deliver", "sending"},
   run : {"poll", "flush", "final"}, todo : SUBSET Nat,
   stopping : BOOLEAN, accepted : BOOLEAN]

Down     == [at |-> "down", run |-> "poll", todo |-> {}, stopping |-> FALSE, accepted |-> FALSE]
Go(at)   == loop' = [loop EXCEPT !.at = at]
Begin    == [loop EXCEPT !.at = "poll", !.run = "poll", !.todo = {}, !.accepted = FALSE]
LastFlush == [loop EXCEPT !.at = "queue", !.run = "final", !.todo = {}, !.accepted = FALSE]
Aborted  == loop.stopping /\ loop.run # "final"
(* Mutant: the batch is not sorted. *)
Unsorted == Max(loop.todo)
NextItem == Min(loop.todo)
Rest     == loop.todo \ {NextItem}
Answered == loop.at \in {"reply", "refused"}

Init ==
  /\ env \in Environments
  /\ inbox = << >> /\ audit = << >> /\ hour = HoursPerDay
  /\ ran = [u \in 1 .. MaxUpdates |-> 0]
  /\ offset = 0 /\ cursor = -1 /\ summaryDay = -1 /\ connected = FALSE
  /\ outbox = << >>
  /\ loop = Down
  /\ recent = [c \in Chats |-> 0]
  /\ settings = [allowed |-> env.owners, notifications |-> FALSE]
  /\ starts = 0 /\ faults = 0

-----------------------------------------------------------------------------
(* The world. *)

UserSends(sender) ==
  /\ Len(inbox) < env.updates
  /\ inbox' = Append(inbox, sender)
  /\ UNCHANGED <<ran, audit, hour, store, loop, recent, settings, bounds>>

AuditEvent(kind) ==
  /\ loop.at # "down" /\ Len(audit) < env.events
  /\ audit' = Append(audit, kind)
  /\ UNCHANGED <<inbox, ran, hour, store, loop, recent, settings, bounds>>

HourPasses ==
  /\ hour < env.hours
  /\ hour' = hour + 1
  /\ UNCHANGED <<inbox, ran, audit, store, loop, recent, settings, bounds>>

CooldownPasses(c) ==
  /\ recent[c] # 0
  /\ recent' = [recent EXCEPT ![c] = 0]
  /\ UNCHANGED <<world, store, loop, settings, bounds>>

RetryDue(i) ==
  /\ outbox[i].waiting
  /\ outbox' = [outbox EXCEPT ![i].waiting = FALSE]
  /\ UNCHANGED <<world, offset, cursor, summaryDay, connected, loop, recent, settings, bounds>>

-----------------------------------------------------------------------------
(* Start, stop and failure. *)

(* A status left at CONNECTED tells of a process that did not stop cleanly. *)
Start ==
  /\ loop.at = "down" /\ starts < MaxStarts
  /\ starts' = starts + 1
  /\ settings' \in [allowed : {A \in SUBSET Chats : env.owners \subseteq A},
                    notifications : env.notifications]
  /\ cursor' = IF settings'.notifications /\ cursor = -1 THEN Len(audit) ELSE cursor
  /\ audit' = IF ~settings'.notifications THEN audit
              ELSE audit \o (IF connected THEN <<"notify", "notify">> ELSE <<"notify">>)
  /\ connected' = FALSE
  /\ loop' = Begin
  /\ recent' = [c \in Chats |-> 0]
  /\ UNCHANGED <<inbox, ran, hour, offset, summaryDay, outbox, faults, env>>

Stop ==
  /\ loop.at # "down" /\ ~loop.stopping
  /\ loop' = [loop EXCEPT !.stopping = TRUE]
  /\ audit' = IF settings.notifications THEN Append(audit, "notify") ELSE audit
  /\ UNCHANGED <<inbox, ran, hour, store, recent, settings, bounds>>

(* The loop's catch sleeps and polls again, or gives way to the stop        *)
(* routine; the stop routine's own catch ends it.                           *)
AfterError ==
  /\ loop' = IF loop.run = "final" THEN Down ELSE IF loop.stopping THEN LastFlush ELSE Begin
  /\ connected' = (connected /\ Aborted)

(* The request to the local API, or a transaction, fails; rolled back.  A   *)
(* command that had been answered counts for the cooldown.                  *)
StepFails ==
  /\ loop.at \in {"updates", "command", "reply", "refused", "queue", "summaries", "drain", "deliver"}
  /\ faults < MaxFaults
  /\ faults' = faults + 1
  /\ AfterError
  /\ recent' \in {recent} \cup
       (IF Answered THEN {[recent EXCEPT ![inbox[NextItem]] = NextItem]} ELSE {})
  /\ UNCHANGED <<world, offset, cursor, summaryDay, outbox, settings, starts, env>>

Crash ==
  /\ loop.at # "down" /\ faults < MaxFaults
  /\ faults' = faults + 1
  /\ loop' = Down
  /\ UNCHANGED <<world, store, recent, settings, starts, env>>

-----------------------------------------------------------------------------
(* Polling and commands (pollOnce, processUpdate, handleTelegramCommand).   *)

(* Telegram answers with the updates from offset + 1; an answer that        *)
(* repeats older ones is tolerated.                                         *)
PollAnswered ==
  /\ loop.at = "poll" /\ ~loop.stopping
  /\ \E first \in {1, offset + 1} :
       loop' = [loop EXCEPT !.at = "updates", !.todo = first .. Len(inbox)]
  /\ UNCHANGED <<world, store, recent, settings, bounds>>

PollFailed ==
  /\ loop.at = "poll"
  /\ AfterError
  /\ UNCHANGED <<world, offset, cursor, summaryDay, outbox, recent, settings, bounds>>

Taking(u) == loop.at = "updates" /\ loop.todo # {} /\ u = NextItem

IsStale(u)   == u <= offset
IsCommand(u) == inbox[u] \in settings.allowed

(* Mutant: the cooldown also counts for the update that started it. *)
AnyRecent(u)     == recent[inbox[u]] # 0
IsRateLimited(u) == recent[inbox[u]] \notin {0, u}

SkipStale ==
  /\ \E u \in loop.todo : Taking(u) /\ IsStale(u)
  /\ loop' = [loop EXCEPT !.todo = Rest]
  /\ UNCHANGED <<world, store, recent, settings, bounds>>

(* Mutants: the reply is not queued; the offset moves only with a reply.    *)
AcknowledgeUnanswered(u, replies) ==
  /\ offset' = u
  /\ loop' = [loop EXCEPT !.at = "updates", !.todo = Rest]
  /\ UNCHANGED <<cursor, summaryDay, connected, outbox>>
AcknowledgeReplies(u, replies) ==
  /\ Insert(replies)
  /\ offset' = IF replies = {} THEN offset ELSE u
  /\ loop' = [loop EXCEPT !.at = "updates", !.todo = Rest]
  /\ UNCHANGED <<cursor, summaryDay, connected>>

(* The reply, if any, and the offset in one transaction. *)
Acknowledge(u, replies) ==
  /\ Insert(replies)
  /\ offset' = u
  /\ loop' = [loop EXCEPT !.at = "updates", !.todo = Rest]
  /\ UNCHANGED <<cursor, summaryDay, connected>>

Reply(u, text) == NewRow(<<"reply", u>>, inbox[u], text)

IgnoreUpdate ==
  /\ \E u \in loop.todo : Taking(u) /\ ~IsStale(u) /\ ~IsCommand(u) /\ Acknowledge(u, {})
  /\ UNCHANGED <<world, recent, settings, bounds>>

RefuseCommand ==
  /\ \E u \in loop.todo :
       /\ Taking(u) /\ ~IsStale(u) /\ IsCommand(u)
       /\ IsRateLimited(u)
       /\ Acknowledge(u, {Reply(u, "limited")})
  /\ UNCHANGED <<world, recent, settings, bounds>>

SendCommand ==
  /\ \E u \in loop.todo : Taking(u) /\ ~IsStale(u) /\ IsCommand(u) /\ ~IsRateLimited(u)
  /\ Go("command")
  /\ UNCHANGED <<world, store, recent, settings, bounds>>

(* Mutant: the key is not looked up. *)
EveryKeyIsNew(u) == TRUE
KeyIsNew(u) == ran[u] = 0

(* runIdempotent: the action and its audit event commit with the key; a     *)
(* known key returns the stored answer.                                     *)
CommandActs ==
  /\ loop.at = "command"
  /\ IF KeyIsNew(NextItem)
     THEN ran' = [ran EXCEPT ![NextItem] = @ + 1] /\ audit' = Append(audit, "notify")
     ELSE UNCHANGED <<ran, audit>>
  /\ Go("reply")
  /\ UNCHANGED <<inbox, hour, store, recent, settings, bounds>>

(* Any error of the action, and any command that is malformed or only reads, *)
(* is answered too; nothing was carried out by this request.                *)
CommandRefused ==
  /\ loop.at = "command"
  /\ Go("refused")
  /\ UNCHANGED <<world, store, recent, settings, bounds>>

RecordReply ==
  /\ Answered
  /\ recent' = [recent EXCEPT ![inbox[NextItem]] = NextItem]
  /\ Acknowledge(NextItem, {Reply(NextItem, IF loop.at = "reply" THEN "done" ELSE "refused")})
  /\ UNCHANGED <<world, settings, bounds>>

UpdatesDone ==
  /\ loop.at = "updates" /\ loop.todo = {}
  /\ Go("drain")
  /\ UNCHANGED <<world, store, recent, settings, bounds>>

-----------------------------------------------------------------------------
(* Queueing notifications (flushNotifications). *)

Notices(keys) == {NewRow(k, c, "notice") : k \in keys, c \in settings.allowed}

(* Mutants: the cursor moves to the end of the audit, or beyond. *)
LatestEvent == Len(audit)
Overshoot   == cursor + QueueLimit
LastTaken   == Min({Len(audit), cursor + QueueLimit})

queueAuditNotifications ==
  /\ loop.at = "queue"
  /\ Go("summaries")
  /\ IF settings.notifications
     THEN /\ Insert(Notices({<<"audit", e>> :
                 e \in {n \in cursor + 1 .. Min({Len(audit), cursor + QueueLimit}) : audit[n] = "notify"}}))
          /\ cursor' = LastTaken
     ELSE UNCHANGED <<outbox, cursor>>
  /\ UNCHANGED <<world, offset, summaryDay, connected, recent, settings, bounds>>

(* The completed days that have no summary yet; the first time, yesterday.  *)
Yesterday == (hour \div HoursPerDay) - 1
DaysDue ==
  IF   summaryDay = -1 THEN {Yesterday}
  ELSE summaryDay + 1 .. Min({Yesterday, summaryDay + SummaryLimit})

queueDailySummaries ==
  /\ loop.at = "summaries"
  /\ Go("drain")
  /\ IF settings.notifications /\ hour % HoursPerDay >= SummaryHour /\ DaysDue # {}
     THEN Insert(Notices({<<"day", d>> : d \in DaysDue})) /\ summaryDay' = Max(DaysDue)
     ELSE UNCHANGED <<outbox, summaryDay>>
  /\ UNCHANGED <<world, offset, cursor, connected, recent, settings, bounds>>

-----------------------------------------------------------------------------
(* Sending (drainNotificationOutbox). *)

(* Mutants: the attempts are not limited; a row that failed once is stuck.  *)
DueForever(row) ==
  /\ ~row.sent /\ row.error \notin Permanent /\ ~row.waiting
  /\ settings.notifications \/ row.key[1] = "reply"
DueIfFresh(row) ==
  /\ ~row.sent /\ row.error = "none" /\ row.attempts < MaxAttempts /\ ~row.waiting
  /\ settings.notifications \/ row.key[1] = "reply"
IsDue(row) ==
  /\ ~row.sent /\ row.error \notin Permanent /\ row.attempts < MaxAttempts /\ ~row.waiting
  /\ settings.notifications \/ row.key[1] = "reply"

(* The last attempt of a row was cut off by the end of the process.         *)
WasCutOff(row) == ~row.sent /\ row.attempts >= MaxAttempts /\ row.error = "none"

drainNotificationOutbox ==
  LET due == {i \in DOMAIN outbox : IsDue(outbox[i])}
  IN  /\ loop.at = "drain"
      /\ outbox' = [i \in DOMAIN outbox |->
                      IF WasCutOff(outbox[i])
                      THEN [outbox[i] EXCEPT !.error = "RETRY_LIMIT", !.waiting = FALSE]
                      ELSE outbox[i]]
      /\ loop' = [loop EXCEPT !.at = "deliver",
                    !.todo = {i \in due : Cardinality({j \in due : j < i}) < DrainLimit}]
      /\ UNCHANGED <<world, offset, cursor, summaryDay, connected, recent, settings, bounds>>

Update(row) == outbox' = [outbox EXCEPT ![NextItem] = row]
GiveUp(error) == [outbox[NextItem] EXCEPT !.error = error, !.waiting = FALSE, !.text = "[DISCARDED]"]

(* Mutant: the allowlist is not asked again. *)
AnyTarget(row) == TRUE
IsTarget(row) == row.chat \in settings.allowed

DiscardRow ==
  /\ loop.at = "deliver" /\ loop.todo # {} /\ ~IsTarget(outbox[NextItem])
  /\ Update([outbox[NextItem] EXCEPT !.error = "NOT_ALLOWLISTED", !.text = "[DISCARDED]"])
  /\ loop' = [loop EXCEPT !.todo = Rest]
  /\ UNCHANGED <<world, offset, cursor, summaryDay, connected, recent, settings, bounds>>

(* Mutant: an attempt is counted only when it has failed. *)
Uncounted(row) == [row EXCEPT !.error = "none"]
Attempted(row) == [row EXCEPT !.attempts = @ + 1, !.error = "none"]

AttemptRow ==
  /\ loop.at = "deliver" /\ loop.todo # {} /\ IsTarget(outbox[NextItem])
  /\ Update(Attempted(outbox[NextItem]))
  /\ loop' = [loop EXCEPT !.at = "sending", !.accepted = FALSE]
  /\ UNCHANGED <<world, offset, cursor, summaryDay, connected, recent, settings, bounds>>

TelegramAccepts ==
  /\ loop.at = "sending" /\ ~loop.accepted /\ ~Aborted
  /\ Update([outbox[NextItem] EXCEPT !.shown = @ + 1])
  /\ loop' = [loop EXCEPT !.accepted = TRUE]
  /\ UNCHANGED <<world, offset, cursor, summaryDay, connected, recent, settings, bounds>>

Resume(todo) == loop' = [loop EXCEPT !.at = "deliver", !.todo = todo, !.accepted = FALSE]

Sent ==
  /\ loop.at = "sending" /\ loop.accepted
  /\ Update([outbox[NextItem] EXCEPT !.sent = TRUE, !.waiting = FALSE, !.error = "none",
                                  !.text = "[DELIVERED]"])
  /\ Resume(Rest)
  /\ UNCHANGED <<world, offset, cursor, summaryDay, connected, recent, settings, bounds>>

(* Telegram refuses the recipient, or the budget of attempts is used up.    *)
SendGivenUp ==
  /\ loop.at = "sending" /\ ~Aborted
  /\ \/ "UNAVAILABLE" \in env.errors /\ ~loop.accepted /\ Update(GiveUp("UNAVAILABLE"))
     \/ "TRANSIENT" \in env.errors /\ outbox[NextItem].attempts >= MaxAttempts /\ Update(GiveUp("RETRY_LIMIT"))
  /\ Resume(Rest)
  /\ UNCHANGED <<world, offset, cursor, summaryDay, connected, recent, settings, bounds>>

(* Mutant: a failed message is discarded at once. *)
DiscardedRetry(row) == [row EXCEPT !.error = "TRANSIENT", !.waiting = TRUE, !.text = "[DISCARDED]"]
Retried(row) == [row EXCEPT !.error = "TRANSIENT", !.waiting = TRUE]

(* Rate limit, error or time-out (accepted or not): later, and the drain    *)
(* ends here.                                                               *)
SendFailed ==
  /\ loop.at = "sending" /\ ~Aborted /\ "TRANSIENT" \in env.errors
  /\ outbox[NextItem].attempts < MaxAttempts
  /\ Update(Retried(outbox[NextItem]))
  /\ connected' = FALSE
  /\ Resume({})
  /\ UNCHANGED <<world, offset, cursor, summaryDay, recent, settings, bounds>>

SendAborted ==
  /\ loop.at = "sending" /\ Aborted
  /\ loop' = LastFlush
  /\ UNCHANGED <<world, store, recent, settings, bounds>>

DrainDone ==
  /\ loop.at = "deliver" /\ loop.todo = {}
  /\ \/ /\ loop.run = "poll"
        /\ connected' = ~\E i \in DOMAIN outbox : ~outbox[i].sent /\ outbox[i].error = "TRANSIENT"
        /\ loop' = [loop EXCEPT !.at = "queue", !.run = "flush"]
     \/ /\ loop.run = "flush"
        /\ loop' = IF loop.stopping THEN LastFlush ELSE Begin
        /\ UNCHANGED connected
     \/ /\ loop.run = "final"
        /\ loop' = Down
        /\ connected' = FALSE
  /\ UNCHANGED <<world, offset, cursor, summaryDay, outbox, recent, settings, bounds>>

-----------------------------------------------------------------------------
Outcome == Sent \/ SendGivenUp \/ SendFailed \/ SendAborted

LoopStep ==
  \/ PollAnswered \/ SkipStale \/ IgnoreUpdate \/ RefuseCommand
  \/ SendCommand \/ CommandActs \/ CommandRefused \/ RecordReply \/ UpdatesDone
  \/ queueAuditNotifications \/ queueDailySummaries
  \/ drainNotificationOutbox \/ DiscardRow \/ AttemptRow \/ Outcome \/ DrainDone

Next ==
  \/ \E sender \in Chats \cup {Ignored} : UserSends(sender)
  \/ \E kind \in {"notify", "silent"} : AuditEvent(kind)
  \/ HourPasses
  \/ \E c \in Chats : CooldownPasses(c)
  \/ \E i \in DOMAIN outbox : RetryDue(i)
  \/ Start \/ Stop \/ StepFails \/ Crash
  \/ LoopStep \/ PollFailed \/ TelegramAccepts

Spec == Init /\ [][Next]_vars

(* Every await of the loop has a time-out or is aborted by the stop, a poll *)
(* is answered at last, and a reply that waits comes due.                   *)
Fairness ==
  /\ WF_vars(LoopStep \/ (loop.stopping /\ PollFailed))
  /\ WF_vars(\E i \in DOMAIN outbox : outbox[i].key[1] = "reply" /\ RetryDue(i))

FairSpec == Spec /\ Fairness

-----------------------------------------------------------------------------
(* Properties. *)

Keys == {"reply", "audit", "day"} \X Int
Row ==
  [key : Keys, chat : Chats, text : Texts \cup {"[DELIVERED]", "[DISCARDED]"},
   attempts : 0 .. MaxAttempts, sent : BOOLEAN,
   error : Permanent \cup {"none", "TRANSIENT"}, waiting : BOOLEAN, shown : Nat]

(* Types; no row is attempted more often than MAX_DELIVERY_ATTEMPTS.        *)
TypeOK ==
  /\ inbox \in Seq(Chats \cup {Ignored}) /\ audit \in Seq({"notify", "silent"}) /\ hour \in Nat
  /\ ran \in [1 .. MaxUpdates -> Nat]
  /\ offset \in 0 .. Len(inbox) /\ cursor \in -1 .. Len(audit) /\ summaryDay \in Int
  /\ connected \in BOOLEAN
  /\ outbox \in Seq(Row)
  /\ loop \in Loop
  /\ recent \in [Chats -> 0 .. MaxUpdates]
  /\ settings \in [allowed : SUBSET Chats, notifications : BOOLEAN]
  /\ starts \in Nat /\ faults \in Nat /\ env \in Environments

(* A command acts at most once, however often Telegram redelivers its       *)
(* update and wherever the process died in between.                         *)
ActsAtMostOnce == \A u \in DOMAIN ran : ran[u] <= 1

(* Commands act in the order in which they were sent: none acts before all  *)
(* earlier ones are settled (a pause must not overtake a resume).           *)
CommandsInOrder ==
  \A u, v \in DOMAIN ran : u < v /\ ran[v] > 0 => u <= offset

(* A reply tells the truth: "done" of an action that ran once, "limited" of *)
(* one that never ran, in this process or before it.                        *)
RepliesAreTrue ==
  \A i \in DOMAIN outbox :
    outbox[i].key[1] = "reply" =>
      LET u == outbox[i].key[2]
      IN  /\ outbox[i].text = "done" => ran[u] = 1
          /\ outbox[i].text = "limited" => ran[u] = 0

(* What was done is answered: the offset passes a command that acted, in    *)
(* this process or before it, only when its reply is in the outbox (unless  *)
(* its chat was removed meanwhile).                                         *)
ActionsAreAnswered ==
  [][ \A u \in DOMAIN ran :
        offset < u /\ u <= offset' /\ ran[u] > 0 /\ inbox[u] \in settings.allowed =>
          \E i \in DOMAIN outbox' : outbox'[i].key = <<"reply", u>> ]_vars

(* Once notifications began, no event and no day is left out, whatever      *)
(* crashed and however many piled up: between the first that an owner of    *)
(* the bridge was queued and the cursor there is no gap.                    *)
NothingSkipped ==
  \A c \in env.owners :
    /\ \A e, f \in 1 .. cursor :
         e < f /\ audit[f] = "notify" /\ IsQueued(<<"audit", e>>, c) => IsQueued(<<"audit", f>>, c)
    /\ \A d, e \in 0 .. summaryDay :
         d < e /\ IsQueued(<<"day", d>>, c) => IsQueued(<<"day", e>>, c)

(* A chat that was removed from the allowlist is sent nothing, not even     *)
(* what was queued for it before.                                           *)
RemovedChatsGetNothing ==
  [][ \A i \in DOMAIN outbox :
        outbox'[i].shown > outbox[i].shown => outbox[i].chat \in settings.allowed ]_vars

(* A message that can still be sent has its text. *)
PendingKeepsText ==
  \A i \in DOMAIN outbox : ~Ended(outbox[i]) => outbox[i].text \in Texts

(* ADR-002: the text of a message that ended, delivered or given up, is     *)
(* gone.                                                                    *)
EndedTextIsGone ==
  \A i \in DOMAIN outbox : Ended(outbox[i]) => outbox[i].text \in {"[DELIVERED]", "[DISCARDED]"}

(* Unless the bridge goes down first, every update is settled, and every    *)
(* reply ends, delivered or given up; users send MaxUpdates, so that at     *)
(* last there is none left.                                                 *)
IsDown == loop.at = "down"
ReplyIsOwed == \E i \in DOMAIN outbox : outbox[i].key[1] = "reply" /\ ~Ended(outbox[i])
UpdatesAreSettled == (offset < Len(inbox)) ~> (offset = Len(inbox) \/ IsDown)
RepliesEnd == ReplyIsOwed ~> (~ReplyIsOwed \/ IsDown)

-----------------------------------------------------------------------------
(* The outbox as a contract between its users. *)
Seen(row) ==
  [state  |-> IF row.sent THEN "delivered"
              ELSE IF row.error \in Permanent THEN "dropped" ELSE "pending",
   copies |-> row.shown]
Mail == [i \in DOMAIN outbox |-> Seen(outbox[i])]

Contract == INSTANCE DeliveryContract WITH Limit <- MaxAttempts, mail <- Mail

(* Every step of the service is a step of the contract, or invisible to it. *)
ImplementsContract == Contract!Spec
=============================================================================
