-------------------------- MODULE MCTelegramOutbox --------------------------
(***************************************************************************)
(* Small instances of TelegramOutbox for TLC.                              *)
(***************************************************************************)
EXTENDS TelegramOutbox

CONSTANT ann

(* Commands of users, notifications off, replies that may have to be sent   *)
(* again; chats may be removed from the allowlist.                          *)
Commands ==
  [owners |-> {}, notifications |-> {FALSE}, errors |-> {"TRANSIENT"},
   updates |-> 2, events |-> 0, hours |-> 1]

(* One command, with everything that may become of its reply.               *)
OneCommand == [Commands EXCEPT !.updates = 1, !.errors = {"UNAVAILABLE", "TRANSIENT"}]

(* Events and days to notify of, more than one flush takes; no commands.    *)
Events ==
  [owners |-> {ann}, notifications |-> {TRUE}, errors |-> {},
   updates |-> 0, events |-> 2, hours |-> 2]

CommandsAndEvents == {Commands, OneCommand, Events}
OnlyOneCommand == {OneCommand}
=============================================================================
