-------------------------- MODULE DeliveryContract --------------------------
(***************************************************************************)
(* What the Telegram outbox promises of each message, without polls,       *)
(* batches, retries or crashes: once queued it is handed to Telegram at    *)
(* most Limit times, and it ends at most once, as delivered (never without *)
(* having been accepted) or as dropped; after its end nothing is sent.     *)
(***************************************************************************)
EXTENDS Integers, Sequences

CONSTANT Limit

VARIABLE mail   \* in the order of queueing: state and copies accepted

Message == [state : {"pending", "delivered", "dropped"}, copies : 0 .. Limit]
Fresh   == [state |-> "pending", copies |-> 0]

Init == mail = << >>

Queue ==
  /\ mail' \in Seq(Message)
  /\ \A i \in DOMAIN mail : i \in DOMAIN mail' /\ mail'[i] = mail[i]
  /\ \A i \in DOMAIN mail' \ DOMAIN mail : mail'[i] = Fresh

Send ==
  \E i \in DOMAIN mail :
    /\ mail[i].state = "pending" /\ mail[i].copies < Limit
    /\ mail' = [mail EXCEPT ![i].copies = @ + 1]

Confirm ==
  \E i \in DOMAIN mail :
    /\ mail[i].state = "pending" /\ mail[i].copies > 0
    /\ mail' = [mail EXCEPT ![i].state = "delivered"]

Drop ==
  \E gone \in SUBSET DOMAIN mail :
    /\ \A i \in gone : mail[i].state = "pending"
    /\ mail' = [i \in DOMAIN mail |->
                  IF i \in gone THEN [mail[i] EXCEPT !.state = "dropped"] ELSE mail[i]]

Next == Queue \/ Send \/ Confirm \/ Drop

cvars == <<mail>>

Spec == Init /\ [][Next]_cvars
=============================================================================
