--------------------------- MODULE PaperContract ---------------------------
(***************************************************************************)
(* What the paper execution service promises of each order, without        *)
(* quotes, transactions, ticks or crashes: its lots flow one way, from     *)
(* unfilled to held to exited, or from unfilled to nothing; the first      *)
(* exit, at TP1, ends the filling; the last exit settles the trade, once.  *)
(***************************************************************************)
EXTENDS Integers

CONSTANTS Orders, Quantity

VARIABLES
  stage,      \* none, live, dead (nothing was ever filled) or settled
  unfilled,   \* lots that may still be filled
  held,       \* lots of the open position
  exited,     \* lots that left the position
  protected   \* TP1 was reached

cvars == <<stage, unfilled, held, exited, protected>>

Init ==
  /\ stage     = [o \in Orders |-> "none"]
  /\ unfilled  = [o \in Orders |-> 0]
  /\ held      = [o \in Orders |-> 0]
  /\ exited    = [o \in Orders |-> 0]
  /\ protected = [o \in Orders |-> FALSE]

Stage(o) ==
  /\ stage[o] = "none"
  /\ stage' = [stage EXCEPT ![o] = "live"]
  /\ unfilled' = [unfilled EXCEPT ![o] = Quantity[o]]
  /\ UNCHANGED <<held, exited, protected>>

Fill(o) ==
  /\ stage[o] = "live" /\ ~protected[o]
  /\ \E lots \in 1 .. unfilled[o] :
       /\ unfilled' = [unfilled EXCEPT ![o] = @ - lots]
       /\ held' = [held EXCEPT ![o] = @ + lots]
  /\ UNCHANGED <<stage, exited, protected>>

(* Expiry, rejection and cancellation leave what is held alone. *)
Abandon(o) ==
  /\ stage[o] = "live" /\ unfilled[o] > 0
  /\ unfilled' = [unfilled EXCEPT ![o] = 0]
  /\ stage' = [stage EXCEPT ![o] = IF held[o] = 0 THEN "dead" ELSE "live"]
  /\ UNCHANGED <<held, exited, protected>>

TakeProfit(o) ==
  /\ stage[o] = "live" /\ ~protected[o] /\ held[o] > 0
  /\ \E lots \in 0 .. held[o] - 1 :
       /\ held' = [held EXCEPT ![o] = @ - lots]
       /\ exited' = [exited EXCEPT ![o] = @ + lots]
  /\ unfilled' = [unfilled EXCEPT ![o] = 0]
  /\ protected' = [protected EXCEPT ![o] = TRUE]
  /\ UNCHANGED stage

Settle(o) ==
  /\ stage[o] = "live" /\ held[o] > 0
  /\ exited' = [exited EXCEPT ![o] = @ + held[o]]
  /\ held' = [held EXCEPT ![o] = 0]
  /\ unfilled' = [unfilled EXCEPT ![o] = 0]
  /\ stage' = [stage EXCEPT ![o] = "settled"]
  /\ UNCHANGED protected

Next == \E o \in Orders : Stage(o) \/ Fill(o) \/ Abandon(o) \/ TakeProfit(o) \/ Settle(o)

Spec == Init /\ [][Next]_cvars
=============================================================================
