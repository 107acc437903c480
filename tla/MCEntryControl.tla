---------------------------- MODULE MCEntryControl ----------------------------
(***************************************************************************)
(* What varies in a behaviour of EntryControl: the drawdown, the loss of   *)
(* the day, or the events and the answers of the calendar; the three meet  *)
(* in the scan only.                                                       *)
(***************************************************************************)
EXTENDS EntryControl

OneByOne == {{"drawdown"}, {"loss", "manual"}, {"events", "calendar"}}

OnlyLosses == {{"loss"}}
===============================================================================
