----------------------------- MODULE MCMarketFeed -----------------------------
(***************************************************************************)
(* Small instances of MarketFeed for TLC.                                  *)
(***************************************************************************)
EXTENDS MarketFeed

CONSTANTS gold, euro

(* The delay doubles with every failure in a row. *)
Doubling == <<1, 2, 3>>
===============================================================================
