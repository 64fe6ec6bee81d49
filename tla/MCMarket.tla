------------------------------ MODULE MCMarket ------------------------------
(* The market on a small instance. *)
EXTENDS Market
=============================================================================
