---------------------------- MODULE MCRebalance ----------------------------
(* Rebalance for TLC.                                                       *)
EXTENDS Rebalance
=============================================================================
