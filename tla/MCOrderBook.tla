---------------------------- MODULE MCOrderBook ----------------------------
(* An instance of OrderBook for TLC. *)
EXTENDS OrderBook, TLC

TaskSymmetry == Permutations(Tasks)
=============================================================================
