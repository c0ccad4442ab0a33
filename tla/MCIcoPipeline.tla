--------------------------- MODULE MCIcoPipeline ---------------------------
(* A small instance of IcoPipeline: the crowdsale and one other contract. *)
EXTENDS IcoPipeline, TLC

CONSTANTS ico, other
=============================================================================
