---- MODULE MCContractLife ----
(***************************************************************************)
(* One contract of each kind, with two tokens, entries and parties.        *)
(***************************************************************************)
EXTENDS ContractLife, TLC
CONSTANTS this, a, b
====
