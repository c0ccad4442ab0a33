----------------------------- MODULE MCPayments -----------------------------
(* Small instances of Payments, with the symmetry of their contracts and     *)
(* deposits.                                                                 *)
EXTENDS Payments, TLC

ContractsAndTxs == Permutations(Contracts) \cup Permutations(Txs)
=============================================================================
