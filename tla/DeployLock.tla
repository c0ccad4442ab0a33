----------------------------- MODULE DeployLock -----------------------------
(***************************************************************************)
(* The lock of a network's deployment address: the column locked_by of the *)
(* row of DeployAddress that belongs to the network.  Every operation of   *)
(* lastwill/contracts/decorators.py on it is one UPDATE statement inside   *)
(* transaction.atomic(), so each is a function from the old value of the   *)
(* column to the new one.                                                  *)
(***************************************************************************)

CONSTANTS
  Contracts,  \* the contracts of the network, by Contract.id
  NoOne       \* NULL in locked_by

ASSUME NoOneIsNotAContract == NoOne \notin Contracts

LockValues == Contracts \cup {NoOne}

(***************************************************************************)
(* @blocking: the UPDATE sets locked_by to c in the rows that are free or  *)
(* already c's.  When another contract holds the address it matches no row *)
(* and says nothing, and the decorated function runs all the same.         *)
(***************************************************************************)
Blocking(lock, c) == IF lock \in {NoOne, c} THEN c ELSE lock

\* Seeded bug: the filter of the UPDATE matches no row.
TakeOffNothing(lock, c) == lock

(***************************************************************************)
(* take_off_blocking(network, contract_id=c): releases c's own lock only.  *)
(***************************************************************************)
TakeOffFor(lock, c) == IF lock = c THEN NoOne ELSE lock

\* Seeded bug: 0 in place of NULL.
TakeOffToZero == 0

(***************************************************************************)
(* take_off_blocking(network): releases the address whoever holds it.      *)
(***************************************************************************)
TakeOff == NoOne
=============================================================================
