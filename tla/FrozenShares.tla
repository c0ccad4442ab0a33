----------------------------- MODULE FrozenShares -----------------------------
(***************************************************************************)
(* The share of every payment that is put aside and sent to cold accounts: *)
(* freeze_payments adds it to the one row of FreezeBalance, and a daemon   *)
(* wakes every ten minutes, sends what has become enough and saves the row *)
(* it had read.                                                            *)
(*                                                                         *)
(* Left out: the rates, and the mail after a hundred failures; a mail that *)
(* raises ends the daemon, which Dies does anywhere.  A transfer counts as *)
(* sent when the network has taken it.                                     *)
(***************************************************************************)
EXTENDS Naturals

CONSTANTS
  Amounts,    \* the shares of one payment, in the smallest units
  Threshold,  \* the FREEZE_THRESHOLDs of the settings
  WholeEosish,  \* the units of one whole EOSISH
  MaxShares,  \* bound: payments
  MaxMishaps  \* bound: answers or saves that are lost, deaths

ASSUME SharesAssumption ==
  /\ Amounts \subseteq Nat /\ MaxShares \in Nat /\ MaxMishaps \in Nat
  /\ WholeEosish \in Nat \ {0} /\ Threshold \in Nat /\ Threshold >= WholeEosish

VARIABLES
  frozen,      \* the columns of FreezeBalance
  copy,        \* the row as the daemon holds it
  check,       \* the currency check_payments is at
  moved,       \* it has sent that one and not saved yet
  put,         \* history: what was put aside of each currency
  sent,        \* history: what was sent to the cold accounts
  fresh,       \* a share was put aside since the row was read or saved
  overwritten, \* history: a fresh share was there when the copy was saved
  unsaved,     \* history: something was sent that the daemon has not saved
  shares,      \* the number of payments, up to MaxShares
  mishaps      \* the number of mishaps, up to MaxMishaps

shareVars == <<frozen, copy, check, moved, put, sent, fresh, overwritten, unsaved,
               shares, mishaps>>

\* WISH is put aside, but the sending of it is commented out.
Currencies == {"eosish", "wish", "tronish", "bwish"}
Frozen     == {"eosish", "tronish", "bwish"}
NoShare    == [c \in Currencies |-> 0]

ShareTypeOK ==
  /\ frozen \in [Currencies -> Nat] /\ copy \in [Currencies -> Nat]
  /\ put \in [Currencies -> Nat] /\ sent \in [Currencies -> Nat]
  /\ check \in Frozen \cup {"asleep"}
  /\ moved \in BOOLEAN /\ fresh \in BOOLEAN
  /\ overwritten \in BOOLEAN /\ unsaved \in BOOLEAN
  /\ shares \in 0..MaxShares /\ mishaps \in 0..MaxMishaps

ShareInit ==
  /\ frozen = NoShare /\ copy = NoShare /\ put = NoShare /\ sent = NoShare
  /\ check = "asleep" /\ moved = FALSE /\ fresh = FALSE
  /\ overwritten = FALSE /\ unsaved = FALSE
  /\ shares = 0 /\ mishaps = 0

\* The currencies of a payment for a contract of the network.
SharesOf(network) ==
  CASE network = "EOS_MAINNET"  -> {"eosish"}
    [] network = "TRON_MAINNET" -> {"tronish", "wish"}
    [] OTHER                    -> {"bwish"}

Plus(columns, n, cs) ==
  [c \in Currencies |-> IF c \in cs THEN columns[c] + n ELSE columns[c]]

\* UPDATEs that add to the columns, all in negative_payment's transaction.
freeze_payments ==
  \E network \in {"EOS_MAINNET", "TRON_MAINNET", "other"}, n \in Amounts :
    /\ shares < MaxShares
    /\ shares' = shares + 1
    /\ frozen' = Plus(frozen, n, SharesOf(network))
    /\ put' = Plus(put, n, SharesOf(network))
    /\ fresh' = TRUE
    /\ UNCHANGED <<copy, check, moved, sent, overwritten, unsaved, mishaps>>

CheckWakes ==
  /\ check = "asleep"
  /\ check' = "eosish" /\ copy' = frozen /\ fresh' = FALSE
  /\ UNCHANGED <<frozen, moved, put, sent, overwritten, unsaved, shares, mishaps>>

Enough(c) == IF c = "tronish" THEN copy[c] >= Threshold ELSE copy[c] > Threshold

\* What is sent: whole EOSISH, a fixed sum of TRONISH, all BWISH.
Sum(c) ==
  CASE c = "eosish"  -> copy[c] - (copy[c] % WholeEosish)
    [] c = "tronish" -> Threshold
    [] OTHER         -> copy[c]

\* Seeded bug: TRONISH is set to zero as the others are.
LeftNothing(c) == 0

\* What is left in the row then; the rest of an EOSISH is dropped.
Left(c) == IF c = "tronish" THEN copy[c] - Threshold ELSE 0

GoesOn(c) ==
  /\ check' = CASE c = "eosish"  -> "tronish"
                [] c = "tronish" -> "bwish"
                [] OTHER         -> "asleep"
  /\ moved' = FALSE

NotEnough(c) ==
  /\ check = c /\ ~moved /\ ~Enough(c)
  /\ GoesOn(c)
  /\ UNCHANGED <<frozen, copy, put, sent, fresh, overwritten, unsaved, shares, mishaps>>

Sends(c) == sent' = [sent EXCEPT ![c] = @ + Sum(c)]

\* The node or cleos answers.
Freezes(c) ==
  /\ check = c /\ ~moved /\ Enough(c)
  /\ Sends(c)
  /\ copy' = [copy EXCEPT ![c] = Left(c)]
  /\ moved' = TRUE
  /\ UNCHANGED <<frozen, check, put, fresh, overwritten, unsaved, shares, mishaps>>

\* An exception, after EOS_ATTEMPTS_COUNT calls of cleos, and nothing was sent.
Refused(c) ==
  /\ check = c /\ ~moved /\ Enough(c)
  /\ GoesOn(c)
  /\ UNCHANGED <<frozen, copy, put, sent, fresh, overwritten, unsaved, shares, mishaps>>

Mishap == mishaps < MaxMishaps /\ mishaps' = mishaps + 1

\* It was sent, but the answer never comes.  cleos is killed and called again.
Unheard(c) ==
  /\ check = c /\ ~moved /\ Enough(c)
  /\ Mishap
  /\ Sends(c) /\ unsaved' = TRUE
  /\ GoesOn(c) \/ (c = "eosish" /\ UNCHANGED <<check, moved>>)
  /\ UNCHANGED <<frozen, copy, put, fresh, overwritten, shares>>

\* save() writes all the columns of the copy.
SavesShares(c) ==
  /\ check = c /\ moved
  /\ frozen' = copy /\ fresh' = FALSE
  /\ overwritten' = (overwritten \/ fresh)
  /\ GoesOn(c)
  /\ UNCHANGED <<copy, put, sent, unsaved, shares, mishaps>>

\* The exception is caught, and the copy stays as it is.
SaveFails(c) ==
  /\ check = c /\ moved
  /\ Mishap
  /\ unsaved' = TRUE
  /\ GoesOn(c)
  /\ UNCHANGED <<frozen, copy, put, sent, fresh, overwritten, shares>>

check_payments ==
  \E c \in Frozen :
    NotEnough(c) \/ Freezes(c) \/ Refused(c) \/ Unheard(c) \/ SavesShares(c) \/ SaveFails(c)

\* The daemon is stopped, wherever it is, and starts again.
FreezerDies ==
  /\ check # "asleep"
  /\ Mishap
  /\ check' = "asleep" /\ moved' = FALSE
  /\ unsaved' = (unsaved \/ moved)
  /\ UNCHANGED <<frozen, copy, put, sent, fresh, overwritten, shares>>

ShareNext == freeze_payments \/ CheckWakes \/ check_payments \/ FreezerDies
=============================================================================
