-------------------------------- MODULE Pools --------------------------------
(***************************************************************************)
(* The contracts that collect money of others: the investment pool         *)
(* (lastwill/contracts/submodels/investment_pool.py, type 9) and the swap  *)
(* (swaps.py, type 20).  The platform only follows them: every payment,    *)
(* refund and ending on the chain is told by one message, from which the   *)
(* site counts again what the contract holds.                              *)
(*                                                                         *)
(* The contract is deployed already: it is ACTIVE, and alive on its chain. *)
(* Amounts are in units of one payment.                                    *)
(***************************************************************************)
EXTENDS Integers, ContractRow

CONSTANTS
  Parties,     \* who invests in a pool, or the two tokens of a swap
  Base,        \* the base token of a swap
  MaxDeposits  \* bound on the payments of one party

ASSUME PartiesAreSome == IsFiniteSet(Parties) /\ Base \in Parties
ASSUME DepositsAreNat == MaxDeposits \in Nat

PoolKinds == {"investmentpool", "swaps"}

VARIABLES
  paid,        \* the chain: what each party paid, and was paid back or sent
  ending,      \* the chain: how the contract came to its end
  invested,    \* the site: InvestAddress rows, or *_amount_contributed
  total,       \* the site: *_amount_total
  balance,     \* the site: the balance of the pool
  take_away,   \* the site: the parties whose first row is marked
  stop_date,   \* the site: details.stop_date
  checksummed, \* base_address was typed with capitals
  counted      \* no message was counted twice

books    == <<invested, total, balance, take_away>>
poolVars == <<paid, ending, books, stop_date, checksummed, counted>>

Invested(p, sum)  == [type |-> "fundsAdded", party |-> p, balance |-> sum]
Deposit(p)        == [type |-> "depositSwaps", party |-> p]
Refund(p)         == [type |-> "refundSwaps", party |-> p]
TokensSent(p)     == [type |-> "tokensSent", party |-> p]
Finalized(status) == [type |-> "finalized", status |-> status]
Cancelled         == [type |-> "cancelled"]
TimesChanged(t)   == [type |-> "timesChanged", endTime |-> t]

PaidIn  == Total([p \in Parties |-> paid[p].in])
AllPaid == MaxDeposits * Cardinality(Parties)

PoolMessages ==
  {Cancelled} \cup [type: {"fundsAdded"}, party: Parties, balance: 0..AllPaid]
    \cup [type: {"depositSwaps", "refundSwaps", "tokensSent"}, party: Parties]
    \cup [type: {"finalized"}, status: {"COMMITTED", "REJECTED"}]
    \cup [type: {"timesChanged"}, endTime: Times]

PoolTypeOK ==
  /\ kind \in PoolKinds
  /\ state \in {"ACTIVE", "DONE", "CANCELLED", "EXPIRED"}
  /\ \A i \in DOMAIN ready : ready[i] \in PoolMessages
  /\ paid \in [Parties -> [in: 0..MaxDeposits, out: 0..MaxDeposits]]
  /\ ending \in {"no", "finalized", "cancelled"}
  /\ \A p \in Parties : invested[p] \in Int /\ total[p] \in Nat
  /\ balance \in 0..AllPaid
  /\ take_away \subseteq Parties
  /\ stop_date \in Times
  /\ checksummed \in BOOLEAN
  /\ counted \in BOOLEAN

PoolInit ==
  /\ kind \in PoolKinds
  /\ state = "ACTIVE"
  /\ onChain = "alive"
  /\ ready = << >>
  /\ paid = [p \in Parties |-> [in |-> 0, out |-> 0]]
  /\ ending = "no"
  /\ invested = [p \in Parties |-> 0]
  /\ total = [p \in Parties |-> 0]
  /\ balance = 0
  /\ take_away = {}
  /\ stop_date = 1
  /\ checksummed \in (IF kind = "swaps" THEN BOOLEAN ELSE {FALSE})
  /\ counted = TRUE

\* A message is acked, or handled again after the process died.
CountOnce ==
  \/ Ack /\ UNCHANGED <<troubles, counted>>
  \/ DeliveredAgain /\ counted' = FALSE
-----------------------------------------------------------------------------
(***************************************************************************)
(* The receiver.                                                           *)
(***************************************************************************)
\* fundsAdded of the pool: a row more, and the balance the message tells.
PoolFundsAdded ==
  /\ Receiving("fundsAdded")
  /\ invested' = [invested EXCEPT ![Message.party] = @ + 1]
  /\ balance' = Message.balance
  /\ CountOnce
  /\ UNCHANGED <<kind, state, lockedBy, network, now, paid, ending, total,
                 take_away, stop_date, checksummed>>

\* tokenSent: the first row of that address and amount, marked or not.
PoolTokenSent ==
  /\ Receiving("tokensSent")
  /\ take_away' = IF invested[Message.party] > 0
                    THEN take_away \cup {Message.party} ELSE take_away
  /\ CountOnce
  /\ UNCHANGED <<kind, state, lockedBy, network, now, paid, ending, invested,
                 total, balance, stop_date, checksummed>>

\* timesChanged
PoolTimesChanged ==
  /\ Receiving("timesChanged")
  /\ stop_date' = Message.endTime
  /\ CountOnce
  /\ UNCHANGED <<kind, state, lockedBy, network, now, paid, ending, books,
                 checksummed>>

\* finalized, with any status.  A swap is DONE whatever the status is.
PoolFinalized ==
  /\ Receiving("finalized")
  /\ state' = IF kind = "swaps" \/ Message.status = "COMMITTED" THEN "DONE"
              ELSE IF now > stop_date THEN "CANCELLED" ELSE state
  /\ CountOnce
  /\ UNCHANGED <<kind, lockedBy, network, now, paid, ending, books,
                 stop_date, checksummed>>

\* 'cancelled' and 'refund' of the pool, and cancelled of the swap.
PoolCancelled ==
  /\ Receiving("cancelled")
  /\ state' = "CANCELLED"
  /\ CountOnce
  /\ UNCHANGED <<kind, lockedBy, network, now, paid, ending, books,
                 stop_date, checksummed>>

\* Seeded bug: everything is counted for the base token.
AlwaysBase(p) == Base

\* The message's token is in small letters; it is compared with base_address
\* made small, and then with base_address as it was typed.
Side(p) ==
  IF p = Base /\ checksummed THEN CHOOSE q \in Parties : q # Base ELSE p

\* deposit_swaps and refund_swaps
SwapsDeposit ==
  /\ Receiving("depositSwaps")
  /\ LET p == Side(Message.party) IN
       /\ invested' = [invested EXCEPT ![p] = @ + 1]
       /\ total' = [total EXCEPT ![p] = @ + 1]
  /\ CountOnce
  /\ UNCHANGED <<kind, state, lockedBy, network, now, paid, ending, balance,
                 take_away, stop_date, checksummed>>

SwapsRefund ==
  /\ Receiving("refundSwaps")
  /\ LET p == Side(Message.party) IN
       /\ invested' = [invested EXCEPT ![p] = @ - 1]
       /\ UNCHANGED total
  /\ CountOnce
  /\ UNCHANGED <<kind, state, lockedBy, network, now, paid, ending, balance,
                 take_away, stop_date, checksummed>>

\* to_representation of the swap, in a request that shows it.
SwapsExpire ==
  /\ kind = "swaps"
  /\ state = "ACTIVE"
  /\ stop_date < now
  /\ state' = "EXPIRED"
  /\ UNCHANGED <<kind, lockedBy, queue, network, now, troubles, poolVars>>
-----------------------------------------------------------------------------
(***************************************************************************)
(* The chain, whose contracts are not in this repository.                  *)
(***************************************************************************)
\* Somebody pays in.
Pays(p) ==
  /\ onChain = "alive"
  /\ paid[p].in < MaxDeposits
  /\ paid' = [paid EXCEPT ![p].in = @ + 1]
  /\ Publish(IF kind = "swaps" THEN Deposit(p) ELSE Invested(p, PaidIn + 1))
  /\ UNCHANGED <<kind, state, lockedBy, network, now, troubles, ending, books,
                 stop_date, checksummed, counted>>

\* A swap refunds before it ends; a pool that was finalized sends tokens.
PaysOut(p) ==
  /\ ending = (IF kind = "swaps" THEN "no" ELSE "finalized")
  /\ paid[p].out < paid[p].in
  /\ paid' = [paid EXCEPT ![p].out = @ + 1]
  /\ Publish(IF kind = "swaps" THEN Refund(p) ELSE TokensSent(p))
  /\ UNCHANGED <<kind, state, lockedBy, network, now, troubles, ending, books,
                 stop_date, checksummed, counted>>

\* The contract ends, or a call to finalize it fails.
Ends ==
  /\ \/ /\ onChain = "alive"
        /\ \/ ending' = "finalized" /\ Publish(Finalized("COMMITTED"))
           \/ ending' = "cancelled" /\ Publish(Cancelled)
        /\ onChain' = "over"
     \/ /\ kind = "investmentpool"
        /\ Publish(Finalized("REJECTED"))
        /\ UNCHANGED <<ending, onChain>>
  /\ UNCHANGED <<kind, state, lockedBy, txHash, chain, now, troubles, paid,
                 books, stop_date, checksummed, counted>>

ChangesTimes ==
  /\ kind = "investmentpool"
  /\ onChain = "alive"
  /\ \E t \in Times : Publish(TimesChanged(t))
  /\ UNCHANGED <<kind, state, lockedBy, network, now, troubles, poolVars>>

PoolNext ==
  \/ PoolFundsAdded \/ PoolTokenSent \/ PoolTimesChanged \/ PoolFinalized
  \/ PoolCancelled \/ SwapsDeposit \/ SwapsRefund \/ SwapsExpire
  \/ \E p \in Parties : Pays(p) \/ PaysOut(p)
  \/ Ends \/ ChangesTimes
  \/ Tick /\ UNCHANGED poolVars
-----------------------------------------------------------------------------
(***************************************************************************)
(* Property.                                                               *)
(***************************************************************************)
IsFrom(m, type, p) == m.type = type /\ m.party = p

Waiting(type, p) ==
  Total([i \in DOMAIN ready |-> IF IsFrom(ready[i], type, p) THEN 1 ELSE 0])

PoolBooks ==
  /\ \A p \in Parties : invested[p] + Waiting("fundsAdded", p) = paid[p].in
  /\ (\A p \in Parties : Waiting("fundsAdded", p) = 0) => balance = PaidIn

SwapsBooks ==
  \A p \in Parties :
    /\ invested[p] + Waiting("depositSwaps", p) - Waiting("refundSwaps", p)
         = paid[p].in - paid[p].out
    /\ total[p] + Waiting("depositSwaps", p) = paid[p].in

\* What the site shows of a pool or a swap, with what the queue has yet to
\* tell, is what the chain holds, unless a message was counted twice, or the
\* base address of a swap was typed with capitals.
BooksAreKept ==
  counted => /\ kind = "investmentpool" => PoolBooks
             /\ kind = "swaps" => checksummed \/ SwapsBooks
=============================================================================
