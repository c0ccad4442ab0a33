----------------------------- MODULE PanamaBridge -----------------------------
(***************************************************************************)
(* The record of one transfer between two networks, in one of four ways:   *)
(* RBC by the project's own back end, "panama" by Binance's bridge, and by *)
(* Polygon's bridge out of Ethereum or into it.  Celery tasks, which may   *)
(* overlap, and the view that lists the records ask how far the transfer   *)
(* is and save it; the customer's browser names the second transaction of  *)
(* a transfer into Ethereum.  The customer's requests are taken at their   *)
(* word, whatever status, second transaction or way they send.             *)
(*                                                                         *)
(* Left out: amounts, wallets, time and pictures; a PATCH that gives the   *)
(* transfer another transaction_id; "Cancelled" stands for all statuses    *)
(* that the code does not know.                                            *)
(***************************************************************************)
EXTENDS Naturals

CONSTANTS
  Rounds,  \* tasks, or requests that ask like one, at a time
  Seconds, \* the second transactions that the customer may send
  Said     \* the ways and statuses that the customer may send

VARIABLES
  swap,    \* the row of PanamaTransaction
  outside, \* how far the transfer really is; of its first half, into Ethereum
  second_transactions, \* those that are in a block and did not fail
  asking,  \* what each round holds: the row as read, then an answer
  claimed  \* what the row says, or of which way it is, only a customer said

bridgeVars == <<swap, outside, second_transactions, asking, claimed>>

Ways       == {"rbc", "panama", "ethpol", "poleth"}
NoSwap     == [way |-> "none", status |-> "none", second |-> "none"]
NotAsking  == [at |-> "idle"]
Statuses   == {"DepositInProgress", "WithdrawInProgress", "Completed", "Cancelled"}

ASSUME SaidIsKnown == Said \subseteq [way : Ways, status : Statuses]

BridgeTypeOK ==
  /\ swap = NoSwap \/ swap \in [way : Ways, status : Statuses,
                                second : Seconds \cup {"none"}]
  /\ claimed \in BOOLEAN
  /\ outside \in {"going", "done", "cancelled"}
  /\ second_transactions \subseteq Seconds
  /\ \A c \in Rounds : asking[c].at \in {"idle", "read", "answered"}

BridgeInit ==
  /\ swap = NoSwap
  /\ outside = "going"
  /\ second_transactions = {}
  /\ asking = [c \in Rounds |-> NotAsking]
  /\ claimed = FALSE

\* What Binance's bridge says of its transfer.
get_status_by_id ==
  CASE outside = "going" -> "DepositInProgress"
    [] outside = "done"  -> "Completed"
    [] OTHER             -> "Cancelled"

\* The transfer is unknown until now: transaction_id is unique.
Adds(way, status, second) ==
  /\ swap = NoSwap
  /\ swap' = [way |-> way, status |-> status, second |-> second]
  /\ UNCHANGED <<outside, second_transactions, asking>>

create_swap == Adds("rbc", "DepositInProgress", "none") /\ UNCHANGED claimed

\* Binance's status; when it answers nothing, the customer's.
CreatePanama(said, second) ==
  /\ said.way = "panama"
  /\ \/ Adds("panama", get_status_by_id, second) /\ UNCHANGED claimed
     \/ Adds("panama", said.status, second) /\ claimed' = TRUE

CreatePolygon(said, second) ==
  /\ said.way \in {"ethpol", "poleth"}
  /\ Adds(said.way, said.status, second)
  /\ claimed' = TRUE

\* partial_update: what the customer sends, whatever the row says.
PartialUpdate(said, s) ==
  /\ swap # NoSwap
  /\ swap' = [way |-> said.way, status |-> said.status, second |-> s]
  /\ claimed' = TRUE
  /\ UNCHANGED <<outside, second_transactions, asking>>
-----------------------------------------------------------------------------
(***************************************************************************)
(* A round reads the rows its query takes, and asks for each in turn.      *)
(***************************************************************************)
Taken ==
  \/ swap.way = "rbc" /\ swap.status # "Completed"
  \/ swap.way = "panama" /\ swap.status \notin {"Completed", "Cancelled"}
  \/ swap.way \in {"ethpol", "poleth"} /\ swap.status = "DepositInProgress"
  \/ /\ swap.way = "poleth"
     /\ swap.status = "WithdrawInProgress" /\ swap.second # "none"

RoundReads(c) ==
  /\ asking[c] = NotAsking
  /\ Taken
  /\ asking' = [asking EXCEPT ![c] = [at |-> "read", row |-> swap]]
  /\ UNCHANGED <<swap, outside, second_transactions, claimed>>

\* The round has its answer and saves s next.
Answered(c, way, s) ==
  /\ asking[c].at = "read"
  /\ asking[c].row.way = way
  /\ asking' = [asking EXCEPT ![c] = [at |-> "answered", row |-> @.row, says |-> s]]
  /\ UNCHANGED <<swap, outside, second_transactions, claimed>>

\* The back end says IN_PROCESS, SUCCESS, or another word: the row is saved
\* as it was read.
check_swap_status(c) ==
  Answered(c, "rbc", CASE outside = "going" -> "DepositInProgress"
                       [] outside = "done"  -> "Completed"
                       [] OTHER             -> asking[c].row.status)

AsksBinance(c) == Answered(c, "panama", get_status_by_id)

\* update_eth_pol_status: Polygon's counter has come to the deposit's.
CountersChecked(c) ==
  /\ outside = "done"
  /\ Answered(c, "ethpol", "Completed")

\* second_get_pol_eth_status: the receipt says that it did not fail.
ReceiptChecked(c) ==
  /\ asking[c].at = "read"
  /\ asking[c].row.status = "WithdrawInProgress"
  /\ asking[c].row.second \in second_transactions
  /\ Answered(c, "poleth", "Completed")

\* No receipt yet, a failed one, or the task dies.  For a deposit from
\* Polygon always: the url is formatted with a key it does not have.
AsksInVain(c) ==
  /\ asking[c] # NotAsking
  /\ asking' = [asking EXCEPT ![c] = NotAsking]
  /\ UNCHANGED <<swap, outside, second_transactions, claimed>>

\* Seeded bug: only the status is saved, into the row as it is.
StatusOnly(c) == [swap EXCEPT !.status = asking[c].says]

\* save() of the whole row as it was read; update() of the status, panama.
Saved(c) ==
  IF asking[c].row.way = "panama" THEN [swap EXCEPT !.status = asking[c].says]
  ELSE [asking[c].row EXCEPT !.status = asking[c].says]

RoundSaves(c) ==
  /\ asking[c].at = "answered"
  /\ swap' = Saved(c)
  /\ claimed' = (Saved(c).way # asking[c].row.way)
  /\ asking' = [asking EXCEPT ![c] = NotAsking]
  /\ UNCHANGED <<outside, second_transactions>>

\* The networks and the bridges.
TransferEnds ==
  /\ swap # NoSwap
  /\ outside = "going"
  /\ outside' \in {"done", "cancelled"}
  /\ UNCHANGED <<swap, second_transactions, asking, claimed>>

SecondSucceeds(s) ==
  /\ swap.second = s \/ \E c \in Rounds : asking[c] # NotAsking /\ asking[c].row.second = s
  /\ second_transactions' = second_transactions \cup {s}
  /\ UNCHANGED <<swap, outside, asking, claimed>>

BridgeNext ==
  \/ create_swap
  \/ \E said \in Said :
       \/ \E second \in Seconds \cup {"none"} :
            CreatePanama(said, second) \/ CreatePolygon(said, second)
       \/ \E s \in Seconds : PartialUpdate(said, s)
  \/ \E s \in Seconds : SecondSucceeds(s)
  \/ \E c \in Rounds :
       \/ RoundReads(c) \/ check_swap_status(c) \/ AsksBinance(c)
       \/ CountersChecked(c) \/ ReceiptChecked(c) \/ AsksInVain(c) \/ RoundSaves(c)
  \/ TransferEnds
=============================================================================
