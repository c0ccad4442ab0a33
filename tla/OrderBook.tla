----------------------------- MODULE OrderBook -----------------------------
(***************************************************************************)
(* One order of the order book (lastwill/swaps_common/orderbook) and all   *)
(* who write its row: the views of the web application, the receiver's     *)
(* handlers of on-chain messages, and the limiter, a celery task started   *)
(* every minute that takes profitable orders with the platform's wallet.   *)
(*                                                                         *)
(* Everybody reads the whole row, does something that may take minutes,    *)
(* and writes the whole row back with save().  A save() of a row that was  *)
(* deleted inserts it again.  Nothing keeps two limiter tasks apart: one   *)
(* that waits for a receipt is still there when the next is started.       *)
(*                                                                         *)
(* The order's contract, its users and the chain are external.             *)
(***************************************************************************)
EXTENDS Integers, Sequences, FiniteSets

CONSTANTS
  Writers,      \* processes and threads that save the row, but for the limiter
  Tasks,        \* limiter tasks that may run at the same time
  MaxRequests   \* bound on the requests that change the order, and on the
                \* deaths of the receiver

ASSUME MaxRequestsIsNat == MaxRequests \in Nat

Limit == 1  \* base_limit, which one deposit fills

\* The exchange API spells 'active' in capitals.
OrderStates == {"active", "ACTIVE", "expired", "done", "cancelled", "hidden"}

\* A row of OrderBookSwaps: is_closed_by_limiter, swaped_on_uniswap and
\* base_amount_contributed.  What else an edit may set (addresses, limits, the
\* flags that list the order) only decides whether the limiter selects it, which
\* it may or may not do.
Orders == [state: OrderStates, closed: BOOLEAN, swapped: BOOLEAN, base: Int]

Messages   == {"deposit", "refund", "quote"}
Operations == {"edit", "view", "delete", "cancel", "detach"}
Kinds      == {"swap", "deposit"}

TaskPlaces == {"idle", "refresh", "hide", "confirm", "check", "swap",
               "swapWait", "swapReceipt", "deposit", "depositWait",
               "depositReceipt"}

\* Where a task waits for a transaction, and where it has the receipt.
Waiting  == [swap |-> "swapWait", deposit |-> "depositWait"]
Received == [swap |-> "swapReceipt", deposit |-> "depositReceipt"]

VARIABLES
  order,     \* the row, as it was last if it is deleted
  pair,      \* both its addresses are set
  exists,    \* the row is there
  writer,    \* what each writer is about to do to the row it has read
  task,      \* the limiter tasks, likewise
  queue,     \* on-chain messages the receiver will handle, in order
  contract,  \* the order on the chain
  pending,   \* the wallet's transaction for it that is not mined, and who waits
  swapSent,  \* the wallet has sent a swap for it
  receipts,  \* kinds of transactions there is a receipt of
  requests,  \* requests that changed it so far
  mishap     \* the platform lost track of a swap, see SwapsExplained

row    == <<order, exists, mishap>>
wallet == <<pending, swapSent, receipts>>
vars   == <<row, pair, writer, task, queue, contract, wallet, requests>>

NewOrder == [state |-> "active", closed |-> FALSE, swapped |-> FALSE, base |-> 0]

ExchangeOrder == [NewOrder EXCEPT !.state = "ACTIVE"]

Resting == [at |-> "idle", copy |-> NewOrder]
Free    == [op |-> "none", copy |-> NewOrder]
Nothing == [kind |-> "none", waits |-> {}]

TypeOK ==
  /\ order \in Orders
  /\ pair \in BOOLEAN
  /\ exists \in BOOLEAN
  /\ writer \in [Writers -> [op: Operations \cup Messages \cup {"none"},
                             copy: Orders]]
  /\ task \in [Tasks -> [at: TaskPlaces, copy: Orders]]
  /\ queue \in Seq(Messages)
  /\ contract \in {"open", "filled", "refunded", "swapped"}
  /\ pending \in [kind: Kinds \cup {"none"}, waits: SUBSET Tasks]
  /\ swapSent \in BOOLEAN
  /\ receipts \subseteq Kinds
  /\ requests \in 0..MaxRequests
  /\ mishap \in BOOLEAN

\* create_contract_swaps_backend, create_order or, without addresses,
\* create_swaps_order_api has just saved it.
Init ==
  /\ \/ order = NewOrder /\ pair \in BOOLEAN
     \/ order = ExchangeOrder /\ pair = FALSE
  /\ exists = TRUE
  /\ writer = [w \in Writers |-> Free]
  /\ task = [l \in Tasks |-> Resting]
  /\ queue = << >>
  /\ contract = "open"
  /\ pending = Nothing
  /\ swapSent = FALSE
  /\ receipts = {}
  /\ requests = 0
  /\ mishap = FALSE

\* save() of a row that was read before; it may forget a swap.
Save(copy) ==
  /\ order' = copy
  /\ exists' = TRUE
  /\ mishap' = (mishap \/ (order.swapped /\ ~copy.swapped))
-----------------------------------------------------------------------------
(***************************************************************************)
(* The web application.                                                    *)
(***************************************************************************)
\* Seeded bug: a view forgets that DONE orders do not expire.
ExpirableAlways(o) == o.state # "cancelled"

\* Not in EXCLUDED_STATES, which does not name 'hidden'.
Expirable(o) == o.state \notin {"done", "cancelled"}

\* What each request asks of the order before it changes it.  A view, or
\* set_swaps_expired, changes it only after stop_date, which an edit sets: any
\* time may be after it.  Detaching takes the exchange's user off.
Admits(op, o) ==
  CASE op = "edit"   -> o.state # "hidden"
    [] op = "view"   -> Expirable(o)
    [] op = "cancel" -> ~pair
    [] op = "delete" -> TRUE
    [] op = "detach" -> TRUE

\* Seeded bug: a view writes the state as the commented-out code spells it.
WrittenUpper(op, o) ==
  CASE op = "edit"   -> {[o EXCEPT !.base = b] : b \in {o.base, Limit}}
    [] op = "view"   -> {[o EXCEPT !.state = "EXPIRED"]}
    [] op = "delete" -> {[o EXCEPT !.state = "hidden"]}
    [] op = "cancel" -> {[o EXCEPT !.state = "cancelled"]}
    [] op = "detach" -> {o}

\* set_swaps_expired, and all that show an order.
Expired(o) == [o EXCEPT !.state = "expired"]

\* delete_order_for_user clears exchange_user, and saves the row as it read it.
Detached(o) == o

\* What it may make of the order.
Written(op, o) ==
  CASE op = "edit"   -> {[o EXCEPT !.base = b] : b \in {o.base, Limit}}
    [] op = "view"   -> {Expired(o)}
    [] op = "delete" -> {[o EXCEPT !.state = "hidden"]}
    [] op = "cancel" -> {[o EXCEPT !.state = "cancelled"]}
    [] op = "detach" -> {Detached(o)}

AskToChange ==
  /\ requests < MaxRequests
  /\ requests' = requests + 1

\* Views are not counted: everybody makes them at any time, and an edit ends
\* with one.
RequestRead(w, op) ==
  /\ writer[w].op = "none"
  /\ exists
  /\ Admits(op, order)
  /\ IF op = "view" THEN UNCHANGED requests ELSE AskToChange
  /\ writer' = [writer EXCEPT ![w] = [op |-> op, copy |-> order]]
  /\ UNCHANGED <<row, pair, task, queue, contract, wallet>>

RequestSave(w) ==
  /\ writer[w].op \in Operations
  /\ \E o \in Written(writer[w].op, writer[w].copy) : Save(o)
  /\ writer' = [writer EXCEPT ![w] = Free]
  /\ UNCHANGED <<pair, task, queue, contract, wallet, requests>>

AdminDelete ==
  /\ exists
  /\ AskToChange
  /\ exists' = FALSE
  /\ UNCHANGED <<order, mishap, pair, writer, task, queue, contract, wallet>>
-----------------------------------------------------------------------------
(***************************************************************************)
(* The receiver: depositOrder and refundOrder read the row and save it, a  *)
(* message at a time.  The messages orderCreated, finish, finalized and    *)
(* cancelled change nothing: their handlers pass a message to methods of   *)
(* the order that take none, and raise.                                    *)
(***************************************************************************)
MessageRead(w) ==
  /\ writer[w].op = "none"
  /\ \A v \in Writers : writer[v].op \notin Messages
  /\ queue # << >>
  /\ exists
  /\ writer' = [writer EXCEPT ![w] = [op |-> Head(queue), copy |-> order]]
  /\ queue' = Tail(queue)
  /\ UNCHANGED <<row, pair, task, contract, wallet, requests>>

Contribution(message) ==
  CASE message = "deposit" -> Limit
    [] message = "refund"  -> -Limit
    [] message = "quote"   -> 0

\* basic_ack, or the receiver dies before it and is given the message again.
AckOrDie(message) ==
  \/ UNCHANGED <<queue, requests>>
  \/ AskToChange /\ queue' = <<message>> \o queue

MessageSave(w) ==
  /\ writer[w].op \in Messages
  /\ Save([writer[w].copy EXCEPT !.base = @ + Contribution(writer[w].op)])
  /\ AckOrDie(writer[w].op)
  /\ writer' = [writer EXCEPT ![w] = Free]
  /\ UNCHANGED <<pair, task, contract, wallet>>

\* Without the row the handler raises.
MessageRaises ==
  /\ queue # << >>
  /\ ~exists
  /\ queue' = Tail(queue)
  /\ UNCHANGED <<row, pair, writer, task, contract, wallet, requests>>
-----------------------------------------------------------------------------
(***************************************************************************)
(* The limiter: main().  Whether an order pays is asked of Uniswap, twice. *)
(***************************************************************************)
Go(l, from, to, copy) ==
  /\ task[l].at = from
  /\ task' = [task EXCEPT ![l] = [at |-> to, copy |-> copy]]

GoHome(l) == task' = [task EXCEPT ![l] = Resting]

\* public_active_orders, which does not look at the case of the state.  Its 'now'
\* is the time the worker was started, so that an order that was created since
\* then is never too late for it; any order may be a public one of Rubic's.
Active(o) == exists /\ o.state \in {"active", "ACTIVE"}

\* The filter of _get_matching_orders.
Matches(o) == Active(o) /\ pair /\ o.base = Limit /\ ~o.closed

\* _set_base_amount_contributed reads all active orders, ...
RefreshRead(l) ==
  /\ Active(order)
  /\ Go(l, "idle", "refresh", [order EXCEPT !.base = 0])  \* it is set below
  /\ UNCHANGED <<row, pair, writer, queue, contract, wallet, requests>>

\* ... saves what the contract says of them, and logs an exception.
Raised == IF contract \in {"filled", "swapped"} THEN Limit ELSE 0

RefreshSave(l) ==
  /\ Go(l, "refresh", "idle", NewOrder)
  /\ Save([task[l].copy EXCEPT !.base = Raised])
  /\ UNCHANGED <<pair, writer, queue, contract, wallet, requests>>

\* Then _get_profitability_order reads the orders that match, also when the
\* refresh failed ...
Match(l) ==
  /\ Matches(order)
  /\ Go(l, "idle", "hide", order)
  /\ UNCHANGED <<row, pair, writer, queue, contract, wallet, requests>>

\* ... and hides those that pay, from the public list.
Hide(l) ==
  /\ Go(l, "hide", "confirm", NewOrder)
  /\ Save(task[l].copy)
  /\ UNCHANGED <<pair, writer, queue, contract, wallet, requests>>

\* _confirm_orders evaluates the filters again.
ConfirmRead(l) ==
  /\ Matches(order)
  /\ Go(l, "confirm", "check", order)
  /\ UNCHANGED <<row, pair, writer, queue, contract, wallet, requests>>

\* Seeded bug: the contribution in the row is believed.
BelieveRow(o) == o.base = Limit

\* isSwapped and isBaseFilled of the contract.
BaseFilled(o) == contract = "filled"

\* Seeded bug: the limiter does not look at the flag.
SwapAlways(o) == "swap"

\* Of an order that was swapped only the deposit is left to make.
NextCall(o) == IF o.swapped THEN "deposit" ELSE "swap"

Check(l) ==
  /\ LET copy == task[l].copy
     IN  BaseFilled(copy) /\ Go(l, "check", NextCall(copy), copy)
  /\ UNCHANGED <<row, pair, writer, queue, contract, wallet, requests>>

\* The nonce is the number of mined transactions, so that a transaction takes
\* the place of one that is pending; no receipt comes of that one.
Send(l, from, kind) ==
  /\ pending' = [kind |-> kind, waits |-> {l}]
  /\ Go(l, from, Waiting[kind], task[l].copy)
  /\ UNCHANGED receipts

\* What a task cannot see when it swaps: the flag was set after it read the row,
\* or another task's swap is on its way.
SwapUnseen(l) ==
  \/ order.swapped /\ ~task[l].copy.swapped
  \/ \E k \in Tasks \ {l} : task[k].at \in {"swapWait", "swapReceipt"}

SwapSend(l) ==
  /\ Send(l, "swap", "swap")
  /\ swapSent' = TRUE
  /\ mishap' = (mishap \/ SwapUnseen(l))
  /\ UNCHANGED <<order, exists, pair, writer, queue, contract, requests>>

\* Also when the wallet had too little ether for the swap.
DepositSend(l) ==
  /\ Send(l, "deposit", "deposit") \/ Send(l, "swap", "deposit")
  /\ UNCHANGED <<row, pair, swapSent, writer, queue, contract, requests>>

SwapDone(l) ==
  /\ LET copy == [task[l].copy EXCEPT !.swapped = TRUE]
     IN  Save(copy) /\ Go(l, "swapReceipt", "deposit", copy)
  /\ UNCHANGED <<pair, writer, queue, contract, wallet, requests>>

DoneOrder(o) == [o EXCEPT !.state = "done", !.closed = TRUE]

\* Seeded bug: the order is done as soon as its deposit was sent.
DepositHasty(l) ==
  /\ task[l].at \in {"depositWait", "depositReceipt"}
  /\ Save(DoneOrder(task[l].copy))
  /\ GoHome(l)
  /\ UNCHANGED <<pair, writer, queue, contract, wallet, requests>>

\* _set_done_status_order, also when the receipt is of a failure.
DepositDone(l) ==
  /\ task[l].at = "depositReceipt"
  /\ Save(DoneOrder(task[l].copy))
  /\ GoHome(l)
  /\ UNCHANGED <<pair, writer, queue, contract, wallet, requests>>

\* A task ends early when the order does not match any more or does not pay,
\* its contract is not filled, or anything raises: a refused transaction, a
\* receipt that does not come, a restart of the worker.
TaskEnds(l) ==
  /\ task[l].at # "idle"
  /\ mishap' = (mishap \/ task[l].at \in {"swapWait", "swapReceipt"})
  /\ GoHome(l)
  /\ pending' = [pending EXCEPT !.waits = @ \ {l}]
  /\ UNCHANGED <<order, exists, pair, writer, queue, contract, swapSent, receipts,
                 requests>>
-----------------------------------------------------------------------------
(***************************************************************************)
(* The chain, its users and the scanner (outside this repository).         *)
(***************************************************************************)
Becomes(from, to, messages) ==
  /\ contract = from
  /\ contract' = to
  /\ queue' = queue \o messages

UsersAct ==
  /\ \/ Becomes("open", "filled", <<"deposit">>)
     \/ Becomes("filled", "refunded", <<"refund">>)
     \/ Becomes("filled", "swapped", <<"quote">>)
  /\ UNCHANGED <<row, pair, writer, task, wallet, requests>>

Mine ==
  /\ pending.kind # "none"
  /\ \/ UNCHANGED <<contract, queue>>
     \/ /\ pending.kind = "deposit"
        /\ Becomes("filled", "swapped", <<"quote">>)
  /\ receipts' = receipts \cup {pending.kind}
  /\ task' = [l \in Tasks |->
                 IF l \in pending.waits
                   THEN [task[l] EXCEPT !.at = Received[pending.kind]]
                   ELSE task[l]]
  /\ pending' = Nothing
  /\ UNCHANGED <<row, pair, swapSent, writer, requests>>

-----------------------------------------------------------------------------
WebStep ==
  \/ AdminDelete
  \/ \E w \in Writers :
       \/ \E op \in Operations : RequestRead(w, op)
       \/ RequestSave(w)

ReceiverStep ==
  \/ MessageRaises
  \/ \E w \in Writers : MessageRead(w) \/ MessageSave(w)

TaskStep(l) ==
  \/ RefreshRead(l)
  \/ RefreshSave(l)
  \/ Match(l)
  \/ Hide(l)
  \/ ConfirmRead(l)
  \/ Check(l)
  \/ SwapSend(l)
  \/ SwapDone(l)
  \/ DepositSend(l)
  \/ DepositDone(l)
  \/ TaskEnds(l)

Next ==
  \/ WebStep
  \/ ReceiverStep
  \/ \E l \in Tasks : TaskStep(l)
  \/ UsersAct
  \/ Mine

Spec == Init /\ [][Next]_vars

-----------------------------------------------------------------------------
(***************************************************************************)
(* The rows that somebody will save: whatever happens to the row in        *)
(* between is undone by it.                                                *)
(***************************************************************************)
Copies ==
  {writer[w].copy : w \in {v \in Writers : writer[v].op # "none"}}
    \cup {task[l].copy : l \in {k \in Tasks : task[k].at \notin {"idle", "confirm"}}}

(***************************************************************************)
(* The limiter spends the wallet's money only on an order whose contract   *)
(* was filled, whatever its row was made to say by edits, repeated         *)
(* messages and stale saves.  The contract may have paid it back or taken  *)
(* it since: the limiter asks once, and then waits for receipts.           *)
(***************************************************************************)
OnlyFilledIsTaken ==
  swapSent \/ pending.kind # "none" \/ receipts # {}
    => contract \in {"filled", "refunded", "swapped"}

(***************************************************************************)
(* The marks of the limiter are earned: done and closed orders have a      *)
(* deposit with a receipt, and the flag that keeps an order from being     *)
(* swapped again has a swap with one, however often the row was written    *)
(* back from older copies.                                                 *)
(***************************************************************************)
Earned(o) ==
  /\ (o.closed \/ o.state = "done") => "deposit" \in receipts
  /\ o.swapped => "swap" \in receipts

MarksAreEarned == \A o \in {order} \cup Copies : Earned(o)

(***************************************************************************)
(* An order is swapped on Uniswap once.  It is swapped again only after    *)
(* the flag was lost or could not be seen: a task was interrupted while it *)
(* waited for the receipt, an older copy of the row was saved over the     *)
(* flag, the task had read the row before the flag was set, or another     *)
(* task's swap was on its way.  A task never swaps when its copy says that *)
(* the order was.                                                          *)
(***************************************************************************)
Swapping(l) == task[l].at = "swap" /\ task'[l].at = "swapWait"

SwapsExplained ==
  [][(swapSent /\ \E l \in Tasks : Swapping(l)) => mishap']_vars

(***************************************************************************)
(* An order that was done, cancelled, hidden or deleted comes back only by *)
(* an older copy of it, which somebody had read when it was not - or, if   *)
(* the copy was hidden, by a view that makes it expired.                   *)
(***************************************************************************)
Gone == ~exists \/ order.state \in {"done", "cancelled", "hidden"}

BringsBack(o) == o.state \in {"active", "ACTIVE", "expired"}

Exposed(w) == writer[w].op = "view" /\ writer[w].copy.state = "hidden"

GoneIsKept ==
  [][(Gone /\ ~Gone') => \/ \E o \in Copies : BringsBack(o)
                         \/ \E w \in Writers : Exposed(w)]_vars
=============================================================================
