------------------------------ MODULE Payments ------------------------------
(***************************************************************************)
(* One user's balance on one of the prepaid sites (SWAPS, subsite 4, or    *)
(* the token protector, subsite 5).                                        *)
(*                                                                         *)
(* A scanner outside this repository announces each deposit as a 'payment' *)
(* message on the queue of the deposit's network.  The network's Receiver  *)
(* credits it and then runs autodeploing, which launches the contracts     *)
(* that wait for payment.  A user's confirmation of a contract runs the    *)
(* same autodeploing in the web application, at the same time.  Every      *)
(* statement on the database stands alone: only the two updates of the     *)
(* balance are transactions.                                               *)
(***************************************************************************)
EXTENDS Integers, Sequences, FiniteSets

CONSTANTS
  Receivers,    \* receiver threads, one per network
  Confirmers,   \* web requests to confirm_swaps_info / confirm_protector_info
  Contracts,    \* the user's contracts on the site
  Txs,          \* deposits, by transaction hash
  Amounts,      \* amounts a deposit may have, in the site's currency
  Cost,         \* the site's price of a contract
  OnlyNewest,   \* the token protector, where autodeploing stops after one
  Nothing,      \* no contract, no deposit: the empty tx_hash
  MaxAnnounced, \* bound on messages: more than |Txs| allows duplicates
  MaxFaults     \* bound on crashes and on statements that fail

ASSUME ProcessesAreDistinct == Receivers \cap Confirmers = {}
ASSUME PricesArePositive == Cost \in Nat \ {0} /\ Amounts \subseteq Nat \ {0}
ASSUME NothingIsNothing == Nothing \notin Txs \cup Contracts \cup Receivers
ASSUME PaymentBounds ==
  MaxAnnounced \in Nat /\ MaxFaults \in Nat /\ OnlyNewest \in BOOLEAN

Processes == Receivers \cup Confirmers

States == {"CREATED", "WAITING_FOR_PAYMENT", "WAITING_FOR_DEPLOYMENT"}

VARIABLES
  balance,     \* UserSiteBalance.balance
  frozen,      \* what freeze_payments has taken its share of
  ledger,      \* [Txs or Nothing -> Nat]: InternalPayment rows with that tx_hash
  state,       \* [Contracts -> States]: Contract.state
  deposit,     \* each deposit: its network and amount, once it is on chain
  ready,       \* [Receivers -> Seq(Txs)]: messages to be handled
  unacked,     \* [Receivers -> Seq(Txs)]: messages whose handler failed
  pc,          \* the next statement of each process
  tx,          \* the deposit a receiver has in hand
  contract,    \* the contract a process works on
  todo,        \* contracts a process's loop has still to visit
  seen,        \* the balance a process's autodeploing has read
  launches,    \* times a launch was published for the contract
  charged,     \* what was taken from the balance for the contract
  credited,    \* times the deposit was added to the balance
  interrupted, \* times the deposit's handling broke off between the two
  announced,   \* messages published so far
  faults       \* crashes and failures so far

account == <<balance, frozen, ledger>>
broker  == <<deposit, ready, unacked, announced>>
local   == <<pc, tx, contract, todo, seen>>
history == <<launches, charged, credited, interrupted>>
vars    == <<account, state, broker, local, history, faults>>

NotPaid == [network |-> Nothing, amount |-> 0]

AutoSteps == {"auto", "list", "next", "open", "funds", "debit", "retry",
              "debited", "save", "send", "refresh"}
Steps == {"idle", "credit", "record", "new", "others", "saveOthers", "confirm",
          "done"} \cup AutoSteps

TypeOK ==
  /\ balance \in Int
  /\ frozen \in Nat
  /\ ledger \in [Txs \cup {Nothing} -> Nat]
  /\ state \in [Contracts -> States]
  /\ deposit \in [Txs -> [network: Receivers, amount: Amounts] \cup {NotPaid}]
  /\ ready \in [Receivers -> Seq(Txs)]
  /\ unacked \in [Receivers -> Seq(Txs)]
  /\ pc \in [Processes -> Steps]
  /\ tx \in [Processes -> Txs \cup {Nothing}]
  /\ contract \in [Processes -> Contracts \cup {Nothing}]
  /\ todo \in [Processes -> SUBSET Contracts]
  /\ seen \in [Processes -> Int]
  /\ launches \in [Contracts -> Nat]
  /\ charged \in [Contracts -> Nat]
  /\ credited \in [Txs -> Nat]
  /\ interrupted \in [Txs -> Nat]
  /\ announced \in 0..MaxAnnounced
  /\ faults \in 0..MaxFaults

Init ==
  /\ balance = 0
  /\ frozen = 0
  /\ ledger = [t \in Txs \cup {Nothing} |-> 0]
  /\ state \in [Contracts -> {"CREATED", "WAITING_FOR_PAYMENT"}]
  /\ deposit = [t \in Txs |-> NotPaid]
  /\ ready = [r \in Receivers |-> << >>]
  /\ unacked = [r \in Receivers |-> << >>]
  /\ pc = [p \in Processes |-> IF p \in Receivers THEN "idle" ELSE "new"]
  /\ tx = [p \in Processes |-> Nothing]
  /\ contract = [p \in Processes |-> Nothing]
  /\ todo = [p \in Processes |-> {}]
  /\ seen = [p \in Processes |-> 0]
  /\ launches = [c \in Contracts |-> 0]
  /\ charged = [c \in Contracts |-> 0]
  /\ credited = [t \in Txs |-> 0]
  /\ interrupted = [t \in Txs |-> 0]
  /\ announced = 0
  /\ faults = 0

\* Process p is at statement from, and goes on to statement to.
Go(p, from, to) == pc[p] = from /\ pc' = [pc EXCEPT ![p] = to]

\* The price, or at least 95% of it.
Enough(money) == 100 * money >= 95 * Cost
-----------------------------------------------------------------------------
(***************************************************************************)
(* The user and the scanner.  A deposit is announced on the queue of its   *)
(* own network, possibly more than once.                                   *)
(***************************************************************************)
Announce(t, r) ==
  /\ announced < MaxAnnounced
  /\ announced' = announced + 1
  /\ \/ deposit[t] = NotPaid
        /\ \E a \in Amounts :
             deposit' = [deposit EXCEPT ![t] = [network |-> r, amount |-> a]]
     \/ deposit[t].network = r /\ UNCHANGED deposit
  /\ ready' = [ready EXCEPT ![r] = Append(@, t)]
  /\ UNCHANGED <<account, state, unacked, local, history, faults>>
-----------------------------------------------------------------------------
(***************************************************************************)
(* receiver.payment and create_payment of a deposit.                       *)
(***************************************************************************)
\* 'tx hash already processed': PaymentAlreadyRegistered, which is acked.
PaymentRepeated(r) ==
  /\ pc[r] = "idle" /\ ready[r] # << >>
  /\ ledger[Head(ready[r])] > 0
  /\ ready' = [ready EXCEPT ![r] = Tail(@)]
  /\ UNCHANGED <<account, state, deposit, unacked, announced, local, history,
                 faults>>

\* Seeded bug: the deposit is not looked up among the InternalPayment rows.
PaymentTakenUnseen(r) ==
  /\ Go(r, "idle", "credit") /\ ready[r] # << >>
  /\ tx' = [tx EXCEPT ![r] = Head(ready[r])]
  /\ ready' = [ready EXCEPT ![r] = Tail(@)]
  /\ UNCHANGED <<account, state, deposit, unacked, announced, contract, todo,
                 seen, history, faults>>

PaymentTaken(r) ==
  /\ Go(r, "idle", "credit") /\ ready[r] # << >>
  /\ ledger[Head(ready[r])] = 0
  /\ tx' = [tx EXCEPT ![r] = Head(ready[r])]
  /\ ready' = [ready EXCEPT ![r] = Tail(@)]
  /\ UNCHANGED <<account, state, deposit, unacked, announced, contract, todo,
                 seen, history, faults>>

\* positive_payment: one UPDATE of the balance.
PaymentCredited(r) ==
  /\ Go(r, "credit", "record")
  /\ balance' = balance + deposit[tx[r]].amount
  /\ credited' = [credited EXCEPT ![tx[r]] = @ + 1]
  /\ UNCHANGED <<frozen, ledger, state, broker, tx, contract, todo, seen,
                 launches, charged, interrupted, faults>>

\* The InternalPayment row; then receiver.payment calls autodeploing.
PaymentRecorded(r) ==
  /\ Go(r, "record", "auto")
  /\ ledger' = [ledger EXCEPT ![tx[r]] = @ + 1]
  /\ UNCHANGED <<balance, frozen, state, broker, tx, contract, todo, seen,
                 history, faults>>
-----------------------------------------------------------------------------
(***************************************************************************)
(* autodeploing(user, site): reads the balance, then the waiting           *)
(* contracts, and visits them one after the other.                         *)
(***************************************************************************)
ReadBalance(p) ==
  /\ Go(p, "auto", "list")
  /\ seen' = [seen EXCEPT ![p] = balance]
  /\ UNCHANGED <<account, state, broker, tx, contract, todo, history, faults>>

ListWaiting(p) ==
  /\ Go(p, "list", "next")
  /\ todo' = [todo EXCEPT ![p] =
                {c \in Contracts : state[c] = "WAITING_FOR_PAYMENT"}]
  /\ UNCHANGED <<account, state, broker, tx, contract, seen, history, faults>>

Visit(p, c) ==
  /\ c \in todo[p]
  /\ Go(p, "next", IF Enough(seen[p]) THEN "open" ELSE "refresh")
  /\ contract' = [contract EXCEPT ![p] = c]
  /\ todo' = [todo EXCEPT ![p] = IF OnlyNewest THEN {} ELSE @ \ {c}]
  /\ UNCHANGED <<account, state, broker, tx, seen, history, faults>>

\* The receiver acks its message, the web request answers.
AutodeployDone(p) ==
  /\ todo[p] = {}
  /\ Go(p, "next", IF p \in Receivers THEN "idle" ELSE "done")
  /\ tx' = [tx EXCEPT ![p] = Nothing]
  /\ contract' = [contract EXCEPT ![p] = Nothing]
  /\ UNCHANGED <<account, state, broker, todo, seen, history, faults>>

(***************************************************************************)
(* deploy_swaps / deploy_protector(contract): reads the contract, then the *)
(* balance, charges, saves the contract's row as it was read but for the   *)
(* state, and publishes the launch.                                        *)
(***************************************************************************)
OpenContract(p) ==
  /\ Go(p, "open", IF state[contract[p]] = "WAITING_FOR_PAYMENT"
                     THEN "funds" ELSE "refresh")
  /\ UNCHANGED <<account, state, broker, tx, contract, todo, seen, history,
                 faults>>

CheckFunds(p) ==
  /\ Go(p, "funds", IF Enough(balance) THEN "debit" ELSE "refresh")
  /\ UNCHANGED <<account, state, broker, tx, contract, todo, seen, history,
                 faults>>

\* Seeded bug: the UPDATE does not compare the balance with the value.
NegativePaymentBlind(c, value) ==
  /\ balance' = balance - value
  /\ charged' = [charged EXCEPT ![c] = @ + value]
  /\ frozen' = frozen + value

\* negative_payment: the UPDATE matches no row when the balance is lower
\* than the value, and nothing is raised.  freeze_payments is called anyway,
\* in the same transaction.
NegativePayment(c, value) ==
  /\ \/ balance >= value
        /\ balance' = balance - value
        /\ charged' = [charged EXCEPT ![c] = @ + value]
     \/ balance < value
        /\ UNCHANGED <<balance, charged>>
  /\ frozen' = frozen + value

\* Seeded bug: the negative amount is passed on with its sign.
DebitSigned(p) ==
  /\ Go(p, "debit", "debited")
  /\ NegativePayment(contract[p], 0 - Cost)
  /\ UNCHANGED <<ledger, state, broker, tx, contract, todo, seen, launches,
                 credited, interrupted, faults>>

Debit(p) ==
  /\ Go(p, "debit", "debited")
  /\ NegativePayment(contract[p], Cost)
  /\ UNCHANGED <<ledger, state, broker, tx, contract, todo, seen, launches,
                 credited, interrupted, faults>>

\* The database refuses: '-5% payment', a second try with 95% of the price.
DebitFails(p) ==
  /\ faults < MaxFaults
  /\ faults' = faults + 1
  /\ Go(p, "debit", "retry")
  /\ UNCHANGED <<account, state, broker, tx, contract, todo, seen, history>>

DebitAgain(p) ==
  /\ Go(p, "retry", "debited")
  /\ NegativePayment(contract[p], (95 * Cost) \div 100)
  /\ UNCHANGED <<ledger, state, broker, tx, contract, todo, seen, launches,
                 credited, interrupted, faults>>

RecordDebit(p) ==
  /\ Go(p, "debited", "save")
  /\ ledger' = [ledger EXCEPT ![Nothing] = @ + 1]
  /\ UNCHANGED <<balance, frozen, state, broker, tx, contract, todo, seen,
                 history, faults>>

SaveContract(p) ==
  /\ Go(p, "save", "send")
  /\ state' = [state EXCEPT ![contract[p]] = "WAITING_FOR_DEPLOYMENT"]
  /\ UNCHANGED <<account, broker, tx, contract, todo, seen, history, faults>>

SendLaunch(p) ==
  /\ Go(p, "send", "refresh")
  /\ launches' = [launches EXCEPT ![contract[p]] = @ + 1]
  /\ UNCHANGED <<account, state, broker, tx, contract, todo, seen, charged,
                 credited, interrupted, faults>>

\* bb.refresh_from_db().
RefreshBalance(p) ==
  /\ Go(p, "refresh", "next")
  /\ seen' = [seen EXCEPT ![p] = balance]
  /\ UNCHANGED <<account, state, broker, tx, contract, todo, history, faults>>
-----------------------------------------------------------------------------
(***************************************************************************)
(* confirm_swaps_info / confirm_protector_info.  The former first saves    *)
(* again every contract that waits for payment, from rows it has read.     *)
(***************************************************************************)
ConfirmRead(q, c) ==
  /\ state[c] = "CREATED"
  /\ Go(q, "new", IF OnlyNewest THEN "confirm" ELSE "others")
  /\ contract' = [contract EXCEPT ![q] = c]
  /\ UNCHANGED <<account, state, broker, tx, todo, seen, history, faults>>

ListOthers(q) ==
  /\ Go(q, "others", "saveOthers")
  /\ todo' = [todo EXCEPT ![q] =
                {c \in Contracts : state[c] = "WAITING_FOR_PAYMENT"}]
  /\ UNCHANGED <<account, state, broker, tx, contract, seen, history, faults>>

SaveOther(q, c) ==
  /\ pc[q] = "saveOthers" /\ c \in todo[q]
  /\ state' = [state EXCEPT ![c] = "WAITING_FOR_PAYMENT"]
  /\ todo' = [todo EXCEPT ![q] = @ \ {c}]
  /\ UNCHANGED <<account, broker, pc, tx, contract, seen, history, faults>>

OthersSaved(q) ==
  /\ todo[q] = {}
  /\ Go(q, "saveOthers", "confirm")
  /\ UNCHANGED <<account, state, broker, tx, contract, todo, seen, history,
                 faults>>

ConfirmSave(q) ==
  /\ Go(q, "confirm", "auto")
  /\ state' = [state EXCEPT ![contract[q]] = "WAITING_FOR_PAYMENT"]
  /\ UNCHANGED <<account, broker, tx, contract, todo, seen, history, faults>>
-----------------------------------------------------------------------------
(***************************************************************************)
(* Failures.  A handler that raises leaves its message with the broker,    *)
(* neither acked nor nacked; a receiver process that dies is started       *)
(* again (docker-compose: restart always) and gets back every message it   *)
(* has not acked.                                                          *)
(***************************************************************************)
\* The deposits whose handling would break off between credit and record.
HalfDone(rs) == {t \in Txs : \E r \in rs : pc[r] = "record" /\ tx[r] = t}

Interrupt(rs) ==
  interrupted' = [t \in Txs |->
                    interrupted[t] + IF t \in HalfDone(rs) THEN 1 ELSE 0]

Reset(ps, step) ==
  /\ pc' = [p \in Processes |-> IF p \in ps THEN step ELSE pc[p]]
  /\ tx' = [p \in Processes |-> IF p \in ps THEN Nothing ELSE tx[p]]
  /\ contract' = [p \in Processes |-> IF p \in ps THEN Nothing ELSE contract[p]]
  /\ todo' = [p \in Processes |-> IF p \in ps THEN {} ELSE todo[p]]
  /\ UNCHANGED seen

\* Seeded bug: a message is acked before it is handled.
PaymentRaisesAcked(r) ==
  /\ faults < MaxFaults
  /\ faults' = faults + 1
  /\ pc[r] # "idle"
  /\ Interrupt({r})
  /\ Reset({r}, "idle")
  /\ UNCHANGED <<account, state, broker, launches, charged, credited>>

PaymentRaises(r) ==
  /\ faults < MaxFaults
  /\ faults' = faults + 1
  /\ pc[r] # "idle"
  /\ unacked' = [unacked EXCEPT ![r] = Append(@, tx[r])]
  /\ Interrupt({r})
  /\ Reset({r}, "idle")
  /\ UNCHANGED <<account, state, deposit, ready, announced, launches, charged,
                 credited>>

ReceiverRestart ==
  /\ faults < MaxFaults
  /\ faults' = faults + 1
  /\ ready' = [r \in Receivers |->
                 (IF pc[r] = "idle" THEN unacked[r] ELSE Append(unacked[r], tx[r]))
                   \o ready[r]]
  /\ unacked' = [r \in Receivers |-> << >>]
  /\ Interrupt(Receivers)
  /\ Reset(Receivers, "idle")
  /\ UNCHANGED <<account, state, deposit, announced, launches, charged,
                 credited>>

RequestDies(q) ==
  /\ faults < MaxFaults
  /\ faults' = faults + 1
  /\ pc[q] \notin {"new", "done"}
  /\ Reset({q}, "done")
  /\ UNCHANGED <<account, state, broker, history>>
-----------------------------------------------------------------------------
Deposits == \E t \in Txs, r \in Receivers : Announce(t, r)

Receive(r) == \/ PaymentRepeated(r)
              \/ PaymentTaken(r)
              \/ PaymentCredited(r)
              \/ PaymentRecorded(r)

Autodeploy(p) == \/ ReadBalance(p)
                 \/ ListWaiting(p)
                 \/ \E c \in Contracts : Visit(p, c)
                 \/ AutodeployDone(p)
                 \/ OpenContract(p)
                 \/ CheckFunds(p)
                 \/ Debit(p)
                 \/ DebitFails(p)
                 \/ DebitAgain(p)
                 \/ RecordDebit(p)
                 \/ SaveContract(p)
                 \/ SendLaunch(p)
                 \/ RefreshBalance(p)

Confirm(q) == \/ \E c \in Contracts : ConfirmRead(q, c) \/ SaveOther(q, c)
              \/ ListOthers(q)
              \/ OthersSaved(q)
              \/ ConfirmSave(q)

Failure == \/ \E r \in Receivers : PaymentRaises(r)
           \/ ReceiverRestart
           \/ \E q \in Confirmers : RequestDies(q)

Next == \/ Deposits
        \/ \E r \in Receivers : Receive(r)
        \/ \E p \in Processes : Autodeploy(p)
        \/ \E q \in Confirmers : Confirm(q)
        \/ Failure

Spec == Init /\ [][Next]_vars
-----------------------------------------------------------------------------
(***************************************************************************)
(* However many processes check the balance and then charge it, none of    *)
(* them overdraws it.                                                      *)
(***************************************************************************)
NeverOverdrawn == balance >= 0

(***************************************************************************)
(* A deposit has at most one InternalPayment row, through duplicate        *)
(* announcements, failed handlers and redelivery after a crash.            *)
(***************************************************************************)
RecordedOnce == \A t \in Txs : ledger[t] <= 1

(***************************************************************************)
(* A deposit is added to the balance once, and once more for each time its *)
(* handling broke off between the balance and the InternalPayment row: no  *)
(* duplicate, restart or interleaving credits it otherwise.                *)
(***************************************************************************)
CreditsExplained ==
  \A t \in Txs :
    /\ credited[t] <= 1 + interrupted[t]
    /\ ledger[t] > 0 => credited[t] > 0

(***************************************************************************)
(* A deposit that was announced is never forgotten: it is recorded, or its *)
(* message is in the queue, in hand, or kept by the broker for the next    *)
(* start of the receiver.                                                  *)
(***************************************************************************)
Holds(q, t) == \E i \in 1..Len(q) : q[i] = t

NeverForgotten ==
  \A t \in Txs : deposit[t] # NotPaid =>
    LET r == deposit[t].network
    IN  \/ ledger[t] > 0
        \/ Holds(ready[r], t)
        \/ Holds(unacked[r], t)
        \/ tx[r] = t

(***************************************************************************)
(* 'tx hash ... already processed' (create_payment in payments/api.py):    *)
(* a deposit is credited once.  The code does not keep this across a       *)
(* crash: see the README.                                                  *)
(***************************************************************************)
CreditedOnce == \A t \in Txs : credited[t] <= 1

(***************************************************************************)
(* '-5% payment' (create_payment in payments/api.py): a user who has 95%   *)
(* of the price is charged 95%, and a launched contract was paid for.  The *)
(* code does not keep this: see the README.                                *)
(***************************************************************************)
LaunchIsPaid == \A c \in Contracts : launches[c] > 0 => Enough(charged[c])
=============================================================================
