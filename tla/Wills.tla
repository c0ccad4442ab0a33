-------------------------------- MODULE Wills --------------------------------
(***************************************************************************)
(* The wills: contracts on the chain that give what they hold to the heirs *)
(* when their owner falls silent.  The last will (type 0; 24 on the        *)
(* Binance network), the wallet for lost keys (1; 25), the same with       *)
(* tokens (19; 31) and the deferred payment (2; 26)                        *)
(* (lastwill/contracts/submodels/lastwill.py, lostkey.py, deffered.py).    *)
(*                                                                         *)
(* A will lives by the calls of four processes that share its rows: the    *)
(* checker, which asks the receiver for a check when one is due and ends   *)
(* the will at active_to; the receiver, which sends the calls and handles  *)
(* what they did; the owner's requests (i_am_alive, cancel); and the       *)
(* network.  Times are moments of a coarse clock.                          *)
(***************************************************************************)
EXTENDS Integers, ContractRow

CONSTANTS
  Interval,    \* check_interval
  ActiveTo,    \* active_to; for a deferred payment its date
  MaxPayments  \* bound on the payments to the bitcoin address of a will

ASSUME TimesAreMoments == Interval \in Times \ {0} /\ ActiveTo \in Times
ASSUME PaymentsAreNat == MaxPayments \in Nat

WillKinds == {"lastwill", "rsklastwill", "binancelastwill", "lostkey",
              "lostkeytokens", "delayedpayment"}

\* contract_type__in=(0, 1, 2, 18, 19, 23) in check_all, without the types
\* whose turn does nothing.  A Rootstock will is checked and cancelled like
\* any last will; here it only takes payments, which no other kind does.
CheckedKinds == {"lastwill", "lostkey", "lostkeytokens"}

\* The kinds with last_press_imalive, i_am_alive() and cancel() among those
\* the two views let through; lostkey is let through and has none of them.
AliveKinds == {"lastwill", "rsklastwill"}

WillStates == {"WAITING_FOR_DEPLOYMENT", "ACTIVE", "TRIGGERED", "KILLED",
               "EXPIRED", "POSTPONED"}

VARIABLES
  next_check,  \* details.next_check, NoTime for NULL
  pressed,     \* details.last_press_imalive, NoTime for NULL
  btc_duty,    \* details.btc_duty, in payments
  checker,     \* the checker's copy of the row: it has one, or none
  pressing,    \* the i_am_alive request and the details it read
  history      \* what no row keeps and the properties speak of

willDetails == <<next_check, pressed, btc_duty>>
willOthers  == <<checker, pressing>>
willVars    == <<willDetails, willOthers, history>>

Confirm  == [type |-> "confirm_alive"]
Cancel   == [type |-> "cancel"]
Check    == [type |-> "check_contract"]
Repeat   == [type |-> "repeat_check"]
Checked  == [type |-> "checked"]
Trigger  == [type |-> "triggered"]
Killed   == [type |-> "killed"]
Notified == [type |-> "notified"]
Payment  == [type |-> "contractPayment"]
MakePay  == [type |-> "make_payment"]
Funds(v) == [type |-> "fundsAdded", value |-> v]

\* Every payment counted once, and one of them once more after every crash.
MaxDuty == MaxPayments + MaxTroubles

WillMessages ==
  {Launch, Confirm, Cancel, Check, Repeat, Checked, Trigger, Killed, Notified,
   Payment, MakePay}
    \cup [type: {"deployed"}, success: BOOLEAN]
    \cup [type: {"transactionCompleted"}, hash: 1..MaxTxs]
    \cup [type: {"fundsAdded"}, value: 0..MaxDuty]

NoRequest == [step |-> "idle", next_check |-> NoTime, btc_duty |-> 0]

\* What happened that the rows do not tell:
\*   received, funded  payments counted by contractPayment and fundsAdded
\*   unscheduled       msg_deployed was cut off between its two saves
\*   recounted         a payment's message is handled a second time
\*   overwritten       i_am_alive wrote back details that had changed
NoHistory == [received |-> 0, funded |-> 0, unscheduled |-> FALSE,
              overwritten |-> FALSE, recounted |-> FALSE]

WillTypeOK ==
  /\ kind \in WillKinds
  /\ state \in WillStates
  /\ \A i \in DOMAIN ready : ready[i] \in WillMessages
  /\ next_check \in Times \cup {NoTime}
  /\ pressed \in Times \cup {NoTime}
  /\ btc_duty \in Int /\ btc_duty <= MaxDuty
  /\ checker \in {"idle", "read"}
  /\ pressing.step \in {"idle", "published"}
  /\ history.unscheduled \in BOOLEAN

\* The row as the deploy view leaves it: paid for, its launch in the queue.
WillInit ==
  /\ kind \in WillKinds
  /\ state = "WAITING_FOR_DEPLOYMENT"
  /\ onChain = "none"
  /\ ready = <<Launch>>
  /\ next_check = NoTime
  /\ pressed = NoTime
  /\ btc_duty = 0
  /\ checker = "idle"
  /\ pressing = NoRequest
  /\ history = NoHistory
-----------------------------------------------------------------------------
(***************************************************************************)
(* 'deployed': msg_deployed of the kind, after that of CommonDetails.      *)
(***************************************************************************)
\* Seeded bug: msg_deployed of the will is only that of CommonDetails.
NotScheduled(moment) == NoTime

\* timezone.now() + timedelta(seconds=check_interval)
Scheduled(moment) == IF moment + Interval <= MaxTime
                     THEN moment + Interval ELSE MaxTime

\* super().msg_deployed() saves the contract as ACTIVE, the details are saved
\* after it; a deferred payment has nothing more to save.
WillDeployed ==
  /\ DeployedAccepted
  /\ lockedBy' = TakeOff
  /\ state' = "ACTIVE"
  /\ next_check' = IF kind = "delayedpayment" THEN NoTime ELSE Scheduled(now)
  /\ Acknowledge
  /\ UNCHANGED <<kind, network, now, pressed, btc_duty, willOthers,
                 history>>

\* The process dies between the two saves: ACTIVE, and no next_check.
WillDeployedCutOff ==
  /\ DeployedAccepted
  /\ lockedBy' = TakeOff
  /\ state' = "ACTIVE"
  /\ DeliveredAgain
  /\ history' = [history EXCEPT !.unscheduled = TRUE]
  /\ UNCHANGED <<kind, network, now, willDetails, willOthers>>

\* A mail of CommonDetails.msg_deployed is refused after ACTIVE was saved.
WillDeployedNotMailed ==
  /\ DeployedAccepted
  /\ state' = "POSTPONED"
  /\ lockedBy' = TakeOff
  /\ LeaveUnacked
  /\ UNCHANGED <<kind, network, now, willVars>>
-----------------------------------------------------------------------------
(***************************************************************************)
(* The checker: check_all reads all ACTIVE contracts in one query and then *)
(* takes them one by one, with their details read anew.                    *)
(***************************************************************************)
\* elif details.next_check and details.next_check <= timezone.now()
Due == next_check # NoTime /\ next_check <= now

\* Seeded bug: the end of a will is looked for only when a check is due.
PastActiveToAndDue == ActiveTo < now /\ Due

\* if contract.details.active_to < timezone.now()
PastActiveTo == ActiveTo < now

\* Only a round that finds something to do for this will is a step.
CheckerReads ==
  /\ checker = "idle"
  /\ state = "ACTIVE"
  /\ kind \in CheckedKinds
  /\ PastActiveTo \/ Due
  /\ checker' = "read"
  /\ UNCHANGED <<rowVars, willDetails, pressing, history>>

\* active_to has passed: the row read before is saved whole, as EXPIRED.
CheckerExpires ==
  /\ checker = "read"
  /\ PastActiveTo
  /\ state' = "EXPIRED"
  /\ checker' = "idle"
  /\ UNCHANGED <<kind, lockedBy, queue, network, now, troubles, willDetails,
                  pressing, history>>

\* send_in_pika, in every round until 'checked' moves next_check.
CheckerAsks ==
  /\ checker = "read"
  /\ ~PastActiveTo
  /\ Due
  /\ Publish(Check)
  /\ checker' = "idle"
  /\ UNCHANGED <<kind, state, lockedBy, network, now, troubles, willDetails,
                  pressing, history>>

\* Nothing is due, or the broker does not take the message: 'fail'.
CheckerPasses ==
  /\ checker = "read"
  /\ ~PastActiveTo
  /\ ~Due \/ Len(ready) + Len(unacked) >= MaxQueue
  /\ checker' = "idle"
  /\ UNCHANGED <<rowVars, willDetails, pressing, history>>
-----------------------------------------------------------------------------
(***************************************************************************)
(* The owner's requests, of kinds 0, 1 and 18, and the other messages that *)
(* are published for a will.                                               *)
(***************************************************************************)
ViewKinds == {"lastwill", "lostkey"}

\* i_am_alive: the details are read, the last press is at least a day old,
\* and the message is published before the press is saved.  For a lost key
\* the view raises: there is no last_press_imalive.
PressAlive ==
  /\ pressing.step = "idle"
  /\ state = "ACTIVE"
  /\ kind \in AliveKinds
  /\ pressed = NoTime \/ pressed < now
  /\ Publish(Confirm)
  /\ pressing' = [step |-> "published", next_check |-> next_check,
                  btc_duty |-> btc_duty]
  /\ UNCHANGED <<kind, state, lockedBy, network, now, troubles, willDetails,
                  checker, history>>

\* details.save() writes back every column that was read.
PressSaved ==
  /\ pressing.step = "published"
  /\ pressed' = now
  /\ next_check' = pressing.next_check
  /\ btc_duty' = pressing.btc_duty
  /\ pressing' = NoRequest
  /\ history' = [history EXCEPT !.overwritten =
                   @ \/ pressing.next_check # next_check
                     \/ pressing.btc_duty # btc_duty]
  /\ UNCHANGED <<rowVars, checker>>

\* cancel, also for a will that has EXPIRED.
PressCancel ==
  /\ state \in {"ACTIVE", "EXPIRED"}
  /\ kind \in ViewKinds
  /\ \A i \in DOMAIN ready : ready[i] # Cancel
  /\ \A i \in DOMAIN unacked : unacked[i] # Cancel
  /\ Len(chain) < MaxTxs
  /\ Publish(Cancel)
  /\ UNCHANGED <<kind, state, lockedBy, network, now, troubles, willVars>>

\* Bitcoin arrives at btc_key; the daemon that watches it publishes.
BitcoinArrives ==
  /\ kind = "rsklastwill"
  /\ onChain = "alive"
  /\ history.received < MaxPayments
  /\ Publish(Payment)
  /\ history' = [history EXCEPT !.received = @ + 1]
  /\ UNCHANGED <<kind, state, lockedBy, network, now, troubles, willDetails,
                 willOthers>>
-----------------------------------------------------------------------------
(***************************************************************************)
(* The receiver's handlers of the messages of a will.                      *)
(***************************************************************************)
\* 'checked'.  The end of a will is left to the checker ...
ChecksAgain == now + Interval < ActiveTo

Rescheduled ==
  /\ next_check' = IF ChecksAgain THEN Scheduled(now) ELSE NoTime
  /\ lockedBy' = TakeOffFor(lockedBy, This)

LastwillChecked ==
  /\ kind \in {"lastwill", "rsklastwill", "binancelastwill"}
  /\ Rescheduled
  /\ UNCHANGED state

\* ... a lost key that will not be checked again is EXPIRED, whatever state it
\* is in, ...
LostKeyEnds == state' = IF ChecksAgain THEN state ELSE "EXPIRED"

LostKeyChecked       == kind = "lostkey" /\ Rescheduled /\ LostKeyEnds
LostKeyTokensChecked == kind = "lostkeytokens" /\ Rescheduled /\ LostKeyEnds

\* ... and a deferred payment does nothing.
DelayedPaymentChecked ==
  /\ kind = "delayedpayment"
  /\ UNCHANGED <<state, lockedBy, next_check>>

WillChecked ==
  /\ Receiving("checked")
  /\ \/ LastwillChecked \/ LostKeyChecked
     \/ LostKeyTokensChecked \/ DelayedPaymentChecked
  /\ Acknowledge
  /\ UNCHANGED <<kind, network, now, pressed, btc_duty, willOthers,
                 history>>

\* 'triggered': the details first, then the mails to the heirs, then the
\* contract.  The lock stays with the will.
LastwillTriggered ==
  /\ kind \in {"lastwill", "rsklastwill", "binancelastwill", "lostkeytokens"}
  /\ next_check' = NoTime

LostKeyTriggered == kind = "lostkey" /\ next_check' = NoTime

\* It has no next check, and a mail to the recipient.
DelayedPaymentTriggered == kind = "delayedpayment" /\ UNCHANGED next_check

WillTriggered ==
  /\ Receiving("triggered")
  /\ LastwillTriggered \/ LostKeyTriggered \/ DelayedPaymentTriggered
  /\ state' = "TRIGGERED"
  /\ Acknowledge
  /\ UNCHANGED <<kind, lockedBy, network, now, pressed, btc_duty, willOthers, history>>

\* A mail to an heir is refused: the will still looks ACTIVE.
WillTriggeredNotMailed ==
  /\ Receiving("triggered")
  /\ LastwillTriggered \/ LostKeyTriggered \/ DelayedPaymentTriggered
  /\ LeaveUnacked
  /\ UNCHANGED <<kind, state, lockedBy, network, now, pressed, btc_duty,
                 willOthers, history>>

\* 'killed'
WillKilled ==
  /\ Receiving("killed")
  /\ state' = "KILLED"
  /\ lockedBy' = TakeOffFor(lockedBy, This)
  /\ Acknowledge
  /\ UNCHANGED <<kind, network, now, willVars>>

\* 'check_contract' and 'repeat_check': @blocking check_contract(), in any
\* state; the hash of the transaction is not kept.
WillCheckContract ==
  /\ Receiving("check_contract") \/ Receiving("repeat_check")
  /\ lockedBy' = Blocking(lockedBy, This)
  /\ \/ Send("check", {}) /\ Acknowledge
     \/ SendsNothing /\ LeaveUnacked
  /\ UNCHANGED <<kind, state, txHash, now, willVars>>

\* 'confirm_alive': @blocking i_am_alive().  When a press was saved before,
\* the address is freed (Contract.address is never set, so take_off_blocking
\* frees the network's) and the call is made all the same.
WillConfirmAlive ==
  /\ Receiving("confirm_alive")
  /\ lockedBy' = IF pressed # NoTime THEN TakeOff
                                     ELSE Blocking(lockedBy, This)
  /\ \/ Send("imAvailable", {}) /\ txHash' = Len(chain') /\ Acknowledge
     \/ UNCHANGED network /\ LeaveUnacked
  /\ UNCHANGED <<kind, state, now, willVars>>

\* 'cancel': @blocking cancel().  A lost key has no such method.
WillCancel ==
  /\ Receiving("cancel")
  /\ IF kind = "lostkey"
       THEN UNCHANGED <<lockedBy, network>> /\ LeaveUnacked
       ELSE /\ lockedBy' = Blocking(lockedBy, This)
            /\ \/ Send("kill", {}) /\ txHash' = Len(chain') /\ Acknowledge
               \/ UNCHANGED network /\ LeaveUnacked
  /\ UNCHANGED <<kind, state, now, willVars>>

\* 'notified' sets details.last_reset, which nothing reads.
WillNotified ==
  /\ Receiving("notified")
  /\ Acknowledge
  /\ UNCHANGED <<kind, state, lockedBy, network, now, willVars>>

\* 'contractPayment', of the Rootstock network only: the duty grows in one
\* UPDATE, and make_payment is published.
WillContractPayment ==
  /\ Receiving("contractPayment")
  /\ kind = "rsklastwill"
  /\ btc_duty' = btc_duty + 1
  /\ \/ /\ ready' = Append(Tail(ready), MakePay)
        /\ UNCHANGED <<unacked, troubles, history>>
     \/ /\ \/ LeaveUnacked
           \/ Trouble /\ ready' = unacked \o Append(ready, MakePay)
                    /\ unacked' = <<>>
        /\ history' = [history EXCEPT !.recounted = TRUE]
  /\ UNCHANGED <<kind, state, lockedBy, network, now, next_check, pressed,
                 willOthers>>

\* 'make_payment': @blocking make_payment().  All of the duty is paid.  With
\* too little on the platform's address a mail is all that happens.
WillMakePayment ==
  /\ Receiving("make_payment")
  /\ lockedBy' = Blocking(lockedBy, This)
  /\ \/ btc_duty >= 0 /\ Send("payment", {btc_duty}) /\ Acknowledge
     \/ SendsNothing /\ Acknowledge
     \/ SendsNothing /\ LeaveUnacked
  /\ UNCHANGED <<kind, state, txHash, now, willVars>>

\* Seeded bug: the duty is not lowered.
DutyKept(duty, value) == duty

DutyPaid(duty, value) == duty - value

\* 'fundsAdded', of the Rootstock network only; it frees the whole network.
WillFundsAdded ==
  /\ Receiving("fundsAdded")
  /\ kind = "rsklastwill"
  /\ btc_duty' = DutyPaid(btc_duty, Message.value)
  /\ lockedBy' = TakeOff
  /\ \/ Ack /\ UNCHANGED <<troubles, history>>
     \/ DeliveredAgain /\ history' = [history EXCEPT !.recounted = TRUE]
  /\ UNCHANGED <<kind, state, network, now, next_check, pressed, willOthers>>
-----------------------------------------------------------------------------
(***************************************************************************)
(* The contract on the chain, which is not in this repository: check()     *)
(* finds the owner alive or gives everything to the heirs, kill() ends it, *)
(* imAvailable() reports the owner alive.                                  *)
(***************************************************************************)
WillMined ==
  /\ \E i \in DOMAIN chain :
       \/ /\ \/ CallMined(i, "check", Checked, "alive")
             \/ CallMined(i, "check", Trigger, "over")
             \/ kind = "lostkeytokens" /\ CallMined(i, "check", Repeat, "alive")
             \/ CallMined(i, "imAvailable", Notified, "alive")
             \/ CallMined(i, "kill", Killed, "over")
          /\ UNCHANGED history
       \/ \E v \in chain[i].with :
            /\ CallMined(i, "payment", Funds(v), "alive")
            /\ history' = [history EXCEPT !.funded = @ + v]
  /\ UNCHANGED <<willDetails, willOthers>>

\* A deferred payment pays at its date, whoever asks for it.
DelayedPaymentPays ==
  /\ kind = "delayedpayment"
  /\ onChain = "alive"
  /\ now >= ActiveTo
  /\ ready' = Append(ready, Trigger)
  /\ onChain' = "over"
  /\ UNCHANGED <<kind, state, lockedBy, unacked, txHash, chain, now, troubles,
                 willVars>>

WillReceives ==
  \/ WillDeployed \/ WillDeployedCutOff \/ WillDeployedNotMailed
  \/ WillChecked \/ WillTriggered \/ WillTriggeredNotMailed \/ WillKilled
  \/ WillCheckContract \/ WillConfirmAlive \/ WillCancel \/ WillNotified
  \/ WillContractPayment \/ WillMakePayment \/ WillFundsAdded

WillChecks == CheckerReads \/ CheckerExpires \/ CheckerAsks \/ CheckerPasses

WillNext ==
  \/ RowNext /\ UNCHANGED willVars
  \/ Tick /\ UNCHANGED willVars
  \/ WillReceives
  \/ WillChecks
  \/ PressAlive \/ PressSaved \/ PressCancel \/ BitcoinArrives
  \/ WillMined \/ DelayedPaymentPays
-----------------------------------------------------------------------------
(***************************************************************************)
(* Properties.                                                             *)
(***************************************************************************)
InQueue(m) == \E i \in DOMAIN ready : ready[i] = m
Undone(m)  == InQueue(m) \/ \E i \in DOMAIN unacked : unacked[i] = m

\* No ACTIVE will is forgotten by the checker: one without a next check has
\* so little time left that its last check would fall after active_to, or
\* its heirs have been paid, unless msg_deployed was cut off between its two
\* saves or the owner's request wrote an old next_check back.
NoWillIsForgotten ==
  (kind \in CheckedKinds /\ state = "ACTIVE" /\ next_check = NoTime) =>
    \/ now + Interval >= ActiveTo
    \/ Undone(Trigger)
    \/ history.unscheduled \/ history.overwritten

PaidInOf(m)  == IF m = Payment THEN 1 ELSE 0
PaidOutOf(m) == IF m.type = "fundsAdded" THEN m.value ELSE 0

\* What the messages of a queue tell of the payments in and out.
PaidInBy(q)  == Total([i \in DOMAIN q |-> PaidInOf(q[i])])
PaidOutBy(q) == Total([i \in DOMAIN q |-> PaidOutOf(q[i])])

\* What the platform owes a will (btc_duty) and what the queue has yet to
\* tell of it are what was paid in less what was paid out, although a view
\* and the receiver write the same row, unless a message is handled twice
\* or the owner's request wrote an old duty back.
DutyAddsUp ==
  \/ kind # "rsklastwill" \/ history.recounted \/ history.overwritten
  \/ btc_duty + PaidInBy(ready) + PaidInBy(unacked)
         - PaidOutBy(ready) - PaidOutBy(unacked)
       = history.received - history.funded

\* A will that the checker watches does not stay ACTIVE for ever: it is
\* triggered, killed, postponed, or the checker sees it EXPIRED.
WillsEnd == (kind \in CheckedKinds /\ state = "ACTIVE") ~> (state # "ACTIVE")
=============================================================================
