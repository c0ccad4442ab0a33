----------------------------- MODULE ContractRow -----------------------------
(***************************************************************************)
(* What the long-lived contracts share: the row of one Contract with its   *)
(* EthContract, the queue of its network, the lock of the network's        *)
(* deployment address and the transactions sent for the contract.  Wills,  *)
(* TokenProtector, Airdrop and Pools each add the details of some          *)
(* kinds of contract; ContractLife composes them.                          *)
(*                                                                         *)
(* DeployQueue models the launch itself with its payments, mails and       *)
(* recompilations.  Here the launch is one step with three outcomes, and   *)
(* the life of the contract that follows it is what matters.               *)
(***************************************************************************)
EXTENDS Naturals, Sequences, FiniteSets, DeployLock

CONSTANTS
  This,       \* the contract
  MaxTxs,     \* bound on the transactions sent for This
  MaxQueue,   \* bound on the messages that wait for the receiver
  MaxTime,    \* bound on the clock
  MaxTroubles \* bound on crashes, exceptions and failed transactions

ASSUME ThisIsAContract == This \in Contracts
ASSUME RowBoundsAreNat == /\ MaxTxs \in Nat /\ MaxQueue \in Nat
                          /\ MaxTime \in Nat /\ MaxTroubles \in Nat

VARIABLES
  kind,      \* what the contract is; fixed when it is drafted
  state,     \* Contract.state
  lockedBy,  \* DeployAddress.locked_by
  ready,     \* messages the receiver will handle, in this order
  unacked,   \* messages whose handler raised: the broker still has them
  txHash,    \* eth_contract.tx_hash, as an index of chain
  chain,     \* the transactions sent for This: the call, and what with
  onChain,   \* the contract there: none, alive, or over
  now,       \* timezone.now()
  troubles   \* crashes, exceptions and failed transactions so far

queue   == <<ready, unacked>>
network == <<txHash, chain, onChain>>
rowVars == <<kind, state, lockedBy, queue, network, now, troubles>>

NoTx    == 0
NoTime  == MaxTime + 1
Times   == 0..MaxTime

\* A transaction that was mined or has failed.
Settled == [call |-> "settled", with |-> {}]

\* "airdrop" is sent by the customer's wallet, the others by the platform.
Calls == {"deploy", "check", "imAvailable", "kill", "payment",
          "addTokenType", "execute", "airdrop",
          "token", "account", "entry", "code", "init"}

\* Messages that every kind of contract receives.
Launch       == [type |-> "launch"]
Deployed(ok) == [type |-> "deployed", success |-> ok]
TxFailed(i)  == [type |-> "transactionCompleted", hash |-> i]

RowInit ==
  /\ lockedBy = NoOne
  /\ unacked = << >>
  /\ txHash = NoTx
  /\ chain = << >>
  /\ now = 0
  /\ troubles = 0

\* The messages there can be: those published while there are fewer than
\* MaxQueue, the launch, two of each transaction that is over, and one for
\* each handler that published and died.
MaxHeld == MaxQueue + 1 + 2 * MaxTxs + MaxTroubles

RowTypeOK ==
  /\ lockedBy \in LockValues
  /\ txHash \in 0..MaxTxs
  /\ \A i \in DOMAIN chain : chain[i].call \in Calls \cup {"settled"}
  /\ Len(chain) <= MaxTxs
  /\ onChain \in {"none", "alive", "over"}
  /\ Len(ready) + Len(unacked) <= MaxHeld
  /\ now \in Times
  /\ troubles \in 0..MaxTroubles
-----------------------------------------------------------------------------
(***************************************************************************)
(* The sum of a function's values, which are natural numbers: each is      *)
(* counted as that many pairs.                                             *)
(***************************************************************************)
Units(w) == UNION {{i} \X (1..w[i]) : i \in DOMAIN w}

Total(w) == Cardinality(Units(w))
-----------------------------------------------------------------------------
(***************************************************************************)
(* The receiver.  A handler runs to its end; then callback acknowledges    *)
(* the message, unless the handler raised or the process died before the   *)
(* acknowledgement, when the broker still has the message.                 *)
(***************************************************************************)
Receiving(type) == ready # << >> /\ Head(ready).type = type

Message == Head(ready)

\* basic_ack, also for TxFail and AlreadyPostponed.
Ack == ready' = Tail(ready) /\ UNCHANGED unacked

Trouble == troubles < MaxTroubles /\ troubles' = troubles + 1

\* The handler raises anything else: callback prints it, and neither acks
\* nor nacks.
LeaveUnacked ==
  /\ Trouble
  /\ ready' = Tail(ready)
  /\ unacked' = Append(unacked, Message)

\* The process dies when everything is saved and before basic_ack: at its
\* next start it is given the message again, before all others.
DeliveredAgain == Trouble /\ ready' = unacked \o ready /\ unacked' = << >>

Acknowledge == (Ack /\ UNCHANGED troubles) \/ DeliveredAgain

\* The receiver is started again: what it left unacknowledged comes back.
Restart ==
  /\ unacked # << >>
  /\ ready' = unacked \o ready
  /\ unacked' = << >>
  /\ UNCHANGED <<kind, state, lockedBy, network, now, troubles>>

\* A message published by another process.
Publish(m) ==
  /\ Len(ready) + Len(unacked) < MaxQueue
  /\ ready' = Append(ready, m)
  /\ UNCHANGED unacked

\* A bound: what an actor outside of the platform does only then.
Quiet == ready = << >> /\ unacked = << >>

(***************************************************************************)
(* sign_transaction and eth_sendRawTransaction: the transaction is out.    *)
(***************************************************************************)
Send(call, with) ==
  /\ Len(chain) < MaxTxs
  /\ chain' = Append(chain, [call |-> call, with |-> with])
  /\ UNCHANGED onChain

SendsNothing == UNCHANGED <<chain, onChain>>

Pending(i, call) ==
  /\ i \in DOMAIN chain
  /\ chain[i].call = call

(***************************************************************************)
(* postponable around a function that raises: POSTPONED is saved, the lock *)
(* is released if it is this contract's, and the exception goes on.        *)
(***************************************************************************)
Postpone(lock) ==
  /\ state' = "POSTPONED"
  /\ lockedBy' = TakeOffFor(lock, This)
-----------------------------------------------------------------------------
(***************************************************************************)
(* 'launch': @blocking @postponable deploy().                              *)
(***************************************************************************)
\* postponable on entry: AlreadyPostponed, which callback acks.
LaunchPostponed ==
  /\ Receiving("launch")
  /\ state = "POSTPONED"
  /\ lockedBy' = TakeOffFor(Blocking(lockedBy, This), This)
  /\ Ack
  /\ UNCHANGED <<kind, state, network, now, troubles>>

\* 'launch message ignored because already deployed' frees the address.
LaunchIgnored ==
  /\ Receiving("launch")
  /\ state \notin {"POSTPONED", "CREATED", "WAITING_FOR_DEPLOYMENT"}
  /\ lockedBy' = TakeOff
  /\ Ack
  /\ UNCHANGED <<kind, state, network, now, troubles>>

LaunchSends ==
  /\ Receiving("launch")
  /\ state \in {"CREATED", "WAITING_FOR_DEPLOYMENT"}
  /\ Send("deploy", {})
  /\ txHash' = Len(chain')
  /\ state' = "WAITING_FOR_DEPLOYMENT"
  /\ lockedBy' = Blocking(lockedBy, This)
  /\ Acknowledge
  /\ UNCHANGED <<kind, now>>

\* compile() or the node raises.
LaunchRaises ==
  /\ Receiving("launch")
  /\ state \in {"CREATED", "WAITING_FOR_DEPLOYMENT"}
  /\ Postpone(Blocking(lockedBy, This))
  /\ LeaveUnacked
  /\ UNCHANGED <<kind, network, now>>

(***************************************************************************)
(* 'deployed', up to msg_deployed of the kind of contract.                 *)
(***************************************************************************)
DeployedIgnored ==
  /\ Receiving("deployed")
  /\ state = "ACTIVE"
  /\ Ack
  /\ UNCHANGED <<kind, state, lockedBy, network, now, troubles>>

DeployedPostponed ==
  /\ Receiving("deployed")
  /\ state = "POSTPONED"
  /\ lockedBy' = TakeOffFor(lockedBy, This)
  /\ Ack
  /\ UNCHANGED <<kind, state, network, now, troubles>>

\* check_transaction raises TxFail inside postponable; callback acks it.
DeployedRejected ==
  /\ Receiving("deployed")
  /\ state \notin {"ACTIVE", "POSTPONED"}
  /\ ~Message.success
  /\ Postpone(lockedBy)
  /\ Ack
  /\ UNCHANGED <<kind, network, now, troubles>>

DeployedAccepted ==
  /\ Receiving("deployed")
  /\ state \notin {"ACTIVE", "POSTPONED"}
  /\ Message.success

(***************************************************************************)
(* 'transactionCompleted' of a failed transaction.  The handler finds the  *)
(* contract by the last hash its EthContract kept; tx_failed does not ask  *)
(* what state the contract is in.                                          *)
(***************************************************************************)
TransactionFailed ==
  /\ Receiving("transactionCompleted")
  /\ Message.hash = txHash
  /\ Postpone(lockedBy)
  /\ Ack
  /\ UNCHANGED <<kind, network, now, troubles>>

\* EthContract.DoesNotExist: 'not found, returning'.
TransactionUnknown ==
  /\ Receiving("transactionCompleted")
  /\ Message.hash # txHash
  /\ Ack
  /\ UNCHANGED <<kind, state, lockedBy, network, now, troubles>>
-----------------------------------------------------------------------------
(***************************************************************************)
(* The network and its scanner.                                            *)
(***************************************************************************)
\* Transaction i is mined, and the scanner publishes what it did.
\* The contract is alive or over after it.
Mined(i, m, after) ==
  /\ chain' = [chain EXCEPT ![i] = Settled]
  /\ ready' = Append(ready, m)
  /\ onChain' = after
  /\ UNCHANGED <<kind, state, lockedBy, unacked, txHash, now, troubles>>

DeployMined(i) == Pending(i, "deploy") /\ Mined(i, Deployed(TRUE), "alive")

\* A call of the contract, which must be alive.
CallMined(i, call, m, after) ==
  /\ Pending(i, call)
  /\ onChain = "alive"
  /\ Mined(i, m, after)

\* A deployment that fails is reported twice; any other transaction of the
\* platform once.
Reverts(i) ==
  /\ i \in DOMAIN chain
  /\ chain[i].call \notin {"settled", "airdrop"}
  /\ chain' = [chain EXCEPT ![i] = Settled]
  /\ ready' = ready \o (IF chain[i].call = "deploy"
                          THEN <<Deployed(FALSE), TxFailed(i)>>
                          ELSE <<TxFailed(i)>>)
  /\ UNCHANGED <<kind, state, lockedBy, unacked, txHash, onChain, now>>

\* Out of gas, or the node drops it; or a call of a contract that is over.
Reverted(i) ==
  /\ Reverts(i)
  /\ Trouble \/ (onChain = "over" /\ UNCHANGED troubles)

Tick ==
  /\ now < MaxTime
  /\ now' = now + 1
  /\ UNCHANGED <<kind, state, lockedBy, queue, network, troubles>>

RowReceives ==
  \/ LaunchPostponed \/ LaunchIgnored \/ LaunchSends \/ LaunchRaises
  \/ DeployedIgnored \/ DeployedPostponed \/ DeployedRejected
  \/ TransactionFailed \/ TransactionUnknown

\* What happens to the row and in the network whatever the kind.
RowNext ==
  \/ RowReceives
  \/ Restart
  \/ \E i \in 1..MaxTxs : DeployMined(i) \/ Reverted(i)
=============================================================================
