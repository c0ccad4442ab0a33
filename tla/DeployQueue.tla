---------------------------- MODULE DeployQueue ----------------------------
(***************************************************************************)
(* Deployment of contracts on one network.                                 *)
(*                                                                         *)
(* A user asks the web application to deploy a contract; the view charges  *)
(* the user and publishes a 'launch' message on the network's RabbitMQ     *)
(* queue.  One Receiver thread consumes that queue, one message at a time: *)
(* 'launch' compiles the contract and sends a transaction from the         *)
(* network's deployment address.  A scanner outside this repository        *)
(* watches the network and publishes 'deployed', 'transactionCompleted'    *)
(* and 'killed' on the same queue.                                         *)
(*                                                                         *)
(* The receiver acknowledges by hand.  A message whose handler raised an   *)
(* exception that callback does not name is neither acked nor nacked: the  *)
(* broker keeps it, and delivers it again when the receiver restarts.      *)
(***************************************************************************)
EXTENDS Naturals, Sequences, DeployLock

CONSTANTS
  Replacing,   \* contracts whose compile deletes the old EthContract row
  Reusing,     \* contracts whose compile keeps the row of the first compile
  WhiteLabel,  \* contracts with white_label = True
  Poor,        \* contracts whose user may have less than the price
  Deployers,   \* web requests to the deploy view
  Editors,     \* web requests that edit a contract (PUT on ContractViewSet)
  MaxTries,    \* bound on compilations, each allowing one transaction
  MaxFaults,   \* bound on receiver crashes and database errors
  MailFails    \* whether the mail server may refuse a message

ASSUME ContractKinds ==
  /\ Replacing \subseteq Contracts
  /\ Reusing \subseteq Contracts
  /\ Replacing \cap Reusing = {}
  /\ WhiteLabel \subseteq Contracts
  /\ Poor \subseteq Contracts
ASSUME RequestsAreDistinct == Deployers \cap Editors = {}
ASSUME BoundsAreNat == MaxTries \in Nat /\ MaxFaults \in Nat
ASSUME MailFailsIsBool == MailFails \in BOOLEAN

Requests == Deployers \cup Editors
Tries    == 1..MaxTries
None     == 0            \* a null tx_hash, address or EthContract reference

States == {"CREATED", "WAITING_FOR_PAYMENT", "WAITING_FOR_DEPLOYMENT",
           "ACTIVE", "POSTPONED", "KILLED"}

(***************************************************************************)
(* Messages.  An EthContract row is named by the compilation that made it, *)
(* a transaction (and the address it creates) by the compilation it sent.  *)
(***************************************************************************)
Launch(c)          == [type |-> "launch", contract |-> c]
Deployed(r, t, ok) == [type |-> "deployed", eth |-> r, address |-> t,
                       success |-> ok]
TxFailed(t)        == [type |-> "transactionCompleted", hash |-> t]
Killed(r)          == [type |-> "killed", eth |-> r]

Messages ==
  [type: {"launch"}, contract: Contracts]
    \cup [type: {"deployed"}, eth: Tries, address: Tries, success: BOOLEAN]
    \cup [type: {"transactionCompleted"}, hash: Tries]
    \cup [type: {"killed"}, eth: Tries]

EthRows   == [contract: LockValues, tx_hash: Tries \cup {None},
              address: Tries \cup {None}]
NewRow(c) == [contract |-> c, tx_hash |-> None, address |-> None]
NoRow     == NewRow(NoOne)     \* there is no such row

VARIABLES
  state,        \* [Contracts -> States]: Contract.state
  eth,          \* [Contracts -> Tries or None]: details.eth_contract
  ethContract,  \* the EthContract rows, NoRow where there is none
  prepared,     \* white label contracts whose own address has been funded
  lockedBy,     \* DeployAddress.locked_by
  ready,        \* messages the receiver will handle, in this order
  unacked,      \* messages whose handler failed, neither acked nor nacked
  handling,     \* the message in hand and how far its handler has come
  tries,        \* number of compilations so far
  chain,        \* each transaction: its contract and what became of it
  reported,     \* transactions whose outcome the scanner has published
  request,      \* each web request: its contract and its next statement
  charged,      \* times create_payment took the price of the contract
  unpaid,       \* times it found the balance too low, and took nothing
  launches,     \* times a launch was published for the contract
  faults        \* crashes and database errors so far

rows    == <<eth, ethContract, prepared, tries>>
queue   == <<ready, unacked>>
network == <<chain, reported>>
web     == <<request, charged, unpaid, launches>>
vars    == <<state, rows, lockedBy, queue, handling, network, web, faults>>

Idle       == [step |-> "idle", contract |-> NoOne]
Mailing(c) == [step |-> "mailing", contract |-> c]
NewRequest == [step |-> "new", contract |-> NoOne]

RequestStates ==
  [step: {"charge", "save", "launch", "edit", "done"}, contract: Contracts]
    \cup {NewRequest}

TypeOK ==
  /\ state \in [Contracts -> States]
  /\ eth \in [Contracts -> Tries \cup {None}]
  /\ ethContract \in [Tries -> EthRows]
  /\ prepared \subseteq WhiteLabel
  /\ lockedBy \in LockValues
  /\ ready \in Seq(Messages)
  /\ unacked \in Seq(Messages)
  /\ handling \in [step: {"compiled", "sent", "mailing"}, contract: Contracts]
                    \cup {Idle}
  /\ tries \in 0..MaxTries
  /\ chain \in [Tries -> [contract: LockValues,
                          status: {"unsent", "pending", "mined", "failed",
                                   "destroyed"}]]
  /\ reported \subseteq Tries
  /\ request \in [Requests -> RequestStates]
  /\ charged \in [Contracts -> Nat]
  /\ unpaid \in [Contracts -> Nat]
  /\ launches \in [Contracts -> Nat]
  /\ faults \in 0..MaxFaults

Init ==
  /\ state \in [Contracts -> {"CREATED", "WAITING_FOR_PAYMENT"}]
  /\ eth = [c \in Contracts |-> None]
  /\ ethContract = [r \in Tries |-> NoRow]
  /\ prepared = {}
  /\ lockedBy = NoOne
  /\ ready = << >>
  /\ unacked = << >>
  /\ handling = Idle
  /\ tries = 0
  /\ chain = [t \in Tries |-> [contract |-> NoOne, status |-> "unsent"]]
  /\ reported = {}
  /\ request = [q \in Requests |-> NewRequest]
  /\ charged = [c \in Contracts |-> 0]
  /\ unpaid = [c \in Contracts |-> 0]
  /\ launches = [c \in Contracts |-> 0]
  /\ faults = 0
-----------------------------------------------------------------------------
(***************************************************************************)
(* The web application.  A view reads the Contract row once and saves the  *)
(* whole row later; nothing spans its statements, so other processes act   *)
(* in between.                                                             *)
(***************************************************************************)
Step(q, from, to) ==
  /\ request[q].step = from
  /\ request' = [request EXCEPT ![q].step = to]

\* deploy(): reads the contract and tests its state.
DeployRead(q, c) ==
  /\ request[q].step = "new"
  /\ state[c] \in {"CREATED", "WAITING_FOR_PAYMENT"}
  /\ request' = [request EXCEPT ![q] = [step |-> "charge", contract |-> c]]
  /\ UNCHANGED <<state, rows, lockedBy, queue, handling, network, charged,
                 unpaid, launches, faults>>

\* Seeded bug: the view forgets create_payment.
DeployUncharged(q) ==
  /\ Step(q, "charge", "save")
  /\ UNCHANGED <<state, rows, lockedBy, queue, handling, network, charged,
                 unpaid, launches, faults>>

\* deploy(): create_payment.  The view does not look at the balance, and the
\* UPDATE of negative_payment asks for balance__gte: when the balance is too
\* low it matches no row, takes nothing and says nothing.
DeployCharge(q) ==
  /\ Step(q, "charge", "save")
  /\ \/ /\ charged' = [charged EXCEPT ![request[q].contract] = @ + 1]
        /\ UNCHANGED unpaid
     \/ /\ request[q].contract \in Poor
        /\ unpaid' = [unpaid EXCEPT ![request[q].contract] = @ + 1]
        /\ UNCHANGED charged
  /\ UNCHANGED <<state, rows, lockedBy, queue, handling, network, launches,
                 faults>>

\* deploy(): contract.save() of the row read in the first step.
DeploySave(q) ==
  /\ Step(q, "save", "launch")
  /\ state' = [state EXCEPT ![request[q].contract] = "WAITING_FOR_DEPLOYMENT"]
  /\ UNCHANGED <<rows, lockedBy, queue, handling, network, charged, unpaid,
                 launches, faults>>

\* deploy(): send_in_queue(contract.id, 'launch', queue).
DeployLaunch(q) ==
  /\ Step(q, "launch", "done")
  /\ ready' = Append(ready, Launch(request[q].contract))
  /\ launches' = [launches EXCEPT ![request[q].contract] = @ + 1]
  /\ UNCHANGED <<state, rows, lockedBy, unacked, handling, network, charged,
                 unpaid, faults>>

\* ContractSerializer.update(): only a CREATED contract may be edited ...
EditRead(q, c) ==
  /\ request[q].step = "new"
  /\ state[c] = "CREATED"
  /\ request' = [request EXCEPT ![q] = [step |-> "edit", contract |-> c]]
  /\ UNCHANGED <<state, rows, lockedBy, queue, handling, network, charged,
                 unpaid, launches, faults>>

\* ... and the whole row is written back, with the state it was read in or
\* with the one state the client may ask for.
EditSave(q) ==
  /\ Step(q, "edit", "done")
  /\ \E s \in {"CREATED", "WAITING_FOR_PAYMENT"} :
       state' = [state EXCEPT ![request[q].contract] = s]
  /\ UNCHANGED <<rows, lockedBy, queue, handling, network, charged, unpaid,
                 launches, faults>>

\* The request dies where it stands: the worker is killed, or the database,
\* the promo table or the broker raises.
RequestDies(q) ==
  /\ request[q].step \in {"charge", "save", "launch", "edit"}
  /\ request' = [request EXCEPT ![q].step = "done"]
  /\ UNCHANGED <<state, rows, lockedBy, queue, handling, network, charged,
                 unpaid, launches, faults>>
-----------------------------------------------------------------------------
(***************************************************************************)
(* The receiver: what callback does with the message after the handler.    *)
(***************************************************************************)
Receiving(type) ==
  /\ handling = Idle
  /\ ready # << >>
  /\ Head(ready).type = type

\* basic_ack: the handler returned, or raised TxFail or AlreadyPostponed.
Ack == ready' = Tail(ready) /\ UNCHANGED unacked

\* Any other exception is printed, and the message stays unacknowledged.
LeaveUnacked == ready' = Tail(ready) /\ unacked' = Append(unacked, Head(ready))

\* basic_ack of a message whose handling took several steps: the last one
\* that was left unacknowledged.
AckLast == unacked' = SubSeq(unacked, 1, Len(unacked) - 1) /\ UNCHANGED ready

\* Seeded bug: nack without requeue, the message is lost.
RequeueLost == Ack

\* basic_nack(requeue=True).  There is no prefetch limit, so the messages
\* behind it are already with the receiver and are handled first.
Requeue == ready' = Append(Tail(ready), Head(ready)) /\ UNCHANGED unacked

(***************************************************************************)
(* postponable, on entry: the contract is POSTPONED already.  The mail     *)
(* goes first, the lock (as it is by then: lock) is released after it, and *)
(* AlreadyPostponed is acked.  A mail error is raised in its place.        *)
(***************************************************************************)
AlreadyPostponed(c, lock) ==
  \/ lockedBy' = TakeOffFor(lock, c) /\ Ack
  \/ MailFails /\ lockedBy' = lock /\ LeaveUnacked

(***************************************************************************)
(* postponable, on any exception of the decorated function: the contract   *)
(* is saved as POSTPONED, the mail is sent, the lock is released and the   *)
(* exception is raised again.  A mail error leaves the lock as it was.     *)
(***************************************************************************)
PostponedLock(c, lock, mailed) == IF mailed THEN TakeOffFor(lock, c) ELSE lock

(***************************************************************************)
(* 'launch': receiver.launch, then @blocking @postponable deploy().        *)
(***************************************************************************)
\* A launch is in hand, compiled or sent.
Launching == handling.step \in {"compiled", "sent"}

\* Seeded bug: deploy() no longer asks whether the contract was deployed.
LaunchableAlways(c) == state[c] # "POSTPONED"

\* deploy() goes on only with a contract that was not deployed before.
Launchable(c) == state[c] \in {"CREATED", "WAITING_FOR_DEPLOYMENT"}

\* The database refuses the UPDATE of @blocking: NeedRequeue.
LaunchRequeued(c) ==
  /\ Receiving("launch") /\ Head(ready) = Launch(c)
  /\ faults < MaxFaults
  /\ faults' = faults + 1
  /\ Requeue
  /\ UNCHANGED <<state, rows, lockedBy, handling, network, web>>

LaunchPostponed(c) ==
  /\ Receiving("launch") /\ Head(ready) = Launch(c)
  /\ state[c] = "POSTPONED"
  /\ AlreadyPostponed(c, Blocking(lockedBy, c))
  /\ UNCHANGED <<state, rows, handling, network, web, faults>>

\* 'launch message ignored because already deployed'.
LaunchIgnored(c) ==
  /\ Receiving("launch") /\ Head(ready) = Launch(c)
  /\ ~Launchable(c) /\ state[c] # "POSTPONED"
  /\ lockedBy' = TakeOff
  /\ Ack
  /\ UNCHANGED <<state, rows, handling, network, web, faults>>

\* compile() raises before it has touched the EthContract rows.
LaunchNotCompiled(c) ==
  /\ Receiving("launch") /\ Head(ready) = Launch(c)
  /\ Launchable(c)
  /\ state' = [state EXCEPT ![c] = "POSTPONED"]
  /\ \E mailed \in {TRUE, ~MailFails} :
       lockedBy' = PostponedLock(c, Blocking(lockedBy, c), mailed)
  /\ LeaveUnacked
  /\ UNCHANGED <<rows, handling, network, web, faults>>

\* The EthContract row that compile() leaves: a reusing contract keeps the
\* row it has, every other makes a new one, and a replacing one deletes its
\* old row first.
Compile(c) ==
  /\ tries < MaxTries
  /\ tries' = tries + 1
  /\ IF c \in Reusing /\ eth[c] # None
       THEN UNCHANGED <<eth, ethContract>>
       ELSE /\ eth' = [eth EXCEPT ![c] = tries + 1]
            /\ ethContract' =
                 [r \in Tries |->
                    IF r = tries + 1 THEN NewRow(c)
                    ELSE IF r = eth[c] /\ c \in Replacing THEN NoRow
                    ELSE ethContract[r]]

LaunchCompile(c) ==
  /\ Receiving("launch") /\ Head(ready) = Launch(c)
  /\ Launchable(c)
  /\ lockedBy' = Blocking(lockedBy, c)
  /\ Compile(c)
  /\ handling' = [step |-> "compiled", contract |-> c]
  /\ ready' = Tail(ready)
  /\ UNCHANGED <<state, prepared, unacked, network, web, faults>>

\* The first launch of a white label contract funds the contract's own
\* address and returns; state and lock stay.
PrepareWhiteLabel ==
  LET c == handling.contract
  IN  /\ handling.step = "compiled"
      /\ c \in WhiteLabel \ prepared
      /\ prepared' = prepared \cup {c}
      /\ handling' = Idle
      /\ UNCHANGED <<state, eth, ethContract, tries, lockedBy, queue, network,
                     web, faults>>

\* eth_sendRawTransaction succeeds.
SendTransaction ==
  LET c == handling.contract
  IN  /\ handling.step = "compiled"
      /\ c \notin WhiteLabel \ prepared
      /\ chain' = [chain EXCEPT ![tries] =
                     [contract |-> c, status |-> "pending"]]
      /\ handling' = [handling EXCEPT !.step = "sent"]
      /\ UNCHANGED <<state, rows, lockedBy, queue, reported, web, faults>>

\* No nonce, no signature or no funding; or the transaction is out, and the
\* answer of the node or the database fails.
DeployRaises ==
  LET c == handling.contract
  IN  /\ Launching
      /\ state' = [state EXCEPT ![c] = "POSTPONED"]
      /\ \E mailed \in {TRUE, ~MailFails} :
           lockedBy' = PostponedLock(c, lockedBy, mailed)
      /\ unacked' = Append(unacked, Launch(c))
      /\ handling' = Idle
      /\ UNCHANGED <<rows, ready, network, web, faults>>

\* eth_contract.tx_hash and contract.state are saved, the launch is acked.
RecordTransaction ==
  LET c == handling.contract
  IN  /\ handling.step = "sent"
      /\ ethContract' = [ethContract EXCEPT ![eth[c]].tx_hash = tries]
      /\ state' = [state EXCEPT ![c] = "WAITING_FOR_DEPLOYMENT"]
      /\ handling' = Idle
      /\ UNCHANGED <<eth, prepared, tries, lockedBy, queue, network, web,
                     faults>>
-----------------------------------------------------------------------------
(***************************************************************************)
(* 'deployed': receiver.deployed, then @postponable @check_transaction     *)
(* msg_deployed().                                                         *)
(***************************************************************************)
Owner(r) == ethContract[r].contract

\* Seeded bug: msg_deployed loses its @check_transaction.
NeverRejected(m) == FALSE

\* check_transaction raises TxFail.
Rejected(m) == ~m.success

\* The row was deleted by a later compile: EthContract.DoesNotExist.
DeployedUnknown ==
  /\ Receiving("deployed")
  /\ Owner(Head(ready).eth) = NoOne
  /\ LeaveUnacked
  /\ UNCHANGED <<state, rows, lockedBy, handling, network, web, faults>>

\* 'ignored because already active'.
DeployedIgnored(c) ==
  /\ Receiving("deployed") /\ Owner(Head(ready).eth) = c
  /\ state[c] = "ACTIVE"
  /\ Ack
  /\ UNCHANGED <<state, rows, lockedBy, handling, network, web, faults>>

DeployedPostponed(c) ==
  /\ Receiving("deployed") /\ Owner(Head(ready).eth) = c
  /\ state[c] = "POSTPONED"
  /\ AlreadyPostponed(c, lockedBy)
  /\ UNCHANGED <<state, rows, handling, network, web, faults>>

\* postponable handles TxFail as it does any exception; callback acks TxFail,
\* but not the mail error that replaces it.
DeployedRejected(c) ==
  /\ Receiving("deployed") /\ Owner(Head(ready).eth) = c
  /\ state[c] \notin {"ACTIVE", "POSTPONED"}
  /\ Rejected(Head(ready))
  /\ state' = [state EXCEPT ![c] = "POSTPONED"]
  /\ \/ lockedBy' = PostponedLock(c, lockedBy, TRUE) /\ Ack
     \/ MailFails /\ lockedBy' = PostponedLock(c, lockedBy, FALSE)
                  /\ LeaveUnacked
  /\ UNCHANGED <<rows, handling, network, web, faults>>

\* The lock goes first.  The address goes to the contract's current row,
\* whichever row the message names, and the contract is saved as ACTIVE; the
\* message is not acked yet.
DeployedAccepted(c) ==
  /\ Receiving("deployed") /\ Owner(Head(ready).eth) = c
  /\ state[c] \notin {"ACTIVE", "POSTPONED"}
  /\ ~Rejected(Head(ready))
  /\ lockedBy' = TakeOff
  /\ ethContract' = [ethContract EXCEPT ![eth[c]].address = Head(ready).address]
  /\ state' = [state EXCEPT ![c] = "ACTIVE"]
  /\ handling' = Mailing(c)
  /\ LeaveUnacked
  /\ UNCHANGED <<eth, prepared, tries, network, web, faults>>

\* The mails to the user come after the save.  When they are out the message
\* is acked ...
DeployedMailed(c) ==
  /\ handling = Mailing(c)
  /\ AckLast
  /\ handling' = Idle
  /\ UNCHANGED <<state, rows, lockedBy, network, web, faults>>

\* ... and when one is refused, postponable saves the contract as POSTPONED,
\* whatever it has become meanwhile, and the message stays unacknowledged.
DeployedNotMailed(c) ==
  /\ handling = Mailing(c) /\ MailFails
  /\ state' = [state EXCEPT ![c] = "POSTPONED"]
  /\ \E mailed \in BOOLEAN : lockedBy' = PostponedLock(c, lockedBy, mailed)
  /\ handling' = Idle
  /\ UNCHANGED <<rows, queue, network, web, faults>>

(***************************************************************************)
(* 'transactionCompleted' of a failed transaction: tx_failed(), whatever   *)
(* the state of the contract.  Its exceptions are swallowed, so a mail     *)
(* error leaves the lock held and the message is acked all the same.       *)
(***************************************************************************)
RowsOf(t) == {r \in Tries : Owner(r) # NoOne /\ ethContract[r].tx_hash = t}

TransactionFailed(c) ==
  /\ Receiving("transactionCompleted")
  /\ \E r \in RowsOf(Head(ready).hash) : Owner(r) = c
  /\ state' = [state EXCEPT ![c] = "POSTPONED"]
  /\ \E mailed \in {TRUE, ~MailFails} :
       lockedBy' = PostponedLock(c, lockedBy, mailed)
  /\ Ack
  /\ UNCHANGED <<rows, handling, network, web, faults>>

TransactionUnknown ==
  /\ Receiving("transactionCompleted")
  /\ RowsOf(Head(ready).hash) = {}
  /\ Ack
  /\ UNCHANGED <<state, rows, lockedBy, handling, network, web, faults>>

(***************************************************************************)
(* 'killed'.                                                               *)
(***************************************************************************)
ContractKilled(c) ==
  /\ Receiving("killed") /\ Owner(Head(ready).eth) = c
  /\ state' = [state EXCEPT ![c] = "KILLED"]
  /\ lockedBy' = TakeOffFor(lockedBy, c)
  /\ Ack
  /\ UNCHANGED <<rows, handling, network, web, faults>>

KilledUnknown ==
  /\ Receiving("killed") /\ Owner(Head(ready).eth) = NoOne
  /\ LeaveUnacked
  /\ UNCHANGED <<state, rows, lockedBy, handling, network, web, faults>>

(***************************************************************************)
(* The receiver process dies and is started again: the broker delivers     *)
(* every message it has no ack of, in the order they were published.       *)
(***************************************************************************)
ReceiverRestart ==
  /\ faults < MaxFaults
  /\ faults' = faults + 1
  /\ \/ /\ ~Launching
        /\ unacked # << >>
        /\ ready' = unacked \o ready
     \/ /\ Launching
        /\ ready' = (unacked \o <<Launch(handling.contract)>>) \o ready
  /\ unacked' = << >>
  /\ handling' = Idle
  /\ UNCHANGED <<state, rows, lockedBy, network, web>>
-----------------------------------------------------------------------------
(***************************************************************************)
(* The network and its scanner (outside this repository).  The scanner     *)
(* finds the EthContract row of a transaction by its tx_hash.              *)
(***************************************************************************)
Mine(t) ==
  /\ chain[t].status = "pending"
  /\ \E s \in {"mined", "failed"} :
       chain' = [chain EXCEPT ![t].status = s]
  /\ UNCHANGED <<state, rows, lockedBy, queue, handling, reported, web, faults>>

Report(t) ==
  /\ t \notin reported
  /\ reported' = reported \cup {t}
  /\ \E r \in RowsOf(t) :
       \/ /\ chain[t].status = "mined"
          /\ ready' = Append(ready, Deployed(r, t, TRUE))
       \/ /\ chain[t].status = "failed"
          /\ \/ ready' = Append(ready, Deployed(r, t, FALSE))
             \/ ready' = Append(ready, TxFailed(t))
  /\ UNCHANGED <<state, rows, lockedBy, unacked, handling, chain, web, faults>>

\* A deployed contract destroys itself (the kill() that cancel() sends).
Destroy(t) ==
  /\ chain[t].status = "mined" /\ t \in reported
  /\ chain' = [chain EXCEPT ![t].status = "destroyed"]
  /\ \E r \in RowsOf(t) : ready' = Append(ready, Killed(r))
  /\ UNCHANGED <<state, rows, lockedBy, unacked, handling, reported, web,
                 faults>>
-----------------------------------------------------------------------------
WebStep ==
  \/ \E q \in Deployers, c \in Contracts : DeployRead(q, c)
  \/ \E q \in Editors, c \in Contracts : EditRead(q, c)
  \/ \E q \in Requests : \/ DeployCharge(q)
                         \/ DeploySave(q)
                         \/ DeployLaunch(q)
                         \/ EditSave(q)
                         \/ RequestDies(q)

HandleLaunch ==
  \/ \E c \in Contracts : \/ LaunchPostponed(c)
                          \/ LaunchIgnored(c)
                          \/ LaunchNotCompiled(c)
                          \/ LaunchCompile(c)
  \/ PrepareWhiteLabel
  \/ SendTransaction
  \/ DeployRaises
  \/ RecordTransaction

HandleReport ==
  \/ DeployedUnknown
  \/ TransactionUnknown
  \/ KilledUnknown
  \/ \E c \in Contracts : \/ DeployedIgnored(c)
                          \/ DeployedPostponed(c)
                          \/ DeployedRejected(c)
                          \/ DeployedAccepted(c)
                          \/ DeployedMailed(c)
                          \/ DeployedNotMailed(c)
                          \/ TransactionFailed(c)
                          \/ ContractKilled(c)

Fault == ReceiverRestart \/ \E c \in Contracts : LaunchRequeued(c)

NetworkStep == \E t \in Tries : Mine(t) \/ Report(t) \/ Destroy(t)

Next == WebStep \/ HandleLaunch \/ HandleReport \/ Fault \/ NetworkStep

Spec == Init /\ [][Next]_vars

(***************************************************************************)
(* The receiver thread keeps consuming, the network decides every          *)
(* transaction and the scanner reports it.  Nothing is assumed of the web  *)
(* requests or of contracts destroying themselves.                         *)
(***************************************************************************)
Fairness ==
  /\ WF_vars(HandleLaunch)
  /\ WF_vars(HandleReport)
  /\ \A t \in Tries : WF_vars(Mine(t)) /\ WF_vars(Report(t))

FairSpec == Spec /\ Fairness
-----------------------------------------------------------------------------
InQueue(m, q) == \E i \in 1..Len(q) : q[i] = m

\* Something will still be handled that releases the lock c holds: its
\* launch, or the outcome of a transaction one of its rows records.
Awaited(c) ==
  \/ Launching /\ handling.contract = c
  \/ InQueue(Launch(c), ready)
  \/ \E r \in Tries, t \in Tries :
       /\ Owner(r) = c /\ ethContract[r].tx_hash = t
       /\ \/ t \notin reported /\ chain[t].status # "unsent"
          \/ \E ok \in BOOLEAN : InQueue(Deployed(r, t, ok), ready)
          \/ InQueue(TxFailed(t), ready)

(***************************************************************************)
(* No lock is left behind: while a contract holds the deployment address,  *)
(* something that releases it is still on its way.  Crashes, redelivered   *)
(* launches, stale saves of web requests and postponed contracts must all  *)
(* keep this.  White label contracts are excepted (their first launch      *)
(* keeps the lock and nothing in the code sends the second one), and so is *)
(* a mail server that refuses messages (see the README).                   *)
(***************************************************************************)
LockIsAwaited ==
  \A c \in Contracts \ WhiteLabel : lockedBy = c => Awaited(c)

(***************************************************************************)
(* ACTIVE is never claimed of a contract the network did not create: the   *)
(* contract's row holds the address made by a transaction that was mined   *)
(* and that was sent for this very contract, however often the contract    *)
(* was launched and in whatever order the outcomes were reported.          *)
(***************************************************************************)
ActiveIsDeployed ==
  \A c \in Contracts : state[c] = "ACTIVE" =>
    /\ eth[c] # None
    /\ LET t == ethContract[eth[c]].address
       IN  /\ t # None
           /\ chain[t].contract = c
           /\ chain[t].status \in {"mined", "destroyed"}

(***************************************************************************)
(* The invariant behind the two properties around it: what the database,   *)
(* the messages under way and the launch in hand say of a contract agrees  *)
(* with each other and with the network.                                   *)
(***************************************************************************)
Exists(t, c) ==
  chain[t].contract = c /\ chain[t].status \in {"mined", "destroyed"}

\* Every details object and its row point at each other.
RowsAreOwned ==
  /\ \A c \in Contracts :
       eth[c] # None => eth[c] <= tries /\ Owner(eth[c]) = c
  /\ \A r \in Tries :
       Owner(r) # NoOne => r <= tries /\ eth[Owner(r)] # None

\* A row records transactions and addresses of its own contract only.
RowsAreTrue ==
  \A r \in Tries :
    /\ ethContract[r].tx_hash # None =>
         /\ chain[ethContract[r].tx_hash].status # "unsent"
         /\ chain[ethContract[r].tx_hash].contract = Owner(r)
    /\ ethContract[r].address # None =>
         Exists(ethContract[r].address, Owner(r))

\* The launch in hand has compiled, and sends the newest transaction.
LaunchInHand ==
  /\ \A t \in Tries : t > tries => chain[t].status = "unsent"
  /\ Launching =>
       /\ tries \in Tries
       /\ eth[handling.contract] # None
  /\ handling.step = "compiled" => chain[tries].status = "unsent"
  /\ handling.step = "sent" =>
       /\ chain[tries].status # "unsent"
       /\ chain[tries].contract = handling.contract

\* A successful 'deployed' tells of an existing contract, and of no other
\* contract's row.
Truthful(m) ==
  m.type = "deployed" /\ m.success =>
    /\ m.eth <= tries
    /\ chain[m.address].status \in {"mined", "destroyed"}
    /\ Owner(m.eth) \in {NoOne, chain[m.address].contract}

TruthfulMessages == {m \in Messages : Truthful(m)}

ReportsAreTrue ==
  /\ ready \in Seq(TruthfulMessages)
  /\ unacked \in Seq(TruthfulMessages)

ActiveHasAddress ==
  \A c \in Contracts : state[c] = "ACTIVE" =>
    eth[c] # None /\ ethContract[eth[c]].address # None

RecordsAgree ==
  /\ RowsAreOwned
  /\ RowsAreTrue
  /\ LaunchInHand
  /\ ReportsAreTrue
  /\ ActiveHasAddress

(***************************************************************************)
(* A redelivered or repeated launch never deploys again a contract that    *)
(* the database shows as deployed, killed or postponed.                    *)
(***************************************************************************)
NeverRedeployed ==
  [][\A t \in Tries :
       chain[t].status = "unsent" /\ chain'[t].status = "pending"
         => state[chain'[t].contract] \notin {"ACTIVE", "KILLED", "POSTPONED"}
    ]_vars

(***************************************************************************)
(* A contract stops being ACTIVE only for a reason: it destroyed itself,   *)
(* a transaction sent for it failed, a web request that had read it before *)
(* it was deployed writes its stale copy back, or, before the 'deployed'   *)
(* that made it ACTIVE is acked, a mail about it is refused.               *)
(***************************************************************************)
TxWith(c, status) ==
  \E t \in Tries : chain[t].contract = c /\ chain[t].status = status

ActiveIsKept ==
  [][\A c \in Contracts : state[c] = "ACTIVE" /\ state'[c] # "ACTIVE" =>
       \/ state'[c] = "KILLED" /\ TxWith(c, "destroyed")
       \/ state'[c] = "POSTPONED" /\ TxWith(c, "failed")
       \/ state'[c] = "POSTPONED" /\ handling = Mailing(c) /\ MailFails
       \/ \E q \in Requests : /\ request[q].contract = c
                              /\ request[q].step \in {"save", "edit"}
    ]_vars

(***************************************************************************)
(* Seen from outside, the views, the receiver and the scanner together     *)
(* keep the service's promise (DeploymentPromise): no launch that          *)
(* create_payment was not called for, whether it took the price or found   *)
(* the balance too low; no contract on the network without a launch; no    *)
(* ACTIVE contract that is not on the network.                             *)
(***************************************************************************)
OnNetwork == {c \in Contracts : TxWith(c, "mined") \/ TxWith(c, "destroyed")}

Promise == INSTANCE DeploymentPromise WITH
  charged  <- charged,
  waived   <- unpaid,
  launched <- launches,
  created  <- OnNetwork,
  active   <- {c \in Contracts : state[c] = "ACTIVE"}

KeepsPromise == Promise!PromiseSpec

(***************************************************************************)
(* Every launch that reaches the queue is resolved: the contract becomes   *)
(* ACTIVE, or POSTPONED for a person to look at, or is killed.  Excepted   *)
(* is a contract that a web request edits meanwhile, whose stale state may *)
(* make the receiver ignore the launch.                                    *)
(***************************************************************************)
EditedMeanwhile(c) ==
  \E q \in Editors : request[q].contract = c /\ request[q].step = "done"

LaunchResolves ==
  \A c \in Contracts :
    InQueue(Launch(c), ready) ~> \/ state[c] \in {"ACTIVE", "POSTPONED", "KILLED"}
                                \/ EditedMeanwhile(c)

(***************************************************************************)
(* Whoever holds the deployment address gives it back.                     *)
(***************************************************************************)
LockIsReleased == \A c \in Contracts : lockedBy = c ~> lockedBy # c

(***************************************************************************)
(* 'address locked. sleeping 5 and requeueing the message' (@blocking in   *)
(* decorators.py): no launch is handled while another contract holds the   *)
(* deployment address.  The code does not keep this: see the README.       *)
(***************************************************************************)
LockedLaunchWaits ==
  [][~Launching /\ Launching' => lockedBy' = handling'.contract]_vars

(***************************************************************************)
(* 'launch message ignored because already deployed' (deploy() in          *)
(* common.py): a launch is dropped only for a contract that was deployed.  *)
(* The code does not keep this: see the README.                            *)
(***************************************************************************)
IgnoredIsDeployed ==
  [][\A c \in Contracts : LaunchIgnored(c) => c \in OnNetwork]_vars
=============================================================================
