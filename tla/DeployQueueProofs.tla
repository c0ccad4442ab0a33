------------------------- MODULE DeployQueueProofs -------------------------
(***************************************************************************)
(* Proofs about DeployQueue, for every set of contracts and of requests    *)
(* and every bound: the state is well typed, a contract the database shows *)
(* as deployed is never deployed again, and ACTIVE is never claimed of a   *)
(* contract that the network did not create.                               *)
(***************************************************************************)
EXTENDS DeployQueue, SequenceTheorems, TLAPS

(***************************************************************************)
(* What callback does with a message keeps both queues sequences of        *)
(* whatever their messages are.                                            *)
(***************************************************************************)
LEMMA AnsweredQueues ==
  ASSUME NEW S, ready \in Seq(S), unacked \in Seq(S), ready # << >>,
         Ack \/ LeaveUnacked \/ Requeue
  PROVE  ready' \in Seq(S) /\ unacked' \in Seq(S)
<1>1. Head(ready) \in S /\ Tail(ready) \in Seq(S)
  BY HeadTailProperties
<1>2. CASE Ack
  BY <1>1, <1>2 DEF Ack
<1>3. CASE LeaveUnacked
  BY <1>1, <1>3 DEF LeaveUnacked
<1>4. CASE Requeue
  BY <1>1, <1>4 DEF Requeue
<1>5. QED
  BY <1>2, <1>3, <1>4

(***************************************************************************)
(* The operations on the deployment address leave a contract or NULL in    *)
(* locked_by.                                                              *)
(***************************************************************************)
LEMMA LockTyped ==
  ASSUME NEW lock \in LockValues, NEW c \in Contracts
  PROVE  /\ Blocking(lock, c) \in LockValues
         /\ TakeOffFor(lock, c) \in LockValues
         /\ TakeOff \in LockValues
         /\ \A mailed : PostponedLock(c, lock, mailed) \in LockValues
BY DEF LockValues, Blocking, TakeOffFor, TakeOff, PostponedLock

LEMMA Receivable ==
  ASSUME TypeOK, NEW type, Receiving(type)
  PROVE  /\ ready # << >>
         /\ Head(ready) \in Messages
         /\ Head(ready).type = type
         /\ handling = Idle
BY HeadTailProperties DEF TypeOK, Receiving

LEMMA Handled ==
  ASSUME TypeOK, Launching
  PROVE  /\ handling # Idle
         /\ handling.contract \in Contracts
         /\ handling \in [step: {"compiled", "sent"}, contract: Contracts]
BY DEF TypeOK, Launching, Idle

LEMMA LastAcked ==
  ASSUME NEW S, ready \in Seq(S), unacked \in Seq(S), AckLast
  PROVE  ready' \in Seq(S) /\ unacked' \in Seq(S)
<1>1. \A i \in 1 .. Len(unacked) - 1 : unacked[i] \in S
  BY LenProperties, ElementOfSeq
<1> QED
  BY <1>1, SubSeqProperties, LenProperties DEF AckLast

LEMMA MessagesTyped ==
  /\ \A c \in Contracts : Launch(c) \in Messages
  /\ \A r, t \in Tries : \A ok \in BOOLEAN : Deployed(r, t, ok) \in Messages
  /\ \A t \in Tries : TxFailed(t) \in Messages
  /\ \A r \in Tries : Killed(r) \in Messages
BY DEF Messages, Launch, Deployed, TxFailed, Killed
-----------------------------------------------------------------------------
(***************************************************************************)
(* Type correctness.                                                       *)
(***************************************************************************)
LEMMA TypeInit == Init => TypeOK
<1> SUFFICES ASSUME Init PROVE TypeOK
  OBVIOUS
<1>1. None \notin Tries /\ 0 \in 0..MaxTries /\ 0 \in 0..MaxFaults
  BY BoundsAreNat DEF None, Tries
<1>2. ready \in Seq(Messages) /\ unacked \in Seq(Messages)
  BY EmptySeq DEF Init
<1>3. QED
  BY <1>1, <1>2 DEF Init, TypeOK, States, EthRows, NoRow, NewRow, LockValues, Idle,
                     RequestStates

LEMMA Stepping ==
  ASSUME TypeOK, NEW q \in Requests, NEW to \in {"save", "launch", "done"},
         request[q].step # "new", request' = [request EXCEPT ![q].step = to]
  PROVE  /\ request[q].contract \in Contracts
         /\ request' \in [Requests -> RequestStates]
<1>1. request[q] \in RequestStates \ {NewRequest}
  BY DEF TypeOK, NewRequest
<1>2. /\ request[q].contract \in Contracts
      /\ [request[q] EXCEPT !.step = to] \in RequestStates
  BY <1>1 DEF RequestStates
<1>3. QED
  BY <1>2 DEF TypeOK

LEMMA CountedUp ==
  ASSUME NEW f \in [Contracts -> Nat], NEW c \in Contracts
  PROVE  [f EXCEPT ![c] = @ + 1] \in [Contracts -> Nat]
OBVIOUS

LEMMA ChargeTyped ==
  ASSUME TypeOK, NEW q \in Requests, DeployCharge(q)
  PROVE  /\ request[q].contract \in Contracts
         /\ request' \in [Requests -> RequestStates]
         /\ charged' \in [Contracts -> Nat]
         /\ unpaid' \in [Contracts -> Nat]
<1>1. /\ request[q].contract \in Contracts
      /\ request' \in [Requests -> RequestStates]
  BY Stepping DEF DeployCharge, Step
<1>2. charged \in [Contracts -> Nat] /\ unpaid \in [Contracts -> Nat]
  BY DEF TypeOK
<1>3. CASE UNCHANGED unpaid /\ charged' = [charged EXCEPT ![request[q].contract] = @ + 1]
  BY <1>1, <1>2, <1>3, CountedUp
<1>4. CASE UNCHANGED charged /\ unpaid' = [unpaid EXCEPT ![request[q].contract] = @ + 1]
  BY <1>1, <1>2, <1>4, CountedUp
<1> QED
  BY <1>1, <1>3, <1>4 DEF DeployCharge

LEMMA TypeWeb == TypeOK /\ WebStep => TypeOK'
<1> SUFFICES ASSUME TypeOK, WebStep PROVE TypeOK'
  OBVIOUS
<1> USE DEF TypeOK, States, LockValues, Requests,
           rows, queue, network, web
<1>1. ASSUME NEW q \in Deployers, NEW c \in Contracts, DeployRead(q, c)
      PROVE  TypeOK'
  BY <1>1 DEF DeployRead, RequestStates
<1>2. ASSUME NEW q \in Editors, NEW c \in Contracts, EditRead(q, c)
      PROVE  TypeOK'
  BY <1>2 DEF EditRead, RequestStates
<1>3. ASSUME NEW q \in Requests, DeployCharge(q) PROVE TypeOK'
  BY <1>3, ChargeTyped DEF DeployCharge
<1>4. ASSUME NEW q \in Requests, DeploySave(q) PROVE TypeOK'
  BY <1>4, Stepping DEF DeploySave, Step
<1>5. ASSUME NEW q \in Requests, DeployLaunch(q) PROVE TypeOK'
  <2>1. /\ request[q].contract \in Contracts
        /\ request' \in [Requests -> RequestStates]
    BY <1>5, Stepping DEF DeployLaunch, Step
  <2>2. ready' \in Seq(Messages)
    BY <1>5, <2>1, MessagesTyped DEF DeployLaunch
  <2>3. launches' \in [Contracts -> Nat]
    BY <1>5, <2>1, CountedUp DEF DeployLaunch
  <2>4. QED
    BY <1>5, <2>1, <2>2, <2>3 DEF DeployLaunch
<1>6. ASSUME NEW q \in Requests, EditSave(q) PROVE TypeOK'
  BY <1>6, Stepping DEF EditSave, Step
<1>7. ASSUME NEW q \in Requests, RequestDies(q) PROVE TypeOK'
  BY <1>7, Stepping DEF RequestDies
<1>8. QED
  BY <1>1, <1>2, <1>3, <1>4, <1>5, <1>6, <1>7 DEF WebStep

LEMMA CompileTyped ==
  ASSUME TypeOK, NEW c \in Contracts, Compile(c)
  PROVE  /\ tries' \in Tries
         /\ eth' \in [Contracts -> Tries \cup {None}]
         /\ ethContract' \in [Tries -> EthRows]
<1>1. tries \in 0..MaxTries /\ tries' = tries + 1 /\ tries < MaxTries
  BY DEF TypeOK, Compile
<1>2. tries' \in Tries
  BY <1>1, BoundsAreNat DEF Tries
<1>3. NoRow \in EthRows /\ NewRow(c) \in EthRows
  BY DEF NoRow, NewRow, EthRows, LockValues
<1>4. eth \in [Contracts -> Tries \cup {None}] /\ ethContract \in [Tries -> EthRows]
  BY DEF TypeOK
<1>5. CASE c \in Reusing /\ eth[c] # None
  <2>1. eth' = eth /\ ethContract' = ethContract
    BY <1>5 DEF Compile
  <2>2. QED
    BY <1>2, <1>4, <2>1
<1>6. CASE ~(c \in Reusing /\ eth[c] # None)
  <2>1. eth' = [eth EXCEPT ![c] = tries']
    BY <1>1, <1>6 DEF Compile
  <2>2. ethContract' \in [Tries -> EthRows]
    BY <1>3, <1>4, <1>6 DEF Compile
  <2>3. QED
    BY <1>2, <1>4, <2>1, <2>2
<1>7. QED
  BY <1>5, <1>6

LEMMA TypeLaunch == TypeOK /\ HandleLaunch => TypeOK'
<1> SUFFICES ASSUME TypeOK, HandleLaunch PROVE TypeOK'
  OBVIOUS
<1> USE DEF rows, queue, network, web
<1>1. ASSUME NEW c \in Contracts, LaunchPostponed(c) PROVE TypeOK'
  <2>1. ready # << >> /\ (Ack \/ LeaveUnacked)
    BY <1>1, Receivable DEF LaunchPostponed, AlreadyPostponed
  <2>2. lockedBy' \in LockValues
    BY <1>1, LockTyped DEF LaunchPostponed, AlreadyPostponed, TypeOK
  <2>3. ready' \in Seq(Messages) /\ unacked' \in Seq(Messages)
    BY <2>1, AnsweredQueues DEF TypeOK
  <2>4. QED
    BY <1>1, <2>2, <2>3 DEF LaunchPostponed, TypeOK
<1>2. ASSUME NEW c \in Contracts, LaunchIgnored(c) PROVE TypeOK'
  <2>1. ready' \in Seq(Messages) /\ unacked' \in Seq(Messages)
    BY <1>2, Receivable, AnsweredQueues DEF LaunchIgnored, TypeOK
  <2>2. lockedBy' \in LockValues
    BY <1>2, LockTyped DEF LaunchIgnored, TypeOK
  <2>3. QED
    BY <1>2, <2>1, <2>2 DEF LaunchIgnored, TypeOK
<1>3. ASSUME NEW c \in Contracts, LaunchNotCompiled(c) PROVE TypeOK'
  <2>1. ready' \in Seq(Messages) /\ unacked' \in Seq(Messages)
    BY <1>3, Receivable, AnsweredQueues DEF LaunchNotCompiled, TypeOK
  <2>2. lockedBy' \in LockValues
    BY <1>3, LockTyped DEF LaunchNotCompiled, TypeOK
  <2>3. state' \in [Contracts -> States]
    BY <1>3 DEF LaunchNotCompiled, TypeOK, States
  <2>4. QED
    BY <1>3, <2>1, <2>2, <2>3 DEF LaunchNotCompiled, TypeOK
<1>4. ASSUME NEW c \in Contracts, LaunchCompile(c) PROVE TypeOK'
  <2>1. ready' \in Seq(Messages)
    BY <1>4, Receivable, HeadTailProperties DEF LaunchCompile, TypeOK
  <2>2. lockedBy' \in LockValues
    BY <1>4, LockTyped DEF LaunchCompile, TypeOK
  <2>3. /\ tries' \in 0..MaxTries
        /\ eth' \in [Contracts -> Tries \cup {None}]
        /\ ethContract' \in [Tries -> EthRows]
    BY <1>4, CompileTyped DEF LaunchCompile, Tries
  <2>4. QED
    BY <1>4, <2>1, <2>2, <2>3 DEF LaunchCompile, TypeOK
<1>5. ASSUME PrepareWhiteLabel PROVE TypeOK'
  BY <1>5 DEF PrepareWhiteLabel, TypeOK
<1>6. ASSUME SendTransaction PROVE TypeOK'
  <2>1. Launching
    BY <1>6 DEF SendTransaction, Launching
  <2>2. /\ handling.contract \in Contracts
        /\ handling' \in [step: {"compiled", "sent"}, contract: Contracts]
    BY <1>6, <2>1, Handled DEF SendTransaction
  <2>3. chain' \in [Tries -> [contract: LockValues,
                             status: {"unsent", "pending", "mined", "failed",
                                      "destroyed"}]]
    BY <1>6, <2>2 DEF SendTransaction, TypeOK, LockValues
  <2>4. QED
    BY <1>6, <2>2, <2>3 DEF SendTransaction, TypeOK
<1>7. ASSUME DeployRaises PROVE TypeOK'
  <2>1. handling.contract \in Contracts
    BY <1>7, Handled DEF DeployRaises
  <2>2. unacked' \in Seq(Messages)
    BY <1>7, <2>1, MessagesTyped DEF DeployRaises, TypeOK
  <2>3. lockedBy' \in LockValues
    BY <1>7, <2>1, LockTyped DEF DeployRaises, TypeOK
  <2>4. state' \in [Contracts -> States]
    BY <1>7, <2>1 DEF DeployRaises, TypeOK, States
  <2>5. QED
    BY <1>7, <2>2, <2>3, <2>4 DEF DeployRaises, TypeOK
<1>8. ASSUME RecordTransaction PROVE TypeOK'
  <2>1. state' \in [Contracts -> States]
    BY <1>8 DEF RecordTransaction, TypeOK, States
  <2>2. tries \in Tries \cup {None}
    BY BoundsAreNat DEF TypeOK, Tries, None
  <2>3. ethContract' \in [Tries -> EthRows]
    BY <1>8, <2>2 DEF RecordTransaction, TypeOK, EthRows
  <2>4. QED
    BY <1>8, <2>1, <2>3 DEF RecordTransaction, TypeOK
<1>9. QED
  BY <1>1, <1>2, <1>3, <1>4, <1>5, <1>6, <1>7, <1>8 DEF HandleLaunch

LEMMA TypeReport == TypeOK /\ HandleReport => TypeOK'
<1> SUFFICES ASSUME TypeOK, HandleReport PROVE TypeOK'
  OBVIOUS
<1> USE DEF rows, queue, network, web
<1>1. ASSUME DeployedUnknown \/ TransactionUnknown \/ KilledUnknown
      PROVE  TypeOK'
  <2>1. ready' \in Seq(Messages) /\ unacked' \in Seq(Messages)
    BY <1>1, Receivable, AnsweredQueues
    DEF DeployedUnknown, TransactionUnknown, KilledUnknown, TypeOK
  <2>2. QED
    BY <1>1, <2>1
    DEF DeployedUnknown, TransactionUnknown, KilledUnknown, TypeOK
<1>2. ASSUME NEW c \in Contracts, DeployedIgnored(c) PROVE TypeOK'
  <2>1. ready' \in Seq(Messages) /\ unacked' \in Seq(Messages)
    BY <1>2, Receivable, AnsweredQueues DEF DeployedIgnored, TypeOK
  <2>2. QED
    BY <1>2, <2>1 DEF DeployedIgnored, TypeOK
<1>3. ASSUME NEW c \in Contracts, DeployedPostponed(c) PROVE TypeOK'
  <2>1. ready' \in Seq(Messages) /\ unacked' \in Seq(Messages)
    BY <1>3, Receivable, AnsweredQueues
    DEF DeployedPostponed, AlreadyPostponed, TypeOK
  <2>2. lockedBy' \in LockValues
    BY <1>3, LockTyped DEF DeployedPostponed, AlreadyPostponed, TypeOK
  <2>3. QED
    BY <1>3, <2>1, <2>2 DEF DeployedPostponed, TypeOK
<1>4. ASSUME NEW c \in Contracts, DeployedRejected(c) PROVE TypeOK'
  <2>1. ready' \in Seq(Messages) /\ unacked' \in Seq(Messages)
    BY <1>4, Receivable, AnsweredQueues DEF DeployedRejected, TypeOK
  <2>2. lockedBy' \in LockValues
    <3>1. lockedBy' \in {lockedBy, TakeOffFor(lockedBy, c)}
      BY <1>4 DEF DeployedRejected, PostponedLock
    <3>2. QED
      BY <3>1, LockTyped DEF TypeOK
  <2>3. state' \in [Contracts -> States]
    BY <1>4 DEF DeployedRejected, TypeOK, States
  <2>4. QED
    BY <1>4, <2>1, <2>2, <2>3 DEF DeployedRejected, TypeOK
<1>5. ASSUME NEW c \in Contracts, DeployedAccepted(c) PROVE TypeOK'
  <2>1. ready' \in Seq(Messages) /\ unacked' \in Seq(Messages)
    BY <1>5, Receivable, AnsweredQueues DEF DeployedAccepted, TypeOK
  <2>2. lockedBy' \in LockValues
    BY <1>5 DEF DeployedAccepted, TakeOff, LockValues
  <2>3. state' \in [Contracts -> States]
    BY <1>5 DEF DeployedAccepted, TypeOK, States
  <2>4. Head(ready).address \in Tries
    BY <1>5, Receivable DEF DeployedAccepted, Messages
  <2>5. ethContract' \in [Tries -> EthRows]
    <3>1. ethContract' =
            [ethContract EXCEPT ![eth[c]].address = Head(ready).address]
      BY <1>5 DEF DeployedAccepted
    <3>2. QED
      BY <2>4, <3>1 DEF TypeOK, EthRows
  <2>6. QED
    BY <1>5, <2>1, <2>2, <2>3, <2>5 DEF DeployedAccepted, Mailing, TypeOK
<1>6. ASSUME NEW c \in Contracts, TransactionFailed(c) PROVE TypeOK'
  <2>1. ready' \in Seq(Messages) /\ unacked' \in Seq(Messages)
    BY <1>6, Receivable, AnsweredQueues DEF TransactionFailed, TypeOK
  <2>2. lockedBy' \in LockValues
    BY <1>6, LockTyped DEF TransactionFailed, TypeOK
  <2>3. state' \in [Contracts -> States]
    BY <1>6 DEF TransactionFailed, TypeOK, States
  <2>4. QED
    BY <1>6, <2>1, <2>2, <2>3 DEF TransactionFailed, TypeOK
<1>7. ASSUME NEW c \in Contracts, ContractKilled(c) PROVE TypeOK'
  <2>1. ready' \in Seq(Messages) /\ unacked' \in Seq(Messages)
    BY <1>7, Receivable, AnsweredQueues DEF ContractKilled, TypeOK
  <2>2. lockedBy' \in LockValues
    BY <1>7, LockTyped DEF ContractKilled, TypeOK
  <2>3. state' \in [Contracts -> States]
    BY <1>7 DEF ContractKilled, TypeOK, States
  <2>4. QED
    BY <1>7, <2>1, <2>2, <2>3 DEF ContractKilled, TypeOK
<1>8. ASSUME NEW c \in Contracts, DeployedMailed(c) PROVE TypeOK'
  <2>1. ready' \in Seq(Messages) /\ unacked' \in Seq(Messages)
    BY <1>8, LastAcked DEF DeployedMailed, TypeOK
  <2>2. QED
    BY <1>8, <2>1 DEF DeployedMailed, TypeOK
<1>9. ASSUME NEW c \in Contracts, DeployedNotMailed(c) PROVE TypeOK'
  <2>1. lockedBy' \in LockValues
    BY <1>9, LockTyped DEF DeployedNotMailed, TypeOK
  <2>2. state' \in [Contracts -> States]
    BY <1>9 DEF DeployedNotMailed, TypeOK, States
  <2>3. QED
    BY <1>9, <2>1, <2>2 DEF DeployedNotMailed, TypeOK
<1>10. QED
  BY <1>1, <1>2, <1>3, <1>4, <1>5, <1>6, <1>7, <1>8, <1>9 DEF HandleReport

LEMMA Redelivered ==
  ASSUME NEW S, ready \in Seq(S), unacked \in Seq(S), ReceiverRestart,
         Launching => Launch(handling.contract) \in S
  PROVE  ready' \in Seq(S) /\ unacked' \in Seq(S)
<1>1. unacked' = << >>
  BY DEF ReceiverRestart
<1>2. CASE ~Launching
  <2>1. ready' = unacked \o ready
    BY <1>2 DEF ReceiverRestart
  <2>2. QED
    BY <1>1, <2>1, ConcatProperties, EmptySeq
<1>3. CASE Launching
  <2>1. <<Launch(handling.contract)>> \in Seq(S)
    BY <1>3
  <2>2. unacked \o <<Launch(handling.contract)>> \in Seq(S)
    BY <2>1, ConcatProperties
  <2>3. ready' = (unacked \o <<Launch(handling.contract)>>) \o ready
    BY <1>3 DEF ReceiverRestart
  <2>4. QED
    BY <1>1, <2>2, <2>3, ConcatProperties, EmptySeq
<1>4. QED
  BY <1>2, <1>3

LEMMA TypeFault == TypeOK /\ Fault => TypeOK'
<1> SUFFICES ASSUME TypeOK, Fault PROVE TypeOK'
  OBVIOUS
<1> USE DEF rows, queue, network, web
<1>1. faults < MaxFaults /\ faults' = faults + 1 => faults' \in 0..MaxFaults
  BY BoundsAreNat DEF TypeOK
<1>2. ASSUME ReceiverRestart PROVE TypeOK'
  <2>1. ready' \in Seq(Messages) /\ unacked' \in Seq(Messages)
    BY <1>2, Redelivered, Handled, MessagesTyped DEF TypeOK
  <2>2. QED
    BY <1>1, <1>2, <2>1 DEF ReceiverRestart, TypeOK
<1>3. ASSUME NEW c \in Contracts, LaunchRequeued(c) PROVE TypeOK'
  <2>1. ready' \in Seq(Messages) /\ unacked' \in Seq(Messages)
    BY <1>3, Receivable, AnsweredQueues DEF LaunchRequeued, TypeOK
  <2>2. QED
    BY <1>1, <1>3, <2>1 DEF LaunchRequeued, TypeOK
<1>4. QED
  BY <1>2, <1>3 DEF Fault

LEMMA TypeNetwork == TypeOK /\ NetworkStep => TypeOK'
<1> SUFFICES ASSUME TypeOK, NEW t \in Tries, Mine(t) \/ Report(t) \/ Destroy(t)
             PROVE  TypeOK'
  BY DEF NetworkStep
<1> USE DEF rows, queue, network, web
<1>1. CASE Mine(t)
  BY <1>1 DEF Mine, TypeOK
<1>2. CASE Report(t)
  <2>1. PICK r \in Tries : \/ \E ok \in BOOLEAN :
                               ready' = Append(ready, Deployed(r, t, ok))
                           \/ ready' = Append(ready, TxFailed(t))
    BY <1>2 DEF Report, RowsOf
  <2>2. PICK m \in Messages : ready' = Append(ready, m)
    BY <2>1, MessagesTyped
  <2>3. QED
    BY <1>2, <2>2 DEF Report, TypeOK
<1>3. CASE Destroy(t)
  <2>1. PICK r \in Tries : ready' = Append(ready, Killed(r))
    BY <1>3 DEF Destroy, RowsOf
  <2>2. ready' \in Seq(Messages)
    BY <2>1, MessagesTyped DEF TypeOK
  <2>3. QED
    BY <1>3, <2>2 DEF Destroy, TypeOK
<1>4. QED
  BY <1>1, <1>2, <1>3

(***************************************************************************)
(* The database, the queues and the network always hold what the code      *)
(* takes them to hold, whatever the order of requests, messages, crashes   *)
(* and reports.                                                            *)
(***************************************************************************)
THEOREM TypeCorrect == Spec => []TypeOK
<1>1. TypeOK /\ UNCHANGED vars => TypeOK'
  BY DEF vars, rows, queue, network, web, TypeOK
<1>2. TypeOK /\ [Next]_vars => TypeOK'
  BY <1>1, TypeWeb, TypeLaunch, TypeReport, TypeFault, TypeNetwork DEF Next
<1>3. QED
  BY <1>2, TypeInit, PTL DEF Spec
-----------------------------------------------------------------------------
(***************************************************************************)
(* No deployment of what is deployed already.  From the test in deploy()   *)
(* to the transaction only web requests run beside the receiver, and none  *)
(* of them writes one of the closed states.                                *)
(***************************************************************************)
ClosedStates == {"ACTIVE", "KILLED", "POSTPONED"}

LaunchIsOpen ==
  handling.step = "compiled" => state[handling.contract] \notin ClosedStates

LEMMA WebOpensOnly ==
  ASSUME TypeOK, WebStep, NEW c \in Contracts, state'[c] # state[c]
  PROVE  state'[c] \notin ClosedStates
<1>1. ASSUME NEW q \in Requests, DeploySave(q) \/ EditSave(q)
      PROVE  state'[c] \notin ClosedStates
  BY <1>1 DEF DeploySave, EditSave, TypeOK, ClosedStates
<1>2. \/ state' = state
      \/ \E q \in Requests : DeploySave(q) \/ EditSave(q)
  BY DEF WebStep, DeployRead, EditRead, DeployCharge, DeployLaunch, RequestDies
<1>3. QED
  BY <1>1, <1>2

LEMMA LaunchStaysOpen ==
  TypeOK /\ LaunchIsOpen /\ [Next]_vars => LaunchIsOpen'
<1> SUFFICES ASSUME TypeOK, LaunchIsOpen, [Next]_vars, handling'.step = "compiled"
             PROVE  state'[handling'.contract] \notin ClosedStates
  BY DEF LaunchIsOpen
<1>1. CASE WebStep
  <2>1. handling' = handling
    BY <1>1 DEF WebStep, DeployRead, EditRead, DeployCharge, DeploySave,
                DeployLaunch, EditSave, RequestDies
  <2>2. handling.contract \in Contracts
    BY <2>1, Handled DEF Launching
  <2>3. QED
    BY <1>1, <2>1, <2>2, WebOpensOnly DEF LaunchIsOpen
<1>2. ASSUME NEW c \in Contracts, LaunchCompile(c)
      PROVE  state'[handling'.contract] \notin ClosedStates
  BY <1>2 DEF LaunchCompile, Launchable, ClosedStates
<1>3. CASE HandleLaunch /\ ~ \E c \in Contracts : LaunchCompile(c)
  <2>1. handling' = Idle \/ handling'.step = "sent" \/ handling = Idle
    BY <1>3 DEF HandleLaunch, LaunchPostponed, LaunchIgnored, LaunchNotCompiled,
                PrepareWhiteLabel, SendTransaction, DeployRaises,
                RecordTransaction, Receiving, TypeOK
  <2>2. handling = Idle => handling' = Idle
    BY <1>3 DEF HandleLaunch, LaunchPostponed, LaunchIgnored, LaunchNotCompiled,
                PrepareWhiteLabel, SendTransaction, DeployRaises,
                RecordTransaction, Idle
  <2>3. QED
    BY <2>1, <2>2 DEF Idle
<1>4. CASE HandleReport
  <2>1. handling' = Idle \/ \E c \in Contracts : handling' = Mailing(c)
    BY <1>4 DEF HandleReport, DeployedUnknown, TransactionUnknown,
                KilledUnknown, DeployedIgnored, DeployedPostponed,
                DeployedRejected, DeployedAccepted, DeployedMailed,
                DeployedNotMailed, TransactionFailed, ContractKilled, Receiving
  <2>2. QED
    BY <2>1 DEF Idle, Mailing
<1>5. CASE Fault
  BY <1>5 DEF Fault, ReceiverRestart, LaunchRequeued, Receiving, Idle
<1>6. CASE NetworkStep
  BY <1>6 DEF NetworkStep, Mine, Report, Destroy, LaunchIsOpen
<1>7. CASE UNCHANGED vars
  BY <1>7 DEF vars, LaunchIsOpen
<1>8. QED
  BY <1>1, <1>2, <1>3, <1>4, <1>5, <1>6, <1>7 DEF Next

LEMMA OnlySendSends ==
  ASSUME TypeOK, Next, NEW t \in Tries,
         chain[t].status = "unsent", chain'[t].status = "pending"
  PROVE  /\ SendTransaction
         /\ chain'[t].contract = handling.contract
<1>1. CASE WebStep
  BY <1>1 DEF WebStep, DeployRead, EditRead, DeployCharge, DeploySave,
              DeployLaunch, EditSave, RequestDies, network
<1>2. CASE HandleLaunch
  <2>1. SendTransaction
    BY <1>2 DEF HandleLaunch, LaunchPostponed, LaunchIgnored, LaunchNotCompiled,
                LaunchCompile, PrepareWhiteLabel, DeployRaises,
                RecordTransaction, network
  <2>2. QED
    BY <2>1 DEF SendTransaction, TypeOK
<1>3. CASE HandleReport
  BY <1>3 DEF HandleReport, DeployedUnknown, TransactionUnknown, KilledUnknown,
              DeployedIgnored, DeployedPostponed, DeployedRejected,
              DeployedAccepted, DeployedMailed, DeployedNotMailed,
              TransactionFailed, ContractKilled, network
<1>4. CASE Fault
  BY <1>4 DEF Fault, ReceiverRestart, LaunchRequeued, network
<1>5. CASE NetworkStep
  BY <1>5 DEF NetworkStep, Mine, Report, Destroy, TypeOK
<1>6. QED
  BY <1>1, <1>2, <1>3, <1>4, <1>5 DEF Next

(***************************************************************************)
(* A repeated or redelivered launch never deploys again a contract that    *)
(* the database shows as deployed, killed or postponed.                    *)
(***************************************************************************)
THEOREM DeployedOnceClosed == Spec => NeverRedeployed
<1>1. Init => LaunchIsOpen
  BY DEF Init, LaunchIsOpen, Idle
<1>2. Spec => []LaunchIsOpen
  BY <1>1, TypeCorrect, LaunchStaysOpen, PTL DEF Spec
<1> DEFINE SentOpen ==
      \A t \in Tries :
        chain[t].status = "unsent" /\ chain'[t].status = "pending"
          => state[chain'[t].contract] \notin {"ACTIVE", "KILLED", "POSTPONED"}
<1>3. TypeOK /\ LaunchIsOpen /\ [Next]_vars => [SentOpen]_vars
  <2> SUFFICES ASSUME TypeOK, LaunchIsOpen, Next, NEW t \in Tries,
                      chain[t].status = "unsent", chain'[t].status = "pending"
               PROVE  state[chain'[t].contract] \notin ClosedStates
    BY DEF ClosedStates
  <2>1. SendTransaction /\ chain'[t].contract = handling.contract
    BY OnlySendSends
  <2>2. QED
    BY <2>1 DEF SendTransaction, LaunchIsOpen
<1>4. QED
  BY <1>2, <1>3, TypeCorrect, PTL DEF Spec, NeverRedeployed
-----------------------------------------------------------------------------
(***************************************************************************)
(* The records agree (RecordsAgree).  Most steps change neither the rows   *)
(* nor the network, and take messages from the queue or add ones that      *)
(* claim nothing: they are the quiet steps.                                *)
(***************************************************************************)
LEMMA PlainMessages ==
  /\ \A c \in Contracts : Launch(c) \in TruthfulMessages
  /\ \A r, t \in Tries : Deployed(r, t, FALSE) \in TruthfulMessages
  /\ \A t \in Tries : TxFailed(t) \in TruthfulMessages
  /\ \A r \in Tries : Killed(r) \in TruthfulMessages
BY MessagesTyped
DEF TruthfulMessages, Truthful, Launch, Deployed, TxFailed, Killed

QuietStep ==
  /\ UNCHANGED <<eth, ethContract, tries, chain>>
  /\ handling' \in {handling, Idle}
  /\ ready' \in Seq(TruthfulMessages)
  /\ unacked' \in Seq(TruthfulMessages)
  /\ \A c \in Contracts : state'[c] = "ACTIVE" => state[c] = "ACTIVE"

LEMMA QuietKeeps == RecordsAgree /\ QuietStep => RecordsAgree'
<1> SUFFICES ASSUME RecordsAgree, QuietStep PROVE RecordsAgree'
  OBVIOUS
<1> USE DEF RecordsAgree, QuietStep
<1>1. RowsAreOwned'
  BY DEF RowsAreOwned, Owner
<1>2. RowsAreTrue'
  BY DEF RowsAreTrue, Exists, Owner
<1>3. LaunchInHand'
  BY DEF LaunchInHand, Launching, Idle
<1>4. TruthfulMessages' = TruthfulMessages
  BY DEF TruthfulMessages, Truthful, Owner
<1>5. ReportsAreTrue'
  BY <1>4 DEF ReportsAreTrue
<1>6. ActiveHasAddress'
  BY DEF ActiveHasAddress
<1>7. QED
  BY <1>1, <1>2, <1>3, <1>5, <1>6

LEMMA QuietAnswer ==
  ASSUME RecordsAgree, ready # << >>, Ack \/ LeaveUnacked \/ Requeue
  PROVE  ready' \in Seq(TruthfulMessages) /\ unacked' \in Seq(TruthfulMessages)
BY AnsweredQueues DEF RecordsAgree, ReportsAreTrue

LEMMA QuietWeb == TypeOK /\ RecordsAgree /\ WebStep => QuietStep
<1> SUFFICES ASSUME TypeOK, RecordsAgree, WebStep PROVE QuietStep
  OBVIOUS
<1>1. UNCHANGED <<eth, ethContract, tries, chain, handling, unacked>>
  BY DEF WebStep, DeployRead, EditRead, DeployCharge, DeploySave, DeployLaunch,
         EditSave, RequestDies, rows, queue, network
<1>2. \A c \in Contracts : state'[c] = "ACTIVE" => state[c] = "ACTIVE"
  BY WebOpensOnly DEF ClosedStates
<1>3. ready' \in Seq(TruthfulMessages)
  <2>1. ready \in Seq(TruthfulMessages)
    BY DEF RecordsAgree, ReportsAreTrue
  <2>2. CASE ready' = ready
    BY <2>1, <2>2
  <2>3. ASSUME NEW q \in Requests, DeployLaunch(q)
        PROVE  ready' \in Seq(TruthfulMessages)
    <3>1. request[q].contract \in Contracts
      BY <2>3, Stepping DEF DeployLaunch, Step
    <3>2. QED
      BY <2>1, <2>3, <3>1, PlainMessages DEF DeployLaunch
  <2>4. QED
    BY <2>2, <2>3 DEF WebStep, DeployRead, EditRead, DeployCharge, DeploySave,
                      EditSave, RequestDies, queue
<1>4. QED
  BY <1>1, <1>2, <1>3 DEF QuietStep, RecordsAgree, ReportsAreTrue

LEMMA QuietLaunch ==
  ASSUME TypeOK, RecordsAgree,
         \/ \E c \in Contracts : \/ LaunchPostponed(c)
                                 \/ LaunchIgnored(c)
                                 \/ LaunchNotCompiled(c)
         \/ PrepareWhiteLabel
         \/ DeployRaises
  PROVE  QuietStep
<1> USE DEF rows, queue, network
<1>1. ASSUME NEW c \in Contracts, LaunchPostponed(c) \/ LaunchIgnored(c)
      PROVE  QuietStep
  <2>1. ready # << >> /\ (Ack \/ LeaveUnacked)
    BY <1>1, Receivable DEF LaunchPostponed, LaunchIgnored, AlreadyPostponed
  <2>2. ready' \in Seq(TruthfulMessages) /\ unacked' \in Seq(TruthfulMessages)
    BY <2>1, QuietAnswer
  <2>3. QED
    BY <1>1, <2>2 DEF LaunchPostponed, LaunchIgnored, QuietStep
<1>2. ASSUME NEW c \in Contracts, LaunchNotCompiled(c) PROVE QuietStep
  <2>1. ready' \in Seq(TruthfulMessages) /\ unacked' \in Seq(TruthfulMessages)
    BY <1>2, Receivable, QuietAnswer DEF LaunchNotCompiled
  <2>2. QED
    BY <1>2, <2>1 DEF LaunchNotCompiled, QuietStep, TypeOK
<1>3. CASE PrepareWhiteLabel
  BY <1>3 DEF PrepareWhiteLabel, QuietStep, RecordsAgree, ReportsAreTrue
<1>4. CASE DeployRaises
  <2>1. unacked' \in Seq(TruthfulMessages)
    BY <1>4, Handled, PlainMessages
    DEF DeployRaises, RecordsAgree, ReportsAreTrue
  <2>2. QED
    BY <1>4, <2>1
    DEF DeployRaises, QuietStep, RecordsAgree, ReportsAreTrue, TypeOK
<1>5. QED
  BY <1>1, <1>2, <1>3, <1>4

LEMMA QuietReport ==
  ASSUME TypeOK, RecordsAgree, HandleReport,
         ~ \E c \in Contracts : DeployedAccepted(c)
  PROVE  QuietStep
<1>1. /\ UNCHANGED <<eth, ethContract, tries, chain>>
      /\ handling' \in {handling, Idle}
  BY DEF HandleReport, DeployedUnknown, TransactionUnknown, KilledUnknown,
         DeployedIgnored, DeployedPostponed, DeployedRejected, DeployedMailed,
         DeployedNotMailed, TransactionFailed, ContractKilled, rows, network
<1>2. \/ ready # << >> /\ (Ack \/ LeaveUnacked)
      \/ AckLast
      \/ UNCHANGED queue
  BY Receivable
  DEF HandleReport, DeployedUnknown, TransactionUnknown, KilledUnknown,
      DeployedIgnored, DeployedPostponed, DeployedRejected, DeployedMailed,
      DeployedNotMailed, TransactionFailed, ContractKilled, AlreadyPostponed
<1>3. ready' \in Seq(TruthfulMessages) /\ unacked' \in Seq(TruthfulMessages)
  BY <1>2, QuietAnswer, LastAcked DEF RecordsAgree, ReportsAreTrue, queue
<1>4. \A c \in Contracts : state'[c] = "ACTIVE" => state[c] = "ACTIVE"
  BY DEF HandleReport, DeployedUnknown, TransactionUnknown, KilledUnknown,
         DeployedIgnored, DeployedPostponed, DeployedRejected, DeployedMailed,
         DeployedNotMailed, TransactionFailed, ContractKilled, TypeOK
<1>5. QED
  BY <1>1, <1>3, <1>4 DEF QuietStep

LEMMA QuietFault ==
  ASSUME TypeOK, RecordsAgree, Fault
  PROVE  QuietStep
<1>1. UNCHANGED <<state, eth, ethContract, tries, chain>>
  BY DEF Fault, ReceiverRestart, LaunchRequeued, rows, network
<1>2. handling' \in {handling, Idle}
  BY DEF Fault, ReceiverRestart, LaunchRequeued
<1>3. ready' \in Seq(TruthfulMessages) /\ unacked' \in Seq(TruthfulMessages)
  <2>1. CASE ReceiverRestart
    BY <2>1, Redelivered, Handled, PlainMessages DEF RecordsAgree, ReportsAreTrue
  <2>2. ASSUME NEW c \in Contracts, LaunchRequeued(c)
        PROVE  ready' \in Seq(TruthfulMessages) /\ unacked' \in Seq(TruthfulMessages)
    BY <2>2, Receivable, QuietAnswer DEF LaunchRequeued
  <2>3. QED
    BY <2>1, <2>2 DEF Fault
<1>4. QED
  BY <1>1, <1>2, <1>3 DEF QuietStep

\* What compile() may do to the rows: give c a fresh one, and clear its old one.
Refreshed(c) ==
  /\ eth' = [eth EXCEPT ![c] = tries']
  /\ ethContract'[tries'] = NewRow(c)
  /\ \A r \in Tries \ {tries'} :
       \/ ethContract'[r] = ethContract[r]
       \/ ethContract'[r] = NoRow /\ r = eth[c]

LEMMA CompileAgrees ==
  ASSUME TypeOK, RecordsAgree, NEW c \in Contracts, LaunchCompile(c)
  PROVE  RecordsAgree'
<1>1. /\ tries \in Nat /\ tries' = tries + 1 /\ tries' \in Tries
      /\ eth \in [Contracts -> Tries \cup {None}]
      /\ ethContract \in [Tries -> EthRows]
      /\ eth' \in [Contracts -> Tries \cup {None}]
      /\ ethContract' \in [Tries -> EthRows]
  <2>1. Compile(c) /\ tries \in Nat
    BY BoundsAreNat DEF LaunchCompile, TypeOK
  <2>2. QED
    BY <2>1, CompileTyped DEF Compile, TypeOK
<1>2. /\ handling = Idle /\ handling' = [step |-> "compiled", contract |-> c]
      /\ chain' = chain /\ state' = state /\ state[c] # "ACTIVE"
  BY DEF LaunchCompile, Launchable, Receiving, network
<1>3. /\ RowsAreOwned /\ RowsAreTrue /\ LaunchInHand /\ ReportsAreTrue
      /\ ActiveHasAddress
  BY DEF RecordsAgree
<1>4. \/ eth' = eth /\ ethContract' = ethContract /\ eth[c] # None
      \/ Refreshed(c)
  BY <1>1 DEF LaunchCompile, Compile, Refreshed
<1>5. Owner(tries') = NoOne
  BY <1>1, <1>3 DEF RowsAreOwned
<1>6. RowsAreOwned'
  <2>1. CASE eth' = eth /\ ethContract' = ethContract
    BY <1>1, <1>3, <2>1 DEF RowsAreOwned, Owner, Tries, None
  <2>2. CASE Refreshed(c)
    <3> USE <2>2 DEF Refreshed
    <3>1. ethContract'[tries'].contract = c
      BY <2>2 DEF NewRow
    <3>2. ASSUME NEW d \in Contracts, eth'[d] # None
          PROVE  eth'[d] <= tries' /\ ethContract'[eth'[d]].contract = d
      <4>1. CASE d = c
        BY <1>1, <2>2, <3>1, <4>1
      <4>2. CASE d # c
        <5>1. /\ eth'[d] = eth[d] /\ eth[d] \in Tries
              /\ eth[d] <= tries /\ Owner(eth[d]) = d
          BY <1>1, <1>3, <2>2, <3>2, <4>2 DEF RowsAreOwned
        <5>2. eth[d] # tries' /\ eth[d] # eth[c]
          BY <1>1, <1>3, <1>5, <4>2, <5>1, NoOneIsNotAContract
          DEF RowsAreOwned, Tries, None
        <5>3. QED
          BY <1>1, <2>2, <5>1, <5>2 DEF Owner, Tries
      <4>3. QED
        BY <4>1, <4>2
    <3>3. ASSUME NEW r \in Tries, ethContract'[r].contract # NoOne
          PROVE  r <= tries' /\ eth'[ethContract'[r].contract] # None
      <4>1. CASE r = tries'
        BY <1>1, <2>2, <3>1, <4>1 DEF Tries, None
      <4>2. CASE r # tries'
        <5>1. /\ ethContract'[r].contract = Owner(r)
              /\ Owner(r) # NoOne /\ Owner(r) \in Contracts
          BY <1>1, <2>2, <3>3, <4>2
          DEF Owner, NoRow, NewRow, EthRows, LockValues
        <5>2. r <= tries /\ eth[Owner(r)] # None
          BY <1>3, <5>1 DEF RowsAreOwned
        <5>3. QED
          BY <1>1, <2>2, <5>1, <5>2 DEF Tries, None
      <4>3. QED
        BY <4>1, <4>2
    <3>4. QED
      BY <3>2, <3>3 DEF RowsAreOwned, Owner
  <2>3. QED
    BY <1>4, <2>1, <2>2
<1>7. RowsAreTrue'
  BY <1>1, <1>2, <1>3, <1>4 DEF RowsAreTrue, Exists, Owner, NewRow, NoRow, Refreshed
<1>8. LaunchInHand'
  <2>1. eth'[c] # None
    BY <1>1, <1>4 DEF Tries, None, Refreshed
  <2>2. QED
    BY <1>1, <1>2, <1>3, <2>1 DEF LaunchInHand, Launching, Idle, Tries
<1>9. ReportsAreTrue'
  <2>1. ASSUME NEW m \in TruthfulMessages PROVE m \in TruthfulMessages'
    <3>1. CASE m.type = "deployed" /\ m.success
      <4>1. m.eth \in Tries /\ m.eth <= tries /\ m.eth # tries'
        BY <1>1, <3>1 DEF TruthfulMessages, Truthful, Messages, Tries
      <4>2. Owner(m.eth)' \in {NoOne, Owner(m.eth)}
        BY <1>4, <4>1 DEF Owner, NoRow, NewRow, Refreshed
      <4>3. QED
        BY <1>1, <1>2, <3>1, <4>1, <4>2 DEF TruthfulMessages, Truthful, Tries
    <3>2. CASE ~(m.type = "deployed" /\ m.success)
      BY <3>2 DEF TruthfulMessages, Truthful
    <3>3. QED
      BY <3>1, <3>2
  <2>2. TruthfulMessages \subseteq TruthfulMessages'
    BY <2>1
  <2>3. ready' \in Seq(TruthfulMessages) /\ unacked' \in Seq(TruthfulMessages)
    BY <1>3, Receivable, HeadTailProperties DEF LaunchCompile, ReportsAreTrue
  <2>4. QED
    BY <2>2, <2>3, SeqMonotonic DEF ReportsAreTrue
<1>10. ActiveHasAddress'
  <2>1. ASSUME NEW d \in Contracts, state'[d] = "ACTIVE"
        PROVE  eth'[d] # None /\ ethContract'[eth'[d]].address # None
    <3>1. d # c /\ eth'[d] = eth[d] /\ eth[d] # None /\ eth[d] \in Tries
      BY <1>1, <1>2, <1>3, <1>4, <2>1 DEF ActiveHasAddress, Refreshed
    <3>2. eth[d] # eth[c] /\ eth[d] # tries'
      BY <1>1, <1>3, <1>5, <3>1, NoOneIsNotAContract DEF RowsAreOwned
    <3>3. QED
      BY <1>2, <1>3, <1>4, <2>1, <3>1, <3>2 DEF ActiveHasAddress, Refreshed
  <2>2. QED
    BY <2>1 DEF ActiveHasAddress
<1>11. QED
  BY <1>6, <1>7, <1>8, <1>9, <1>10 DEF RecordsAgree

(***************************************************************************)
(* A step of the network keeps what the records claim, as long as no       *)
(* transaction changes hands, is unsent or stops existing.                 *)
(***************************************************************************)
ChainGrows ==
  /\ UNCHANGED <<state, eth, ethContract, tries>>
  /\ \A t \in Tries :
       /\ chain[t].status # "unsent" =>
            chain'[t].status # "unsent" /\ chain'[t].contract = chain[t].contract
       /\ chain[t].status \in {"mined", "destroyed"} =>
            chain'[t].status \in {"mined", "destroyed"}

LEMMA GrowingKeeps ==
  ASSUME TypeOK, RecordsAgree, ChainGrows
  PROVE  /\ RowsAreOwned' /\ RowsAreTrue' /\ ActiveHasAddress'
         /\ TruthfulMessages \subseteq TruthfulMessages'
<1>1. RowsAreOwned' /\ ActiveHasAddress'
  BY DEF RecordsAgree, ChainGrows, RowsAreOwned, ActiveHasAddress, Owner
<1>2. RowsAreTrue'
  <2>1. ASSUME NEW r \in Tries
        PROVE  /\ ethContract[r].tx_hash \in Tries \cup {None}
               /\ ethContract[r].address \in Tries \cup {None}
    BY DEF TypeOK, EthRows
  <2>2. QED
    BY <2>1 DEF RecordsAgree, ChainGrows, RowsAreTrue, Exists, Owner
<1>3. ASSUME NEW m \in TruthfulMessages PROVE m \in TruthfulMessages'
  <2>1. m.type = "deployed" => m.address \in Tries
    BY DEF TruthfulMessages, Messages
  <2>2. QED
    BY <2>1 DEF TruthfulMessages, Truthful, ChainGrows, Owner
<1>4. QED
  BY <1>1, <1>2, <1>3

LEMMA SendAgrees ==
  ASSUME TypeOK, RecordsAgree, SendTransaction
  PROVE  RecordsAgree'
<1>1. /\ Launching /\ handling.step = "compiled"
      /\ handling' = [handling EXCEPT !.step = "sent"]
      /\ handling \in [step: {"compiled", "sent"}, contract: Contracts]
      /\ chain' = [chain EXCEPT ![tries] =
                     [contract |-> handling.contract, status |-> "pending"]]
      /\ UNCHANGED <<state, eth, ethContract, tries, ready, unacked>>
  BY Handled DEF SendTransaction, Launching, rows, queue
<1>2. LaunchInHand /\ ReportsAreTrue
  BY DEF RecordsAgree
<1>3. tries \in Tries /\ chain[tries].status = "unsent"
  BY <1>1, <1>2 DEF LaunchInHand
<1>4. ChainGrows
  BY <1>1, <1>3 DEF ChainGrows, TypeOK
<1>5. LaunchInHand'
  BY <1>1, <1>2, <1>3 DEF LaunchInHand, Launching, Idle, TypeOK, Tries
<1>6. ReportsAreTrue'
  BY <1>1, <1>2, <1>4, GrowingKeeps, SeqMonotonic DEF ReportsAreTrue
<1>7. QED
  BY <1>4, <1>5, <1>6, GrowingKeeps DEF RecordsAgree

LEMMA RecordAgrees ==
  ASSUME TypeOK, RecordsAgree, RecordTransaction
  PROVE  RecordsAgree'
<1> DEFINE c == handling.contract
<1>1. /\ Launching /\ handling.step = "sent" /\ handling' = Idle
      /\ c \in Contracts
      /\ ethContract' = [ethContract EXCEPT ![eth[c]].tx_hash = tries]
      /\ state' = [state EXCEPT ![c] = "WAITING_FOR_DEPLOYMENT"]
      /\ UNCHANGED <<eth, tries, chain, ready, unacked>>
  BY Handled DEF RecordTransaction, Launching, queue, network
<1>2. /\ RowsAreOwned /\ RowsAreTrue /\ LaunchInHand /\ ReportsAreTrue
      /\ ActiveHasAddress
  BY DEF RecordsAgree
<1>3. /\ eth[c] \in Tries /\ Owner(eth[c]) = c
      /\ chain[tries].status # "unsent" /\ chain[tries].contract = c
  BY <1>1, <1>2 DEF LaunchInHand, RowsAreOwned, TypeOK
<1>4. \A r \in Tries :
        /\ ethContract'[r].contract = ethContract[r].contract
        /\ ethContract'[r].address = ethContract[r].address
        /\ \/ ethContract'[r].tx_hash = ethContract[r].tx_hash
           \/ r = eth[c] /\ ethContract'[r].tx_hash = tries
  BY <1>1 DEF TypeOK, EthRows
<1>5. RowsAreOwned'
  BY <1>1, <1>2, <1>4 DEF RowsAreOwned, Owner, TypeOK
<1>6. RowsAreTrue'
  BY <1>1, <1>2, <1>3, <1>4 DEF RowsAreTrue, Exists, Owner
<1>7. LaunchInHand'
  BY <1>1, <1>2 DEF LaunchInHand, Launching, Idle
<1>8. ReportsAreTrue'
  <2>1. ASSUME NEW m \in TruthfulMessages PROVE m \in TruthfulMessages'
    <3>1. m.type = "deployed" => m.eth \in Tries
      BY DEF TruthfulMessages, Messages
    <3>2. QED
      BY <1>1, <1>4, <3>1 DEF TruthfulMessages, Truthful, Owner
  <2>2. QED
    BY <1>1, <1>2, <2>1, SeqMonotonic DEF ReportsAreTrue
<1>9. ActiveHasAddress'
  BY <1>1, <1>2, <1>4 DEF ActiveHasAddress, TypeOK
<1>10. QED
  BY <1>5, <1>6, <1>7, <1>8, <1>9 DEF RecordsAgree

(***************************************************************************)
(* The report is about one of c's own rows, so the address it brings is    *)
(* that of a contract made for c.                                          *)
(***************************************************************************)
LEMMA AcceptAgrees ==
  ASSUME TypeOK, RecordsAgree, NEW c \in Contracts, DeployedAccepted(c)
  PROVE  RecordsAgree'
<1> DEFINE m == Head(ready)
<1>1. /\ m \in TruthfulMessages /\ m.type = "deployed" /\ m.success
      /\ m.eth \in Tries /\ m.address \in Tries /\ ready # << >>
      /\ handling' = Mailing(c)
      /\ Owner(m.eth) = c
  BY Receivable, HeadTailProperties
  DEF DeployedAccepted, Rejected, RecordsAgree, ReportsAreTrue, Messages,
      TruthfulMessages
<1>2. /\ RowsAreOwned /\ RowsAreTrue /\ LaunchInHand /\ ReportsAreTrue
      /\ ActiveHasAddress
  BY DEF RecordsAgree
<1>3. Exists(m.address, c)
  BY <1>1, NoOneIsNotAContract DEF TruthfulMessages, Truthful, Exists
<1>4. eth[c] \in Tries /\ eth[c] # None /\ Owner(eth[c]) = c
  BY <1>1, <1>2, NoOneIsNotAContract DEF RowsAreOwned, TypeOK
<1>5. /\ UNCHANGED <<eth, tries, chain>>
      /\ \A d \in Contracts : state'[d] = "ACTIVE" => state[d] = "ACTIVE" \/ d = c
      /\ ethContract' = [ethContract EXCEPT ![eth[c]].address = m.address]
  BY DEF DeployedAccepted, network, TypeOK
<1>6. \A r \in Tries :
        /\ ethContract'[r].contract = ethContract[r].contract
        /\ ethContract'[r].tx_hash = ethContract[r].tx_hash
        /\ \/ ethContract'[r].address = ethContract[r].address /\ r # eth[c]
           \/ r = eth[c] /\ ethContract'[r].address = m.address
  BY <1>5 DEF TypeOK, EthRows
<1>7. RowsAreOwned'
  BY <1>2, <1>5, <1>6 DEF RowsAreOwned, Owner, TypeOK
<1>8. RowsAreTrue'
  BY <1>2, <1>3, <1>4, <1>5, <1>6 DEF RowsAreTrue, Exists, Owner
<1>9. LaunchInHand'
  BY <1>1, <1>2, <1>5 DEF LaunchInHand, Launching, Mailing
<1>10. ReportsAreTrue'
  <2>1. ASSUME NEW n \in TruthfulMessages PROVE n \in TruthfulMessages'
    <3>1. n.type = "deployed" => n.eth \in Tries
      BY DEF TruthfulMessages, Messages
    <3>2. QED
      BY <1>5, <1>6, <3>1 DEF TruthfulMessages, Truthful, Owner
  <2>2. ready' \in Seq(TruthfulMessages) /\ unacked' \in Seq(TruthfulMessages)
    BY <1>1, QuietAnswer DEF DeployedAccepted
  <2>3. QED
    BY <2>1, <2>2, SeqMonotonic DEF ReportsAreTrue
<1>11. ActiveHasAddress'
  <2>1. m.address # None
    BY <1>1 DEF Tries, None
  <2>2. QED
    BY <1>2, <1>4, <1>5, <1>6, <2>1 DEF ActiveHasAddress, TypeOK
<1>12. QED
  BY <1>7, <1>8, <1>9, <1>10, <1>11 DEF RecordsAgree

LEMMA NetworkAgrees ==
  ASSUME TypeOK, RecordsAgree, NEW t \in Tries, Mine(t) \/ Report(t) \/ Destroy(t)
  PROVE  RecordsAgree'
<1>1. /\ UNCHANGED <<state, eth, ethContract, tries, handling, unacked>>
      /\ LaunchInHand /\ ReportsAreTrue
  BY DEF Mine, Report, Destroy, rows, queue, RecordsAgree
\* Only t's status moves, from pending to its outcome or from mined to destroyed.
<1> DEFINE Moves(s) ==
      /\ chain'[s].contract = chain[s].contract
      /\ \/ chain'[s].status = chain[s].status
         \/ chain[s].status = "pending" /\ chain'[s].status \in {"mined", "failed"}
         \/ chain[s].status = "mined" /\ chain'[s].status = "destroyed"
<1>2. ASSUME NEW s \in Tries PROVE Moves(s)
  <2>1. CASE Mine(t)
    BY <2>1 DEF Mine, TypeOK
  <2>2. CASE Report(t)
    BY <2>2 DEF Report
  <2>3. CASE Destroy(t)
    BY <2>3 DEF Destroy, TypeOK
  <2>4. QED
    BY <2>1, <2>2, <2>3
<1>3. ChainGrows
  BY <1>1, <1>2 DEF ChainGrows
<1>4. LaunchInHand'
  BY <1>1, <1>2 DEF LaunchInHand, Launching, Idle
<1>5. ready' \in Seq(TruthfulMessages')
  <2>1. ready \in Seq(TruthfulMessages')
    BY <1>1, <1>3, GrowingKeeps, SeqMonotonic DEF ReportsAreTrue
  <2>2. CASE Mine(t)
    BY <2>1, <2>2 DEF Mine, queue
  <2>3. CASE Report(t)
    <3>1. PICK r \in RowsOf(t) :
            \/ /\ chain[t].status = "mined"
               /\ ready' = Append(ready, Deployed(r, t, TRUE))
            \/ ready' = Append(ready, Deployed(r, t, FALSE))
            \/ ready' = Append(ready, TxFailed(t))
      BY <2>3 DEF Report
    <3>2. /\ r \in Tries /\ r <= tries /\ Owner(r) = chain[t].contract
          /\ chain' = chain /\ ethContract' = ethContract /\ tries' = tries
      BY <2>3, <1>1 DEF RowsOf, RecordsAgree, RowsAreOwned, RowsAreTrue, Report,
                        Tries, None
    <3>3. TruthfulMessages' = TruthfulMessages
      BY <3>2 DEF TruthfulMessages, Truthful, Owner
    <3>4. chain[t].status = "mined" => Deployed(r, t, TRUE) \in TruthfulMessages
      BY <3>2, MessagesTyped DEF TruthfulMessages, Truthful, Deployed
    <3>5. PICK m \in TruthfulMessages : ready' = Append(ready, m)
      BY <3>1, <3>2, <3>4, PlainMessages
    <3>6. QED
      BY <2>1, <3>3, <3>5
  <2>4. CASE Destroy(t)
    <3>1. PICK r \in Tries : ready' = Append(ready, Killed(r))
      BY <2>4 DEF Destroy, RowsOf
    <3>2. Killed(r) \in TruthfulMessages'
      BY <1>3, PlainMessages, GrowingKeeps
    <3>3. QED
      BY <2>1, <3>1, <3>2
  <2>5. QED
    BY <2>2, <2>3, <2>4
<1>6. ReportsAreTrue'
  <2>1. unacked' \in Seq(TruthfulMessages')
    BY <1>1, <1>3, GrowingKeeps, SeqMonotonic DEF ReportsAreTrue
  <2>2. QED
    BY <1>5, <2>1 DEF ReportsAreTrue
<1>7. QED
  BY <1>3, <1>4, <1>6, GrowingKeeps DEF RecordsAgree

LEMMA RecordsStayAgreed ==
  TypeOK /\ RecordsAgree /\ [Next]_vars => RecordsAgree'
<1> SUFFICES ASSUME TypeOK, RecordsAgree, [Next]_vars PROVE RecordsAgree'
  OBVIOUS
<1>1. CASE WebStep
  BY <1>1, QuietWeb, QuietKeeps
<1>2. CASE HandleLaunch
  BY <1>2, QuietLaunch, QuietKeeps, CompileAgrees, SendAgrees, RecordAgrees
  DEF HandleLaunch
<1>3. CASE HandleReport
  BY <1>3, QuietReport, QuietKeeps, AcceptAgrees
<1>4. CASE Fault
  BY <1>4, QuietFault, QuietKeeps
<1>5. CASE NetworkStep
  BY <1>5, NetworkAgrees DEF NetworkStep
<1>6. CASE UNCHANGED vars
  <2>1. QuietStep
    BY <1>6 DEF vars, rows, queue, network, QuietStep, RecordsAgree,
                ReportsAreTrue
  <2>2. QED
    BY <2>1, QuietKeeps
<1>7. QED
  BY <1>1, <1>2, <1>3, <1>4, <1>5, <1>6 DEF Next

LEMMA RecordsInit == Init => RecordsAgree
<1> SUFFICES ASSUME Init PROVE RecordsAgree
  OBVIOUS
<1>1. RowsAreOwned /\ RowsAreTrue
  BY DEF Init, RowsAreOwned, RowsAreTrue, Owner, NoRow, NewRow
<1>2. LaunchInHand
  BY DEF Init, LaunchInHand, Launching, Idle
<1>3. ReportsAreTrue
  BY EmptySeq DEF Init, ReportsAreTrue
<1>4. ActiveHasAddress
  BY DEF Init, ActiveHasAddress
<1>5. QED
  BY <1>1, <1>2, <1>3, <1>4 DEF RecordsAgree

(***************************************************************************)
(* The database, the messages under way and the launch in hand agree with  *)
(* each other and with the network.                                        *)
(***************************************************************************)
THEOREM RecordsAlwaysAgree == Spec => []RecordsAgree
BY RecordsInit, TypeCorrect, RecordsStayAgreed, PTL DEF Spec

(***************************************************************************)
(* ACTIVE is never claimed of a contract the network did not create.       *)
(***************************************************************************)
THEOREM ActiveAlwaysDeployed == Spec => []ActiveIsDeployed
<1>1. TypeOK /\ RecordsAgree => ActiveIsDeployed
  BY DEF TypeOK, EthRows, RecordsAgree, RowsAreOwned, RowsAreTrue,
         ActiveHasAddress, ActiveIsDeployed, Exists
<1>2. QED
  BY <1>1, TypeCorrect, RecordsAlwaysAgree, PTL
=============================================================================
