------------------------- MODULE IcoPipelineProofs -------------------------
(***************************************************************************)
(* Proofs about IcoPipeline, for every number of requests, transactions    *)
(* and troubles: the state is well typed, calls only reach contracts that  *)
(* exist, a crowdsale shown as ACTIVE is wired to its token, and the       *)
(* address it holds is given back by somebody who is still to come.        *)
(***************************************************************************)
EXTENDS IcoPipeline, SequenceTheorems, TLAPS

LEMMA MessagesTyped ==
  /\ Launch \in Messages /\ Initialized \in Messages /\ Finalized \in Messages
  /\ \A r \in Rows, t \in Txs : \A ok \in BOOLEAN : Deployed(r, t, ok) \in Messages
  /\ \A tok \in {"own", "other"} : OwnershipTransferred(tok) \in Messages
  /\ \A t \in Txs : TxFailed(t) \in Messages
BY DEF Messages, Launch, Initialized, Finalized, Deployed, OwnershipTransferred,
       TxFailed

\* Each kind of message has the fields its handler reads.
LEMMA MessageFields ==
  ASSUME NEW m \in Messages
  PROVE  /\ m.type = "deployed" => /\ m.row \in Rows
                                   /\ m.address \in Txs
                                   /\ m.success \in BOOLEAN
         /\ m.type = "ownershipTransferred" => m.token \in {"own", "other"}
BY DEF Messages, Launch, Initialized, Finalized

LEMMA LockTyped ==
  ASSUME NEW lock \in LockValues, NEW c \in Contracts
  PROVE  /\ Blocking(lock, c) \in LockValues
         /\ TakeOffFor(lock, c) \in LockValues
         /\ TakeOff \in LockValues
BY DEF LockValues, Blocking, TakeOffFor, TakeOff

(***************************************************************************)
(* Every way to deal with a message keeps both queues sequences of         *)
(* whatever their messages are.                                            *)
(***************************************************************************)
LEMMA AnsweredQueues ==
  ASSUME NEW S, ready \in Seq(S), unacked \in Seq(S), ready # << >>,
         Ack \/ LeaveUnacked \/ Begin
  PROVE  /\ ready' \in Seq(S) /\ unacked' \in Seq(S)
         /\ Head(ready) \in S
<1>1. Head(ready) \in S /\ Tail(ready) \in Seq(S)
  BY HeadTailProperties
<1>2. CASE Ack
  BY <1>1, <1>2 DEF Ack
<1>3. CASE LeaveUnacked
  BY <1>1, <1>3 DEF LeaveUnacked
<1>4. CASE Begin
  BY <1>1, <1>4 DEF Begin
<1>5. QED
  BY <1>2, <1>3, <1>4

LEMMA Receivable ==
  ASSUME TypeOK, NEW type, Receiving(type)
  PROVE  /\ ready # << >>
         /\ Head(ready) \in Messages
         /\ Head(ready).type = type
         /\ ~handling.busy
BY HeadTailProperties DEF TypeOK, Receiving
-----------------------------------------------------------------------------
(***************************************************************************)
(* Type correctness.                                                       *)
(***************************************************************************)
RowType == [address: Txs \cup {None, OldToken}, tx_hash: Txs \cup {None}]

RowSet == {f \in [Rows -> RowType] : f["crowdsale"].address # OldToken}

Hands == [message: Messages, tx: Txs \cup {None}, busy: BOOLEAN]

LEMMA IdleTyped == Idle \in Hands
BY MessagesTyped DEF Idle, Hands

LEMMA TypeInit == Init => TypeOK
<1> SUFFICES ASSUME Init PROVE TypeOK
  OBVIOUS
<1>1. 0 \in 0..MaxTroubles /\ 0 <= MaxTxs
  BY BoundsAreNat
<1>2. /\ ready \in Seq(Messages) /\ unacked \in Seq(Messages)
      /\ chain \in Seq(Calls) /\ Len(chain) <= MaxTxs
  BY <1>1, EmptySeq DEF Init
<1>3. row \in RowSet
  BY OldTokenIsNoTransaction, BoundsAreNat DEF Init, RowType, RowSet, NoRow, Rows, None
<1>4. handling \in Hands
  BY IdleTyped DEF Init
<1>5. QED
  BY <1>1, <1>2, <1>3, <1>4
     DEF Init, TypeOK, IcoStates, TokenStates, LockValues, RowType, RowSet, Hands

LEMMA TypeWeb == TypeOK /\ WebStep => TypeOK'
<1> SUFFICES ASSUME TypeOK, WebStep PROVE TypeOK'
  OBVIOUS
<1> USE DEF TypeOK, rows, queue, network
<1>1. ASSUME NEW q \in Deployers, DeployRead(q) PROVE TypeOK'
  <2>1. troubles' \in 0..MaxTroubles
    BY <1>1, BoundsAreNat DEF DeployRead
  <2>2. QED
    BY <1>1, <2>1 DEF DeployRead, Step
<1>2. ASSUME NEW q \in Deployers, DeploySave(q) PROVE TypeOK'
  BY <1>2 DEF DeploySave, Step, IcoStates
<1>3. ASSUME NEW q \in Deployers, DeployLaunch(q) PROVE TypeOK'
  <2>1. ready' \in Seq(Messages)
    BY <1>3, MessagesTyped DEF DeployLaunch
  <2>2. QED
    BY <1>3, <2>1 DEF DeployLaunch, Step
<1>4. QED
  BY <1>1, <1>2, <1>3 DEF WebStep

(***************************************************************************)
(* A message that is handled in one step leaves everything but the states, *)
(* the lock, the rows and the queues alone.                                *)
(***************************************************************************)
OneStep ==
  /\ Ack \/ LeaveUnacked
  /\ UNCHANGED <<details, handling, network, request, troubles>>

LEMMA TypeOneStep ==
  ASSUME TypeOK, ready # << >>, OneStep, state' \in IcoStates,
         tokenState' \in TokenStates, row' \in RowSet,
         lockedBy' \in LockValues
  PROVE  TypeOK'
<1>1. ready' \in Seq(Messages) /\ unacked' \in Seq(Messages)
  BY AnsweredQueues DEF TypeOK, OneStep
<1>2. QED
  BY <1>1 DEF TypeOK, OneStep, network, RowType, RowSet

LEMMA TypeBegin ==
  ASSUME TypeOK, ready # << >>, Begin, state' \in IcoStates,
         row' \in RowSet, lockedBy' = Blocking(lockedBy, Ico),
         UNCHANGED <<tokenState, details, network, request, troubles>>
  PROVE  TypeOK'
<1>1. /\ ready' \in Seq(Messages) /\ unacked' \in Seq(Messages)
      /\ Head(ready) \in Messages
  BY AnsweredQueues DEF TypeOK
<1>2. handling' \in Hands
  BY <1>1 DEF Begin, Hands
<1>3. lockedBy' \in LockValues
  BY LockTyped, IcoIsAContract DEF TypeOK
<1>4. QED
  BY <1>1, <1>2, <1>3 DEF TypeOK, network, RowType, RowSet, Hands

LEMMA AddressSaved ==
  ASSUME TypeOK, NEW r \in Rows, NEW a \in Txs,
         row' = [row EXCEPT ![r].address = a]
  PROVE  row' \in RowSet
<1>1. row[r] \in RowType
  BY DEF TypeOK, RowType, RowSet
<1>2. [row[r] EXCEPT !.address = a] \in RowType
  BY <1>1 DEF RowType
<1>3. a # OldToken
  BY OldTokenIsNoTransaction, BoundsAreNat DEF Txs
<1>4. QED
  BY <1>1, <1>2, <1>3 DEF TypeOK, RowType, RowSet, Rows

LEMMA TypeHandled ==
  ASSUME TypeOK,
         \/ MessagePostponed \/ LaunchIgnored
         \/ DeployedIgnored \/ DeployedRejected \/ DeployedLate \/ DeployedReused
         \/ TransferLate \/ TransferIgnored
         \/ InitializedIgnored \/ InitializedAccepted
         \/ IcoFinalized \/ TransactionFailed \/ TransactionUnknown
  PROVE  TypeOK'
<1>1. ready # << >> /\ OneStep
  BY DEF Receiving, OneStep, rows, network, MessagePostponed, LaunchIgnored,
         DeployedIgnored, DeployedRejected, DeployedLate, DeployedReused,
         TransferLate, TransferIgnored, InitializedIgnored, InitializedAccepted,
         IcoFinalized, TransactionFailed, TransactionUnknown
<1>2. state' \in IcoStates /\ tokenState' \in TokenStates
  BY DEF TypeOK, IcoStates, TokenStates, rows, MessagePostponed, LaunchIgnored,
         DeployedIgnored, DeployedRejected, DeployedLate, DeployedReused,
         TransferLate, TransferIgnored, InitializedIgnored, InitializedAccepted,
         IcoFinalized, TransactionFailed, TransactionUnknown
<1>3. lockedBy' \in LockValues
  BY LockTyped, IcoIsAContract
     DEF TypeOK, MessagePostponed, LaunchIgnored,
         DeployedIgnored, DeployedRejected, DeployedLate, DeployedReused,
         TransferLate, TransferIgnored, InitializedIgnored, InitializedAccepted,
         IcoFinalized, TransactionFailed, TransactionUnknown
<1>4. row' \in RowSet
  <2>1. CASE DeployedReused
    <3>1. Head(ready) \in Messages /\ Head(ready).type = "deployed"
      BY <2>1, Receivable DEF DeployedReused
    <3>2. Head(ready).address \in Txs
      BY <3>1, MessageFields
    <3>3. QED
      BY <2>1, <3>2, AddressSaved DEF DeployedReused, Rows
  <2>2. CASE row' = row
    BY <2>2 DEF TypeOK, RowType, RowSet
  <2>3. QED
    BY <2>1, <2>2
       DEF rows, MessagePostponed, LaunchIgnored,
           DeployedIgnored, DeployedRejected, DeployedLate,
           TransferLate, TransferIgnored, InitializedIgnored,
           InitializedAccepted, IcoFinalized, TransactionFailed,
           TransactionUnknown
<1>5. QED
  BY <1>1, <1>2, <1>3, <1>4, TypeOneStep

LEMMA TypeBegun ==
  ASSUME TypeOK, LaunchAccepted \/ DeployedAccepted \/ TransferAccepted
  PROVE  TypeOK'
<1>1. /\ ready # << >> /\ Begin /\ lockedBy' = Blocking(lockedBy, Ico)
      /\ UNCHANGED <<tokenState, details, network, request, troubles>>
  BY DEF Receiving, rows, LaunchAccepted, DeployedAccepted, TransferAccepted
<1>2. state' \in IcoStates
  BY DEF TypeOK, IcoStates, LaunchAccepted, DeployedAccepted, TransferAccepted
<1>3. row' \in RowSet
  <2>1. CASE DeployedAccepted
    <3>1. Head(ready) \in Messages /\ Head(ready).type = "deployed"
      BY <2>1, Receivable DEF DeployedAccepted
    <3>2. Head(ready).address \in Txs /\ Head(ready).row \in Rows
      BY <3>1, MessageFields
    <3>3. QED
      BY <2>1, <3>2, AddressSaved DEF DeployedAccepted
  <2>2. CASE LaunchAccepted \/ TransferAccepted
    BY <2>2 DEF TypeOK, RowType, RowSet, rows, LaunchAccepted, TransferAccepted
  <2>3. QED
    BY <2>1, <2>2
<1>4. QED
  BY <1>1, <1>2, <1>3, TypeBegin

LEMMA Kind == \A m : KindSent(m) \in Kinds /\ RowOfKind(KindSent(m)) \in Rows
BY DEF KindSent, RowOfKind, Kinds, Rows

LEMMA CallTyped ==
  ASSUME TypeOK, NEW kind \in Kinds
  PROVE  Call(kind) \in Calls
<1>1. /\ row["token"].address \in Txs \cup {None, OldToken}
      /\ row["crowdsale"].address \in Txs \cup {None}
  BY DEF TypeOK, Rows
<1>2. QED
  BY <1>1 DEF Call, Calls

LEMMA Appended ==
  ASSUME TypeOK, Len(chain) < MaxTxs, NEW call \in Calls,
         chain' = Append(chain, call)
  PROVE  /\ chain' \in Seq(Calls)
         /\ Len(chain') = Len(chain) + 1
         /\ Len(chain') <= MaxTxs
         /\ Len(chain) + 1 \in Txs
<1>1. Len(chain) \in Nat /\ Len(chain') = Len(chain) + 1
  BY DEF TypeOK
<1>2. QED
  BY <1>1, BoundsAreNat DEF TypeOK, Txs

LEMMA TypeSend ==
  ASSUME TypeOK, SendTransaction
  PROVE  TypeOK'
<1>1. Call(KindSent(handling.message)) \in Calls
  BY Kind, CallTyped
<1>2. /\ chain' \in Seq(Calls) /\ Len(chain') <= MaxTxs
      /\ Len(chain) + 1 \in Txs
  BY <1>1, Appended DEF SendTransaction
<1>3. handling' \in Hands
  BY <1>2 DEF TypeOK, SendTransaction, Hands
<1>4. QED
  BY <1>2, <1>3 DEF TypeOK, SendTransaction, rows, queue, Hands

LEMMA TypeRecord == TypeOK /\ RecordTransaction => TypeOK'
<1> SUFFICES ASSUME TypeOK, RecordTransaction PROVE TypeOK'
  OBVIOUS
<1> DEFINE r == RowOfKind(KindSent(handling.message))
<1>1. r \in Rows
  BY Kind
<1>2. row' = [row EXCEPT ![r].tx_hash = handling.tx] /\ handling.tx \in Txs
  BY DEF RecordTransaction, TypeOK
<1> HIDE DEF r
<1>3. row[r] \in RowType
  BY <1>1 DEF TypeOK, RowType, RowSet
<1>4. [row[r] EXCEPT !.tx_hash = handling.tx] \in RowType
  BY <1>2, <1>3 DEF RowType
<1>5. row' \in RowSet
  BY <1>2, <1>3, <1>4 DEF TypeOK, RowType, RowSet, Rows
<1>6. state' \in IcoStates /\ handling' \in Hands
  BY IdleTyped DEF TypeOK, RecordTransaction, IcoStates
<1>7. QED
  BY <1>5, <1>6 DEF TypeOK, RecordTransaction, RowType, RowSet, Hands, queue, network

LEMMA TypeRaises == TypeOK /\ HandlerRaises => TypeOK'
<1> SUFFICES ASSUME TypeOK, HandlerRaises PROVE TypeOK'
  OBVIOUS
<1>1. unacked' \in Seq(Messages) /\ handling' \in Hands
  BY IdleTyped DEF TypeOK, HandlerRaises
<1>2. lockedBy' \in LockValues
  BY LockTyped, IcoIsAContract DEF TypeOK, HandlerRaises
<1>3. QED
  BY <1>1, <1>2 DEF TypeOK, HandlerRaises, Hands, IcoStates, rows, network

(***************************************************************************)
(* The broker's redelivery gives the queue only messages it had before.    *)
(***************************************************************************)
LEMMA Redelivered ==
  ASSUME NEW S, ready \in Seq(S), unacked \in Seq(S),
         handling.busy => handling.message \in S,
         MessageRequeued \/ ReceiverRestart
  PROVE  ready' \in Seq(S) /\ unacked' \in Seq(S)
<1>1. CASE MessageRequeued
  <2>1. Head(ready) \in S /\ Tail(ready) \in Seq(S)
    BY <1>1, HeadTailProperties DEF MessageRequeued, Receiving
  <2>2. QED
    BY <1>1, <2>1 DEF MessageRequeued
<1>2. CASE ReceiverRestart
  <2>1. (IF handling.busy THEN Append(unacked, handling.message) ELSE unacked)
          \in Seq(S)
    OBVIOUS
  <2>2. ready' \in Seq(S)
    BY <1>2, <2>1, ConcatProperties DEF ReceiverRestart
  <2>3. QED
    BY <1>2, <2>2, EmptySeq DEF ReceiverRestart
<1>3. QED
  BY <1>1, <1>2

LEMMA TypeFault == TypeOK /\ Fault => TypeOK'
<1> SUFFICES ASSUME TypeOK, Fault PROVE TypeOK'
  OBVIOUS
<1>1. ready' \in Seq(Messages) /\ unacked' \in Seq(Messages)
  BY Redelivered DEF TypeOK, Fault
<1>2. troubles' \in 0..MaxTroubles
  BY BoundsAreNat DEF TypeOK, Fault, MessageRequeued, ReceiverRestart
<1>3. handling' \in Hands
  BY IdleTyped DEF TypeOK, Fault, MessageRequeued, ReceiverRestart, Hands
<1>4. QED
  BY <1>1, <1>2, <1>3
     DEF TypeOK, Fault, MessageRequeued, ReceiverRestart, Hands, rows, network

LEMMA TypeOthers == TypeOK /\ OthersUseAddress => TypeOK'
<1> SUFFICES ASSUME TypeOK, OthersUseAddress PROVE TypeOK'
  OBVIOUS
<1>1. lockedBy' \in LockValues
  BY LockTyped, IcoIsAContract DEF TypeOK, OthersUseAddress
<1>2. QED
  BY <1>1 DEF TypeOK, OthersUseAddress, rows, queue, network

LEMMA MinedChain ==
  ASSUME TypeOK, NEW t, Mine(t)
  PROVE  /\ chain' \in Seq(Calls)
         /\ Len(chain') = Len(chain)
         /\ \A u \in 1..Len(chain) :
              /\ chain'[u].kind = chain[u].kind
              /\ chain'[u].token = chain[u].token
              /\ chain'[u].crowdsale = chain[u].crowdsale
              /\ chain[u].status = "mined" => chain'[u].status = "mined"
<1>1. PICK s \in {"mined", "failed"} : chain' = [chain EXCEPT ![t].status = s]
  BY DEF Mine
<1>2. t \in 1..Len(chain) /\ chain[t] \in Calls /\ chain[t].status = "pending"
  BY DEF TypeOK, Mine
<1>3. [chain[t] EXCEPT !.status = s] \in Calls
  BY <1>2 DEF Calls
<1>4. chain' \in Seq(Calls) /\ Len(chain') = Len(chain)
  BY <1>1, <1>2, <1>3 DEF TypeOK
<1>5. ASSUME NEW u \in 1..Len(chain)
      PROVE  chain'[u] = IF u = t THEN [chain[t] EXCEPT !.status = s]
                         ELSE chain[u]
  BY <1>1, <1>2 DEF TypeOK
<1>6. QED
  BY <1>2, <1>4, <1>5 DEF Calls

LEMMA ReportsTyped ==
  ASSUME TypeOK, NEW t \in Txs
  PROVE  Reports(t) \subseteq Messages
BY MessagesTyped DEF Reports, RowsOf

LEMMA TypeNetwork ==
  ASSUME TypeOK, NetworkStep
  PROVE  TypeOK'
<1> USE DEF TypeOK, rows, queue
<1>1. ASSUME NEW t \in Txs, Mine(t) PROVE TypeOK'
  <2>1. chain' \in Seq(Calls) /\ Len(chain') = Len(chain)
    BY <1>1, MinedChain
  <2>2. QED
    BY <1>1, <2>1 DEF Mine
<1>2. ASSUME NEW t \in Txs, Report(t) PROVE TypeOK'
  <2>1. ready' \in Seq(Messages)
    BY <1>2, ReportsTyped DEF Report
  <2>2. QED
    BY <1>2, <2>1 DEF Report
<1>3. CASE OwnerTransfers
  <2>1. Call("transfer") \in Calls
    BY CallTyped DEF Kinds
  <2>2. [Call("transfer") EXCEPT !.status = "mined"] \in Calls
    BY <2>1 DEF Calls
  <2>3. chain' \in Seq(Calls) /\ Len(chain') <= MaxTxs
    BY <1>3, <2>2, Appended DEF OwnerTransfers
  <2>4. QED
    BY <1>3, <2>3 DEF OwnerTransfers
<1>4. CASE StrayTransfer
  <2>1. ready' \in Seq(Messages)
    BY <1>4, MessagesTyped DEF StrayTransfer
  <2>2. QED
    BY <1>4, <2>1 DEF StrayTransfer
<1>5. CASE Finalize
  <2>1. ready' \in Seq(Messages)
    BY <1>5, MessagesTyped DEF Finalize
  <2>2. QED
    BY <1>5, <2>1 DEF Finalize
<1>6. QED
  BY <1>1, <1>2, <1>3, <1>4, <1>5 DEF NetworkStep

LEMMA TypeStep == TypeOK /\ [Next]_vars => TypeOK'
<1> SUFFICES ASSUME TypeOK, [Next]_vars PROVE TypeOK'
  OBVIOUS
<1>1. CASE UNCHANGED vars
  BY <1>1 DEF TypeOK, vars, rows, queue, network
<1>2. CASE HandleMessage
  BY <1>2, TypeHandled, TypeBegun, TypeSend, TypeRecord, TypeRaises
     DEF HandleMessage
<1>3. QED
  BY <1>1, <1>2, TypeWeb, TypeFault, TypeOthers, TypeNetwork DEF Next

(***************************************************************************)
(* Every variable keeps the type it is declared with: the state, the rows, *)
(* the messages and the transactions are what receiver.py and ico.py can   *)
(* make of them.                                                           *)
(***************************************************************************)
THEOREM TypeCorrect == Spec => []TypeOK
<1>1. QED
  BY TypeInit, TypeStep, PTL DEF Spec
-----------------------------------------------------------------------------
(***************************************************************************)
(* The network only ever adds to what has happened.                        *)
(***************************************************************************)
Extends ==
  /\ Len(chain) \in Nat /\ Len(chain') \in Nat
  /\ Len(chain) <= Len(chain')
  /\ \A t \in 1..Len(chain) :
       /\ chain'[t].kind = chain[t].kind
       /\ chain'[t].token = chain[t].token
       /\ chain'[t].crowdsale = chain[t].crowdsale
       /\ chain[t].status = "mined" => chain'[t].status = "mined"

LEMMA AppendExtends ==
  ASSUME TypeOK, NEW call, chain' = Append(chain, call)
  PROVE  /\ Extends
         /\ Len(chain') = Len(chain) + 1
         /\ chain'[Len(chain) + 1] = call
<1>1. /\ Len(chain) \in Nat /\ Len(chain') = Len(chain) + 1
      /\ \A t \in 1..Len(chain) : chain'[t] = chain[t]
      /\ chain'[Len(chain) + 1] = call
  BY DEF TypeOK
<1>2. QED
  BY <1>1 DEF Extends

LEMMA MineExtends ==
  ASSUME TypeOK, NEW t, Mine(t)
  PROVE  Extends /\ Len(chain') = Len(chain)
BY MinedChain DEF TypeOK, Extends

LEMMA StaysMined ==
  ASSUME Extends, NEW kind
  PROVE  Mined(kind) \subseteq Mined(kind)' /\ Sent(kind) \subseteq Sent(kind)'
BY DEF Extends, Mined, Sent

LEMMA StaysTrue ==
  ASSUME Extends
  PROVE  /\ \A m : Truthful(m) => Truthful(m)'
         /\ TruthfulMessages \subseteq TruthfulMessages'
<1>1. ASSUME NEW m, Truthful(m) PROVE Truthful(m)'
  <2>1. /\ Mined(m.row) \subseteq Mined(m.row)'
        /\ Mined("transfer") \subseteq Mined("transfer")'
        /\ Mined("init") \subseteq Mined("init")'
    BY StaysMined
  <2>2. QED
    BY <1>1, <2>1 DEF Truthful
<1>2. QED
  BY <1>1 DEF TruthfulMessages

LEMMA SeqSubset ==
  ASSUME NEW S, NEW T, S \subseteq T, NEW s \in Seq(S)
  PROVE  s \in Seq(T)
OBVIOUS

LEMMA VouchedInit == Init => Vouched
<1> SUFFICES ASSUME Init PROVE Vouched
  OBVIOUS
<1>1. chain = << >> /\ Len(chain) = 0 /\ 1..Len(chain) = {}
  BY DEF Init
<1>2. \A kind : Sent(kind) = {} /\ Mined(kind) = {}
  BY <1>1 DEF Sent, Mined
<1>3. RowsReal
  BY <1>1, <1>2 DEF Init, RowsReal, Tokens, NoRow, Rows
<1>4. ready \in Seq(TruthfulMessages) /\ unacked \in Seq(TruthfulMessages)
  BY EmptySeq DEF Init
<1>5. QED
  BY <1>1, <1>2, <1>3, <1>4
     DEF Init, Vouched, CallsReachContracts, InOrder, MessagesTrue, InHand, Idle

(***************************************************************************)
(* The steps that touch neither rows nor transactions.                     *)
(***************************************************************************)
QuietStep ==
  /\ UNCHANGED <<details, row, chain>>
  /\ state' = "ACTIVE" => state = "ACTIVE" \/ Mined("init") # {}
  /\ ready' \in Seq(TruthfulMessages) /\ unacked' \in Seq(TruthfulMessages)
  /\ handling' \in {handling, Idle}

LEMMA QuietVouched ==
  ASSUME Vouched, QuietStep
  PROVE  Vouched'
<1>1. \A kind : Mined(kind)' = Mined(kind) /\ Sent(kind)' = Sent(kind)
  BY DEF QuietStep, Mined, Sent
<1>2. Tokens' = Tokens
  BY <1>1 DEF Tokens, QuietStep
<1>3. \A m : Truthful(m)' <=> Truthful(m)
  BY <1>1 DEF Truthful
<1>4. TruthfulMessages' = TruthfulMessages
  BY <1>3 DEF TruthfulMessages
<1>5. RowsReal'
  BY <1>1, <1>2 DEF Vouched, QuietStep, RowsReal
<1>6. CallsReachContracts'
  BY <1>1, <1>2 DEF Vouched, QuietStep, CallsReachContracts
<1>7. InOrder'
  BY <1>1 DEF Vouched, QuietStep, InOrder
<1>8. MessagesTrue'
  BY <1>4 DEF QuietStep, MessagesTrue
<1>9. InHand'
  <2>1. CASE handling' = Idle
    BY <2>1 DEF InHand, Idle
  <2>2. CASE handling' = handling
    BY <1>3, <2>2 DEF Vouched, QuietStep, InHand, KindSent
  <2>3. QED
    BY <2>1, <2>2 DEF QuietStep
<1>10. QED
  BY <1>5, <1>6, <1>7, <1>8, <1>9 DEF Vouched

\* What is at the head of the queue is true.
LEMMA HeadTrue ==
  ASSUME Vouched, ready # << >>
  PROVE  Head(ready) \in Messages /\ Truthful(Head(ready))
<1>1. Head(ready) \in TruthfulMessages
  BY HeadTailProperties DEF Vouched, MessagesTrue
<1>2. QED
  BY <1>1 DEF TruthfulMessages

LEMMA AnsweredTrue ==
  ASSUME Vouched, ready # << >>, Ack \/ LeaveUnacked \/ Begin
  PROVE  ready' \in Seq(TruthfulMessages) /\ unacked' \in Seq(TruthfulMessages)
BY AnsweredQueues DEF Vouched, MessagesTrue

LEMMA HandledQuietly ==
  ASSUME Vouched,
         \/ MessagePostponed \/ LaunchIgnored
         \/ DeployedIgnored \/ DeployedRejected \/ DeployedLate
         \/ TransferLate \/ TransferIgnored
         \/ InitializedIgnored \/ InitializedAccepted
         \/ IcoFinalized \/ TransactionFailed \/ TransactionUnknown
  PROVE  QuietStep
<1>1. /\ ready # << >>
      /\ Ack \/ LeaveUnacked
      /\ UNCHANGED <<details, row, chain, handling>>
  BY DEF Receiving, rows, network, MessagePostponed, LaunchIgnored,
         DeployedIgnored, DeployedRejected, DeployedLate, TransferLate,
         TransferIgnored, InitializedIgnored, InitializedAccepted,
         IcoFinalized, TransactionFailed, TransactionUnknown
<1>2. state' = "ACTIVE" => state = "ACTIVE" \/ Mined("init") # {}
  <2>1. CASE InitializedAccepted
    BY <1>1, <2>1, HeadTrue DEF InitializedAccepted, Receiving, Truthful
  <2>2. CASE state' # "ACTIVE" \/ state' = state
    BY <2>2
  <2>3. QED
    BY <2>1, <2>2
       DEF MessagePostponed, LaunchIgnored,
           DeployedIgnored, DeployedRejected, DeployedLate, TransferLate,
           TransferIgnored, InitializedIgnored, IcoFinalized,
           TransactionFailed, TransactionUnknown
<1>3. QED
  BY <1>1, <1>2, AnsweredTrue DEF QuietStep

LEMMA WebQuietly ==
  ASSUME Vouched, WebStep
  PROVE  QuietStep
<1> USE DEF Vouched, MessagesTrue, rows, queue, network
<1>1. ASSUME NEW q \in Deployers, DeployRead(q) PROVE QuietStep
  BY <1>1 DEF QuietStep, DeployRead
<1>2. ASSUME NEW q \in Deployers, DeploySave(q) PROVE QuietStep
  BY <1>2 DEF QuietStep, DeploySave
<1>3. ASSUME NEW q \in Deployers, DeployLaunch(q) PROVE QuietStep
  <2>1. Launch \in TruthfulMessages
    BY MessagesTyped DEF TruthfulMessages, Truthful, Launch
  <2>2. ready' \in Seq(TruthfulMessages)
    BY <1>3, <2>1 DEF DeployLaunch
  <2>3. QED
    BY <1>3, <2>2 DEF QuietStep, DeployLaunch
<1>4. QED
  BY <1>1, <1>2, <1>3 DEF WebStep

LEMMA InHandTrue ==
  ASSUME TypeOK, Vouched, handling.busy
  PROVE  handling.message \in TruthfulMessages
BY DEF TypeOK, Vouched, InHand, TruthfulMessages

LEMMA TroubleQuietly ==
  ASSUME TypeOK, Vouched, Fault \/ HandlerRaises \/ OthersUseAddress
  PROVE  QuietStep
<1> USE DEF rows, queue, network
<1>1. CASE Fault
  <2>1. ready' \in Seq(TruthfulMessages) /\ unacked' \in Seq(TruthfulMessages)
    BY <1>1, InHandTrue, Redelivered DEF Fault, Vouched, MessagesTrue
  <2>2. QED
    BY <1>1, <2>1 DEF QuietStep, Fault, MessageRequeued, ReceiverRestart
<1>2. CASE HandlerRaises
  <2>1. handling.message \in TruthfulMessages
    BY <1>2, InHandTrue DEF HandlerRaises
  <2>2. unacked' \in Seq(TruthfulMessages)
    BY <1>2, <2>1 DEF HandlerRaises, Vouched, MessagesTrue
  <2>3. QED
    BY <1>2, <2>2 DEF QuietStep, HandlerRaises, Vouched, MessagesTrue
<1>3. CASE OthersUseAddress
  BY <1>3 DEF QuietStep, OthersUseAddress, Vouched, MessagesTrue
<1>4. QED
  BY <1>1, <1>2, <1>3

(***************************************************************************)
(* The scanner tells the truth, and so do the two events it publishes of   *)
(* its own.                                                                *)
(***************************************************************************)
LEMMA ReportsTrue ==
  ASSUME TypeOK, Vouched, NEW t \in 1..Len(chain), NEW m \in Reports(t)
  PROVE  m \in TruthfulMessages
<1>1. t \in Txs
  <2>1. Len(chain) \in Nat /\ Len(chain) <= MaxTxs
    BY DEF TypeOK
  <2>2. QED
    BY <2>1, BoundsAreNat DEF Txs
<1>2. m \in Messages
  BY <1>1, ReportsTyped
<1>3. chain[t] \in Calls
  BY DEF TypeOK
<1>4. CASE chain[t].kind \in {"token", "crowdsale"}
  <2>1. \/ \E r \in RowsOf(t) : m = Deployed(r, t, chain[t].status = "mined")
        \/ m = TxFailed(t)
    BY <1>4 DEF Reports
  <2>2. CASE m = TxFailed(t)
    BY <1>2, <2>2 DEF TruthfulMessages, Truthful, TxFailed
  <2>3. ASSUME NEW r \in RowsOf(t), m = Deployed(r, t, chain[t].status = "mined")
        PROVE  Truthful(m)
    <3>1. r \in Rows /\ row[r].tx_hash = t /\ t # None
      BY <1>1 DEF RowsOf, Txs, None
    <3>2. RowOfKind(chain[t].kind) = r
      BY <3>1 DEF Vouched, RowsReal
    <3>3. chain[t].kind = r
      BY <1>4, <3>2 DEF RowOfKind
    <3>4. chain[t].status = "mined" => t \in Mined(r)
      BY <3>3 DEF Mined
    <3>5. QED
      BY <2>3, <3>4 DEF Truthful, Deployed
  <2>4. QED
    BY <1>2, <2>1, <2>2, <2>3 DEF TruthfulMessages
<1>5. CASE chain[t].kind = "transfer"
  <2>1. \/ m = TxFailed(t)
        \/ m = OwnershipTransferred("own") /\ chain[t].status = "mined"
    BY <1>3, <1>5 DEF Reports, Calls
  <2>2. chain[t].status = "mined" => t \in Mined("transfer")
    BY <1>5 DEF Mined
  <2>3. QED
    BY <1>2, <2>1, <2>2
       DEF TruthfulMessages, Truthful, TxFailed, OwnershipTransferred
<1>6. CASE chain[t].kind = "init"
  <2>1. \/ m = TxFailed(t)
        \/ m = Initialized /\ chain[t].status = "mined"
    BY <1>3, <1>6 DEF Reports, Calls
  <2>2. chain[t].status = "mined" => t \in Mined("init")
    BY <1>6 DEF Mined
  <2>3. QED
    BY <1>2, <2>1, <2>2 DEF TruthfulMessages, Truthful, TxFailed, Initialized
<1>7. QED
  BY <1>3, <1>4, <1>5, <1>6 DEF Calls, Kinds

LEMMA ReportedQuietly ==
  ASSUME TypeOK, Vouched,
         StrayTransfer \/ Finalize \/ \E t \in Txs : Report(t)
  PROVE  QuietStep
<1>1. PICK m \in TruthfulMessages : ready' = Append(ready, m)
  <2>1. CASE StrayTransfer
    <3>1. OwnershipTransferred("other") \in TruthfulMessages
      BY MessagesTyped DEF TruthfulMessages, Truthful, OwnershipTransferred
    <3>2. QED
      BY <2>1, <3>1 DEF StrayTransfer
  <2>2. CASE Finalize
    <3>1. Finalized \in TruthfulMessages
      BY MessagesTyped DEF TruthfulMessages, Truthful, Finalized
    <3>2. QED
      BY <2>2, <3>1 DEF Finalize
  <2>3. ASSUME NEW t \in Txs, Report(t)
        PROVE  \E m \in TruthfulMessages : ready' = Append(ready, m)
    BY <2>3, ReportsTrue DEF Report
  <2>4. QED
    BY <2>1, <2>2, <2>3
<1>2. ready' \in Seq(TruthfulMessages) /\ unacked' \in Seq(TruthfulMessages)
  BY <1>1 DEF Vouched, MessagesTrue, StrayTransfer, Finalize, Report
<1>3. UNCHANGED <<details, row, chain, state, handling>>
  BY DEF StrayTransfer, Finalize, Report, rows
<1>4. QED
  BY <1>2, <1>3 DEF QuietStep

(***************************************************************************)
(* While the network rests, what depends on it alone rests too.            *)
(***************************************************************************)
LEMMA NetworkRests ==
  ASSUME UNCHANGED <<chain, details>>
  PROVE  /\ \A kind : Mined(kind)' = Mined(kind) /\ Sent(kind)' = Sent(kind)
         /\ Tokens' = Tokens
         /\ \A m : Truthful(m)' <=> Truthful(m)
         /\ TruthfulMessages' = TruthfulMessages
         /\ \A m : KindSent(m)' = KindSent(m)
<1>1. \A kind : Mined(kind)' = Mined(kind) /\ Sent(kind)' = Sent(kind)
  BY DEF Mined, Sent
<1>2. \A m : Truthful(m)' <=> Truthful(m)
  BY <1>1 DEF Truthful
<1>3. QED
  BY <1>1, <1>2 DEF Tokens, TruthfulMessages, KindSent

LEMMA BegunVouched ==
  ASSUME TypeOK, Vouched, LaunchAccepted \/ TransferAccepted
  PROVE  Vouched'
<1>1. /\ ready # << >> /\ Begin
      /\ UNCHANGED <<chain, details, row>>
      /\ state' = "ACTIVE" => state = "ACTIVE"
  BY DEF Receiving, rows, network, LaunchAccepted, TransferAccepted
<1>2. /\ Head(ready) \in Messages /\ Truthful(Head(ready))
      /\ ready' \in Seq(TruthfulMessages) /\ unacked' \in Seq(TruthfulMessages)
  BY <1>1, HeadTrue, AnsweredTrue
<1>3. \/ Head(ready).type = "launch"
      \/ Head(ready).type = "ownershipTransferred" /\ Head(ready).token = "own"
  BY DEF Receiving, LaunchAccepted, TransferAccepted, OwnToken
<1>4. /\ \A kind : Mined(kind)' = Mined(kind) /\ Sent(kind)' = Sent(kind)
      /\ Tokens' = Tokens
      /\ \A m : Truthful(m)' <=> Truthful(m)
      /\ TruthfulMessages' = TruthfulMessages
  BY <1>1, NetworkRests
<1>5. RowsReal' /\ CallsReachContracts' /\ InOrder'
  BY <1>1, <1>4 DEF Vouched, RowsReal, CallsReachContracts, InOrder
<1>6. MessagesTrue'
  BY <1>2, <1>4 DEF MessagesTrue
<1>7. InHand'
  BY <1>1, <1>2, <1>3, <1>4 DEF InHand, Begin, None
<1>8. QED
  BY <1>5, <1>6, <1>7 DEF Vouched

(***************************************************************************)
(* A reported address is one that exists.                                  *)
(***************************************************************************)
LEMMA DeployedVouched ==
  ASSUME TypeOK, Vouched, DeployedReused \/ DeployedAccepted
  PROVE  Vouched'
<1> DEFINE m == Head(ready)
<1>1. /\ ready # << >> /\ m.type = "deployed" /\ m.success
      /\ Ack \/ Begin
      /\ UNCHANGED <<chain, details>>
      /\ state' # "ACTIVE"
  BY DEF Receiving, Rejected, network, DeployedReused, DeployedAccepted
<1>2. /\ m \in Messages /\ Truthful(m)
      /\ ready' \in Seq(TruthfulMessages) /\ unacked' \in Seq(TruthfulMessages)
  BY <1>1, HeadTrue, AnsweredTrue
<1>3. m.row \in Rows /\ m.address \in Txs /\ m.address \in Mined(m.row)
  BY <1>1, <1>2, MessageFields DEF Truthful
<1> HIDE DEF m
<1>4. m.address \in Sent(m.row)
  BY <1>3 DEF Mined, Sent
<1>5. details.reused_token => m.row = "crowdsale"
  BY <1>3, <1>4 DEF Rows, Vouched, RowsReal
<1>6. /\ row' = [row EXCEPT ![m.row].address = m.address]
      /\ details.reused_token => handling' = handling
      /\ ~details.reused_token => Begin
  BY <1>5 DEF DeployedReused, DeployedAccepted, m
<1>7. /\ \A kind : Mined(kind)' = Mined(kind) /\ Sent(kind)' = Sent(kind)
      /\ Tokens' = Tokens
      /\ \A n : Truthful(n)' <=> Truthful(n)
      /\ TruthfulMessages' = TruthfulMessages
      /\ \A n : KindSent(n)' = KindSent(n)
  BY <1>1, NetworkRests
<1>8. /\ \A r \in Rows : row'[r].address =
                           IF r = m.row THEN m.address ELSE row[r].address
      /\ \A r \in Rows : row'[r].tx_hash = row[r].tx_hash
      /\ m.address # None
  BY <1>3, <1>6 DEF TypeOK, Txs, None
<1>9. m.row = "token" => m.address \in Tokens
  BY <1>3, <1>5 DEF Tokens
<1>10. RowsReal'
  <2>1. \A r \in Rows : row'[r].tx_hash # None =>
           /\ row'[r].tx_hash \in 1..Len(chain)
           /\ RowOfKind(chain[row'[r].tx_hash].kind) = r
    BY <1>8 DEF Vouched, RowsReal
  <2>2. /\ details.reused_token =>
             row'["token"].address = OldToken /\ Sent("token") = {}
        /\ row'["token"].address \in Tokens \cup {None}
        /\ row'["crowdsale"].address \in Mined("crowdsale") \cup {None}
    BY <1>3, <1>5, <1>8, <1>9 DEF Vouched, RowsReal, Rows
  <2>3. /\ Sent("crowdsale") # {} => row'["token"].address # None
        /\ Sent("transfer") # {} \/ Sent("init") # {} =>
             row'["crowdsale"].address # None
    BY <1>8 DEF Vouched, RowsReal, Rows
  <2>4. QED
    BY <1>1, <1>7, <2>1, <2>2, <2>3 DEF RowsReal
<1>11. CallsReachContracts' /\ InOrder'
  BY <1>1, <1>7 DEF Vouched, CallsReachContracts, InOrder
<1>12. MessagesTrue'
  BY <1>2, <1>7 DEF MessagesTrue
<1>13. InHand'
  <2>1. CASE details.reused_token
    <3>1. handling' = handling /\ ~handling.busy
      BY <1>6, <2>1 DEF DeployedReused, DeployedAccepted, Receiving
    <3>2. QED
      BY <3>1 DEF InHand
  <2>2. CASE ~details.reused_token
    <3>1. handling' = [message |-> m, tx |-> None, busy |-> TRUE]
      BY <1>6, <2>2 DEF Begin, m
    <3>2. QED
      BY <1>1, <1>2, <1>3, <1>7, <1>8, <2>2, <3>1 DEF InHand, m
  <2>3. QED
    BY <2>1, <2>2
<1>14. QED
  BY <1>10, <1>11, <1>12, <1>13 DEF Vouched

LEMMA RecordVouched ==
  ASSUME TypeOK, Vouched, RecordTransaction
  PROVE  Vouched'
<1> DEFINE kind == KindSent(handling.message)
           r == RowOfKind(kind)
           t == handling.tx
<1>1. /\ t \in 1..Len(chain) /\ chain[t].kind = kind /\ r \in Rows
  BY Kind DEF Vouched, InHand, RecordTransaction
<1>2. /\ row' = [row EXCEPT ![r].tx_hash = t]
      /\ UNCHANGED <<chain, details, ready, unacked>>
      /\ handling' = Idle
      /\ state' = "ACTIVE" => state = "ACTIVE"
  BY DEF RecordTransaction, queue, network
<1>3. RowOfKind(kind) = r
  OBVIOUS
<1> HIDE DEF kind, r, t
<1>4. /\ \A n : Mined(n)' = Mined(n) /\ Sent(n)' = Sent(n)
      /\ Tokens' = Tokens
      /\ TruthfulMessages' = TruthfulMessages
  BY <1>2, NetworkRests
<1>5. /\ \A s \in Rows : row'[s].tx_hash = IF s = r THEN t ELSE row[s].tx_hash
      /\ \A s \in Rows : row'[s].address = row[s].address
  BY <1>1, <1>2 DEF TypeOK
<1>6. RowsReal'
  <2>1. \A s \in Rows : row'[s].tx_hash # None =>
           /\ row'[s].tx_hash \in 1..Len(chain)
           /\ RowOfKind(chain[row'[s].tx_hash].kind) = s
    BY <1>1, <1>3, <1>5 DEF Vouched, RowsReal
  <2>2. /\ row'["token"].address = row["token"].address
        /\ row'["crowdsale"].address = row["crowdsale"].address
    BY <1>5 DEF Rows
  <2>3. QED
    BY <1>2, <1>4, <2>1, <2>2 DEF Vouched, RowsReal
<1>7. CallsReachContracts' /\ InOrder' /\ MessagesTrue'
  BY <1>2, <1>4 DEF Vouched, CallsReachContracts, InOrder, MessagesTrue
<1>8. InHand'
  BY <1>2 DEF InHand, Idle
<1>9. QED
  BY <1>6, <1>7, <1>8 DEF Vouched

(***************************************************************************)
(* A longer history keeps all promises when the transactions it adds are   *)
(* made in order and from contracts that exist.                            *)
(***************************************************************************)
LEMMA GrownVouched ==
  ASSUME TypeOK, Vouched, Extends,
         UNCHANGED <<state, row, details, ready, unacked>>,
         details.reused_token => Sent("token")' = {},
         Sent("crowdsale")' # {} => row["token"].address # None,
         Sent("transfer")' # {} \/ Sent("init")' # {} =>
           row["crowdsale"].address # None,
         Sent("init")' # {} => Mined("transfer")' # {},
         \A t \in 1..Len(chain') : t \notin 1..Len(chain) =>
           /\ chain'[t].kind \in {"crowdsale", "transfer"} =>
                chain'[t].token \in Tokens
           /\ chain'[t].kind \in {"transfer", "init"} =>
                chain'[t].crowdsale \in Mined("crowdsale"),
         InHand'
  PROVE  Vouched'
<1>1. /\ Mined("token") \subseteq Mined("token")'
      /\ Mined("crowdsale") \subseteq Mined("crowdsale")'
      /\ Mined("init") \subseteq Mined("init")'
  BY StaysMined
<1>2. Tokens \subseteq Tokens'
  BY <1>1 DEF Tokens
<1>3. RowsReal'
  <2>1. /\ row["token"].address \in Tokens' \cup {None}
        /\ row["crowdsale"].address \in Mined("crowdsale")' \cup {None}
    BY <1>1, <1>2 DEF Vouched, RowsReal
  <2>2. \A r \in Rows : row[r].tx_hash # None =>
          /\ row[r].tx_hash \in 1..Len(chain')
          /\ RowOfKind(chain'[row[r].tx_hash].kind) = r
    BY DEF Extends, Vouched, RowsReal
  <2>3. QED
    BY <2>1, <2>2 DEF Vouched, RowsReal
<1>4. CallsReachContracts'
  <2>1. ASSUME NEW t \in 1..Len(chain')
        PROVE  /\ chain'[t].kind \in {"crowdsale", "transfer"} =>
                    chain'[t].token \in Tokens'
               /\ chain'[t].kind \in {"transfer", "init"} =>
                    chain'[t].crowdsale \in Mined("crowdsale")'
    <3>1. CASE t \in 1..Len(chain)
      BY <1>1, <1>2, <3>1 DEF Extends, Vouched, CallsReachContracts
    <3>2. CASE t \notin 1..Len(chain)
      BY <1>1, <1>2, <3>2
    <3>3. QED
      BY <3>1, <3>2
  <2>2. QED
    BY <2>1 DEF CallsReachContracts
<1>5. InOrder'
  BY <1>1 DEF Vouched, InOrder
<1>6. MessagesTrue'
  BY StaysTrue, SeqSubset DEF Vouched, MessagesTrue
<1>7. QED
  BY <1>3, <1>4, <1>5, <1>6 DEF Vouched

LEMMA MineVouched ==
  ASSUME TypeOK, Vouched, NEW t \in Txs, Mine(t)
  PROVE  Vouched'
<1>1. Extends /\ Len(chain') = Len(chain)
  BY MineExtends
<1>2. \A kind : Sent(kind)' = Sent(kind)
  BY <1>1 DEF Sent, Extends
<1>3. Mined("transfer") \subseteq Mined("transfer")'
  BY <1>1, StaysMined
<1>4. UNCHANGED <<state, row, details, ready, unacked, handling>>
  BY DEF Mine, rows, queue
<1>5. InHand'
  BY <1>1, <1>4, StaysTrue DEF Vouched, InHand, Extends, KindSent
<1>6. QED
  BY <1>1, <1>2, <1>3, <1>4, <1>5, GrownVouched DEF Vouched, RowsReal, InOrder

\* A transaction that is sent is the last one, of its kind only.
LEMMA AppendSends ==
  ASSUME TypeOK, NEW call, chain' = Append(chain, call)
  PROVE  \A kind : Sent(kind)' = IF kind = call.kind
                                   THEN Sent(kind) \cup {Len(chain) + 1}
                                   ELSE Sent(kind)
<1>1. /\ Extends /\ Len(chain') = Len(chain) + 1
      /\ chain'[Len(chain) + 1] = call
  BY AppendExtends
<1>2. QED
  BY <1>1 DEF Sent, Extends

(***************************************************************************)
(* The handler of each message finds what its transaction is made from.    *)
(***************************************************************************)
LEMMA SendVouched ==
  ASSUME TypeOK, Vouched, SendTransaction
  PROVE  Vouched'
<1> DEFINE m == handling.message
           kind == KindSent(m)
           n == Len(chain) + 1
<1>1. /\ chain' = Append(chain, Call(kind))
      /\ handling.busy
      /\ UNCHANGED <<state, row, details, ready, unacked>>
  BY DEF SendTransaction, rows, queue
<1>2. handling' = [message |-> m, tx |-> n, busy |-> TRUE]
  BY DEF TypeOK, SendTransaction
<1>3. m \in Messages /\ m.type \in {"launch", "deployed", "ownershipTransferred"}
  BY <1>1 DEF TypeOK, Vouched, InHand
<1>4. kind \in Kinds
  BY Kind
<1>5. kind = "token" => ~details.reused_token
  BY <1>3 DEF KindSent
<1>6. kind = "crowdsale" => row["token"].address \in Tokens \ {None}
  <2>1. CASE m.type = "launch"
    BY <1>3, <2>1, OldTokenIsNoTransaction, BoundsAreNat
       DEF KindSent, Vouched, RowsReal, Tokens, None
  <2>2. CASE m.type = "deployed"
    BY <1>1, <1>3, <2>2 DEF KindSent, Vouched, RowsReal, InHand
  <2>3. QED
    BY <1>3, <2>1, <2>2 DEF KindSent
<1>7. kind = "transfer" => /\ row["token"].address \in Tokens \ {None}
                           /\ row["crowdsale"].address \in Mined("crowdsale") \ {None}
  <2>1. SUFFICES ASSUME kind = "transfer"
                 PROVE  /\ row["token"].address # None
                        /\ row["crowdsale"].address # None
    BY DEF Vouched, RowsReal
  <2>2. m.type = "deployed" /\ m.row = "crowdsale"
    BY <1>3, <2>1, MessageFields DEF KindSent, Rows
  <2>3. m.address \in Mined("crowdsale") /\ row["crowdsale"].address # None
    BY <1>1, <2>2 DEF Vouched, InHand, Truthful
  <2>4. Sent("crowdsale") # {}
    BY <2>3 DEF Mined, Sent
  <2>5. QED
    BY <2>3, <2>4 DEF Vouched, RowsReal
<1>8. kind = "init" => /\ row["crowdsale"].address \in Mined("crowdsale") \ {None}
                       /\ Mined("transfer") # {}
  <2>1. SUFFICES ASSUME kind = "init"
                 PROVE  row["crowdsale"].address # None /\ Mined("transfer") # {}
    BY DEF Vouched, RowsReal
  <2>2. m.type = "ownershipTransferred" /\ m.token = "own"
    BY <1>1, <1>3, <2>1 DEF KindSent, Vouched, InHand
  <2>3. Mined("transfer") # {}
    BY <1>1, <2>2 DEF Vouched, InHand, Truthful
  <2>4. Sent("transfer") # {}
    BY <2>3 DEF Mined, Sent
  <2>5. QED
    BY <2>3, <2>4 DEF Vouched, RowsReal
<1>9. /\ Extends /\ Len(chain') = n /\ chain'[n] = Call(kind)
      /\ \A k : Sent(k)' = IF k = kind THEN Sent(k) \cup {n} ELSE Sent(k)
      /\ Len(chain) \in Nat
  BY <1>1, AppendExtends, AppendSends DEF Call, TypeOK
<1>10. Mined("transfer") \subseteq Mined("transfer")'
  BY <1>9, StaysMined
<1>11. InHand'
  BY <1>1, <1>2, <1>9, StaysTrue DEF Vouched, InHand, KindSent, Call
<1> HIDE DEF m, kind, n
<1>12. /\ details.reused_token => Sent("token")' = {}
       /\ Sent("crowdsale")' # {} => row["token"].address # None
       /\ Sent("transfer")' # {} \/ Sent("init")' # {} =>
            row["crowdsale"].address # None
       /\ Sent("init")' # {} => Mined("transfer")' # {}
  BY <1>5, <1>6, <1>7, <1>8, <1>9, <1>10 DEF Vouched, RowsReal, InOrder
<1>13. ASSUME NEW t \in 1..Len(chain'), t \notin 1..Len(chain)
       PROVE  /\ chain'[t].kind \in {"crowdsale", "transfer"} =>
                   chain'[t].token \in Tokens
              /\ chain'[t].kind \in {"transfer", "init"} =>
                   chain'[t].crowdsale \in Mined("crowdsale")
  <2>1. t = n
    BY <1>9, <1>13 DEF n
  <2>2. QED
    BY <1>6, <1>7, <1>8, <1>9, <2>1 DEF Call
<1>14. QED
  BY <1>1, <1>9, <1>11, <1>12, <1>13, GrownVouched

LEMMA OwnerVouched ==
  ASSUME TypeOK, Vouched, OwnerTransfers
  PROVE  Vouched'
<1> DEFINE n == Len(chain) + 1
           call == [kind |-> "transfer", token |-> row["token"].address,
                    crowdsale |-> row["crowdsale"].address, status |-> "mined"]
<1>1. /\ chain' = Append(chain, call)
      /\ UNCHANGED <<state, row, details, ready, unacked, handling>>
  BY DEF OwnerTransfers, Call, rows, queue
<1>2. /\ call.kind = "transfer"
      /\ call.token \in Tokens
      /\ call.crowdsale \in Mined("crowdsale") \ {None}
  BY DEF OwnerTransfers, Vouched, RowsReal, Tokens
<1> HIDE DEF call
<1>3. /\ Extends /\ Len(chain') = n /\ chain'[n] = call
      /\ \A k : Sent(k)' = IF k = "transfer" THEN Sent(k) \cup {n} ELSE Sent(k)
      /\ Len(chain) \in Nat
  BY <1>1, <1>2, AppendExtends, AppendSends DEF TypeOK
<1>4. Mined("transfer") \subseteq Mined("transfer")'
  BY <1>3, StaysMined
<1>5. InHand'
  BY <1>1, <1>3, StaysTrue DEF Vouched, InHand, Extends, KindSent
<1>6. call.crowdsale = row["crowdsale"].address
  BY DEF call
<1> HIDE DEF n
<1>7. /\ details.reused_token => Sent("token")' = {}
      /\ Sent("crowdsale")' # {} => row["token"].address # None
      /\ Sent("transfer")' # {} \/ Sent("init")' # {} =>
           row["crowdsale"].address # None
      /\ Sent("init")' # {} => Mined("transfer")' # {}
  BY <1>2, <1>3, <1>4, <1>6 DEF Vouched, RowsReal, InOrder
<1>8. ASSUME NEW t \in 1..Len(chain'), t \notin 1..Len(chain)
      PROVE  /\ chain'[t].kind \in {"crowdsale", "transfer"} =>
                  chain'[t].token \in Tokens
             /\ chain'[t].kind \in {"transfer", "init"} =>
                  chain'[t].crowdsale \in Mined("crowdsale")
  <2>1. t = n
    BY <1>3, <1>8 DEF n
  <2>2. QED
    BY <1>2, <1>3, <2>1
<1>9. QED
  BY <1>1, <1>3, <1>5, <1>7, <1>8, GrownVouched

LEMMA VouchedStep == TypeOK /\ Vouched /\ [Next]_vars => Vouched'
<1> SUFFICES ASSUME TypeOK, Vouched, [Next]_vars PROVE Vouched'
  OBVIOUS
<1>1. CASE UNCHANGED vars
  <2>1. QuietStep
    BY <1>1 DEF QuietStep, Vouched, MessagesTrue, vars, rows, queue, network
  <2>2. QED
    BY <2>1, QuietVouched
<1>2. CASE WebStep \/ Fault \/ OthersUseAddress
  BY <1>2, WebQuietly, TroubleQuietly, QuietVouched
<1>3. CASE HandleMessage
  BY <1>3, HandledQuietly, TroubleQuietly, QuietVouched, BegunVouched,
     DeployedVouched, SendVouched, RecordVouched DEF HandleMessage
<1>4. CASE NetworkStep
  BY <1>4, MineVouched, ReportedQuietly, QuietVouched, OwnerVouched
     DEF NetworkStep
<1>5. QED
  BY <1>1, <1>2, <1>3, <1>4 DEF Next

(***************************************************************************)
(* Every row, message and transaction of the pipeline vouches for the step *)
(* before it: the invariant the two theorems below are proved from.        *)
(***************************************************************************)
THEOREM VouchedAlways == Spec => []Vouched
<1>1. QED
  BY TypeInit, TypeStep, VouchedInit, VouchedStep, PTL DEF Spec

(***************************************************************************)
(* deploy, msg_deployed and ownershipTransferred only make transactions    *)
(* from contracts that are on the network.                                 *)
(***************************************************************************)
THEOREM CallsReach == Spec => []CallsReachContracts
<1>1. Vouched => CallsReachContracts
  BY DEF Vouched
<1>2. QED
  BY <1>1, VouchedAlways, PTL

\* There is one token and one crowdsale to talk about.
LEMMA OneOfEach ==
  ASSUME SentOnce
  PROVE  /\ \A t, u \in Mined("crowdsale") : t = u
         /\ \A t, u \in Tokens : t = u
<1>1. Mined("crowdsale") \subseteq Sent("crowdsale")
      /\ Mined("token") \subseteq Sent("token")
  BY DEF Mined, Sent
<1>2. QED
  BY <1>1 DEF SentOnce, Tokens

(***************************************************************************)
(* The crowdsale shown as ACTIVE sells and owns its token and is           *)
(* initialized, in whatever order the receiver got its messages.           *)
(***************************************************************************)
THEOREM ActiveWired == Spec => []ActiveIsWired
<1>1. Vouched => ActiveIsWired
  <2> DEFINE crowdsale == row["crowdsale"].address
             token == row["token"].address
  <2>1. SUFFICES ASSUME Vouched, state = "ACTIVE", SentOnce
                 PROVE  /\ crowdsale \in Mined("crowdsale")
                        /\ chain[crowdsale].token = token
                        /\ Owns(crowdsale, token)
                        /\ IsInitialized(crowdsale)
    BY DEF ActiveIsWired
  <2>2. PICK i : i \in Mined("init")
    BY <2>1 DEF Vouched, InOrder
  <2>3. i \in Sent("init") /\ chain[i].crowdsale \in Mined("crowdsale")
    BY <2>1, <2>2 DEF Mined, Sent, Vouched, CallsReachContracts
  <2>4. PICK t : t \in Mined("transfer")
    BY <2>1, <2>3 DEF Vouched, InOrder
  <2>5. /\ chain[t].crowdsale \in Mined("crowdsale")
        /\ chain[t].token \in Tokens
    BY <2>1, <2>4 DEF Mined, Vouched, CallsReachContracts
  <2>6. crowdsale \in Mined("crowdsale")
    BY <2>1, <2>3 DEF Vouched, RowsReal
  <2>7. Sent("crowdsale") # {}
    BY <2>6 DEF Mined, Sent
  <2>8. token \in Tokens
    BY <2>1, <2>7 DEF Vouched, RowsReal
  <2>9. chain[crowdsale].token \in Tokens
    BY <2>1, <2>6 DEF Mined, Vouched, CallsReachContracts
  <2> HIDE DEF crowdsale, token
  <2>10. chain[i].crowdsale = crowdsale /\ chain[t].crowdsale = crowdsale
    BY <2>1, <2>3, <2>5, <2>6, OneOfEach
  <2>11. chain[t].token = token /\ chain[crowdsale].token = token
    BY <2>1, <2>5, <2>8, <2>9, OneOfEach
  <2>12. QED
    BY <2>2, <2>4, <2>6, <2>10, <2>11 DEF Owns, IsInitialized
<1>2. QED
  BY <1>1, VouchedAlways, PTL
-----------------------------------------------------------------------------
(***************************************************************************)
(* The lock.  While the crowdsale holds it and no handler is at work, the  *)
(* transaction that was sent last is told to somebody, or its message is   *)
(* on its way; each handler that takes such a message gives the lock back, *)
(* or sends the next transaction.  Only 'initialized' is passed over, by a *)
(* crowdsale that is over: so it must not come after 'finalized'.          *)
(***************************************************************************)
Members(s) == {s[i] : i \in 1..Len(s)}

Waiting == Members(ready)

\* Handled in whatever state, such a message frees the address or hands it on.
Freeing(m) ==
  \/ m.type \in {"launch", "deployed", "ownershipTransferred"}
  \/ m.type = "transactionCompleted" /\ RowsOf(m.hash) # {}

\* The rows are what the transaction was made from.
Wired(t) ==
  /\ chain[t].kind = "transfer" => chain[t].token = row["token"].address
  /\ chain[t].kind \in {"transfer", "init"} =>
       chain[t].crowdsale = row["crowdsale"].address

\* The scanner will find a row to report it to.
Tied(t) == t \notin reported /\ RowsOf(t) # {} /\ Wired(t)

FreeingComes ==
  \/ handling.busy
  \/ \E m \in Waiting : Freeing(m)
  \/ \E t \in 1..Len(chain) : Tied(t)
  \/ state # "ENDED" /\ \E m \in Waiting : m.type = "initialized"

Leaked == details.reused_token /\ "stray" \in events

LockExplained ==
  lockedBy = Ico /\ (SentOnce \/ "finalized" \notin events) => FreeingComes \/ Leaked

\* A draft has done nothing.
BeforeLaunch ==
  state = "CREATED" =>
    /\ ready = << >> /\ unacked = << >> /\ chain = << >>
    /\ ~handling.busy /\ lockedBy # Ico
    /\ row["crowdsale"].address = None
    /\ \A q \in Deployers : request[q] # "launch"

AtWork == handling.busy => state = "WAITING_FOR_DEPLOYMENT"

StateFrees ==
  /\ state = "ACTIVE" => lockedBy # Ico
  /\ state = "WAITING_ACTIVATION" =>
       details.reused_token /\ (lockedBy = Ico => "stray" \in events)

\* What is not told by a transaction.
EventsTold ==
  /\ state = "ENDED" => "finalized" \in events
  /\ \A m \in Waiting : m.type = "finalized" => "finalized" \in events
  /\ \A m \in Waiting \cup Members(unacked) :
       m.type = "ownershipTransferred" /\ m.token # "own" => "stray" \in events
  /\ "finalized" \in events => \E t \in Mined("init") : t \in reported

LeftWithBroker ==
  \A m \in Members(unacked) :
    m.type \in {"launch", "deployed", "ownershipTransferred", "initialized"}

\* The transaction that is just out has no row yet: only its event can have
\* been published.
SentTold ==
  handling.busy /\ handling.tx # None =>
    /\ RowsOf(handling.tx) = {} /\ Wired(handling.tx)
    /\ handling.tx \in reported =>
         \E m \in Waiting :
           m.type = IF chain[handling.tx].kind = "init"
                      THEN "initialized" ELSE "ownershipTransferred"

ReportedSent == reported \subseteq 1..Len(chain)

OneInit ==
  \A t, u \in Mined("init") : chain[t].crowdsale = chain[u].crowdsale => t = u

EndsLast(s) ==
  \A i, j \in 1..Len(s) :
    i < j /\ s[i].type = "finalized" => s[j].type # "initialized"

EndComesLast == SentOnce => EndsLast(ready)

LockTold ==
  /\ BeforeLaunch /\ AtWork /\ StateFrees
  /\ EventsTold /\ LeftWithBroker /\ EndComesLast
  /\ SentTold /\ ReportedSent /\ OneInit
  /\ LockExplained

(***************************************************************************)
(* Queues.                                                                 *)
(***************************************************************************)
LEMMA MembersAre ==
  ASSUME NEW S, NEW s \in Seq(S)
  PROVE  /\ Members(s) \subseteq S
         /\ \A m \in S : Members(Append(s, m)) = Members(s) \cup {m}
         /\ \A u \in Seq(S) : Members(u \o s) = Members(u) \cup Members(s)
         /\ s # << >> => Members(s) = {Head(s)} \cup Members(Tail(s))
<1>1. Members(s) \subseteq S /\ Len(s) \in Nat
  BY DEF Members
<1>2. ASSUME NEW m \in S
      PROVE  Members(Append(s, m)) = Members(s) \cup {m}
  <2>1. /\ Len(Append(s, m)) = Len(s) + 1
        /\ \A i \in 1..Len(s) : Append(s, m)[i] = s[i]
        /\ Append(s, m)[Len(s) + 1] = m
    OBVIOUS
  <2>2. 1..(Len(s) + 1) = 1..Len(s) \cup {Len(s) + 1}
    BY <1>1
  <2>3. QED
    BY <1>1, <2>1, <2>2 DEF Members
<1>3. ASSUME NEW u \in Seq(S)
      PROVE  Members(u \o s) = Members(u) \cup Members(s)
  <2>1. /\ Len(u \o s) = Len(u) + Len(s) /\ Len(u) \in Nat
        /\ \A i \in 1..(Len(u) + Len(s)) :
             (u \o s)[i] = IF i <= Len(u) THEN u[i] ELSE s[i - Len(u)]
    BY ConcatProperties
  <2>2. ASSUME NEW m \in Members(u \o s) PROVE m \in Members(u) \cup Members(s)
    BY <1>1, <2>1, <2>2 DEF Members
  <2>3. ASSUME NEW m \in Members(u) PROVE m \in Members(u \o s)
    BY <1>1, <2>1, <2>3 DEF Members
  <2>4. ASSUME NEW m \in Members(s) PROVE m \in Members(u \o s)
    <3>1. PICK i \in 1..Len(s) : s[i] = m
      BY <2>4 DEF Members
    <3>2. Len(u) + i \in 1..(Len(u) + Len(s)) /\ (u \o s)[Len(u) + i] = m
      BY <1>1, <2>1, <3>1
    <3>3. QED
      BY <2>1, <3>2 DEF Members
  <2>5. QED
    BY <2>2, <2>3, <2>4
<1>4. ASSUME s # << >>
      PROVE  Members(s) = {Head(s)} \cup Members(Tail(s))
  <2>1. /\ Head(s) = s[1] /\ Len(Tail(s)) = Len(s) - 1 /\ Len(s) > 0
        /\ \A i \in 1..Len(Tail(s)) : Tail(s)[i] = s[i + 1]
    BY <1>4, HeadTailProperties
  <2>2. ASSUME NEW m \in Members(s) PROVE m \in {Head(s)} \cup Members(Tail(s))
    <3>1. PICK i \in 1..Len(s) : s[i] = m
      BY <2>2 DEF Members
    <3>2. i = 1 \/ i - 1 \in 1..Len(Tail(s))
      BY <1>1, <2>1, <3>1
    <3>3. i # 1 => Tail(s)[i - 1] = m
      BY <1>1, <2>1, <3>1, <3>2
    <3>4. QED
      BY <2>1, <3>1, <3>2, <3>3 DEF Members
  <2>3. ASSUME NEW m \in {Head(s)} \cup Members(Tail(s)) PROVE m \in Members(s)
    BY <1>1, <2>1, <2>3 DEF Members
  <2>4. QED
    BY <2>2, <2>3
<1>5. QED
  BY <1>1, <1>2, <1>3, <1>4

LEMMA EndsLastStays ==
  ASSUME NEW S, NEW s \in Seq(S), EndsLast(s)
  PROVE  /\ \A m \in S : m.type # "initialized"
                           \/ (\A n \in Members(s) : n.type # "finalized")
                         => EndsLast(Append(s, m))
         /\ \A u \in Seq(S) : (\A n \in Members(u) : n.type # "finalized")
                              => EndsLast(u \o s)
         /\ s # << >> => EndsLast(Tail(s))
         /\ s # << >> /\ Head(s).type = "finalized" =>
              \A n \in Members(Tail(s)) : n.type # "initialized"
<1>1. Len(s) \in Nat
  OBVIOUS
<1>2. ASSUME NEW m \in S,
             m.type # "initialized" \/ (\A n \in Members(s) : n.type # "finalized")
      PROVE  EndsLast(Append(s, m))
  <2>1. /\ Len(Append(s, m)) = Len(s) + 1
        /\ \A i \in 1..Len(s) : Append(s, m)[i] = s[i]
        /\ Append(s, m)[Len(s) + 1] = m
    OBVIOUS
  <2>2. SUFFICES ASSUME NEW i \in 1..(Len(s) + 1), NEW j \in 1..(Len(s) + 1), i < j,
                        Append(s, m)[i].type = "finalized"
                 PROVE  Append(s, m)[j].type # "initialized"
    BY <2>1 DEF EndsLast
  <2>3. i \in 1..Len(s) /\ s[i].type = "finalized"
    BY <1>1, <2>1, <2>2
  <2>4. CASE j \in 1..Len(s)
    BY <2>1, <2>2, <2>3, <2>4 DEF EndsLast
  <2>5. CASE j = Len(s) + 1
    BY <1>2, <2>1, <2>3, <2>5 DEF Members
  <2>6. QED
    BY <1>1, <2>2, <2>4, <2>5
<1>3. ASSUME NEW u \in Seq(S), \A n \in Members(u) : n.type # "finalized"
      PROVE  EndsLast(u \o s)
  <2>1. /\ Len(u \o s) = Len(u) + Len(s) /\ Len(u) \in Nat
        /\ \A i \in 1..(Len(u) + Len(s)) :
             (u \o s)[i] = IF i <= Len(u) THEN u[i] ELSE s[i - Len(u)]
    BY ConcatProperties
  <2>2. SUFFICES ASSUME NEW i \in 1..(Len(u) + Len(s)), NEW j \in 1..(Len(u) + Len(s)),
                        i < j, (u \o s)[i].type = "finalized"
                 PROVE  (u \o s)[j].type # "initialized"
    BY <2>1 DEF EndsLast
  <2>3. i > Len(u)
    BY <1>3, <2>1, <2>2 DEF Members
  <2>4. /\ i - Len(u) \in 1..Len(s) /\ j - Len(u) \in 1..Len(s)
        /\ i - Len(u) < j - Len(u)
    BY <1>1, <2>1, <2>2, <2>3
  <2>5. (u \o s)[i] = s[i - Len(u)] /\ (u \o s)[j] = s[j - Len(u)]
    BY <1>1, <2>1, <2>2, <2>3
  <2>6. QED
    BY <2>2, <2>4, <2>5 DEF EndsLast
<1>4. ASSUME s # << >>
      PROVE  /\ EndsLast(Tail(s))
             /\ Head(s).type = "finalized" =>
                  \A n \in Members(Tail(s)) : n.type # "initialized"
  <2>1. /\ Head(s) = s[1] /\ Len(Tail(s)) = Len(s) - 1 /\ Len(s) > 0
        /\ \A i \in 1..Len(Tail(s)) : Tail(s)[i] = s[i + 1]
    BY <1>4, HeadTailProperties
  <2>2. \A i \in 1..Len(Tail(s)) : i + 1 \in 1..Len(s) /\ 1 \in 1..Len(s) /\ 1 < i + 1
    BY <1>1, <2>1
  <2>3. EndsLast(Tail(s))
    <3>1. SUFFICES ASSUME NEW i \in 1..Len(Tail(s)), NEW j \in 1..Len(Tail(s)), i < j,
                          Tail(s)[i].type = "finalized"
                   PROVE  Tail(s)[j].type # "initialized"
      BY DEF EndsLast
    <3>2. i + 1 < j + 1
      BY <1>1, <2>1, <3>1
    <3>3. QED
      BY <2>1, <2>2, <3>1, <3>2 DEF EndsLast
  <2>4. QED
    BY <2>1, <2>2, <2>3 DEF EndsLast, Members
<1>5. QED
  BY <1>2, <1>3, <1>4

(***************************************************************************)
(* What the steps do to the queue.                                         *)
(***************************************************************************)
LEMMA Taken ==
  ASSUME TypeOK, ready # << >>, Ack \/ LeaveUnacked \/ Begin
  PROVE  /\ Head(ready) \in Waiting
         /\ Waiting = {Head(ready)} \cup Waiting'
         /\ Members(unacked') \subseteq Members(unacked) \cup {Head(ready)}
         /\ Ack \/ Begin => unacked' = unacked
<1>1. Waiting = {Head(ready)} \cup Members(Tail(ready)) /\ Head(ready) \in Messages
  BY MembersAre, HeadTailProperties DEF TypeOK, Waiting
<1>2. ready' = Tail(ready)
  BY DEF Ack, LeaveUnacked, Begin
<1>3. Members(unacked') \subseteq Members(unacked) \cup {Head(ready)}
  <2>1. CASE LeaveUnacked
    <3>1. Members(Append(unacked, Head(ready))) = Members(unacked) \cup {Head(ready)}
      BY <1>1, MembersAre DEF TypeOK
    <3>2. QED
      BY <2>1, <3>1 DEF LeaveUnacked
  <2>2. CASE Ack \/ Begin
    BY <2>2 DEF Ack, Begin
  <2>3. QED
    BY <2>1, <2>2
<1>4. QED
  BY <1>1, <1>2, <1>3 DEF Waiting, Ack, Begin

LEMMA Put ==
  ASSUME TypeOK, NEW m \in Messages, ready' = Append(ready, m)
  PROVE  Waiting' = Waiting \cup {m}
BY MembersAre DEF TypeOK, Waiting

LEMMA Requeued ==
  ASSUME TypeOK, MessageRequeued
  PROVE  /\ Waiting' = Waiting /\ unacked' = unacked
         /\ ready # << >> /\ ready' = Append(Tail(ready), Head(ready))
         /\ Head(ready).type \in {"launch", "deployed", "ownershipTransferred"}
         /\ Head(ready) \in Messages /\ Tail(ready) \in Seq(Messages)
<1>1. /\ ready # << >> /\ ready' = Append(Tail(ready), Head(ready))
      /\ Head(ready).type \in {"launch", "deployed", "ownershipTransferred"}
      /\ unacked' = unacked
  BY DEF MessageRequeued, Receiving
<1>2. Head(ready) \in Messages /\ Tail(ready) \in Seq(Messages)
  BY <1>1, HeadTailProperties DEF TypeOK
<1>3. \A s \in Seq(Messages), m \in Messages : Members(Append(s, m)) = Members(s) \cup {m}
  BY MembersAre
<1>4. Waiting = {Head(ready)} \cup Members(Tail(ready))
  BY <1>1, MembersAre DEF TypeOK, Waiting
<1>5. QED
  BY <1>1, <1>2, <1>3, <1>4 DEF Waiting

\* What a restart puts before the queue.
Redelivery == IF handling.busy THEN Append(unacked, handling.message) ELSE unacked

LEMMA Restarted ==
  ASSUME TypeOK, ReceiverRestart
  PROVE  /\ Redelivery \in Seq(Messages) /\ ready' = Redelivery \o ready
         /\ Members(Redelivery) = Members(unacked)
                \cup (IF handling.busy THEN {handling.message} ELSE {})
         /\ Waiting' = Members(Redelivery) \cup Waiting
         /\ Members(unacked') = {}
<1>1. ready' = Redelivery \o ready /\ unacked' = << >>
  BY DEF ReceiverRestart, Redelivery
<1>2. handling.message \in Messages /\ unacked \in Seq(Messages) /\ ready \in Seq(Messages)
  BY DEF TypeOK
<1>3. /\ Redelivery \in Seq(Messages)
      /\ Members(Redelivery) = Members(unacked)
                \cup (IF handling.busy THEN {handling.message} ELSE {})
  BY <1>2, MembersAre DEF Redelivery
<1>4. Waiting' = Members(Redelivery) \cup Waiting
  BY <1>1, <1>2, <1>3, MembersAre DEF Waiting
<1>5. Members(<< >>) = {}
  BY DEF Members
<1>6. QED
  BY <1>1, <1>3, <1>4, <1>5

LEMMA Raised ==
  ASSUME TypeOK, HandlerRaises
  PROVE  Members(unacked') = Members(unacked) \cup {handling.message}
<1>1. handling.message \in Messages /\ unacked' = Append(unacked, handling.message)
  BY DEF TypeOK, HandlerRaises
<1>2. QED
  BY <1>1, MembersAre DEF TypeOK

(***************************************************************************)
(* The steps that answer a message and are done with it.                   *)
(***************************************************************************)
Answers ==
  \/ MessagePostponed \/ LaunchIgnored
  \/ DeployedIgnored \/ DeployedRejected \/ DeployedLate \/ DeployedReused
  \/ TransferLate \/ TransferIgnored
  \/ InitializedIgnored \/ InitializedAccepted
  \/ IcoFinalized \/ TransactionFailed \/ TransactionUnknown

Begins == LaunchAccepted \/ DeployedAccepted \/ TransferAccepted

Publishes == StrayTransfer \/ Finalize \/ \E t \in Txs : Report(t)

LEMMA NextIs ==
  Next <=> \/ WebStep \/ Answers \/ Begins
           \/ SendTransaction \/ RecordTransaction \/ HandlerRaises
           \/ MessageRequeued \/ ReceiverRestart \/ OthersUseAddress
           \/ (\E t \in Txs : Mine(t)) \/ OwnerTransfers \/ Publishes
BY DEF Next, HandleMessage, Fault, NetworkStep, Answers, Begins, Publishes

LEMMA AnswersAre ==
  ASSUME Answers
  PROVE  /\ ready # << >> /\ ~handling.busy
         /\ Ack \/ LeaveUnacked
         /\ LeaveUnacked => Head(ready).type = "initialized" \/ Ack
         /\ UNCHANGED <<details, handling, network, request, troubles>>
BY DEF Answers, Receiving, rows, MessagePostponed, LaunchIgnored,
       DeployedIgnored, DeployedRejected, DeployedLate, DeployedReused,
       TransferLate, TransferIgnored, InitializedIgnored, InitializedAccepted,
       IcoFinalized, TransactionFailed, TransactionUnknown

LEMMA BeginsAre ==
  ASSUME Begins
  PROVE  /\ ready # << >> /\ ~handling.busy /\ Begin
         /\ lockedBy' = Blocking(lockedBy, Ico)
         /\ UNCHANGED <<details, tokenState, network, request, troubles>>
BY DEF Begins, Receiving, rows, LaunchAccepted, DeployedAccepted, TransferAccepted

LEMMA PublishesOne ==
  ASSUME TypeOK, Publishes
  PROVE  /\ \E m \in Messages : ready' = Append(ready, m) /\ Waiting' = Waiting \cup {m}
         /\ UNCHANGED <<state, rows, lockedBy, unacked, handling, chain, request>>
<1>1. CASE StrayTransfer
  BY <1>1, MessagesTyped, Put DEF StrayTransfer
<1>2. CASE Finalize
  BY <1>2, MessagesTyped, Put DEF Finalize
<1>3. ASSUME NEW t \in Txs, Report(t)
      PROVE  /\ \E m \in Messages : ready' = Append(ready, m) /\ Waiting' = Waiting \cup {m}
             /\ UNCHANGED <<state, rows, lockedBy, unacked, handling, chain, request>>
  <2>1. PICK m \in Reports(t) : ready' = Append(ready, m)
    BY <1>3 DEF Report
  <2>2. m \in Messages
    BY ReportsTyped
  <2>3. QED
    BY <1>3, <2>1, <2>2, Put DEF Report
<1>4. QED
  BY <1>1, <1>2, <1>3 DEF Publishes
-----------------------------------------------------------------------------
(***************************************************************************)
(* The parts of the invariant that look at one variable or two.            *)
(***************************************************************************)
LEMMA TakeOffIsNotIco ==
  /\ TakeOff # Ico
  /\ TakeOffFor(lockedBy, Ico) # Ico
  /\ \A c \in Contracts \ {Ico} : Blocking(lockedBy, c) = Ico => lockedBy = Ico
BY IcoIsAContract, NoOneIsNotAContract DEF TakeOff, TakeOffFor, Blocking

LEMMA BeforeLaunchKept ==
  ASSUME TypeOK, BeforeLaunch, Next
  PROVE  BeforeLaunch'
<1> SUFFICES ASSUME state' = "CREATED" PROVE BeforeLaunch'
  BY DEF BeforeLaunch
<1> USE DEF BeforeLaunch
<1>1. CASE Answers \/ Begins \/ MessageRequeued
  <2>1. ready # << >>
    BY <1>1, AnswersAre, BeginsAre, Requeued
  <2>2. state # "CREATED"
    BY <2>1
  <2>3. QED
    BY <1>1, <2>2
       DEF Answers, Begins, rows, MessagePostponed, LaunchIgnored,
           DeployedIgnored, DeployedRejected, DeployedLate, DeployedReused,
           TransferLate, TransferIgnored, InitializedIgnored, InitializedAccepted,
           IcoFinalized, TransactionFailed, TransactionUnknown,
           LaunchAccepted, DeployedAccepted, TransferAccepted, MessageRequeued
<1>2. CASE SendTransaction \/ RecordTransaction \/ HandlerRaises
  BY <1>2 DEF SendTransaction, RecordTransaction, HandlerRaises
<1>3. CASE WebStep
  <2>1. ASSUME NEW q \in Deployers, DeployRead(q) PROVE BeforeLaunch'
    BY <2>1 DEF DeployRead, Step, TypeOK, rows, queue, network
  <2>2. ASSUME NEW q \in Deployers, DeploySave(q) PROVE FALSE
    BY <2>2 DEF DeploySave
  <2>3. ASSUME NEW q \in Deployers, DeployLaunch(q) PROVE FALSE
    BY <2>3 DEF DeployLaunch, Step
  <2>4. QED
    BY <1>3, <2>1, <2>2, <2>3 DEF WebStep
<1>4. CASE ReceiverRestart
  BY <1>4 DEF ReceiverRestart, rows
<1>5. CASE OthersUseAddress
  BY <1>5, TakeOffIsNotIco DEF OthersUseAddress, rows, queue, network
<1>6. CASE OwnerTransfers \/ StrayTransfer
  BY <1>6 DEF OwnerTransfers, StrayTransfer
<1>7. CASE (\E t \in Txs : Mine(t)) \/ Finalize \/ \E t \in Txs : Report(t)
  <2>1. state = "CREATED"
    BY <1>7 DEF Mine, Finalize, Report
  <2>2. Len(chain) = 0 /\ Mined("init") = {}
    BY <2>1 DEF Mined
  <2>3. QED
    BY <1>7, <2>2 DEF Mine, Finalize, Report
<1>8. QED
  BY <1>1, <1>2, <1>3, <1>4, <1>5, <1>6, <1>7, NextIs DEF Publishes

LEMMA AtWorkKept ==
  ASSUME TypeOK, BeforeLaunch, AtWork, Next
  PROVE  AtWork'
<1> USE DEF AtWork
<1>1. CASE Begins
  <2>1. state # "CREATED" /\ state \in IcoStates
    BY <1>1, BeginsAre DEF BeforeLaunch, TypeOK
  <2>2. QED
    BY <1>1, <2>1
       DEF Begins, IcoStates, LaunchAccepted, DeployedAccepted, TransferAccepted
<1>2. CASE Answers
  BY <1>2, AnswersAre
<1>3. CASE WebStep
  BY <1>3 DEF WebStep, DeployRead, DeploySave, DeployLaunch
<1>4. CASE SendTransaction \/ RecordTransaction \/ HandlerRaises
  BY <1>4 DEF SendTransaction, RecordTransaction, HandlerRaises, Idle, TypeOK
<1>5. CASE MessageRequeued \/ ReceiverRestart \/ OthersUseAddress
  BY <1>5 DEF MessageRequeued, ReceiverRestart, OthersUseAddress, Idle
<1>6. CASE (\E t \in Txs : Mine(t)) \/ OwnerTransfers
  BY <1>6 DEF Mine, OwnerTransfers
<1>7. CASE Publishes
  BY <1>7, PublishesOne
<1>8. QED
  BY <1>1, <1>2, <1>3, <1>4, <1>5, <1>6, <1>7, NextIs

LEMMA StateFreesKept ==
  ASSUME TypeOK, BeforeLaunch, AtWork, StateFrees, EventsTold, Next
  PROVE  StateFrees'
<1> USE TakeOffIsNotIco DEF StateFrees
<1>1. CASE Begins
  BY <1>1, AtWorkKept, BeginsAre DEF Begin, AtWork
<1>2. CASE Answers
  <2>1. CASE TransferIgnored
    <3>1. Head(ready) \in Waiting /\ Head(ready).type = "ownershipTransferred"
          /\ Head(ready).token # "own"
      BY <1>2, <2>1, AnswersAre, Taken DEF TransferIgnored, Receiving, OwnToken
    <3>2. "stray" \in events
      BY <3>1 DEF EventsTold
    <3>3. QED
      BY <2>1, <3>2 DEF TransferIgnored, rows, network
  <2>2. CASE DeployedReused \/ InitializedAccepted
    BY <2>2 DEF DeployedReused, InitializedAccepted
  <2>3. CASE MessagePostponed \/ LaunchIgnored \/ DeployedRejected \/ DeployedLate
               \/ TransferLate \/ TransactionFailed
    BY <2>3 DEF MessagePostponed, LaunchIgnored, DeployedRejected, DeployedLate,
                TransferLate, TransactionFailed, rows, network
  <2>4. CASE DeployedIgnored \/ InitializedIgnored \/ IcoFinalized \/ TransactionUnknown
    BY <2>4 DEF DeployedIgnored, InitializedIgnored, IcoFinalized, TransactionUnknown,
                rows, network
  <2>5. QED
    BY <1>2, <2>1, <2>2, <2>3, <2>4 DEF Answers
<1>3. CASE WebStep
  BY <1>3 DEF WebStep, DeployRead, DeploySave, DeployLaunch, rows, network
<1>4. CASE SendTransaction \/ RecordTransaction \/ HandlerRaises
  BY <1>4 DEF SendTransaction, RecordTransaction, HandlerRaises, AtWork
<1>5. CASE MessageRequeued \/ ReceiverRestart \/ OthersUseAddress
  BY <1>5 DEF MessageRequeued, ReceiverRestart, OthersUseAddress, rows, network
<1>6. CASE (\E t \in Txs : Mine(t)) \/ OwnerTransfers
  BY <1>6 DEF Mine, OwnerTransfers, rows
<1>7. CASE Publishes
  <2>1. events \subseteq events'
    BY <1>7 DEF Publishes, StrayTransfer, Finalize, Report
  <2>2. QED
    BY <1>7, <2>1, PublishesOne DEF rows
<1>8. QED
  BY <1>1, <1>2, <1>3, <1>4, <1>5, <1>6, <1>7, NextIs

(***************************************************************************)
(* Messages come and go in these ways.                                     *)
(***************************************************************************)
LEMMA WaitingMoves ==
  ASSUME TypeOK, Vouched, Next, ~Publishes, ~WebStep
  PROVE  /\ Waiting' \subseteq Waiting \cup Members(unacked)
                                    \cup (IF handling.busy THEN {handling.message} ELSE {})
         /\ Members(unacked') \subseteq Members(unacked)
                 \cup (IF handling.busy THEN {handling.message} ELSE {})
                 \cup {m \in Waiting : m.type = "initialized"}
         /\ Answers \/ UNCHANGED <<reported, events>>
         /\ UNCHANGED <<reported, events>>
<1>1. CASE Answers
  <2>1. Waiting = {Head(ready)} \cup Waiting' /\ Head(ready) \in Waiting
    BY <1>1, AnswersAre, Taken
  <2>2. Members(unacked') \subseteq Members(unacked)
                                       \cup {m \in Waiting : m.type = "initialized"}
    <3>1. CASE LeaveUnacked /\ Head(ready).type = "initialized"
      BY <1>1, <2>1, <3>1, AnswersAre, Taken
    <3>2. CASE Ack
      BY <3>2 DEF Ack
    <3>3. QED
      BY <1>1, <3>1, <3>2, AnswersAre
  <2>3. QED
    BY <1>1, <2>1, <2>2, AnswersAre DEF network
<1>2. CASE Begins
  <2>1. Waiting = {Head(ready)} \cup Waiting' /\ unacked' = unacked
    BY <1>2, BeginsAre, Taken
  <2>2. QED
    BY <1>2, <2>1, BeginsAre DEF network
<1>3. CASE SendTransaction \/ RecordTransaction \/ OthersUseAddress
             \/ (\E t \in Txs : Mine(t)) \/ OwnerTransfers
  BY <1>3 DEF SendTransaction, RecordTransaction, OthersUseAddress, Mine,
              OwnerTransfers, queue, network, Waiting
<1>4. CASE HandlerRaises
  <2>1. Waiting' = Waiting
    BY <1>4 DEF HandlerRaises, Waiting
  <2>2. QED
    BY <1>4, <2>1, Raised DEF HandlerRaises, network
<1>5. CASE MessageRequeued
  BY <1>5, Requeued DEF MessageRequeued, network
<1>6. CASE ReceiverRestart
  BY <1>6, Restarted DEF ReceiverRestart, network
<1>7. QED
  BY <1>1, <1>2, <1>3, <1>4, <1>5, <1>6, NextIs

LEMMA LeftWithBrokerKept ==
  ASSUME TypeOK, Vouched, LeftWithBroker, Next
  PROVE  LeftWithBroker'
<1> USE DEF LeftWithBroker
<1>1. handling.busy =>
        handling.message.type \in {"launch", "deployed", "ownershipTransferred"}
  BY DEF Vouched, InHand
<1>2. CASE Publishes
  BY <1>2, PublishesOne
<1>3. CASE WebStep
  BY <1>3 DEF WebStep, DeployRead, DeploySave, DeployLaunch, queue
<1>4. CASE ~Publishes /\ ~WebStep
  BY <1>1, <1>4, WaitingMoves
<1>5. QED
  BY <1>2, <1>3, <1>4

\* What is reported of a transaction.
LEMMA ReportsAre ==
  ASSUME TypeOK, NEW t \in 1..Len(chain), NEW m \in Reports(t)
  PROVE  /\ m.type # "finalized" /\ m.type # "launch"
         /\ m.type = "ownershipTransferred" => m.token = "own"
         /\ m.type # "initialized" => Freeing(m)
         /\ m.type = "initialized" => t \in Mined("init")
         /\ RowsOf(t) = {} =>
              m.type = IF chain[t].kind = "init" THEN "initialized"
                                                 ELSE "ownershipTransferred"
<1>1. chain[t] \in Calls
  BY DEF TypeOK
<1>2. CASE chain[t].kind \in {"token", "crowdsale"}
  <2>1. \/ \E r \in RowsOf(t) : m = Deployed(r, t, chain[t].status = "mined")
        \/ m = TxFailed(t) /\ RowsOf(t) # {}
    BY <1>2 DEF Reports
  <2>2. QED
    BY <2>1 DEF Deployed, TxFailed, Freeing
<1>3. CASE chain[t].kind = "transfer"
  <2>1. \/ m = TxFailed(t) /\ RowsOf(t) # {}
        \/ m = OwnershipTransferred("own")
    BY <1>1, <1>3 DEF Reports, Calls
  <2>2. QED
    BY <1>3, <2>1 DEF OwnershipTransferred, TxFailed, Freeing
<1>4. CASE chain[t].kind = "init"
  <2>1. \/ m = TxFailed(t) /\ RowsOf(t) # {}
        \/ m = Initialized /\ chain[t].status = "mined"
    BY <1>1, <1>4 DEF Reports, Calls
  <2>2. QED
    BY <1>4, <2>1 DEF Initialized, TxFailed, Freeing, Mined
<1>5. QED
  BY <1>1, <1>2, <1>3, <1>4 DEF Calls, Kinds

LEMMA ReportIs ==
  ASSUME TypeOK, NEW t \in Txs, Report(t)
  PROVE  /\ t \in 1..Len(chain) /\ t \notin reported
         /\ reported' = reported \cup {t} /\ events' = events
         /\ \E m \in Reports(t) : /\ m \in Messages
                                  /\ ready' = Append(ready, m)
                                  /\ Waiting' = Waiting \cup {m}
<1>1. PICK m \in Reports(t) : ready' = Append(ready, m)
  BY DEF Report
<1>2. m \in Messages
  BY ReportsTyped
<1>3. QED
  BY <1>1, <1>2, Put DEF Report

LEMMA ChainMoves ==
  ASSUME TypeOK, Next
  PROVE  /\ Extends
         /\ SentOnce' => SentOnce
         /\ \/ \E t \in Txs : Mine(t)
            \/ SendTransaction
            \/ OwnerTransfers
            \/ UNCHANGED chain
<1>1. \/ \E t \in Txs : Mine(t)
      \/ SendTransaction
      \/ OwnerTransfers
      \/ UNCHANGED chain
  <2>1. CASE WebStep
    BY <2>1 DEF WebStep, DeployRead, DeploySave, DeployLaunch, network
  <2>2. CASE Answers \/ Begins
    BY <2>2, AnswersAre, BeginsAre DEF network
  <2>3. CASE Publishes
    BY <2>3, PublishesOne
  <2>4. CASE RecordTransaction \/ HandlerRaises \/ MessageRequeued \/ ReceiverRestart
               \/ OthersUseAddress
    BY <2>4 DEF RecordTransaction, HandlerRaises, MessageRequeued, ReceiverRestart,
                OthersUseAddress, network
  <2>5. QED
    BY <2>1, <2>2, <2>3, <2>4, NextIs
<1>2. Extends
  <2>1. CASE \E t \in Txs : Mine(t)
    BY <2>1, MineExtends
  <2>2. CASE SendTransaction \/ OwnerTransfers
    BY <2>2, AppendExtends DEF SendTransaction, OwnerTransfers
  <2>3. CASE UNCHANGED chain
    BY <2>3 DEF Extends, TypeOK
  <2>4. QED
    BY <1>1, <2>1, <2>2, <2>3
<1>3. SentOnce' => SentOnce
  BY <1>2, StaysMined DEF SentOnce
<1>4. QED
  BY <1>1, <1>2, <1>3

LEMMA EventsToldKept ==
  ASSUME TypeOK, Vouched, EventsTold, LeftWithBroker, Next
  PROVE  EventsTold'
<1>1. events \subseteq events' /\ reported \subseteq reported'
  <2>1. CASE WebStep
    BY <2>1 DEF WebStep, DeployRead, DeploySave, DeployLaunch, network
  <2>2. CASE Publishes
    BY <2>2 DEF Publishes, StrayTransfer, Finalize, Report
  <2>3. CASE ~Publishes /\ ~WebStep
    BY <2>3, WaitingMoves
  <2>4. QED
    BY <2>1, <2>2, <2>3
<1>2. Mined("init") \subseteq Mined("init")'
  BY ChainMoves, StaysMined
<1>3. "finalized" \in events' => \E t \in Mined("init")' : t \in reported'
  <2>1. CASE "finalized" \in events
    BY <1>1, <1>2, <2>1 DEF EventsTold
  <2>2. CASE "finalized" \notin events /\ "finalized" \in events'
    <3>1. Finalize
      <4>1. CASE WebStep
        BY <2>2, <4>1 DEF WebStep, DeployRead, DeploySave, DeployLaunch, network
      <4>2. CASE Publishes
        BY <2>2, <4>2 DEF Publishes, StrayTransfer, Report
      <4>3. CASE ~Publishes /\ ~WebStep
        BY <2>2, <4>3, WaitingMoves
      <4>4. QED
        BY <4>1, <4>2, <4>3
    <3>2. QED
      BY <1>1, <1>2, <3>1 DEF Finalize
  <2>3. QED
    BY <2>1, <2>2
<1>4. state' = "ENDED" => "finalized" \in events'
  <2>1. CASE IcoFinalized
    <3>1. Head(ready) \in Waiting /\ Head(ready).type = "finalized"
      BY <2>1, AnswersAre, Taken DEF IcoFinalized, Receiving, Answers
    <3>2. QED
      BY <1>1, <3>1 DEF EventsTold
  <2>2. CASE ~IcoFinalized
    <3>1. state' = "ENDED" => state = "ENDED"
      <4>1. CASE WebStep
        BY <4>1 DEF WebStep, DeployRead, DeploySave, DeployLaunch
      <4>2. CASE Answers \/ Begins
        BY <2>2, <4>2
           DEF Answers, Begins, rows, MessagePostponed, LaunchIgnored,
               DeployedIgnored, DeployedRejected, DeployedLate, DeployedReused,
               TransferLate, TransferIgnored, InitializedIgnored, InitializedAccepted,
               TransactionFailed, TransactionUnknown,
               LaunchAccepted, DeployedAccepted, TransferAccepted
      <4>3. CASE Publishes
        BY <4>3, PublishesOne
      <4>4. CASE SendTransaction \/ RecordTransaction \/ HandlerRaises
                   \/ MessageRequeued \/ ReceiverRestart \/ OthersUseAddress
        BY <4>4 DEF SendTransaction, RecordTransaction, HandlerRaises,
                    MessageRequeued, ReceiverRestart, OthersUseAddress
      <4>5. CASE (\E t \in Txs : Mine(t)) \/ OwnerTransfers
        BY <4>5 DEF Mine, OwnerTransfers
      <4>6. QED
        BY <4>1, <4>2, <4>3, <4>4, <4>5, NextIs
    <3>2. QED
      BY <1>1, <3>1 DEF EventsTold
  <2>3. QED
    BY <2>1, <2>2
<1>5. ASSUME NEW m \in Waiting' \cup Members(unacked')
      PROVE  /\ m \in Waiting' /\ m.type = "finalized" => "finalized" \in events'
             /\ m.type = "ownershipTransferred" /\ m.token # "own" => "stray" \in events'
  <2>1. handling.busy => /\ handling.message.type \in {"launch", "deployed", "ownershipTransferred"}
                         /\ handling.message.type = "ownershipTransferred" =>
                              handling.message.token = "own"
    BY DEF Vouched, InHand
  <2>2. CASE Publishes
    <3>1. CASE StrayTransfer
      <4>1. Waiting' = Waiting \cup {OwnershipTransferred("other")} /\ unacked' = unacked
            /\ "stray" \in events'
        BY <3>1, Put, MessagesTyped DEF StrayTransfer
      <4>2. QED
        BY <1>1, <1>5, <4>1 DEF EventsTold, OwnershipTransferred
    <3>2. CASE Finalize
      <4>1. Waiting' = Waiting \cup {Finalized} /\ unacked' = unacked
            /\ "finalized" \in events'
        BY <3>2, Put, MessagesTyped DEF Finalize
      <4>2. QED
        BY <1>1, <1>5, <4>1 DEF EventsTold, Finalized
    <3>3. ASSUME NEW t \in Txs, Report(t)
          PROVE  /\ m \in Waiting' /\ m.type = "finalized" => "finalized" \in events'
                 /\ m.type = "ownershipTransferred" /\ m.token # "own" => "stray" \in events'
      <4>1. /\ t \in 1..Len(chain) /\ events' = events
            /\ \E n \in Reports(t) : Waiting' = Waiting \cup {n}
        BY <3>3, ReportIs
      <4>2. PICK n \in Reports(t) : Waiting' = Waiting \cup {n}
        BY <4>1
      <4>3. /\ n.type # "finalized"
            /\ n.type = "ownershipTransferred" => n.token = "own"
        BY <4>1, ReportsAre
      <4>4. unacked' = unacked
        BY <3>3 DEF Report
      <4>5. QED
        BY <1>1, <1>5, <4>2, <4>3, <4>4 DEF EventsTold
    <3>4. QED
      BY <2>2, <3>1, <3>2, <3>3 DEF Publishes
  <2>3. CASE WebStep
    <3>1. unacked' = unacked /\ (Waiting' = Waiting \/ Waiting' = Waiting \cup {Launch})
      BY <2>3, Put, MessagesTyped
         DEF WebStep, DeployRead, DeploySave, DeployLaunch, queue, Waiting
    <3>2. QED
      BY <1>1, <1>5, <3>1 DEF EventsTold, Launch
  <2>4. CASE ~Publishes /\ ~WebStep
    <3>1. m \in Waiting \cup Members(unacked)
            \/ (handling.busy /\ m = handling.message)
      BY <1>5, <2>4, WaitingMoves
    <3>2. CASE m \in Waiting
      BY <1>1, <3>2 DEF EventsTold
    <3>3. CASE m \in Members(unacked)
      BY <1>1, <3>3 DEF EventsTold, LeftWithBroker
    <3>4. CASE handling.busy /\ m = handling.message
      BY <2>1, <3>4
    <3>5. QED
      BY <3>1, <3>2, <3>3, <3>4
  <2>5. QED
    BY <2>2, <2>3, <2>4
<1>6. QED
  BY <1>3, <1>4, <1>5 DEF EventsTold

(***************************************************************************)
(* The network: what was reported was sent, a crowdsale is initialized     *)
(* once, and of one crowdsale nothing more can be told when it is over.    *)
(***************************************************************************)
LEMMA ReportedSentKept ==
  ASSUME TypeOK, Vouched, ReportedSent, Next
  PROVE  ReportedSent'
<1>1. 1..Len(chain) \subseteq 1..Len(chain')
  BY ChainMoves DEF Extends
<1>2. reported' \subseteq reported \cup 1..Len(chain)
  <2>1. CASE WebStep
    BY <2>1 DEF WebStep, DeployRead, DeploySave, DeployLaunch, network
  <2>2. CASE Publishes
    BY <2>2 DEF Publishes, StrayTransfer, Finalize, Report
  <2>3. CASE ~Publishes /\ ~WebStep
    BY <2>3, WaitingMoves
  <2>4. QED
    BY <2>1, <2>2, <2>3
<1>3. QED
  BY <1>1, <1>2 DEF ReportedSent

LEMMA OneInitKept ==
  ASSUME TypeOK, OneInit, Next
  PROVE  OneInit'
<1>1. CASE UNCHANGED chain
  BY <1>1 DEF OneInit, Mined
<1>2. CASE SendTransaction \/ OwnerTransfers
  <2>1. PICK call : chain' = Append(chain, call)
                      /\ (call.status = "mined" => call.kind # "init")
    BY <1>2 DEF SendTransaction, OwnerTransfers, Call
  <2>2. Extends /\ Len(chain') = Len(chain) + 1 /\ chain'[Len(chain) + 1] = call
        /\ \A t \in 1..Len(chain) : chain'[t] = chain[t]
    BY <2>1, AppendExtends DEF TypeOK
  <2>3. Mined("init")' = Mined("init")
    BY <2>1, <2>2 DEF Mined, Extends
  <2>4. QED
    BY <2>2, <2>3 DEF OneInit, Mined
<1>3. ASSUME NEW t \in Txs, Mine(t) PROVE OneInit'
  <2>1. PICK s \in {"mined", "failed"} :
          chain' = [chain EXCEPT ![t].status = s] /\ (s = "mined" => CanSucceed(t))
    BY <1>3 DEF Mine
  <2>2. /\ t \in 1..Len(chain) /\ chain \in Seq(Calls) /\ Len(chain') = Len(chain)
        /\ \A u \in 1..Len(chain) : u # t => chain'[u] = chain[u]
        /\ chain'[t].kind = chain[t].kind /\ chain'[t].crowdsale = chain[t].crowdsale
        /\ chain'[t].status = s
    <3>1. t \in 1..Len(chain) /\ chain \in Seq(Calls) /\ chain[t] \in Calls
      BY <1>3 DEF Mine, TypeOK
    <3>2. chain'[t] = [chain[t] EXCEPT !.status = s]
      BY <2>1, <3>1
    <3>3. QED
      BY <1>3, <2>1, <3>1, <3>2, MinedChain DEF Calls
  <2>3. Mined("init")' \subseteq Mined("init") \cup {t}
    BY <2>2 DEF Mined
  <2>4. t \in Mined("init")' =>
          \A u \in Mined("init") : chain[u].crowdsale # chain[t].crowdsale
    BY <2>1, <2>2 DEF Mined, CanSucceed, IsInitialized
  <2>5. \A u \in Mined("init") : u \in 1..Len(chain) /\ chain'[u].crowdsale = chain[u].crowdsale
    BY <2>2 DEF Mined
  <2>6. QED
    BY <2>2, <2>3, <2>4, <2>5 DEF OneInit
<1>4. QED
  BY <1>1, <1>2, <1>3, ChainMoves

\* The message 'initialized' of the one crowdsale was published before its
\* sale could end.
LEMMA NoInitAfterEnd ==
  ASSUME TypeOK, Vouched, EventsTold, OneInit, SentOnce, "finalized" \in events,
         NEW t \in Mined("init")
  PROVE  t \in reported
<1>1. PICK u \in Mined("init") : u \in reported
  BY DEF EventsTold
<1>2. chain[t].crowdsale \in Mined("crowdsale") /\ chain[u].crowdsale \in Mined("crowdsale")
  BY DEF Vouched, CallsReachContracts, Mined
<1>3. chain[t].crowdsale = chain[u].crowdsale
  BY <1>2, OneOfEach
<1>4. QED
  BY <1>1, <1>3 DEF OneInit

LEMMA EndComesLastKept ==
  ASSUME TypeOK, Vouched, EventsTold, LeftWithBroker, OneInit, EndComesLast, Next
  PROVE  EndComesLast'
<1> SUFFICES ASSUME SentOnce PROVE EndsLast(ready')
  BY ChainMoves DEF EndComesLast
<1>1. EndsLast(ready) /\ ready \in Seq(Messages)
  BY DEF EndComesLast, TypeOK
<1>2. ASSUME NEW m \in Messages, ready' = Append(ready, m), m.type # "initialized"
      PROVE  EndsLast(ready')
  BY <1>1, <1>2, EndsLastStays
<1>3. CASE UNCHANGED ready
  BY <1>1, <1>3
<1>4. CASE Answers \/ Begins
  <2>1. ready # << >> /\ ready' = Tail(ready)
    BY <1>4, AnswersAre, BeginsAre DEF Ack, LeaveUnacked, Begin
  <2>2. QED
    BY <1>1, <2>1, EndsLastStays
<1>5. CASE MessageRequeued
  <2> DEFINE rest == Tail(ready)
             head == Head(ready)
  <2>1. /\ ready # << >> /\ ready' = Append(rest, head) /\ head \in Messages
        /\ rest \in Seq(Messages) /\ head.type # "initialized"
    BY <1>5, Requeued
  <2>2. EndsLast(rest)
    BY <1>1, <2>1, EndsLastStays
  <2> HIDE DEF rest, head
  <2>3. QED
    BY <2>1, <2>2, EndsLastStays
<1>6. CASE ReceiverRestart
  <2>1. /\ Redelivery \in Seq(Messages) /\ ready' = Redelivery \o ready
        /\ Members(Redelivery) = Members(unacked)
               \cup (IF handling.busy THEN {handling.message} ELSE {})
    BY <1>6, Restarted
  <2>2. \A m \in Members(Redelivery) : m.type # "finalized"
    BY <2>1 DEF LeftWithBroker, Vouched, InHand
  <2>3. QED
    BY <1>1, <2>1, <2>2, EndsLastStays
<1>7. CASE WebStep
  <2>1. UNCHANGED ready \/ ready' = Append(ready, Launch)
    BY <1>7 DEF WebStep, DeployRead, DeploySave, DeployLaunch, queue
  <2>2. Launch \in Messages /\ Launch.type # "initialized"
    BY MessagesTyped DEF Launch
  <2>3. QED
    BY <1>2, <1>3, <2>1, <2>2
<1>8. CASE StrayTransfer
  BY <1>2, <1>8, MessagesTyped DEF StrayTransfer, OwnershipTransferred
<1>9. CASE Finalize
  BY <1>2, <1>9, MessagesTyped DEF Finalize, Finalized
<1>10. ASSUME NEW t \in Txs, Report(t) PROVE EndsLast(ready')
  <2>1. t \in 1..Len(chain) /\ t \notin reported
    BY <1>10, ReportIs
  <2>2. PICK m \in Reports(t) : m \in Messages /\ ready' = Append(ready, m)
    BY <1>10, ReportIs
  <2>3. CASE m.type # "initialized"
    BY <1>2, <2>2, <2>3
  <2>4. CASE m.type = "initialized"
    <3>1. t \in Mined("init")
      BY <2>1, <2>2, <2>4, ReportsAre
    <3>2. "finalized" \notin events
      BY <2>1, <3>1, NoInitAfterEnd
    <3>3. \A n \in Members(ready) : n.type # "finalized"
      BY <3>2 DEF EventsTold, Waiting
    <3>4. QED
      BY <1>1, <2>2, <3>3, EndsLastStays
  <2>5. QED
    BY <2>3, <2>4
<1>11. CASE SendTransaction \/ RecordTransaction \/ HandlerRaises \/ OthersUseAddress
              \/ (\E t \in Txs : Mine(t)) \/ OwnerTransfers
  BY <1>3, <1>11 DEF SendTransaction, RecordTransaction, HandlerRaises,
                     OthersUseAddress, Mine, OwnerTransfers, queue
<1>12. QED
  BY <1>4, <1>5, <1>6, <1>7, <1>8, <1>9, <1>10, <1>11, NextIs DEF Publishes

(***************************************************************************)
(* The transaction that is just out.                                       *)
(***************************************************************************)
LEMMA SentToldKept ==
  ASSUME TypeOK, Vouched, ReportedSent, SentTold, Next
  PROVE  SentTold'
<1>1. CASE SendTransaction
  <2> DEFINE n    == Len(chain) + 1
             call == Call(KindSent(handling.message))
  <2>1. /\ chain' = Append(chain, call) /\ handling'.tx = n
        /\ UNCHANGED <<row, reported>>
    BY <1>1 DEF SendTransaction, rows, TypeOK
  <2>2. chain'[n] = call /\ Len(chain) \in Nat
    BY <2>1, AppendExtends DEF TypeOK
  <2>3. /\ call.kind = "transfer" => call.token = row["token"].address
        /\ call.kind \in {"transfer", "init"} => call.crowdsale = row["crowdsale"].address
    BY DEF Call
  <2> HIDE DEF call
  <2>4. n \notin reported /\ n \notin 1..Len(chain) /\ n # None
    BY <2>2 DEF ReportedSent, None
  <2>5. RowsOf(n) = {}
    BY <2>4 DEF RowsOf, Vouched, RowsReal
  <2> HIDE DEF n
  <2>6. QED
    BY <2>1, <2>2, <2>3, <2>4, <2>5 DEF SentTold, RowsOf, Wired
<1>2. ASSUME UNCHANGED <<row, handling>>, handling.busy, handling.tx # None,
             Waiting \subseteq Waiting',
             handling.tx \in reported' => handling.tx \in reported
               \/ \E m \in Waiting' :
                    m.type = IF chain[handling.tx].kind = "init"
                               THEN "initialized" ELSE "ownershipTransferred"
      PROVE  SentTold'
  <2>1. handling.tx \in 1..Len(chain)
    BY <1>2 DEF Vouched, InHand
  <2>2. /\ chain'[handling.tx].kind = chain[handling.tx].kind
        /\ chain'[handling.tx].token = chain[handling.tx].token
        /\ chain'[handling.tx].crowdsale = chain[handling.tx].crowdsale
    BY <2>1, ChainMoves DEF Extends
  <2>3. RowsOf(handling.tx)' = RowsOf(handling.tx)
    BY <1>2 DEF RowsOf
  <2>4. Wired(handling.tx)'
    BY <1>2, <2>2 DEF SentTold, Wired
  <2>5. QED
    BY <1>2, <2>2, <2>3, <2>4 DEF SentTold
<1>3. CASE WebStep
  <2>1. Waiting \subseteq Waiting' /\ UNCHANGED <<row, handling, reported>>
    BY <1>3, Put, MessagesTyped
       DEF WebStep, DeployRead, DeploySave, DeployLaunch, queue, Waiting, rows, network
  <2>2. QED
    BY <1>2, <2>1 DEF SentTold
<1>4. CASE OthersUseAddress \/ (\E t \in Txs : Mine(t)) \/ OwnerTransfers
  <2>1. UNCHANGED <<row, handling, reported, ready>>
    BY <1>4 DEF OthersUseAddress, Mine, OwnerTransfers, rows, queue, network
  <2>2. QED
    BY <1>2, <2>1 DEF SentTold, Waiting
<1>5. CASE StrayTransfer \/ Finalize
  <2>1. Waiting \subseteq Waiting' /\ UNCHANGED <<row, handling, reported>>
    BY <1>5, PublishesOne DEF StrayTransfer, Finalize, rows, Publishes
  <2>2. QED
    BY <1>2, <2>1 DEF SentTold
<1>6. ASSUME NEW t \in Txs, Report(t) PROVE SentTold'
  <2>1. PICK m \in Reports(t) : Waiting' = Waiting \cup {m}
    BY <1>6, ReportIs
  <2>2. t \in 1..Len(chain) /\ reported' = reported \cup {t}
        /\ UNCHANGED <<row, handling>>
    BY <1>6, ReportIs DEF Report, rows
  <2>3. t = handling.tx /\ SentTold /\ handling.busy /\ handling.tx # None =>
          m.type = IF chain[handling.tx].kind = "init"
                     THEN "initialized" ELSE "ownershipTransferred"
    BY <2>2, ReportsAre DEF SentTold
  <2>4. QED
    BY <1>2, <2>1, <2>2, <2>3 DEF SentTold
<1>7. CASE Answers
  BY <1>7, AnswersAre DEF SentTold
<1>8. CASE Begins
  BY <1>8, BeginsAre DEF SentTold, Begin
<1>9. CASE RecordTransaction \/ HandlerRaises \/ MessageRequeued \/ ReceiverRestart
  BY <1>9 DEF RecordTransaction, HandlerRaises, MessageRequeued, Receiving,
              ReceiverRestart, SentTold, Idle
<1>10. QED
  BY <1>1, <1>3, <1>4, <1>5, <1>6, <1>7, <1>8, <1>9, NextIs DEF Publishes
-----------------------------------------------------------------------------
(***************************************************************************)
(* What frees the lock stays on its way.                                   *)
(***************************************************************************)
LEMMA StillTied ==
  ASSUME TypeOK, Next, UNCHANGED row, NEW t \in 1..Len(chain), Tied(t),
         t \in reported' => t \in reported
  PROVE  t \in 1..Len(chain') /\ Tied(t)'
<1>1. /\ t \in 1..Len(chain')
      /\ chain'[t].kind = chain[t].kind
      /\ chain'[t].token = chain[t].token
      /\ chain'[t].crowdsale = chain[t].crowdsale
  BY ChainMoves DEF Extends
<1>2. QED
  BY <1>1 DEF Tied, Wired, RowsOf

LEMMA StillComes ==
  ASSUME TypeOK, Next, FreeingComes, UNCHANGED <<row, handling, reported>>,
         Waiting \subseteq Waiting', state' = "ENDED" => state = "ENDED"
  PROVE  FreeingComes'
<1>1. CASE handling.busy
  BY <1>1 DEF FreeingComes
<1>2. ASSUME NEW m \in Waiting, Freeing(m) PROVE FreeingComes'
  BY <1>2 DEF FreeingComes, Freeing, RowsOf
<1>3. ASSUME NEW t \in 1..Len(chain), Tied(t) PROVE FreeingComes'
  BY <1>3, StillTied DEF FreeingComes
<1>4. CASE state # "ENDED" /\ \E m \in Waiting : m.type = "initialized"
  BY <1>4 DEF FreeingComes
<1>5. QED
  BY <1>1, <1>2, <1>3, <1>4 DEF FreeingComes

\* A message that frees nothing is taken from the queue.
LEMMA StillComesWithout ==
  ASSUME TypeOK, Next, FreeingComes, ~handling.busy,
         UNCHANGED <<row, handling, reported>>, NEW h, Waiting = {h} \cup Waiting',
         ~Freeing(h), h.type # "initialized" \/ state = "ENDED",
         state' = "ENDED" => \/ state = "ENDED"
                             \/ \A m \in Waiting' : m.type # "initialized"
  PROVE  FreeingComes'
<1>1. ASSUME NEW m \in Waiting, Freeing(m) PROVE FreeingComes'
  BY <1>1 DEF FreeingComes, Freeing, RowsOf
<1>2. ASSUME NEW t \in 1..Len(chain), Tied(t) PROVE FreeingComes'
  BY <1>2, StillTied DEF FreeingComes
<1>3. CASE state # "ENDED" /\ \E m \in Waiting : m.type = "initialized"
  BY <1>3 DEF FreeingComes
<1>4. QED
  BY <1>1, <1>2, <1>3 DEF FreeingComes

LEMMA AnswerExplained ==
  ASSUME TypeOK, Vouched, LockTold, Answers, Next
  PROVE  LockExplained'
<1> SUFFICES ASSUME lockedBy' = Ico, SentOnce \/ "finalized" \notin events
             PROVE  FreeingComes' \/ Leaked'
  BY AnswersAre, ChainMoves DEF LockExplained, network
<1>1. /\ ready # << >> /\ Head(ready) \in Waiting
      /\ Waiting = {Head(ready)} \cup Waiting'
      /\ ready' = Tail(ready)
      /\ ~handling.busy
      /\ UNCHANGED <<details, handling, chain, reported, events>>
  BY AnswersAre, Taken DEF network, Ack, LeaveUnacked
<1>2. Leaked' = Leaked
  BY <1>1 DEF Leaked
<1>3. CASE TransferIgnored
  <2>1. Head(ready).type = "ownershipTransferred" /\ Head(ready).token # "own"
    BY <1>3 DEF TransferIgnored, Receiving, OwnToken
  <2>2. "stray" \in events
    BY <1>1, <2>1 DEF LockTold, EventsTold
  <2>3. state = "WAITING_ACTIVATION"
    BY <1>1, <1>3, TakeOffIsNotIco
       DEF TransferIgnored, LockTold, BeforeLaunch, TypeOK, IcoStates
  <2>4. QED
    BY <1>2, <2>2, <2>3 DEF LockTold, StateFrees, Leaked
<1>4. CASE \/ MessagePostponed \/ LaunchIgnored \/ DeployedRejected \/ DeployedLate
           \/ DeployedReused \/ TransferLate \/ InitializedAccepted \/ TransactionFailed
  BY <1>4, TakeOffIsNotIco
     DEF MessagePostponed, LaunchIgnored, DeployedRejected, DeployedLate,
         DeployedReused, TransferLate, InitializedAccepted, TransactionFailed
<1>5. CASE DeployedIgnored
  BY <1>5 DEF DeployedIgnored, LockTold, StateFrees
<1>6. CASE InitializedIgnored \/ IcoFinalized \/ TransactionUnknown
  <2>1. lockedBy = Ico /\ row' = row
    BY <1>6 DEF InitializedIgnored, IcoFinalized, TransactionUnknown, rows
  <2>2. SUFFICES ASSUME FreeingComes PROVE FreeingComes' \/ Leaked'
    BY <1>2, <2>1 DEF LockTold, LockExplained
  <2>3. CASE InitializedIgnored
    <3>1. Head(ready).type = "initialized" /\ state' = state
      BY <2>3 DEF InitializedIgnored, Receiving, rows
    <3>2. state \in {"WAITING_ACTIVATION", "ENDED"}
      BY <1>1, <2>1, <2>3
         DEF InitializedIgnored, AwaitsInit, LockTold, StateFrees, BeforeLaunch,
             TypeOK, IcoStates
    <3>3. CASE state = "WAITING_ACTIVATION"
      BY <1>2, <2>1, <3>3 DEF LockTold, StateFrees, Leaked
    <3>4. CASE state = "ENDED"
      <4>1. ~Freeing(Head(ready))
        BY <3>1 DEF Freeing
      <4>2. QED
        BY <1>1, <2>1, <2>2, <3>1, <3>4, <4>1, StillComesWithout
    <3>5. QED
      BY <3>2, <3>3, <3>4
  <2>4. CASE IcoFinalized
    <3>1. Head(ready).type = "finalized"
      BY <2>4 DEF IcoFinalized, Receiving
    <3>2. SentOnce
      BY <1>1, <3>1 DEF LockTold, EventsTold
    <3>3. \A m \in Waiting' : m.type # "initialized"
      BY <1>1, <3>1, <3>2, EndsLastStays DEF LockTold, EndComesLast, TypeOK, Waiting
    <3>4. ~Freeing(Head(ready))
      BY <3>1 DEF Freeing
    <3>5. QED
      BY <1>1, <2>1, <2>2, <3>1, <3>3, <3>4, StillComesWithout
  <2>5. CASE TransactionUnknown
    <3>1. /\ Head(ready).type = "transactionCompleted" /\ RowsOf(Head(ready).hash) = {}
          /\ state' = state
      BY <2>5 DEF TransactionUnknown, Receiving
    <3>2. ~Freeing(Head(ready))
      BY <3>1 DEF Freeing
    <3>3. QED
      BY <1>1, <2>1, <2>2, <3>1, <3>2, StillComesWithout
  <2>6. QED
    BY <1>6, <2>3, <2>4, <2>5
<1>7. QED
  BY <1>3, <1>4, <1>5, <1>6 DEF Answers

LEMMA RecordExplained ==
  ASSUME TypeOK, Vouched, LockTold, RecordTransaction
  PROVE  LockExplained'
<1> DEFINE kind == KindSent(handling.message)
<1>1. /\ handling.busy /\ handling.tx # None
      /\ row' = [row EXCEPT ![RowOfKind(kind)].tx_hash = handling.tx]
      /\ state' = IF kind \in {"token", "crowdsale"} THEN "WAITING_FOR_DEPLOYMENT" ELSE state
      /\ UNCHANGED <<chain, reported, ready>>
  BY DEF RecordTransaction, queue, network
<1>2. handling.tx \in 1..Len(chain) /\ RowOfKind(kind) \in Rows
  BY <1>1, Kind DEF Vouched, InHand
<1> HIDE DEF kind
<1> PICK t \in 1..Len(chain), r \in Rows : handling.tx = t /\ RowOfKind(kind) = r
  BY <1>2
<1>3. Waiting' = Waiting
  BY <1>1 DEF Waiting
<1>4. state' # "ENDED"
  BY <1>1 DEF LockTold, AtWork
<1>5. FreeingComes'
  <2>1. CASE t \notin reported
    <3>1. /\ row' = [row EXCEPT ![r].tx_hash = t]
          /\ row \in [Rows -> [address: Txs \cup {None, OldToken},
                               tx_hash: Txs \cup {None}]]
      BY <1>1 DEF TypeOK
    <3>2. /\ row'[r].tx_hash = t
          /\ row'["token"].address = row["token"].address
          /\ row'["crowdsale"].address = row["crowdsale"].address
      BY <3>1 DEF Rows
    <3>3. Wired(t)
      BY <1>1 DEF LockTold, SentTold
    <3>4. Tied(t)'
      BY <1>1, <2>1, <3>2, <3>3 DEF Tied, Wired, RowsOf
    <3>5. QED
      BY <1>1, <3>4 DEF FreeingComes
  <2>2. CASE t \in reported
    <3>1. \E m \in Waiting : m.type \in {"initialized", "ownershipTransferred"}
      BY <1>1, <2>2 DEF LockTold, SentTold
    <3>2. QED
      BY <1>3, <1>4, <3>1 DEF FreeingComes, Freeing
  <2>3. QED
    BY <2>1, <2>2
<1>6. QED
  BY <1>5 DEF LockExplained

LEMMA ReportExplained ==
  ASSUME TypeOK, Vouched, LockTold, NEW t \in Txs, Report(t), Next
  PROVE  LockExplained'
<1>1. /\ t \in 1..Len(chain) /\ t \notin reported
      /\ reported' = reported \cup {t} /\ events' = events
      /\ UNCHANGED <<state, rows, lockedBy, handling, chain>>
  BY ReportIs DEF Report
<1>2. PICK m \in Reports(t) : Waiting' = Waiting \cup {m}
  BY ReportIs
<1> SUFFICES ASSUME lockedBy = Ico, SentOnce \/ "finalized" \notin events, ~Leaked
             PROVE  FreeingComes'
  BY <1>1, ChainMoves DEF LockExplained, Leaked, rows
<1>3. FreeingComes
  BY DEF LockTold, LockExplained
<1>4. CASE m.type # "initialized"
  <2>1. Freeing(m)'
    BY <1>1, <1>4, ReportsAre DEF Freeing, RowsOf, rows
  <2>2. QED
    BY <1>2, <2>1 DEF FreeingComes
<1>5. CASE m.type = "initialized"
  <2>1. t \in Mined("init")
    BY <1>1, <1>5, ReportsAre
  <2>2. "finalized" \notin events
    BY <1>1, <2>1, NoInitAfterEnd DEF LockTold
  <2>3. state' # "ENDED"
    BY <1>1, <2>2 DEF LockTold, EventsTold
  <2>4. QED
    BY <1>2, <1>5, <2>3 DEF FreeingComes
<1>6. QED
  BY <1>4, <1>5

LEMMA LockExplainedKept ==
  ASSUME TypeOK, Vouched, LockTold, Next
  PROVE  LockExplained'
<1>1. ASSUME UNCHANGED <<row, details, handling, reported>>, lockedBy' = Ico => lockedBy = Ico,
             events \subseteq events', Waiting \subseteq Waiting',
             state' = "ENDED" => state = "ENDED"
      PROVE  LockExplained'
  <2>1. SUFFICES ASSUME lockedBy = Ico, SentOnce \/ "finalized" \notin events
                 PROVE  FreeingComes' \/ Leaked'
    BY <1>1, ChainMoves DEF LockExplained
  <2>2. CASE Leaked
    BY <1>1, <2>2 DEF Leaked
  <2>3. CASE FreeingComes
    BY <1>1, <2>3, StillComes
  <2>4. QED
    BY <2>1, <2>2, <2>3 DEF LockTold, LockExplained
<1>2. CASE Begins
  <2>1. handling'.busy
    BY <1>2, BeginsAre DEF Begin
  <2>2. QED
    BY <2>1 DEF LockExplained, FreeingComes
<1>3. CASE SendTransaction
  <2>1. handling'.busy
    BY <1>3 DEF SendTransaction, TypeOK
  <2>2. QED
    BY <2>1 DEF LockExplained, FreeingComes
<1>4. CASE HandlerRaises
  BY <1>4, TakeOffIsNotIco DEF HandlerRaises, LockExplained
<1>5. CASE ReceiverRestart /\ handling.busy
  <2>1. handling.message \in Waiting'
    BY <1>5, Restarted
  <2>2. handling.message.type \in {"launch", "deployed", "ownershipTransferred"}
    BY <1>5 DEF Vouched, InHand
  <2>3. QED
    BY <2>1, <2>2 DEF LockExplained, FreeingComes, Freeing
<1>6. CASE ReceiverRestart /\ ~handling.busy
  <2>1. Waiting \subseteq Waiting'
    BY <1>6, Restarted
  <2>2. CASE FreeingComes
    <3>1. \/ \E m \in Waiting : Freeing(m)
          \/ \E t \in 1..Len(chain) : Tied(t)
          \/ state # "ENDED" /\ \E m \in Waiting : m.type = "initialized"
      BY <1>6, <2>2 DEF FreeingComes
    <3>2. UNCHANGED <<row, state, reported, chain>>
      BY <1>6 DEF ReceiverRestart, rows, network
    <3>3. QED
      BY <2>1, <3>1, <3>2 DEF FreeingComes, Freeing, Tied, Wired, RowsOf, LockExplained
  <2>3. CASE ~FreeingComes
    BY <1>6, <2>3, ChainMoves
       DEF ReceiverRestart, rows, network, LockTold, LockExplained, Leaked
  <2>4. QED
    BY <2>2, <2>3
<1>7. CASE MessageRequeued
  BY <1>1, <1>7, Requeued DEF MessageRequeued, rows, network
<1>8. CASE WebStep
  <2>1. Waiting \subseteq Waiting'
    BY <1>8, Put, MessagesTyped
       DEF WebStep, DeployRead, DeploySave, DeployLaunch, queue, Waiting
  <2>2. QED
    BY <1>1, <1>8, <2>1
       DEF WebStep, DeployRead, DeploySave, DeployLaunch, rows, network
<1>9. CASE OthersUseAddress
  BY <1>1, <1>9, TakeOffIsNotIco DEF OthersUseAddress, rows, queue, network, Waiting
<1>10. CASE (\E t \in Txs : Mine(t)) \/ OwnerTransfers
  BY <1>1, <1>10 DEF Mine, OwnerTransfers, rows, queue, Waiting
<1>11. CASE StrayTransfer \/ Finalize
  <2>1. Waiting \subseteq Waiting'
    BY <1>11, PublishesOne DEF Publishes
  <2>2. QED
    BY <1>1, <1>11, <2>1 DEF StrayTransfer, Finalize, rows
<1>12. QED
  BY <1>2, <1>3, <1>4, <1>5, <1>6, <1>7, <1>8, <1>9, <1>10, <1>11, NextIs,
     AnswerExplained, RecordExplained, ReportExplained DEF Publishes
-----------------------------------------------------------------------------
LEMMA LockToldInit == Init => LockTold
<1> SUFFICES ASSUME Init PROVE LockTold
  OBVIOUS
<1>1. /\ Waiting = {} /\ Members(unacked) = {} /\ 1..Len(chain) = {}
      /\ 1..Len(ready) = {} /\ ~handling.busy /\ lockedBy # Ico
  BY IcoIsAContract, NoOneIsNotAContract DEF Init, Waiting, Members, Idle
<1>2. row["crowdsale"].address = None
  BY DEF Init, Rows, NoRow
<1>3. BeforeLaunch /\ AtWork /\ StateFrees /\ EventsTold /\ LeftWithBroker
  BY <1>1, <1>2 DEF Init, BeforeLaunch, AtWork, StateFrees, EventsTold, LeftWithBroker
<1>4. EndComesLast /\ SentTold /\ ReportedSent /\ OneInit /\ LockExplained
  BY <1>1 DEF Init, EndComesLast, EndsLast, SentTold, ReportedSent, OneInit, Mined,
              LockExplained
<1>5. QED
  BY <1>3, <1>4 DEF LockTold

LEMMA LockToldStep == TypeOK /\ Vouched /\ LockTold /\ [Next]_vars => LockTold'
<1> SUFFICES ASSUME TypeOK, Vouched, LockTold, [Next]_vars PROVE LockTold'
  OBVIOUS
<1>1. CASE Next
  BY <1>1, BeforeLaunchKept, AtWorkKept, StateFreesKept, EventsToldKept,
     LeftWithBrokerKept, EndComesLastKept, SentToldKept, ReportedSentKept,
     OneInitKept, LockExplainedKept DEF LockTold
<1>2. CASE UNCHANGED vars
  BY <1>2
     DEF vars, rows, queue, network, LockTold, BeforeLaunch, AtWork, StateFrees,
         EventsTold, LeftWithBroker, EndComesLast, SentTold, ReportedSent, OneInit,
         LockExplained, FreeingComes, Leaked, Freeing, Tied, Wired, RowsOf, Waiting,
         SentOnce, Sent, Mined
<1>3. QED
  BY <1>1, <1>2

(***************************************************************************)
(* The address comes back between the transactions of a crowdsale: while   *)
(* it is held for it, a handler is at work, or a message or a transaction  *)
(* is on its way whose handler frees it or goes on (ico.py:154-260,        *)
(* decorators.py), for every number of requests, crashes and redelivered   *)
(* messages.                                                               *)
(***************************************************************************)
THEOREM LockAlwaysAwaited == Spec => []LockIsAwaited
<1>1. TypeOK /\ LockTold => LockIsAwaited
  <2> SUFFICES ASSUME TypeOK, LockTold, lockedBy = Ico,
                      SentOnce \/ "finalized" \notin events, ~Leaked
               PROVE  Awaited
    BY DEF LockIsAwaited, Leaked
  <2>1. FreeingComes
    BY DEF LockTold, LockExplained
  <2>2. CASE handling.busy
    BY <2>2 DEF Awaited
  <2>3. ASSUME NEW m \in Waiting, Freeing(m) \/ m.type = "initialized"
        PROVE  Awaited
    <3>1. PICK i \in 1..Len(ready) : ready[i] = m
      BY DEF Waiting, Members
    <3>2. QED
      BY <2>3, <3>1 DEF Awaited, Freeing, Releasing
  <2>4. ASSUME NEW t \in 1..Len(chain), Tied(t) PROVE Awaited
    <3>1. chain[t] \in Calls
      BY DEF TypeOK
    <3>2. CASE chain[t].status = "pending"
      BY <2>4, <3>2 DEF Awaited, Tied
    <3>3. CASE chain[t].status = "failed"
      <4>1. TxFailed(t) \in Reports(t)
        BY <2>4, <3>3 DEF Reports, Tied
      <4>2. QED
        BY <2>4, <4>1 DEF Awaited, Tied
    <3>4. CASE chain[t].status = "mined" /\ chain[t].kind \in {"token", "crowdsale"}
      <4>1. \A r \in RowsOf(t) : Deployed(r, t, TRUE) \in Reports(t)
        BY <3>4 DEF Reports
      <4>2. QED
        BY <2>4, <4>1 DEF Awaited, Tied
    <3>5. CASE chain[t].status = "mined" /\ chain[t].kind \in {"transfer", "init"}
      <4>1. Reports(t) \in {{Initialized}, {OwnershipTransferred("own")}}
        BY <2>4, <3>5 DEF Reports, Tied, Wired
      <4>2. QED
        BY <2>4, <4>1 DEF Awaited, Tied
    <3>6. QED
      BY <3>1, <3>2, <3>3, <3>4, <3>5 DEF Calls, Kinds
  <2>5. QED
    BY <2>1, <2>2, <2>3, <2>4 DEF FreeingComes
<1>2. QED
  BY <1>1, TypeInit, TypeStep, VouchedInit, VouchedStep, LockToldInit, LockToldStep,
     PTL DEF Spec
=============================================================================
