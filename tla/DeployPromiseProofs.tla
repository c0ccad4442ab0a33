------------------------ MODULE DeployPromiseProofs ------------------------
(***************************************************************************)
(* More proofs about DeployQueue, for every set of contracts and requests  *)
(* and every bound: it implements DeploymentPromise, a contract stops      *)
(* being ACTIVE for a reason only, and while the mail server answers, the  *)
(* deployment address is held only as long as something that frees it is   *)
(* under way.                                                              *)
(***************************************************************************)
EXTENDS DeployQueueProofs, FiniteSetTheorems

(***************************************************************************)
(* What is true once it is.  Every step only adds to it: launches are      *)
(* counted up, a transaction that was sent keeps its contract, one that    *)
(* failed or was destroyed stays so, and a row never changes hands.        *)
(***************************************************************************)
StoryGrows ==
  /\ tries <= tries'
  /\ \A c \in Contracts : launches[c] <= launches'[c]
  /\ \A t \in Tries :
       /\ chain[t].status # "unsent" =>
            chain'[t].status # "unsent" /\ chain'[t].contract = chain[t].contract
       /\ chain[t].status \in {"failed", "destroyed"} =>
            chain'[t].status = chain[t].status
       /\ chain[t].status = "mined" => chain'[t].status \in {"mined", "destroyed"}
  /\ \A r \in Tries :
       r <= tries => ethContract'[r].contract \in {ethContract[r].contract, NoOne}

LEMMA GrowsIfUntouched ==
  ASSUME TypeOK, UNCHANGED <<tries, launches, chain, ethContract>>
  PROVE  StoryGrows
<1>1. tries \in Nat
  BY BoundsAreNat DEF TypeOK
<1> QED
  BY <1>1 DEF StoryGrows, TypeOK

LEMMA StoryAlwaysGrows ==
  ASSUME TypeOK, RecordsAgree, [Next]_vars
  PROVE  StoryGrows
<1> USE DEF rows, queue, network, web
<1>1. tries \in Nat
  BY BoundsAreNat DEF TypeOK
<1>2. CASE WebStep
  <2>1. UNCHANGED <<tries, chain, ethContract>>
    BY <1>2 DEF WebStep, DeployRead, EditRead, DeployCharge, DeploySave,
                DeployLaunch, EditSave, RequestDies
  <2>2. \A c \in Contracts : launches[c] <= launches'[c]
    <3>1. ASSUME NEW q \in Requests, DeployLaunch(q), NEW c \in Contracts
          PROVE  launches[c] <= launches'[c]
      BY <3>1, Stepping DEF DeployLaunch, Step, TypeOK
    <3>2. launches' = launches \/ \E q \in Requests : DeployLaunch(q)
      BY <1>2 DEF WebStep, DeployRead, EditRead, DeployCharge, DeploySave,
                  EditSave, RequestDies
    <3> QED
      BY <3>1, <3>2 DEF TypeOK
  <2> QED
    BY <1>1, <2>1, <2>2 DEF StoryGrows
<1>3. CASE HandleLaunch
  <2>1. ASSUME NEW c \in Contracts, LaunchCompile(c) PROVE StoryGrows
    <3>1. tries' = tries + 1 /\ chain' = chain /\ launches' = launches
      BY <2>1 DEF LaunchCompile, Compile
    <3>2. \A r \in Tries : r <= tries =>
            ethContract'[r].contract \in {ethContract[r].contract, NoOne}
      BY <1>1, <2>1 DEF LaunchCompile, Compile, NoRow, NewRow
    <3> QED
      BY <1>1, <3>1, <3>2 DEF StoryGrows, TypeOK
  <2>2. CASE SendTransaction
    <3>1. /\ chain[tries].status = "unsent" /\ UNCHANGED <<tries, launches, ethContract>>
          /\ chain' = [chain EXCEPT ![tries] =
                         [contract |-> handling.contract, status |-> "pending"]]
      BY <2>2, Handled DEF SendTransaction, RecordsAgree, LaunchInHand, Launching
    <3> QED
      BY <1>1, <3>1 DEF StoryGrows, TypeOK
  <2>3. CASE RecordTransaction
    <3>1. \A r \in Tries : ethContract'[r].contract = ethContract[r].contract
      BY <2>3 DEF RecordTransaction, TypeOK, EthRows
    <3>2. UNCHANGED <<tries, launches, chain>>
      BY <2>3 DEF RecordTransaction
    <3> QED
      BY <1>1, <3>1, <3>2 DEF StoryGrows, TypeOK
  <2>4. ASSUME ~ \E c \in Contracts : LaunchCompile(c),
               ~SendTransaction, ~RecordTransaction
        PROVE  StoryGrows
    BY <1>3, <2>4, GrowsIfUntouched
    DEF HandleLaunch, LaunchPostponed, LaunchIgnored, LaunchNotCompiled,
        PrepareWhiteLabel, DeployRaises
  <2> QED
    BY <2>1, <2>2, <2>3, <2>4
<1>4. CASE HandleReport
  <2>1. ASSUME NEW c \in Contracts, DeployedAccepted(c) PROVE StoryGrows
    <3>1. \A r \in Tries : ethContract'[r].contract = ethContract[r].contract
      BY <2>1 DEF DeployedAccepted, TypeOK, EthRows
    <3>2. UNCHANGED <<tries, launches, chain>>
      BY <2>1 DEF DeployedAccepted
    <3> QED
      BY <1>1, <3>1, <3>2 DEF StoryGrows, TypeOK
  <2>2. ASSUME ~ \E c \in Contracts : DeployedAccepted(c) PROVE StoryGrows
    BY <1>4, <2>2, GrowsIfUntouched
    DEF HandleReport, DeployedUnknown, TransactionUnknown, KilledUnknown,
        DeployedIgnored, DeployedPostponed, DeployedRejected, DeployedMailed,
        DeployedNotMailed, TransactionFailed, ContractKilled
  <2> QED
    BY <2>1, <2>2
<1>5. CASE Fault
  BY <1>5, GrowsIfUntouched DEF Fault, ReceiverRestart, LaunchRequeued
<1>6. CASE NetworkStep
  <2>1. UNCHANGED <<tries, launches, ethContract>>
    BY <1>6 DEF NetworkStep, Mine, Report, Destroy
  <2>2. PICK t \in Tries : Mine(t) \/ Report(t) \/ Destroy(t)
    BY <1>6 DEF NetworkStep
  <2>3. ASSUME NEW s \in Tries
        PROVE  /\ chain'[s].contract = chain[s].contract
               /\ \/ chain'[s].status = chain[s].status
                  \/ chain[s].status = "pending" /\ chain'[s].status # "unsent"
                  \/ chain[s].status = "mined" /\ chain'[s].status = "destroyed"
    <3>1. CASE Mine(t)
      BY <3>1 DEF Mine, TypeOK
    <3>2. CASE Report(t)
      BY <3>2 DEF Report
    <3>3. CASE Destroy(t)
      BY <3>3 DEF Destroy, TypeOK
    <3> QED
      BY <2>2, <3>1, <3>2, <3>3
  <2>4. \A c \in Contracts : launches[c] <= launches'[c]
    BY <2>1 DEF TypeOK
  <2> QED
    BY <1>1, <2>1, <2>3, <2>4 DEF StoryGrows
<1>7. CASE UNCHANGED vars
  BY <1>7, GrowsIfUntouched DEF vars
<1> QED
  BY <1>2, <1>3, <1>4, <1>5, <1>6, <1>7 DEF Next

(***************************************************************************)
(* Whatever set the messages are in, the queues stay in it if the messages *)
(* a step may publish are in it: launches, of requests and of the handler  *)
(* that dies, and what the scanner says of a transaction.                  *)
(***************************************************************************)
LEMMA QueuesHold ==
  ASSUME NEW S, TypeOK, [Next]_vars, ready \in Seq(S), unacked \in Seq(S),
         \A q \in Requests : DeployLaunch(q) => Launch(request[q].contract) \in S,
         Launching => Launch(handling.contract) \in S,
         \A t \in Tries : \A r \in RowsOf(t) :
           /\ chain[t].status = "mined" => Deployed(r, t, TRUE) \in S
           /\ chain[t].status = "failed" =>
                Deployed(r, t, FALSE) \in S /\ TxFailed(t) \in S
           /\ Destroy(t) => Killed(r) \in S
  PROVE  ready' \in Seq(S) /\ unacked' \in Seq(S)
<1> USE DEF rows, queue, network, web
<1>1. ready # << >> /\ (Ack \/ LeaveUnacked \/ Requeue) =>
        ready' \in Seq(S) /\ unacked' \in Seq(S)
  BY AnsweredQueues
<1>2. CASE WebStep
  <2>1. ASSUME NEW q \in Requests, DeployLaunch(q)
        PROVE  ready' \in Seq(S) /\ unacked' = unacked
    <3>1. Launch(request[q].contract) \in S
      BY <2>1
    <3>2. /\ ready' = Append(ready, Launch(request[q].contract))
          /\ unacked' = unacked
      BY <2>1 DEF DeployLaunch
    <3> QED
      BY <3>1, <3>2, AppendProperties
  <2> QED
    BY <1>2, <2>1 DEF WebStep, DeployRead, EditRead, DeployCharge, DeploySave,
                      EditSave, RequestDies
<1>3. CASE HandleLaunch
  <2>1. ASSUME NEW c \in Contracts,
               LaunchPostponed(c) \/ LaunchIgnored(c) \/ LaunchNotCompiled(c)
        PROVE  ready # << >> /\ (Ack \/ LeaveUnacked)
    BY <2>1 DEF LaunchPostponed, LaunchIgnored, LaunchNotCompiled, Receiving,
                AlreadyPostponed
  <2>2. ASSUME NEW c \in Contracts, LaunchCompile(c)
        PROVE  ready' \in Seq(S) /\ unacked' = unacked
    BY <2>2, HeadTailProperties DEF LaunchCompile, Receiving
  <2>3. CASE DeployRaises
    BY <2>3 DEF DeployRaises
  <2>4. CASE PrepareWhiteLabel \/ SendTransaction \/ RecordTransaction
    BY <2>4 DEF PrepareWhiteLabel, SendTransaction, RecordTransaction
  <2> QED
    BY <1>1, <1>3, <2>1, <2>2, <2>3, <2>4 DEF HandleLaunch
<1>4. CASE HandleReport
  <2>1. \/ ready # << >> /\ (Ack \/ LeaveUnacked)
        \/ AckLast
        \/ UNCHANGED queue
    BY <1>4
    DEF HandleReport, DeployedUnknown, TransactionUnknown, KilledUnknown,
        DeployedIgnored, DeployedPostponed, DeployedRejected, DeployedAccepted,
        DeployedMailed, DeployedNotMailed, TransactionFailed, ContractKilled,
        AlreadyPostponed, Receiving
  <2> QED
    BY <1>1, <2>1, LastAcked
<1>5. CASE Fault
  <2>1. CASE ReceiverRestart
    BY <2>1, Redelivered
  <2>2. ASSUME NEW c \in Contracts, LaunchRequeued(c)
        PROVE  ready # << >> /\ Requeue
    BY <2>2 DEF LaunchRequeued, Receiving
  <2> QED
    BY <1>1, <1>5, <2>1, <2>2 DEF Fault
<1>6. CASE NetworkStep
  <2>1. unacked' = unacked
    BY <1>6 DEF NetworkStep, Mine, Report, Destroy
  <2>2. ready' = ready \/ \E m \in S : ready' = Append(ready, m)
    BY <1>6 DEF NetworkStep, Mine, Report, Destroy
  <2> QED
    BY <2>1, <2>2
<1>7. CASE UNCHANGED vars
  BY <1>7 DEF vars
<1> QED
  BY <1>2, <1>3, <1>4, <1>5, <1>6, <1>7 DEF Next
-----------------------------------------------------------------------------
LEMMA TypeStays == TypeOK /\ [Next]_vars => TypeOK'
<1>1. TypeOK /\ UNCHANGED vars => TypeOK'
  BY DEF vars, rows, queue, network, web, TypeOK
<1> QED
  BY <1>1, TypeWeb, TypeLaunch, TypeReport, TypeFault, TypeNetwork DEF Next

LEMMA OnlyWebCharges ==
  ASSUME [Next]_vars, ~WebStep
  PROVE  UNCHANGED web
<1>1. CASE HandleLaunch
  BY <1>1 DEF HandleLaunch, LaunchPostponed, LaunchIgnored, LaunchNotCompiled,
              LaunchCompile, PrepareWhiteLabel, SendTransaction, DeployRaises,
              RecordTransaction
<1>2. CASE HandleReport
  BY <1>2 DEF HandleReport, DeployedUnknown, TransactionUnknown, KilledUnknown,
              DeployedIgnored, DeployedPostponed, DeployedRejected,
              DeployedAccepted, DeployedMailed, DeployedNotMailed,
              TransactionFailed, ContractKilled
<1>3. CASE Fault \/ NetworkStep \/ UNCHANGED vars
  BY <1>3 DEF Fault, ReceiverRestart, LaunchRequeued, NetworkStep, Mine,
              Report, Destroy, vars
<1> QED
  BY <1>1, <1>2, <1>3 DEF Next

(***************************************************************************)
(* For every launch create_payment was called, and for every request that  *)
(* is on its way to publish one: it took the price, or nothing.            *)
(***************************************************************************)
Owed(c) ==
  {q \in Requests : request[q].contract = c /\ request[q].step \in {"save", "launch"}}

Paid ==
  \A c \in Contracts :
    /\ IsFiniteSet(Owed(c))
    /\ launches[c] + Cardinality(Owed(c)) <= charged[c] + unpaid[c]

LEMMA PaidInit == Init => Paid
<1> SUFFICES ASSUME Init, NEW c \in Contracts
             PROVE  /\ IsFiniteSet(Owed(c))
                    /\ launches[c] + Cardinality(Owed(c)) <= charged[c] + unpaid[c]
  BY DEF Paid
<1>1. Owed(c) = {}
  BY DEF Init, Owed, NewRequest
<1> QED
  BY <1>1, FS_EmptySet DEF Init

\* One request moves on; the others owe what they owed.
LEMMA OneMoves ==
  ASSUME TypeOK, NEW q \in Requests, NEW to \in {"save", "launch", "done"},
         request[q].step # "new", request' = [request EXCEPT ![q].step = to],
         NEW c \in Contracts
  PROVE  /\ to = "done" => Owed(c)' = Owed(c) \ {q}
         /\ to # "done" => Owed(c)' = IF request[q].contract = c
                                        THEN Owed(c) \cup {q} ELSE Owed(c)
<1>1. \A p \in Requests : p # q => request'[p] = request[p]
  BY DEF TypeOK
<1>2. request'[q].step = to /\ request'[q].contract = request[q].contract
  BY DEF TypeOK, RequestStates, NewRequest
<1> QED
  BY <1>1, <1>2 DEF Owed

LEMMA PaidStays == TypeOK /\ Paid /\ [Next]_vars => Paid'
<1> SUFFICES ASSUME TypeOK, Paid, [Next]_vars, NEW c \in Contracts
             PROVE  /\ IsFiniteSet(Owed(c)')
                    /\ launches'[c] + Cardinality(Owed(c)') <= charged'[c] + unpaid'[c]
  BY DEF Paid
<1>1. /\ IsFiniteSet(Owed(c)) /\ Cardinality(Owed(c)) \in Nat
      /\ launches[c] \in Nat /\ charged[c] \in Nat /\ unpaid[c] \in Nat
      /\ launches[c] + Cardinality(Owed(c)) <= charged[c] + unpaid[c]
  BY FS_CardinalityType DEF Paid, TypeOK
<1>2. CASE UNCHANGED web
  BY <1>1, <1>2 DEF web, Owed
<1>3. ASSUME NEW q \in Requests, DeployCharge(q)
      PROVE  /\ IsFiniteSet(Owed(c)')
             /\ launches'[c] + Cardinality(Owed(c)') <= charged'[c] + unpaid'[c]
  <2>1. /\ request[q].step = "charge" /\ launches' = launches
        /\ request' = [request EXCEPT ![q].step = "save"]
    BY <1>3 DEF DeployCharge, Step
  <2>2. Owed(c)' = IF request[q].contract = c THEN Owed(c) \cup {q} ELSE Owed(c)
    BY <2>1, OneMoves
  <2>3. charged'[c] + unpaid'[c] = IF request[q].contract = c
                                     THEN charged[c] + unpaid[c] + 1
                                     ELSE charged[c] + unpaid[c]
    <3>1. /\ charged \in [Contracts -> Nat] /\ unpaid \in [Contracts -> Nat]
          /\ charged[c] \in Nat /\ unpaid[c] \in Nat
      BY DEF TypeOK
    <3>2. CASE /\ unpaid' = unpaid
               /\ charged' = [charged EXCEPT ![request[q].contract] = @ + 1]
      BY <3>1, <3>2
    <3>3. CASE /\ charged' = charged
               /\ unpaid' = [unpaid EXCEPT ![request[q].contract] = @ + 1]
      BY <3>1, <3>3
    <3> QED
      BY <1>3, <3>2, <3>3 DEF DeployCharge
  <2>4. q \notin Owed(c)
    BY <2>1 DEF Owed
  <2>5. /\ IsFiniteSet(Owed(c) \cup {q})
        /\ Cardinality(Owed(c) \cup {q}) = Cardinality(Owed(c)) + 1
    BY <1>1, <2>4, FS_AddElement
  <2> QED
    BY <1>1, <2>1, <2>2, <2>3, <2>5
<1>4. ASSUME NEW q \in Requests, DeploySave(q)
      PROVE  /\ IsFiniteSet(Owed(c)')
             /\ launches'[c] + Cardinality(Owed(c)') <= charged'[c] + unpaid'[c]
  <2>1. /\ request[q].step = "save" /\ UNCHANGED <<launches, charged, unpaid>>
        /\ request' = [request EXCEPT ![q].step = "launch"]
    BY <1>4 DEF DeploySave, Step
  <2>2. Owed(c)' = IF request[q].contract = c THEN Owed(c) \cup {q} ELSE Owed(c)
    BY <2>1, OneMoves
  <2>3. request[q].contract = c => q \in Owed(c)
    BY <2>1 DEF Owed
  <2>4. Owed(c)' = Owed(c)
    BY <2>2, <2>3
  <2> QED
    BY <1>1, <2>1, <2>4
<1>5. ASSUME NEW q \in Requests, DeployLaunch(q)
      PROVE  /\ IsFiniteSet(Owed(c)')
             /\ launches'[c] + Cardinality(Owed(c)') <= charged'[c] + unpaid'[c]
  <2>1. /\ request[q].step = "launch" /\ UNCHANGED <<charged, unpaid>>
        /\ launches' = [launches EXCEPT ![request[q].contract] = @ + 1]
        /\ request' = [request EXCEPT ![q].step = "done"]
    BY <1>5 DEF DeployLaunch, Step
  <2>2. Owed(c)' = Owed(c) \ {q}
    BY <2>1, OneMoves
  <2>3. launches'[c] = IF q \in Owed(c) THEN launches[c] + 1 ELSE launches[c]
    BY <2>1 DEF TypeOK, Owed
  <2>4. /\ IsFiniteSet(Owed(c) \ {q})
        /\ Cardinality(Owed(c) \ {q}) =
             IF q \in Owed(c) THEN Cardinality(Owed(c)) - 1 ELSE Cardinality(Owed(c))
    BY <1>1, FS_RemoveElement
  <2> QED
    BY <1>1, <2>1, <2>2, <2>3, <2>4
<1>6. ASSUME NEW q \in Requests, EditSave(q) \/ RequestDies(q)
      PROVE  /\ IsFiniteSet(Owed(c)')
             /\ launches'[c] + Cardinality(Owed(c)') <= charged'[c] + unpaid'[c]
  <2>1. /\ request[q].step # "new" /\ UNCHANGED <<launches, charged, unpaid>>
        /\ request' = [request EXCEPT ![q].step = "done"]
    BY <1>6 DEF EditSave, RequestDies, Step
  <2>2. Owed(c)' = Owed(c) \ {q}
    BY <2>1, OneMoves
  <2>3. /\ IsFiniteSet(Owed(c) \ {q})
        /\ Cardinality(Owed(c) \ {q}) \in Nat
        /\ Cardinality(Owed(c) \ {q}) <= Cardinality(Owed(c))
    BY <1>1, FS_RemoveElement, FS_Subset, FS_CardinalityType
  <2> QED
    BY <1>1, <2>1, <2>2, <2>3
<1>7. ASSUME NEW q \in Requests, NEW d \in Contracts, DeployRead(q, d) \/ EditRead(q, d)
      PROVE  /\ IsFiniteSet(Owed(c)')
             /\ launches'[c] + Cardinality(Owed(c)') <= charged'[c] + unpaid'[c]
  <2>1. /\ request[q].step = "new" /\ UNCHANGED <<launches, charged, unpaid>>
        /\ \E s \in {"charge", "edit"} :
             request' = [request EXCEPT ![q] = [step |-> s, contract |-> d]]
    BY <1>7 DEF DeployRead, EditRead
  <2>2. Owed(c)' = Owed(c)
    BY <2>1 DEF Owed, TypeOK
  <2> QED
    BY <1>1, <2>1, <2>2
<1>8. CASE WebStep
  BY <1>3, <1>4, <1>5, <1>6, <1>7, <1>8 DEF WebStep, Requests
<1> QED
  BY <1>2, <1>8, OnlyWebCharges
-----------------------------------------------------------------------------
(***************************************************************************)
(* What the transactions, the launch in hand and the messages rest on: a   *)
(* transaction on a launch, a report of failure on a transaction that      *)
(* failed, a 'killed' on one whose contract destroyed itself.  A launch in *)
(* hand is of a contract that is still open.                               *)
(***************************************************************************)
Grounded(m) ==
  /\ m.type = "launch" => launches[m.contract] > 0
  /\ m.type = "transactionCompleted" => chain[m.hash].status = "failed"
  /\ m.type = "killed" =>
       /\ m.eth <= tries
       /\ Owner(m.eth) # NoOne => TxWith(Owner(m.eth), "destroyed")

GroundedMessages == {m \in Messages : Grounded(m)}

SentForALaunch ==
  \A t \in Tries : chain[t].status # "unsent" =>
    chain[t].contract \in Contracts /\ launches[chain[t].contract] > 0

InHandForALaunch ==
  Launching =>
    /\ launches[handling.contract] > 0
    /\ state[handling.contract] \notin ClosedStates

MessagesAreGrounded ==
  ready \in Seq(GroundedMessages) /\ unacked \in Seq(GroundedMessages)

HasReasons == SentForALaunch /\ InHandForALaunch /\ MessagesAreGrounded

LEMMA ReasonsInit == Init => HasReasons
BY EmptySeq DEF Init, HasReasons, SentForALaunch, InHandForALaunch,
                MessagesAreGrounded, Launching, Idle

LEMMA StaysGrounded ==
  ASSUME TypeOK, TypeOK', SentForALaunch, StoryGrows
  PROVE  GroundedMessages \subseteq GroundedMessages'
<1> SUFFICES ASSUME NEW m \in Messages, Grounded(m) PROVE Grounded(m)'
  BY DEF GroundedMessages
<1>1. CASE m.type = "launch"
  <2>1. m.contract \in Contracts
    BY <1>1 DEF Messages
  <2> QED
    BY <1>1, <2>1 DEF Grounded, StoryGrows, TypeOK
<1>2. CASE m.type = "transactionCompleted"
  <2>1. m.hash \in Tries
    BY <1>2 DEF Messages
  <2> QED
    BY <1>2, <2>1 DEF Grounded, StoryGrows
<1>3. CASE m.type = "killed"
  <2>1. m.eth \in Tries /\ m.eth <= tries /\ tries <= tries'
    BY <1>3 DEF Messages, Grounded, StoryGrows
  <2>2. m.eth <= tries'
    BY <2>1, BoundsAreNat DEF TypeOK, Tries
  <2>3. Owner(m.eth)' \in {Owner(m.eth), NoOne}
    BY <2>1 DEF Owner, StoryGrows
  <2>4. Owner(m.eth)' # NoOne => TxWith(Owner(m.eth), "destroyed")'
    BY <1>3, <2>3 DEF Grounded, TxWith, StoryGrows
  <2> QED
    BY <1>3, <2>2, <2>4 DEF Grounded
<1>4. CASE m.type = "deployed"
  BY <1>4 DEF Grounded
<1> QED
  BY <1>1, <1>2, <1>3, <1>4 DEF Messages

LEMMA ChainMoves ==
  ASSUME [Next]_vars, ~SendTransaction, ~NetworkStep
  PROVE  chain' = chain
<1>1. CASE WebStep
  BY <1>1 DEF WebStep, DeployRead, EditRead, DeployCharge, DeploySave,
              DeployLaunch, EditSave, RequestDies, network
<1>2. CASE HandleLaunch
  BY <1>2 DEF HandleLaunch, LaunchPostponed, LaunchIgnored, LaunchNotCompiled,
              LaunchCompile, PrepareWhiteLabel, DeployRaises,
              RecordTransaction, network
<1>3. CASE HandleReport
  BY <1>3 DEF HandleReport, DeployedUnknown, TransactionUnknown, KilledUnknown,
              DeployedIgnored, DeployedPostponed, DeployedRejected,
              DeployedAccepted, DeployedMailed, DeployedNotMailed,
              TransactionFailed, ContractKilled, network
<1>4. CASE Fault \/ UNCHANGED vars
  BY <1>4 DEF Fault, ReceiverRestart, LaunchRequeued, vars, network
<1> QED
  BY <1>1, <1>2, <1>3, <1>4 DEF Next

\* A launch comes to hand when it is compiled, and stays there while it is
\* sent and while anything but the receiver moves.
LEMMA HandlingMoves ==
  ASSUME TypeOK, [Next]_vars, Launching'
  PROVE  \/ \E c \in Contracts : LaunchCompile(c)
         \/ SendTransaction
         \/ handling' = handling /\ (WebStep \/ state' = state)
<1>0. handling' # Idle /\ \A c \in Contracts : handling' # Mailing(c)
  BY DEF Launching, Idle, Mailing
<1>1. CASE WebStep
  BY <1>1 DEF WebStep, DeployRead, EditRead, DeployCharge, DeploySave,
              DeployLaunch, EditSave, RequestDies
<1>2. CASE HandleLaunch
  BY <1>0, <1>2 DEF HandleLaunch, LaunchPostponed, LaunchIgnored, LaunchNotCompiled,
              PrepareWhiteLabel, DeployRaises, RecordTransaction, Receiving
<1>3. CASE HandleReport
  BY <1>0, <1>3 DEF HandleReport, DeployedUnknown, TransactionUnknown, KilledUnknown,
              DeployedIgnored, DeployedPostponed, DeployedRejected,
              DeployedAccepted, DeployedMailed, DeployedNotMailed,
              TransactionFailed, ContractKilled, Receiving
<1>4. CASE Fault \/ NetworkStep \/ UNCHANGED vars
  BY <1>0, <1>4 DEF Fault, ReceiverRestart, LaunchRequeued, NetworkStep, Mine,
              Report, Destroy, vars
<1> QED
  BY <1>1, <1>2, <1>3, <1>4 DEF Next

\* The launch that is taken in hand is a message of the queue.
LEMMA TakenInHand ==
  ASSUME TypeOK, HasReasons, NEW c \in Contracts, LaunchCompile(c)
  PROVE  /\ handling' = [step |-> "compiled", contract |-> c]
         /\ launches[c] > 0 /\ launches' = launches
         /\ state[c] \notin ClosedStates /\ state' = state
<1>1. Head(ready) \in GroundedMessages
  BY Receivable, HeadTailProperties
  DEF HasReasons, MessagesAreGrounded, LaunchCompile
<1>2. launches[c] > 0
  BY <1>1 DEF GroundedMessages, Grounded, LaunchCompile, Launch
<1> QED
  BY <1>2 DEF LaunchCompile, Launchable, ClosedStates, web

LEMMA ReasonsStay ==
  ASSUME TypeOK, RecordsAgree, HasReasons, [Next]_vars
  PROVE  HasReasons'
<1>1. TypeOK' /\ StoryGrows
  BY TypeStays, StoryAlwaysGrows
<1>2. SentForALaunch /\ InHandForALaunch /\ MessagesAreGrounded
  BY DEF HasReasons
<1>3. \A c \in Contracts : launches[c] > 0 => launches'[c] > 0
  BY <1>1 DEF StoryGrows, TypeOK
<1>4. ASSUME NEW t \in Tries, chain'[t].status # "unsent"
      PROVE  chain'[t].contract \in Contracts /\ launches'[chain'[t].contract] > 0
  <2>1. CASE chain[t].status # "unsent"
    BY <1>1, <1>2, <1>3, <2>1 DEF SentForALaunch, StoryGrows
  <2>2. CASE chain[t].status = "unsent"
    <3>1. ~NetworkStep
      BY <1>4, <2>2 DEF NetworkStep, Mine, Report, Destroy, TypeOK
    <3>2. SendTransaction
      BY <1>4, <2>2, <3>1, ChainMoves
    <3>3. Launching /\ handling.contract \in Contracts
      BY <3>2, Handled DEF SendTransaction, Launching
    <3>4. chain'[t].contract = handling.contract
      BY <1>4, <2>2, <3>2 DEF SendTransaction, TypeOK
    <3> QED
      BY <1>2, <1>3, <3>3, <3>4 DEF InHandForALaunch
  <2> QED
    BY <2>1, <2>2
<1>5. ASSUME Launching'
      PROVE  /\ launches'[handling'.contract] > 0
             /\ state'[handling'.contract] \notin ClosedStates
  <2>1. ASSUME NEW c \in Contracts, LaunchCompile(c)
        PROVE  /\ launches'[handling'.contract] > 0
               /\ state'[handling'.contract] \notin ClosedStates
    BY <2>1, TakenInHand
  <2>2. CASE SendTransaction
    <3>1. /\ Launching /\ handling.contract \in Contracts
          /\ handling'.contract = handling.contract
      BY <2>2, Handled DEF SendTransaction, Launching
    <3>2. state' = state
      BY <2>2 DEF SendTransaction
    <3> QED
      BY <1>2, <1>3, <3>1, <3>2 DEF InHandForALaunch
  <2>3. CASE handling' = handling /\ (WebStep \/ state' = state)
    <3>1. Launching /\ handling.contract \in Contracts
      BY <1>5, <2>3, Handled DEF Launching
    <3>2. state'[handling.contract] \notin ClosedStates
      BY <1>2, <2>3, <3>1, WebOpensOnly DEF InHandForALaunch
    <3> QED
      BY <1>2, <1>3, <2>3, <3>1, <3>2 DEF InHandForALaunch
  <2> QED
    BY <1>5, <2>1, <2>2, <2>3, HandlingMoves
<1>6. /\ ready \in Seq(GroundedMessages') /\ unacked \in Seq(GroundedMessages')
  BY <1>1, <1>2, StaysGrounded, SeqMonotonic DEF MessagesAreGrounded
<1>7. ASSUME NEW q \in Requests, DeployLaunch(q)
      PROVE  Launch(request[q].contract) \in GroundedMessages'
  <2>1. request[q].contract \in Contracts
    BY <1>7, Stepping DEF DeployLaunch, Step
  <2>2. launches'[request[q].contract] > 0
    BY <1>7, <2>1 DEF DeployLaunch, TypeOK
  <2> QED
    BY <2>1, <2>2, MessagesTyped DEF GroundedMessages, Grounded, Launch
<1>8. Launching => Launch(handling.contract) \in GroundedMessages'
  BY <1>2, <1>3, Handled, MessagesTyped
  DEF GroundedMessages, Grounded, Launch, InHandForALaunch
<1>9. ASSUME NEW t \in Tries, NEW r \in RowsOf(t)
      PROVE  /\ chain[t].status = "mined" =>
                  Deployed(r, t, TRUE) \in GroundedMessages'
             /\ chain[t].status = "failed" =>
                  /\ Deployed(r, t, FALSE) \in GroundedMessages'
                  /\ TxFailed(t) \in GroundedMessages'
             /\ Destroy(t) => Killed(r) \in GroundedMessages'
  <2>1. /\ r \in Tries /\ Owner(r) # NoOne /\ r <= tries
        /\ chain[t].contract = Owner(r)
    BY <1>9 DEF RowsOf, RecordsAgree, RowsAreOwned, RowsAreTrue, Tries, None
  <2>2. \A ok \in BOOLEAN : Deployed(r, t, ok) \in GroundedMessages'
    BY <2>1, MessagesTyped DEF GroundedMessages, Grounded, Deployed
  <2>3. chain[t].status = "failed" => TxFailed(t) \in GroundedMessages'
    BY <1>1, MessagesTyped DEF GroundedMessages, Grounded, TxFailed, StoryGrows
  <2>4. ASSUME Destroy(t) PROVE Killed(r) \in GroundedMessages'
    <3>1. /\ chain'[t].status = "destroyed" /\ chain'[t].contract = Owner(r)
          /\ tries' = tries /\ Owner(r)' = Owner(r)
      BY <2>1, <2>4 DEF Destroy, TypeOK, rows, Owner
    <3>2. TxWith(Owner(r), "destroyed")'
      BY <3>1 DEF TxWith, Owner
    <3>3. Killed(r).type = "killed" /\ Killed(r).eth = r /\ Killed(r) \in Messages
      BY <2>1, MessagesTyped DEF Killed
    <3> QED
      BY <2>1, <3>1, <3>2, <3>3 DEF GroundedMessages, Grounded
  <2> QED
    BY <2>2, <2>3, <2>4
<1>10. ready' \in Seq(GroundedMessages') /\ unacked' \in Seq(GroundedMessages')
  BY <1>6, <1>7, <1>8, <1>9, QueuesHold
<1> QED
  BY <1>4, <1>5, <1>10
  DEF HasReasons, SentForALaunch, InHandForALaunch, MessagesAreGrounded
-----------------------------------------------------------------------------
\* Both are steps of a launch in hand.
LEMMA RaisesOrRecords ==
  ASSUME TypeOK, DeployRaises \/ RecordTransaction
  PROVE  Launching /\ handling.contract \in Contracts
<1>1. CASE DeployRaises
  BY <1>1, Handled DEF DeployRaises
<1>2. CASE RecordTransaction
  <2>1. Launching
    BY <1>2 DEF RecordTransaction, Launching
  <2> QED
    BY <2>1, Handled
<1> QED
  BY <1>1, <1>2

(***************************************************************************)
(* A contract stops being ACTIVE for a reason.                             *)
(***************************************************************************)
LEMMA LeavesActive ==
  ASSUME TypeOK, RecordsAgree, HasReasons, [Next]_vars, NEW c \in Contracts,
         state[c] = "ACTIVE", state'[c] # "ACTIVE"
  PROVE  \/ state'[c] = "KILLED" /\ TxWith(c, "destroyed")
         \/ state'[c] = "POSTPONED" /\ TxWith(c, "failed")
         \/ state'[c] = "POSTPONED" /\ handling = Mailing(c) /\ MailFails
         \/ \E q \in Requests : /\ request[q].contract = c
                                /\ request[q].step \in {"save", "edit"}
<1> USE DEF rows, queue, network, web
<1>1. ASSUME ready # << >> PROVE Head(ready) \in Messages /\ Grounded(Head(ready))
  BY <1>1, HeadTailProperties DEF HasReasons, MessagesAreGrounded, GroundedMessages
<1>2. CASE WebStep
  <2>1. PICK q \in Requests : DeploySave(q) \/ EditSave(q)
    BY <1>2 DEF WebStep, DeployRead, EditRead, DeployCharge, DeployLaunch,
                RequestDies
  <2>2. request[q].step \in {"save", "edit"}
    BY <2>1 DEF DeploySave, EditSave, Step
  <2>3. request[q].contract = c
    BY <2>1 DEF DeploySave, EditSave, TypeOK
  <2> QED
    BY <2>2, <2>3
<1>3. CASE HandleLaunch
  <2>1. ASSUME NEW d \in Contracts, LaunchNotCompiled(d) PROVE FALSE
    BY <2>1 DEF LaunchNotCompiled, Launchable, TypeOK
  <2>2. CASE DeployRaises \/ RecordTransaction
    <3>1. handling.contract \in Contracts /\ state[handling.contract] # "ACTIVE"
      BY <2>2, RaisesOrRecords DEF HasReasons, InHandForALaunch, ClosedStates
    <3> QED
      BY <2>2, <3>1 DEF DeployRaises, RecordTransaction, TypeOK
  <2> QED
    BY <1>3, <2>1, <2>2
    DEF HandleLaunch, LaunchPostponed, LaunchIgnored, LaunchCompile,
        PrepareWhiteLabel, SendTransaction
<1>4. CASE HandleReport
  <2>1. ASSUME NEW d \in Contracts, TransactionFailed(d)
        PROVE  state'[c] = "POSTPONED" /\ TxWith(c, "failed")
    <3>1. /\ ready # << >> /\ Head(ready).type = "transactionCompleted"
          /\ state' = [state EXCEPT ![d] = "POSTPONED"]
      BY <2>1, Receivable DEF TransactionFailed
    <3>2. c = d /\ state'[c] = "POSTPONED"
      BY <3>1 DEF TypeOK
    <3>3. PICK r \in RowsOf(Head(ready).hash) : Owner(r) = d
      BY <2>1 DEF TransactionFailed
    <3>4. Head(ready).hash \in Tries /\ chain[Head(ready).hash].status = "failed"
      BY <1>1, <3>1 DEF Grounded, Messages
    <3>5. r \in Tries /\ chain[Head(ready).hash].contract = d
      BY <3>3, <3>4 DEF RowsOf, RecordsAgree, RowsAreTrue, Tries, None
    <3> QED
      BY <3>2, <3>4, <3>5 DEF TxWith
  <2>2. ASSUME NEW d \in Contracts, ContractKilled(d)
        PROVE  state'[c] = "KILLED" /\ TxWith(c, "destroyed")
    <3>1. /\ ready # << >> /\ Head(ready).type = "killed"
          /\ Owner(Head(ready).eth) = d
          /\ state' = [state EXCEPT ![d] = "KILLED"]
      BY <2>2, Receivable DEF ContractKilled
    <3>2. c = d /\ state'[c] = "KILLED"
      BY <3>1 DEF TypeOK
    <3> QED
      BY <1>1, <3>1, <3>2, NoOneIsNotAContract DEF Grounded
  <2>3. ASSUME NEW d \in Contracts, DeployedRejected(d) \/ DeployedAccepted(d)
        PROVE  FALSE
    BY <2>3 DEF DeployedRejected, DeployedAccepted, TypeOK
  <2>4. ASSUME NEW d \in Contracts, DeployedNotMailed(d)
        PROVE  state'[c] = "POSTPONED" /\ handling = Mailing(c) /\ MailFails
    BY <2>4 DEF DeployedNotMailed, TypeOK
  <2> QED
    BY <1>4, <2>1, <2>2, <2>3, <2>4
    DEF HandleReport, DeployedUnknown, TransactionUnknown, KilledUnknown,
        DeployedIgnored, DeployedPostponed, DeployedMailed
<1>5. CASE Fault \/ NetworkStep \/ UNCHANGED vars
  BY <1>5 DEF Fault, ReceiverRestart, LaunchRequeued, NetworkStep, Mine,
              Report, Destroy, vars
<1> QED
  BY <1>2, <1>3, <1>4, <1>5 DEF Next

LEMMA AlwaysReasons == Spec => [](HasReasons /\ Paid)
<1>1. Init => HasReasons /\ Paid
  BY ReasonsInit, PaidInit
<1>2. TypeOK /\ RecordsAgree /\ (HasReasons /\ Paid) /\ [Next]_vars
        => (HasReasons /\ Paid)'
  BY ReasonsStay, PaidStays
<1> QED
  BY <1>1, <1>2, TypeCorrect, RecordsAlwaysAgree, PTL DEF Spec

(***************************************************************************)
(* A contract stops being ACTIVE only because it destroyed itself, because *)
(* a transaction sent for it failed, because a mail about its deployment   *)
(* is refused, or because a web request writes back the row it had read    *)
(* before: never because of a launch that is repeated or redelivered, nor  *)
(* of a message about somebody else's contract.                            *)
(***************************************************************************)
THEOREM ActiveAlwaysKept == Spec => ActiveIsKept
<1> DEFINE Kept ==
      \A c \in Contracts : state[c] = "ACTIVE" /\ state'[c] # "ACTIVE" =>
        \/ state'[c] = "KILLED" /\ TxWith(c, "destroyed")
        \/ state'[c] = "POSTPONED" /\ TxWith(c, "failed")
        \/ state'[c] = "POSTPONED" /\ handling = Mailing(c) /\ MailFails
        \/ \E q \in Requests : /\ request[q].contract = c
                               /\ request[q].step \in {"save", "edit"}
<1>1. TypeOK /\ RecordsAgree /\ (HasReasons /\ Paid) /\ [Next]_vars => [Kept]_vars
  BY LeavesActive
<1> QED
  BY <1>1, TypeCorrect, RecordsAlwaysAgree, AlwaysReasons, PTL
  DEF Spec, ActiveIsKept
-----------------------------------------------------------------------------
(***************************************************************************)
(* DeployQueue implements DeploymentPromise.  Most steps are stutters of   *)
(* the promise, or take a contract from the active ones.                   *)
(***************************************************************************)
LEMMA OnNetworkKept ==
  ASSUME UNCHANGED chain
  PROVE  OnNetwork' = OnNetwork
BY DEF OnNetwork, TxWith

\* A contract is given another state than ACTIVE, and nothing else is seen.
LEMMA SeenInactive ==
  ASSUME TypeOK, NEW c \in Contracts, NEW s, s # "ACTIVE",
         state' = [state EXCEPT ![c] = s], UNCHANGED <<charged, unpaid, launches, chain>>
  PROVE  Promise!PromiseNext
<1>1. {d \in Contracts : state'[d] = "ACTIVE"} =
        {d \in Contracts : state[d] = "ACTIVE"} \ {c}
  BY DEF TypeOK
<1>2. Promise!Deactivate(c)
  BY <1>1, OnNetworkKept DEF Promise!Deactivate
<1> QED
  BY <1>2 DEF Promise!PromiseNext

LEMMA SeenUnmoved ==
  ASSUME UNCHANGED <<state, charged, unpaid, launches>>, OnNetwork' = OnNetwork
  PROVE  UNCHANGED Promise!pvars
BY DEF Promise!pvars

LEMMA SeenWeb ==
  ASSUME TypeOK, Paid, WebStep
  PROVE  [Promise!PromiseNext]_(Promise!pvars)
<1>1. chain' = chain
  BY DEF WebStep, DeployRead, EditRead, DeployCharge, DeploySave, DeployLaunch,
         EditSave, RequestDies, network
<1>2. ASSUME NEW q \in Requests, DeployCharge(q) PROVE Promise!PromiseNext
  <2>1. request[q].contract \in Contracts
    BY <1>2, Stepping DEF DeployCharge, Step
  <2>2. Promise!Charge(request[q].contract) \/ Promise!Waive(request[q].contract)
    BY <1>1, <1>2, OnNetworkKept DEF DeployCharge, Promise!Charge, Promise!Waive
  <2> QED
    BY <2>1, <2>2 DEF Promise!PromiseNext
<1>3. ASSUME NEW q \in Requests, DeployLaunch(q) PROVE Promise!PromiseNext
  <2> DEFINE c == request[q].contract
  <2>1. c \in Contracts
    BY <1>3, Stepping DEF DeployLaunch, Step
  <2>2. /\ launches' = [launches EXCEPT ![c] = @ + 1]
        /\ UNCHANGED <<state, charged, unpaid>>
    BY <1>3 DEF DeployLaunch
  <2>3. launches[c] < charged[c] + unpaid[c]
    <3>1. q \in Owed(c)
      BY <1>3 DEF Owed, DeployLaunch, Step
    <3>2. /\ IsFiniteSet(Owed(c)) /\ Cardinality(Owed(c)) \in Nat
          /\ launches[c] + Cardinality(Owed(c)) <= charged[c] + unpaid[c]
      BY <2>1, FS_CardinalityType DEF Paid
    <3>3. Cardinality(Owed(c)) # 0
      BY <3>1, <3>2, FS_EmptySet
    <3> QED
      BY <2>1, <3>2, <3>3 DEF TypeOK
  <2>4. Promise!Order(c)
    BY <1>1, <2>2, <2>3, OnNetworkKept DEF Promise!Order
  <2> QED
    BY <2>1, <2>4 DEF Promise!PromiseNext
<1>4. ASSUME NEW q \in Requests, DeploySave(q) \/ EditSave(q)
      PROVE  Promise!PromiseNext
  <2>1. request[q].contract \in Contracts
    BY <1>4, Stepping DEF DeploySave, EditSave, Step
  <2>2. PICK s \in States \ {"ACTIVE"} :
          state' = [state EXCEPT ![request[q].contract] = s]
    BY <1>4 DEF DeploySave, EditSave, States
  <2>3. UNCHANGED <<charged, unpaid, launches>>
    BY <1>4 DEF DeploySave, EditSave, web
  <2> QED
    BY <1>1, <2>1, <2>2, <2>3, SeenInactive
<1>5. CASE UNCHANGED <<state, charged, unpaid, launches>>
  BY <1>1, <1>5, OnNetworkKept, SeenUnmoved
<1> QED
  BY <1>2, <1>3, <1>4, <1>5
  DEF WebStep, DeployRead, EditRead, RequestDies

LEMMA SeenLaunch ==
  ASSUME TypeOK, RecordsAgree, HandleLaunch
  PROVE  [Promise!PromiseNext]_(Promise!pvars)
<1> USE DEF rows, network, web
<1>1. ASSUME NEW c \in Contracts, LaunchNotCompiled(c) PROVE Promise!PromiseNext
  BY <1>1, SeenInactive DEF LaunchNotCompiled
<1>2. CASE DeployRaises \/ RecordTransaction
  <2>1. handling.contract \in Contracts
    BY <1>2, RaisesOrRecords
  <2>2. PICK s \in States \ {"ACTIVE"} :
          state' = [state EXCEPT ![handling.contract] = s]
    BY <1>2 DEF DeployRaises, RecordTransaction, States
  <2>3. UNCHANGED <<charged, unpaid, launches, chain>>
    BY <1>2 DEF DeployRaises, RecordTransaction
  <2> QED
    BY <2>1, <2>2, <2>3, SeenInactive
<1>3. CASE SendTransaction
  <2>1. /\ chain[tries].status = "unsent" /\ tries \in Tries
        /\ chain' = [chain EXCEPT ![tries] =
                       [contract |-> handling.contract, status |-> "pending"]]
    BY <1>3 DEF SendTransaction, Launching, RecordsAgree, LaunchInHand
  <2>2. \A t \in Tries : \A s \in {"mined", "destroyed"} : \A c \in Contracts :
          chain'[t].contract = c /\ chain'[t].status = s
            <=> chain[t].contract = c /\ chain[t].status = s
    BY <2>1 DEF TypeOK
  <2>3. OnNetwork' = OnNetwork
    BY <2>2 DEF OnNetwork, TxWith
  <2> QED
    BY <1>3, <2>3, SeenUnmoved DEF SendTransaction
<1>4. ASSUME ~ \E c \in Contracts : LaunchNotCompiled(c),
             ~DeployRaises, ~RecordTransaction, ~SendTransaction
      PROVE  UNCHANGED <<state, charged, unpaid, launches, chain>>
  BY <1>4 DEF HandleLaunch, LaunchPostponed, LaunchIgnored, LaunchCompile,
              PrepareWhiteLabel
<1> QED
  BY <1>1, <1>2, <1>3, <1>4, OnNetworkKept, SeenUnmoved

LEMMA SeenReport ==
  ASSUME TypeOK, RecordsAgree, HandleReport
  PROVE  [Promise!PromiseNext]_(Promise!pvars)
<1> USE DEF rows, network, web
<1>1. UNCHANGED <<charged, unpaid, launches, chain>>
  BY DEF HandleReport, DeployedUnknown, TransactionUnknown, KilledUnknown,
         DeployedIgnored, DeployedPostponed, DeployedRejected,
         DeployedAccepted, DeployedMailed, DeployedNotMailed,
         TransactionFailed, ContractKilled
<1>2. ASSUME NEW c \in Contracts, NEW s \in States \ {"ACTIVE"},
             state' = [state EXCEPT ![c] = s]
      PROVE  Promise!PromiseNext
  BY <1>1, <1>2, SeenInactive
<1>3. ASSUME NEW c \in Contracts, DeployedAccepted(c),
             state' = [state EXCEPT ![c] = "ACTIVE"]
      PROVE  Promise!PromiseNext
  <2>1. c \in OnNetwork
    <3>1. /\ Head(ready) \in TruthfulMessages /\ Head(ready).type = "deployed"
          /\ Head(ready).success /\ Owner(Head(ready).eth) = c
      BY <1>3, Receivable, HeadTailProperties
      DEF DeployedAccepted, Rejected, RecordsAgree, ReportsAreTrue
    <3>2. /\ Head(ready).address \in Tries
          /\ chain[Head(ready).address].contract = c
          /\ chain[Head(ready).address].status \in {"mined", "destroyed"}
      BY <3>1, NoOneIsNotAContract DEF TruthfulMessages, Truthful, Messages
    <3> QED
      BY <3>2 DEF OnNetwork, TxWith
  <2>2. {d \in Contracts : state'[d] = "ACTIVE"} =
          {d \in Contracts : state[d] = "ACTIVE"} \cup {c}
    BY <1>3 DEF TypeOK
  <2>3. Promise!Activate(c)
    BY <1>1, <2>1, <2>2, OnNetworkKept DEF Promise!Activate
  <2> QED
    BY <2>3 DEF Promise!PromiseNext
<1>4. \/ state' = state
      \/ \E c \in Contracts : \E s \in States \ {"ACTIVE"} :
           state' = [state EXCEPT ![c] = s]
      \/ \E c \in Contracts :
           DeployedAccepted(c) /\ state' = [state EXCEPT ![c] = "ACTIVE"]
  BY DEF HandleReport, DeployedUnknown, TransactionUnknown, KilledUnknown,
         DeployedIgnored, DeployedPostponed, DeployedRejected,
         DeployedAccepted, DeployedMailed, DeployedNotMailed,
         TransactionFailed, ContractKilled, States
<1> QED
  BY <1>1, <1>2, <1>3, <1>4, OnNetworkKept, SeenUnmoved

LEMMA SeenNetwork ==
  ASSUME TypeOK, HasReasons, NetworkStep
  PROVE  [Promise!PromiseNext]_(Promise!pvars)
<1>1. PICK t \in Tries : Mine(t) \/ Report(t) \/ Destroy(t)
  BY DEF NetworkStep
<1>2. UNCHANGED <<state, charged, unpaid, launches>>
  BY <1>1 DEF Mine, Report, Destroy, web
<1> DEFINE c == chain[t].contract
<1>3. CASE Mine(t) /\ chain'[t].status = "mined"
  <2>1. c \in Contracts /\ launches[c] > 0
    BY <1>3 DEF Mine, HasReasons, SentForALaunch
  <2>2. /\ chain'[t].contract = c
        /\ \A u \in Tries : u # t => chain'[u] = chain[u]
        /\ chain[t].status = "pending"
    BY <1>3 DEF Mine, TypeOK
  <2>3. OnNetwork' = OnNetwork \cup {c}
    BY <1>3, <2>1, <2>2 DEF OnNetwork, TxWith
  <2>4. Promise!Create(c)
    BY <1>2, <2>1, <2>3 DEF Promise!Create
  <2> QED
    BY <2>1, <2>4 DEF Promise!PromiseNext
<1>4. CASE Mine(t) /\ chain'[t].status # "mined"
  <2>1. /\ chain[t].status = "pending" /\ chain'[t].status = "failed"
        /\ \A u \in Tries : u # t => chain'[u] = chain[u]
    BY <1>4 DEF Mine, TypeOK
  <2>2. OnNetwork' = OnNetwork
    BY <2>1 DEF OnNetwork, TxWith
  <2> QED
    BY <1>2, <2>2, SeenUnmoved
<1>5. CASE Report(t)
  BY <1>2, <1>5, OnNetworkKept, SeenUnmoved DEF Report
<1>6. CASE Destroy(t)
  <2>1. /\ chain[t].status = "mined" /\ chain'[t].status = "destroyed"
        /\ chain'[t].contract = c
        /\ \A u \in Tries : u # t => chain'[u] = chain[u]
    BY <1>6 DEF Destroy, TypeOK
  <2>2. OnNetwork' = OnNetwork
    BY <2>1 DEF OnNetwork, TxWith
  <2> QED
    BY <1>2, <2>2, SeenUnmoved
<1> QED
  BY <1>1, <1>3, <1>4, <1>5, <1>6

LEMMA SeenStep ==
  ASSUME TypeOK, RecordsAgree, HasReasons, Paid, [Next]_vars
  PROVE  [Promise!PromiseNext]_(Promise!pvars)
<1>1. CASE Fault \/ UNCHANGED vars
  BY <1>1, OnNetworkKept, SeenUnmoved
  DEF Fault, ReceiverRestart, LaunchRequeued, vars, network, web
<1> QED
  BY <1>1, SeenWeb, SeenLaunch, SeenReport, SeenNetwork DEF Next

LEMMA SeenInit == Init => Promise!PromiseInit
<1> SUFFICES ASSUME Init PROVE Promise!PromiseInit
  OBVIOUS
<1>1. OnNetwork = {}
  BY DEF Init, OnNetwork, TxWith
<1>2. {c \in Contracts : state[c] = "ACTIVE"} = {}
  BY DEF Init
<1> QED
  BY <1>1, <1>2 DEF Init, Promise!PromiseInit

(***************************************************************************)
(* Whatever the order of requests, messages, crashes and reports: nothing  *)
(* is launched that create_payment was not called for, whether it took the *)
(* price or found the balance too low; nothing is on the network that was  *)
(* not launched, nothing is ACTIVE that is not on the network.             *)
(***************************************************************************)
THEOREM PromiseKept == Spec => KeepsPromise
BY SeenInit, SeenStep, TypeCorrect, RecordsAlwaysAgree, AlwaysReasons, PTL
DEF Spec, KeepsPromise, Promise!PromiseSpec
-----------------------------------------------------------------------------
(***************************************************************************)
(* The lock and what it waits for.  First what the queue operations do to  *)
(* a message that is in the queue.                                         *)
(***************************************************************************)
LEMMA InAppended ==
  ASSUME NEW S, NEW q \in Seq(S), NEW x \in S, NEW m
  PROVE  /\ InQueue(x, Append(q, x))
         /\ InQueue(m, q) => InQueue(m, Append(q, x))
<1>1. /\ Len(q) \in Nat /\ Len(Append(q, x)) = Len(q) + 1
      /\ \A i \in 1..Len(q) : Append(q, x)[i] = q[i]
      /\ Append(q, x)[Len(q) + 1] = x
  BY AppendProperties, LenProperties
<1> QED
  BY <1>1 DEF InQueue

LEMMA InGrown ==
  ASSUME NEW S, NEW q \in Seq(S), NEW p,
         p = q \/ \E x \in S : p = Append(q, x),
         NEW m, InQueue(m, q)
  PROVE  InQueue(m, p)
BY InAppended

LEMMA InTail ==
  ASSUME NEW S, NEW q \in Seq(S), q # << >>, NEW m, InQueue(m, q), m # Head(q)
  PROVE  InQueue(m, Tail(q))
<1>1. /\ Len(q) \in Nat /\ Len(Tail(q)) = Len(q) - 1
      /\ \A i \in 1..Len(Tail(q)) : Tail(q)[i] = q[i + 1]
  BY HeadTailProperties, LenProperties
<1>2. PICK i \in 1..Len(q) : q[i] = m
  BY DEF InQueue
<1>3. Head(q) = q[1]
  OBVIOUS
<1>4. i # 1 /\ i - 1 \in 1..Len(Tail(q)) /\ (i - 1) + 1 = i
  BY <1>1, <1>2, <1>3
<1> QED
  BY <1>1, <1>2, <1>4 DEF InQueue

LEMMA InConcat ==
  ASSUME NEW S, NEW p \in Seq(S), NEW q \in Seq(S), NEW m
  PROVE  InQueue(m, p) \/ InQueue(m, q) => InQueue(m, p \o q)
<1>1. /\ Len(p) \in Nat /\ Len(q) \in Nat
      /\ Len(p \o q) = Len(p) + Len(q)
      /\ \A i \in 1..(Len(p) + Len(q)) :
           (p \o q)[i] = IF i <= Len(p) THEN p[i] ELSE q[i - Len(p)]
  BY ConcatProperties, LenProperties
<1>2. ASSUME NEW i \in 1..Len(p), p[i] = m PROVE InQueue(m, p \o q)
  BY <1>1, <1>2 DEF InQueue
<1>3. ASSUME NEW i \in 1..Len(q), q[i] = m PROVE InQueue(m, p \o q)
  <2>1. /\ i + Len(p) \in 1..(Len(p) + Len(q)) /\ ~(i + Len(p) <= Len(p))
        /\ (i + Len(p)) - Len(p) = i
    BY <1>1
  <2> QED
    BY <1>1, <1>3, <2>1 DEF InQueue
<1> QED
  BY <1>2, <1>3 DEF InQueue

LEMMA InRequeued ==
  ASSUME NEW S, NEW q \in Seq(S), q # << >>, NEW m, InQueue(m, q)
  PROVE  InQueue(m, Append(Tail(q), Head(q)))
<1>1. Tail(q) \in Seq(S) /\ Head(q) \in S
  BY HeadTailProperties
<1>2. CASE m = Head(q)
  BY <1>1, <1>2, InAppended
<1>3. CASE m # Head(q)
  BY <1>1, <1>3, InTail, InAppended
<1> QED
  BY <1>2, <1>3

(***************************************************************************)
(* Awaited(c) in three parts: a launch in hand, a message about c in the   *)
(* queue, or a transaction whose outcome is still to be reported.          *)
(***************************************************************************)
Own(c) == {r \in Tries : Owner(r) = c /\ ethContract[r].tx_hash \in Tries}

About(m, c) ==
  \/ m = Launch(c)
  \/ \E r \in Own(c) :
       \/ \E ok \in BOOLEAN : m = Deployed(r, ethContract[r].tx_hash, ok)
       \/ m = TxFailed(ethContract[r].tx_hash)

InHand(c) == Launching /\ handling.contract = c

OnItsWay(c) == \E m \in Messages : About(m, c) /\ InQueue(m, ready)

Undecided(c) ==
  \E r \in Own(c) :
    /\ ethContract[r].tx_hash \notin reported
    /\ chain[ethContract[r].tx_hash].status # "unsent"

LEMMA AwaitedIs ==
  ASSUME NEW c \in Contracts
  PROVE  Awaited(c) <=> InHand(c) \/ OnItsWay(c) \/ Undecided(c)
<1>1. ASSUME Awaited(c) PROVE InHand(c) \/ OnItsWay(c) \/ Undecided(c)
  <2>1. CASE InQueue(Launch(c), ready)
    BY <2>1, MessagesTyped DEF OnItsWay, About
  <2>2. ASSUME NEW r \in Tries, NEW t \in Tries,
               Owner(r) = c, ethContract[r].tx_hash = t,
               \/ \E ok \in BOOLEAN : InQueue(Deployed(r, t, ok), ready)
               \/ InQueue(TxFailed(t), ready)
        PROVE  OnItsWay(c)
    <3>1. r \in Own(c)
      BY <2>2 DEF Own
    <3> QED
      BY <2>2, <3>1, MessagesTyped DEF OnItsWay, About
  <2>3. ASSUME NEW r \in Tries, NEW t \in Tries,
               Owner(r) = c, ethContract[r].tx_hash = t,
               t \notin reported /\ chain[t].status # "unsent"
        PROVE  Undecided(c)
    BY <2>3 DEF Own, Undecided
  <2> QED
    BY <1>1, <2>1, <2>2, <2>3 DEF Awaited, InHand
<1>2. CASE InHand(c)
  BY <1>2 DEF InHand, Awaited
<1>3. CASE OnItsWay(c)
  BY <1>3 DEF OnItsWay, About, Own, Awaited
<1>4. CASE Undecided(c)
  BY <1>4 DEF Undecided, Own, Awaited
<1> QED
  BY <1>1, <1>2, <1>3, <1>4

LEMMA AwaitedThen ==
  ASSUME NEW c \in Contracts, InHand(c)' \/ OnItsWay(c)' \/ Undecided(c)'
  PROVE  Awaited(c)'
<1>1. CASE InHand(c)'
  BY <1>1 DEF InHand, Awaited
<1>2. CASE OnItsWay(c)'
  BY <1>2 DEF OnItsWay, About, Own, Awaited
<1>3. CASE Undecided(c)'
  BY <1>3 DEF Undecided, Own, Awaited
<1> QED
  BY <1>1, <1>2, <1>3

\* The rows of c stay c's, with the transactions they record.
RowsLast(c) ==
  \A r \in Tries : Owner(r) = c =>
    /\ ethContract'[r].contract = c
    /\ ethContract'[r].tx_hash = ethContract[r].tx_hash

LEMMA MessagesLast ==
  ASSUME NEW c \in Contracts, RowsLast(c), OnItsWay(c),
         \A m \in Messages : About(m, c) /\ InQueue(m, ready) => InQueue(m, ready')
  PROVE  OnItsWay(c)'
<1>1. PICK m \in Messages : About(m, c) /\ InQueue(m, ready)
  BY DEF OnItsWay
<1>2. About(m, c)'
  BY <1>1 DEF About, Own, RowsLast, Owner
<1> QED
  BY <1>1, <1>2 DEF OnItsWay

LEMMA UndecidedLasts ==
  ASSUME NEW c \in Contracts, RowsLast(c), StoryGrows, reported' = reported,
         Undecided(c)
  PROVE  Undecided(c)'
BY DEF Undecided, Own, RowsLast, StoryGrows, Owner

\* A message that is not about c is handled.
LEMMA OthersHandled ==
  ASSUME TypeOK, NEW c \in Contracts, Awaited(c), RowsLast(c), StoryGrows,
         handling = Idle, ready # << >>, ready' = Tail(ready),
         reported' = reported, ~About(Head(ready), c)
  PROVE  Awaited(c)'
<1>1. \A m \in Messages : About(m, c) /\ InQueue(m, ready) => InQueue(m, ready')
  BY InTail DEF TypeOK
<1>2. OnItsWay(c) => OnItsWay(c)'
  BY <1>1, MessagesLast
<1>3. Undecided(c) => Undecided(c)'
  BY UndecidedLasts
<1> QED
  BY <1>2, <1>3, AwaitedIs, AwaitedThen DEF InHand, Launching, Idle

\* Messages are only added, and the launch in hand stays there.
LEMMA OnlyMore ==
  ASSUME TypeOK, NEW c \in Contracts, Awaited(c), RowsLast(c), StoryGrows,
         InHand(c) => InHand(c)', reported' = reported,
         \A m \in Messages : InQueue(m, ready) => InQueue(m, ready')
  PROVE  Awaited(c)'
<1>1. OnItsWay(c) => OnItsWay(c)'
  BY MessagesLast
<1>2. Undecided(c) => Undecided(c)'
  BY UndecidedLasts
<1> QED
  BY <1>1, <1>2, AwaitedIs, AwaitedThen
-----------------------------------------------------------------------------
(***************************************************************************)
(* What the lock rests on: an ACTIVE contract does not hold it, a reported *)
(* transaction was sent, and the transaction just sent is neither recorded *)
(* nor reported.                                                           *)
(***************************************************************************)
ActiveIsFree == \A c \in Contracts : state[c] = "ACTIVE" => lockedBy # c

ReportedWasSent == \A t \in reported : chain[t].status # "unsent"

SentIsUnreported ==
  handling.step = "sent" =>
    /\ tries \notin reported
    /\ \A r \in Tries : ethContract[r].tx_hash # tries

LockIsGrounded == ActiveIsFree /\ ReportedWasSent /\ SentIsUnreported

LEMMA GroundedInit == Init => LockIsGrounded
BY NoOneIsNotAContract
DEF Init, LockIsGrounded, ActiveIsFree, ReportedWasSent, SentIsUnreported, Idle

\* How a step moves the lock.
LEMMA LockMoves ==
  ASSUME TypeOK, [Next]_vars
  PROVE  \/ lockedBy' \in {lockedBy, NoOne}
         \/ \E c \in Contracts : /\ lockedBy' = c /\ state'[c] # "ACTIVE"
                                 /\ state'[c] \in {state[c], "POSTPONED"}
                                 /\ MailFails \/ LaunchCompile(c)
<1> USE DEF LockValues, Blocking, TakeOffFor, TakeOff, PostponedLock
<1>1. CASE WebStep
  BY <1>1 DEF WebStep, DeployRead, EditRead, DeployCharge, DeploySave,
              DeployLaunch, EditSave, RequestDies
<1>2. CASE HandleLaunch
  <2>1. ASSUME NEW c \in Contracts, LaunchPostponed(c) PROVE
          \/ lockedBy' \in {lockedBy, NoOne}
          \/ lockedBy' = c /\ state' = state /\ state[c] = "POSTPONED" /\ MailFails
    BY <2>1 DEF LaunchPostponed, AlreadyPostponed
  <2>2. ASSUME NEW c \in Contracts, LaunchIgnored(c) PROVE lockedBy' = NoOne
    BY <2>2 DEF LaunchIgnored
  <2>3. ASSUME NEW c \in Contracts, LaunchNotCompiled(c) PROVE
          \/ lockedBy' \in {lockedBy, NoOne}
          \/ lockedBy' = c /\ state'[c] = "POSTPONED" /\ MailFails
    BY <2>3, MailFailsIsBool DEF LaunchNotCompiled, TypeOK
  <2>4. ASSUME NEW c \in Contracts, LaunchCompile(c) PROVE
          \/ lockedBy' = lockedBy
          \/ lockedBy' = c /\ state' = state /\ state[c] # "ACTIVE"
    BY <2>4 DEF LaunchCompile, Launchable
  <2>5. CASE DeployRaises
    BY <2>5 DEF DeployRaises
  <2>6. CASE PrepareWhiteLabel \/ SendTransaction \/ RecordTransaction
    BY <2>6 DEF PrepareWhiteLabel, SendTransaction, RecordTransaction
  <2> QED
    BY <1>2, <2>1, <2>2, <2>3, <2>4, <2>5, <2>6 DEF HandleLaunch
<1>3. CASE HandleReport
  BY <1>3 DEF HandleReport, DeployedUnknown, TransactionUnknown, KilledUnknown,
              DeployedIgnored, DeployedPostponed, DeployedRejected,
              DeployedAccepted, DeployedMailed, DeployedNotMailed,
              TransactionFailed, ContractKilled,
              AlreadyPostponed
<1>4. CASE Fault \/ NetworkStep \/ UNCHANGED vars
  BY <1>4 DEF Fault, ReceiverRestart, LaunchRequeued, NetworkStep, Mine,
              Report, Destroy, vars
<1> QED
  BY <1>1, <1>2, <1>3, <1>4 DEF Next

\* A contract becomes ACTIVE only when its address is accepted.
LEMMA BecomesActive ==
  ASSUME TypeOK, [Next]_vars, NEW c \in Contracts,
         state[c] # "ACTIVE", state'[c] = "ACTIVE"
  PROVE  DeployedAccepted(c)
<1>1. CASE WebStep
  BY <1>1, WebOpensOnly DEF ClosedStates
<1>2. CASE HandleLaunch
  BY <1>2 DEF HandleLaunch, LaunchPostponed, LaunchIgnored, LaunchNotCompiled,
              LaunchCompile, PrepareWhiteLabel, SendTransaction, DeployRaises,
              RecordTransaction, TypeOK
<1>3. CASE HandleReport
  BY <1>3 DEF HandleReport, DeployedUnknown, TransactionUnknown, KilledUnknown,
              DeployedIgnored, DeployedPostponed, DeployedRejected,
              DeployedAccepted, DeployedMailed, DeployedNotMailed,
              TransactionFailed, ContractKilled, TypeOK
<1>4. CASE Fault \/ NetworkStep \/ UNCHANGED vars
  BY <1>4 DEF Fault, ReceiverRestart, LaunchRequeued, NetworkStep, Mine,
              Report, Destroy, vars
<1> QED
  BY <1>1, <1>2, <1>3, <1>4 DEF Next

\* Only the scanner reports, and only a transaction that a row records.
LEMMA ReportsMove ==
  ASSUME [Next]_vars, NEW t \in reported', t \notin reported
  PROVE  t \in Tries /\ Report(t)
<1>1. CASE WebStep
  BY <1>1 DEF WebStep, DeployRead, EditRead, DeployCharge, DeploySave,
              DeployLaunch, EditSave, RequestDies, network
<1>2. CASE HandleLaunch
  BY <1>2 DEF HandleLaunch, LaunchPostponed, LaunchIgnored, LaunchNotCompiled,
              LaunchCompile, PrepareWhiteLabel, SendTransaction, DeployRaises,
              RecordTransaction, network
<1>3. CASE HandleReport
  BY <1>3 DEF HandleReport, DeployedUnknown, TransactionUnknown, KilledUnknown,
              DeployedIgnored, DeployedPostponed, DeployedRejected,
              DeployedAccepted, DeployedMailed, DeployedNotMailed,
              TransactionFailed, ContractKilled, network
<1>4. CASE Fault \/ UNCHANGED vars
  BY <1>4 DEF Fault, ReceiverRestart, LaunchRequeued, vars, network
<1>5. CASE NetworkStep
  <2>1. PICK u \in Tries : Mine(u) \/ Report(u) \/ Destroy(u)
    BY <1>5 DEF NetworkStep
  <2>2. Report(u) /\ t = u
    BY <2>1 DEF Mine, Report, Destroy
  <2> QED
    BY <2>2
<1> QED
  BY <1>1, <1>2, <1>3, <1>4, <1>5 DEF Next

LEMMA SentStays ==
  ASSUME TypeOK, RecordsAgree, LockIsGrounded, [Next]_vars
  PROVE  SentIsUnreported'
<1> SUFFICES ASSUME handling'.step = "sent"
             PROVE  /\ tries' \notin reported'
                    /\ \A r \in Tries : ethContract'[r].tx_hash # tries'
  BY DEF SentIsUnreported
<1>1. Launching'
  BY DEF Launching
<1>2. CASE SendTransaction
  <2>1. /\ tries' = tries /\ ethContract' = ethContract /\ reported' = reported
        /\ Launching /\ handling.step = "compiled"
    BY <1>2 DEF SendTransaction, rows, Launching
  <2>2. chain[tries].status = "unsent" /\ tries \in Tries
    BY <2>1 DEF RecordsAgree, LaunchInHand
  <2>3. tries \notin reported
    BY <2>2 DEF LockIsGrounded, ReportedWasSent
  <2>4. \A r \in Tries : ethContract[r].tx_hash # tries
    BY <2>2 DEF RecordsAgree, RowsAreTrue, Tries, None
  <2> QED
    BY <2>1, <2>3, <2>4
<1>3. CASE handling' = handling /\ (WebStep \/ state' = state)
  <2>1. Launching /\ handling.step = "sent" /\ handling # Idle
        /\ \A c \in Contracts : handling # Mailing(c)
    BY <1>1, <1>3 DEF Launching, Idle, Mailing
  <2>2. UNCHANGED <<tries, ethContract>>
    <3>1. CASE WebStep
      BY <3>1 DEF WebStep, DeployRead, EditRead, DeployCharge, DeploySave,
                  DeployLaunch, EditSave, RequestDies, rows
    <3>2. CASE HandleLaunch
      BY <1>3, <2>1, <3>2
      DEF HandleLaunch, LaunchPostponed, LaunchIgnored, LaunchNotCompiled,
          LaunchCompile, PrepareWhiteLabel, SendTransaction, DeployRaises,
          RecordTransaction, Receiving, rows
    <3>3. CASE HandleReport
      BY <2>1, <3>3
      DEF HandleReport, DeployedUnknown, TransactionUnknown, KilledUnknown,
          DeployedIgnored, DeployedPostponed, DeployedRejected,
          DeployedAccepted, DeployedMailed, DeployedNotMailed,
          TransactionFailed, ContractKilled, Receiving
    <3>4. CASE Fault \/ NetworkStep \/ UNCHANGED vars
      BY <3>4 DEF Fault, ReceiverRestart, LaunchRequeued, NetworkStep, Mine,
                  Report, Destroy, vars, rows
    <3> QED
      BY <3>1, <3>2, <3>3, <3>4 DEF Next
  <2>3. /\ tries \notin reported
        /\ \A r \in Tries : ethContract[r].tx_hash # tries
    BY <2>1 DEF LockIsGrounded, SentIsUnreported
  <2>4. tries \notin reported'
    BY <2>3, ReportsMove DEF Report, RowsOf
  <2> QED
    BY <2>2, <2>3, <2>4
<1>4. ASSUME NEW c \in Contracts, LaunchCompile(c) PROVE FALSE
  BY <1>4 DEF LaunchCompile
<1> QED
  BY <1>1, <1>2, <1>3, <1>4, HandlingMoves

LEMMA GroundStays ==
  ASSUME TypeOK, RecordsAgree, LockIsGrounded, [Next]_vars
  PROVE  LockIsGrounded'
<1>1. StoryGrows
  BY StoryAlwaysGrows
<1>2. ASSUME NEW c \in Contracts, state'[c] = "ACTIVE" PROVE lockedBy' # c
  <2>1. CASE state[c] = "ACTIVE"
    BY <1>2, <2>1, LockMoves, NoOneIsNotAContract DEF LockIsGrounded, ActiveIsFree
  <2>2. CASE state[c] # "ACTIVE"
    BY <1>2, <2>2, BecomesActive, NoOneIsNotAContract DEF DeployedAccepted, TakeOff
  <2> QED
    BY <2>1, <2>2
<1>3. ASSUME NEW t \in reported' PROVE chain'[t].status # "unsent"
  <2>1. CASE t \in reported
    BY <1>1, <2>1 DEF StoryGrows, LockIsGrounded, ReportedWasSent, TypeOK
  <2>2. CASE t \notin reported
    BY <2>2, ReportsMove DEF Report
  <2> QED
    BY <2>1, <2>2
<1> QED
  BY <1>2, <1>3, SentStays DEF LockIsGrounded, ActiveIsFree, ReportedWasSent
-----------------------------------------------------------------------------
(***************************************************************************)
(* The lock that c keeps stays awaited, step by step.                      *)
(***************************************************************************)
\* What releases the lock is c's own: a launch of another contract, and a
\* report about another's row, are not about c.
LEMMA LaunchIsAbout ==
  ASSUME NEW c \in Contracts, NEW d \in Contracts, d # c
  PROVE  ~About(Launch(d), c)
BY DEF About, Launch, Deployed, TxFailed

LEMMA RowsLastUntouched ==
  ASSUME NEW c, UNCHANGED ethContract
  PROVE  RowsLast(c)
BY DEF RowsLast, Owner

\* Without mail errors every way out of the handlers of c's launch lets the
\* lock go.
LEMMA LaunchAwaits ==
  ASSUME MailFails = FALSE, TypeOK, RecordsAgree, LockIsGrounded, StoryGrows,
         NEW c \in Contracts \ WhiteLabel, Awaited(c),
         lockedBy = c, lockedBy' = c, HandleLaunch
  PROVE  Awaited(c)'
<1> USE DEF rows, queue, network
<1>1. c # NoOne
  BY NoOneIsNotAContract
<1>2. ASSUME NEW d \in Contracts, LaunchPostponed(d) \/ LaunchNotCompiled(d)
      PROVE  Awaited(c)'
  <2>1. d # c
    BY <1>1, <1>2 DEF LaunchPostponed, LaunchNotCompiled, AlreadyPostponed,
                      Blocking, TakeOffFor, PostponedLock
  <2>2. /\ handling = Idle /\ ready # << >> /\ ready' = Tail(ready)
        /\ Head(ready) = Launch(d) /\ UNCHANGED <<ethContract, reported>>
    BY <1>2 DEF LaunchPostponed, LaunchNotCompiled, AlreadyPostponed, Receiving,
                Ack, LeaveUnacked
  <2> QED
    BY <2>1, <2>2, LaunchIsAbout, RowsLastUntouched, OthersHandled
<1>3. ASSUME NEW d \in Contracts, LaunchIgnored(d) PROVE FALSE
  BY <1>1, <1>3 DEF LaunchIgnored, TakeOff
<1>4. ASSUME NEW d \in Contracts, LaunchCompile(d) PROVE Awaited(c)'
  <2>1. CASE d = c
    <3>1. InHand(c)'
      BY <1>4, <2>1 DEF LaunchCompile, InHand, Launching
    <3> QED
      BY <3>1, AwaitedThen
  <2>2. CASE d # c
    <3>1. /\ handling = Idle /\ ready # << >> /\ ready' = Tail(ready)
          /\ Head(ready) = Launch(d) /\ reported' = reported
      BY <1>4 DEF LaunchCompile, Receiving
    <3>2. RowsLast(c)
      <4>1. ASSUME NEW r \in Tries, Owner(r) = c PROVE ethContract'[r] = ethContract[r]
        <5>1. r <= tries /\ tries \in Nat
          BY <1>1, <4>1, BoundsAreNat DEF RecordsAgree, RowsAreOwned, TypeOK
        <5>2. r # tries + 1
          BY <5>1 DEF Tries
        <5>3. eth[d] # None => Owner(eth[d]) = d
          BY DEF RecordsAgree, RowsAreOwned
        <5>4. r # eth[d]
          BY <2>2, <4>1, <5>3 DEF Tries, None
        <5> QED
          BY <1>4, <5>2, <5>4 DEF LaunchCompile, Compile
      <4> QED
        BY <4>1 DEF RowsLast, Owner
    <3> QED
      BY <2>2, <3>1, <3>2, LaunchIsAbout, OthersHandled
  <2> QED
    BY <2>1, <2>2
<1>5. CASE PrepareWhiteLabel
  <2>1. ~InHand(c) /\ UNCHANGED <<ready, ethContract, reported>>
    BY <1>5 DEF PrepareWhiteLabel, InHand
  <2> QED
    BY <2>1, RowsLastUntouched, OnlyMore
<1>6. CASE SendTransaction
  <2>1. /\ InHand(c) => InHand(c)'
        /\ UNCHANGED <<ready, ethContract, reported>>
    BY <1>6, Handled DEF SendTransaction, InHand, Launching
  <2> QED
    BY <2>1, RowsLastUntouched, OnlyMore
<1>7. CASE DeployRaises
  <2>1. ~InHand(c)
    BY <1>1, <1>7 DEF DeployRaises, InHand, PostponedLock, TakeOffFor
  <2>2. UNCHANGED <<ready, ethContract, reported>>
    BY <1>7 DEF DeployRaises
  <2> QED
    BY <2>1, <2>2, RowsLastUntouched, OnlyMore
<1>8. CASE RecordTransaction
  <2>1. /\ Launching /\ handling.step = "sent"
        /\ handling.contract \in Contracts
    BY <1>8, RaisesOrRecords DEF RecordTransaction
  <2>2. /\ tries \in Tries /\ eth[handling.contract] \in Tries
        /\ Owner(eth[handling.contract]) = handling.contract
        /\ chain[tries].status # "unsent"
    BY <2>1 DEF RecordsAgree, LaunchInHand, RowsAreOwned, TypeOK
  <2>3. /\ UNCHANGED <<ready, reported, chain>>
        /\ ethContract' = [ethContract EXCEPT ![eth[handling.contract]].tx_hash = tries]
    BY <1>8 DEF RecordTransaction
  <2>4. CASE handling.contract = c
    <3>1. /\ eth[c] \in Own(c)' /\ ethContract'[eth[c]].tx_hash = tries
      BY <2>2, <2>3, <2>4 DEF Own, Owner, TypeOK, EthRows
    <3>2. tries \notin reported
      BY <2>1 DEF LockIsGrounded, SentIsUnreported
    <3> QED
      BY <2>2, <2>3, <3>1, <3>2, AwaitedThen DEF Undecided
  <2>5. CASE handling.contract # c
    <3>1. RowsLast(c)
      BY <2>2, <2>3, <2>5 DEF RowsLast, Owner, TypeOK, EthRows
    <3> QED
      BY <2>3, <2>5, <3>1, OnlyMore DEF InHand
  <2> QED
    BY <2>4, <2>5
<1> QED
  BY <1>2, <1>3, <1>4, <1>5, <1>6, <1>7, <1>8 DEF HandleLaunch

\* A report about one of c's rows lets the lock go.
LEMMA ReportAwaits ==
  ASSUME MailFails = FALSE, TypeOK, RecordsAgree, LockIsGrounded, StoryGrows,
         NEW c \in Contracts, Awaited(c),
         lockedBy = c, lockedBy' = c, HandleReport
  PROVE  Awaited(c)'
<1> USE DEF rows, queue, network
<1>1. c # NoOne /\ state[c] # "ACTIVE"
  BY NoOneIsNotAContract DEF LockIsGrounded, ActiveIsFree
<1>0. CASE \E d \in Contracts : DeployedMailed(d)
  <2>1. /\ UNCHANGED <<ready, ethContract, reported>> /\ ~Launching
    BY <1>0 DEF DeployedMailed, AckLast, Mailing, Launching
  <2> QED
    BY <2>1, RowsLastUntouched, OnlyMore DEF InHand
<1> SUFFICES ASSUME ~ \E d \in Contracts : DeployedMailed(d)
             PROVE  Awaited(c)'
  BY <1>0
<1>2. /\ handling = Idle /\ ready # << >> /\ ready' = Tail(ready)
      /\ reported' = reported
  BY DEF HandleReport, DeployedUnknown, TransactionUnknown, KilledUnknown,
         DeployedIgnored, DeployedPostponed, DeployedRejected, DeployedAccepted,
         DeployedNotMailed, TransactionFailed, ContractKilled, AlreadyPostponed,
         Receiving, Ack, LeaveUnacked
<1>3. RowsLast(c)
  <2>1. ASSUME NEW d \in Contracts, DeployedAccepted(d) PROVE RowsLast(c)
    BY <1>1, <2>1 DEF DeployedAccepted, TakeOff
  <2>2. ASSUME ~ \E d \in Contracts : DeployedAccepted(d) PROVE RowsLast(c)
    BY <2>2, RowsLastUntouched
    DEF HandleReport, DeployedUnknown, TransactionUnknown, KilledUnknown,
        DeployedIgnored, DeployedPostponed, DeployedRejected,
        DeployedNotMailed, TransactionFailed, ContractKilled
  <2> QED
    BY <2>1, <2>2
<1>4. ASSUME About(Head(ready), c) PROVE FALSE
  <2> DEFINE m == Head(ready)
  <2>2. m.type # "launch"
    BY DEF HandleReport, DeployedUnknown, TransactionUnknown, KilledUnknown,
           DeployedIgnored, DeployedPostponed, DeployedRejected,
           DeployedAccepted, DeployedNotMailed, TransactionFailed,
           ContractKilled, Receiving
  <2>3. PICK r \in Own(c) :
          \/ \E ok \in BOOLEAN : m = Deployed(r, ethContract[r].tx_hash, ok)
          \/ m = TxFailed(ethContract[r].tx_hash)
    BY <1>4, <2>2 DEF About, Launch
  <2>4. CASE m.type = "deployed"
    <3>1. Owner(m.eth) = c
      BY <2>3, <2>4 DEF Own, Deployed, TxFailed
    <3>2. \/ DeployedUnknown
          \/ \E d \in Contracts : \/ DeployedIgnored(d) \/ DeployedPostponed(d)
                                 \/ DeployedRejected(d) \/ DeployedAccepted(d)
      BY <2>4
      DEF HandleReport, DeployedNotMailed, TransactionUnknown, KilledUnknown,
          TransactionFailed, ContractKilled, Receiving
    <3>3. \/ DeployedPostponed(c) \/ DeployedRejected(c) \/ DeployedAccepted(c)
      BY <1>1, <3>1, <3>2
      DEF DeployedUnknown, DeployedIgnored, DeployedPostponed, DeployedRejected,
          DeployedAccepted
    <3> QED
      BY <1>1, <3>3 DEF DeployedPostponed, DeployedRejected, DeployedAccepted,
                        AlreadyPostponed, TakeOff, TakeOffFor, PostponedLock
  <2>5. CASE m.type = "transactionCompleted"
    <3>1. m.hash \in Tries /\ r \in RowsOf(m.hash) /\ chain[m.hash].contract = c
      BY <1>1, <2>3, <2>5
      DEF Own, Deployed, TxFailed, RowsOf, RecordsAgree, RowsAreTrue, Tries, None
    <3>2. ASSUME NEW s \in RowsOf(m.hash) PROVE Owner(s) = c
      BY <3>1, <3>2 DEF RowsOf, RecordsAgree, RowsAreTrue, Tries, None
    <3>3. TransactionFailed(c)
      BY <2>5, <3>1, <3>2
      DEF HandleReport, DeployedUnknown, TransactionUnknown, KilledUnknown,
          DeployedIgnored, DeployedPostponed, DeployedRejected,
          DeployedAccepted, DeployedNotMailed, TransactionFailed,
          ContractKilled, Receiving
    <3> QED
      BY <1>1, <3>3 DEF TransactionFailed, TakeOffFor, PostponedLock
  <2> QED
    BY <2>3, <2>4, <2>5 DEF Deployed, TxFailed
<1> QED
  BY <1>2, <1>3, <1>4, OthersHandled

\* A transaction of c that is reported now is reported on the queue.
LEMMA NetworkAwaits ==
  ASSUME TypeOK, RecordsAgree, StoryGrows, NEW c \in Contracts, Awaited(c),
         NetworkStep
  PROVE  Awaited(c)'
<1>1. PICK t \in Tries : Mine(t) \/ Report(t) \/ Destroy(t)
  BY DEF NetworkStep
<1>2. UNCHANGED <<handling, ethContract>>
  BY <1>1 DEF Mine, Report, Destroy, rows
<1>3. RowsLast(c) /\ (InHand(c) => InHand(c)')
  BY <1>2, RowsLastUntouched DEF InHand, Launching
<1>4. \A m \in Messages : InQueue(m, ready) => InQueue(m, ready')
  <2>1. ready' = ready \/ \E x \in Messages : ready' = Append(ready, x)
    BY <1>1, MessagesTyped DEF Mine, Report, Destroy, queue, RowsOf
  <2> QED
    BY <2>1, InGrown DEF TypeOK
<1>5. CASE reported' = reported
  BY <1>3, <1>4, <1>5, OnlyMore
<1>6. CASE Report(t)
  <2>1. OnItsWay(c) => OnItsWay(c)'
    BY <1>3, <1>4, MessagesLast
  <2>2. ASSUME NEW r \in Own(c), ethContract[r].tx_hash \notin reported,
               chain[ethContract[r].tx_hash].status # "unsent"
        PROVE  OnItsWay(c)' \/ Undecided(c)'
    <3>1. CASE ethContract[r].tx_hash # t
      <4>1. r \in Own(c)' /\ ethContract'[r].tx_hash = ethContract[r].tx_hash
        BY <1>2 DEF Own, Owner
      <4>2. ethContract[r].tx_hash \notin reported'
        BY <1>6, <2>2, <3>1 DEF Report
      <4>3. chain' = chain
        BY <1>6 DEF Report
      <4> QED
        BY <2>2, <4>1, <4>2, <4>3 DEF Undecided
    <3>2. CASE ethContract[r].tx_hash = t
      <4>1. PICK s \in RowsOf(t) :
              \/ \E ok \in BOOLEAN : ready' = Append(ready, Deployed(s, t, ok))
              \/ ready' = Append(ready, TxFailed(t))
        BY <1>6 DEF Report
      <4>2. chain[t].contract = c /\ Owner(s) = chain[t].contract /\ s \in Tries
        BY <3>2 DEF RowsOf, Own, RecordsAgree, RowsAreTrue, Tries, None
      <4>3. s \in Own(c)' /\ ethContract'[s].tx_hash = t
        BY <1>2, <4>1, <4>2 DEF Own, Owner, RowsOf
      <4>4. PICK x \in Messages :
              /\ ready' = Append(ready, x)
              /\ (\E ok \in BOOLEAN : x = Deployed(s, t, ok)) \/ x = TxFailed(t)
        BY <4>1, <4>2, MessagesTyped
      <4>5. About(x, c)'
        BY <4>3, <4>4 DEF About
      <4>6. InQueue(x, ready')
        BY <4>4, InAppended DEF TypeOK
      <4> QED
        BY <4>5, <4>6 DEF OnItsWay
    <3> QED
      BY <3>1, <3>2
  <2>3. InHand(c) \/ OnItsWay(c) \/ Undecided(c)
    BY AwaitedIs
  <2> QED
    BY <1>3, <2>1, <2>2, <2>3, AwaitedThen DEF Undecided
<1> QED
  BY <1>1, <1>5, <1>6 DEF Mine, Destroy

\* A launch in hand when the receiver dies is delivered again.
LEMMA FaultAwaits ==
  ASSUME TypeOK, StoryGrows, NEW c \in Contracts, Awaited(c), Fault
  PROVE  Awaited(c)'
<1>1. RowsLast(c) /\ reported' = reported
  BY RowsLastUntouched DEF Fault, ReceiverRestart, LaunchRequeued, rows, network
<1>2. ASSUME NEW d \in Contracts, LaunchRequeued(d) PROVE Awaited(c)'
  <2>1. /\ ready # << >> /\ ready' = Append(Tail(ready), Head(ready))
        /\ handling' = handling
    BY <1>2 DEF LaunchRequeued, Receiving, Requeue
  <2>2. \A m \in Messages : InQueue(m, ready) => InQueue(m, ready')
    BY <2>1, InRequeued DEF TypeOK
  <2> QED
    BY <1>1, <2>1, <2>2, OnlyMore DEF InHand, Launching
<1>3. CASE ReceiverRestart /\ ~Launching
  <2>1. ready' = unacked \o ready
    BY <1>3 DEF ReceiverRestart
  <2>2. \A m \in Messages : InQueue(m, ready) => InQueue(m, ready')
    BY <2>1, InConcat DEF TypeOK
  <2> QED
    BY <1>1, <1>3, <2>2, OnlyMore DEF InHand
<1>4. CASE ReceiverRestart /\ Launching
  <2> DEFINE l == Launch(handling.contract)
             p == Append(unacked, l)
  <2>1. l \in Messages
    BY <1>4, Handled, MessagesTyped
  <2>2. p \in Seq(Messages) /\ InQueue(l, p)
    BY <2>1, AppendProperties, InAppended DEF TypeOK
  <2>3. unacked \o <<l>> = p
    BY <2>1, AppendIsConcat DEF TypeOK
  <2>4. ready' = p \o ready
    BY <1>4, <2>3 DEF ReceiverRestart
  <2>5. InQueue(l, ready')
    BY <2>2, <2>4, InConcat DEF TypeOK
  <2>6. \A m \in Messages : InQueue(m, ready) => InQueue(m, ready')
    BY <2>2, <2>4, InConcat DEF TypeOK
  <2>7. CASE InHand(c)
    <3>1. InQueue(Launch(c), ready')
      BY <2>5, <2>7 DEF InHand
    <3> QED
      BY <3>1 DEF Awaited
  <2>8. CASE ~InHand(c)
    BY <1>1, <2>6, <2>8, OnlyMore
  <2> QED
    BY <2>7, <2>8
<1> QED
  BY <1>2, <1>3, <1>4 DEF Fault

LEMMA WebAwaits ==
  ASSUME TypeOK, StoryGrows, NEW c \in Contracts, Awaited(c),
         WebStep \/ UNCHANGED vars
  PROVE  Awaited(c)'
<1>1. UNCHANGED <<ethContract, reported, handling>>
  BY DEF WebStep, DeployRead, EditRead, DeployCharge, DeploySave, DeployLaunch,
         EditSave, RequestDies, vars, rows, network
<1>2. \A m \in Messages : InQueue(m, ready) => InQueue(m, ready')
  <2>1. ASSUME NEW q \in Requests, DeployLaunch(q)
        PROVE  \E x \in Messages : ready' = Append(ready, x)
    <3>1. request[q].contract \in Contracts
      BY <2>1, Stepping DEF DeployLaunch, Step
    <3> QED
      BY <2>1, <3>1, MessagesTyped DEF DeployLaunch
  <2>2. ready' = ready \/ \E x \in Messages : ready' = Append(ready, x)
    BY <2>1 DEF WebStep, DeployRead, EditRead, DeployCharge, DeploySave,
                EditSave, RequestDies, vars, queue
  <2> QED
    BY <2>2, InGrown DEF TypeOK
<1> QED
  BY <1>1, <1>2, RowsLastUntouched, OnlyMore DEF InHand, Launching

LEMMA AwaitedStays ==
  ASSUME MailFails = FALSE, TypeOK, RecordsAgree, LockIsGrounded, LockIsAwaited,
         [Next]_vars
  PROVE  LockIsAwaited'
<1> SUFFICES ASSUME NEW c \in Contracts \ WhiteLabel, lockedBy' = c
             PROVE  Awaited(c)'
  BY DEF LockIsAwaited
<1>1. StoryGrows
  BY StoryAlwaysGrows
<1>2. CASE lockedBy = c
  <2>1. Awaited(c)
    BY <1>2 DEF LockIsAwaited
  <2> QED
    BY <1>1, <1>2, <2>1, WebAwaits, LaunchAwaits, ReportAwaits, FaultAwaits,
       NetworkAwaits DEF Next
<1>3. CASE lockedBy # c
  <2>1. LaunchCompile(c)
    BY <1>3, LockMoves, NoOneIsNotAContract
  <2>2. InHand(c)'
    BY <2>1 DEF LaunchCompile, InHand, Launching
  <2> QED
    BY <2>2, AwaitedThen
<1> QED
  BY <1>2, <1>3

(***************************************************************************)
(* No lock is left behind: as long as the mail server answers, a contract  *)
(* that holds the deployment address has its launch in hand or on the      *)
(* queue, or a transaction whose outcome is still to be handled.  So a     *)
(* crash, a redelivered launch, a postponed contract or a stale save never *)
(* leaves the address taken with nothing under way to free it.  The mail   *)
(* server matters because postponable and tx_failed send the mail before   *)
(* they free the address.                                                  *)
(***************************************************************************)
THEOREM LockAlwaysAwaited ==
  ASSUME MailFails = FALSE
  PROVE  Spec => []LockIsAwaited
<1>1. Init => LockIsGrounded /\ LockIsAwaited
  BY GroundedInit, NoOneIsNotAContract DEF Init, LockIsAwaited
<1>2. TypeOK /\ RecordsAgree /\ (LockIsGrounded /\ LockIsAwaited) /\ [Next]_vars
        => (LockIsGrounded /\ LockIsAwaited)'
  BY GroundStays, AwaitedStays
<1> QED
  BY <1>1, <1>2, TypeCorrect, RecordsAlwaysAgree, PTL DEF Spec
=============================================================================
