--------------------------- MODULE PaymentsProofs ---------------------------
(***************************************************************************)
(* Proofs about Payments, for every set of receivers, requests, contracts  *)
(* and deposits and every bound: the balance is never overdrawn, a deposit *)
(* is recorded once and credited only as its handling explains, and none   *)
(* that was announced is forgotten.                                        *)
(***************************************************************************)
EXTENDS Payments, SequenceTheorems, TLAPS

(***************************************************************************)
(* The inductive invariant.  A message is on the queue of its deposit's    *)
(* network, so that only one receiver ever handles a deposit (Routed);     *)
(* that receiver has it in hand unrecorded until it writes the row         *)
(* (InHand); and credits and rows differ by the deposit that is between    *)
(* the two, and by the interruptions there (Counted).                      *)
(***************************************************************************)
Routed ==
  \A r \in Receivers, t \in Txs :
    Holds(ready[r], t) \/ Holds(unacked[r], t) => deposit[t].network = r

InHand ==
  \A r \in Receivers :
    IF pc[r] = "idle"
      THEN tx[r] = Nothing
      ELSE /\ tx[r] \in Txs
           /\ deposit[tx[r]].network = r
           /\ pc[r] \in {"credit", "record"} <=> ledger[tx[r]] = 0

Counted ==
  \A t \in Txs :
    /\ ledger[t] <= 1
    /\ credited[t] = ledger[t] + interrupted[t]
                       + IF t \in HalfDone(Receivers) THEN 1 ELSE 0

Books == TypeOK /\ Routed /\ InHand /\ Counted
-----------------------------------------------------------------------------
(***************************************************************************)
(* What the operations on the queues do to the messages they hold.         *)
(***************************************************************************)
LEMMA HoldsNothing == \A t : ~Holds(<< >>, t)
BY EmptySeq DEF Holds

LEMMA HoldsAppended ==
  ASSUME NEW q \in Seq(Txs), NEW x \in Txs
  PROVE  /\ Append(q, x) \in Seq(Txs)
         /\ \A t : Holds(Append(q, x), t) <=> Holds(q, t) \/ t = x
<1>1. /\ Append(q, x) \in Seq(Txs)
      /\ Len(Append(q, x)) = Len(q) + 1
      /\ \A i \in 1..Len(q) : Append(q, x)[i] = q[i]
      /\ Append(q, x)[Len(q) + 1] = x
      /\ Len(q) \in Nat
  OBVIOUS
<1>2. ASSUME NEW t, Holds(Append(q, x), t) PROVE Holds(q, t) \/ t = x
  BY <1>1, <1>2 DEF Holds
<1>3. ASSUME NEW t, Holds(q, t) \/ t = x PROVE Holds(Append(q, x), t)
  BY <1>1, <1>3 DEF Holds
<1>4. QED
  BY <1>1, <1>2, <1>3

LEMMA HoldsTaken ==
  ASSUME NEW q \in Seq(Txs), q # << >>
  PROVE  /\ Head(q) \in Txs
         /\ Tail(q) \in Seq(Txs)
         /\ \A t : Holds(q, t) <=> Holds(Tail(q), t) \/ t = Head(q)
<1>1. /\ Head(q) \in Txs /\ Tail(q) \in Seq(Txs)
      /\ Len(Tail(q)) = Len(q) - 1
      /\ \A i \in 1..Len(Tail(q)) : Tail(q)[i] = q[i + 1]
      /\ Len(q) \in Nat \ {0}
      /\ Head(q) = q[1]
  BY HeadTailProperties, EmptySeq
<1>2. ASSUME NEW t, Holds(q, t) PROVE Holds(Tail(q), t) \/ t = Head(q)
  <2>1. PICK i \in 1..Len(q) : q[i] = t
    BY <1>2 DEF Holds
  <2>2. CASE i = 1
    BY <1>1, <2>1, <2>2
  <2>3. CASE i # 1
    <3>1. i - 1 \in 1..Len(Tail(q)) /\ Tail(q)[i - 1] = q[(i - 1) + 1]
      BY <1>1, <2>3
    <3>2. Tail(q)[i - 1] = t
      BY <1>1, <2>1, <3>1
    <3>3. QED
      BY <3>1, <3>2 DEF Holds
  <2>4. QED
    BY <2>2, <2>3
<1>3. ASSUME NEW t, Holds(Tail(q), t) \/ t = Head(q) PROVE Holds(q, t)
  <2>1. CASE t = Head(q)
    BY <1>1, <2>1 DEF Holds
  <2>2. CASE Holds(Tail(q), t)
    <3>1. PICK i \in 1..Len(Tail(q)) : Tail(q)[i] = t
      BY <2>2 DEF Holds
    <3>2. i + 1 \in 1..Len(q) /\ q[i + 1] = t
      BY <1>1, <3>1
    <3>3. QED
      BY <3>2 DEF Holds
  <2>3. QED
    BY <1>3, <2>1, <2>2
<1>4. QED
  BY <1>1, <1>2, <1>3

LEMMA HoldsJoined ==
  ASSUME NEW a \in Seq(Txs), NEW b \in Seq(Txs)
  PROVE  /\ a \o b \in Seq(Txs)
         /\ \A t : Holds(a \o b, t) <=> Holds(a, t) \/ Holds(b, t)
<1>1. /\ a \o b \in Seq(Txs)
      /\ Len(a \o b) = Len(a) + Len(b)
      /\ Len(a) \in Nat /\ Len(b) \in Nat
      /\ \A i \in 1..(Len(a) + Len(b)) :
           (a \o b)[i] = IF i <= Len(a) THEN a[i] ELSE b[i - Len(a)]
  BY ConcatProperties, LenProperties
<1>2. ASSUME NEW t, Holds(a \o b, t) PROVE Holds(a, t) \/ Holds(b, t)
  <2>1. PICK i \in 1..(Len(a) + Len(b)) : (a \o b)[i] = t
    BY <1>1, <1>2 DEF Holds
  <2>2. CASE i <= Len(a)
    BY <1>1, <2>1, <2>2 DEF Holds
  <2>3. CASE ~(i <= Len(a))
    <3>1. i - Len(a) \in 1..Len(b) /\ b[i - Len(a)] = t
      BY <1>1, <2>1, <2>3
    <3>2. QED
      BY <3>1 DEF Holds
  <2>4. QED
    BY <2>2, <2>3
<1>3. ASSUME NEW t, Holds(a, t) PROVE Holds(a \o b, t)
  BY <1>1, <1>3 DEF Holds
<1>4. ASSUME NEW t, Holds(b, t) PROVE Holds(a \o b, t)
  <2>1. PICK i \in 1..Len(b) : b[i] = t
    BY <1>4 DEF Holds
  <2>2. /\ Len(a) + i \in 1..Len(a \o b)
        /\ (a \o b)[Len(a) + i] = b[(Len(a) + i) - Len(a)]
    BY <1>1, <2>1
  <2>3. (a \o b)[Len(a) + i] = t
    BY <1>1, <2>1, <2>2
  <2>4. QED
    BY <2>2, <2>3 DEF Holds
<1>5. QED
  BY <1>1, <1>2, <1>3, <1>4
-----------------------------------------------------------------------------
(***************************************************************************)
(* The balance and the rows after a charge; a process's reset.             *)
(***************************************************************************)
LEMMA Raised ==
  ASSUME NEW S, NEW f \in [S -> Nat], NEW x, NEW n \in Nat
  PROVE  [f EXCEPT ![x] = @ + n] \in [S -> Nat]
<1>1. ASSUME NEW y \in S PROVE [f EXCEPT ![x] = @ + n][y] \in Nat
  BY <1>1
<1>2. QED
  BY <1>1

LEMMA Charged ==
  ASSUME TypeOK, NEW c, NEW value \in Nat, NegativePayment(c, value)
  PROVE  /\ balance' \in Int
         /\ balance >= 0 => balance' >= 0
         /\ frozen' \in Nat
         /\ charged' \in [Contracts -> Nat]
<1>1. CASE balance < value
  BY <1>1 DEF TypeOK, NegativePayment
<1>2. CASE balance >= value
  <2>1. charged' = [charged EXCEPT ![c] = @ + value] /\ balance' = balance - value
    BY <1>2 DEF TypeOK, NegativePayment
  <2>2. charged \in [Contracts -> Nat]
    BY DEF TypeOK
  <2>3. charged' \in [Contracts -> Nat]
    BY <2>1, <2>2, Raised
  <2>4. QED
    BY <1>2, <2>1, <2>3 DEF TypeOK, NegativePayment
<1>3. QED
  BY <1>1, <1>2 DEF TypeOK

LEMMA DepositAmount ==
  ASSUME TypeOK, NEW t \in Txs
  PROVE  deposit[t].amount \in Nat
<1>1. \/ deposit[t] \in [network: Receivers, amount: Amounts]
      \/ deposit[t] = NotPaid
  BY DEF TypeOK
<1>2. CASE deposit[t] = NotPaid
  BY <1>2 DEF NotPaid
<1>3. CASE deposit[t] \in [network: Receivers, amount: Amounts]
  <2>1. deposit[t].amount \in Amounts
    BY <1>3
  <2>2. QED
    BY <2>1, PricesArePositive
<1>4. QED
  BY <1>1, <1>2, <1>3

LEMMA ResetTyped ==
  ASSUME TypeOK, NEW ps, NEW step \in Steps, Reset(ps, step)
  PROVE  /\ pc' \in [Processes -> Steps]
         /\ tx' \in [Processes -> Txs \cup {Nothing}]
         /\ contract' \in [Processes -> Contracts \cup {Nothing}]
         /\ todo' \in [Processes -> SUBSET Contracts]
         /\ seen' = seen
BY DEF TypeOK, Reset

LEMMA InterruptTyped ==
  ASSUME TypeOK, NEW rs, Interrupt(rs)
  PROVE  interrupted' \in [Txs -> Nat]
BY DEF TypeOK, Interrupt

LEMMA PriceTyped == Cost \in Nat /\ (95 * Cost) \div 100 \in Nat
BY PricesArePositive
-----------------------------------------------------------------------------
(***************************************************************************)
(* Type correctness, one lemma for each group of actions.                  *)
(***************************************************************************)
LEMMA TypeInit == Init => TypeOK
<1> SUFFICES ASSUME Init PROVE TypeOK
  OBVIOUS
<1>1. << >> \in Seq(Txs)
  BY EmptySeq
<1>2. 0 \in 0..MaxAnnounced /\ 0 \in 0..MaxFaults
  BY PaymentBounds
<1>3. QED
  BY <1>1, <1>2 DEF Init, TypeOK, States, Steps, AutoSteps

LEMMA TypeDeposits == TypeOK /\ Deposits => TypeOK'
<1> SUFFICES ASSUME TypeOK, NEW t \in Txs, NEW r \in Receivers, Announce(t, r)
             PROVE  TypeOK'
  BY DEF Deposits
<1>1. announced' \in 0..MaxAnnounced
  BY PaymentBounds DEF TypeOK, Announce
<1>2. deposit' \in [Txs -> [network: Receivers, amount: Amounts] \cup {NotPaid}]
  <2>1. CASE deposit' = deposit
    BY <2>1 DEF TypeOK
  <2>2. ASSUME NEW a \in Amounts,
               deposit' = [deposit EXCEPT ![t] = [network |-> r, amount |-> a]]
        PROVE  deposit' \in [Txs -> [network: Receivers, amount: Amounts]
                                      \cup {NotPaid}]
    <3>1. [network |-> r, amount |-> a] \in [network: Receivers, amount: Amounts]
      OBVIOUS
    <3>2. QED
      BY <2>2, <3>1 DEF TypeOK
  <2>3. QED
    BY <2>1, <2>2 DEF Announce
<1>3. ready' \in [Receivers -> Seq(Txs)]
  BY HoldsAppended DEF TypeOK, Announce
<1>4. QED
  BY <1>1, <1>2, <1>3 DEF TypeOK, Announce, account, local, history

LEMMA TypeReceive ==
  ASSUME TypeOK, InHand, NEW r \in Receivers, Receive(r)
  PROVE  TypeOK'
<1> USE DEF TypeOK, account, broker, local, history, Processes
<1>1. CASE PaymentRepeated(r)
  <2>1. ready' \in [Receivers -> Seq(Txs)]
    BY <1>1, HoldsTaken DEF PaymentRepeated
  <2>2. QED
    BY <1>1, <2>1 DEF PaymentRepeated
<1>2. CASE PaymentTaken(r)
  <2>1. ready' \in [Receivers -> Seq(Txs)] /\ Head(ready[r]) \in Txs
    BY <1>2, HoldsTaken DEF PaymentTaken
  <2>2. QED
    BY <1>2, <2>1 DEF PaymentTaken, Go, Steps
<1>3. CASE PaymentCredited(r)
  <2>1. tx[r] \in Txs
    BY <1>3 DEF PaymentCredited, Go, InHand
  <2>2. deposit[tx[r]].amount \in Nat
    BY <2>1, DepositAmount
  <2>3. credited' \in [Txs -> Nat]
    BY <1>3, Raised DEF PaymentCredited
  <2>4. QED
    <3>1. balance' \in Int
      BY <1>3, <2>2 DEF PaymentCredited
    <3>2. pc' \in [Processes -> Steps]
      BY <1>3 DEF PaymentCredited, Go, Steps
    <3>3. QED
      BY <1>3, <2>3, <3>1, <3>2 DEF PaymentCredited
<1>4. CASE PaymentRecorded(r)
  <2>1. ledger' \in [Txs \cup {Nothing} -> Nat]
    BY <1>4, Raised DEF PaymentRecorded
  <2>2. QED
    BY <1>4, <2>1 DEF PaymentRecorded, Go, Steps, AutoSteps
<1>5. QED
  BY <1>1, <1>2, <1>3, <1>4 DEF Receive

LEMMA TypeAutodeploy ==
  ASSUME TypeOK, NEW p \in Processes, Autodeploy(p)
  PROVE  TypeOK'
<1> USE DEF TypeOK, account, broker, local, history, Go, Steps, AutoSteps
<1>1. CASE ReadBalance(p)
  BY <1>1 DEF ReadBalance
<1>2. CASE ListWaiting(p)
  BY <1>2 DEF ListWaiting
<1>3. ASSUME NEW c \in Contracts, Visit(p, c) PROVE TypeOK'
  BY <1>3 DEF Visit
<1>4. CASE AutodeployDone(p)
  BY <1>4 DEF AutodeployDone
<1>5. CASE OpenContract(p)
  BY <1>5 DEF OpenContract
<1>6. CASE CheckFunds(p)
  BY <1>6 DEF CheckFunds
<1>7. CASE Debit(p)
  <2>1. /\ balance' \in Int /\ frozen' \in Nat
        /\ charged' \in [Contracts -> Nat]
    BY <1>7, Charged, PriceTyped DEF Debit
  <2>2. QED
    BY <1>7, <2>1 DEF Debit
<1>8. CASE DebitFails(p)
  BY <1>8, PaymentBounds DEF DebitFails
<1>9. CASE DebitAgain(p)
  <2>1. /\ balance' \in Int /\ frozen' \in Nat
        /\ charged' \in [Contracts -> Nat]
    BY <1>9, Charged, PriceTyped DEF DebitAgain
  <2>2. QED
    BY <1>9, <2>1 DEF DebitAgain
<1>10. CASE RecordDebit(p)
  BY <1>10 DEF RecordDebit
<1>11. CASE SaveContract(p)
  BY <1>11 DEF SaveContract, States
<1>12. CASE SendLaunch(p)
  <2>1. launches' \in [Contracts -> Nat]
    BY <1>12, Raised DEF SendLaunch
  <2>2. QED
    BY <1>12, <2>1 DEF SendLaunch
<1>13. CASE RefreshBalance(p)
  BY <1>13 DEF RefreshBalance
<1>14. QED
  BY <1>1, <1>2, <1>3, <1>4, <1>5, <1>6, <1>7, <1>8, <1>9, <1>10, <1>11, <1>12,
     <1>13 DEF Autodeploy

LEMMA TypeConfirm ==
  ASSUME TypeOK, NEW q \in Confirmers, Confirm(q)
  PROVE  TypeOK'
<1> USE DEF TypeOK, account, broker, local, history, Go, Steps, AutoSteps,
           Processes
<1>1. ASSUME NEW c \in Contracts, ConfirmRead(q, c) PROVE TypeOK'
  BY <1>1 DEF ConfirmRead
<1>2. CASE ListOthers(q)
  BY <1>2 DEF ListOthers
<1>3. ASSUME NEW c \in Contracts, SaveOther(q, c) PROVE TypeOK'
  BY <1>3 DEF SaveOther, States
<1>4. CASE OthersSaved(q)
  BY <1>4 DEF OthersSaved
<1>5. CASE ConfirmSave(q)
  BY <1>5 DEF ConfirmSave, States
<1>6. QED
  BY <1>1, <1>2, <1>3, <1>4, <1>5 DEF Confirm

LEMMA RestartedQueue ==
  ASSUME TypeOK, InHand, ReceiverRestart, NEW r \in Receivers
  PROVE  /\ ready'[r] \in Seq(Txs)
         /\ \A t : Holds(ready'[r], t) <=>
              \/ Holds(unacked[r], t) \/ Holds(ready[r], t)
              \/ pc[r] # "idle" /\ t = tx[r]
<1> DEFINE kept == IF pc[r] = "idle" THEN unacked[r] ELSE Append(unacked[r], tx[r])
<1>1. ready[r] \in Seq(Txs) /\ unacked[r] \in Seq(Txs)
  BY DEF TypeOK
<1>2. ready'[r] = kept \o ready[r]
  BY DEF ReceiverRestart
<1>3. /\ kept \in Seq(Txs)
      /\ \A t : Holds(kept, t) <=> Holds(unacked[r], t) \/ (pc[r] # "idle" /\ t = tx[r])
  BY <1>1, HoldsAppended DEF InHand
<1> HIDE DEF kept
<1>4. /\ kept \o ready[r] \in Seq(Txs)
      /\ \A t : Holds(kept \o ready[r], t) <=> Holds(kept, t) \/ Holds(ready[r], t)
  BY <1>1, <1>3, HoldsJoined
<1>5. QED
  BY <1>2, <1>3, <1>4

LEMMA TypeFailure == TypeOK /\ InHand /\ Failure => TypeOK'
<1> SUFFICES ASSUME TypeOK, InHand, Failure PROVE TypeOK'
  OBVIOUS
<1>1. faults' \in 0..MaxFaults
  <2>1. faults < MaxFaults /\ faults' = faults + 1
    BY DEF Failure, PaymentRaises, ReceiverRestart, RequestDies
  <2>2. QED
    BY <2>1, PaymentBounds DEF TypeOK
<1> USE DEF account, broker, local, history
<1>2. ASSUME NEW r \in Receivers, PaymentRaises(r) PROVE TypeOK'
  <2>1. tx[r] \in Txs
    BY <1>2 DEF PaymentRaises, InHand
  <2>2. unacked' \in [Receivers -> Seq(Txs)]
    BY <1>2, <2>1, HoldsAppended DEF PaymentRaises, TypeOK
  <2>3. Reset({r}, "idle") /\ "idle" \in Steps /\ Interrupt({r})
    BY <1>2 DEF PaymentRaises, Steps
  <2>4. QED
    BY <1>1, <1>2, <2>2, <2>3, ResetTyped, InterruptTyped
       DEF PaymentRaises, TypeOK
<1>3. CASE ReceiverRestart
  <2>1. ready' \in [Receivers -> Seq(Txs)]
    <3>1. \A r \in Receivers : ready'[r] \in Seq(Txs)
      BY <1>3, RestartedQueue
    <3>2. QED
      BY <1>3, <3>1 DEF ReceiverRestart
  <2>2. unacked' \in [Receivers -> Seq(Txs)]
    BY <1>3, EmptySeq DEF ReceiverRestart
  <2>3. Reset(Receivers, "idle") /\ "idle" \in Steps /\ Interrupt(Receivers)
    BY <1>3 DEF ReceiverRestart, Steps
  <2>4. QED
    BY <1>1, <1>3, <2>1, <2>2, <2>3, ResetTyped, InterruptTyped
       DEF ReceiverRestart, TypeOK
<1>4. ASSUME NEW q \in Confirmers, RequestDies(q) PROVE TypeOK'
  <2>1. Reset({q}, "done") /\ "done" \in Steps
    BY <1>4 DEF RequestDies, Steps
  <2>2. QED
    BY <1>1, <1>4, <2>1, ResetTyped DEF RequestDies, TypeOK
<1>5. QED
  BY <1>2, <1>3, <1>4 DEF Failure

-----------------------------------------------------------------------------
(***************************************************************************)
(* Autodeploying and confirming leave the deposits alone: no receiver has  *)
(* one in hand unrecorded, before or after, that it did not have.          *)
(***************************************************************************)
Onward(r) ==
  \/ pc'[r] = pc[r] /\ tx'[r] = tx[r]
  \/ pc[r] \in AutoSteps /\ pc'[r] \in AutoSteps /\ tx'[r] = tx[r]
  \/ pc[r] \in AutoSteps /\ pc'[r] = "idle" /\ tx'[r] = Nothing

Quiet ==
  /\ UNCHANGED <<deposit, ready, unacked, credited, interrupted>>
  /\ \A t \in Txs : ledger'[t] = ledger[t]
  /\ \A r \in Receivers : Onward(r)

LEMMA AutodeployIsQuiet ==
  ASSUME TypeOK, NEW p \in Processes, Autodeploy(p)
  PROVE  Quiet
<1> USE DEF Quiet, Onward, Go, account, broker, local, history, AutoSteps,
           Processes
<1>1. CASE ReadBalance(p)
  BY <1>1 DEF ReadBalance, TypeOK
<1>2. CASE ListWaiting(p)
  BY <1>2 DEF ListWaiting, TypeOK
<1>3. ASSUME NEW c \in Contracts, Visit(p, c) PROVE Quiet
  BY <1>3 DEF Visit, TypeOK
<1>4. CASE AutodeployDone(p)
  BY <1>4 DEF AutodeployDone, TypeOK
<1>5. CASE OpenContract(p)
  BY <1>5 DEF OpenContract, TypeOK
<1>6. CASE CheckFunds(p)
  BY <1>6 DEF CheckFunds, TypeOK
<1>7. CASE Debit(p)
  BY <1>7 DEF Debit, TypeOK
<1>8. CASE DebitFails(p)
  BY <1>8 DEF DebitFails, TypeOK
<1>9. CASE DebitAgain(p)
  BY <1>9 DEF DebitAgain, TypeOK
<1>10. CASE RecordDebit(p)
  <2>1. \A t \in Txs : ledger'[t] = ledger[t]
    BY <1>10, NothingIsNothing DEF RecordDebit, TypeOK
  <2>2. QED
    BY <1>10, <2>1 DEF RecordDebit, TypeOK
<1>11. CASE SaveContract(p)
  BY <1>11 DEF SaveContract, TypeOK
<1>12. CASE SendLaunch(p)
  BY <1>12 DEF SendLaunch, TypeOK
<1>13. CASE RefreshBalance(p)
  BY <1>13 DEF RefreshBalance, TypeOK
<1>14. QED
  BY <1>1, <1>2, <1>3, <1>4, <1>5, <1>6, <1>7, <1>8, <1>9, <1>10, <1>11, <1>12,
     <1>13 DEF Autodeploy

LEMMA ConfirmIsQuiet ==
  ASSUME TypeOK, NEW q \in Confirmers, Confirm(q)
  PROVE  Quiet
<1>0. q \notin Receivers
  BY ProcessesAreDistinct
<1> USE DEF Quiet, Onward, Go, account, broker, local, history, Processes
<1>1. ASSUME NEW c \in Contracts, ConfirmRead(q, c) PROVE Quiet
  BY <1>0, <1>1 DEF ConfirmRead, TypeOK
<1>2. CASE ListOthers(q)
  BY <1>0, <1>2 DEF ListOthers, TypeOK
<1>3. ASSUME NEW c \in Contracts, SaveOther(q, c) PROVE Quiet
  BY <1>0, <1>3 DEF SaveOther, TypeOK
<1>4. CASE OthersSaved(q)
  BY <1>0, <1>4 DEF OthersSaved, TypeOK
<1>5. CASE ConfirmSave(q)
  BY <1>0, <1>5 DEF ConfirmSave, TypeOK
<1>6. QED
  BY <1>1, <1>2, <1>3, <1>4, <1>5 DEF Confirm

LEMMA DeathIsQuiet ==
  ASSUME TypeOK, NEW q \in Confirmers, RequestDies(q)
  PROVE  Quiet
<1>1. q \notin Receivers
  BY ProcessesAreDistinct
<1>2. QED
  BY <1>1 DEF RequestDies, Reset, Quiet, Onward, account, broker, history,
              Processes

LEMMA QuietKeeps == Books /\ Quiet => Routed' /\ InHand' /\ Counted'
<1> SUFFICES ASSUME Books, Quiet PROVE Routed' /\ InHand' /\ Counted'
  OBVIOUS
<1> USE DEF Books
<1>1. Routed'
  BY DEF Routed, Quiet
<1>2. InHand'
  <2> SUFFICES ASSUME NEW r \in Receivers
               PROVE  IF pc'[r] = "idle"
                        THEN tx'[r] = Nothing
                        ELSE /\ tx'[r] \in Txs
                             /\ deposit'[tx'[r]].network = r
                             /\ pc'[r] \in {"credit", "record"} <=> ledger'[tx'[r]] = 0
    BY DEF InHand
  <2>1. Onward(r) /\ deposit' = deposit /\ \A t \in Txs : ledger'[t] = ledger[t]
    BY DEF Quiet
  <2>2. CASE pc'[r] = pc[r] /\ tx'[r] = tx[r]
    BY <2>1, <2>2 DEF InHand
  <2>3. CASE pc[r] \in AutoSteps /\ pc'[r] \in AutoSteps /\ tx'[r] = tx[r]
    BY <2>1, <2>3 DEF InHand, AutoSteps
  <2>4. CASE pc[r] \in AutoSteps /\ pc'[r] = "idle" /\ tx'[r] = Nothing
    BY <2>4
  <2>5. QED
    BY <2>1, <2>2, <2>3, <2>4 DEF Onward
<1>3. HalfDone(Receivers)' = HalfDone(Receivers)
  <2>1. ASSUME NEW r \in Receivers, NEW t \in Txs
        PROVE  pc'[r] = "record" /\ tx'[r] = t <=> pc[r] = "record" /\ tx[r] = t
    BY DEF Quiet, Onward, AutoSteps
  <2>2. QED
    BY <2>1 DEF HalfDone
<1>4. Counted'
  BY <1>3 DEF Counted, Quiet
<1>5. QED
  BY <1>1, <1>2, <1>4

-----------------------------------------------------------------------------
(***************************************************************************)
(* The steps that do handle deposits.                                      *)
(***************************************************************************)
LEMMA OneHandles ==
  ASSUME InHand, NEW r \in Receivers, NEW s \in Receivers,
         pc[r] # "idle", pc[s] # "idle", tx[r] = tx[s]
  PROVE  r = s
BY DEF InHand

LEMMA HalfDoneOf ==
  ASSUME Books, NEW r \in Receivers, pc[r] # "idle"
  PROVE  tx[r] \in HalfDone(Receivers) <=> pc[r] = "record"
BY OneHandles DEF Books, InHand, HalfDone

LEMMA AnnounceKeeps ==
  ASSUME Books, NEW t \in Txs, NEW r \in Receivers, Announce(t, r)
  PROVE  Routed' /\ InHand' /\ Counted'
<1>1. /\ pc' = pc /\ tx' = tx /\ ledger' = ledger /\ unacked' = unacked
      /\ credited' = credited /\ interrupted' = interrupted
  BY DEF Announce, account, local, history
<1>2. \A u \in Txs : /\ u # t => deposit'[u] = deposit[u]
                     /\ deposit[u].network \in Receivers =>
                          deposit'[u] = deposit[u]
  BY NothingIsNothing DEF Announce, NotPaid, Books, TypeOK
<1>3. deposit'[t].network = r
  <2>1. CASE deposit[t].network = r /\ UNCHANGED deposit
    BY <2>1
  <2>2. ASSUME NEW a \in Amounts,
               deposit' = [deposit EXCEPT ![t] = [network |-> r, amount |-> a]]
        PROVE  deposit'[t].network = r
    <3>1. deposit'[t] = [network |-> r, amount |-> a]
      BY <2>2 DEF Books, TypeOK
    <3>2. QED
      BY <3>1
  <2>3. QED
    BY <2>1, <2>2 DEF Announce
<1>4. Routed'
  <2> SUFFICES ASSUME NEW s \in Receivers, NEW u \in Txs,
                      Holds(ready'[s], u) \/ Holds(unacked'[s], u)
               PROVE  deposit'[u].network = s
    BY DEF Routed
  <2>1. ready[s] \in Seq(Txs) /\ ready[r] \in Seq(Txs)
    BY DEF Books, TypeOK
  <2>2. ready'[s] = IF s = r THEN Append(ready[r], t) ELSE ready[s]
    BY DEF Announce, Books, TypeOK
  <2>3. Holds(ready[s], u) \/ Holds(unacked[s], u) \/ (s = r /\ u = t)
    BY <1>1, <2>1, <2>2, HoldsAppended
  <2>4. CASE s = r /\ u = t
    BY <1>3, <2>4
  <2>5. CASE Holds(ready[s], u) \/ Holds(unacked[s], u)
    BY <1>2, <2>5 DEF Books, Routed
  <2>6. QED
    BY <2>3, <2>4, <2>5
<1>5. InHand'
  BY <1>1, <1>2 DEF Books, InHand
<1>6. Counted'
  BY <1>1 DEF Books, Counted, HalfDone
<1>7. QED
  BY <1>4, <1>5, <1>6

LEMMA RepeatedKeeps ==
  ASSUME Books, NEW r \in Receivers, PaymentRepeated(r)
  PROVE  Routed' /\ InHand' /\ Counted'
<1>1. /\ pc' = pc /\ tx' = tx /\ ledger' = ledger /\ unacked' = unacked
      /\ credited' = credited /\ interrupted' = interrupted
      /\ deposit' = deposit
  BY DEF PaymentRepeated, account, local, history
<1>2. Routed'
  <2> SUFFICES ASSUME NEW s \in Receivers, NEW u \in Txs,
                      Holds(ready'[s], u) \/ Holds(unacked'[s], u)
               PROVE  deposit'[u].network = s
    BY DEF Routed
  <2>1. ready[s] \in Seq(Txs) /\ ready[r] # << >> /\ ready[r] \in Seq(Txs)
    BY DEF Books, TypeOK, PaymentRepeated
  <2>2. ready'[s] = IF s = r THEN Tail(ready[r]) ELSE ready[s]
    BY DEF PaymentRepeated, Books, TypeOK
  <2>3. Holds(ready[s], u) \/ Holds(unacked[s], u)
    BY <1>1, <2>1, <2>2, HoldsTaken
  <2>4. QED
    BY <1>1, <2>3 DEF Books, Routed
<1>3. InHand'
  BY <1>1 DEF Books, InHand
<1>4. Counted'
  BY <1>1 DEF Books, Counted, HalfDone
<1>5. QED
  BY <1>2, <1>3, <1>4

LEMMA TakenKeeps ==
  ASSUME Books, NEW r \in Receivers, PaymentTaken(r)
  PROVE  Routed' /\ InHand' /\ Counted'
<1>1. /\ ledger' = ledger /\ unacked' = unacked /\ deposit' = deposit
      /\ credited' = credited /\ interrupted' = interrupted
      /\ pc[r] = "idle" /\ ledger[Head(ready[r])] = 0
  BY DEF PaymentTaken, Go, account, history
<1>2. /\ ready[r] \in Seq(Txs) /\ ready[r] # << >>
      /\ Head(ready[r]) \in Txs
      /\ Holds(ready[r], Head(ready[r]))
  BY HoldsTaken DEF PaymentTaken, Books, TypeOK
<1>3. \A s \in Receivers :
        /\ pc'[s] = IF s = r THEN "credit" ELSE pc[s]
        /\ tx'[s] = IF s = r THEN Head(ready[r]) ELSE tx[s]
        /\ ready'[s] = IF s = r THEN Tail(ready[r]) ELSE ready[s]
  BY DEF PaymentTaken, Go, Books, TypeOK, Processes
<1>4. Routed'
  <2> SUFFICES ASSUME NEW s \in Receivers, NEW u \in Txs,
                      Holds(ready'[s], u) \/ Holds(unacked'[s], u)
               PROVE  deposit'[u].network = s
    BY DEF Routed
  <2>1. Holds(ready[s], u) \/ Holds(unacked[s], u)
    BY <1>1, <1>2, <1>3, HoldsTaken
  <2>2. QED
    BY <1>1, <2>1 DEF Books, Routed
<1>5. InHand'
  <2>1. deposit[Head(ready[r])].network = r
    BY <1>2 DEF Books, Routed
  <2>2. QED
    BY <1>1, <1>2, <1>3, <2>1 DEF Books, InHand
<1>6. HalfDone(Receivers)' = HalfDone(Receivers)
  BY <1>1, <1>3 DEF HalfDone
<1>7. Counted'
  BY <1>1, <1>6 DEF Books, Counted
<1>8. QED
  BY <1>4, <1>5, <1>7

LEMMA CreditedKeeps ==
  ASSUME Books, NEW r \in Receivers, PaymentCredited(r)
  PROVE  Routed' /\ InHand' /\ Counted'
<1>1. /\ ledger' = ledger /\ unacked' = unacked /\ deposit' = deposit
      /\ ready' = ready /\ interrupted' = interrupted /\ tx' = tx
      /\ pc[r] = "credit"
  BY DEF PaymentCredited, Go, broker
<1>2. \A s \in Receivers : pc'[s] = IF s = r THEN "record" ELSE pc[s]
  BY DEF PaymentCredited, Go, Books, TypeOK, Processes
<1>3. tx[r] \in Txs /\ tx[r] \notin HalfDone(Receivers)
  BY <1>1, HalfDoneOf DEF Books, InHand
<1>4. HalfDone(Receivers)' = HalfDone(Receivers) \cup {tx[r]}
  BY <1>1, <1>2, <1>3 DEF HalfDone
<1>5. \A t \in Txs : credited'[t] = credited[t] + IF t = tx[r] THEN 1 ELSE 0
  BY <1>3 DEF PaymentCredited, Books, TypeOK
<1>6. Routed'
  BY <1>1 DEF Books, Routed
<1>7. InHand'
  BY <1>1, <1>2 DEF Books, InHand
<1>8. Counted'
  <2> SUFFICES ASSUME NEW t \in Txs
               PROVE  /\ ledger'[t] <= 1
                      /\ credited'[t] = ledger'[t] + interrupted'[t] +
                           IF t \in HalfDone(Receivers)' THEN 1 ELSE 0
    BY DEF Counted
  <2>1. /\ ledger[t] <= 1 /\ ledger[t] \in Nat /\ interrupted[t] \in Nat
        /\ credited[t] = ledger[t] + interrupted[t] +
             IF t \in HalfDone(Receivers) THEN 1 ELSE 0
    BY DEF Books, Counted, TypeOK
  <2>2. QED
    BY <1>1, <1>3, <1>4, <1>5, <2>1
<1>9. QED
  BY <1>6, <1>7, <1>8

LEMMA RecordedKeeps ==
  ASSUME Books, NEW r \in Receivers, PaymentRecorded(r)
  PROVE  Routed' /\ InHand' /\ Counted'
<1>1. /\ unacked' = unacked /\ deposit' = deposit /\ ready' = ready
      /\ interrupted' = interrupted /\ credited' = credited /\ tx' = tx
      /\ pc[r] = "record"
  BY DEF PaymentRecorded, Go, broker, history
<1>2. \A s \in Receivers : pc'[s] = IF s = r THEN "auto" ELSE pc[s]
  BY DEF PaymentRecorded, Go, Books, TypeOK, Processes
<1>3. tx[r] \in Txs /\ tx[r] \in HalfDone(Receivers) /\ ledger[tx[r]] = 0
  BY <1>1, HalfDoneOf DEF Books, InHand
<1>4. \A s \in Receivers \ {r} : pc[s] # "idle" => tx[s] # tx[r]
  BY <1>1, OneHandles DEF Books
<1>5. HalfDone(Receivers)' = HalfDone(Receivers) \ {tx[r]}
  BY <1>1, <1>2, <1>4 DEF HalfDone
<1>6. \A t \in Txs : ledger'[t] = IF t = tx[r] THEN 1 ELSE ledger[t]
  BY <1>3 DEF PaymentRecorded, Books, TypeOK
<1>7. Routed'
  BY <1>1 DEF Books, Routed
<1>8. InHand'
  BY <1>1, <1>2, <1>3, <1>4, <1>6 DEF Books, InHand
<1>9. Counted'
  <2> SUFFICES ASSUME NEW t \in Txs
               PROVE  /\ ledger'[t] <= 1
                      /\ credited'[t] = ledger'[t] + interrupted'[t] +
                           IF t \in HalfDone(Receivers)' THEN 1 ELSE 0
    BY DEF Counted
  <2>1. /\ ledger[t] <= 1 /\ ledger[t] \in Nat /\ interrupted[t] \in Nat
        /\ credited[t] = ledger[t] + interrupted[t] +
             IF t \in HalfDone(Receivers) THEN 1 ELSE 0
    BY DEF Books, Counted, TypeOK
  <2>2. QED
    BY <1>1, <1>3, <1>5, <1>6, <2>1
<1>10. QED
  BY <1>7, <1>8, <1>9

(***************************************************************************)
(* A handler that breaks off, of one receiver or of all of them, moves the *)
(* deposits it leaves half done from HalfDone to interrupted.              *)
(***************************************************************************)
LEMMA InterruptedCount ==
  ASSUME Books, NEW rs, Interrupt(rs), UNCHANGED <<ledger, credited>>,
         HalfDone(rs) \subseteq HalfDone(Receivers),
         HalfDone(Receivers)' = HalfDone(Receivers) \ HalfDone(rs)
  PROVE  Counted'
<1> SUFFICES ASSUME NEW t \in Txs
             PROVE  /\ ledger'[t] <= 1
                    /\ credited'[t] = ledger'[t] + interrupted'[t] +
                         IF t \in HalfDone(Receivers)' THEN 1 ELSE 0
  BY DEF Counted
<1>1. /\ ledger[t] <= 1 /\ ledger[t] \in Nat /\ interrupted[t] \in Nat
      /\ credited[t] = ledger[t] + interrupted[t] +
           IF t \in HalfDone(Receivers) THEN 1 ELSE 0
  BY DEF Books, Counted, TypeOK
<1>2. interrupted'[t] = interrupted[t] + IF t \in HalfDone(rs) THEN 1 ELSE 0
  BY DEF Interrupt
<1>3. QED
  BY <1>1, <1>2

LEMMA RaisesKeeps ==
  ASSUME Books, NEW r \in Receivers, PaymentRaises(r)
  PROVE  Routed' /\ InHand' /\ Counted'
<1>1. /\ ledger' = ledger /\ deposit' = deposit /\ ready' = ready
      /\ credited' = credited /\ pc[r] # "idle" /\ Interrupt({r})
  BY DEF PaymentRaises, account
<1>2. \A s \in Receivers :
        /\ pc'[s] = IF s = r THEN "idle" ELSE pc[s]
        /\ tx'[s] = IF s = r THEN Nothing ELSE tx[s]
  BY DEF PaymentRaises, Reset, Processes
<1>3. tx[r] \in Txs /\ deposit[tx[r]].network = r
  BY <1>1 DEF Books, InHand
<1>4. Routed'
  <2> SUFFICES ASSUME NEW s \in Receivers, NEW u \in Txs,
                      Holds(ready'[s], u) \/ Holds(unacked'[s], u)
               PROVE  deposit'[u].network = s
    BY DEF Routed
  <2>1. unacked[s] \in Seq(Txs) /\ unacked[r] \in Seq(Txs)
    BY DEF Books, TypeOK
  <2>2. unacked'[s] = IF s = r THEN Append(unacked[r], tx[r]) ELSE unacked[s]
    BY DEF PaymentRaises, Books, TypeOK
  <2>3. Holds(ready[s], u) \/ Holds(unacked[s], u) \/ (s = r /\ u = tx[r])
    BY <1>1, <1>3, <2>1, <2>2, HoldsAppended
  <2>4. QED
    BY <1>1, <1>3, <2>3 DEF Books, Routed
<1>5. InHand'
  BY <1>1, <1>2 DEF Books, InHand
<1>6. \A s \in Receivers \ {r} : pc[s] # "idle" => tx[s] # tx[r]
  BY <1>1, OneHandles DEF Books
<1>7. /\ HalfDone({r}) \subseteq HalfDone(Receivers)
      /\ HalfDone(Receivers)' = HalfDone(Receivers) \ HalfDone({r})
  BY <1>2, <1>6 DEF HalfDone
<1>8. Counted'
  BY <1>1, <1>7, InterruptedCount
<1>9. QED
  BY <1>4, <1>5, <1>8

LEMMA RestartKeeps ==
  ASSUME Books, ReceiverRestart
  PROVE  Routed' /\ InHand' /\ Counted'
<1>1. /\ ledger' = ledger /\ deposit' = deposit /\ credited' = credited
      /\ Interrupt(Receivers)
  BY DEF ReceiverRestart, account
<1>2. \A s \in Receivers : /\ pc'[s] = "idle" /\ tx'[s] = Nothing
                           /\ unacked'[s] = << >>
  BY DEF ReceiverRestart, Reset, Processes
<1>3. Routed'
  <2> SUFFICES ASSUME NEW s \in Receivers, NEW u \in Txs,
                      Holds(ready'[s], u) \/ Holds(unacked'[s], u)
               PROVE  deposit'[u].network = s
    BY DEF Routed
  <2>1. \/ Holds(unacked[s], u) \/ Holds(ready[s], u)
        \/ pc[s] # "idle" /\ u = tx[s]
    BY <1>2, HoldsNothing, RestartedQueue DEF Books
  <2>2. QED
    BY <1>1, <2>1 DEF Books, Routed, InHand
<1>4. InHand'
  BY <1>2 DEF InHand
<1>5. HalfDone(Receivers)' = {}
  BY <1>2 DEF HalfDone
<1>6. Counted'
  BY <1>1, <1>5, InterruptedCount
<1>7. QED
  BY <1>3, <1>4, <1>6
-----------------------------------------------------------------------------
(***************************************************************************)
(* The inductive invariant, and what follows from it.                      *)
(***************************************************************************)
LEMMA BooksInit == Init => Books
<1> SUFFICES ASSUME Init PROVE Books
  OBVIOUS
<1>1. TypeOK
  BY TypeInit
<1>2. Routed
  BY HoldsNothing DEF Init, Routed
<1>3. InHand
  BY DEF Init, InHand, Processes
<1>4. HalfDone(Receivers) = {}
  BY DEF Init, HalfDone, Processes
<1>5. Counted
  BY <1>4 DEF Init, Counted
<1>6. QED
  BY <1>1, <1>2, <1>3, <1>5 DEF Books

LEMMA BooksNext == Books /\ [Next]_vars => Books'
<1> SUFFICES ASSUME Books, [Next]_vars PROVE Books'
  OBVIOUS
<1>0. TypeOK /\ InHand
  BY DEF Books
<1>1. CASE Deposits
  <2>1. PICK t \in Txs, r \in Receivers : Announce(t, r)
    BY <1>1 DEF Deposits
  <2>2. QED
    BY <1>0, <1>1, <2>1, TypeDeposits, AnnounceKeeps DEF Books
<1>2. ASSUME NEW r \in Receivers, Receive(r) PROVE Books'
  <2>1. TypeOK'
    BY <1>0, <1>2, TypeReceive
  <2>2. Routed' /\ InHand' /\ Counted'
    BY <1>2, RepeatedKeeps, TakenKeeps, CreditedKeeps, RecordedKeeps DEF Receive
  <2>3. QED
    BY <2>1, <2>2 DEF Books
<1>3. ASSUME NEW p \in Processes, Autodeploy(p) PROVE Books'
  BY <1>0, <1>3, TypeAutodeploy, AutodeployIsQuiet, QuietKeeps DEF Books
<1>4. ASSUME NEW q \in Confirmers, Confirm(q) PROVE Books'
  BY <1>0, <1>4, TypeConfirm, ConfirmIsQuiet, QuietKeeps DEF Books
<1>5. CASE Failure
  <2>1. TypeOK'
    BY <1>0, <1>5, TypeFailure
  <2>2. ASSUME NEW q \in Confirmers, RequestDies(q)
        PROVE  Routed' /\ InHand' /\ Counted'
    BY <1>0, <2>2, DeathIsQuiet, QuietKeeps
  <2>3. Routed' /\ InHand' /\ Counted'
    BY <1>5, <2>2, RaisesKeeps, RestartKeeps DEF Failure
  <2>4. QED
    BY <2>1, <2>3 DEF Books
<1>6. CASE UNCHANGED vars
  <2>1. /\ UNCHANGED account /\ UNCHANGED state /\ UNCHANGED broker
        /\ UNCHANGED local /\ UNCHANGED history /\ UNCHANGED faults
    BY <1>6 DEF vars
  <2>2. TypeOK'
    BY <1>0, <2>1 DEF TypeOK, account, broker, local, history
  <2>3. Quiet
    BY <2>1 DEF Quiet, Onward, account, broker, local, history
  <2>4. QED
    BY <2>2, <2>3, QuietKeeps DEF Books
<1>7. QED
  BY <1>1, <1>2, <1>3, <1>4, <1>5, <1>6 DEF Next

(***************************************************************************)
(* The variables keep their types (create_payment, autodeploing,           *)
(* deploy_swaps and the receiver's callback).                              *)
(***************************************************************************)
THEOREM PaymentsTyped == Spec => []TypeOK
<1>1. Books => TypeOK
  BY DEF Books
<1>2. QED
  BY <1>1, BooksInit, BooksNext, PTL DEF Spec

(***************************************************************************)
(* A deposit has at most one InternalPayment row: create_payment's look-up *)
(* by tx_hash is not atomic with the row it writes, but one receiver       *)
(* handles all of a network's messages, one after the other.               *)
(***************************************************************************)
THEOREM DepositRecordedOnce == Spec => []RecordedOnce
<1>1. Books => RecordedOnce
  BY DEF Books, Counted, RecordedOnce
<1>2. QED
  BY <1>1, BooksInit, BooksNext, PTL DEF Spec

(***************************************************************************)
(* create_payment adds a deposit to the balance once, and once more for    *)
(* each time it broke off between the balance and the InternalPayment row. *)
(***************************************************************************)
THEOREM DepositCreditsExplained == Spec => []CreditsExplained
<1>1. ASSUME Books PROVE CreditsExplained
  <2>1. ASSUME NEW t \in Txs
        PROVE  /\ credited[t] <= 1 + interrupted[t]
               /\ ledger[t] > 0 => credited[t] > 0
    <3>1. /\ ledger[t] <= 1 /\ ledger[t] \in Nat /\ interrupted[t] \in Nat
          /\ credited[t] = ledger[t] + interrupted[t] +
               IF t \in HalfDone(Receivers) THEN 1 ELSE 0
      BY <1>1 DEF Books, Counted, TypeOK
    <3>2. t \in HalfDone(Receivers) => ledger[t] = 0
      BY <1>1 DEF Books, InHand, HalfDone
    <3>3. QED
      BY <3>1, <3>2
  <2>2. QED
    BY <2>1 DEF CreditsExplained
<1>2. QED
  BY <1>1, BooksInit, BooksNext, PTL DEF Spec
-----------------------------------------------------------------------------
(***************************************************************************)
(* The balance.                                                            *)
(***************************************************************************)
LEMMA OverdrawnNever ==
  ASSUME TypeOK, InHand, NeverOverdrawn, [Next]_vars
  PROVE  NeverOverdrawn'
<1> USE DEF NeverOverdrawn
<1>1. ASSUME NEW p \in Processes, Debit(p) \/ DebitAgain(p) PROVE NeverOverdrawn'
  BY <1>1, Charged, PriceTyped DEF Debit, DebitAgain
<1>2. ASSUME NEW r \in Receivers, PaymentCredited(r) PROVE NeverOverdrawn'
  <2>1. tx[r] \in Txs
    BY <1>2 DEF PaymentCredited, Go, InHand
  <2>2. deposit[tx[r]].amount \in Nat /\ balance \in Int
    BY <2>1, DepositAmount DEF TypeOK
  <2>3. QED
    BY <1>2, <2>2 DEF PaymentCredited
<1>3. CASE balance' = balance
  BY <1>3
<1>4. ASSUME NEW p \in Processes, Autodeploy(p), ~Debit(p), ~DebitAgain(p)
      PROVE  balance' = balance
  BY <1>4 DEF Autodeploy, ReadBalance, ListWaiting, Visit, AutodeployDone,
              OpenContract, CheckFunds, DebitFails, RecordDebit, SaveContract,
              SendLaunch, RefreshBalance, account
<1>5. ASSUME NEW r \in Receivers, Receive(r), ~PaymentCredited(r)
      PROVE  balance' = balance
  BY <1>5 DEF Receive, PaymentRepeated, PaymentTaken, PaymentRecorded, account
<1>6. ASSUME NEW q \in Confirmers, Confirm(q) PROVE balance' = balance
  BY <1>6 DEF Confirm, ConfirmRead, SaveOther, ListOthers, OthersSaved,
              ConfirmSave, account
<1>7. CASE Deposits
  BY <1>3, <1>7 DEF Deposits, Announce, account
<1>8. CASE Failure
  BY <1>3, <1>8 DEF Failure, PaymentRaises, ReceiverRestart, RequestDies, account
<1>9. CASE UNCHANGED vars
  BY <1>3, <1>9 DEF vars, account
<1>10. QED
  BY <1>1, <1>2, <1>3, <1>4, <1>5, <1>6, <1>7, <1>8, <1>9 DEF Next

(***************************************************************************)
(* However many processes have checked the balance before they charge it,  *)
(* negative_payment's UPDATE never makes it negative.                      *)
(***************************************************************************)
THEOREM BalanceNeverOverdrawn == Spec => []NeverOverdrawn
<1>1. Init => NeverOverdrawn
  BY DEF Init, NeverOverdrawn
<1>2. Books => TypeOK /\ InHand
  BY DEF Books
<1>3. QED
  BY <1>1, <1>2, BooksInit, BooksNext, OverdrawnNever, PTL DEF Spec

-----------------------------------------------------------------------------
(***************************************************************************)
(* Deposits that were announced.  Found is NeverForgotten's claim of one   *)
(* deposit t of network r.                                                 *)
(***************************************************************************)
Found(t, r) ==
  \/ ledger[t] > 0
  \/ Holds(ready[r], t)
  \/ Holds(unacked[r], t)
  \/ tx[r] = t

LEMMA PaidNetwork ==
  ASSUME TypeOK, NEW t \in Txs, deposit[t] # NotPaid
  PROVE  deposit[t].network \in Receivers
<1>1. deposit[t] \in [network: Receivers, amount: Amounts]
  BY DEF TypeOK
<1>2. QED
  BY <1>1

LEMMA AnnounceFinds ==
  ASSUME Books, NeverForgotten, NEW t \in Txs, NEW r \in Receivers, Announce(t, r)
  PROVE  NeverForgotten'
<1> SUFFICES ASSUME NEW u \in Txs, deposit'[u] # NotPaid,
                    NEW s, s = deposit'[u].network
             PROVE  Found(u, s)'
  BY DEF NeverForgotten, Found
<1>1. /\ ledger' = ledger /\ unacked' = unacked /\ tx' = tx
      /\ ready[r] \in Seq(Txs)
      /\ \A o \in Receivers :
           ready'[o] = IF o = r THEN Append(ready[r], t) ELSE ready[o]
  BY DEF Announce, account, local, Books, TypeOK
<1>2. CASE u = t
  <2>1. deposit'[t].network = r
    <3>1. CASE deposit[t].network = r /\ UNCHANGED deposit
      BY <3>1
    <3>2. ASSUME NEW a \in Amounts,
                 deposit' = [deposit EXCEPT ![t] = [network |-> r, amount |-> a]]
          PROVE  deposit'[t].network = r
      <4>1. deposit'[t] = [network |-> r, amount |-> a]
        BY <3>2 DEF Books, TypeOK
      <4>2. QED
        BY <4>1
    <3>3. QED
      BY <3>1, <3>2 DEF Announce
  <2>2. Holds(ready'[r], t)
    BY <1>1, HoldsAppended
  <2>3. QED
    BY <1>2, <2>1, <2>2 DEF Found
<1>3. CASE u # t
  <2>1. deposit'[u] = deposit[u]
    BY <1>3 DEF Announce, Books, TypeOK
  <2>2. deposit[u].network \in Receivers
    BY <2>1, PaidNetwork DEF Books
  <2>3. Found(u, deposit[u].network)
    BY <2>1 DEF NeverForgotten, Found
  <2>4. Holds(ready[deposit[u].network], u) => Holds(ready'[deposit[u].network], u)
    BY <1>1, <2>2, HoldsAppended
  <2>5. QED
    BY <1>1, <2>1, <2>3, <2>4 DEF Found
<1>4. QED
  BY <1>2, <1>3

LEMMA DepositsStay ==
  ASSUME Books, NeverForgotten, UNCHANGED deposit,
         \A u \in Txs, s \in Receivers : Found(u, s) => Found(u, s)'
  PROVE  NeverForgotten'
<1> SUFFICES ASSUME NEW u \in Txs, deposit'[u] # NotPaid,
                    NEW s, s = deposit'[u].network
             PROVE  Found(u, s)'
  BY DEF NeverForgotten, Found
<1>1. deposit[u].network \in Receivers /\ Found(u, deposit[u].network)
  BY PaidNetwork DEF Books, NeverForgotten, Found
<1>2. QED
  BY <1>1

LEMMA ReceiveFinds ==
  ASSUME Books, NeverForgotten, NEW r \in Receivers, Receive(r)
  PROVE  NeverForgotten'
<1>1. deposit' = deposit /\ unacked' = unacked
  BY DEF Receive, PaymentRepeated, PaymentTaken, PaymentCredited,
         PaymentRecorded, broker
<1> SUFFICES ASSUME NEW u \in Txs, NEW s \in Receivers, Found(u, s)
             PROVE  Found(u, s)'
  BY <1>1, DepositsStay
<1> USE DEF Found
<1>2. ready[r] \in Seq(Txs)
  BY DEF Books, TypeOK
<1>3. CASE PaymentRepeated(r)
  <2>1. /\ ledger' = ledger /\ tx' = tx /\ ready[r] # << >>
        /\ ledger[Head(ready[r])] > 0
        /\ ready'[s] = IF s = r THEN Tail(ready[r]) ELSE ready[s]
    BY <1>3 DEF PaymentRepeated, account, local, Books, TypeOK
  <2>2. Holds(ready[s], u) => Holds(ready'[s], u) \/ ledger[u] > 0
    BY <1>2, <2>1, HoldsTaken
  <2>3. QED
    BY <1>1, <2>1, <2>2
<1>4. CASE PaymentTaken(r)
  <2>1. /\ ledger' = ledger /\ pc[r] = "idle" /\ ready[r] # << >>
        /\ ready'[s] = IF s = r THEN Tail(ready[r]) ELSE ready[s]
        /\ tx'[s] = IF s = r THEN Head(ready[r]) ELSE tx[s]
    BY <1>4 DEF PaymentTaken, Go, account, Books, TypeOK, Processes
  <2>2. Holds(ready[s], u) => Holds(ready'[s], u) \/ tx'[s] = u
    BY <1>2, <2>1, HoldsTaken
  <2>3. s = r => tx[s] # u
    BY <2>1, NothingIsNothing DEF Books, InHand
  <2>4. QED
    BY <1>1, <2>1, <2>2, <2>3
<1>5. CASE PaymentCredited(r)
  BY <1>5 DEF PaymentCredited, broker
<1>6. CASE PaymentRecorded(r)
  <2>1. tx' = tx /\ ready' = ready /\ unacked' = unacked
    BY <1>6 DEF PaymentRecorded, broker
  <2>2. ledger'[u] = IF u = tx[r] THEN ledger[u] + 1 ELSE ledger[u]
    BY <1>6 DEF PaymentRecorded, Books, TypeOK
  <2>3. ledger[u] \in Nat
    BY DEF Books, TypeOK
  <2>4. QED
    BY <2>1, <2>2, <2>3
<1>7. QED
  BY <1>3, <1>4, <1>5, <1>6 DEF Receive

LEMMA QuietFinds ==
  ASSUME Books, NeverForgotten, Quiet
  PROVE  NeverForgotten'
<1>1. /\ deposit' = deposit /\ ready' = ready /\ unacked' = unacked
      /\ \A t \in Txs : ledger'[t] = ledger[t]
  BY DEF Quiet
<1>2. ASSUME NEW u \in Txs, NEW s \in Receivers, tx[s] = u, tx'[s] # u
      PROVE  ledger[u] > 0
  <2>1. pc[s] \in AutoSteps
    BY <1>2 DEF Quiet, Onward
  <2>2. ledger[u] # 0 /\ ledger[u] \in Nat
    BY <1>2, <2>1 DEF Books, InHand, TypeOK, AutoSteps
  <2>3. QED
    BY <2>2
<1>3. QED
  BY <1>1, <1>2, DepositsStay DEF Found

LEMMA FailureFinds ==
  ASSUME Books, NeverForgotten, Failure
  PROVE  NeverForgotten'
<1>1. ASSUME NEW r \in Receivers, PaymentRaises(r) PROVE NeverForgotten'
  <2>1. deposit' = deposit /\ ledger' = ledger /\ ready' = ready /\ pc[r] # "idle"
    BY <1>1 DEF PaymentRaises, account
  <2> SUFFICES ASSUME NEW u \in Txs, NEW s \in Receivers, Found(u, s)
               PROVE  Found(u, s)'
    BY <2>1, DepositsStay
  <2>2. /\ unacked[r] \in Seq(Txs) /\ tx[r] \in Txs
        /\ unacked'[s] = IF s = r THEN Append(unacked[r], tx[r]) ELSE unacked[s]
        /\ tx'[s] = IF s = r THEN Nothing ELSE tx[s]
    BY <1>1, <2>1 DEF PaymentRaises, Reset, Processes, Books, TypeOK, InHand
  <2>3. /\ Holds(unacked[s], u) => Holds(unacked'[s], u)
        /\ tx[s] = u => Holds(unacked'[s], u) \/ tx'[s] = u
    BY <2>2, HoldsAppended
  <2>4. QED
    BY <2>1, <2>3 DEF Found
<1>2. CASE ReceiverRestart
  <2>1. deposit' = deposit /\ ledger' = ledger
    BY <1>2 DEF ReceiverRestart, account
  <2> SUFFICES ASSUME NEW u \in Txs, NEW s \in Receivers, Found(u, s)
               PROVE  Found(u, s)'
    BY <2>1, DepositsStay
  <2>2. Holds(ready'[s], u) <=> \/ Holds(unacked[s], u) \/ Holds(ready[s], u)
                                \/ pc[s] # "idle" /\ u = tx[s]
    BY <1>2, RestartedQueue DEF Books
  <2>3. tx[s] = u => pc[s] # "idle"
    BY NothingIsNothing DEF Books, InHand
  <2>4. QED
    BY <2>1, <2>2, <2>3 DEF Found
<1>3. ASSUME NEW q \in Confirmers, RequestDies(q) PROVE NeverForgotten'
  BY <1>3, DeathIsQuiet, QuietFinds DEF Books
<1>4. QED
  BY <1>1, <1>2, <1>3 DEF Failure

(***************************************************************************)
(* A deposit that was announced is recorded, queued, in hand, or kept by   *)
(* the broker for the receiver's next start: the receiver acks its message *)
(* only after the InternalPayment row was written.                         *)
(***************************************************************************)
THEOREM DepositNeverForgotten == Spec => []NeverForgotten
<1>1. Init => NeverForgotten
  BY DEF Init, NeverForgotten
<1>2. ASSUME Books, NeverForgotten, [Next]_vars PROVE NeverForgotten'
  <2>0. TypeOK
    BY <1>2 DEF Books
  <2>1. CASE Deposits
    BY <1>2, <2>1, AnnounceFinds DEF Deposits
  <2>2. ASSUME NEW p \in Processes, Autodeploy(p) PROVE NeverForgotten'
    BY <1>2, <2>0, <2>2, AutodeployIsQuiet, QuietFinds
  <2>3. ASSUME NEW q \in Confirmers, Confirm(q) PROVE NeverForgotten'
    BY <1>2, <2>0, <2>3, ConfirmIsQuiet, QuietFinds
  <2>4. CASE UNCHANGED vars
    BY <1>2, <2>4, QuietFinds
       DEF Quiet, Onward, vars, account, broker, local, history
  <2>5. QED
    BY <1>2, <2>1, <2>2, <2>3, <2>4, ReceiveFinds, FailureFinds DEF Next
<1>3. QED
  BY <1>1, <1>2, BooksInit, BooksNext, PTL DEF Spec

=============================================================================
