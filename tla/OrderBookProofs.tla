-------------------------- MODULE OrderBookProofs --------------------------
(***************************************************************************)
(* Theorems about OrderBook, for every set of writers and tasks and every  *)
(* number of requests.                                                     *)
(***************************************************************************)
EXTENDS OrderBook, SequenceTheorems, TLAPS

(***************************************************************************)
(* What is marked is earned, also in the copies nobody will save.          *)
(***************************************************************************)
AllEarned ==
  /\ Earned(order)
  /\ \A w \in Writers : Earned(writer[w].copy)
  /\ \A l \in Tasks : Earned(task[l].copy)

(***************************************************************************)
(* A task that has a receipt in hand is not wrong about it.                *)
(***************************************************************************)
InHand ==
  \A l \in Tasks : \A kind \in Kinds :
    task[l].at = Received[kind] => kind \in receipts

(***************************************************************************)
(* A task that is about to pay, and a wallet that has paid, found the      *)
(* contract filled.                                                        *)
(***************************************************************************)
Paying == {"swap", "swapWait", "swapReceipt", "deposit", "depositWait",
           "depositReceipt"}

Funded ==
  /\ (\E l \in Tasks : task[l].at \in Paying) => contract # "open"
  /\ (swapSent \/ pending.kind # "none" \/ receipts # {}) => contract # "open"

Ledger == TypeOK /\ AllEarned /\ InHand /\ Funded
-----------------------------------------------------------------------------
LEMMA NewOrderIsPlain ==
  /\ NewOrder \in Orders /\ Earned(NewOrder)
  /\ ExchangeOrder \in Orders /\ Earned(ExchangeOrder)
  <1>1. NewOrder \in Orders /\ Earned(NewOrder)
    BY DEF NewOrder, Orders, OrderStates, Earned
  <1>2. ExchangeOrder \in Orders
    BY <1>1 DEF ExchangeOrder, Orders, OrderStates
  <1>3. /\ ExchangeOrder.state = "ACTIVE"
        /\ ExchangeOrder.closed = NewOrder.closed
        /\ ExchangeOrder.swapped = NewOrder.swapped
    BY <1>1 DEF ExchangeOrder, Orders
  <1> QED
    BY <1>1, <1>2, <1>3 DEF Earned

(***************************************************************************)
(* What a request or a message makes of an order changes no mark but the   *)
(* state, and never to "done".                                             *)
(***************************************************************************)
LEMMA WrittenIsEarned ==
  ASSUME NEW op \in Operations, NEW o \in Orders, Earned(o),
         NEW p \in Written(op, o)
  PROVE  p \in Orders /\ Earned(p)
  <1>1. Limit \in Int
    BY DEF Limit
  <1>2. CASE op = "edit"
    BY <1>1, <1>2 DEF Written, Orders, OrderStates, Earned
  <1>3. CASE op = "view"
    BY <1>3 DEF Written, Expired, Orders, OrderStates, Earned
  <1>4. CASE op = "delete"
    BY <1>4 DEF Written, Orders, OrderStates, Earned
  <1>5. CASE op = "cancel"
    BY <1>5 DEF Written, Orders, OrderStates, Earned
  <1>6. CASE op = "detach"
    BY <1>6 DEF Written, Detached
  <1> QED
    BY <1>2, <1>3, <1>4, <1>5, <1>6 DEF Operations

LEMMA BaseIsFree ==
  ASSUME NEW o \in Orders, Earned(o), NEW b \in Int
  PROVE  [o EXCEPT !.base = b] \in Orders /\ Earned([o EXCEPT !.base = b])
  BY DEF Orders, Earned

WriterRecords == [op: Operations \cup Messages \cup {"none"}, copy: Orders]
TaskRecords   == [at: TaskPlaces, copy: Orders]
Transactions  == [kind: Kinds \cup {"none"}, waits: SUBSET Tasks]

LEMMA RestIsTyped ==
  /\ Free \in WriterRecords
  /\ Resting \in TaskRecords
  /\ Nothing \in Transactions
  <1>1. Free \in WriterRecords
    BY NewOrderIsPlain DEF Free, WriterRecords
  <1>2. Resting \in TaskRecords
    BY NewOrderIsPlain DEF Resting, TaskRecords, TaskPlaces
  <1>3. Nothing \in Transactions
    BY DEF Nothing, Transactions
  <1> QED
    BY <1>1, <1>2, <1>3

LEMMA InitLedger == Init => Ledger
  <1> SUFFICES ASSUME Init PROVE Ledger
    OBVIOUS
  <1>1. TypeOK
    <2>1. queue \in Seq(Messages)
      BY DEF Init
    <2>2. writer \in [Writers -> WriterRecords] /\ task \in [Tasks -> TaskRecords]
      BY RestIsTyped DEF Init
    <2>3. pending \in Transactions
      BY RestIsTyped DEF Init
    <2>4. order \in Orders
      BY NewOrderIsPlain DEF Init
    <2>5. requests \in 0..MaxRequests
      BY MaxRequestsIsNat DEF Init
    <2> QED
      BY <2>1, <2>2, <2>3, <2>4, <2>5
         DEF Init, TypeOK, WriterRecords, TaskRecords, Transactions
  <1>2. AllEarned
    BY NewOrderIsPlain DEF Init, AllEarned, Free, Resting
  <1>3. InHand
    BY DEF Init, InHand, Resting, Received, Kinds
  <1>4. Funded
    BY DEF Init, Funded, Paying, Resting, Nothing
  <1> QED
    BY <1>1, <1>2, <1>3, <1>4 DEF Ledger
-----------------------------------------------------------------------------
(***************************************************************************)
(* A writer puts its copy down, or takes one that is earned, and the row   *)
(* is what it was or something earned; the limiter and the wallet rest.    *)
(***************************************************************************)
WebKeeps(w, record, o) ==
  /\ writer' = [writer EXCEPT ![w] = record]
  /\ order' = o
  /\ UNCHANGED <<pair, task, contract, wallet>>

LEMMA WebStepKeeps ==
  ASSUME Ledger, NEW w \in Writers, NEW record \in WriterRecords, NEW o \in Orders,
         Earned(record.copy), Earned(o), WebKeeps(w, record, o),
         exists' \in BOOLEAN, mishap' \in BOOLEAN, queue' \in Seq(Messages),
         requests' \in 0..MaxRequests
  PROVE  Ledger'
  <1> USE DEF WebKeeps, wallet
  <1>1. TypeOK'
    <2>1. writer' \in [Writers -> WriterRecords]
      BY DEF Ledger, TypeOK, WriterRecords
    <2> QED
      BY <2>1 DEF Ledger, TypeOK, WriterRecords
  <1>2. AllEarned'
    <2>1. \A v \in Writers : writer'[v] = record \/ writer'[v] = writer[v]
      BY DEF Ledger, TypeOK
    <2>2. \A v \in Writers : Earned(writer'[v].copy)
      BY <2>1 DEF Ledger, AllEarned
    <2> QED
      BY <2>2 DEF Ledger, AllEarned, Earned
  <1>3. InHand' /\ Funded'
    BY DEF Ledger, InHand, Funded
  <1> QED
    BY <1>1, <1>2, <1>3 DEF Ledger

(***************************************************************************)
(* A task moves on with an earned copy: it has a receipt if it says so,    *)
(* and the contract was filled if it is about to pay.                      *)
(***************************************************************************)
LEMMA TaskStepKeeps ==
  ASSUME Ledger, NEW l \in Tasks, NEW record \in TaskRecords, NEW o \in Orders,
         Earned(record.copy), Earned(o),
         task' = [task EXCEPT ![l] = record], order' = o,
         record.at \in Paying => contract # "open",
         \A kind \in Kinds : record.at # Received[kind],
         pending' \in Transactions, swapSent' \in BOOLEAN, exists' \in BOOLEAN,
         mishap' \in BOOLEAN,
         (swapSent' \/ pending'.kind # "none")
           => (swapSent \/ pending.kind # "none" \/ contract # "open"),
         UNCHANGED <<pair, writer, queue, contract, receipts, requests>>
  PROVE  Ledger'
  <1>1. TypeOK'
    <2>1. task' \in [Tasks -> TaskRecords]
      BY DEF Ledger, TypeOK, TaskRecords
    <2> QED
      BY <2>1 DEF Ledger, TypeOK, TaskRecords, Transactions
  <1>2. \A k \in Tasks : task'[k] = record \/ task'[k] = task[k]
    BY DEF Ledger, TypeOK
  <1>3. AllEarned'
    <2>1. \A k \in Tasks : Earned(task'[k].copy)
      BY <1>2 DEF Ledger, AllEarned
    <2> QED
      BY <2>1 DEF Ledger, AllEarned, Earned
  <1>4. InHand'
    BY <1>2 DEF Ledger, InHand
  <1>5. Funded'
    BY <1>2 DEF Ledger, Funded
  <1> QED
    BY <1>1, <1>3, <1>4, <1>5 DEF Ledger
-----------------------------------------------------------------------------
LEMMA CopiesAreEarned ==
  ASSUME Ledger
  PROVE  /\ order \in Orders /\ Earned(order)
         /\ \A w \in Writers : writer[w].copy \in Orders /\ Earned(writer[w].copy)
         /\ \A l \in Tasks : task[l].copy \in Orders /\ Earned(task[l].copy)
  BY DEF Ledger, AllEarned, TypeOK

LEMMA SaveIsTyped ==
  ASSUME NEW o, Save(o), mishap \in BOOLEAN
  PROVE  order' = o /\ exists' \in BOOLEAN /\ mishap' \in BOOLEAN
  BY DEF Save

LEMMA RequestReadKeeps ==
  ASSUME Ledger, NEW w \in Writers, NEW op \in Operations, RequestRead(w, op)
  PROVE  Ledger'
  <1> DEFINE record == [op |-> op, copy |-> order]
  <1>1. record \in WriterRecords /\ Earned(record.copy)
    BY CopiesAreEarned DEF WriterRecords
  <1>2. requests' \in 0..MaxRequests
    BY MaxRequestsIsNat DEF RequestRead, AskToChange, Ledger, TypeOK
  <1>3. WebKeeps(w, record, order)
    BY DEF RequestRead, WebKeeps, row
  <1>4. exists' \in BOOLEAN /\ mishap' \in BOOLEAN /\ queue' \in Seq(Messages)
    BY DEF RequestRead, row, Ledger, TypeOK
  <1> HIDE DEF record
  <1> QED
    BY <1>1, <1>2, <1>3, <1>4, CopiesAreEarned, WebStepKeeps

LEMMA RequestSaveKeeps ==
  ASSUME Ledger, NEW w \in Writers, RequestSave(w)
  PROVE  Ledger'
  <1>1. PICK o \in Written(writer[w].op, writer[w].copy) : Save(o)
    BY DEF RequestSave
  <1>2. o \in Orders /\ Earned(o)
    <2>1. writer[w].op \in Operations
      BY DEF RequestSave
    <2> QED
      BY <2>1, CopiesAreEarned, WrittenIsEarned
  <1>3. exists' \in BOOLEAN /\ mishap' \in BOOLEAN /\ order' = o
    BY <1>1, SaveIsTyped DEF Ledger, TypeOK
  <1>4. WebKeeps(w, Free, o)
    BY <1>3 DEF RequestSave, WebKeeps
  <1>5. queue' \in Seq(Messages) /\ requests' \in 0..MaxRequests
    BY DEF RequestSave, Ledger, TypeOK
  <1>6. Earned(Free.copy)
    BY NewOrderIsPlain DEF Free
  <1> QED
    BY <1>2, <1>3, <1>4, <1>5, <1>6, RestIsTyped, WebStepKeeps

LEMMA AdminDeleteKeeps ==
  ASSUME Ledger, AdminDelete
  PROVE  Ledger'
  <1>1. requests' \in 0..MaxRequests
    BY MaxRequestsIsNat DEF AdminDelete, AskToChange, Ledger, TypeOK
  <1>2. TypeOK'
    BY <1>1 DEF AdminDelete, Ledger, TypeOK, wallet
  <1>3. AllEarned' /\ InHand' /\ Funded'
    BY DEF AdminDelete, Ledger, AllEarned, Earned, InHand, Funded, wallet
  <1> QED
    BY <1>2, <1>3 DEF Ledger

LEMMA MessageReadKeeps ==
  ASSUME Ledger, NEW w \in Writers, MessageRead(w)
  PROVE  Ledger'
  <1> DEFINE record == [op |-> Head(queue), copy |-> order]
  <1>1. Head(queue) \in Messages /\ queue' \in Seq(Messages)
    BY HeadTailProperties DEF MessageRead, Ledger, TypeOK
  <1>2. record \in WriterRecords /\ Earned(record.copy)
    BY <1>1, CopiesAreEarned DEF WriterRecords
  <1>3. WebKeeps(w, record, order)
    BY DEF MessageRead, WebKeeps, row
  <1>4. exists' \in BOOLEAN /\ mishap' \in BOOLEAN /\ requests' \in 0..MaxRequests
    BY DEF MessageRead, row, Ledger, TypeOK
  <1> HIDE DEF record
  <1> QED
    BY <1>1, <1>2, <1>3, <1>4, CopiesAreEarned, WebStepKeeps

LEMMA MessageSaveKeeps ==
  ASSUME Ledger, NEW w \in Writers, MessageSave(w)
  PROVE  Ledger'
  <1> DEFINE copy == writer[w].copy
             b == copy.base + Contribution(writer[w].op)
             o == [copy EXCEPT !.base = b]
  <1>1. copy \in Orders /\ Earned(copy)
    BY CopiesAreEarned
  <1>2. b \in Int
    <2>1. copy.base \in Int
      BY <1>1 DEF Orders
    <2>2. Contribution(writer[w].op) \in Int
      BY DEF MessageSave, Contribution, Messages, Limit
    <2> QED
      BY <2>1, <2>2
  <1>3. o \in Orders /\ Earned(o)
    <2> HIDE DEF b, copy
    <2> QED
      BY <1>1, <1>2, BaseIsFree
  <1>4. Save(o)
    BY <1>1 DEF MessageSave, Orders
  <1>5. exists' \in BOOLEAN /\ mishap' \in BOOLEAN /\ order' = o
    <2> HIDE DEF o
    <2> QED
      BY <1>4, SaveIsTyped DEF Ledger, TypeOK
  <1>6. WebKeeps(w, Free, o)
    BY <1>5 DEF MessageSave, WebKeeps
  <1>7. queue' \in Seq(Messages) /\ requests' \in 0..MaxRequests
    <2>1. queue \in Seq(Messages) /\ requests \in 0..MaxRequests
      BY DEF Ledger, TypeOK
    <2>2. CASE UNCHANGED <<queue, requests>>
      BY <2>1, <2>2
    <2>3. CASE AskToChange /\ queue' = <<writer[w].op>> \o queue
      <3>1. writer[w].op \in Messages
        BY DEF MessageSave
      <3>2. queue' \in Seq(Messages)
        BY <2>1, <2>3, <3>1
      <3>3. requests' \in 0..MaxRequests
        BY <2>1, <2>3, MaxRequestsIsNat DEF AskToChange
      <3> QED
        BY <3>2, <3>3
    <2> QED
      BY <2>2, <2>3 DEF MessageSave, AckOrDie
  <1>8. Earned(Free.copy)
    BY NewOrderIsPlain DEF Free
  <1> HIDE DEF o
  <1> QED
    BY <1>3, <1>5, <1>6, <1>7, <1>8, RestIsTyped, WebStepKeeps

LEMMA MessageRaisesKeeps ==
  ASSUME Ledger, MessageRaises
  PROVE  Ledger'
  <1>1. queue' \in Seq(Messages)
    BY HeadTailProperties DEF MessageRaises, Ledger, TypeOK
  <1>2. TypeOK'
    BY <1>1 DEF MessageRaises, Ledger, TypeOK, row, wallet
  <1>3. AllEarned' /\ InHand' /\ Funded'
    BY DEF MessageRaises, Ledger, AllEarned, Earned, InHand, Funded, row, wallet
  <1> QED
    BY <1>2, <1>3 DEF Ledger
-----------------------------------------------------------------------------
(***************************************************************************)
(* What the steps of a task have in common: it moves with an earned copy,  *)
(* and the row is that copy or what it was.                                *)
(***************************************************************************)
LEMMA GoKeeps ==
  ASSUME Ledger, NEW l \in Tasks, NEW from, NEW to \in TaskPlaces,
         NEW copy \in Orders, NEW o \in Orders, Earned(copy), Earned(o),
         Go(l, from, to, copy), order' = o,
         to \in Paying => from \in Paying \/ contract # "open",
         \A kind \in Kinds : to # Received[kind],
         exists' \in BOOLEAN, mishap' \in BOOLEAN,
         pending' \in Transactions, swapSent' \in BOOLEAN,
         swapSent' \/ pending'.kind # "none"
           => swapSent \/ pending.kind # "none" \/ from \in Paying,
         UNCHANGED <<pair, writer, queue, contract, receipts, requests>>
  PROVE  Ledger'
  <1> DEFINE record == [at |-> to, copy |-> copy]
  <1>1. record \in TaskRecords /\ Earned(record.copy)
    BY DEF TaskRecords
  <1>2. from \in Paying => contract # "open"
    BY DEF Go, Ledger, Funded
  <1>3. record.at \in Paying => contract # "open"
    BY <1>2
  <1>4. \A kind \in Kinds : record.at # Received[kind]
    OBVIOUS
  <1>5. task' = [task EXCEPT ![l] = record]
    BY DEF Go
  <1>6. swapSent' \/ pending'.kind # "none"
          => swapSent \/ pending.kind # "none" \/ contract # "open"
    BY <1>2
  <1> HIDE DEF record
  <1> QED
    BY <1>1, <1>3, <1>4, <1>5, <1>6, TaskStepKeeps

\* The wallet rests.
LEMMA QuietGoKeeps ==
  ASSUME Ledger, NEW l \in Tasks, NEW from, NEW to \in TaskPlaces,
         NEW copy \in Orders, NEW o \in Orders, Earned(copy), Earned(o),
         Go(l, from, to, copy), order' = o,
         to \in Paying => from \in Paying \/ contract # "open",
         \A kind \in Kinds : to # Received[kind],
         exists' \in BOOLEAN, mishap' \in BOOLEAN,
         UNCHANGED <<pair, writer, queue, contract, wallet, requests>>
  PROVE  Ledger'
  <1>1. pending' \in Transactions /\ swapSent' \in BOOLEAN
    BY DEF wallet, Ledger, TypeOK, Transactions
  <1>2. UNCHANGED <<pair, writer, queue, contract, receipts, requests>>
    BY DEF wallet
  <1>3. swapSent' \/ pending'.kind # "none"
          => swapSent \/ pending.kind # "none" \/ from \in Paying
    BY DEF wallet
  <1> QED
    BY <1>1, <1>2, <1>3, GoKeeps

LEMMA ReadingKeeps ==
  ASSUME Ledger, NEW l \in Tasks
  PROVE  RefreshRead(l) \/ Match(l) \/ ConfirmRead(l) => Ledger'
  <1>1. order \in Orders /\ Earned(order)
    BY CopiesAreEarned
  <1>2. exists \in BOOLEAN /\ mishap \in BOOLEAN
    BY DEF Ledger, TypeOK
  <1>3. \A place \in {"refresh", "hide", "check"} :
          /\ place \in TaskPlaces
          /\ place \notin Paying
          /\ \A kind \in Kinds : place # Received[kind]
    BY DEF TaskPlaces, Paying, Kinds, Received
  <1>4. ASSUME RefreshRead(l) PROVE Ledger'
    <2> DEFINE copy == [order EXCEPT !.base = 0]
    <2>1. copy \in Orders /\ Earned(copy)
      BY <1>1, BaseIsFree
    <2>2. Go(l, "idle", "refresh", copy)
      BY <1>4 DEF RefreshRead
    <2> HIDE DEF copy
    <2> QED
      BY <1>1, <1>2, <1>3, <1>4, <2>1, <2>2, QuietGoKeeps DEF RefreshRead, row
  <1>5. ASSUME Match(l) PROVE Ledger'
    BY <1>1, <1>2, <1>3, <1>5, QuietGoKeeps DEF Match, row
  <1>6. ASSUME ConfirmRead(l) PROVE Ledger'
    BY <1>1, <1>2, <1>3, <1>6, QuietGoKeeps DEF ConfirmRead, row
  <1> QED
    BY <1>4, <1>5, <1>6

LEMMA RefreshSaveKeeps ==
  ASSUME Ledger, NEW l \in Tasks, RefreshSave(l)
  PROVE  Ledger'
  <1> DEFINE o == [task[l].copy EXCEPT !.base = Raised]
  <1>1. o \in Orders /\ Earned(o)
    BY CopiesAreEarned, BaseIsFree DEF Raised, Limit
  <1>2. Save(o)
    BY DEF RefreshSave
  <1> HIDE DEF o
  <1>3. order' = o /\ exists' \in BOOLEAN /\ mishap' \in BOOLEAN
    BY <1>2, SaveIsTyped DEF Ledger, TypeOK
  <1>4. "idle" \in TaskPlaces \ Paying /\ \A kind \in Kinds : "idle" # Received[kind]
    BY DEF TaskPlaces, Paying, Kinds, Received
  <1> QED
    BY <1>1, <1>3, <1>4, NewOrderIsPlain, QuietGoKeeps DEF RefreshSave

LEMMA HideKeeps ==
  ASSUME Ledger, NEW l \in Tasks, Hide(l)
  PROVE  Ledger'
  <1>1. task[l].copy \in Orders /\ Earned(task[l].copy)
    BY CopiesAreEarned
  <1>2. order' = task[l].copy /\ exists' \in BOOLEAN /\ mishap' \in BOOLEAN
    BY SaveIsTyped DEF Hide, Ledger, TypeOK
  <1>3. /\ "confirm" \in TaskPlaces \ Paying
        /\ \A kind \in Kinds : "confirm" # Received[kind]
    BY DEF TaskPlaces, Paying, Kinds, Received
  <1> QED
    BY <1>1, <1>2, <1>3, NewOrderIsPlain, QuietGoKeeps DEF Hide

\* The one place where the contract is asked.
LEMMA CheckKeeps ==
  ASSUME Ledger, NEW l \in Tasks, Check(l)
  PROVE  Ledger'
  <1> DEFINE copy == task[l].copy
             place == NextCall(copy)
  <1>1. copy \in Orders /\ Earned(copy) /\ order \in Orders /\ Earned(order)
    BY CopiesAreEarned
  <1>2. Go(l, "check", place, copy) /\ contract = "filled"
    BY DEF Check, BaseFilled
  <1>3. place \in TaskPlaces /\ \A kind \in Kinds : place # Received[kind]
    BY DEF NextCall, TaskPlaces, Kinds, Received
  <1>4. /\ order' = order
        /\ exists' \in BOOLEAN /\ mishap' \in BOOLEAN
        /\ UNCHANGED <<pair, writer, queue, contract, wallet, requests>>
    BY DEF Check, row, Ledger, TypeOK
  <1> HIDE DEF place, copy
  <1> QED
    BY <1>1, <1>2, <1>3, <1>4, QuietGoKeeps

LEMMA SendingKeeps ==
  ASSUME Ledger, NEW l \in Tasks, SwapSend(l) \/ DepositSend(l)
  PROVE  Ledger'
  <1>1. task[l].copy \in Orders /\ Earned(task[l].copy) /\ order \in Orders /\ Earned(order)
    BY CopiesAreEarned
  <1>2. PICK from \in {"swap", "deposit"}, kind \in Kinds : Send(l, from, kind)
    BY DEF SwapSend, DepositSend, Kinds
  <1>3. Go(l, from, Waiting[kind], task[l].copy)
    BY <1>2 DEF Send
  <1>4. /\ Waiting[kind] \in TaskPlaces
        /\ \A k \in Kinds : Waiting[kind] # Received[k]
    BY DEF Waiting, Received, Kinds, TaskPlaces
  <1>5. from \in Paying
    BY DEF Paying
  <1>6. pending' \in Transactions
    BY <1>2 DEF Send, Transactions
  <1>7. swapSent' \in BOOLEAN /\ exists' \in BOOLEAN /\ mishap' \in BOOLEAN
    BY DEF SwapSend, DepositSend, row, Ledger, TypeOK
  <1>8. order' = order /\ UNCHANGED <<pair, writer, queue, contract, receipts, requests>>
    BY DEF SwapSend, DepositSend, Send, row
  <1> QED
    BY <1>1, <1>3, <1>4, <1>5, <1>6, <1>7, <1>8, GoKeeps

\* The flag is set with the receipt in hand.
LEMMA SwapDoneKeeps ==
  ASSUME Ledger, NEW l \in Tasks, SwapDone(l)
  PROVE  Ledger'
  <1> DEFINE copy == [task[l].copy EXCEPT !.swapped = TRUE]
  <1>1. "swap" \in receipts
    BY DEF SwapDone, Go, Ledger, InHand, Kinds, Received
  <1>2. copy \in Orders /\ Earned(copy)
    BY <1>1, CopiesAreEarned DEF Orders, Earned
  <1>3. Save(copy) /\ Go(l, "swapReceipt", "deposit", copy)
    BY DEF SwapDone
  <1> HIDE DEF copy
  <1>4. order' = copy /\ exists' \in BOOLEAN /\ mishap' \in BOOLEAN
    BY <1>3, SaveIsTyped DEF Ledger, TypeOK
  <1>5. /\ "deposit" \in TaskPlaces /\ "swapReceipt" \in Paying
        /\ \A kind \in Kinds : "deposit" # Received[kind]
    BY DEF TaskPlaces, Paying, Kinds, Received
  <1> QED
    BY <1>2, <1>3, <1>4, <1>5, QuietGoKeeps DEF SwapDone

\* Nor is an order closed without one.
LEMMA DepositDoneKeeps ==
  ASSUME Ledger, NEW l \in Tasks, DepositDone(l)
  PROVE  Ledger'
  <1> DEFINE o == DoneOrder(task[l].copy)
  <1>1. "deposit" \in receipts
    BY DEF DepositDone, Ledger, InHand, Kinds, Received
  <1>2. o \in Orders /\ Earned(o)
    BY <1>1, CopiesAreEarned DEF DoneOrder, Orders, OrderStates, Earned
  <1>3. Save(o)
    BY DEF DepositDone
  <1> HIDE DEF o
  <1>4. order' = o /\ exists' \in BOOLEAN /\ mishap' \in BOOLEAN
    BY <1>3, SaveIsTyped DEF Ledger, TypeOK
  <1>5. Go(l, "depositReceipt", "idle", NewOrder)
    BY DEF DepositDone, GoHome, Go, Resting
  <1>6. "idle" \in TaskPlaces \ Paying /\ \A kind \in Kinds : "idle" # Received[kind]
    BY DEF TaskPlaces, Paying, Kinds, Received
  <1> QED
    BY <1>2, <1>4, <1>5, <1>6, NewOrderIsPlain, QuietGoKeeps DEF DepositDone

LEMMA TaskEndsKeeps ==
  ASSUME Ledger, NEW l \in Tasks, TaskEnds(l)
  PROVE  Ledger'
  <1>1. Go(l, task[l].at, "idle", NewOrder)
    BY DEF TaskEnds, GoHome, Go, Resting
  <1>2. pending' \in Transactions /\ pending'.kind = pending.kind
    BY DEF TaskEnds, Ledger, TypeOK, Transactions
  <1>3. "idle" \in TaskPlaces \ Paying /\ \A kind \in Kinds : "idle" # Received[kind]
    BY DEF TaskPlaces, Paying, Kinds, Received
  <1>4. exists' \in BOOLEAN /\ mishap' \in BOOLEAN /\ swapSent' \in BOOLEAN
    BY DEF TaskEnds, Ledger, TypeOK
  <1>5. /\ order' = order /\ swapSent' = swapSent
        /\ UNCHANGED <<pair, writer, queue, contract, receipts, requests>>
    BY DEF TaskEnds
  <1> QED
    BY <1>1, <1>2, <1>3, <1>4, <1>5, CopiesAreEarned, NewOrderIsPlain, GoKeeps
-----------------------------------------------------------------------------
LEMMA BecomesIsTyped ==
  ASSUME queue \in Seq(Messages), NEW from, NEW to \in {"filled", "refunded", "swapped"},
         NEW message \in Messages, Becomes(from, to, <<message>>)
  PROVE  queue' \in Seq(Messages) /\ contract' = to
  <1>1. <<message>> \in Seq(Messages)
    OBVIOUS
  <1> QED
    BY <1>1, ConcatProperties DEF Becomes

LEMMA UsersActKeeps ==
  ASSUME Ledger, UsersAct
  PROVE  Ledger'
  <1>1. /\ queue' \in Seq(Messages)
        /\ contract' \in {"filled", "refunded", "swapped"}
    <2>1. PICK from \in {"open", "filled"}, to \in {"filled", "refunded", "swapped"},
                message \in Messages : Becomes(from, to, <<message>>)
      BY DEF UsersAct, Messages
    <2> QED
      BY <2>1, BecomesIsTyped DEF Ledger, TypeOK
  <1>2. TypeOK'
    BY <1>1 DEF UsersAct, Ledger, TypeOK, row, wallet
  <1>3. AllEarned' /\ InHand'
    BY DEF UsersAct, Ledger, AllEarned, Earned, InHand, row, wallet
  <1>4. Funded'
    BY <1>1 DEF Funded
  <1> QED
    BY <1>2, <1>3, <1>4 DEF Ledger

\* Whoever waited for it has the receipt.
LEMMA MineKeeps ==
  ASSUME Ledger, Mine
  PROVE  Ledger'
  <1>1. pending.kind \in Kinds
    BY DEF Mine, Ledger, TypeOK
  <1>2. contract # "open" /\ contract' # "open"
    BY DEF Mine, Becomes, Ledger, Funded
  <1>3. /\ queue' \in Seq(Messages)
        /\ contract' \in {"open", "filled", "refunded", "swapped"}
    <2>1. "quote" \in Messages
      BY DEF Messages
    <2>2. CASE UNCHANGED <<contract, queue>>
      BY <2>2 DEF Ledger, TypeOK
    <2>3. CASE Becomes("filled", "swapped", <<"quote">>)
      BY <2>1, <2>3, BecomesIsTyped DEF Ledger, TypeOK
    <2> QED
      BY <2>2, <2>3 DEF Mine
  <1>4. \A l \in Tasks :
          \/ task'[l] = task[l]
          \/ task'[l] = [task[l] EXCEPT !.at = Received[pending.kind]]
    BY DEF Mine
  <1>5. task' \in [Tasks -> TaskRecords]
    <2>1. Received[pending.kind] \in TaskPlaces
      BY <1>1 DEF Received, Kinds, TaskPlaces
    <2>2. ASSUME NEW l \in Tasks PROVE task'[l] \in TaskRecords
      <3>1. task[l] \in TaskRecords
        BY DEF Ledger, TypeOK, TaskRecords
      <3>2. [task[l] EXCEPT !.at = Received[pending.kind]] \in TaskRecords
        BY <2>1, <3>1 DEF TaskRecords
      <3> QED
        BY <1>4, <3>1, <3>2
    <2> QED
      BY <2>2 DEF Mine
  <1>6. TypeOK'
    BY <1>1, <1>3, <1>5, RestIsTyped
       DEF Mine, row, Ledger, TypeOK, TaskRecords, Transactions
  <1>7. AllEarned'
    <2>1. receipts \subseteq receipts' /\ order' = order /\ writer' = writer
      BY DEF Mine, row
    <2>2. \A l \in Tasks : task'[l].copy = task[l].copy
      BY <1>4 DEF Ledger, TypeOK
    <2> QED
      BY <2>1, <2>2 DEF Ledger, AllEarned, Earned
  <1>8. InHand'
    <2> SUFFICES ASSUME NEW l \in Tasks, NEW kind \in Kinds, task'[l].at = Received[kind]
                 PROVE  kind \in receipts'
      BY DEF InHand
    <2>1. CASE task'[l] = task[l]
      BY <2>1 DEF Ledger, InHand, Mine
    <2>2. CASE task'[l] = [task[l] EXCEPT !.at = Received[pending.kind]]
      <3>1. Received[kind] = Received[pending.kind]
        BY <2>2 DEF Ledger, TypeOK
      <3> QED
        BY <1>1, <3>1 DEF Received, Kinds, Mine
    <2> QED
      BY <1>4, <2>1, <2>2
  <1>9. Funded'
    BY <1>2 DEF Funded
  <1> QED
    BY <1>6, <1>7, <1>8, <1>9 DEF Ledger
-----------------------------------------------------------------------------
LEMMA NextLedger == Ledger /\ [Next]_vars => Ledger'
  <1> SUFFICES ASSUME Ledger, [Next]_vars PROVE Ledger'
    OBVIOUS
  <1>1. CASE UNCHANGED vars
    BY <1>1 DEF vars, row, wallet, Ledger, TypeOK, AllEarned, Earned, InHand, Funded
  <1>2. CASE WebStep
    BY <1>2, AdminDeleteKeeps, RequestReadKeeps, RequestSaveKeeps DEF WebStep
  <1>3. CASE ReceiverStep
    BY <1>3, MessageReadKeeps, MessageSaveKeeps, MessageRaisesKeeps DEF ReceiverStep
  <1>4. CASE \E l \in Tasks : TaskStep(l)
    BY <1>4, ReadingKeeps, RefreshSaveKeeps, HideKeeps, CheckKeeps, SendingKeeps,
       SwapDoneKeeps, DepositDoneKeeps, TaskEndsKeeps DEF TaskStep
  <1>5. CASE UsersAct
    BY <1>5, UsersActKeeps
  <1>6. CASE Mine
    BY <1>6, MineKeeps
  <1> QED
    BY <1>1, <1>2, <1>3, <1>4, <1>5, <1>6 DEF Next

(***************************************************************************)
(* At all times: copies are earned, receipts are in the hands of those who *)
(* act on them, and payments are for contracts that were filled.           *)
(***************************************************************************)
THEOREM LedgerIsKept == Spec => []Ledger
  BY InitLedger, NextLedger, PTL DEF Spec

(***************************************************************************)
(* The row, the copies of it, the tasks and the wallet are of their types, *)
(* whoever writes the row back.                                            *)
(***************************************************************************)
THEOREM OrderTyped == Spec => []TypeOK
  <1>1. Ledger => TypeOK
    BY DEF Ledger
  <1> QED
    BY <1>1, LedgerIsKept, PTL

(***************************************************************************)
(* Neither the row nor a copy of it somebody will save is ever done,       *)
(* closed or swapped without a receipt.                                    *)
(***************************************************************************)
THEOREM MarksAlwaysEarned == Spec => []MarksAreEarned
  <1>1. Ledger => MarksAreEarned
    BY DEF Ledger, AllEarned, MarksAreEarned, Copies
  <1> QED
    BY <1>1, LedgerIsKept, PTL

(***************************************************************************)
(* The wallet never pays for an order whose contract is not filled.        *)
(***************************************************************************)
THEOREM OnlyFilledAlwaysTaken == Spec => []OnlyFilledIsTaken
  <1>1. Ledger => OnlyFilledIsTaken
    BY DEF Ledger, TypeOK, Funded, OnlyFilledIsTaken
  <1> QED
    BY <1>1, LedgerIsKept, PTL
-----------------------------------------------------------------------------
(***************************************************************************)
(* That the wallet has swapped is remembered by the row, by a task that is *)
(* at it, or as a mishap; the receipt goes to tasks that wait for it; a    *)
(* view looked at an order that may expire; and no task is about to swap   *)
(* that has read of a swap.                                                *)
(***************************************************************************)
SwapPlaces == {"swapWait", "swapReceipt"}

Remembered ==
  swapSent => \/ order.swapped \/ mishap
              \/ \E l \in Tasks : task[l].at \in SwapPlaces

Waiters ==
  \A l \in pending.waits :
    pending.kind \in Kinds /\ task[l].at = Waiting[pending.kind]

Viewed == \A w \in Writers : writer[w].op = "view" => Expirable(writer[w].copy)

Unswapped == \A l \in Tasks : task[l].at = "swap" => ~task[l].copy.swapped

Memory == Remembered /\ Waiters /\ Viewed /\ Unswapped

LEMMA InitMemory == Init => Memory
  BY DEF Init, Memory, Remembered, Waiters, Viewed, Unswapped, Nothing, Free, Resting

\* Where the tasks are is left as it is, and a row is written with save().
LEMMA SaveRemembers ==
  ASSUME Ledger, NEW o, Save(o)
  PROVE  order.swapped \/ mishap => order'.swapped \/ mishap'
  BY DEF Save, Ledger, TypeOK, Orders

LEMMA StepRemembers ==
  ASSUME Remembered, swapSent' = swapSent,
         order.swapped \/ mishap => order'.swapped \/ mishap',
         \A l \in Tasks : task[l].at \in SwapPlaces =>
            task'[l].at \in SwapPlaces \/ order'.swapped \/ mishap'
  PROVE  Remembered'
  BY DEF Remembered

LEMMA OthersStay ==
  ASSUME Ledger, NEW l \in Tasks, NEW from, NEW to, NEW copy, Go(l, from, to, copy)
  PROVE  \A k \in Tasks \ {l} : task'[k] = task[k]
  BY DEF Go, Ledger, TypeOK

LEMMA WritersRemember ==
  ASSUME Ledger, Memory, WebStep \/ ReceiverStep
  PROVE  Remembered' /\ Waiters'
  <1>1. UNCHANGED <<task, wallet>>
    BY DEF WebStep, ReceiverStep, AdminDelete, RequestRead, RequestSave,
           MessageRead, MessageSave, MessageRaises
  <1>2. UNCHANGED <<order, mishap>> \/ \E o : Save(o)
    <2>1. CASE AdminDelete \/ MessageRaises
      BY <2>1 DEF AdminDelete, MessageRaises, row
    <2>2. ASSUME NEW w \in Writers, NEW op \in Operations,
                 RequestRead(w, op) \/ MessageRead(w)
          PROVE  UNCHANGED <<order, mishap>>
      BY <2>2 DEF RequestRead, MessageRead, row
    <2>3. ASSUME NEW w \in Writers, RequestSave(w) \/ MessageSave(w)
          PROVE  \E o : Save(o)
      BY <2>3 DEF RequestSave, MessageSave
    <2>4. Operations # {}
      BY DEF Operations
    <2> QED
      BY <2>1, <2>2, <2>3, <2>4 DEF WebStep, ReceiverStep
  <1>3. order.swapped \/ mishap => order'.swapped \/ mishap'
    BY <1>2, SaveRemembers
  <1> QED
    BY <1>1, <1>3, StepRemembers DEF Memory, Waiters, wallet

LEMMA TasksRemember ==
  ASSUME Ledger, Memory, NEW l \in Tasks, TaskStep(l)
  PROVE  Remembered'
  <1>1. mishap \in BOOLEAN /\ order.swapped \in BOOLEAN /\ Remembered
    BY DEF Memory, Ledger, TypeOK, Orders
  <1>2. CASE RefreshRead(l) \/ Match(l) \/ ConfirmRead(l) \/ Check(l) \/ DepositSend(l)
    <2>1. task[l].at \notin SwapPlaces
      BY <1>2 DEF RefreshRead, Match, ConfirmRead, Check, DepositSend, Send, Go, SwapPlaces
    <2>2. \A k \in Tasks \ {l} : task'[k] = task[k]
      BY <1>2, OthersStay DEF RefreshRead, Match, ConfirmRead, Check, DepositSend, Send
    <2>3. UNCHANGED <<order, mishap, swapSent>>
      BY <1>2 DEF RefreshRead, Match, ConfirmRead, Check, DepositSend, row, wallet
    <2> QED
      BY <1>1, <2>1, <2>2, <2>3, StepRemembers
  <1>3. CASE RefreshSave(l) \/ Hide(l) \/ DepositDone(l)
    <2>1. task[l].at \notin SwapPlaces
      BY <1>3 DEF RefreshSave, Hide, DepositDone, Go, SwapPlaces
    <2>2. \A k \in Tasks \ {l} : task'[k] = task[k]
      BY <1>3 DEF RefreshSave, Hide, DepositDone, Go, GoHome, Ledger, TypeOK
    <2>3. swapSent' = swapSent /\ \E o : Save(o)
      BY <1>3 DEF RefreshSave, Hide, DepositDone, wallet
    <2>4. order.swapped \/ mishap => order'.swapped \/ mishap'
      BY <2>3, SaveRemembers
    <2> QED
      BY <1>1, <2>1, <2>2, <2>3, <2>4, StepRemembers
  <1>4. CASE SwapSend(l)
    <2>1. task'[l].at = "swapWait"
      BY <1>4 DEF SwapSend, Send, Go, Waiting, Ledger, TypeOK
    <2> QED
      BY <2>1 DEF Remembered, SwapPlaces
  <1>5. CASE SwapDone(l)
    <2> DEFINE o == [task[l].copy EXCEPT !.swapped = TRUE]
    <2>1. o.swapped = TRUE
      BY CopiesAreEarned DEF Orders
    <2>2. order' = o
      BY <1>5 DEF SwapDone, Save
    <2> HIDE DEF o
    <2> QED
      BY <2>1, <2>2 DEF Remembered
  <1>6. CASE TaskEnds(l)
    <2>1. \A k \in Tasks \ {l} : task'[k] = task[k]
      BY <1>6 DEF TaskEnds, GoHome, Ledger, TypeOK
    <2>2. task[l].at \in SwapPlaces => mishap'
      BY <1>6 DEF TaskEnds, SwapPlaces
    <2>3. UNCHANGED <<order, swapSent>> /\ (mishap => mishap')
      BY <1>6 DEF TaskEnds
    <2> QED
      BY <1>1, <2>1, <2>2, <2>3, StepRemembers
  <1> QED
    BY <1>2, <1>3, <1>4, <1>5, <1>6 DEF TaskStep

LEMMA TasksWait ==
  ASSUME Ledger, Memory, NEW l \in Tasks, TaskStep(l)
  PROVE  Waiters'
  <1>1. Waiters /\ pending.waits \subseteq Tasks
    BY DEF Memory, Ledger, TypeOK
  <1>2. CASE SwapSend(l) \/ DepositSend(l)
    <2>1. PICK from \in {"swap", "deposit"}, kind \in Kinds : Send(l, from, kind)
      BY <1>2 DEF SwapSend, DepositSend, Kinds
    <2>2. task'[l].at = Waiting[kind]
      BY <2>1 DEF Send, Go, Ledger, TypeOK
    <2> QED
      BY <2>1, <2>2 DEF Send, Waiters
  <1>3. CASE TaskEnds(l)
    <2>1. \A k \in Tasks \ {l} : task'[k] = task[k]
      BY <1>3 DEF TaskEnds, GoHome, Ledger, TypeOK
    <2>2. pending'.kind = pending.kind /\ pending'.waits = pending.waits \ {l}
      BY <1>3 DEF TaskEnds, Ledger, TypeOK
    <2> QED
      BY <1>1, <2>1, <2>2 DEF Waiters
  <1>4. CASE \/ RefreshRead(l) \/ RefreshSave(l) \/ Match(l) \/ Hide(l)
             \/ ConfirmRead(l) \/ Check(l) \/ SwapDone(l) \/ DepositDone(l)
    <2>1. l \notin pending.waits
      <3>1. task[l].at # "swapWait" /\ task[l].at # "depositWait"
        BY <1>4 DEF RefreshRead, RefreshSave, Match, Hide, ConfirmRead, Check, SwapDone,
                    DepositDone, Go
      <3> QED
        BY <1>1, <3>1 DEF Waiters, Waiting, Kinds
    <2>2. \A k \in Tasks \ {l} : task'[k] = task[k]
      BY <1>4 DEF RefreshRead, RefreshSave, Match, Hide, ConfirmRead, Check, SwapDone,
                  DepositDone, Go, GoHome, Ledger, TypeOK
    <2>3. pending' = pending
      BY <1>4 DEF RefreshRead, RefreshSave, Match, Hide, ConfirmRead, Check, SwapDone,
                  DepositDone, wallet
    <2> QED
      BY <1>1, <2>1, <2>2, <2>3 DEF Waiters
  <1> QED
    BY <1>2, <1>3, <1>4 DEF TaskStep

\* Whoever waited for a swap has its receipt, or waits for one that was replaced.
LEMMA MineRemembers ==
  ASSUME Ledger, Memory, Mine
  PROVE  Remembered' /\ Waiters'
  <1>1. ASSUME NEW l \in Tasks, task[l].at \in SwapPlaces
        PROVE  task'[l].at \in SwapPlaces
    <2>1. CASE l \in pending.waits
      <3>1. pending.kind = "swap"
        BY <1>1, <2>1 DEF Memory, Waiters, Waiting, Kinds, SwapPlaces
      <3>2. task'[l].at = Received["swap"]
        BY <2>1, <3>1 DEF Mine, Ledger, TypeOK
      <3> QED
        BY <3>2 DEF Received, SwapPlaces
    <2>2. CASE l \notin pending.waits
      BY <1>1, <2>2 DEF Mine
    <2> QED
      BY <2>1, <2>2
  <1>2. UNCHANGED <<order, mishap, swapSent>> /\ pending'.waits = {}
    BY DEF Mine, row, Nothing
  <1> QED
    BY <1>1, <1>2, StepRemembers DEF Memory, Waiters

LEMMA ViewedKept ==
  ASSUME Ledger, Memory, Next
  PROVE  Viewed'
  <1>1. ASSUME writer' = writer
        PROVE  Viewed'
    BY <1>1 DEF Memory, Viewed, Expirable
  <1>2. ASSUME NEW w \in Writers, RequestSave(w) \/ MessageSave(w)
        PROVE  Viewed'
    <2>1. \A v \in Writers : writer'[v] = Free \/ writer'[v] = writer[v]
      BY <1>2 DEF RequestSave, MessageSave, Ledger, TypeOK
    <2> QED
      BY <2>1 DEF Memory, Viewed, Free, Expirable
  <1>3. ASSUME NEW w \in Writers, NEW op \in Operations, RequestRead(w, op)
        PROVE  Viewed'
    <2>1. /\ \A v \in Writers \ {w} : writer'[v] = writer[v]
          /\ writer'[w].op = op /\ writer'[w].copy = order
      BY <1>3 DEF RequestRead, Ledger, TypeOK
    <2>2. op = "view" => Expirable(order)
      BY <1>3 DEF RequestRead, Admits
    <2> QED
      BY <2>1, <2>2 DEF Memory, Viewed, Expirable
  <1>4. ASSUME NEW w \in Writers, MessageRead(w)
        PROVE  Viewed'
    <2>1. /\ \A v \in Writers \ {w} : writer'[v] = writer[v]
          /\ writer'[w].op = Head(queue)
      BY <1>4 DEF MessageRead, Ledger, TypeOK
    <2>2. Head(queue) # "view"
      BY <1>4, HeadTailProperties DEF MessageRead, Messages, Ledger, TypeOK
    <2> QED
      BY <2>1, <2>2 DEF Memory, Viewed, Expirable
  <1>5. CASE AdminDelete \/ MessageRaises \/ UsersAct \/ Mine
    BY <1>1, <1>5 DEF AdminDelete, MessageRaises, UsersAct, Mine
  <1>6. CASE \E l \in Tasks : TaskStep(l)
    BY <1>1, <1>6 DEF TaskStep, RefreshRead, RefreshSave, Match, Hide, ConfirmRead, Check,
                      SwapSend, SwapDone, DepositSend, DepositDone, TaskEnds
  <1> QED
    BY <1>2, <1>3, <1>4, <1>5, <1>6 DEF Next, WebStep, ReceiverStep

\* The flag of the copy decides where a task goes when it has asked the contract.
LEMMA UnswappedKept ==
  ASSUME Ledger, Memory, Next
  PROVE  Unswapped'
  <1>1. Unswapped
    BY DEF Memory
  <1>2. ASSUME NEW l \in Tasks, TaskStep(l)
        PROVE  Unswapped'
    <2>1. \A k \in Tasks \ {l} : task'[k] = task[k]
      BY <1>2 DEF TaskStep, RefreshRead, RefreshSave, Match, Hide, ConfirmRead, Check,
                  SwapSend, SwapDone, DepositSend, DepositDone, TaskEnds, Send, Go, GoHome,
                  Ledger, TypeOK
    <2>2. task'[l].at = "swap" => ~task'[l].copy.swapped
      <3>1. CASE Check(l)
        <4>1. task'[l] = [at |-> NextCall(task[l].copy), copy |-> task[l].copy]
          BY <3>1 DEF Check, Go, Ledger, TypeOK
        <4> QED
          BY <4>1 DEF NextCall
      <3>2. CASE SwapSend(l) \/ DepositSend(l)
        BY <3>2 DEF SwapSend, DepositSend, Send, Go, Waiting, Ledger, TypeOK
      <3>3. CASE RefreshSave(l) \/ DepositDone(l) \/ TaskEnds(l)
        BY <3>3 DEF RefreshSave, DepositDone, TaskEnds, Go, GoHome, Resting, Ledger, TypeOK
      <3>4. CASE RefreshRead(l) \/ Match(l) \/ Hide(l) \/ ConfirmRead(l) \/ SwapDone(l)
        BY <3>4 DEF RefreshRead, Match, Hide, ConfirmRead, SwapDone, Go, Ledger, TypeOK
      <3> QED
        BY <1>2, <3>1, <3>2, <3>3, <3>4 DEF TaskStep
    <2> QED
      BY <1>1, <2>1, <2>2 DEF Unswapped
  <1>3. ASSUME task' = task
        PROVE  Unswapped'
    BY <1>1, <1>3 DEF Unswapped
  <1>4. CASE Mine
    <2>1. \A l \in Tasks : task'[l].at = "swap" => task'[l] = task[l]
      BY <1>4 DEF Mine, Received, Kinds, Ledger, TypeOK
    <2> QED
      BY <1>1, <2>1 DEF Unswapped
  <1>5. CASE WebStep \/ ReceiverStep \/ UsersAct
    BY <1>3, <1>5 DEF WebStep, ReceiverStep, AdminDelete, RequestRead, RequestSave,
                      MessageRead, MessageSave, MessageRaises, UsersAct
  <1> QED
    BY <1>2, <1>4, <1>5 DEF Next

LEMMA NextMemory == Ledger /\ Memory /\ [Next]_vars => Memory'
  <1> SUFFICES ASSUME Ledger, Memory, [Next]_vars PROVE Memory'
    OBVIOUS
  <1>1. CASE UNCHANGED vars
    BY <1>1 DEF vars, row, wallet, Memory, Remembered, Waiters, Viewed, Unswapped, Expirable
  <1>2. CASE Next
    <2>1. Viewed' /\ Unswapped'
      BY <1>2, ViewedKept, UnswappedKept
    <2>2. Remembered' /\ Waiters'
      <3>1. CASE UsersAct
        BY <3>1 DEF UsersAct, row, wallet, Memory, Remembered, Waiters
      <3> QED
        BY <1>2, <3>1, WritersRemember, TasksRemember, TasksWait, MineRemembers DEF Next
    <2> QED
      BY <2>1, <2>2 DEF Memory
  <1> QED
    BY <1>1, <1>2

(***************************************************************************)
(* At all times a swap is remembered, a receipt goes where it is awaited,  *)
(* views look at orders that may expire, and only a task that has read of  *)
(* no swap is about to swap.                                               *)
(***************************************************************************)
THEOREM MemoryIsKept == Spec => [](Ledger /\ Memory)
  BY InitLedger, NextLedger, InitMemory, NextMemory, PTL DEF Spec

LEMMA SwappingIsExplained ==
  ASSUME Ledger, Memory, [Next]_vars, swapSent, NEW l \in Tasks, Swapping(l)
  PROVE  mishap'
  <1>1. task' # task
    BY DEF Swapping
  <1>2. PICK k \in Tasks : TaskStep(k)
    <2>1. ASSUME Mine PROVE FALSE
      <3>1. task'[l].at \in {task[l].at, Received[pending.kind]}
        BY <2>1 DEF Mine, Ledger, TypeOK
      <3>2. Received[pending.kind] # "swapWait"
        BY <2>1 DEF Mine, Received, Kinds, Ledger, TypeOK
      <3> QED
        BY <3>1, <3>2 DEF Swapping
    <2> QED
      BY <1>1, <2>1 DEF Next, vars, WebStep, ReceiverStep, AdminDelete, RequestRead,
         RequestSave, MessageRead, MessageSave, MessageRaises, UsersAct
  <1>3. k = l
    <2>1. \A j \in Tasks \ {k} : task'[j] = task[j]
      BY <1>2 DEF TaskStep, RefreshRead, RefreshSave, Match, Hide, ConfirmRead, Check,
                  SwapSend, SwapDone, DepositSend, DepositDone, TaskEnds, Send, Go, GoHome,
                  Ledger, TypeOK
    <2> QED
      BY <2>1 DEF Swapping
  <1>4. SwapSend(l)
    <2>1. task[l].at = "swap" /\ task'[l].at = "swapWait"
      BY DEF Swapping
    <2>2. DepositSend(l) => task'[l].at = "depositWait"
      BY DEF DepositSend, Send, Go, Waiting, Ledger, TypeOK
    <2>3. TaskEnds(l) => task'[l].at = "idle"
      BY DEF TaskEnds, GoHome, Resting, Ledger, TypeOK
    <2> QED
      BY <1>2, <1>3, <2>1, <2>2, <2>3
         DEF TaskStep, RefreshRead, RefreshSave, Match, Hide, ConfirmRead, Check, SwapDone,
             DepositDone, Go
  <1>5. \/ order.swapped \/ mishap
        \/ \E j \in Tasks \ {l} : task[j].at \in SwapPlaces
    BY DEF Memory, Remembered, Swapping, SwapPlaces
  <1>6. ~task[l].copy.swapped
    BY DEF Memory, Unswapped, Swapping
  <1> QED
    BY <1>4, <1>5, <1>6 DEF SwapSend, SwapUnseen, SwapPlaces

\* Of the copies, only a view's comes back as something else than it was read.
LEMMA GoneComesBack ==
  ASSUME Ledger, Memory, [Next]_vars, Gone, ~Gone'
  PROVE  (\E o \in Copies : BringsBack(o)) \/ \E w \in Writers : Exposed(w)
  <1>1. order'.state \in {"active", "ACTIVE", "expired"} /\ exists'
    BY NextLedger DEF Ledger, TypeOK, Orders, OrderStates, Gone
  <1>2. ~UNCHANGED <<order, exists>> /\ ~AdminDelete
    BY <1>1 DEF Gone, AdminDelete
  <1>3. ASSUME NEW w \in Writers, RequestSave(w)
        PROVE  (\E o \in Copies : BringsBack(o)) \/ Exposed(w)
    <2> DEFINE copy == writer[w].copy
    <2>1. copy \in Copies
      BY <1>3 DEF RequestSave, Copies, Operations
    <2>2. copy \in Orders /\ writer[w].op \in Operations
      BY <1>3, CopiesAreEarned DEF RequestSave
    <2>3. order' \in Written(writer[w].op, copy)
      BY <1>3 DEF RequestSave, Save
    <2>4. CASE writer[w].op = "edit"
      <3>1. order'.state = copy.state
        BY <2>2, <2>3, <2>4 DEF Written, Orders
      <3> QED
        BY <1>1, <2>1, <3>1 DEF BringsBack
    <2>5. CASE writer[w].op = "view"
      <3>1. copy.state \in {"active", "ACTIVE", "expired", "hidden"}
        BY <2>2, <2>5 DEF Memory, Viewed, Expirable, Orders, OrderStates
      <3> QED
        BY <2>1, <2>5, <3>1 DEF BringsBack, Exposed
    <2>6. CASE writer[w].op = "delete"
      BY <1>1, <2>2, <2>3, <2>6 DEF Written, Orders
    <2>7. CASE writer[w].op = "cancel"
      BY <1>1, <2>2, <2>3, <2>7 DEF Written, Orders
    <2>8. CASE writer[w].op = "detach"
      BY <1>1, <2>1, <2>3, <2>8 DEF Written, Detached, BringsBack
    <2> QED
      BY <2>2, <2>4, <2>5, <2>6, <2>7, <2>8 DEF Operations
  <1>4. ASSUME NEW w \in Writers, MessageSave(w)
        PROVE  \E o \in Copies : BringsBack(o)
    <2>1. writer[w].copy \in Copies /\ writer[w].copy \in Orders
      BY <1>4, CopiesAreEarned DEF MessageSave, Copies, Messages
    <2>2. order'.state = writer[w].copy.state
      BY <1>4, <2>1 DEF MessageSave, Save, Orders
    <2> QED
      BY <1>1, <2>1, <2>2 DEF BringsBack
  <1>5. ASSUME NEW l \in Tasks, TaskStep(l)
        PROVE  \E o \in Copies : BringsBack(o)
    <2>1. RefreshSave(l) \/ Hide(l) \/ SwapDone(l)
      <3>1. ~DepositDone(l)
        BY <1>1, CopiesAreEarned DEF DepositDone, Save, DoneOrder, Orders
      <3> QED
        BY <1>2, <1>5, <3>1 DEF TaskStep, RefreshRead, Match, ConfirmRead, Check, SwapSend,
                                DepositSend, TaskEnds, row
    <2>2. task[l].copy \in Copies /\ task[l].copy \in Orders
      BY <2>1, CopiesAreEarned DEF RefreshSave, Hide, SwapDone, Go, Copies
    <2>3. order'.state = task[l].copy.state
      BY <2>1, <2>2 DEF RefreshSave, Hide, SwapDone, Save, Orders
    <2> QED
      BY <1>1, <2>2, <2>3 DEF BringsBack
  <1>6. ~UsersAct /\ ~Mine /\ ~MessageRaises /\ ~UNCHANGED vars
    BY <1>2 DEF UsersAct, Mine, MessageRaises, vars, row
  <1>7. ASSUME NEW w \in Writers PROVE /\ ~MessageRead(w)
                                      /\ \A op \in Operations : ~RequestRead(w, op)
    BY <1>2 DEF MessageRead, RequestRead, row
  <1> QED
    BY <1>2, <1>3, <1>4, <1>5, <1>6, <1>7 DEF Next, WebStep, ReceiverStep

(***************************************************************************)
(* An order is swapped again only after a mishap: whatever the requests,   *)
(* messages and tasks do, a swap is otherwise remembered until then, and a *)
(* task that has read of one does not swap.                                *)
(***************************************************************************)
THEOREM SwapsAlwaysExplained == Spec => SwapsExplained
  <1>1. Ledger /\ Memory /\ [Next]_vars
          => [(swapSent /\ \E l \in Tasks : Swapping(l)) => mishap']_vars
    BY SwappingIsExplained
  <1> QED
    BY <1>1, MemoryIsKept, PTL DEF Spec, SwapsExplained

(***************************************************************************)
(* An order that is gone comes back only by an older copy, or a view.      *)
(***************************************************************************)
THEOREM GoneAlwaysKept == Spec => GoneIsKept
  <1>1. Ledger /\ Memory /\ [Next]_vars
          => [(Gone /\ ~Gone') => \/ \E o \in Copies : BringsBack(o)
                                 \/ \E w \in Writers : Exposed(w)]_vars
    BY GoneComesBack
  <1> QED
    BY <1>1, MemoryIsKept, PTL DEF Spec, GoneIsKept
=============================================================================
