---------------------------- MODULE PlatformProofs ----------------------------
(***************************************************************************)
(* Theorems about the parts of Platform: the transfers over a bridge, the  *)
(* accounts, the shares put aside, the contracts of the other chains, the  *)
(* drafts and the promo codes; and at the end the types of all of them.    *)
(* A step of any other part leaves their variables alone, so that an       *)
(* invariant of a part that its own steps keep is one of the platform.     *)
(***************************************************************************)
EXTENDS Platform, RowProofs, FiniteSetTheorems

(***************************************************************************)
(* What a part starts from and what the steps of the others do to it.      *)
(***************************************************************************)
LEMMA BridgeAlone ==
  ASSUME [Next]_platformVars
  PROVE  BridgeNext \/ UNCHANGED bridgeVars
  BY DEF Next, platformVars, ScannedStep, InlineStep, DraftStep, PromoStep,
         BridgeStep, AccountStep, ShareStep

LEMMA AccountAlone ==
  ASSUME [Next]_platformVars
  PROVE  AccountNext \/ UNCHANGED accountVars
  BY DEF Next, platformVars, ScannedStep, InlineStep, DraftStep, PromoStep,
         BridgeStep, AccountStep, ShareStep

LEMMA SharesAlone ==
  ASSUME [Next]_platformVars
  PROVE  ShareNext \/ UNCHANGED shareVars
  BY DEF Next, platformVars, ScannedStep, InlineStep, DraftStep, PromoStep,
         BridgeStep, AccountStep, ShareStep

LEMMA PartsStart ==
  ASSUME Init
  PROVE  /\ BridgeInit
         /\ AccountInit
         /\ ShareInit
  BY DEF Init, BridgeRests, AccountRests, AccountInit, Logins
-----------------------------------------------------------------------------
(***************************************************************************)
(* The bridge.  Rounds save whole rows that they read before, so the truth *)
(* of what is completed has to be known of every row that a round holds    *)
(* and may save, and not of the row in the database alone.                 *)
(***************************************************************************)
Rows(ways) == [way : ways, status : Statuses,
               second : Seconds \cup {"none"}]

\* The transfer of that way, with that second transaction, came through.
CameThrough(way, second) ==
  IF way = "poleth" THEN second \in second_transactions ELSE outside = "done"

Honest(round) ==
  \/ round = NotAsking
  \/ \E row \in Rows(Ways) :
       /\ row.status # "Completed" /\ swap.way \in Ways
       /\ \/ round = [at |-> "read", row |-> row]
          \/ \E says \in Statuses :
               /\ round = [at |-> "answered", row |-> row, says |-> says]
               /\ says = "Completed" => CameThrough(row.way, row.second)

TransferTold ==
  /\ swap = NoSwap \/ swap \in Rows(Ways)
  /\ swap.status = "Completed" /\ ~claimed => CameThrough(swap.way, swap.second)
  /\ claimed \in BOOLEAN
  /\ asking = [c \in Rounds |-> asking[c]]
  /\ \A c \in Rounds : Honest(asking[c])

LEMMA TransferToldInit == BridgeInit => TransferTold
  <1> SUFFICES ASSUME BridgeInit PROVE TransferTold
    OBVIOUS
  <1>1. swap = NoSwap /\ swap.status # "Completed" /\ claimed = FALSE
    BY DEF BridgeInit, NoSwap
  <1>2. asking = [c \in Rounds |-> NotAsking]
    BY DEF BridgeInit
  <1> QED
    BY <1>1, <1>2 DEF TransferTold, Honest

\* A row that a round holds was read while it was not completed.
LEMMA HeldRow ==
  ASSUME TransferTold, NEW c \in Rounds, asking[c] # NotAsking
  PROVE  /\ asking[c].row \in Rows(Ways)
         /\ asking[c].row.status # "Completed"
         /\ swap \in Rows(Ways)
         /\ \/ asking[c] = [at |-> "read", row |-> asking[c].row]
            \/ /\ asking[c] = [at |-> "answered", row |-> asking[c].row,
                               says |-> asking[c].says]
               /\ asking[c].says \in Statuses
               /\ asking[c].says = "Completed"
                    => CameThrough(asking[c].row.way, asking[c].row.second)
  <1>1. PICK row \in Rows(Ways) :
           /\ row.status # "Completed" /\ swap.way \in Ways
           /\ \/ asking[c] = [at |-> "read", row |-> row]
              \/ \E says \in Statuses :
                   /\ asking[c] = [at |-> "answered", row |-> row, says |-> says]
                   /\ says = "Completed" => CameThrough(row.way, row.second)
    BY DEF TransferTold, Honest
  <1>2. row = asking[c].row
    <2>1. CASE asking[c] = [at |-> "read", row |-> row]
      BY <2>1
    <2>2. ASSUME NEW says, asking[c] = [at |-> "answered", row |-> row, says |-> says]
          PROVE  row = asking[c].row
      BY <2>2
    <2> QED
      BY <1>1, <2>1, <2>2
  <1>3. row \in Rows(Ways) /\ swap.way \in Ways
    BY <1>1
  <1>4. swap \in Rows(Ways)
    <2>1. swap # NoSwap
      BY <1>3 DEF NoSwap, Ways
    <2> QED
      BY <2>1 DEF TransferTold
  <1>5. CASE asking[c] = [at |-> "read", row |-> row]
    BY <1>1, <1>2, <1>3, <1>4, <1>5
  <1>6. CASE \E says \in Statuses :
               /\ asking[c] = [at |-> "answered", row |-> row, says |-> says]
               /\ says = "Completed" => CameThrough(row.way, row.second)
    BY <1>1, <1>2, <1>3, <1>4, <1>6
  <1> QED
    BY <1>1, <1>5, <1>6

\* What came through stays so: nothing takes an ending or a receipt back.
Lasting ==
  /\ outside = "done" => outside' = "done"
  /\ second_transactions \subseteq second_transactions'

\* A round that is not at it stays honest.
LEMMA RoundStaysHonest ==
  ASSUME TransferTold, NEW c \in Rounds, asking'[c] = asking[c],
         swap' = swap \/ swap' \in Rows(Ways), Lasting
  PROVE  Honest(asking[c])'
  <1> SUFFICES ASSUME asking[c] # NotAsking
               PROVE  Honest(asking[c])'
    BY DEF Honest
  <1> DEFINE row == asking[c].row
             says == asking[c].says
  <1>1. swap'.way \in Ways
    BY HeldRow DEF Rows
  <1>2. row \in Rows(Ways) /\ row.status # "Completed"
    BY HeldRow
  <1>3. CASE asking[c] = [at |-> "read", row |-> row]
    BY <1>1, <1>2, <1>3 DEF Honest
  <1>4. CASE /\ asking[c] = [at |-> "answered", row |-> row, says |-> says]
             /\ says \in Statuses
             /\ says = "Completed" => CameThrough(row.way, row.second)
    <2> DEFINE answer == [at |-> "answered", row |-> row, says |-> says]
    <2>1. PICK r, t : r = row /\ t = says
      OBVIOUS
    <2>2. t = "Completed" => CameThrough(r.way, r.second)'
      BY <1>4, <2>1 DEF CameThrough, Lasting
    <2>3. asking'[c] = [at |-> "answered", row |-> r, says |-> t]
      BY <1>4, <2>1
    <2> QED
      BY <1>1, <1>2, <1>4, <2>1, <2>2, <2>3 DEF Honest
  <1> QED
    BY <1>3, <1>4, HeldRow

\* A step of one round that leaves the row as it is.
LEMMA RoundKeeps ==
  ASSUME TransferTold, NEW c \in Rounds, NEW held,
         asking' = [asking EXCEPT ![c] = held], Honest(held),
         UNCHANGED <<swap, outside, second_transactions, claimed>>
  PROVE  TransferTold'
  <1>1. \A d \in Rounds : asking'[d] = IF d = c THEN held ELSE asking[d]
    BY DEF TransferTold
  <1>2. ASSUME NEW d \in Rounds
        PROVE  Honest(asking[d])'
    <2>1. CASE d = c
      <3>1. asking'[d] = held
        BY <1>1, <2>1
      <3> QED
        BY <3>1 DEF Honest, CameThrough
    <2>2. CASE d # c
      <3>1. asking'[d] = asking[d]
        BY <1>1, <2>2
      <3> QED
        BY <3>1, RoundStaysHonest DEF Lasting
    <2> QED
      BY <2>1, <2>2
  <1>3. asking' = [d \in Rounds |-> asking'[d]]
    BY DEF TransferTold
  <1> QED
    BY <1>2, <1>3 DEF TransferTold, CameThrough

\* A step of the customer, a bridge or a save, which gives the row in the
\* database a new value.
LEMMA RowKeeps ==
  ASSUME TransferTold, Lasting,
         swap' \in Rows(Ways), claimed' \in BOOLEAN,
         (swap.status = "Completed" /\ ~claimed => CameThrough(swap.way, swap.second))',
         asking' = [c \in Rounds |-> asking'[c]],
         \A c \in Rounds : asking'[c] \in {asking[c], NotAsking}
  PROVE  TransferTold'
  <1>1. ASSUME NEW c \in Rounds
        PROVE  Honest(asking[c])'
    <2>1. CASE asking'[c] = asking[c]
      BY <2>1, RoundStaysHonest
    <2>2. CASE asking'[c] = NotAsking
      BY <2>2 DEF Honest
    <2> QED
      BY <2>1, <2>2
  <1> QED
    BY <1>1 DEF TransferTold, Rows

\* A step of the networks alone.
LEMMA TruthKeeps ==
  ASSUME TransferTold, Lasting, UNCHANGED <<swap, asking, claimed>>
  PROVE  TransferTold'
  <1>1. ASSUME NEW c \in Rounds
        PROVE  Honest(asking[c])'
    BY RoundStaysHonest
  <1>2. (swap.status = "Completed" /\ ~claimed => CameThrough(swap.way, swap.second))'
    BY DEF TransferTold, CameThrough, Lasting
  <1> QED
    BY <1>1, <1>2 DEF TransferTold, Rows

LEMMA AnswerKeeps ==
  ASSUME TransferTold, NEW c \in Rounds, NEW way, NEW s \in Statuses,
         Answered(c, way, s),
         s = "Completed" => CameThrough(asking[c].row.way, asking[c].row.second)
  PROVE  TransferTold'
  <1> DEFINE answer == [at |-> "answered", row |-> asking[c].row, says |-> s]
  <1>1. asking[c] # NotAsking
    BY DEF Answered, NotAsking
  <1>2. Honest(answer)
    BY <1>1, HeldRow DEF Honest, Rows
  <1>3. asking' = [asking EXCEPT ![c] = answer]
    BY DEF Answered
  <1> QED
    BY <1>2, <1>3, RoundKeeps DEF Answered

LEMMA TransferToldStep ==
  ASSUME TransferTold, [BridgeNext]_bridgeVars
  PROVE  TransferTold'
  <1>1. ASSUME NEW way \in Ways, NEW status \in Statuses,
               NEW second \in Seconds \cup {"none"}, Adds(way, status, second),
               claimed' \in BOOLEAN,
               status = "Completed" /\ ~claimed' => way # "poleth" /\ outside = "done"
        PROVE  TransferTold'
    <2>1. swap' = [way |-> way, status |-> status, second |-> second]
      BY <1>1 DEF Adds
    <2>2. swap' \in Rows(Ways) /\ swap = NoSwap
      BY <1>1, <2>1 DEF Adds, Rows
    <2>3. (swap.status = "Completed" /\ ~claimed => CameThrough(swap.way, swap.second))'
      BY <1>1, <2>1 DEF Adds, CameThrough
    <2>4. /\ asking' = [c \in Rounds |-> asking'[c]]
          /\ \A c \in Rounds : asking'[c] \in {asking[c], NotAsking}
      BY <1>1 DEF Adds, TransferTold
    <2> QED
      BY <1>1, <2>2, <2>3, <2>4, RowKeeps DEF Adds, Lasting
  <1>2. CASE create_swap
    <2>1. Adds("rbc", "DepositInProgress", "none") /\ claimed' \in BOOLEAN
      BY <1>2 DEF create_swap, TransferTold
    <2> QED
      BY <1>1, <2>1 DEF Ways, Statuses
  <1>3. ASSUME NEW said \in Said, NEW second \in Seconds \cup {"none"},
               CreatePanama(said, second) \/ CreatePolygon(said, second)
        PROVE  TransferTold'
    <2>1. said.way \in Ways /\ said.status \in Statuses
      BY SaidIsKnown
    <2>2. CASE CreatePolygon(said, second)
      BY <1>1, <2>1, <2>2 DEF CreatePolygon
    <2>3. CASE Adds("panama", said.status, second) /\ claimed' = TRUE
      BY <1>1, <2>1, <2>3 DEF Ways
    <2>4. CASE Adds("panama", get_status_by_id, second) /\ UNCHANGED claimed
      <3>1. claimed' \in BOOLEAN
        BY <2>4 DEF TransferTold
      <3>2. /\ get_status_by_id \in Statuses
            /\ get_status_by_id = "Completed" => outside = "done"
        BY DEF get_status_by_id, Statuses
      <3> QED
        BY <1>1, <2>4, <3>1, <3>2 DEF Ways
    <2> QED
      BY <1>3, <2>2, <2>3, <2>4 DEF CreatePanama
  <1>4. ASSUME NEW said \in Said, NEW s \in Seconds, PartialUpdate(said, s)
        PROVE  TransferTold'
    <2>1. said.way \in Ways /\ said.status \in Statuses
      BY SaidIsKnown
    <2>2. swap' \in Rows(Ways) /\ claimed' = TRUE
      BY <1>4, <2>1 DEF PartialUpdate, Rows
    <2>3. /\ asking' = [c \in Rounds |-> asking'[c]]
          /\ \A c \in Rounds : asking'[c] \in {asking[c], NotAsking}
      BY <1>4 DEF PartialUpdate, TransferTold
    <2> QED
      BY <1>4, <2>2, <2>3, RowKeeps DEF PartialUpdate, Lasting
  <1>5. CASE TransferEnds
    BY <1>5, TruthKeeps DEF TransferEnds, Lasting
  <1>6. ASSUME NEW s \in Seconds, SecondSucceeds(s)
        PROVE  TransferTold'
    BY <1>6, TruthKeeps DEF SecondSucceeds, Lasting
  <1>7. ASSUME NEW c \in Rounds, RoundReads(c)
        PROVE  TransferTold'
    <2> DEFINE held == [at |-> "read", row |-> swap]
    <2>1. Taken
      BY <1>7 DEF RoundReads
    <2>2. swap.way \in Ways /\ swap.status # "Completed"
      BY <2>1 DEF Taken, Ways
    <2>3. swap \in Rows(Ways)
      <3>1. CASE swap = NoSwap
        BY <3>1, <2>2 DEF NoSwap, Ways
      <3>2. CASE swap # NoSwap
        BY <3>2 DEF TransferTold
      <3> QED
        BY <3>1, <3>2
    <2>4. Honest(held)
      BY <2>2, <2>3 DEF Honest
    <2> QED
      BY <1>7, <2>4, RoundKeeps DEF RoundReads
  <1>8. ASSUME NEW c \in Rounds, check_swap_status(c)
        PROVE  TransferTold'
    <2>1. asking[c] # NotAsking /\ asking[c].row.way = "rbc"
      BY <1>8 DEF check_swap_status, Answered, NotAsking
    <2>2. asking[c].row.status \in Statuses
          /\ asking[c].row.status # "Completed"
      BY <2>1, HeldRow DEF Rows
    <2> DEFINE s == CASE outside = "going" -> "DepositInProgress"
                      [] outside = "done"  -> "Completed"
                      [] OTHER             -> asking[c].row.status
    <2>3. /\ s \in Statuses
          /\ s = "Completed" => outside = "done"
      BY <2>2 DEF Statuses
    <2>4. Answered(c, "rbc", s)
      BY <1>8 DEF check_swap_status
    <2> QED
      BY <2>1, <2>3, <2>4, AnswerKeeps DEF CameThrough
  <1>9. ASSUME NEW c \in Rounds, AsksBinance(c)
        PROVE  TransferTold'
    <2>1. /\ get_status_by_id \in Statuses
          /\ get_status_by_id = "Completed" => outside = "done"
      BY DEF get_status_by_id, Statuses
    <2>2. asking[c].row.way = "panama"
      BY <1>9 DEF AsksBinance, Answered
    <2> QED
      BY <1>9, <2>1, <2>2, AnswerKeeps DEF AsksBinance, CameThrough
  <1>10. ASSUME NEW c \in Rounds, CountersChecked(c) \/ ReceiptChecked(c)
         PROVE  TransferTold'
    <2>1. CASE CountersChecked(c)
      <3>1. asking[c].row.way = "ethpol" /\ outside = "done"
        BY <2>1 DEF CountersChecked, Answered
      <3> QED
        BY <2>1, <3>1, AnswerKeeps DEF CountersChecked, CameThrough, Statuses
    <2>2. CASE ReceiptChecked(c)
      <3>1. asking[c].row.way = "poleth" /\ asking[c].row.second \in second_transactions
        BY <2>2 DEF ReceiptChecked, Answered
      <3> QED
        BY <2>2, <3>1, AnswerKeeps DEF ReceiptChecked, CameThrough, Statuses
    <2> QED
      BY <1>10, <2>1, <2>2
  <1>11. ASSUME NEW c \in Rounds, AsksInVain(c)
         PROVE  TransferTold'
    <2>1. Honest(NotAsking)
      BY DEF Honest
    <2> QED
      BY <1>11, <2>1, RoundKeeps DEF AsksInVain
  <1>12. ASSUME NEW c \in Rounds, RoundSaves(c)
         PROVE  TransferTold'
    <2> DEFINE row == asking[c].row
               says == asking[c].says
    <2>1. asking[c].at = "answered" /\ asking[c] # NotAsking
      BY <1>12 DEF RoundSaves, NotAsking
    <2>2. /\ row \in Rows(Ways) /\ swap \in Rows(Ways)
          /\ says \in Statuses
          /\ says = "Completed" => CameThrough(row.way, row.second)
      <3>1. asking[c] # [at |-> "read", row |-> row]
        BY <2>1
      <3> HIDE DEF row, says
      <3> QED
        BY <2>1, <3>1, HeldRow DEF row, says
    <2>3. /\ swap' \in Rows(Ways)
          /\ swap'.status = says
          /\ claimed' = (swap'.way # row.way)
          /\ row.way # "panama" => swap'.way = row.way /\ swap'.second = row.second
      BY <1>12, <2>2 DEF RoundSaves, Saved, Rows
    <2>4. (swap.status = "Completed" /\ ~claimed => CameThrough(swap.way, swap.second))'
      BY <1>12, <2>2, <2>3 DEF RoundSaves, CameThrough
    <2>5. /\ asking' = [d \in Rounds |-> asking'[d]]
          /\ \A d \in Rounds : asking'[d] \in {asking[d], NotAsking}
      BY <1>12 DEF RoundSaves, TransferTold
    <2> QED
      BY <1>12, <2>3, <2>4, <2>5, RowKeeps DEF RoundSaves, Lasting
  <1>13. CASE UNCHANGED bridgeVars
    BY <1>13, RoundStaysHonest DEF bridgeVars, TransferTold, Lasting, CameThrough
  <1> QED
    BY <1>2, <1>3, <1>4, <1>5, <1>6, <1>7, <1>8, <1>9, <1>10, <1>11, <1>12, <1>13
    DEF BridgeNext

(***************************************************************************)
(* For any number of rounds, any second transactions and whatever          *)
(* customers say: what the bridge's list shows as completed has come       *)
(* through, unless a request of the customer said so last.                 *)
(***************************************************************************)
THEOREM BridgeTold == Spec => []BridgeDoneIsDone
  <1>1. Init => TransferTold
    BY PartsStart, TransferToldInit
  <1>2. TransferTold /\ [Next]_platformVars => TransferTold'
    BY BridgeAlone, TransferToldStep DEF bridgeVars
  <1>3. TransferTold => BridgeDoneIsDone
    BY DEF TransferTold, BridgeDoneIsDone, CameThrough
  <1> QED
    BY <1>1, <1>2, <1>3, PTL DEF Spec
-----------------------------------------------------------------------------
(***************************************************************************)
(* The account.  The unique user of a profile is all that keeps a second   *)
(* request from the balances: who saves the profile is alone with them, so *)
(* that how far it is tells which balances there are.                      *)
(***************************************************************************)
Filling == Sites \cup {"node"}

\* The balances that a request finds when it comes to the step.
Before(step) ==
  [s \in Sites |->
     IF \/ step = "node"
        \/ s = "wish" /\ step # "wish"
        \/ s = "swaps" /\ step = "protector" THEN 1 ELSE 0]

AccountTypes ==
  /\ user \in BOOLEAN /\ profile \in BOOLEAN /\ halved \in BOOLEAN
  /\ balances \in [Sites -> {0, 1}]
  /\ login \in [Requests -> {"away", "no user", "user", "logged in", "profile"} \cup Filling]
  /\ by \in Logins

OneFills ==
  /\ ~profile => /\ \A s \in Sites : balances[s] = 0
                 /\ \A r \in Requests : login[r] \notin Filling
  /\ \A r, q \in Requests : login[r] \in Filling /\ login[q] \in Filling => r = q
  /\ \A r \in Requests : login[r] \in Filling => balances = Before(login[r])

FilledOrHalved ==
  profile /\ ~halved /\ (\A r \in Requests : login[r] \notin Filling)
    => \A s \in Sites : balances[s] = 1

InWithProfile ==
  /\ by \in {"register", "FacebookAuth"} /\ user /\ ~profile
       => halved \/ \E r \in Requests : login[r] = "profile"
  /\ \A r \in Requests :
       /\ login[r] = "user" => user
       /\ login[r] = "logged in" /\ ~profile => by = "FacebookAuth" /\ user

AccountTold == AccountTypes /\ OneFills /\ FilledOrHalved /\ InWithProfile

LEMMA AccountToldInit == AccountInit => AccountTold
  BY DEF AccountInit, AccountTold, AccountTypes, OneFills, FilledOrHalved,
         InWithProfile, Filling, Sites

LEMMA StepsAre == Steps = {"profile"} \cup Filling
  BY DEF Steps, init_profile, Filling, Sites

LEMMA NextSteps ==
  /\ NextStep("profile") = "wish"
  /\ NextStep("wish") = "swaps"
  /\ NextStep("swaps") = "protector"
  /\ NextStep("protector") = "node"
  <1>1. /\ DOMAIN init_profile = 1..5
        /\ init_profile[1] = "profile" /\ init_profile[2] = "wish"
        /\ init_profile[3] = "swaps" /\ init_profile[4] = "protector"
        /\ init_profile[5] = "node"
    BY DEF init_profile
  <1>2. ASSUME NEW i \in 1..4
        PROVE  /\ init_profile[i] # "node"
               /\ (CHOOSE j \in DOMAIN init_profile : init_profile[j] = init_profile[i]) = i
    <2>1. \A j \in DOMAIN init_profile : init_profile[j] = init_profile[i] <=> j = i
      BY <1>1
    <2> QED
      BY <1>1, <2>1
  <1>3. \A i \in 1..4 : NextStep(init_profile[i]) = init_profile[i + 1]
    BY <1>2 DEF NextStep
  <1> QED
    BY <1>1, <1>3

LEMMA BalanceAdded ==
  ASSUME NEW site \in Sites
  PROVE  /\ NextStep(site) \in Filling
         /\ [Before(site) EXCEPT ![site] = @ + 1] = Before(NextStep(site))
         /\ Before(NextStep(site)) \in [Sites -> {0, 1}]
  <1>1. \A step : /\ Before(step) \in [Sites -> {0, 1}]
                  /\ [Before(step) EXCEPT ![site] = @ + 1]
                       = [s \in Sites |-> IF s = site THEN Before(step)[s] + 1
                                          ELSE Before(step)[s]]
    BY DEF Before
  <1>2. ASSUME NEW s \in Sites
        PROVE  (IF s = site THEN Before(site)[s] + 1 ELSE Before(site)[s])
                 = Before(NextStep(site))[s]
    <2>1. CASE site = "wish"
      BY <2>1, NextSteps DEF Before, Sites
    <2>2. CASE site = "swaps"
      BY <2>2, NextSteps DEF Before, Sites
    <2>3. CASE site = "protector"
      BY <2>3, NextSteps DEF Before, Sites
    <2> QED
      BY <2>1, <2>2, <2>3 DEF Sites
  <1>3. NextStep(site) \in Filling
    BY NextSteps DEF Sites, Filling
  <1> DEFINE F == [Before(site) EXCEPT ![site] = @ + 1]
             G == Before(NextStep(site))
  <1>4. /\ F = [s \in Sites |-> F[s]] /\ G = [s \in Sites |-> G[s]]
        /\ \A s \in Sites : F[s] = G[s]
    BY <1>1, <1>2
  <1>5. F = G
    <2> HIDE DEF F, G
    <2> QED
      BY <1>4
  <1> QED
    BY <1>1, <1>3, <1>5

\* What a move of a request leaves of the logins.
LEMMA Moved ==
  ASSUME AccountTypes, NEW r \in Requests, NEW to, Moves(r, to)
  PROVE  /\ login'[r] = to
         /\ \A q \in Requests : q # r => login'[q] = login[q]
         /\ login' \in [Requests -> {to} \cup {login[q] : q \in Requests}]
  BY DEF AccountTypes, Moves

\* A move between states at which no account is made.
LEMMA MoveKeeps ==
  ASSUME AccountTold, NEW r \in Requests, NEW to,
         Moves(r, to), login[r] \notin Filling \cup {"profile"},
         to \in {"away", "no user", "user", "logged in", "profile"},
         UNCHANGED <<by, profile, balances, halved>>, user' \in BOOLEAN, user => user',
         to = "user" => user',
         to = "logged in" => profile \/ (by = "FacebookAuth" /\ user'),
         by \in {"register", "FacebookAuth"} /\ user' => user \/ to = "profile"
  PROVE  AccountTold'
  <1>1. /\ login'[r] = to /\ \A q \in Requests : q # r => login'[q] = login[q]
        /\ login' \in [Requests -> {to} \cup {login[q] : q \in Requests}]
    BY Moved DEF AccountTold
  <1>2. AccountTypes'
    BY <1>1 DEF AccountTold, AccountTypes
  <1>3. \A q \in Requests : login'[q] \in Filling <=> login[q] \in Filling
    BY <1>1 DEF Filling, Sites
  <1>4. \A q \in Requests : login[q] \in Filling => login'[q] = login[q]
    BY <1>1
  <1>5. OneFills'
    <2>1. UNCHANGED <<profile, balances, Filling>>
      BY DEF Filling
    <2>2. \A q \in Requests : login[q] \in Filling => Before(login[q])' = Before(login[q])
      BY <1>4 DEF Before
    <2>3. (~profile => /\ \A s \in Sites : balances[s] = 0
                      /\ \A q \in Requests : login[q] \notin Filling)'
      BY <1>3 DEF AccountTold, OneFills, Filling
    <2>4. (\A q, p \in Requests : login[q] \in Filling /\ login[p] \in Filling => q = p)'
      BY <1>3, <2>1 DEF AccountTold, OneFills, Filling
    <2>5. (\A q \in Requests : login[q] \in Filling => balances = Before(login[q]))'
      BY <1>3, <2>1, <2>2 DEF AccountTold, OneFills, Filling
    <2> QED
      BY <2>3, <2>4, <2>5 DEF OneFills
  <1>6. FilledOrHalved'
    BY <1>3 DEF AccountTold, FilledOrHalved, Filling, Sites
  <1>7. InWithProfile'
    BY <1>1 DEF AccountTold, InWithProfile
  <1> QED
    BY <1>2, <1>5, <1>6, <1>7 DEF AccountTold

\* The profile is not saved: there is one, or the request breaks off.
LEMMA BreakKeeps ==
  ASSUME AccountTold, NEW r \in Requests, Moves(r, "away"), login[r] = "profile",
         UNCHANGED <<by, user, profile, balances>>, halved' \in BOOLEAN,
         halved => halved',
         profile \/ (by \in {"register", "FacebookAuth"} => halved')
  PROVE  AccountTold'
  <1>1. /\ login'[r] = "away" /\ \A q \in Requests : q # r => login'[q] = login[q]
        /\ login' \in [Requests -> {"away"} \cup {login[q] : q \in Requests}]
    BY Moved DEF AccountTold
  <1>2. AccountTypes'
    BY <1>1 DEF AccountTold, AccountTypes
  <1>3. \A q \in Requests : /\ login'[q] \in Filling <=> login[q] \in Filling
                            /\ login[q] \in Filling => login'[q] = login[q]
    BY <1>1 DEF Filling, Sites
  <1>4. \A q \in Requests : login[q] \in Filling => Before(login[q])' = Before(login[q])
    BY <1>3 DEF Before
  <1>5. OneFills'
    <2>1. (~profile => /\ \A s \in Sites : balances[s] = 0
                      /\ \A q \in Requests : login[q] \notin Filling)'
      BY <1>3 DEF AccountTold, OneFills, Filling
    <2>2. (\A q, p \in Requests : login[q] \in Filling /\ login[p] \in Filling => q = p)'
      BY <1>3 DEF AccountTold, OneFills, Filling
    <2>3. (\A q \in Requests : login[q] \in Filling => balances = Before(login[q]))'
      BY <1>3, <1>4 DEF AccountTold, OneFills, Filling
    <2> QED
      BY <2>1, <2>2, <2>3 DEF OneFills
  <1>6. FilledOrHalved'
    BY <1>3 DEF AccountTold, FilledOrHalved, Filling, Sites
  <1>7. InWithProfile'
    BY <1>1 DEF AccountTold, InWithProfile
  <1> QED
    BY <1>2, <1>5, <1>6, <1>7 DEF AccountTold

\* The request that fills the account ends, with all the balances or halved.
LEMMA FillingEnds ==
  ASSUME AccountTold, NEW r \in Requests, NEW to \in {"away", "logged in"}, Moves(r, to),
         login[r] \in Filling,
         UNCHANGED <<by, user, profile, balances>>, halved' \in BOOLEAN,
         halved => halved',
         halved' \/ \A s \in Sites : balances[s] = 1
  PROVE  AccountTold'
  <1>1. /\ login'[r] = to /\ \A q \in Requests : q # r => login'[q] = login[q]
        /\ login' \in [Requests -> {to} \cup {login[q] : q \in Requests}]
    BY Moved DEF AccountTold
  <1>2. AccountTypes'
    BY <1>1 DEF AccountTold, AccountTypes
  <1>3. profile /\ profile'
    BY DEF AccountTold, OneFills
  <1>4. \A q \in Requests : login'[q] \notin Filling
    BY <1>1 DEF AccountTold, OneFills, Filling, Sites
  <1>5. OneFills'
    BY <1>3, <1>4 DEF OneFills, Filling
  <1>6. FilledOrHalved'
    BY DEF FilledOrHalved
  <1>7. InWithProfile'
    BY <1>1, <1>3 DEF AccountTold, InWithProfile
  <1> QED
    BY <1>2, <1>5, <1>6, <1>7 DEF AccountTold

LEMMA AccountToldStep ==
  ASSUME AccountTold, [AccountNext]_accountVars
  PROVE  AccountTold'
  <1>1. ASSUME NEW r \in Requests, LooksForUser(r)
        PROVE  AccountTold'
    <2>1. CASE user
      BY <1>1, <2>1, MoveKeeps DEF LooksForUser, Filling, Sites, AccountTold, AccountTypes
    <2>2. CASE ~user
      BY <1>1, <2>2, MoveKeeps DEF LooksForUser, Filling, Sites, AccountTold, AccountTypes
    <2> QED
      BY <2>1, <2>2
  <1>2. ASSUME NEW r \in Requests, CreatesUser(r)
        PROVE  AccountTold'
    <2> DEFINE to == IF user THEN "away"
                     ELSE IF by \in {"register", "FacebookAuth"} THEN init_profile[1]
                     ELSE "user"
    <2>1. /\ to \in {"away", "user", "profile"}
          /\ by \in {"register", "FacebookAuth"} => user \/ to = "profile"
      BY DEF init_profile
    <2>2. Moves(r, to) /\ login[r] = "no user" /\ user'
      BY <1>2 DEF CreatesUser
    <2> HIDE DEF to
    <2> QED
      BY <1>2, <2>1, <2>2, MoveKeeps DEF CreatesUser, Filling, Sites
  <1>3. ASSUME NEW r \in Requests, HasProfile(r)
        PROVE  AccountTold'
    <2>1. user
      BY <1>3 DEF HasProfile, AccountTold, InWithProfile
    <2> QED
      BY <1>3, <2>1, MoveKeeps DEF HasProfile, Filling, Sites
  <1>4. ASSUME NEW r \in Requests, HasNone(r)
        PROVE  AccountTold'
    <2>1. Moves(r, "profile") /\ login[r] = "user" /\ user
      BY <1>4 DEF HasNone, init_profile, AccountTold, InWithProfile
    <2> QED
      BY <1>4, <2>1, MoveKeeps DEF HasNone, Filling, Sites
  <1>5. ASSUME NEW r \in Requests, SavesProfile(r)
        PROVE  AccountTold'
    <2>1. CASE profile
      BY <1>5, <2>1, BreakKeeps DEF SavesProfile, AccountTold, AccountTypes
    <2>2. CASE ~profile
      <3>1. Moves(r, "wish") /\ login[r] = "profile"
        BY <1>5, <2>2, NextSteps DEF SavesProfile
      <3>2. \A q \in Requests : login[q] \notin Filling
        BY <2>2 DEF AccountTold, OneFills
      <3>3. /\ login'[r] = "wish" /\ \A q \in Requests : q # r => login'[q] = login[q]
            /\ login' \in [Requests -> {"wish"} \cup {login[q] : q \in Requests}]
        BY <3>1, Moved DEF AccountTold
      <3>4. AccountTypes'
        BY <1>5, <3>3 DEF SavesProfile, AccountTold, AccountTypes, Filling, Sites
      <3>5. balances' = Before("wish")
        BY <1>5, <2>2 DEF SavesProfile, AccountTold, AccountTypes, OneFills, Before
      <3>6. Before("wish")' = Before("wish")
        BY DEF Before
      <3>7. OneFills'
        BY <1>5, <3>2, <3>3, <3>5, <3>6 DEF SavesProfile, OneFills, Filling
      <3>8. FilledOrHalved'
        BY <3>3 DEF FilledOrHalved, Filling, Sites
      <3>9. InWithProfile'
        BY <1>5, <3>3 DEF SavesProfile, AccountTold, InWithProfile
      <3> QED
        BY <3>4, <3>7, <3>8, <3>9 DEF AccountTold
    <2> QED
      BY <2>1, <2>2 DEF AccountTold, AccountTypes
  <1>6. ASSUME NEW r \in Requests, SavesBalance(r)
        PROVE  AccountTold'
    <2> DEFINE site == login[r]
               to == NextStep(site)
    <2>1. site \in Sites /\ Moves(r, to) /\ balances = Before(site)
      BY <1>6 DEF SavesBalance, AccountTold, OneFills, Filling
    <2>2. /\ to \in Filling
          /\ balances' = Before(to)
          /\ balances' \in [Sites -> {0, 1}]
      BY <1>6, <2>1, BalanceAdded DEF SavesBalance
    <2>3. /\ login'[r] = to /\ \A q \in Requests : q # r => login'[q] = login[q]
          /\ login' \in [Requests -> {to} \cup {login[q] : q \in Requests}]
      BY <2>1, Moved DEF AccountTold
    <2> HIDE DEF to
    <2>4. AccountTypes'
      BY <1>6, <2>2, <2>3 DEF SavesBalance, AccountTold, AccountTypes
    <2>5. profile
      BY <2>1 DEF AccountTold, OneFills, Filling
    <2>6. \A q \in Requests : login'[q] \in Filling => q = r
      BY <2>1, <2>3 DEF AccountTold, OneFills, Filling
    <2>7. \A q \in Requests : login'[q] \in Filling => balances' = Before(login[q])'
      BY <2>2, <2>3, <2>6 DEF Before
    <2>8. OneFills'
      BY <1>6, <2>5, <2>6, <2>7 DEF SavesBalance, OneFills, Filling
    <2>9. FilledOrHalved'
      BY <2>2, <2>3 DEF FilledOrHalved, Filling
    <2>10. InWithProfile'
      BY <1>6, <2>2, <2>3, <2>5 DEF SavesBalance, AccountTold, InWithProfile, Filling, Sites
    <2> QED
      BY <2>4, <2>8, <2>9, <2>10 DEF AccountTold
  <1>7. ASSUME NEW r \in Requests, RegistersAddresses(r)
        PROVE  AccountTold'
    <2>1. /\ profile /\ \A s \in Sites : balances[s] = 1
          /\ login[r] = "node" /\ login[r] \in Filling
      BY <1>7 DEF RegistersAddresses, AccountTold, OneFills, Filling, Before, Sites
    <2> QED
      BY <1>7, <2>1, FillingEnds DEF RegistersAddresses, AccountTold, AccountTypes
  <1>8. ASSUME NEW r \in Requests, LoginBreaks(r)
        PROVE  AccountTold'
    <2>1. CASE login[r] \in Sites
      BY <1>8, <2>1, FillingEnds DEF LoginBreaks, Filling, AccountTold, AccountTypes
    <2>2. CASE login[r] = "node"
      <3>1. \A s \in Sites : balances[s] = 1
        BY <2>2 DEF AccountTold, OneFills, Filling, Before, Sites
      <3> QED
        BY <1>8, <2>2, <3>1, FillingEnds
        DEF LoginBreaks, Filling, Sites, AccountTold, AccountTypes
    <2>3. CASE login[r] = "profile"
      BY <1>8, <2>3, BreakKeeps DEF LoginBreaks, AccountTold, AccountTypes, Sites
    <2> QED
      BY <1>8, <2>1, <2>2, <2>3, StepsAre DEF LoginBreaks, Filling
  <1>9. ASSUME NEW r \in Requests, ComesAgain(r)
        PROVE  AccountTold'
    <2>1. user \in BOOLEAN /\ login[r] \notin Filling \cup {"profile"}
      BY <1>9 DEF ComesAgain, AccountTold, AccountTypes, Filling, Sites
    <2>2. /\ Moves(r, "away")
          /\ UNCHANGED <<by, user, profile, balances, halved>>
      BY <1>9 DEF ComesAgain
    <2>3. CASE user
      BY <2>1, <2>2, <2>3, MoveKeeps
    <2>4. CASE ~user
      BY <2>1, <2>2, <2>4, MoveKeeps
    <2> QED
      BY <2>3, <2>4
  <1>10. CASE UNCHANGED accountVars
    <2>1. UNCHANGED <<by, user, profile, balances, login, halved>>
      BY <1>10 DEF accountVars
    <2>2. AccountTypes'
      BY <2>1 DEF AccountTold, AccountTypes
    <2>3. OneFills'
      <3>1. \A r \in Requests : Before(login[r])' = Before(login[r])
        BY <2>1 DEF Before
      <3> QED
        BY <2>1, <3>1 DEF AccountTold, OneFills, Filling
    <2>4. FilledOrHalved'
      BY <2>1 DEF AccountTold, FilledOrHalved, Filling
    <2>5. InWithProfile'
      BY <2>1 DEF AccountTold, InWithProfile
    <2> QED
      BY <2>2, <2>3, <2>4, <2>5 DEF AccountTold
  <1> QED
    BY <1>1, <1>2, <1>3, <1>4, <1>5, <1>6, <1>7, <1>8, <1>9, <1>10 DEF AccountNext

(***************************************************************************)
(* For any number of requests of the customer: no second balance, and who  *)
(* is in has a whole account.                                              *)
(***************************************************************************)
THEOREM AccountWhole == Spec => []AccountIsWhole
  <1>1. Init => AccountTold
    BY PartsStart, AccountToldInit
  <1>2. AccountTold /\ [Next]_platformVars => AccountTold'
    BY AccountAlone, AccountToldStep DEF accountVars
  <1>3. AccountTold => AccountIsWhole
    <2> SUFFICES ASSUME AccountTold
                 PROVE  AccountIsWhole
      OBVIOUS
    <2>1. \A s \in Sites : balances[s] <= 1
      <3>1. \A s \in Sites : balances[s] \in {0, 1}
        BY DEF AccountTold, AccountTypes
      <3> QED
        BY <3>1
    <2>2. ASSUME NEW r \in Requests, login[r] = "logged in", ~halved,
                 \A q \in Requests : login[q] \notin Steps
          PROVE  profile /\ \A s \in Sites : balances[s] = 1
      <3>1. \A q \in Requests : login[q] # "profile" /\ login[q] \notin Filling
        BY <2>2, StepsAre
      <3>2. profile
        BY <2>2, <3>1 DEF AccountTold, AccountTypes, InWithProfile
      <3> QED
        BY <2>2, <3>1, <3>2 DEF AccountTold, FilledOrHalved
    <2> QED
      BY <2>1, <2>2 DEF AccountIsWhole
  <1> QED
    BY <1>1, <1>2, <1>3, PTL DEF Spec
-----------------------------------------------------------------------------
(***************************************************************************)
(* The shares put aside.  The daemon saves a copy, so the books have to    *)
(* balance with the copy as they do with the row, unless it is stale; a    *)
(* fraction is dropped only with a whole EOSISH that is sent.              *)
(***************************************************************************)
LEMMA Quotient ==
  ASSUME NEW a \in Nat, NEW w \in Nat \ {0}
  PROVE  /\ a \div w \in Nat /\ a % w \in 0..(w - 1)
         /\ a = w * (a \div w) + (a % w)
  OBVIOUS

LEMMA Unique ==
  ASSUME NEW w \in Nat \ {0}, NEW q \in Nat, NEW r \in 0..(w - 1)
  PROVE  (w * q + r) \div w = q /\ (w * q + r) % w = r
  OBVIOUS

LEMMA Product ==
  ASSUME NEW w \in Nat \ {0}, NEW q \in Nat
  PROVE  (w - 1) * q \in Nat
  OBVIOUS

LEMMA Fraction ==
  ASSUME NEW w \in Nat \ {0}, NEW s \in Nat, NEW n \in Nat, s % w = 0, n >= w
  PROVE  LET m == n - (n % w)
         IN  /\ m \in Nat /\ m <= n /\ (s + m) % w = 0
             /\ (w - 1) * (s \div w) + (n % w) <= (w - 1) * ((s + m) \div w)
  <1> DEFINE q == s \div w
             p == n \div w
             r == n % w
  <1>1. q \in Nat /\ p \in Nat /\ r \in 0..(w - 1) /\ s = w * q /\ n = w * p + r
    BY Quotient
  <1>2. /\ (w * (q + p)) \div w = q + p /\ (w * (q + p)) % w = 0
    <2>1. w * (q + p) + 0 = w * (q + p)
      BY <1>1
    <2> QED
      BY <1>1, <2>1, Unique
  <1> HIDE DEF q, p, r
  <1>3. p # 0
    <2> SUFFICES ASSUME p = 0
                 PROVE  FALSE
      OBVIOUS
    <2>1. w * p = 0
      OBVIOUS
    <2> QED
      BY <1>1, <2>1
  <1>4. /\ w * q + w * p = w * (q + p) /\ w * p \in Nat
        /\ (w - 1) * (q + p) = (w - 1) * q + (w - 1) * p
        /\ (w - 1) * q \in Nat /\ (w - 1) * p \in Nat
        /\ (w - 1) * p >= w - 1
    <2>1. p >= 1
      BY <1>1, <1>3
    <2>2. w * q + w * p = w * (q + p) /\ w * p \in Nat
      BY <1>1
    <2>3. (w - 1) * (q + p) = (w - 1) * q + (w - 1) * p
      BY <1>1
    <2>4. (w - 1) * q \in Nat /\ (w - 1) * p \in Nat
      BY <1>1, Product
    <2>5. (w - 1) * p >= w - 1
      BY <1>1, <2>1
    <2> QED
      BY <2>2, <2>3, <2>4, <2>5
  <1>5. n - r = w * p /\ n - r \in Nat /\ n - r <= n /\ s + (n - r) = w * (q + p)
    <2> DEFINE a == w * p
    <2>1. a \in Nat /\ n = a + r /\ r \in Nat
      BY <1>1, <1>4
    <2> HIDE DEF a
    <2>2. n - r = a /\ n - r \in Nat /\ n - r <= n
      BY <2>1
    <2> QED
      BY <1>1, <1>4, <2>2 DEF a
  <1>6. (s + (n - r)) % w = 0 /\ (s + (n - r)) \div w = q + p
    BY <1>2, <1>5
  <1>7. (w - 1) * q + r <= (w - 1) * (q + p)
    <2> DEFINE a == (w - 1) * q
               b == (w - 1) * p
    <2>1. a \in Nat /\ b \in Nat /\ b >= w - 1 /\ r \in 0..(w - 1)
          /\ (w - 1) * (q + p) = a + b
      BY <1>1, <1>4
    <2> HIDE DEF a, b
    <2>2. a + r <= a + b
      BY <2>1
    <2> QED
      BY <2>1, <2>2 DEF a
  <1>8. /\ n - r \in Nat /\ n - r <= n /\ (s + (n - r)) % w = 0
        /\ (w - 1) * q + r <= (w - 1) * ((s + (n - r)) \div w)
    BY <1>5, <1>6, <1>7
  <1> QED
    BY <1>8 DEF q, r

Explained(c, columns) == put[c] <= columns[c] + sent[c] + Fractions(c)
Covered(c, columns)   == columns[c] + sent[c] <= put[c]

SharesTold ==
  /\ ShareTypeOK
  /\ moved => check # "asleep"
  /\ sent["eosish"] % WholeEosish = 0
  /\ \A c \in Currencies :
       /\ ~overwritten => Explained(c, frozen)
       /\ ~unsaved /\ (moved => check # c) => Covered(c, frozen)
       /\ check # "asleep" /\ ~fresh /\ ~overwritten => Explained(c, copy)
       /\ check # "asleep" /\ ~unsaved => Covered(c, copy)

LEMMA FractionsAre ==
  ASSUME ShareTypeOK
  PROVE  \A c \in Currencies : Fractions(c) \in Nat
  <1>1. sent["eosish"] \in Nat
    BY DEF ShareTypeOK, Currencies
  <1>2. sent["eosish"] \div WholeEosish \in Nat /\ WholeEosish \in Nat \ {0}
    BY <1>1, Quotient, SharesAssumption
  <1>3. (WholeEosish - 1) * (sent["eosish"] \div WholeEosish) \in Nat
    BY <1>2, Product
  <1> QED
    BY <1>3 DEF Fractions

LEMMA SharesToldInit == ShareInit => SharesTold
  <1> SUFFICES ASSUME ShareInit
               PROVE  SharesTold
    OBVIOUS
  <1>1. ShareTypeOK
    <2>1. 0 \in 0..MaxShares /\ 0 \in 0..MaxMishaps
      BY SharesAssumption
    <2> QED
      BY <2>1 DEF ShareInit, ShareTypeOK, NoShare, Frozen
  <1>2. sent["eosish"] = 0 /\ 0 % WholeEosish = 0
    BY SharesAssumption DEF ShareInit, NoShare, Currencies
  <1>3. \A c \in Currencies : Explained(c, frozen) /\ Covered(c, frozen)
    BY <1>1, FractionsAre DEF ShareInit, NoShare, Explained, Covered
  <1> QED
    BY <1>1, <1>2, <1>3 DEF SharesTold, ShareInit

\* What a transfer changes: the sum it sends and the fraction it drops are
\* what the copy loses.
LEMMA SumIsLost ==
  ASSUME SharesTold, NEW c \in Frozen, Enough(c), Sends(c)
  PROVE  /\ sent' \in [Currencies -> Nat] /\ sent'["eosish"] % WholeEosish = 0
         /\ Left(c) \in Nat /\ Left(c) <= copy[c]
         /\ \A d \in Currencies :
              /\ Fractions(d) \in Nat /\ Fractions(d)' \in Nat
              /\ Fractions(d) <= Fractions(d)' /\ sent[d] <= sent'[d]
              /\ d # c => sent'[d] = sent[d] /\ Fractions(d)' = Fractions(d)
         /\ copy[c] + sent[c] + Fractions(c) <= Left(c) + sent'[c] + Fractions(c)'
         /\ Left(c) + sent'[c] <= copy[c] + sent[c]
  <1>1. /\ c \in Currencies /\ copy[c] \in Nat /\ sent \in [Currencies -> Nat]
        /\ sent["eosish"] \in Nat /\ sent["eosish"] % WholeEosish = 0
    BY DEF SharesTold, ShareTypeOK, Currencies, Frozen
  <1>2. /\ WholeEosish \in Nat \ {0} /\ Threshold \in Nat /\ Threshold >= WholeEosish
    BY SharesAssumption
  <1>3. \A d \in Currencies : Fractions(d) \in Nat
    BY FractionsAre DEF SharesTold
  <1>4. sent' = [sent EXCEPT ![c] = @ + Sum(c)]
    BY DEF Sends
  <1>5. CASE c = "eosish"
    <2> DEFINE s == sent["eosish"]
               n == copy["eosish"]
               m == n - (n % WholeEosish)
    <2>1. n \in Nat /\ n >= WholeEosish
      BY <1>1, <1>2, <1>5 DEF Enough
    <2>2. /\ m \in Nat /\ m <= n /\ (s + m) % WholeEosish = 0
          /\ (WholeEosish - 1) * (s \div WholeEosish) + (n % WholeEosish)
               <= (WholeEosish - 1) * ((s + m) \div WholeEosish)
      BY <1>1, <1>2, <2>1, Fraction
    <2>3. n % WholeEosish \in Nat /\ n = m + (n % WholeEosish)
      <3>1. n % WholeEosish \in 0..(WholeEosish - 1)
        BY <1>2, <2>1, Quotient
      <3> DEFINE r == n % WholeEosish
      <3>2. r \in Nat
        BY <1>2, <3>1
      <3> HIDE DEF r
      <3>3. n = (n - r) + r
        BY <2>1, <3>2
      <3> QED
        BY <3>2, <3>3 DEF r
    <2>4. sent'["eosish"] = s + m /\ \A d \in Currencies : d # c => sent'[d] = sent[d]
      BY <1>1, <1>4, <1>5 DEF Sum
    <2>5. /\ Fractions("eosish") = (WholeEosish - 1) * (s \div WholeEosish)
          /\ Fractions("eosish")' = (WholeEosish - 1) * ((s + m) \div WholeEosish)
          /\ \A d \in Currencies : d # c => Fractions(d)' = Fractions(d)
      BY <1>5, <2>4 DEF Fractions
    <2> HIDE DEF m
    <2>6. (s + m) \div WholeEosish \in Nat
      <3>1. s + m \in Nat
        BY <1>1, <2>2
      <3> QED
        BY <1>2, <3>1, Quotient
    <2>7. Fractions("eosish")' \in Nat
      <3>1. (WholeEosish - 1) * ((s + m) \div WholeEosish) \in Nat
        BY <1>2, <2>6, Product
      <3> QED
        BY <2>5, <3>1
    <2>8. Left(c) = 0
      BY <1>5 DEF Left
    <2>9. sent' \in [Currencies -> Nat]
      BY <1>1, <1>4, <1>5, <2>2, <2>4
    <2>10. Fractions("eosish") + (n % WholeEosish) <= Fractions("eosish")'
      BY <2>2, <2>5
    <2> HIDE DEF s, n
    <2>11. s \in Nat /\ s = sent[c] /\ n = copy[c]
      BY <1>1, <1>5 DEF s, n
    <2>12. \A d \in Currencies : d # c =>
              /\ sent[d] <= sent'[d] /\ Fractions(d) <= Fractions(d)'
              /\ Fractions(d)' \in Nat
      BY <1>1, <1>3, <2>4, <2>5
    <2>13. Fractions(c) <= Fractions(c)' /\ sent[c] <= sent'[c]
      BY <1>1, <1>3, <1>5, <2>2, <2>3, <2>4, <2>7, <2>10, <2>11
    <2>14. copy[c] + sent[c] + Fractions(c) <= Left(c) + sent'[c] + Fractions(c)'
      BY <1>1, <1>3, <1>5, <2>1, <2>2, <2>3, <2>4, <2>7, <2>8, <2>10, <2>11
    <2>15. Left(c) + sent'[c] <= copy[c] + sent[c]
      BY <1>5, <2>1, <2>2, <2>4, <2>8, <2>11
    <2> QED
      BY <1>1, <1>3, <1>5, <2>2, <2>4, <2>5, <2>7, <2>8, <2>9, <2>12, <2>13, <2>14, <2>15
  <1>6. CASE c # "eosish"
    <2>1. /\ Left(c) \in Nat /\ Sum(c) \in Nat /\ Left(c) + Sum(c) = copy[c]
      BY <1>1, <1>2, <1>6 DEF Enough, Left, Sum, Frozen
    <2>2. /\ sent'[c] = sent[c] + Sum(c) /\ \A d \in Currencies : d # c => sent'[d] = sent[d]
          /\ sent' \in [Currencies -> Nat]
      BY <1>1, <1>4, <2>1
    <2>3. sent'["eosish"] = sent["eosish"]
      BY <1>6, <2>2 DEF Currencies
    <2>4. \A d \in Currencies : Fractions(d)' = Fractions(d)
      BY <2>3 DEF Fractions
    <2>5. sent[c] \in Nat
      BY <1>1
    <2> QED
      BY <1>1, <1>3, <2>1, <2>2, <2>3, <2>4, <2>5
  <1> QED
    BY <1>5, <1>6

\* Nothing is sent, and a row and a copy are what they were.
LEMMA StillTold ==
  ASSUME SharesTold, UNCHANGED <<frozen, copy, put, sent, fresh, overwritten>>,
         unsaved' \in BOOLEAN, unsaved => unsaved',
         check' \in Frozen \cup {"asleep"}, check # "asleep",
         moved' = FALSE, moved => unsaved',
         shares' \in 0..MaxShares, mishaps' \in 0..MaxMishaps
  PROVE  SharesTold'
  <1>1. ShareTypeOK'
    BY DEF SharesTold, ShareTypeOK
  <1>2. \A c \in Currencies : Fractions(c)' = Fractions(c)
    BY DEF Fractions
  <1> QED
    BY <1>1, <1>2 DEF SharesTold, Explained, Covered

LEMMA SharesToldStep ==
  ASSUME SharesTold, [ShareNext]_shareVars
  PROVE  SharesTold'
  <1>1. CASE freeze_payments
    <2>1. PICK net \in {"EOS_MAINNET", "TRON_MAINNET", "other"}, n \in Amounts :
             /\ shares < MaxShares /\ shares' = shares + 1
             /\ frozen' = Plus(frozen, n, SharesOf(net))
             /\ put' = Plus(put, n, SharesOf(net))
             /\ fresh' = TRUE
             /\ UNCHANGED <<copy, check, moved, sent, overwritten, unsaved, mishaps>>
      BY <1>1 DEF freeze_payments
    <2> DEFINE cs == SharesOf(net)
    <2>2. n \in Nat
      BY SharesAssumption
    <2> HIDE DEF cs
    <2>3. \A c \in Currencies :
             \E k \in {0, n} : /\ frozen'[c] = frozen[c] + k /\ put'[c] = put[c] + k
      BY <2>1, <2>2 DEF cs, Plus, SharesTold, ShareTypeOK
    <2>4. frozen' \in [Currencies -> Nat] /\ put' \in [Currencies -> Nat]
      BY <2>1, <2>2 DEF Plus, SharesTold, ShareTypeOK
    <2>5. ShareTypeOK'
      <3>1. shares' \in 0..MaxShares
        BY <2>1, SharesAssumption DEF SharesTold, ShareTypeOK
      <3> QED
        BY <2>1, <2>4, <3>1 DEF SharesTold, ShareTypeOK
    <2>6. \A c \in Currencies : Fractions(c)' = Fractions(c) /\ Fractions(c) \in Nat
      BY <2>1, FractionsAre DEF Fractions, SharesTold
    <2>7. ASSUME NEW c \in Currencies
          PROVE  /\ Explained(c, frozen) => Explained(c, frozen)'
                 /\ Covered(c, frozen) => Covered(c, frozen)'
                 /\ Covered(c, copy) => Covered(c, copy)'
      <3>1. /\ frozen[c] \in Nat /\ put[c] \in Nat /\ copy[c] \in Nat /\ sent[c] \in Nat
        BY DEF SharesTold, ShareTypeOK
      <3>2. PICK k \in {0, n} : frozen'[c] = frozen[c] + k /\ put'[c] = put[c] + k
        BY <2>3
      <3> QED
        BY <2>1, <2>2, <2>6, <3>1, <3>2 DEF Explained, Covered
    <2> QED
      BY <2>1, <2>5, <2>7 DEF SharesTold
  <1>2. CASE CheckWakes
    <2>1. ShareTypeOK'
      BY <1>2 DEF CheckWakes, SharesTold, ShareTypeOK, Frozen
    <2>2. \A c \in Currencies : Fractions(c)' = Fractions(c)
      BY <1>2 DEF CheckWakes, Fractions
    <2>3. ~moved
      BY <1>2 DEF CheckWakes, SharesTold
    <2> QED
      BY <1>2, <2>1, <2>2, <2>3 DEF CheckWakes, SharesTold, Explained, Covered
  <1>3. ASSUME NEW c \in Frozen, GoesOn(c)
        PROVE  check' \in Frozen \cup {"asleep"} /\ moved' = FALSE /\ c # "asleep"
    BY <1>3 DEF GoesOn, Frozen
  <1>4. ASSUME NEW c \in Frozen, NotEnough(c) \/ Refused(c) \/ SaveFails(c)
        PROVE  SharesTold'
    <2>1. GoesOn(c) /\ check = c
      BY <1>4 DEF NotEnough, Refused, SaveFails
    <2>2. mishaps' \in 0..MaxMishaps /\ shares' \in 0..MaxShares
      BY <1>4, SharesAssumption
      DEF NotEnough, Refused, SaveFails, Mishap, SharesTold, ShareTypeOK
    <2>3. unsaved' \in BOOLEAN /\ (unsaved => unsaved') /\ (moved => unsaved')
      BY <1>4 DEF NotEnough, Refused, SaveFails, SharesTold, ShareTypeOK
    <2> QED
      BY <1>3, <1>4, <2>1, <2>2, <2>3, StillTold DEF NotEnough, Refused, SaveFails
  <1>5. CASE FreezerDies
    <2>1. mishaps' \in 0..MaxMishaps
      BY <1>5, SharesAssumption DEF FreezerDies, Mishap, SharesTold, ShareTypeOK
    <2>2. unsaved' \in BOOLEAN /\ (unsaved => unsaved') /\ (moved => unsaved')
      BY <1>5 DEF FreezerDies, SharesTold, ShareTypeOK
    <2> QED
      BY <1>5, <2>1, <2>2, StillTold DEF FreezerDies, SharesTold, ShareTypeOK
  <1>6. ASSUME NEW c \in Frozen, Freezes(c)
        PROVE  SharesTold'
    <2>1. Enough(c) /\ Sends(c) /\ check = c /\ c \in Currencies /\ c # "asleep"
      BY <1>6 DEF Freezes, Frozen, Currencies
    <2>2. /\ sent' \in [Currencies -> Nat] /\ sent'["eosish"] % WholeEosish = 0
          /\ Left(c) \in Nat
      BY <2>1, SumIsLost
    <2>3. /\ copy' \in [Currencies -> Nat] /\ copy'[c] = Left(c)
          /\ \A d \in Currencies : d # c => copy'[d] = copy[d]
      BY <1>6, <2>1, <2>2 DEF Freezes, SharesTold, ShareTypeOK
    <2>4. ShareTypeOK'
      BY <1>6, <2>2, <2>3 DEF Freezes, SharesTold, ShareTypeOK
    <2>5. ASSUME NEW d \in Currencies
          PROVE  /\ Explained(d, frozen) => Explained(d, frozen)'
                 /\ Explained(d, copy) => Explained(d, copy)'
                 /\ Covered(d, copy) => Covered(d, copy)'
                 /\ d # c => (Covered(d, frozen) => Covered(d, frozen)')
      <3>1. /\ frozen[d] \in Nat /\ put[d] \in Nat /\ copy[d] \in Nat /\ sent[d] \in Nat
            /\ sent'[d] \in Nat /\ frozen'[d] = frozen[d] /\ put'[d] = put[d]
        BY <1>6, <2>2 DEF Freezes, SharesTold, ShareTypeOK
      <3>2. /\ Fractions(d) \in Nat /\ Fractions(d)' \in Nat
            /\ Fractions(d) <= Fractions(d)' /\ sent[d] <= sent'[d]
            /\ d # c => sent'[d] = sent[d] /\ Fractions(d)' = Fractions(d)
        BY <2>1, SumIsLost
      <3>3. CASE d = c
        <4>1. /\ copy[d] + sent[d] + Fractions(d) <= Left(d) + sent'[d] + Fractions(d)'
              /\ Left(d) + sent'[d] <= copy[d] + sent[d] /\ Left(d) \in Nat
              /\ copy'[d] = Left(d)
          BY <2>1, <2>3, <3>3, SumIsLost
        <4> QED
          BY <3>1, <3>2, <3>3, <4>1 DEF Explained, Covered
      <3>4. CASE d # c
        BY <2>3, <3>1, <3>2, <3>4 DEF Explained, Covered
      <3> QED
        BY <3>3, <3>4
    <2>6. /\ UNCHANGED <<check, fresh, overwritten, unsaved>> /\ moved' /\ ~moved
      BY <1>6 DEF Freezes
    <2> QED
      BY <2>1, <2>2, <2>4, <2>5, <2>6 DEF SharesTold
  <1>7. ASSUME NEW c \in Frozen, Unheard(c)
        PROVE  SharesTold'
    <2>1. Enough(c) /\ Sends(c) /\ check = c /\ ~moved /\ c # "asleep"
      BY <1>7 DEF Unheard, Frozen
    <2>2. /\ sent' \in [Currencies -> Nat] /\ sent'["eosish"] % WholeEosish = 0
      BY <2>1, SumIsLost
    <2>3. check' \in Frozen \cup {"asleep"} /\ moved' = FALSE
      BY <1>3, <1>7, <2>1 DEF Unheard, SharesTold, ShareTypeOK
    <2>4. mishaps' \in 0..MaxMishaps
      BY <1>7, SharesAssumption DEF Unheard, Mishap, SharesTold, ShareTypeOK
    <2>5. ShareTypeOK'
      BY <1>7, <2>2, <2>3, <2>4 DEF Unheard, SharesTold, ShareTypeOK
    <2>6. ASSUME NEW d \in Currencies
          PROVE  /\ Explained(d, frozen) => Explained(d, frozen)'
                 /\ Explained(d, copy) => Explained(d, copy)'
      <3>1. /\ frozen[d] \in Nat /\ put[d] \in Nat /\ copy[d] \in Nat /\ sent[d] \in Nat
            /\ sent'[d] \in Nat
            /\ frozen'[d] = frozen[d] /\ put'[d] = put[d] /\ copy'[d] = copy[d]
        BY <1>7, <2>2 DEF Unheard, SharesTold, ShareTypeOK
      <3>2. /\ Fractions(d) \in Nat /\ Fractions(d)' \in Nat
            /\ Fractions(d) <= Fractions(d)' /\ sent[d] <= sent'[d]
        BY <2>1, SumIsLost
      <3> QED
        BY <3>1, <3>2 DEF Explained
    <2>7. unsaved' /\ UNCHANGED <<fresh, overwritten>>
      BY <1>7 DEF Unheard
    <2> QED
      BY <2>1, <2>2, <2>3, <2>5, <2>6, <2>7 DEF SharesTold
  <1>8. ASSUME NEW c \in Frozen, SavesShares(c)
        PROVE  SharesTold'
    <2>1. check = c /\ moved /\ check # "asleep" /\ GoesOn(c)
      BY <1>8 DEF SavesShares, Frozen
    <2>2. check' \in Frozen \cup {"asleep"} /\ moved' = FALSE
      BY <1>3, <2>1
    <2>3. ShareTypeOK'
      BY <1>8, <2>2 DEF SavesShares, SharesTold, ShareTypeOK
    <2>4. \A d \in Currencies : Fractions(d)' = Fractions(d)
      BY <1>8 DEF SavesShares, Fractions
    <2>5. /\ frozen' = copy /\ ~fresh' /\ (overwritten' <=> overwritten \/ fresh)
          /\ UNCHANGED <<copy, put, sent, unsaved>>
      BY <1>8 DEF SavesShares, SharesTold, ShareTypeOK
    <2> QED
      BY <2>1, <2>2, <2>3, <2>4, <2>5 DEF SharesTold, Explained, Covered
  <1>9. CASE UNCHANGED shareVars
    <2>1. UNCHANGED <<frozen, copy, check, moved, put, sent, fresh, overwritten, unsaved,
                      shares, mishaps>>
      BY <1>9 DEF shareVars
    <2>2. ShareTypeOK'
      BY <2>1 DEF SharesTold, ShareTypeOK
    <2>3. \A c \in Currencies : Fractions(c)' = Fractions(c)
      BY <2>1 DEF Fractions
    <2> QED
      BY <2>1, <2>2, <2>3 DEF SharesTold, Explained, Covered
  <1> QED
    BY <1>1, <1>2, <1>4, <1>5, <1>6, <1>7, <1>8, <1>9 DEF ShareNext, check_payments

(***************************************************************************)
(* For any sums, thresholds and numbers of payments and mishaps: what was  *)
(* put aside adds up.                                                      *)
(***************************************************************************)
THEOREM SharesAlwaysAddUp == Spec => []SharesAddUp
  <1>1. Init => SharesTold
    BY PartsStart, SharesToldInit
  <1>2. SharesTold /\ [Next]_platformVars => SharesTold'
    BY SharesAlone, SharesToldStep DEF shareVars
  <1>3. SharesTold => SharesAddUp
    BY DEF SharesTold, SharesAddUp, Explained, Covered, ShareTypeOK
  <1> QED
    BY <1>1, <1>2, <1>3, PTL DEF Spec
-----------------------------------------------------------------------------
(***************************************************************************)
(* The chains with a scanner.  What a contract's row claims comes from a   *)
(* message, a message from a transaction, a transaction from the message   *)
(* before it: so each of them has to be told of what it rests on.          *)
(***************************************************************************)
PartNames    == {"token", "account", "entry", "code", "init"}
ScannerTypes == {"tokenCreated", "newAccount", "deployed", "initialized",
                 "finalized"}
ScannedStates == {"WAITING_FOR_DEPLOYMENT", "POSTPONED", "ACTIVE", "ENDED", "DONE"}

LastPart(k) == Parts(k)[Len(Parts(k))]
Base(k)     == Whole(k) \ {LastPart(k)}

\* On EOS and NEO there is but one thing.
Makes(thing) == thing \in Things /\ (kind \notin TronKinds => thing = 1)

\* A transaction makes a part of the kind, the last one on top of the others.
SentInOrder ==
  /\ OfSome(chain)
  /\ \A i \in DOMAIN chain : \A thing \in chain[i].with :
       /\ chain[i].call \in Whole(kind)
       /\ Makes(thing) /\ thing <= Len(chain)
       /\ chain[i].call = LastPart(kind) => Base(kind) \subseteq made[thing]

MadeInOrder ==
  /\ made \in [Things -> SUBSET PartNames]
  /\ \A thing \in Things :
       /\ LastPart(kind) \in made[thing] => Whole(kind) \subseteq made[thing]
       /\ made[thing] # {} => thing <= Len(chain)
  /\ named = Nothing \/ Makes(named)

\* A message of the scanner tells of a part that was made, to the contract
\* whose row names a thing; and once there is a 'finalized' no launch is left.
MessagesTold ==
  /\ Queues
  /\ \A m \in Held :
       /\ m.type \in ScannerTypes => Makes(m.thing) /\ named # Nothing
       /\ m.type \in ScannerTypes \ {"finalized"} =>
            \E part \in made[m.thing] \cap Whole(kind) : TellsOf(kind, part) = m.type
       /\ m.type = "finalized" => \A l \in Held : l.type # "launch"

Complete == named # Nothing /\ Whole(kind) \subseteq made[named]

\* Only on TRON does a row name one thing of several.
Undisturbed == kind \in TronKinds => ~disturbed

ServedTold ==
  /\ state \in ScannedStates
  /\ disturbed \in BOOLEAN
  /\ Served /\ Undisturbed => Complete

FinalizedHeld == \E m \in Held : m.type = "finalized"

FinalTold ==
  FinalizedHeld => /\ Undisturbed => Complete
                   /\ ~disturbed => lockedBy # This

\* While the contract holds the address it is being deployed, and when all
\* is made the message that will free the address is on its way.
LockTold ==
  lockedBy = This /\ ~disturbed =>
    /\ state = "WAITING_FOR_DEPLOYMENT"
    /\ named # Nothing
    /\ Complete => \E m \in Held : m.type = TellsOf(kind, LastPart(kind))

ChainTold == SentInOrder /\ MadeInOrder

ScannedTold ==
  kind \in ScannedKinds =>
    ChainTold /\ MessagesTold /\ ServedTold /\ FinalTold /\ LockTold

(***************************************************************************)
(* The parts of the kinds.                                                 *)
(***************************************************************************)
LEMMA OnePart ==
  ASSUME NEW k, NEW part, Parts(k) = <<part>>
  PROVE  Whole(k) = {part} /\ LastPart(k) = part /\ Base(k) = {} /\ Parts(k)[1] = part
  BY DEF Whole, LastPart, Base

LEMMA TwoParts ==
  ASSUME NEW k, NEW one, NEW two, Parts(k) = <<one, two>>, one # two
  PROVE  /\ Whole(k) = {one, two} /\ LastPart(k) = two /\ Base(k) = {one}
         /\ Parts(k)[1] = one /\ Parts(k)[2] = two
  BY DEF Whole, LastPart, Base

TwoPartKinds == {"eosico", "eostokensa", "neoico"}

LEMMA PartsAre ==
  /\ Whole("eostoken") = {"token"} /\ LastPart("eostoken") = "token"
  /\ Whole("eosaccount") = {"account"} /\ LastPart("eosaccount") = "account"
  /\ Whole("eosdrop") = {"entry"} /\ LastPart("eosdrop") = "entry"
  /\ \A k \in TronKinds : Whole(k) = {"code"} /\ LastPart(k) = "code"
  /\ \A k \in ScannedKinds \ TwoPartKinds :
       Parts(k)[1] = LastPart(k) /\ Base(k) = {}
  /\ \A k \in {"eosico", "eostokensa"} :
       /\ Whole(k) = {"account", "code"} /\ LastPart(k) = "code" /\ Base(k) = {"account"}
       /\ Parts(k)[1] = "account" /\ Parts(k)[2] = "code"
  /\ Whole("neoico") = {"code", "init"} /\ LastPart("neoico") = "init"
  /\ Base("neoico") = {"code"}
  /\ Parts("neoico")[1] = "code" /\ Parts("neoico")[2] = "init"
<1>1. /\ Parts("eostoken") = <<"token">>
      /\ Parts("eosaccount") = <<"account">>
      /\ Parts("eosdrop") = <<"entry">>
  BY DEF Parts, TronKinds
<1>2. \A k \in TronKinds : Parts(k) = <<"code">>
  BY DEF Parts, TronKinds
<1>3. \A k \in {"eosico", "eostokensa"} : Parts(k) = <<"account", "code">>
  BY DEF Parts, TronKinds
<1>4. Parts("neoico") = <<"code", "init">>
  BY DEF Parts, TronKinds
<1>5. \A k \in TronKinds : Whole(k) = {"code"} /\ LastPart(k) = "code" /\ Base(k) = {}
                           /\ Parts(k)[1] = "code"
  BY <1>2, OnePart
<1>6. \A k \in {"eosico", "eostokensa"} :
        /\ Whole(k) = {"account", "code"} /\ LastPart(k) = "code" /\ Base(k) = {"account"}
        /\ Parts(k)[1] = "account" /\ Parts(k)[2] = "code"
  BY <1>3, TwoParts
<1>7. /\ Whole("neoico") = {"code", "init"} /\ LastPart("neoico") = "init"
      /\ Base("neoico") = {"code"}
      /\ Parts("neoico")[1] = "code" /\ Parts("neoico")[2] = "init"
  BY <1>4, TwoParts
<1>8. /\ Whole("eostoken") = {"token"} /\ LastPart("eostoken") = "token"
      /\ Base("eostoken") = {} /\ Parts("eostoken")[1] = "token"
      /\ Whole("eosaccount") = {"account"} /\ LastPart("eosaccount") = "account"
      /\ Base("eosaccount") = {} /\ Parts("eosaccount")[1] = "account"
      /\ Whole("eosdrop") = {"entry"} /\ LastPart("eosdrop") = "entry"
      /\ Base("eosdrop") = {} /\ Parts("eosdrop")[1] = "entry"
  BY <1>1, OnePart
<1> QED
  BY <1>5, <1>6, <1>7, <1>8 DEF ScannedKinds, EosKinds, TwoPartKinds

\* What holds of every kind.
LEMMA PartsOrdered ==
  ASSUME NEW k \in ScannedKinds
  PROVE  /\ Whole(k) \subseteq PartNames
         /\ LastPart(k) \in Whole(k)
         /\ Parts(k)[1] \in Whole(k)
         /\ Parts(k)[1] = LastPart(k) => Base(k) = {}
         /\ Whole(k) = Base(k) \cup {LastPart(k)}
         /\ \A part \in Whole(k) : part # LastPart(k) => part \in Base(k)
<1>1. k \in {"eostoken", "eosaccount", "eosdrop"} \cup TronKinds \cup TwoPartKinds
  BY DEF ScannedKinds, EosKinds, TwoPartKinds
<1> QED
  BY <1>1, PartsAre DEF PartNames, TwoPartKinds, Base, ScannedKinds

\* Which message tells of which part.
LEMMA Tellings ==
  ASSUME NEW k \in ScannedKinds, NEW part \in Whole(k)
  PROVE  /\ TellsOf(k, part) \in ScannerTypes \ {"finalized"}
         /\ TellsOf(k, part) = TellsOf(k, LastPart(k)) => part = LastPart(k)
         /\ k \in TwoPartKinds /\ part # LastPart(k) =>
              TellsOf(k, part) = IF k = "neoico" THEN "deployed" ELSE "newAccount"
         /\ TellsOf(k, LastPart(k)) =
              CASE k \in {"eostoken", "eostokensa"} -> "tokenCreated"
                [] k = "eosaccount" -> "newAccount"
                [] k \in {"eosico", "neoico"} -> "initialized"
                [] k = "eosdrop" -> "deployed"
                [] k \in TronKinds -> "deployed"
<1>1. k \in {"eostoken", "eosaccount", "eosdrop"} \cup TronKinds \cup TwoPartKinds
  BY DEF ScannedKinds, EosKinds, TwoPartKinds
<1>2. CASE k \in TronKinds
  <2>1. part = "code" /\ LastPart(k) = "code" /\ k \notin TwoPartKinds
    BY <1>2, PartsAre DEF TronKinds, TwoPartKinds
  <2>2. TellsOf(k, "code") = "deployed"
    BY <1>2 DEF TellsOf, TronKinds
  <2> QED
    BY <1>2, <2>1, <2>2 DEF ScannerTypes, TronKinds
<1>3. CASE k = "eostoken"
  BY <1>3, PartsAre DEF TellsOf, ScannerTypes, TronKinds, TwoPartKinds
<1>4. CASE k = "eosaccount"
  BY <1>4, PartsAre DEF TellsOf, ScannerTypes, TronKinds, TwoPartKinds
<1>5. CASE k = "eosdrop"
  BY <1>5, PartsAre DEF TellsOf, ScannerTypes, TronKinds, TwoPartKinds
<1>6. CASE k = "eosico"
  BY <1>6, PartsAre DEF TellsOf, ScannerTypes, TronKinds, TwoPartKinds
<1>7. CASE k = "eostokensa"
  BY <1>7, PartsAre DEF TellsOf, ScannerTypes, TronKinds, TwoPartKinds
<1>8. CASE k = "neoico"
  BY <1>8, PartsAre DEF TellsOf, ScannerTypes, TronKinds, TwoPartKinds
<1> QED
  BY <1>1, <1>2, <1>3, <1>4, <1>5, <1>6, <1>7, <1>8 DEF TwoPartKinds

(***************************************************************************)
(* What a step of a chain's handler is made of.                            *)
(***************************************************************************)
LEMMA DiesWell ==
  ASSUME Queues, ready # << >>, Dies
  PROVE  Handles /\ disturbed' = TRUE
BY Acknowledges DEF Dies, Acknowledge

LEMMA EndsWell ==
  ASSUME Queues, ready # << >>, disturbed \in BOOLEAN, Ends
  PROVE  Handles /\ disturbed' \in BOOLEAN /\ (disturbed => disturbed')
<1>1. CASE Ack /\ UNCHANGED <<troubles, disturbed>>
  BY <1>1, Acks
<1>2. CASE Dies
  BY <1>2, DiesWell
<1> QED
  BY <1>1, <1>2 DEF Ends

\* A transaction that is sent for the next part of a thing.
LEMMA Pushed ==
  ASSUME kind \in ScannedKinds, kind' = kind, ChainTold, made' = made,
         NEW part, part \in Whole(kind), NEW thing, Makes(thing), thing <= Len(chain) + 1,
         part = LastPart(kind) => Base(kind) \subseteq made[thing],
         Pushes(part, thing), named' \in {named, thing}
  PROVE  ChainTold' /\ part \notin made[thing]
<1> DEFINE tx == [call |-> part, with |-> {thing}]
<1>1. chain' = Append(chain, tx) /\ part \notin made[thing] /\ OfSome(chain)
  BY DEF Pushes, Send, Underway, ChainTold, SentInOrder
<1>2. tx.call = part /\ tx.with = {thing}
  OBVIOUS
<1> HIDE DEF tx
<1>3. /\ OfSome(chain') /\ Len(chain') = Len(chain) + 1 /\ Len(chain) \in Nat
      /\ DOMAIN chain' = 1..(Len(chain) + 1) /\ DOMAIN chain = 1..Len(chain)
      /\ \A i \in 1..Len(chain) : chain'[i] = chain[i]
      /\ chain'[Len(chain) + 1] = tx
  BY <1>1, Appended
<1>4. ASSUME NEW i \in DOMAIN chain', NEW t \in chain'[i].with
      PROVE  /\ chain'[i].call \in Whole(kind)
             /\ Makes(t)' /\ t <= Len(chain')
             /\ chain'[i].call = LastPart(kind) => Base(kind) \subseteq made[t]
  <2>1. CASE i = Len(chain) + 1
    BY <1>2, <1>3, <1>4, <2>1 DEF Makes, Things
  <2>2. CASE i \in 1..Len(chain)
    <3>1. /\ chain[i].call \in Whole(kind)
          /\ Makes(t) /\ t <= Len(chain)
          /\ chain[i].call = LastPart(kind) => Base(kind) \subseteq made[t]
      BY <1>3, <1>4, <2>2 DEF ChainTold, SentInOrder
    <3>2. t \in Nat
      BY <3>1, RowBoundsAreNat DEF Makes, Things
    <3> QED
      BY <1>3, <2>2, <3>1, <3>2 DEF Makes
  <2> QED
    BY <1>3, <1>4, <2>1, <2>2
<1>5. SentInOrder'
  BY <1>3, <1>4 DEF SentInOrder
<1>6. MadeInOrder'
  <2>1. \A t \in Things : t \in Nat
    BY RowBoundsAreNat DEF Things
  <2> QED
    BY <1>3, <2>1 DEF ChainTold, MadeInOrder, Makes
<1> QED
  BY <1>1, <1>5, <1>6 DEF ChainTold

LEMMA NotPushed ==
  ASSUME kind \in ScannedKinds, kind' = kind, ChainTold, made' = made, chain' = chain,
         named' = named \/ Makes(named')
  PROVE  ChainTold'
BY DEF ChainTold, SentInOrder, MadeInOrder, Makes

\* A handler takes no news back, so what the messages left tell stays true.
LEMMA MessagesStay ==
  ASSUME kind' = kind, MessagesTold, Handles, made' = made,
         named # Nothing => named' # Nothing
  PROVE  MessagesTold' /\ (FinalizedHeld' => FinalizedHeld)
<1>1. Queues' /\ Held' \subseteq Held
  BY DEF Handles
<1>2. ASSUME NEW m \in Held'
      PROVE  /\ m.type \in ScannerTypes => Makes(m.thing)' /\ named' # Nothing
             /\ m.type \in ScannerTypes \ {"finalized"} =>
                  \E part \in made'[m.thing] \cap Whole(kind) : TellsOf(kind, part) = m.type
             /\ m.type = "finalized" => \A l \in Held' : l.type # "launch"
  BY <1>1, <1>2 DEF MessagesTold, Makes
<1> QED
  BY <1>1, <1>2 DEF MessagesTold, FinalizedHeld

\* The thing a launch makes is a new one on TRON, the only one elsewhere.
LEMMA TargetIs ==
  ASSUME kind \in ScannedKinds, ChainTold, Target \in Things
  PROVE  /\ Makes(Target) /\ Target <= Len(chain) + 1 /\ Target # Nothing
         /\ kind \in TronKinds => made[Target] = {}
<1>1. Len(chain) \in Nat /\ (\A t \in Things : t \in Nat \ {0}) /\ TronKinds \subseteq ScannedKinds
  BY Appended, RowBoundsAreNat DEF ChainTold, SentInOrder, Things, ScannedKinds
<1>2. CASE kind \in TronKinds
  <2>1. Target = Len(chain) + 1
    BY <1>2 DEF Target
  <2>2. made[Target] # {} => Target <= Len(chain)
    BY DEF ChainTold, MadeInOrder
  <2> QED
    BY <1>1, <1>2, <2>1, <2>2 DEF Makes, Nothing
<1>3. CASE kind \notin TronKinds
  BY <1>1, <1>3 DEF Makes, Nothing, Target
<1> QED
  BY <1>2, <1>3

(***************************************************************************)
(* The steps by what they do to the row.  First the launches: when one is  *)
(* there, no 'finalized' is.                                               *)
(***************************************************************************)
HandlerStep ==
  /\ kind' = kind /\ made' = made
  /\ Handles /\ ready # << >>
  /\ disturbed' \in BOOLEAN /\ (disturbed => disturbed')
  /\ ChainTold'

LEMMA LaunchKeeps ==
  ASSUME kind \in ScannedKinds, ScannedTold, Receiving("launch"), HandlerStep,
         named' \in {named, Target}, named' = named \/ Target \in Things,
         \/ /\ state' = "WAITING_FOR_DEPLOYMENT"
            /\ named' = Target /\ Target \in Things
            /\ ~(Whole(kind) \subseteq made[Target])
         \/ state' = "POSTPONED" /\ lockedBy' # This
         \/ state' = state /\ disturbed'
  PROVE  ScannedTold'
<1> USE DEF HandlerStep
<1>1. /\ ChainTold /\ MessagesTold /\ ServedTold /\ kind' \in ScannedKinds
      /\ Head(ready).type = "launch" /\ Head(ready) \in Held
  BY DEF ScannedTold, Receiving, Handles
<1>2. ~FinalizedHeld
  BY <1>1 DEF MessagesTold, FinalizedHeld
<1>3. named # Nothing => named' # Nothing
  BY <1>1, TargetIs
<1>4. MessagesTold' /\ ~FinalizedHeld'
  BY <1>1, <1>2, <1>3, MessagesStay
<1>5. FinalTold'
  BY <1>4 DEF FinalTold
<1>6. ServedTold' /\ LockTold'
  <2>1. CASE /\ state' = "WAITING_FOR_DEPLOYMENT"
             /\ named' = Target /\ Target \in Things
             /\ ~(Whole(kind) \subseteq made[Target])
    <3>1. named' # Nothing
      BY <1>1, <2>1, TargetIs
    <3> QED
      BY <2>1, <3>1 DEF ServedTold, LockTold, Served, ScannedStates, Complete
  <2>2. CASE state' = "POSTPONED" /\ lockedBy' # This
    BY <2>2 DEF ServedTold, LockTold, Served, ScannedStates
  <2>3. CASE state' = state /\ disturbed'
    <3>1. ASSUME kind \notin TronKinds, Complete PROVE Complete'
      <4>1. named = 1
        BY <1>1, <3>1 DEF ChainTold, MadeInOrder, Makes, Complete
      <4>2. Target = 1
        BY <3>1 DEF Target
      <4> QED
        BY <3>1, <4>1, <4>2 DEF Complete
    <3>2. LockTold'
      BY <2>3 DEF LockTold
    <3> QED
      BY <1>1, <2>3, <3>1, <3>2 DEF ServedTold, Served, Undisturbed
  <2> QED
    BY <2>1, <2>2, <2>3
<1> QED
  BY <1>1, <1>4, <1>5, <1>6 DEF ScannedTold

\* A handler that marks nothing as served, and leaves the thing as it is.
LEMMA StaysTold ==
  ASSUME kind \in ScannedKinds, ScannedTold, HandlerStep, named' = named,
         \/ state' = "POSTPONED" /\ lockedBy' # This
         \/ /\ state' = state
            /\ \/ disturbed' \/ lockedBy' # This
               \/ /\ lockedBy' = lockedBy
                  /\ \/ state # "WAITING_FOR_DEPLOYMENT"
                     \/ Head(ready).type # TellsOf(kind, LastPart(kind))
  PROVE  ScannedTold'
<1> USE DEF HandlerStep
<1>1. /\ ChainTold /\ MessagesTold /\ ServedTold /\ FinalTold /\ LockTold
      /\ kind' \in ScannedKinds
  BY DEF ScannedTold
<1>2. MessagesTold' /\ (FinalizedHeld' => FinalizedHeld)
  BY <1>1, MessagesStay
<1>3. Complete' = Complete /\ (Undisturbed' => Undisturbed)
  BY DEF Complete, Undisturbed
<1>4. FinalTold'
  BY <1>1, <1>2, <1>3 DEF FinalTold
<1>5. ServedTold'
  BY <1>1, <1>3 DEF ServedTold, Served, ScannedStates
<1>6. LockTold'
  <2> SUFFICES ASSUME lockedBy' = This, ~disturbed'
               PROVE  /\ state' = "WAITING_FOR_DEPLOYMENT" /\ named' # Nothing
                      /\ Complete' => \E m \in Held' : m.type = TellsOf(kind, LastPart(kind))
    BY DEF LockTold
  <2>1. /\ state' = state /\ lockedBy = This /\ ~disturbed
        /\ \/ state # "WAITING_FOR_DEPLOYMENT"
           \/ Head(ready).type # TellsOf(kind, LastPart(kind))
    OBVIOUS
  <2>2. /\ state = "WAITING_FOR_DEPLOYMENT" /\ named # Nothing
        /\ Complete => \E m \in Held : m.type = TellsOf(kind, LastPart(kind))
    BY <1>1, <2>1 DEF LockTold
  <2> QED
    BY <1>3, <2>1, <2>2 DEF Handles
<1> QED
  BY <1>1, <1>2, <1>4, <1>5, <1>6 DEF ScannedTold

\* The second transaction is sent for a thing that is not complete.
LEMMA SecondKeeps ==
  ASSUME kind \in ScannedKinds \ TronKinds, ScannedTold, HandlerStep, named' = named,
         Head(ready).type \in ScannerTypes, ~(Whole(kind) \subseteq made[1]),
         state' = "WAITING_FOR_DEPLOYMENT"
  PROVE  ScannedTold'
<1> USE DEF HandlerStep
<1>1. /\ ChainTold /\ MessagesTold /\ FinalTold /\ kind' \in ScannedKinds
      /\ Head(ready) \in Held
  BY DEF ScannedTold, Handles
<1>2. MessagesTold' /\ (FinalizedHeld' => FinalizedHeld) /\ named # Nothing
  BY <1>1, MessagesStay DEF MessagesTold
<1>3. ~Complete /\ ~Complete'
  BY <1>1, <1>2 DEF Complete, ChainTold, MadeInOrder, Makes
<1>4. FinalTold'
  BY <1>1, <1>2, <1>3 DEF FinalTold, Undisturbed
<1>5. ServedTold' /\ LockTold'
  BY <1>2, <1>3 DEF ServedTold, LockTold, Served, ScannedStates
<1> QED
  BY <1>1, <1>2, <1>4, <1>5 DEF ScannedTold

\* The message about the last part is about a whole thing.
LEMMA LastTold ==
  ASSUME kind \in ScannedKinds, ScannedTold, NEW m \in Held,
         m.type = TellsOf(kind, LastPart(kind))
  PROVE  Makes(m.thing) /\ Whole(kind) \subseteq made[m.thing] /\ m.thing # Nothing
         /\ named # Nothing
<1>1. m.type \in ScannerTypes \ {"finalized"}
  BY Tellings, PartsOrdered
<1>2. /\ Makes(m.thing) /\ named # Nothing
      /\ \E part \in made[m.thing] \cap Whole(kind) : TellsOf(kind, part) = m.type
  BY <1>1 DEF ScannedTold, MessagesTold
<1>3. LastPart(kind) \in made[m.thing]
  BY <1>2, Tellings, PartsOrdered
<1> QED
  BY <1>2, <1>3, RowBoundsAreNat DEF ScannedTold, ChainTold, MadeInOrder, Makes, Things, Nothing

\* The contract is taken for deployed.
LEMMA CompletionKeeps ==
  ASSUME kind \in ScannedKinds, ScannedTold, HandlerStep,
         Head(ready).type = TellsOf(kind, LastPart(kind)),
         named' \in {named, Head(ready).thing},
         kind \in TronKinds /\ ~disturbed' => named' = Head(ready).thing,
         state' = "ACTIVE", disturbed' \/ lockedBy' # This
  PROVE  ScannedTold'
<1> USE DEF HandlerStep
<1>1. /\ ChainTold /\ MessagesTold /\ FinalTold /\ kind' \in ScannedKinds
      /\ Head(ready) \in Held
  BY DEF ScannedTold, Handles
<1> DEFINE thing == Head(ready).thing
<1>2. Makes(thing) /\ Whole(kind) \subseteq made[thing] /\ thing # Nothing /\ named # Nothing
  BY <1>1, LastTold
<1>3. MessagesTold' /\ (FinalizedHeld' => FinalizedHeld)
  BY <1>1, <1>2, MessagesStay
<1>4. kind \notin TronKinds \/ ~disturbed' => Complete'
  BY <1>1, <1>2 DEF Complete, ChainTold, MadeInOrder, Makes
<1>5. ServedTold' /\ FinalTold' /\ LockTold'
  BY <1>4 DEF ServedTold, FinalTold, LockTold, Undisturbed, ScannedStates
<1> QED
  BY <1>1, <1>3, <1>5 DEF ScannedTold

\* The sale or the minting is over.
LEMMA FinalizedKeeps ==
  ASSUME kind \in ScannedKinds, ScannedTold, HandlerStep, named' = named,
         Head(ready).type = "finalized", state' \in {"DONE", "ENDED"},
         UNCHANGED <<lockedBy, disturbed>>
  PROVE  ScannedTold'
<1> USE DEF HandlerStep
<1>1. /\ ChainTold /\ MessagesTold /\ FinalTold /\ kind' \in ScannedKinds
      /\ FinalizedHeld
  BY DEF ScannedTold, Handles, FinalizedHeld
<1>2. MessagesTold'
  BY <1>1, MessagesStay
<1>3. Complete' = Complete /\ Undisturbed' = Undisturbed
  BY DEF Complete, Undisturbed
<1>4. ServedTold' /\ FinalTold' /\ LockTold'
  BY <1>1, <1>3 DEF ServedTold, FinalTold, LockTold, ScannedStates
<1> QED
  BY <1>1, <1>2, <1>4 DEF ScannedTold

(***************************************************************************)
(* The actions: the launches, the second transaction, what ends it, and    *)
(* the chain.                                                              *)
(***************************************************************************)
LEMMA HandlerIs ==
  ASSUME kind \in ScannedKinds, ScannedTold, NEW type, Receiving(type), kind' = kind,
         made' = made, ChainTold',
         \/ Ends \/ Dies
         \/ (Ack \/ LeaveUnacked) /\ UNCHANGED disturbed
  PROVE  HandlerStep /\ Head(ready).type = type
<1>1. Queues /\ ready # << >> /\ disturbed \in BOOLEAN
  BY DEF ScannedTold, MessagesTold, ServedTold, Receiving
<1>2. Handles /\ disturbed' \in BOOLEAN /\ (disturbed => disturbed')
  BY <1>1, EndsWell, DiesWell, Acks, Leaves
<1> QED
  BY <1>1, <1>2 DEF HandlerStep, Receiving

LEMMA LockIsFreed ==
  /\ NoOne # This /\ TakeOff # This
  /\ \A lock \in LockValues : TakeOffFor(lock, This) # This
  /\ \A lock : TakeOffFor(lock, This) # This
BY NoOneIsNotAContract, ThisIsAContract DEF TakeOff, TakeOffFor

ScannedLaunch ==
  \/ \E k \in ScannedKinds : Launches(k)
  \/ \E k \in ScannedKinds \ TronKinds : LaunchesOnly(k)
  \/ ScannedLaunchRaises \/ ScannedLaunchDies \/ ScannedPostponed \/ LaunchRefused

LEMMA FirstPushed ==
  ASSUME kind \in ScannedKinds, kind' = kind, ChainTold, made' = made,
         Pushes(Parts(kind)[1], Target), named' \in {named, Target}
  PROVE  ChainTold' /\ Target \in Things /\ ~(Whole(kind) \subseteq made[Target])
<1>1. Target \in Things
  BY DEF Pushes
<1>2. Makes(Target) /\ Target <= Len(chain) + 1
  BY <1>1, TargetIs
<1>3. /\ Parts(kind)[1] \in Whole(kind)
      /\ Parts(kind)[1] = LastPart(kind) => Base(kind) \subseteq made[Target]
  BY PartsOrdered
<1>4. ChainTold' /\ Parts(kind)[1] \notin made[Target]
  BY <1>2, <1>3, Pushed
<1> QED
  BY <1>1, <1>3, <1>4

LEMMA ScannedLaunchKeeps ==
  ASSUME kind \in ScannedKinds, ScannedTold, ScannedLaunch
  PROVE  ScannedTold'
<1>1. ChainTold /\ ServedTold
  BY DEF ScannedTold
<1>2. ASSUME NEW k \in ScannedKinds, Launches(k)
      PROVE  ScannedTold'
  <2>1. /\ kind = k /\ Receiving("launch") /\ UNCHANGED <<kind, made>> /\ Ends
        /\ Pushes(Parts(kind)[1], Target) /\ named' = Target
        /\ state' = "WAITING_FOR_DEPLOYMENT"
    BY <1>2 DEF Launches, Launching
  <2>2. ChainTold' /\ Target \in Things /\ ~(Whole(kind) \subseteq made[Target])
    BY <1>1, <2>1, FirstPushed
  <2>3. HandlerStep
    BY <2>1, <2>2, HandlerIs
  <2> QED
    BY <2>1, <2>2, <2>3, LaunchKeeps
<1>3. ASSUME NEW k \in ScannedKinds \ TronKinds, LaunchesOnly(k)
      PROVE  ScannedTold'
  <2>1. /\ kind = k /\ Receiving("launch") /\ UNCHANGED <<kind, made>> /\ Ends
        /\ Pushes(Parts(kind)[1], Target) /\ named' = Target
        /\ state' = state /\ state # "POSTPONED"
    BY <1>3 DEF LaunchesOnly, Launching
  <2>2. ChainTold' /\ Target \in Things /\ ~(Whole(kind) \subseteq made[Target])
    BY <1>1, <2>1, FirstPushed
  <2>3. HandlerStep
    BY <2>1, <2>2, HandlerIs
  <2>4. ~Complete
    BY <1>1, <1>3, <2>1, <2>2 DEF Complete, ChainTold, MadeInOrder, Makes, Target
  <2>5. state = "WAITING_FOR_DEPLOYMENT"
    BY <1>1, <1>3, <2>1, <2>4 DEF ServedTold, Served, Undisturbed, ScannedStates
  <2> QED
    BY <2>1, <2>2, <2>3, <2>5, LaunchKeeps
<1>4. CASE ScannedLaunchRaises
  <2>1. /\ Receiving("launch") /\ UNCHANGED <<kind, made, disturbed>> /\ LeaveUnacked
        /\ state' = "POSTPONED" /\ lockedBy' # This
        /\ named' \in {named, Target} /\ (named' = named \/ Target \in Things)
    BY <1>4, LockIsFreed DEF ScannedLaunchRaises, Launching, Postpone
  <2>2. chain' = chain \/ Pushes(Parts(kind)[1], Target)
    BY <1>4 DEF ScannedLaunchRaises, SendsNothing, CleosKilled
  <2>3. ChainTold'
    BY <1>1, <2>1, <2>2, FirstPushed, NotPushed, TargetIs
  <2>4. HandlerStep
    BY <2>1, <2>3, HandlerIs
  <2> QED
    BY <2>1, <2>4, LaunchKeeps
<1>5. CASE ScannedLaunchDies
  <2>1. /\ Receiving("launch") /\ UNCHANGED <<kind, made, state>> /\ Dies
        /\ named' \in {named, Target} /\ Pushes(Parts(kind)[1], Target)
        /\ disturbed' = TRUE
    BY <1>5 DEF ScannedLaunchDies, Launching, Dies
  <2>2. ChainTold' /\ Target \in Things
    BY <1>1, <2>1, FirstPushed
  <2>3. HandlerStep
    BY <2>1, <2>2, HandlerIs
  <2> QED
    BY <2>1, <2>2, <2>3, LaunchKeeps
<1>6. CASE ScannedPostponed
  <2>1. /\ Receiving("launch") /\ UNCHANGED <<kind, made, chain, named, disturbed>> /\ Ack
        /\ state' = "POSTPONED" /\ lockedBy' # This
    BY <1>6, LockIsFreed DEF ScannedPostponed, LaunchPostponed, network, thingVars
  <2>2. ChainTold'
    BY <1>1, <2>1, NotPushed
  <2>3. HandlerStep
    BY <2>1, <2>2, HandlerIs
  <2> QED
    BY <2>1, <2>3, LaunchKeeps
<1>7. CASE LaunchRefused
  <2>1. /\ Receiving("launch") /\ UNCHANGED <<kind, made, chain, named, disturbed>>
        /\ Ack \/ LeaveUnacked
        /\ state' = "POSTPONED" /\ lockedBy' # This
    BY <1>7, LockIsFreed DEF LaunchRefused, Launching, NodeRefuses, Postpone, network, thingVars
  <2>2. ChainTold'
    BY <1>1, <2>1, NotPushed
  <2>3. HandlerStep
    BY <2>1, <2>2, HandlerIs
  <2> QED
    BY <2>1, <2>3, LaunchKeeps
<1> QED
  BY <1>2, <1>3, <1>4, <1>5, <1>6, <1>7 DEF ScannedLaunch

LEMMA SecondPushed ==
  ASSUME kind \in TwoPartKinds, kind' = kind, ScannedTold, made' = made,
         Receiving(IF kind = "neoico" THEN "deployed" ELSE "newAccount"),
         Pushes(LastPart(kind), 1), named' = named
  PROVE  ChainTold' /\ ~(Whole(kind) \subseteq made[1]) /\ Head(ready).type \in ScannerTypes
<1>1. /\ kind \in ScannedKinds \ TronKinds /\ ChainTold /\ MessagesTold
      /\ Head(ready) \in Held
  <2>1. kind \in ScannedKinds \ TronKinds
    BY DEF TwoPartKinds, ScannedKinds, EosKinds, TronKinds
  <2>2. ready # << >> /\ Queues
    BY <2>1 DEF Receiving, ScannedTold, MessagesTold
  <2> QED
    BY <2>1, <2>2, Tailed DEF ScannedTold, Queues, Held
<1>2. Head(ready).type \in ScannerTypes \ {"finalized"}
  BY DEF Receiving, ScannerTypes
<1>3. PICK part \in made[Head(ready).thing] \cap Whole(kind) :
        TellsOf(kind, part) = Head(ready).type /\ Makes(Head(ready).thing)
  BY <1>1, <1>2 DEF MessagesTold
<1>4. Head(ready).thing = 1 /\ Makes(1) /\ 1 <= Len(chain) + 1 /\ LastPart(kind) \in Whole(kind)
  <2>1. Len(chain) \in Nat
    BY <1>1, Appended DEF ChainTold, SentInOrder
  <2> QED
    BY <1>1, <1>3, <2>1, PartsOrdered DEF Makes
<1>5. part # LastPart(kind)
  BY <1>1, <1>3, Tellings DEF Receiving, TwoPartKinds, TronKinds
<1>6. Base(kind) \subseteq made[1]
  <2>1. Base(kind) = {part}
    BY <1>3, <1>5, PartsAre DEF TwoPartKinds
  <2> QED
    BY <1>3, <1>4, <2>1
<1>7. ChainTold' /\ LastPart(kind) \notin made[1]
  BY <1>1, <1>4, <1>6, Pushed
<1> QED
  BY <1>2, <1>4, <1>7

ScannedSecond == NewAccount \/ NeoDeployed \/ SecondDies \/ SecondRefused \/ NothingToDo

LEMMA ScannedSecondKeeps ==
  ASSUME kind \in ScannedKinds, ScannedTold, ScannedSecond
  PROVE  ScannedTold'
<1>1. ChainTold /\ ServedTold /\ LockTold
  BY DEF ScannedTold
<1>2. kind \in TwoPartKinds => kind \notin TronKinds
  BY DEF TwoPartKinds, TronKinds
<1> DEFINE Asked == IF kind = "neoico" THEN "deployed" ELSE "newAccount"
<1>3. CASE NewAccount \/ NeoDeployed
  <2>1. /\ kind \in TwoPartKinds /\ Receiving(Asked) /\ Pushes(LastPart(kind), 1)
        /\ UNCHANGED <<kind, made, named>> /\ Ends
        /\ state \notin {"ACTIVE", "POSTPONED"}
        /\ state' \in {state, "WAITING_FOR_DEPLOYMENT"}
    BY <1>3, PartsAre DEF NewAccount, NeoDeployed, Going, TwoPartKinds, AfterNewAccount
  <2> HIDE DEF Asked
  <2>2. ChainTold' /\ ~(Whole(kind) \subseteq made[1]) /\ Head(ready).type \in ScannerTypes
    BY <2>1, SecondPushed DEF Asked
  <2>3. HandlerStep
    BY <2>1, <2>2, HandlerIs
  <2>4. ~Complete
    BY <1>1, <1>2, <2>1, <2>2 DEF Complete, ChainTold, MadeInOrder, Makes
  <2>5. state = "WAITING_FOR_DEPLOYMENT"
    BY <1>1, <1>2, <2>1, <2>4 DEF ServedTold, Served, Undisturbed, ScannedStates
  <2> QED
    BY <1>2, <2>1, <2>2, <2>3, <2>5, SecondKeeps
<1>4. CASE SecondDies
  <2>1. /\ kind \in TwoPartKinds /\ Receiving(Asked) /\ Pushes(LastPart(kind), 1)
        /\ UNCHANGED <<kind, made, named, state>> /\ Dies /\ disturbed' = TRUE
    BY <1>4, PartsAre DEF SecondDies, Going, TwoPartKinds, Dies
  <2> HIDE DEF Asked
  <2>2. ChainTold'
    BY <2>1, SecondPushed DEF Asked
  <2>3. HandlerStep
    BY <2>1, <2>2, HandlerIs
  <2> QED
    BY <2>1, <2>3, StaysTold
<1>5. CASE SecondRefused
  <2>1. \E type : Receiving(type)
    BY <1>5 DEF SecondRefused
  <2>2. /\ UNCHANGED <<kind, made, chain, named, disturbed>>
        /\ Ack \/ LeaveUnacked
        /\ state' = "POSTPONED" /\ lockedBy' # This
    BY <1>5, LockIsFreed DEF SecondRefused, NodeRefuses, Postpone, network, thingVars
  <2>3. ChainTold'
    BY <1>1, <2>2, NotPushed
  <2>4. HandlerStep
    BY <2>1, <2>2, <2>3, HandlerIs
  <2> QED
    BY <2>2, <2>4, StaysTold
<1>6. CASE NothingToDo
  <2>1. \E type : Receiving(type)
    BY <1>6 DEF NothingToDo
  <2>2. /\ UNCHANGED <<kind, made, chain, named, disturbed, state>>
        /\ Ack
        /\ state # "WAITING_FOR_DEPLOYMENT"
        /\ lockedBy' = lockedBy \/ lockedBy' # This
    BY <1>6, LockIsFreed DEF NothingToDo, network, thingVars
  <2>3. ChainTold'
    BY <1>1, <2>2, NotPushed
  <2>4. HandlerStep
    BY <2>1, <2>2, <2>3, HandlerIs
  <2> QED
    BY <2>2, <2>4, StaysTold
<1> QED
  BY <1>3, <1>4, <1>5, <1>6 DEF ScannedSecond

ScannedEnd ==
  \/ EOSTokenCreated \/ EOSAccountCreated \/ EOSAirdropDeployed
  \/ EOSICOInitialized \/ EOSTokenSACreated \/ NeoICOInitialized
  \/ \E k \in TronKinds : TronDeployed(k)
  \/ \E after \in {"DONE", "ENDED"} : Finalized(after)
  \/ (TransactionFailed \/ TransactionUnknown) /\ UNCHANGED thingVars

LEMMA ScannedEndKeeps ==
  ASSUME kind \in ScannedKinds, ScannedTold, ScannedEnd
  PROVE  ScannedTold'
<1> DEFINE LastTells == TellsOf(kind, LastPart(kind))
<1>1. ChainTold /\ ServedTold /\ LockTold
  BY DEF ScannedTold
<1>2. ASSUME Receiving(LastTells),
             UNCHANGED <<kind, made, chain>>, Ends \/ Dies,
             \/ /\ state' = "ACTIVE"
                /\ \/ named' = Head(ready).thing
                   \/ named' = named /\ (kind \notin TronKinds \/ disturbed')
                /\ lockedBy' # This \/ disturbed'
             \/ UNCHANGED <<named, state>> /\ disturbed'
      PROVE  ScannedTold'
  <2>1. Head(ready) \in Held /\ Head(ready).type = LastTells
    BY <1>2, Tailed DEF ScannedTold, MessagesTold, Receiving, Queues, Held
  <2>2. Makes(Head(ready).thing)
    BY <2>1, LastTold
  <2>3. ChainTold'
    BY <1>1, <1>2, <2>2, NotPushed
  <2>4. HandlerStep
    <3> HIDE DEF LastTells
    <3> QED
      BY <1>2, <2>3, HandlerIs
  <2> QED
    BY <1>2, <2>1, <2>4, CompletionKeeps, StaysTold
<1>3. CASE EOSTokenCreated \/ EOSAccountCreated
  <2>1. LastTells = IF kind = "eostoken" THEN "tokenCreated" ELSE "newAccount"
    BY <1>3, Tellings, PartsOrdered DEF EOSTokenCreated, EOSAccountCreated, TronKinds
  <2>2. kind \notin TronKinds
    BY <1>3 DEF EOSTokenCreated, EOSAccountCreated, TronKinds
  <2> HIDE DEF LastTells
  <2> QED
    BY <1>2, <1>3, <2>1, <2>2, LockIsFreed
    DEF EOSTokenCreated, EOSAccountCreated, MsgDeployed, Dies, Message, network
<1>4. CASE EOSAirdropDeployed
  <2>1. LastTells = "deployed" /\ kind \notin TronKinds
    BY <1>4, Tellings, PartsOrdered DEF EOSAirdropDeployed, TronKinds
  <2> HIDE DEF LastTells
  <2> QED
    BY <1>2, <1>4, <2>1, LockIsFreed DEF EOSAirdropDeployed, Dies, network
<1>5. CASE EOSICOInitialized \/ EOSTokenSACreated
  <2>1. /\ LastTells = IF kind = "eosico" THEN "initialized" ELSE "tokenCreated"
        /\ kind \notin TronKinds
    BY <1>5, Tellings, PartsOrdered
    DEF EOSICOInitialized, EOSTokenSACreated, Initialized, TronKinds
  <2> HIDE DEF LastTells
  <2> QED
    BY <1>2, <1>5, <2>1, LockIsFreed
    DEF EOSICOInitialized, EOSTokenSACreated, Initialized, Dies, network
<1>6. CASE NeoICOInitialized
  <2>1. LastTells = "initialized" /\ kind \notin TronKinds /\ Receiving("initialized")
    BY <1>6, Tellings, PartsOrdered DEF NeoICOInitialized, TronKinds
  <2> HIDE DEF LastTells
  <2>2. CASE state = "WAITING_FOR_DEPLOYMENT"
    BY <1>2, <1>6, <2>1, <2>2, LockIsFreed DEF NeoICOInitialized, Dies, network
  <2>3. CASE state # "WAITING_FOR_DEPLOYMENT"
    <3>1. /\ UNCHANGED <<kind, made, chain, named, state, disturbed>> /\ Ack
          /\ lockedBy' = lockedBy \/ lockedBy' # This
      BY <1>6, <2>3, LockIsFreed DEF NeoICOInitialized, network
    <3>2. ChainTold'
      BY <1>1, <3>1, NotPushed
    <3>3. HandlerStep
      BY <2>1, <3>1, <3>2, HandlerIs
    <3> QED
      BY <2>3, <3>1, <3>3, StaysTold
  <2> QED
    BY <2>2, <2>3
<1>7. ASSUME NEW k \in TronKinds, TronDeployed(k)
      PROVE  ScannedTold'
  <2>1. LastTells = "deployed" /\ kind = k
    BY <1>7, Tellings, PartsOrdered DEF TronDeployed, TronKinds
  <2> HIDE DEF LastTells
  <2> QED
    BY <1>2, <1>7, <2>1, LockIsFreed DEF TronDeployed, Dies, network, Message
<1>8. ASSUME NEW after \in {"DONE", "ENDED"}, Finalized(after)
      PROVE  ScannedTold'
  <2>1. /\ Receiving("finalized") /\ Ack /\ state' = after
        /\ UNCHANGED <<kind, made, chain, named, disturbed, lockedBy>>
    BY <1>8 DEF Finalized, network, thingVars
  <2>2. ChainTold'
    BY <1>1, <2>1, NotPushed
  <2>3. HandlerStep /\ Head(ready).type = "finalized"
    BY <2>1, <2>2, HandlerIs
  <2> QED
    BY <2>1, <2>3, FinalizedKeeps
<1>9. CASE (TransactionFailed \/ TransactionUnknown) /\ UNCHANGED thingVars
  <2>1. /\ Receiving("transactionCompleted") /\ Ack
        /\ UNCHANGED <<kind, made, chain, named, disturbed>>
        /\ \/ state' = "POSTPONED" /\ lockedBy' # This
           \/ UNCHANGED <<state, lockedBy>>
    BY <1>9, LockIsFreed DEF TransactionFailed, TransactionUnknown, Postpone, network, thingVars
  <2>2. ChainTold'
    BY <1>1, <2>1, NotPushed
  <2>3. HandlerStep /\ Head(ready).type = "transactionCompleted"
    BY <2>1, <2>2, HandlerIs
  <2>4. TellsOf(kind, LastPart(kind)) # "transactionCompleted"
    BY Tellings, PartsOrdered DEF ScannerTypes
  <2> QED
    BY <2>1, <2>3, <2>4, StaysTold
<1> QED
  BY <1>3, <1>4, <1>5, <1>6, <1>7, <1>8, <1>9 DEF ScannedEnd

LEMMA Replaced ==
  ASSUME NEW s, OfSome(s), NEW i \in DOMAIN s, NEW x
  PROVE  LET t == [s EXCEPT ![i] = x]
         IN  /\ OfSome(t) /\ Len(t) = Len(s) /\ DOMAIN t = DOMAIN s
             /\ t[i] = x
             /\ \A j \in DOMAIN s : j # i => t[j] = s[j]
<1> DEFINE t == [s EXCEPT ![i] = x]
<1>1. PICK S : s \in Seq(S)
  BY DEF OfSome
<1>2. s \in Seq(S \cup {x}) /\ DOMAIN s = 1..Len(s)
  BY <1>1, SeqMonotonic
<1>3. t \in Seq(S \cup {x}) /\ Len(t) = Len(s)
  BY <1>2, ExceptSeq
<1> QED
  BY <1>2, <1>3 DEF OfSome

\* Transaction i is settled, and may have made its part of a thing.
LEMMA ChainSettles ==
  ASSUME kind \in ScannedKinds, kind' = kind, ChainTold, named' = named,
         NEW i \in DOMAIN chain, chain' = [chain EXCEPT ![i] = Settled],
         \/ made' = made
         \/ \E thing \in chain[i].with :
              made' = [made EXCEPT ![thing] = @ \cup {chain[i].call}]
  PROVE  ChainTold' /\ \A thing \in Things : made[thing] \subseteq made'[thing]
<1>1. /\ OfSome(chain') /\ Len(chain') = Len(chain) /\ DOMAIN chain' = DOMAIN chain
      /\ chain'[i].with = {} /\ \A j \in DOMAIN chain : j # i => chain'[j] = chain[j]
  <2>1. OfSome(chain)
    BY DEF ChainTold, SentInOrder
  <2>2. /\ OfSome(chain') /\ Len(chain') = Len(chain) /\ DOMAIN chain' = DOMAIN chain
        /\ chain'[i] = Settled /\ \A j \in DOMAIN chain : j # i => chain'[j] = chain[j]
    BY <2>1, Replaced
  <2> QED
    BY <2>2 DEF Settled
<1>2. /\ made' \in [Things -> SUBSET PartNames]
      /\ \A thing \in Things :
           /\ made[thing] \subseteq made'[thing]
           /\ LastPart(kind) \in made'[thing] => Whole(kind) \subseteq made'[thing]
           /\ made'[thing] # {} => thing <= Len(chain)
  <2>1. CASE made' = made
    BY <2>1 DEF ChainTold, MadeInOrder
  <2>2. ASSUME NEW thing \in chain[i].with,
               made' = [made EXCEPT ![thing] = @ \cup {chain[i].call}]
        PROVE  <1>2!1 /\ <1>2!2
    <3>1. /\ chain[i].call \in Whole(kind) /\ thing \in Things /\ thing <= Len(chain)
          /\ chain[i].call = LastPart(kind) => Base(kind) \subseteq made[thing]
      BY DEF ChainTold, SentInOrder, Makes
    <3>2. /\ Whole(kind) \subseteq PartNames
          /\ Whole(kind) = Base(kind) \cup {LastPart(kind)}
      BY PartsOrdered
    <3> QED
      BY <2>2, <3>1, <3>2 DEF ChainTold, MadeInOrder
  <2> QED
    BY <2>1, <2>2
<1>3. MadeInOrder'
  BY <1>1, <1>2 DEF ChainTold, MadeInOrder, Makes
<1>4. SentInOrder'
  <2> SUFFICES ASSUME NEW j \in DOMAIN chain, j # i, NEW thing \in chain[j].with
               PROVE  /\ chain[j].call \in Whole(kind)
                      /\ Makes(thing)' /\ thing <= Len(chain)
                      /\ chain[j].call = LastPart(kind) => Base(kind) \subseteq made'[thing]
    BY <1>1 DEF SentInOrder
  <2> QED
    BY <1>2 DEF ChainTold, SentInOrder, Makes
<1> QED
  BY <1>2, <1>3, <1>4 DEF ChainTold

\* The chain's steps leave the row alone, and the scanner only adds news.
LEMMA NewsKeeps ==
  ASSUME kind \in ScannedKinds, ScannedTold, ChainTold',
         UNCHANGED <<kind, state, lockedBy, unacked, named, disturbed>>,
         \A thing \in Things : made[thing] \subseteq made'[thing],
         NEW m,
         \/ ready' = ready /\ (made' = made \/ named = Nothing)
         \/ /\ ready' = Append(ready, m)
            /\ m.type # "launch"
            /\ m.type \in ScannerTypes =>
                 /\ Makes(m.thing) /\ named # Nothing
                 /\ IF m.type = "finalized"
                      THEN Quiet /\ Complete
                      ELSE \E part \in made'[m.thing] \cap Whole(kind) :
                             TellsOf(kind, part) = m.type
            /\ made' # made => \E part \in Whole(kind), thing \in Things :
                 /\ made' = [made EXCEPT ![thing] = @ \cup {part}]
                 /\ TellsOf(kind, part) = m.type
  PROVE  ScannedTold'
<1>1. /\ ChainTold /\ MessagesTold /\ ServedTold /\ FinalTold /\ LockTold
      /\ kind' \in ScannedKinds /\ Queues
  BY DEF ScannedTold, MessagesTold
<1>2. /\ Queues' /\ Held \subseteq Held'
      /\ Held' = Held \/ (Held' = Held \cup {m} /\ ready' = Append(ready, m))
  BY <1>1, Publishes DEF Queues, Held, LeftBehind
<1>3. Complete => Complete'
  BY <1>1 DEF Complete, ChainTold, MadeInOrder, Makes
<1>4. ServedTold'
  BY <1>1, <1>3 DEF ServedTold, Served, Undisturbed
<1>5. ASSUME ready' = Append(ready, m), m.type = "finalized"
      PROVE  Held = {} /\ Complete
  <2>1. Quiet /\ Complete
    <3>1. "finalized" \in ScannerTypes
      BY DEF ScannerTypes
    <3>2. ready' # ready
      BY <1>1, <1>5, Appended DEF Queues
    <3> QED
      BY <1>5, <3>1, <3>2
  <2> QED
    BY <2>1, Empty DEF Quiet, Held, LeftBehind
<1>6. MessagesTold'
  <2> SUFFICES ASSUME NEW l \in Held'
               PROVE  /\ l.type \in ScannerTypes => Makes(l.thing)' /\ named' # Nothing
                      /\ l.type \in ScannerTypes \ {"finalized"} =>
                           \E part \in made'[l.thing] \cap Whole(kind) :
                             TellsOf(kind, part) = l.type
                      /\ l.type = "finalized" => \A n \in Held' : n.type # "launch"
    BY <1>2 DEF MessagesTold
  <2>1. CASE l \in Held
    <3>1. /\ l.type \in ScannerTypes => Makes(l.thing) /\ named # Nothing
          /\ l.type \in ScannerTypes \ {"finalized"} =>
               \E part \in made[l.thing] \cap Whole(kind) : TellsOf(kind, part) = l.type
          /\ l.type = "finalized" => \A n \in Held : n.type # "launch"
      BY <1>1, <2>1 DEF MessagesTold
    <3>2. l.type = "finalized" => \A n \in Held' : n.type # "launch"
      <4>1. Held' = Held \/ (Held' = Held \cup {m} /\ m.type # "launch")
        <5>1. ready' = Append(ready, m) => ready' # ready
          BY <1>1, Appended DEF Queues
        <5> QED
          BY <1>2, <5>1
      <4> QED
        BY <3>1, <4>1
    <3>3. l.type \in ScannerTypes \ {"finalized"} =>
            \E part \in made'[l.thing] \cap Whole(kind) : TellsOf(kind, part) = l.type
      <4>1. l.type \in ScannerTypes => l.thing \in Things
        BY <3>1 DEF Makes
      <4> QED
        BY <3>1, <4>1
    <3> QED
      BY <3>1, <3>2, <3>3 DEF Makes
  <2>2. CASE l \notin Held
    <3>1. l = m /\ ready' = Append(ready, m) /\ ready' # ready
      BY <1>1, <1>2, <2>2, Appended DEF Queues
    <3>2. l.type = "finalized" => \A n \in Held' : n.type # "launch"
      BY <1>2, <1>5, <3>1
    <3> QED
      BY <3>1, <3>2 DEF Makes
  <2> QED
    BY <2>1, <2>2
<1>7. FinalTold'
  <2>1. CASE FinalizedHeld
    BY <1>1, <1>3, <2>1 DEF FinalTold, Undisturbed
  <2>2. CASE ~FinalizedHeld /\ FinalizedHeld'
    <3>1. ready' = Append(ready, m) /\ m.type = "finalized"
      BY <1>2, <2>2 DEF FinalizedHeld
    <3>2. Held = {} /\ Complete
      BY <1>5, <3>1
    <3>3. ~disturbed => lockedBy # This
      BY <1>1, <3>2 DEF LockTold
    <3> QED
      BY <1>3, <3>2, <3>3 DEF FinalTold
  <2> QED
    BY <2>1, <2>2 DEF FinalTold
<1>8. LockTold'
  <2> SUFFICES ASSUME lockedBy = This, ~disturbed, Complete'
               PROVE  \E l \in Held' : l.type = TellsOf(kind, LastPart(kind))
    BY <1>1 DEF LockTold
  <2>1. CASE Complete
    BY <1>1, <1>2, <2>1 DEF LockTold
  <2>2. CASE ~Complete
    <3>1. made' # made /\ named # Nothing
      BY <2>2 DEF Complete
    <3>2. ready' = Append(ready, m) /\ m \in Held'
      BY <1>1, <3>1, Publishes
    <3>3. PICK part \in Whole(kind), thing \in Things :
            /\ made' = [made EXCEPT ![thing] = @ \cup {part}]
            /\ TellsOf(kind, part) = m.type
      <4>1. ready' # ready
        BY <1>1, <3>2, Appended DEF Queues
      <4> QED
        BY <3>1, <4>1
    <3>4. part = LastPart(kind)
      <4>1. LastPart(kind) \notin made[named]
        BY <1>1, <2>2, <3>1 DEF ChainTold, MadeInOrder, Makes, Complete
      <4>2. LastPart(kind) \in made'[named]
        BY PartsOrdered DEF Complete
      <4> QED
        BY <1>1, <3>1, <3>3, <4>1, <4>2 DEF ChainTold, MadeInOrder, Makes
    <3> QED
      BY <3>2, <3>3, <3>4
  <2> QED
    BY <2>1, <2>2
<1> QED
  BY <1>1, <1>4, <1>6, <1>7, <1>8 DEF ScannedTold

ScannedChain ==
  \/ Restart /\ UNCHANGED thingVars
  \/ \E i \in DOMAIN chain : PartMined(i) \/ PartFails(i)
  \/ OwnerFinalizes

LEMMA ScannedChainKeeps ==
  ASSUME kind \in ScannedKinds, ScannedTold, ScannedChain
  PROVE  ScannedTold'
<1>1. /\ ChainTold /\ MessagesTold /\ ServedTold /\ FinalTold /\ LockTold /\ Queues
  BY DEF ScannedTold, MessagesTold
<1>2. CASE Restart /\ UNCHANGED thingVars
  <2>1. Queues' /\ Held' = Held
    <3>1. ready' = unacked \o ready /\ unacked' = << >>
      BY <1>2 DEF Restart
    <3> QED
      BY <1>1, <3>1, Redelivered
  <2>2. UNCHANGED <<kind, state, lockedBy, chain, made, named, disturbed>>
    BY <1>2 DEF Restart, network, thingVars
  <2> QED
    BY <1>1, <2>1, <2>2
    DEF ScannedTold, ChainTold, SentInOrder, MadeInOrder, Makes, MessagesTold, ServedTold,
        Served, Undisturbed, Complete, FinalTold, FinalizedHeld, LockTold
<1>3. ASSUME NEW i \in DOMAIN chain, PartMined(i)
      PROVE  ScannedTold'
  <2>1. PICK thing \in chain[i].with :
          /\ made' = [made EXCEPT ![thing] = @ \cup {chain[i].call}]
          /\ chain' = [chain EXCEPT ![i] = Settled]
          /\ ready' = IF named = Nothing THEN ready
                      ELSE Append(ready, About(TellsOf(kind, chain[i].call), thing))
    BY <1>3 DEF PartMined
  <2>2. UNCHANGED <<kind, state, lockedBy, unacked, named, disturbed>>
    BY <1>3 DEF PartMined
  <2>3. ChainTold' /\ \A t \in Things : made[t] \subseteq made'[t]
    BY <1>1, <2>1, <2>2, ChainSettles
  <2>4. chain[i].call \in Whole(kind) /\ Makes(thing) /\ thing \in Things
    BY <1>1 DEF ChainTold, SentInOrder, Makes
  <2>5. chain[i].call \in made'[thing]
    BY <1>1, <2>1, <2>4 DEF ChainTold, MadeInOrder
  <2> DEFINE m == About(TellsOf(kind, chain[i].call), thing)
  <2>6. /\ m.type = TellsOf(kind, chain[i].call) /\ m.thing = thing
        /\ m.type \in ScannerTypes \ {"finalized"} /\ m.type # "launch"
    BY <2>4, Tellings DEF About, ScannerTypes
  <2>7. ready' = IF named = Nothing THEN ready ELSE Append(ready, m)
    BY <2>1
  <2> HIDE DEF m
  <2> QED
    BY <2>1, <2>2, <2>3, <2>4, <2>5, <2>6, <2>7, NewsKeeps
<1>4. ASSUME NEW i \in DOMAIN chain, PartFails(i)
      PROVE  ScannedTold'
  <2> DEFINE m == TxFailed(i)
  <2>1. /\ chain' = [chain EXCEPT ![i] = Settled] /\ ready' = Append(ready, m)
        /\ UNCHANGED <<kind, state, lockedBy, unacked, named, disturbed, made>>
    BY <1>4 DEF PartFails, thingVars
  <2>2. ChainTold' /\ \A t \in Things : made[t] \subseteq made'[t]
    BY <1>1, <2>1, ChainSettles
  <2>3. m.type \notin ScannerTypes /\ m.type # "launch"
    BY DEF TxFailed, ScannerTypes
  <2> HIDE DEF m
  <2> QED
    BY <2>1, <2>2, <2>3, NewsKeeps
<1>5. CASE OwnerFinalizes
  <2> DEFINE m == About("finalized", named)
  <2>1. /\ ready' = Append(ready, m) /\ Quiet /\ Complete
        /\ UNCHANGED <<kind, state, lockedBy, unacked, chain, named, disturbed, made>>
    BY <1>5 DEF OwnerFinalizes, Publish, network, thingVars, Complete
  <2>2. m.type = "finalized" /\ m.thing = named
    BY DEF About
  <2>3. ChainTold' /\ Makes(named) /\ named # Nothing
    BY <1>1, <2>1, NotPushed DEF ChainTold, MadeInOrder, Complete
  <2> HIDE DEF m
  <2> QED
    BY <2>1, <2>2, <2>3, NewsKeeps
<1> QED
  BY <1>2, <1>3, <1>4, <1>5 DEF ScannedChain

LEMMA ScannedSteps ==
  ASSUME kind \in ScannedKinds, ScannedNext
  PROVE  ScannedLaunch \/ ScannedSecond \/ ScannedEnd \/ ScannedChain
<1>1. TronKinds \subseteq ScannedKinds /\ {"eosico", "neoico"} \subseteq ScannedKinds \ TronKinds
      /\ {"eostoken", "eosaccount", "eosdrop", "eostokensa"} \subseteq ScannedKinds
      /\ TronKinds = {"trontoken", "gameassets", "trondrop", "tronlostkey"}
  BY DEF ScannedKinds, EosKinds, TronKinds
<1>2. ASSUME \/ EOSTokenDeploy \/ EOSAccountDeploy \/ EOSAirdropDeploy \/ EOSTokenSADeploy
             \/ TRONTokenDeploy \/ GameAssetsDeploy \/ TRONAirdropDeploy
             \/ TRONLostkeyDeploy \/ EOSICODeploy \/ NeoICODeploy
             \/ ScannedPostponed \/ ScannedLaunchRaises \/ ScannedLaunchDies \/ LaunchRefused
      PROVE  ScannedLaunch
  BY <1>1, <1>2
  DEF ScannedLaunch, EOSTokenDeploy, EOSAccountDeploy, EOSAirdropDeploy, EOSTokenSADeploy,
      TRONTokenDeploy, GameAssetsDeploy, TRONAirdropDeploy, TRONLostkeyDeploy,
      EOSICODeploy, NeoICODeploy
<1>3. ASSUME \/ TRONTokenDeployed \/ GameAssetsDeployed \/ TRONAirdropDeployed
             \/ TRONLostkeyDeployed
             \/ EOSICOFinalized \/ NeoICOFinalized \/ TRONTokenFinalized
             \/ GameAssetsFinalized
      PROVE  ScannedEnd
  BY <1>1, <1>3
  DEF ScannedEnd, TRONTokenDeployed, GameAssetsDeployed, TRONAirdropDeployed,
      TRONLostkeyDeployed, EOSICOFinalized, NeoICOFinalized, TRONTokenFinalized,
      GameAssetsFinalized
<1> QED
  BY <1>2, <1>3 DEF ScannedNext, ScannedSecond, ScannedEnd, ScannedChain

LEMMA ScannedKeeps ==
  ASSUME kind \in ScannedKinds, ScannedTold, ScannedNext
  PROVE  ScannedTold'
  BY ScannedSteps, ScannedLaunchKeeps, ScannedSecondKeeps, ScannedEndKeeps, ScannedChainKeeps

LEMMA ScannedToldInit ==
  ASSUME RowInit, kind \in ScannedKinds, ThingInit
  PROVE  ScannedTold
<1> DEFINE first == <<Launch>>
<1>1. OfSome(chain) /\ DOMAIN chain = {} /\ Len(chain) = 0 /\ OfSome(unacked)
  BY Empty DEF RowInit
<1>2. OfSome(first) /\ Elements(first) = {Launch} /\ ready = first
  BY OneOrTwo DEF ThingInit
<1>3. Elements(unacked) = {}
  BY Empty DEF RowInit
<1> HIDE DEF first
<1>4. Queues /\ Held = {Launch}
  BY <1>1, <1>2, <1>3 DEF Queues, Held, LeftBehind
<1>5. Launch.type = "launch" /\ "launch" \notin ScannerTypes /\ "finalized" \in ScannerTypes
  BY DEF Launch, ScannerTypes
<1>6. MessagesTold /\ FinalTold
  BY <1>4, <1>5 DEF MessagesTold, FinalTold, FinalizedHeld
<1>7. ChainTold
  BY <1>1, PartsOrdered DEF ChainTold, SentInOrder, MadeInOrder, ThingInit
<1>8. ServedTold /\ LockTold
  BY LockIsFreed DEF ServedTold, LockTold, Served, ScannedStates, RowInit, ThingInit
<1> QED
  BY <1>6, <1>7, <1>8 DEF ScannedTold
-----------------------------------------------------------------------------
(***************************************************************************)
(* The chains without one.  Only the launch is ever in the queue, and it   *)
(* has begun once unless the model says so: what the row names is whole    *)
(* when the handler is done, and the handler frees the address.            *)
(***************************************************************************)
Lone == \/ ready = << >> /\ unacked = << >>
        \/ ready = <<Launch>> /\ unacked = << >>
        \/ ready = << >> /\ unacked = <<Launch>>

RowIsWhole ==
  /\ rowNames \in Objects /\ PartsOf(kind) \subseteq has[rowNames]
  /\ kind = "waves" => asset_id = rowNames

LaunchTold ==
  kind \in InlineKinds \ {"near"} =>
    /\ Lone
    /\ DOMAIN has = Objects
    /\ again \in BOOLEAN
    /\ ~again =>
         /\ lockedBy # This
         /\ \/ state = "POSTPONED"
            \/ state = "WAITING_FOR_DEPLOYMENT" /\ source = None /\ asset_id = None
            \/ Quiet /\ RowIsWhole

\* On NEAR a request deploys; unless two of them overlapped there is but one.
Came(r) == near[r] # "idle"

NearTold ==
  kind = "near" =>
    /\ DOMAIN has = Objects /\ DOMAIN near = NearRequests
    /\ again \in BOOLEAN
    /\ ~again =>
         /\ \A r, o \in NearRequests : Came(r) /\ Came(o) => r = o
         /\ \A r \in NearRequests :
              /\ near[r] = "account" => "account" \in has[r]
              /\ near[r] = "deployed" =>
                   rowNames = r /\ {"account", "contract"} \subseteq has[r]
         /\ Served => RowIsWhole /\ \E r \in NearRequests : near[r] = "over"

OthersRest ==
  kind \notin ScannedKinds \cup InlineKinds => state = "CREATED" /\ lockedBy = NoOne

LEMMA PartsOfKinds ==
  /\ PartsOf("neotoken") = {"relayed"}
  /\ PartsOf("waves") = {"asset", "script"}
  /\ PartsOf("solana") = {"mint", "minted", "authority"}
  /\ PartsOf("near") = {"account", "contract"}
<1>1. PartsOf("neotoken") = {"relayed"} /\ PartsOf("waves") = {"asset", "script"}
  BY DEF PartsOf
<1>2. PartsOf("solana") = {"mint", "minted", "authority"}
  BY DEF PartsOf
<1>3. PartsOf("near") = {"account", "contract"}
  BY DEF PartsOf
<1> QED
  BY <1>1, <1>2, <1>3

\* What becomes of the lone launch.
LEMMA LoneHandled ==
  ASSUME Lone, Receiving("launch")
  PROVE  /\ ~Quiet
         /\ Ack => Quiet'
         /\ LeaveUnacked => Lone'
         /\ DeliveredAgain => Lone'
<1> DEFINE m == Launch
           one == <<m>>
<1>1. ready = one /\ unacked = << >>
  BY DEF Lone, Receiving
<1>2. Head(one) = m /\ Tail(one) = << >> /\ Append(<< >>, m) = one /\ << >> \o one = one
      /\ one # << >>
  <2> HIDE DEF m
  <2> QED
    OBVIOUS
<1> HIDE DEF one
<1> QED
  BY <1>1, <1>2 DEF Quiet, Lone, Ack, LeaveUnacked, DeliveredAgain, Message, one

LEMMA LoneRestarted ==
  ASSUME Lone, Restart
  PROVE  Lone' /\ ~Quiet
<1> DEFINE m == Launch
           one == <<m>>
<1>1. ready = << >> /\ unacked = one
  BY DEF Lone, Restart
<1>2. one \o << >> = one /\ one # << >>
  <2> HIDE DEF m
  <2> QED
    OBVIOUS
<1> HIDE DEF one
<1> QED
  BY <1>1, <1>2 DEF Quiet, Lone, Restart, one

\* A handler that broke leaves the row postponed and the address free, or dies.
LEMMA BrokenLaunch ==
  ASSUME kind \in InlineKinds \ {"near"}, LaunchTold, Receiving("launch"), kind' = kind,
         DOMAIN has' = DOMAIN has, RaisesThere \/ DiesThere
  PROVE  LaunchTold'
<1>1. Lone' /\ again' \in BOOLEAN
  BY LoneHandled DEF LaunchTold, RaisesThere, DiesThere
<1>2. ~again' => state' = "POSTPONED" /\ lockedBy' # This
  BY LockIsFreed DEF RaisesThere, DiesThere, Postpone
<1> QED
  BY <1>1, <1>2 DEF LaunchTold

\* A launch that came to its end made the row's thing whole.
LEMMA EndedLaunch ==
  ASSUME kind \in InlineKinds \ {"near"}, LaunchTold, Receiving("launch"), kind' = kind,
         DOMAIN has' = DOMAIN has, Done(TakeOff) \/ DoneTwice(TakeOff),
         ~again => RowIsWhole'
  PROVE  LaunchTold'
<1>1. Lone' /\ again' \in BOOLEAN
  BY LoneHandled DEF LaunchTold, Done, DoneTwice, Quiet, Lone
<1>2. ~again' => ~again /\ Quiet' /\ lockedBy' # This
  BY LoneHandled, LockIsFreed DEF LaunchTold, Done, DoneTwice
<1> QED
  BY <1>1, <1>2 DEF LaunchTold

\* Every step of a sale on Waves is done when the last one is.
LEMMA WavesIsDone ==
  ASSUME NEW t
  PROVE  \A step \in {"issue", "compile", "script", "asset_id", "ride"} : After(step, LastStep)
<1>1. /\ DOMAIN WavesSteps = 1..6
      /\ WavesSteps[2] = "issue" /\ WavesSteps[3] = "compile" /\ WavesSteps[4] = "script"
      /\ WavesSteps[5] = "asset_id" /\ WavesSteps[6] = "ride"
  BY DEF WavesSteps
<1> QED
  BY <1>1 DEF After, LastStep

LEMMA LaunchKeepsTold ==
  ASSUME kind \in InlineKinds \ {"near"}, LaunchTold, InlineNext
  PROVE  LaunchTold'
<1>1. Lone /\ DOMAIN has = Objects /\ again \in BOOLEAN
  BY DEF LaunchTold
<1>2. CASE InlinePostponed
  <2>1. /\ Receiving("launch") /\ Ack /\ state' = "POSTPONED" /\ lockedBy' # This
        /\ UNCHANGED <<kind, has, again>>
    BY <1>2, LockIsFreed DEF InlinePostponed, LaunchPostponed, inlineVars
  <2> QED
    BY <1>1, <2>1, LoneHandled DEF LaunchTold, Quiet, Lone
<1>3. ASSUME NEW k \in {"neotoken", "waves", "solana"}, Begun(k)
      PROVE  /\ kind = k /\ Receiving("launch") /\ state # "POSTPONED"
             /\ ~again => state = "WAITING_FOR_DEPLOYMENT" /\ source = None
                          /\ asset_id = None
  BY <1>1, <1>3, LoneHandled DEF Begun, LaunchTold
<1>4. CASE NeoTokenDeploy
  <2>1. Begun("neotoken") /\ UNCHANGED kind /\ DOMAIN has' = DOMAIN has
    BY <1>4 DEF NeoTokenDeploy
  <2>2. RowIsWhole'
    BY <1>1, <1>3, <1>4, <2>1, PartsOfKinds DEF NeoTokenDeploy, RowIsWhole, Fresh
  <2>3. Done(TakeOff) \/ DoneTwice(TakeOff)
    BY <1>4 DEF NeoTokenDeploy
  <2> QED
    BY <1>3, <2>1, <2>2, <2>3, EndedLaunch
<1>5. CASE WavesDeploy
  <2>1. Begun("waves") /\ UNCHANGED kind
    BY <1>5 DEF WavesDeploy
  <2>2. PICK t \in Objects : WavesDone(t, LastStep)
    BY <1>5 DEF WavesDeploy
  <2>3. DOMAIN has' = DOMAIN has
    BY <2>2 DEF WavesDone
  <2>4. ASSUME ~again
        PROVE  RowIsWhole'
    <3>1. source = None /\ asset_id = None /\ kind = "waves"
      BY <1>3, <2>1, <2>4
    <3>2. /\ has'[t] = has[t] \cup {"asset"} \cup {"script"}
          /\ asset_id' = t /\ rowNames' = t
      BY <1>1, <2>2, <3>1, WavesIsDone DEF WavesDone, Compiled
    <3> QED
      BY <2>1, <3>1, <3>2, PartsOfKinds DEF RowIsWhole
  <2>5. Done(TakeOff) \/ DoneTwice(TakeOff)
    BY <1>5 DEF WavesDeploy
  <2> QED
    BY <1>3, <2>1, <2>3, <2>4, <2>5, EndedLaunch
<1>6. CASE SolanaDeploy
  <2>1. Begun("solana") /\ UNCHANGED kind /\ DOMAIN has' = DOMAIN has
    BY <1>6 DEF SolanaDeploy
  <2>2. RowIsWhole'
    BY <1>1, <1>3, <1>6, <2>1, PartsOfKinds DEF SolanaDeploy, RowIsWhole, Fresh
  <2>3. Done(TakeOff) \/ DoneTwice(TakeOff)
    BY <1>6 DEF SolanaDeploy
  <2> QED
    BY <1>3, <2>1, <2>2, <2>3, EndedLaunch
<1>7. CASE NeoTokenBreaks \/ WavesBreaks \/ SolanaBreaks
  <2>1. /\ Receiving("launch") /\ UNCHANGED kind /\ DOMAIN has' = DOMAIN has
        /\ RaisesThere \/ DiesThere
    BY <1>7 DEF NeoTokenBreaks, WavesBreaks, SolanaBreaks, WavesDone, Begun
  <2> QED
    BY <2>1, BrokenLaunch
<1>8. CASE SolanaAnew
  <2>1. /\ Receiving("launch") /\ Ack /\ again \* it was not the first
        /\ UNCHANGED <<kind, again>> /\ DOMAIN has' = DOMAIN has
    BY <1>3, <1>8 DEF SolanaAnew, Begun
  <2> QED
    BY <1>1, <2>1, LoneHandled DEF LaunchTold, Quiet, Lone
<1>9. CASE Restart /\ UNCHANGED inlineVars
  <2>1. /\ Lone' /\ ~Quiet
        /\ UNCHANGED <<kind, state, lockedBy, has, again, source, asset_id>>
    BY <1>1, <1>9, LoneRestarted DEF Restart, inlineVars
  <2> QED
    BY <2>1 DEF LaunchTold
<1> QED
  BY <1>2, <1>4, <1>5, <1>6, <1>7, <1>8, <1>9
  DEF InlineNext, NearAccepts, NearNewAccount, NearDeploys, NearRaises, NearInitialized,
      NearIsCorrupted, NearGoes

LEMMA RequestIsThing == NearRequests \subseteq Objects
  BY NearRequestsAreThings DEF Objects

LEMMA NearKeepsTold ==
  ASSUME kind = "near", NearTold, InlineNext
  PROVE  NearTold'
<1>1. /\ DOMAIN has = Objects /\ DOMAIN near = NearRequests /\ again \in BOOLEAN
  BY DEF NearTold
<1>2. CASE Restart /\ UNCHANGED inlineVars
  <2>1. UNCHANGED <<kind, state, has, again, near, rowNames, asset_id>>
    BY <1>2 DEF Restart, inlineVars
  <2> QED
    BY <2>1 DEF NearTold, Came, Served, RowIsWhole
<1>3. ASSUME NEW r \in NearRequests, NearAccepts(r)
      PROVE  NearTold'
  <2>1. /\ near[r] = "idle" /\ near' = [near EXCEPT ![r] = "accepted"]
        /\ state' = "WAITING_FOR_DEPLOYMENT"
        /\ again' = (again \/ \E o \in NearRequests \ {r} : near[o] # "idle")
        /\ UNCHANGED <<kind, has, rowNames, asset_id>>
    BY <1>3 DEF NearAccepts, NearGoes, nearRest
  <2>2. ~again' => ~again /\ \A o \in NearRequests : near[o] = "idle"
    BY <2>1
  <2> QED
    BY <1>1, <2>1, <2>2 DEF NearTold, Came, Served
<1>4. ASSUME NEW r \in NearRequests, NEW to \in {"account", "deployed", "over"},
             near[r] \in {"accepted", "account", "deployed"},
             near' = [near EXCEPT ![r] = to],
             \/ has' = has
             \/ \E parts : has' = [has EXCEPT ![r] = parts],
             UNCHANGED <<kind, again, asset_id>>,
             ~again => /\ to = "account" => "account" \in has'[r]
                       /\ to = "deployed" =>
                            rowNames' = r /\ {"account", "contract"} \subseteq has'[r]
                       /\ Served' => Served \/ (to = "over" /\ RowIsWhole')
      PROVE  NearTold'
  <2>1. DOMAIN has' = Objects /\ DOMAIN near' = NearRequests /\ r \in Objects
    BY <1>1, <1>4, RequestIsThing
  <2>2. ASSUME ~again
        PROVE  /\ ~Served
               /\ \A o \in NearRequests : Came(o)' => o = r
    <3>1. \A o \in NearRequests : Came(o) => o = r
      BY <1>4, <2>2 DEF NearTold, Came
    <3>2. \A o \in NearRequests : near[o] # "over"
      BY <1>4, <3>1 DEF Came
    <3> QED
      BY <1>1, <1>4, <2>2, <3>1, <3>2 DEF NearTold, Came
  <2>3. ASSUME ~again, NEW o \in NearRequests
        PROVE  /\ near'[o] = "account" => "account" \in has'[o]
               /\ near'[o] = "deployed" =>
                    rowNames' = o /\ {"account", "contract"} \subseteq has'[o]
    <3>1. near'[o] \in {"account", "deployed"} => o = r
      BY <2>2, <2>3 DEF Came
    <3> QED
      BY <1>1, <1>4, <2>3, <3>1
  <2>4. near'[r] = to
    BY <1>1, <1>4
  <2> QED
    BY <1>1, <1>4, <2>1, <2>2, <2>3, <2>4 DEF NearTold
<1>5. ASSUME NEW r \in NearRequests, NearNewAccount(r)
      PROVE  NearTold'
  <2>1. /\ near[r] = "accepted" /\ near' = [near EXCEPT ![r] = "account"]
        /\ has' = [has EXCEPT ![r] = {"account"}]
        /\ UNCHANGED <<kind, again, asset_id, state>>
    BY <1>5 DEF NearNewAccount, NearGoes, nearRest
  <2>2. "account" \in has'[r] /\ (Served' <=> Served)
    BY <1>1, <2>1, RequestIsThing DEF Served
  <2> QED
    BY <1>4, <2>1, <2>2
<1>6. ASSUME NEW r \in NearRequests, NearDeploys(r)
      PROVE  NearTold'
  <2>1. /\ near[r] = "account" /\ near' = [near EXCEPT ![r] = "deployed"]
        /\ has' = [has EXCEPT ![r] = @ \cup {"contract"}]
        /\ rowNames' = r /\ state' = "WAITING_ACTIVATION"
        /\ UNCHANGED <<kind, again, asset_id>>
    BY <1>6 DEF NearDeploys, NearGoes, nearRest
  <2>2. ~Served' /\ (~again => {"account", "contract"} \subseteq has'[r])
    BY <1>1, <2>1, RequestIsThing DEF Served, NearTold
  <2> QED
    BY <1>4, <2>1, <2>2
<1>7. ASSUME NEW r \in NearRequests, NearRaises(r)
      PROVE  NearTold'
  <2>1. /\ near[r] \in {"accepted", "account"} /\ near' = [near EXCEPT ![r] = "over"]
        /\ state' = "POSTPONED"
        /\ UNCHANGED <<kind, again, asset_id, has>>
    BY <1>7 DEF NearRaises, NearGoes, nearRest, Postpone
  <2>2. ~Served'
    BY <2>1 DEF Served
  <2> QED
    BY <1>4, <2>1, <2>2
<1>8. ASSUME NEW r \in NearRequests, NearInitialized(r)
      PROVE  NearTold'
  <2>1. /\ near[r] = "deployed" /\ near' = [near EXCEPT ![r] = "over"]
        /\ has' = has \/ has' = [has EXCEPT ![r] = @ \cup {"no keys"}]
        /\ UNCHANGED <<kind, again, asset_id, rowNames>>
    BY <1>8 DEF NearInitialized, NearGoes, nearRest, NearBurnsKeys
  <2>2. ~again => rowNames = r /\ {"account", "contract"} \subseteq has[r]
    BY <2>1 DEF NearTold
  <2>3. ~again => RowIsWhole'
    BY <1>1, <2>1, <2>2, PartsOfKinds, RequestIsThing DEF RowIsWhole
  <2> QED
    BY <1>4, <2>1, <2>3
<1>9. ASSUME NEW r \in NearRequests, NearIsCorrupted(r)
      PROVE  NearTold'
  <2>1. /\ near[r] = "deployed" /\ near' = [near EXCEPT ![r] = "over"]
        /\ has' = has \/ has' = [has EXCEPT ![r] = @ \cup {"no keys"}]
        /\ state' = "POSTPONED"
        /\ UNCHANGED <<kind, again, asset_id>>
    BY <1>9 DEF NearIsCorrupted, NearGoes, nearRest, NearBurnsKeys, Postpone
  <2>2. ~Served'
    BY <2>1 DEF Served
  <2> QED
    BY <1>4, <2>1, <2>2
<1> QED
  BY <1>2, <1>3, <1>5, <1>6, <1>7, <1>8, <1>9
  DEF InlineNext, InlinePostponed, NeoTokenDeploy, NeoTokenBreaks, WavesDeploy, WavesBreaks,
      SolanaDeploy, SolanaBreaks, SolanaAnew, Begun
-----------------------------------------------------------------------------
(***************************************************************************)
(* The contracts of the other chains within the platform.                  *)
(***************************************************************************)
ChainsTold == ScannedTold /\ LaunchTold /\ NearTold /\ OthersRest

LEMMA ChainsAlone ==
  ASSUME [Next]_platformVars
  PROVE  \/ ScannedStep
         \/ InlineStep
         \/ UNCHANGED <<rowVars, thingVars, inlineVars>>
  BY DEF Next, platformVars, DraftStep, PromoStep, BridgeStep, AccountStep, ShareStep

LEMMA KindStays ==
  ASSUME ScannedNext \/ InlineNext
  PROVE  kind' = kind
<1>1. CASE ScannedNext
  BY <1>1
  DEF ScannedNext, Launches, LaunchesOnly, EOSTokenDeploy, EOSAccountDeploy,
      EOSAirdropDeploy, EOSTokenSADeploy, TRONTokenDeploy, GameAssetsDeploy,
      TRONAirdropDeploy, TRONLostkeyDeploy, EOSICODeploy, NeoICODeploy, ScannedPostponed,
      LaunchPostponed, ScannedLaunchRaises, ScannedLaunchDies, LaunchRefused, NodeRefuses,
      NewAccount, NeoDeployed, SecondDies, SecondRefused, NothingToDo, MsgDeployed,
      EOSTokenCreated, EOSAccountCreated, EOSAirdropDeployed, Initialized,
      EOSICOInitialized, EOSTokenSACreated, NeoICOInitialized, TronDeployed,
      TRONTokenDeployed, GameAssetsDeployed, TRONAirdropDeployed, TRONLostkeyDeployed,
      Finalized, EOSICOFinalized, NeoICOFinalized, TRONTokenFinalized, GameAssetsFinalized,
      TransactionFailed, TransactionUnknown, Restart, PartMined, PartFails, OwnerFinalizes
<1>2. CASE InlineNext
  BY <1>2
  DEF InlineNext, InlinePostponed, LaunchPostponed, NeoTokenDeploy, NeoTokenBreaks,
      WavesDeploy, WavesBreaks, SolanaDeploy, SolanaBreaks, SolanaAnew, NearAccepts,
      NearNewAccount, NearDeploys, NearRaises, NearInitialized, NearIsCorrupted, nearRest,
      Restart
<1> QED
  BY <1>1, <1>2

LEMMA KindsApart ==
  /\ ScannedKinds \cap InlineKinds = {}
  /\ {"draft", "promo", "bridge", "account", "shares"} \cap (ScannedKinds \cup InlineKinds) = {}
  /\ ScannedKinds = EosKinds \cup TronKinds \cup {"neoico"} /\ EosKinds \cap TronKinds = {}
  /\ "neoico" \notin TronKinds /\ {"near", "waves"} \subseteq InlineKinds
  BY DEF ScannedKinds, EosKinds, TronKinds, InlineKinds

LEMMA ChainsToldInit == Init => ChainsTold
<1> SUFFICES ASSUME Init PROVE ChainsTold
  OBVIOUS
<1>1. CASE RowInit /\ kind \in ScannedKinds /\ ThingInit
  BY <1>1, ScannedToldInit, KindsApart DEF ChainsTold, LaunchTold, NearTold, OthersRest
<1>2. CASE RowInit /\ InlineInit
  <2>1. kind \in InlineKinds /\ again = FALSE /\ lockedBy = NoOne
        /\ DOMAIN has = Objects /\ DOMAIN near = NearRequests
    BY <1>2 DEF RowInit, InlineInit
  <2>2. CASE kind = "near"
    <3>1. state = "CREATED" /\ \A r \in NearRequests : near[r] = "idle"
      BY <1>2, <2>2 DEF InlineInit
    <3> QED
      BY <2>1, <2>2, <3>1, KindsApart
      DEF ChainsTold, ScannedTold, LaunchTold, NearTold, OthersRest, Came, Served
  <2>3. CASE kind # "near"
    <3>1. Lone /\ state = "WAITING_FOR_DEPLOYMENT" /\ source = None /\ asset_id = None
      BY <1>2, <2>3 DEF RowInit, InlineInit, Lone
    <3> QED
      BY <2>1, <2>3, <3>1, LockIsFreed, KindsApart
      DEF ChainsTold, ScannedTold, LaunchTold, NearTold, OthersRest
  <2> QED
    BY <2>2, <2>3
<1>3. CASE RowRests /\ kind \in {"draft", "promo", "bridge", "account", "shares"}
  <2>1. state = "CREATED" /\ lockedBy = NoOne
    BY <1>3 DEF RowRests, RowInit
  <2> QED
    BY <1>3, <2>1, KindsApart
    DEF ChainsTold, ScannedTold, LaunchTold, NearTold, OthersRest
<1> QED
  BY <1>1, <1>2, <1>3 DEF Init

LEMMA ChainsToldStep == ChainsTold /\ [Next]_platformVars => ChainsTold'
<1> SUFFICES ASSUME ChainsTold, [Next]_platformVars PROVE ChainsTold'
  OBVIOUS
<1>1. CASE ScannedStep
  <2>1. kind \in ScannedKinds /\ kind' = kind /\ ScannedTold'
    BY <1>1, KindStays, ScannedKeeps DEF ChainsTold, ScannedStep
  <2> QED
    BY <2>1, KindsApart DEF ChainsTold, LaunchTold, NearTold, OthersRest
<1>2. CASE InlineStep
  <2>1. kind \in InlineKinds /\ kind' = kind
    BY <1>2, KindStays DEF InlineStep
  <2>2. (kind # "near" => LaunchTold') /\ (kind = "near" => NearTold')
    BY <1>2, <2>1, LaunchKeepsTold, NearKeepsTold DEF ChainsTold, InlineStep
  <2> QED
    BY <2>1, <2>2, KindsApart DEF ChainsTold, ScannedTold, LaunchTold, NearTold, OthersRest
<1>3. CASE UNCHANGED <<rowVars, thingVars, inlineVars>>
  <2>1. UNCHANGED <<kind, state, lockedBy, ready, unacked, chain, made, named, disturbed>>
    BY <1>3 DEF rowVars, queue, network, thingVars
  <2>2. UNCHANGED <<has, rowNames, again, source, asset_id, near>>
    BY <1>3 DEF inlineVars
  <2>3. ScannedTold'
    BY <2>1
    DEF ChainsTold, ScannedTold, ChainTold, SentInOrder, MadeInOrder, Makes, MessagesTold,
        Queues, Held, LeftBehind, ServedTold, Served, Undisturbed, Complete, FinalTold,
        FinalizedHeld, LockTold
  <2>4. LaunchTold' /\ NearTold'
    BY <2>1, <2>2 DEF ChainsTold, LaunchTold, NearTold, Lone, Quiet, RowIsWhole, Came, Served
  <2> QED
    BY <2>1, <2>3, <2>4 DEF ChainsTold, OthersRest
<1> QED
  BY <1>1, <1>2, <1>3, ChainsAlone

(***************************************************************************)
(* For any number of attempts, requests and mishaps: what a contract's row *)
(* says is served is whole on its chain.                                   *)
(***************************************************************************)
THEOREM ServedWhole == Spec => []ServedIsWhole
<1>1. ASSUME ChainsTold, Served
      PROVE  ServedIsWhole!2
  <2>1. CASE kind \in ScannedKinds
    <3>1. Undisturbed => Complete /\ Makes(named)
      BY <1>1, <2>1 DEF ChainsTold, ScannedTold, ServedTold, ChainTold, MadeInOrder, Complete
    <3> QED
      BY <2>1, <3>1, KindsApart DEF Undisturbed, Complete, Makes
  <2>2. CASE kind \in InlineKinds \ {"near"}
    <3>1. ~again => RowIsWhole
      BY <1>1, <2>2 DEF ChainsTold, LaunchTold, Served
    <3> QED
      BY <2>2, <3>1, KindsApart DEF RowIsWhole, Objects, None
  <2>3. CASE kind = "near"
    <3>1. ~again => RowIsWhole
      BY <1>1, <2>3 DEF ChainsTold, NearTold
    <3> QED
      BY <2>3, <3>1, KindsApart DEF RowIsWhole, Objects, None
  <2>4. CASE kind \notin ScannedKinds \cup InlineKinds
    BY <1>1, <2>4 DEF ChainsTold, OthersRest, Served
  <2> QED
    BY <2>1, <2>2, <2>3, <2>4
<1>2. ChainsTold => ServedIsWhole
  BY <1>1 DEF ServedIsWhole
<1> QED
  BY <1>2, ChainsToldInit, ChainsToldStep, PTL DEF Spec

(***************************************************************************)
(* And a served contract has given the deployment address back.            *)
(***************************************************************************)
THEOREM ServedFreesLock == Spec => []FreedWhenServed
<1>1. ChainsTold => FreedWhenServed
  <2> SUFFICES ASSUME ChainsTold, Served, kind # "near", ~disturbed, ~again
               PROVE  lockedBy # This
    BY DEF FreedWhenServed
  <2>1. CASE kind \in ScannedKinds
    BY <2>1 DEF ChainsTold, ScannedTold, LockTold, Served
  <2>2. CASE kind \in InlineKinds \ {"near"}
    BY <2>2 DEF ChainsTold, LaunchTold
  <2>3. CASE kind \notin ScannedKinds \cup InlineKinds
    BY <2>3 DEF ChainsTold, OthersRest, Served
  <2> QED
    BY <2>1, <2>2, <2>3
<1> QED
  BY <1>1, ChainsToldInit, ChainsToldStep, PTL DEF Spec
-----------------------------------------------------------------------------
(***************************************************************************)
(* A draft.  While no requests overlapped and none broke off, at most one  *)
(* is open; how far it is says which of the rows, the details and the      *)
(* price are still the old form's and which already its own.               *)
(***************************************************************************)
Offered == Forms \cup {ApiForm(f) : f \in Forms}

\* What the details may be: a form, with options of others.
Known   == UNION {f.options : f \in Forms}
WithOptions(f, kept) == [f EXCEPT !.options = kept]
Details == Offered \cup {WithOptions(f, kept) : f \in Offered, kept \in SUBSET Known}

\* The form that they were last saved from.
OfForm(d, f) ==
  /\ d.options \cap f.sent = f.options
  /\ \A x \in Fields \ {"options"} : d[x] = f[x]

Entries == {"ETH_TOKEN", "SOLANA_TOKEN", "ETH_ICO", "ETH_AIRDROP", "TRON",
            "ETH_LASTWILL", "ETH_LOSTKEY", "ETH_LOSTKEY_TOKENS", "TRON_LOSTKEY",
            "half an ether", "EOS_ACCOUNT", "of the kind", "authio",
            "verification", "white_label", "api", "nothing"}
Costs   == SUBSET Entries

DraftStates == Drafted \cup {"none", "destroyed", "TIME_IS_UP",
                             "WAITING_ACTIVATION", "WAITING_FOR_DEPLOYMENT"}
DraftRows   == [state : DraftStates, cost : Costs]

Saving     == {"read", "deleted", "rows", "details"}
OpenEdits  == [at : Saving, form : Details, price : Costs]
OpenApi    == [at : {"edited"}, form : Details]
OpenPays   == [at : {"charged"}, row : DraftRows]

DraftShape ==
  /\ what \in DraftKinds
  /\ minute \in 0..LastMinute
  /\ draft \in DraftRows
  /\ details \in Details
  /\ editing \in [Editors -> {Free} \cup OpenEdits \cup OpenApi \cup OpenPays]
  /\ bills \in 0..MaxBills /\ paid \in Costs
  /\ launched \in BOOLEAN /\ mixed \in BOOLEAN

\* Whatever the requests do.
PaidFirst ==
  bills = 0 =>
    /\ ~launched /\ built = NotBuilt
    /\ \A r \in Editors : editing[r].at # "charged"

RowsGiven(f) == IF what \in HeirKinds \cup HolderKinds THEN f.people ELSE {}
Fit(f)       == what \in HeirKinds => Hundred(f)
Billed(f, cost) ==
  \/ cost \in {Price(f), {"nothing"}}
  \/ cost \in {{"api"}, {}} /\ what \in ApiKinds
Priced(d, cost) == \E f \in Offered : OfForm(d, f) /\ Billed(f, cost)

\* One form is in the database, in all its parts.
Stored == Fit(details) /\ people = RowsGiven(details) /\ Priced(details, draft.cost)

OneAtATime ==
  \A r, o \in Editors : editing[r] # Free /\ editing[o] # Free => r = o

AllFree == \A r \in Editors : editing[r] = Free

SavingTold ==
  \A r \in Editors : editing[r].at \in Saving =>
    /\ draft.state = "CREATED" /\ bills = 0
    /\ Fit(editing[r].form) /\ Priced(editing[r].form, editing[r].price)
    /\ editing[r].at \in {"read", "deleted"} => what \in HeirKinds \cup HolderKinds
    /\ editing[r].at = "deleted" => people = {}
    /\ editing[r].at \in {"rows", "details"} => people = RowsGiven(editing[r].form)
    /\ editing[r].at = "details" => details = editing[r].form

ApiTold ==
  \A r \in Editors : editing[r].at = "edited" =>
    draft.state = "CREATED" /\ bills = 0 /\ details = editing[r].form

DraftIsStored ==
  draft.state \in Drafted =>
    \/ Stored
    \/ \E r \in Editors : editing[r].at \in Saving

Builds ==
  /\ built.people = IF what # "eostoken" THEN RowsGiven(details) ELSE {}
  /\ DOMAIN built.from \subseteq Fields
  /\ \A x \in DOMAIN built.from : built.from[x] = details[x]

PaidTold ==
  bills # 0 =>
    /\ bills = 1 /\ Stored /\ Priced(details, paid)
    /\ \/ /\ \E r \in Editors : editing[r].at = "charged" /\ editing[r].row = draft
          /\ draft.state \in Drafted /\ ~launched /\ built = NotBuilt
       \/ AllFree /\ draft.state = "WAITING_FOR_DEPLOYMENT"
    /\ built # NotBuilt => Builds

AloneTold ==
  ~mixed => OneAtATime /\ SavingTold /\ ApiTold /\ DraftIsStored /\ PaidTold

DraftTold == kind = "draft" => DraftShape /\ PaidFirst /\ AloneTold

LEMMA PriceIsCost ==
  ASSUME NEW f
  PROVE  Price(f) \in Costs
BY DEF Price, TokenPrice, SolanaPrice, ICOPrice, DropPrice, TronPrice, WillPrice,
       LostKeyPrice, LostKeyTokensPrice, TronLostkeyPrice, SwapsPrice, EOSAccountPrice,
       With, Costs, Entries

LEMMA SerializersAre ==
  ASSUME what \in DraftKinds, NEW f
  PROVE  /\ Serializer(f).rows <=> what \in HeirKinds \cup HolderKinds
         /\ Serializer(f).valid => Fit(f)
<1> USE DEF WithRows, WithoutRows
<1>1. CASE what \in HeirKinds
  BY <1>1 DEF HeirKinds, Serializer, Will, TronLostkey, LostKeyTokens, Fit
<1>2. CASE what \in HolderKinds
  BY <1>2 DEF HolderKinds, HeirKinds, Serializer, ICO, Token, TronToken, Neo, NeoICO,
              EOSToken, EOSICO, Solana, Fit
<1>3. CASE what \in PlainKinds
  BY <1>3 DEF PlainKinds, HolderKinds, HeirKinds, Serializer, Deferred, AirdropForm,
              TronDrop, Pool, EOSAccount, EOSDrop, EOSTokenSA, GameAssets, Swaps,
              Swaps2, WavesSTO, Protector, Fit
<1> QED
  BY <1>1, <1>2, <1>3 DEF DraftKinds

LEMMA ApiFormHasNoRows ==
  ASSUME NEW f \in Forms
  PROVE  /\ ApiForm(f).people = {} /\ ApiForm(f) \in Offered
         /\ OfForm(ApiForm(f), ApiForm(f))
BY FormsAreForms DEF ApiForm, Offered, OfForm, Fields

LEMMA FormIsOwn ==
  ASSUME NEW f \in Forms
  PROVE  f \in Details /\ f \in Offered /\ OfForm(f, f)
BY FormsAreForms DEF Details, Offered, OfForm

\* A form that is offered has all the fields.
LEMMA OfferedAre ==
  ASSUME NEW f \in Offered
  PROVE  /\ Fields \subseteq DOMAIN f /\ f.asks \in Drafted
         /\ f.options \subseteq Known
<1>1. CASE f \in Forms
  BY <1>1, FormsAreForms DEF Drafted, Known
<1>2. ASSUME NEW g \in Forms, f = ApiForm(g) PROVE f.options = {} /\ f.asks = "CREATED"
  BY <1>2, FormsAreForms DEF ApiForm, Fields
<1>3. ASSUME NEW g \in Forms, f = ApiForm(g) PROVE Fields \subseteq DOMAIN f
  BY <1>3, FormsAreForms DEF ApiForm
<1>4. QED
  BY <1>1, <1>2, <1>3 DEF Offered, Drafted

LEMMA DetailsAre ==
  ASSUME NEW d \in Details
  PROVE  d.asks \in Drafted /\ d.options \subseteq Known
<1>1. CASE d \in Offered
  BY <1>1, OfferedAre
<1>2. ASSUME NEW f \in Offered, NEW kept \in SUBSET Known, d = WithOptions(f, kept)
      PROVE  d.asks \in Drafted /\ d.options \subseteq Known
  BY <1>2, OfferedAre DEF Fields, WithOptions
<1>3. QED
  BY <1>1, <1>2 DEF Details

\* What an edit saves is of its form.
LEMMA SavedOver ==
  ASSUME NEW f \in Forms, NEW d \in Details
  PROVE  /\ Edited(f, d) \in Details /\ OfForm(Edited(f, d), f)
         /\ Fit(f) => Fit(Edited(f, d))
         /\ RowsGiven(Edited(f, d)) = RowsGiven(f)
<1> DEFINE kept == f.options \cup (d.options \ f.sent)
<1>1. /\ Fields \subseteq DOMAIN f /\ f.options \subseteq f.sent
      /\ f \in Offered /\ f.options \subseteq Known /\ d.options \subseteq Known
  BY FormsAreForms, FormIsOwn, OfferedAre, DetailsAre
<1>2. Edited(f, d) = [f EXCEPT !.options = kept] /\ kept \in SUBSET Known
  BY <1>1 DEF Edited
<1>3. kept \cap f.sent = f.options
  BY <1>1
<1> HIDE DEF kept
<1>4. Edited(f, d) \in Details
  <2>1. f \in Offered /\ kept \in SUBSET Known /\ Edited(f, d) = WithOptions(f, kept)
    BY <1>1, <1>2 DEF WithOptions
  <2>2. QED
    BY <2>1 DEF Details
<1>5. OfForm(Edited(f, d), f)
  <2>1. Edited(f, d).options = kept
    BY <1>1, <1>2 DEF Fields
  <2>2. \A x \in Fields \ {"options"} : Edited(f, d)[x] = f[x]
    BY <1>1, <1>2
  <2>3. QED
    BY <1>3, <2>1, <2>2 DEF OfForm
<1>6. Edited(f, d).people = f.people
  BY <1>5 DEF OfForm, Fields
<1>7. QED
  BY <1>4, <1>5, <1>6 DEF Fit, Hundred, RowsGiven

\* What compile() takes is the form that is stored.
LEMMA CompilationBuilds ==
  ASSUME what \in DraftKinds, people = RowsGiven(details)
  PROVE  /\ Compilation.people = IF what # "eostoken" THEN RowsGiven(details) ELSE {}
         /\ \A x \in DOMAIN Compilation.from : Compilation.from[x] = details[x]
         /\ DOMAIN Compilation.from \subseteq Fields
         /\ Compilation # NotBuilt
<1> USE DEF Takes, NotBuilt, RowsGiven, Fields, Sale
<1>1. CASE what \in HeirKinds
  BY <1>1 DEF HeirKinds, Compilation, WillCompile, LostKeyCompile,
              LostKeyTokensCompile, TronLostkeyCompile
<1>2. CASE what \in HolderKinds
  BY <1>2 DEF HolderKinds, HeirKinds, Compilation, ICOCompile, TokenCompile,
              TronTokenCompile, NeoCompile, NeoICOCompile, EOSTokenCreate,
              EOSICOCompile, SolanaCreate
<1>3. CASE what \in PlainKinds
  BY <1>3 DEF PlainKinds, HolderKinds, HeirKinds, Compilation, DeferredCompile,
              AirdropCompile, TronDropCompile, GameAssetsCompile, PoolCompile,
              SwapsCompile, WavesCompile, ProtectorCompile
<1> QED
  BY <1>1, <1>2, <1>3 DEF DraftKinds

(***************************************************************************)
(* A request that opens and one that goes on.                              *)
(***************************************************************************)
LEMMA OpensMoves ==
  ASSUME DraftShape, NEW r \in Editors,
         NEW held \in OpenEdits \cup OpenApi \cup OpenPays, Opens(r, held)
  PROVE  /\ editing' \in [Editors -> {Free} \cup OpenEdits \cup OpenApi \cup OpenPays]
         /\ mixed' \in BOOLEAN /\ built = NotBuilt
         /\ editing'[r] = held /\ \A o \in Editors \ {r} : editing'[o] = editing[o]
         /\ ~mixed' => /\ ~mixed /\ AllFree /\ OneAtATime'
                       /\ \A o \in Editors \ {r} : editing'[o] = Free
BY DEF Opens, DraftShape, AllFree, OneAtATime

LEMMA GoesMoves ==
  ASSUME DraftShape, NEW r \in Editors, NEW from, NEW to, from # "free",
         Goes(r, from, to)
  PROVE  /\ editing[r].at = from /\ editing[r] # Free
         /\ editing' = [editing EXCEPT ![r] = editing'[r]]
         /\ editing'[r] = IF to = "free" THEN Free ELSE [editing[r] EXCEPT !.at = to]
         /\ ~mixed /\ OneAtATime => /\ \A o \in Editors \ {r} : editing[o] = Free
                                    /\ \A o \in Editors \ {r} : editing'[o] = Free
                                    /\ OneAtATime'
<1>1. /\ editing[r].at = from /\ editing[r] # Free
      /\ editing' = [editing EXCEPT ![r] = IF to = "free" THEN Free
                                           ELSE [editing[r] EXCEPT !.at = to]]
  BY DEF Goes, Free
<1>2. editing \in [Editors -> {Free} \cup OpenEdits \cup OpenApi \cup OpenPays]
  BY DEF DraftShape
<1> QED
  BY <1>1, <1>2 DEF OneAtATime

DraftKept == DraftShape /\ PaidFirst /\ AloneTold

LEMMA KindIsFixed ==
  ASSUME what' = what
  PROVE  \A f : /\ Price(f)' = Price(f)
                /\ Fit(f)' = Fit(f)
                /\ RowsGiven(f)' = RowsGiven(f)
                /\ \A cost : Priced(f, cost)' = Priced(f, cost)
<1>1. \A f : Price(f)' = Price(f) /\ Fit(f)' = Fit(f) /\ RowsGiven(f)' = RowsGiven(f)
  BY DEF Price, TokenPrice, SolanaPrice, ICOPrice, DropPrice, TronPrice, Fit, RowsGiven
<1>2. \A f, cost : Billed(f, cost)' = Billed(f, cost)
  BY <1>1 DEF Billed
<1>3. \A f, cost : Priced(f, cost)' = Priced(f, cost)
  BY <1>2 DEF Priced
<1>4. QED
  BY <1>1, <1>3

(***************************************************************************)
(* What no request takes part in.                                          *)
(***************************************************************************)
LEMMA CreateKeeps ==
  ASSUME DraftKept, NEW f \in Forms, Create(f)
  PROVE  DraftKept'
<1>1. /\ draft.state = "none"
      /\ draft' = [state |-> f.asks, cost |-> Price(f)]
      /\ details' = f
      /\ UNCHANGED <<what, minute, editing, bills, paid, launched, built, mixed>>
  BY DEF Create
<1>2. Fit(f) /\ people' = RowsGiven(f)
  BY SerializersAre DEF Create, DraftKept, DraftShape, RowsGiven
<1>3. DraftShape' /\ PaidFirst'
  BY <1>1, PriceIsCost, FormsAreForms, FormIsOwn
     DEF DraftKept, DraftShape, PaidFirst, DraftRows, DraftStates, Drafted
<1>4. ASSUME ~mixed PROVE bills = 0
  BY <1>1, <1>4 DEF DraftKept, AloneTold, PaidTold, Drafted
<1>5. ASSUME ~mixed, NEW r \in Editors
      PROVE  editing[r].at \notin Saving /\ editing[r].at # "edited"
  BY <1>1, <1>5 DEF DraftKept, AloneTold, SavingTold, ApiTold
<1>6. Stored'
  <2>1. Priced(f, Price(f))
    BY FormIsOwn DEF Priced, Billed
  <2>2. QED
    BY <1>1, <1>2, <2>1, KindIsFixed DEF Stored
<1>7. QED
  BY <1>1, <1>3, <1>4, <1>5, <1>6
     DEF DraftKept, AloneTold, OneAtATime, SavingTold, ApiTold, DraftIsStored, PaidTold

LEMMA ClosedKeeps ==
  ASSUME DraftKept, ChangeContractState \/ Destroy \/ ShownTooLate
  PROVE  DraftKept'
<1>1. /\ draft.state \in Drafted \cup {"WAITING_ACTIVATION"}
      /\ draft' \in DraftRows /\ draft'.state \notin Drafted
      /\ mixed' = (mixed \/ \E o \in Editors : editing[o] # Free)
      /\ UNCHANGED <<what, minute, details, editing, bills, paid, launched, built>>
  BY DEF DraftKept, DraftShape, ChangeContractState, Destroy, ShownTooLate, DraftRows,
         DraftStates, Drafted, Costs
<1>2. DraftShape' /\ PaidFirst'
  BY <1>1 DEF DraftKept, DraftShape, PaidFirst
<1>3. ASSUME ~mixed' PROVE bills = 0 /\ AllFree /\ AloneTold
  <2>1. ~mixed /\ AllFree
    BY <1>1, <1>3 DEF AllFree
  <2>2. \A r \in Editors : editing[r].at # "charged"
    BY <2>1 DEF AllFree, Free
  <2>3. QED
    BY <1>1, <2>1, <2>2 DEF DraftKept, AloneTold, PaidTold, Drafted
<1>4. ASSUME ~mixed', NEW r \in Editors
      PROVE  editing[r].at \notin Saving /\ editing[r].at # "edited"
  BY <1>3, <1>4 DEF AllFree, Free, Saving
<1>5. ~mixed' => SavingTold' /\ ApiTold' /\ DraftIsStored' /\ PaidTold'
  BY <1>1, <1>3, <1>4 DEF SavingTold, ApiTold, DraftIsStored, PaidTold
<1>6. ~mixed' => OneAtATime'
  BY <1>1, <1>3 DEF AloneTold, OneAtATime, AllFree
<1>7. QED
  BY <1>2, <1>5, <1>6 DEF DraftKept, AloneTold

LEMMA ReceiverKeeps ==
  ASSUME DraftKept,
         LaunchDropped \/ Compiles \/ MinutePasses
  PROVE  DraftKept'
<1>1. /\ UNCHANGED <<what, draft, people, details, editing, bills, paid, mixed>>
      /\ minute' \in 0..LastMinute
      /\ launched' \in BOOLEAN /\ (launched' => launched)
      /\ \/ built' = built
         \/ launched /\ built' = Compilation
  <2>1. minute \in 0..LastMinute /\ launched \in BOOLEAN /\ LastMinute \in Nat
    BY DraftBoundsAreNat DEF DraftKept, DraftShape
  <2>2. CASE LaunchDropped
    BY <2>1, <2>2 DEF LaunchDropped
  <2>3. CASE Compiles
    BY <2>1, <2>3 DEF Compiles
  <2>4. CASE MinutePasses
    BY <2>1, <2>4 DEF MinutePasses
  <2>5. QED
    BY <2>2, <2>3, <2>4
<1>2. launched => bills # 0
  BY DEF DraftKept, PaidFirst
<1>3. DraftShape' /\ PaidFirst'
  BY <1>1, <1>2 DEF DraftKept, DraftShape, PaidFirst
<1>4. /\ OneAtATime' = OneAtATime /\ SavingTold' = SavingTold /\ ApiTold' = ApiTold
      /\ Stored' = Stored /\ AllFree' = AllFree
      /\ \A cost : Priced(details, cost)' = Priced(details, cost)
  BY <1>1, KindIsFixed DEF OneAtATime, SavingTold, ApiTold, Stored, AllFree
<1>5. ASSUME ~mixed, bills # 0 PROVE built' # NotBuilt => Builds'
  <2>1. what \in DraftKinds /\ people = RowsGiven(details)
    BY <1>5 DEF DraftKept, AloneTold, PaidTold, Stored, DraftShape
  <2>2. RowsGiven(details)' = RowsGiven(details)
    BY <1>1, KindIsFixed
  <2>3. CASE built' = built
    BY <1>1, <1>5, <2>2, <2>3 DEF Builds, DraftKept, AloneTold, PaidTold
  <2>4. CASE built' = Compilation
    BY <1>1, <2>1, <2>2, <2>4, CompilationBuilds DEF Builds
  <2>5. QED
    BY <1>1, <2>3, <2>4
<1>6. ASSUME launched, ~mixed PROVE AllFree /\ draft.state = "WAITING_FOR_DEPLOYMENT"
  BY <1>2, <1>6 DEF DraftKept, AloneTold, PaidTold
<1>7. PaidTold' \/ mixed
  BY <1>1, <1>4, <1>5, <1>6 DEF DraftKept, AloneTold, PaidTold
<1>8. QED
  BY <1>1, <1>3, <1>4, <1>7 DEF DraftKept, AloneTold, DraftIsStored

(***************************************************************************)
(* A request opens.                                                        *)
(***************************************************************************)
LEMMA ReadsKeeps ==
  ASSUME DraftKept, NEW r \in Editors, NEW f \in Forms, Reads(r, f)
  PROVE  DraftKept'
<1> DEFINE held == [at |-> IF Serializer(f).rows THEN "read" ELSE "rows",
                    form |-> Edited(f, details), price |-> Price(f)]
<1>1. /\ draft.state = "CREATED" /\ Opens(r, held)
      /\ UNCHANGED <<what, minute, draft, people, details, bills, paid, launched, built>>
  BY DEF Reads
<1>2. details \in Details /\ Edited(f, details) \in Details
  BY SavedOver DEF DraftKept, DraftShape
<1>3. /\ held \in OpenEdits /\ held.at # "charged"
      /\ held.form = Edited(f, details) /\ held.price = Price(f)
      /\ held.at = (IF what \in HeirKinds \cup HolderKinds THEN "read" ELSE "rows")
  BY <1>2, PriceIsCost, SerializersAre DEF OpenEdits, Saving, DraftKept, DraftShape
<1>4. Fit(held.form) /\ Priced(held.form, held.price) /\ RowsGiven(held.form) = RowsGiven(f)
  <2>1. Fit(f)
    BY SerializersAre DEF Reads, DraftKept, DraftShape
  <2>2. Priced(Edited(f, details), Price(f))
    BY <1>2, SavedOver, FormIsOwn DEF Priced, Billed
  <2>3. QED
    BY <1>2, <1>3, <2>1, <2>2, SavedOver
<1> HIDE DEF held
<1>5. /\ editing' \in [Editors -> {Free} \cup OpenEdits \cup OpenApi \cup OpenPays]
      /\ mixed' \in BOOLEAN
      /\ editing'[r] = held /\ \A o \in Editors \ {r} : editing'[o] = editing[o]
      /\ ~mixed' => /\ ~mixed /\ AllFree /\ OneAtATime'
                    /\ \A o \in Editors \ {r} : editing'[o] = Free
  BY <1>1, <1>3, OpensMoves DEF DraftKept
<1>6. DraftShape' /\ PaidFirst'
  BY <1>1, <1>3, <1>5 DEF DraftKept, DraftShape, PaidFirst
<1>7. SUFFICES ASSUME ~mixed' PROVE SavingTold' /\ ApiTold' /\ DraftIsStored' /\ PaidTold'
  BY <1>5, <1>6 DEF DraftKept, AloneTold
<1>8. bills = 0 /\ Stored
  <2>1. \A o \in Editors : editing[o].at \notin Saving \cup {"charged"}
    BY <1>5, <1>7 DEF AllFree, Free, Saving
  <2>2. QED
    BY <1>1, <1>5, <1>7, <2>1
       DEF DraftKept, AloneTold, PaidTold, DraftIsStored, Drafted
<1>9. held.at = "rows" => people = RowsGiven(held.form)
  BY <1>3, <1>8 DEF Stored, RowsGiven
<1>10. \A o \in Editors : editing'[o].at \in Saving \cup {"edited"} => o = r
  BY <1>5, <1>7 DEF Free, Saving
<1>11. SavingTold'
  BY <1>1, <1>3, <1>4, <1>5, <1>8, <1>9, <1>10, KindIsFixed DEF SavingTold, Saving
<1>12. ApiTold' /\ PaidTold' /\ DraftIsStored'
  BY <1>1, <1>3, <1>5, <1>8, <1>10 DEF ApiTold, PaidTold, DraftIsStored, Saving
<1>13. QED
  BY <1>11, <1>12

LEMMA ApiEditsKeeps ==
  ASSUME DraftKept, NEW r \in Editors, ApiEdits(r)
  PROVE  DraftKept'
<1> DEFINE held == [at |-> "edited", form |-> details]
<1>1. /\ draft.state = "CREATED" /\ Opens(r, held)
      /\ UNCHANGED <<what, minute, draft, people, details, bills, paid, launched, built>>
  BY DEF ApiEdits
<1>2. held \in OpenApi /\ held.at = "edited" /\ held.form = details
  BY DEF OpenApi, DraftKept, DraftShape
<1> HIDE DEF held
<1>3. /\ editing' \in [Editors -> {Free} \cup OpenEdits \cup OpenApi \cup OpenPays]
      /\ mixed' \in BOOLEAN
      /\ editing'[r] = held /\ \A o \in Editors \ {r} : editing'[o] = editing[o]
      /\ ~mixed' => /\ ~mixed /\ AllFree /\ OneAtATime'
                    /\ \A o \in Editors \ {r} : editing'[o] = Free
  BY <1>1, <1>2, OpensMoves DEF DraftKept
<1>4. DraftShape' /\ PaidFirst'
  BY <1>1, <1>2, <1>3 DEF DraftKept, DraftShape, PaidFirst
<1>5. SUFFICES ASSUME ~mixed' PROVE SavingTold' /\ ApiTold' /\ DraftIsStored' /\ PaidTold'
  BY <1>3, <1>4 DEF DraftKept, AloneTold
<1>6. bills = 0 /\ Stored
  <2>1. \A o \in Editors : editing[o].at \notin Saving \cup {"charged"}
    BY <1>3, <1>5 DEF AllFree, Free, Saving
  <2>2. QED
    BY <1>1, <1>3, <1>5, <2>1
       DEF DraftKept, AloneTold, PaidTold, DraftIsStored, Drafted
<1>7. \A o \in Editors : editing'[o].at \in Saving \cup {"edited"} => o = r
  BY <1>3, <1>5 DEF Free, Saving
<1>8. SavingTold' /\ ApiTold' /\ PaidTold'
  BY <1>1, <1>2, <1>3, <1>6, <1>7 DEF SavingTold, ApiTold, PaidTold, Saving
<1>9. DraftIsStored'
  BY <1>1, <1>6, KindIsFixed DEF DraftIsStored, Stored
<1>10. QED
  BY <1>8, <1>9

\* The site's deploy() and the API's, which differ in the price.
LEMMA PaysKeeps ==
  ASSUME DraftKept, NEW r \in Editors, NEW cost \in Costs,
         draft.state \in Drafted, bills < MaxBills,
         Opens(r, [at |-> "charged", row |-> draft]),
         bills' = bills + 1, paid' = cost,
         \/ cost \in {draft.cost, {"nothing"}}
         \/ cost = {"api"} /\ what \in ApiKinds,
         UNCHANGED <<what, minute, draft, people, details, launched, built>>
  PROVE  DraftKept'
<1> DEFINE held == [at |-> "charged", row |-> draft]
<1>1. held \in OpenPays /\ held.at = "charged" /\ held.row = draft
  BY DEF OpenPays, DraftKept, DraftShape
<1>2. Opens(r, held)
  OBVIOUS
<1> HIDE DEF held
<1>3. /\ editing' \in [Editors -> {Free} \cup OpenEdits \cup OpenApi \cup OpenPays]
      /\ mixed' \in BOOLEAN /\ built = NotBuilt
      /\ editing'[r] = held /\ \A o \in Editors \ {r} : editing'[o] = editing[o]
      /\ ~mixed' => /\ ~mixed /\ AllFree /\ OneAtATime'
                    /\ \A o \in Editors \ {r} : editing'[o] = Free
  BY <1>1, <1>2, OpensMoves DEF DraftKept
<1>4. bills' \in 0..MaxBills /\ bills' # 0 /\ (bills = 0 => bills' = 1)
  BY DraftBoundsAreNat DEF DraftKept, DraftShape
<1>5. DraftShape' /\ PaidFirst'
  BY <1>3, <1>4, DraftBoundsAreNat DEF DraftKept, DraftShape, PaidFirst
<1>6. SUFFICES ASSUME ~mixed' PROVE SavingTold' /\ ApiTold' /\ DraftIsStored' /\ PaidTold'
  BY <1>3, <1>5 DEF DraftKept, AloneTold
<1>7. bills = 0 /\ Stored
  <2>1. \A o \in Editors : editing[o].at \notin Saving \cup {"charged"}
    BY <1>3, <1>6 DEF AllFree, Free, Saving
  <2>2. QED
    BY <1>3, <1>6, <2>1
       DEF DraftKept, AloneTold, PaidTold, DraftIsStored, Drafted
<1>8. \A o \in Editors : editing'[o].at \notin Saving \cup {"edited"}
  BY <1>1, <1>3, <1>6 DEF Free, Saving
<1>9. Stored'
  BY <1>7, KindIsFixed DEF Stored
<1>10. Priced(details, cost)
  <2>1. PICK f \in Offered : OfForm(details, f) /\ Billed(f, draft.cost)
    BY <1>7 DEF Stored, Priced
  <2>2. Billed(f, cost)
    BY <2>1 DEF Billed
  <2>3. QED
    BY <2>1, <2>2 DEF Priced
<1>11. Priced(details, paid)'
  BY <1>10, KindIsFixed
<1>12. ~launched /\ bills' = 1
  BY <1>4, <1>7 DEF DraftKept, PaidFirst
<1>13. PaidTold'
  BY <1>1, <1>3, <1>9, <1>11, <1>12 DEF PaidTold
<1>14. QED
  BY <1>8, <1>9, <1>13 DEF SavingTold, ApiTold, DraftIsStored


(***************************************************************************)
(* A request goes on.                                                      *)
(***************************************************************************)
LEMMA SavesKeeps ==
  ASSUME DraftKept, NEW r \in Editors,
         DeletesRows(r) \/ AddsRows(r) \/ SavesDetails(r) \/ SavesContract(r)
  PROVE  DraftKept'
<1>1. PICK from \in Saving, to \in Saving \cup {"free"} :
        /\ Goes(r, from, to)
        /\ UNCHANGED <<what, minute, bills, paid, launched, built, mixed>>
        /\ \/ /\ from = "read" /\ to = "deleted" /\ people' = {}
              /\ UNCHANGED <<draft, details>>
           \/ /\ from = "deleted" /\ to = "rows"
              /\ people' = people \cup editing[r].form.people
              /\ UNCHANGED <<draft, details>>
           \/ /\ from = "rows" /\ to = "details" /\ details' = editing[r].form
              /\ UNCHANGED <<draft, people>>
           \/ /\ from = "details" /\ to = "free"
              /\ draft' = [state |-> editing[r].form.asks, cost |-> editing[r].price]
              /\ UNCHANGED <<people, details>>
  BY DEF DeletesRows, OldRowsLeft, AddsRows, SavesDetails, SavesContract, Saving
<1>2. from # "free"
  BY DEF Saving
<1>3. editing[r].at = from
  BY <1>1, <1>2, GoesMoves DEF DraftKept
<1>4. editing[r] \in OpenEdits
  BY <1>3 DEF DraftKept, DraftShape, OpenEdits, OpenApi, OpenPays, Free, Saving
<1>5. PICK f \in Details, price \in Costs : editing[r] = [at |-> from, form |-> f, price |-> price]
  BY <1>3, <1>4 DEF OpenEdits
<1> DEFINE next == editing'[r]
<1>6. /\ editing' = [editing EXCEPT ![r] = next]
      /\ next = IF to = "free" THEN Free ELSE [at |-> to, form |-> f, price |-> price]
  BY <1>1, <1>2, <1>5, GoesMoves DEF DraftKept
<1>7. next \in {Free} \cup OpenEdits /\ next.at # "charged"
  BY <1>6 DEF OpenEdits, Free, Saving
<1>8. /\ editing' \in [Editors -> {Free} \cup OpenEdits \cup OpenApi \cup OpenPays]
      /\ \A o \in Editors \ {r} : editing'[o] = editing[o]
  BY <1>6, <1>7 DEF DraftKept, DraftShape
<1>9. f.asks \in DraftStates
  BY DetailsAre DEF DraftStates
<1>10. DraftShape'
  BY <1>1, <1>5, <1>8, <1>9 DEF DraftKept, DraftShape, DraftRows
<1>11. PaidFirst'
  BY <1>1, <1>7, <1>8 DEF DraftKept, PaidFirst
<1>12. SUFFICES ASSUME ~mixed PROVE AloneTold'
  BY <1>1, <1>10, <1>11 DEF DraftKept, AloneTold
<1>13. /\ OneAtATime' /\ \A o \in Editors \ {r} : editing'[o] = Free
  BY <1>1, <1>2, <1>12, GoesMoves DEF DraftKept, AloneTold
<1>14. /\ draft.state = "CREATED" /\ bills = 0
       /\ Fit(f) /\ Priced(f, price)
       /\ from \in {"read", "deleted"} => what \in HeirKinds \cup HolderKinds
       /\ from = "deleted" => people = {}
       /\ from \in {"rows", "details"} => people = RowsGiven(f)
       /\ from = "details" => details = f
  BY <1>3, <1>5, <1>12 DEF DraftKept, AloneTold, SavingTold
<1>15. ASSUME from = "deleted" PROVE people' = RowsGiven(f)
  <2>1. people' = people \cup editing[r].form.people
    BY <1>1, <1>15
  <2>2. people = {} /\ editing[r].form = f
    BY <1>5, <1>14, <1>15
  <2>3. people' = f.people
    BY <2>1, <2>2
  <2>4. QED
    BY <1>14, <1>15, <2>3 DEF RowsGiven
<1>16. \A o \in Editors : editing'[o].at \in Saving \cup {"edited"} => o = r
  BY <1>13 DEF Free, Saving
<1>17. to # "free" => draft' = draft
  BY <1>1
<1>18. ASSUME to # "free" PROVE SavingTold'
  <2>1. next.at = to /\ next.form = f /\ next.price = price
    BY <1>6, <1>18
  <2>2. /\ to = "deleted" => people' = {} /\ what \in HeirKinds \cup HolderKinds
        /\ to \in {"rows", "details"} => people' = RowsGiven(f)
        /\ to = "details" => details' = f
        /\ to # "read"
    BY <1>1, <1>5, <1>14, <1>15
  <2> HIDE DEF next
  <2>3. QED
    BY <1>1, <1>14, <1>16, <1>17, <1>18, <2>1, <2>2, KindIsFixed DEF SavingTold, next
<1>19. ASSUME to = "free" PROVE AllFree' /\ Stored'
  <2>1. AllFree'
    BY <1>6, <1>8, <1>13, <1>19 DEF AllFree
  <2>2. from = "details"
    BY <1>1, <1>19, <1>2 DEF Saving
  <2>3. /\ people' = RowsGiven(f) /\ details' = f /\ draft'.cost = price /\ Fit(f)
        /\ Priced(f, price) /\ what' = what
    BY <1>1, <1>5, <1>14, <1>19, <2>2
  <2>4. QED
    BY <2>1, <2>3, KindIsFixed DEF Stored
<1>20. SavingTold' /\ DraftIsStored'
  <2>1. CASE to = "free"
    BY <1>19, <2>1 DEF AllFree, Free, Saving, SavingTold, DraftIsStored
  <2>2. CASE to # "free"
    BY <1>1, <1>6, <1>18, <2>2 DEF DraftIsStored
  <2>3. QED
    BY <2>1, <2>2
<1>21. ApiTold'
  BY <1>6, <1>16, <1>1 DEF ApiTold, Free, Saving
<1>22. PaidTold'
  BY <1>1, <1>14 DEF PaidTold
<1>23. QED
  BY <1>13, <1>20, <1>21, <1>22 DEF AloneTold

LEMMA BreaksOffKeeps ==
  ASSUME DraftKept, NEW r \in Editors, BreaksOff(r)
  PROVE  DraftKept'
<1>1. /\ mixed' = TRUE
      /\ UNCHANGED <<what, minute, draft, people, details, bills, paid, launched, built>>
  BY DEF BreaksOff
<1>2. editing' = [editing EXCEPT ![r] = Free]
  BY DEF BreaksOff, Goes
<1>3. editing' \in [Editors -> {Free} \cup OpenEdits \cup OpenApi \cup OpenPays]
      /\ \A o \in Editors : editing'[o] = editing[o] \/ editing'[o] = Free
  BY <1>2 DEF DraftKept, DraftShape
<1>4. QED
  BY <1>1, <1>3 DEF DraftKept, DraftShape, PaidFirst, AloneTold, Free

LEMMA MarksKeeps ==
  ASSUME DraftKept, NEW r \in Editors, Marks(r)
  PROVE  DraftKept'
<1>1. /\ Goes(r, "charged", "free")
      /\ draft' = [editing[r].row EXCEPT !.state = "WAITING_FOR_DEPLOYMENT"]
      /\ launched' = TRUE
      /\ UNCHANGED <<what, minute, people, details, bills, paid, built, mixed>>
  BY DEF Marks
<1>2. editing[r].at = "charged" /\ editing' = [editing EXCEPT ![r] = Free]
  BY <1>1 DEF Goes
<1>3. editing[r].row \in DraftRows
  BY <1>2 DEF DraftKept, DraftShape, OpenEdits, OpenApi, OpenPays, Free, Saving
<1>4. /\ editing' \in [Editors -> {Free} \cup OpenEdits \cup OpenApi \cup OpenPays]
      /\ \A o \in Editors : editing'[o] = editing[o] \/ editing'[o] = Free
  BY <1>2 DEF DraftKept, DraftShape
<1>5. draft' \in DraftRows /\ draft'.state = "WAITING_FOR_DEPLOYMENT"
      /\ draft'.cost = editing[r].row.cost
  BY <1>1, <1>3 DEF DraftRows, DraftStates
<1>6. bills # 0
  BY <1>2 DEF DraftKept, PaidFirst
<1>7. DraftShape' /\ PaidFirst'
  BY <1>1, <1>4, <1>5, <1>6 DEF DraftKept, DraftShape, PaidFirst
<1>8. SUFFICES ASSUME ~mixed PROVE AloneTold'
  BY <1>1, <1>7 DEF DraftKept, AloneTold
<1>9. AllFree' /\ \A o \in Editors : editing[o] # Free => o = r
  <2>1. editing[r] # Free
    BY <1>2 DEF Free
  <2>2. QED
    BY <1>2, <1>4, <1>8, <2>1 DEF DraftKept, DraftShape, AloneTold, OneAtATime, AllFree
<1>10. editing[r].row = draft /\ bills = 1 /\ Stored /\ Priced(details, paid)
       /\ built = NotBuilt
  <2>1. ~AllFree
    BY <1>2 DEF AllFree, Free
  <2>2. PICK o \in Editors : editing[o].at = "charged" /\ editing[o].row = draft
    BY <1>6, <1>8, <2>1 DEF DraftKept, AloneTold, PaidTold
  <2>3. o = r
    BY <1>9, <2>2 DEF Free
  <2>4. QED
    BY <1>6, <1>8, <2>1, <2>2, <2>3 DEF DraftKept, AloneTold, PaidTold
<1>11. Stored' /\ Priced(details, paid)'
  BY <1>1, <1>5, <1>10, KindIsFixed DEF Stored
<1>12. PaidTold'
  BY <1>1, <1>5, <1>9, <1>10, <1>11 DEF PaidTold
<1>13. QED
  BY <1>9, <1>11, <1>12
     DEF AloneTold, OneAtATime, AllFree, SavingTold, ApiTold, DraftIsStored, Free, Saving

LEMMA ApiSavesKeeps ==
  ASSUME DraftKept, NEW r \in Editors, ApiSaves(r)
  PROVE  DraftKept'
<1>1. /\ Goes(r, "edited", "free")
      /\ details' = editing[r].form
      /\ UNCHANGED <<what, minute, draft, people, bills, paid, launched, built, mixed>>
  BY DEF ApiSaves
<1>2. editing[r].at = "edited" /\ editing' = [editing EXCEPT ![r] = Free]
  BY <1>1 DEF Goes
<1>3. editing[r].form \in Details
  BY <1>2 DEF DraftKept, DraftShape, OpenEdits, OpenApi, OpenPays, Free, Saving
<1>4. /\ editing' \in [Editors -> {Free} \cup OpenEdits \cup OpenApi \cup OpenPays]
      /\ \A o \in Editors : editing'[o] = editing[o] \/ editing'[o] = Free
  BY <1>2 DEF DraftKept, DraftShape
<1>5. DraftShape' /\ PaidFirst'
  BY <1>1, <1>3, <1>4 DEF DraftKept, DraftShape, PaidFirst, Free
<1>6. SUFFICES ASSUME ~mixed PROVE AloneTold'
  BY <1>1, <1>5 DEF DraftKept, AloneTold
<1>7. AllFree' /\ \A o \in Editors : editing[o] # Free => o = r
  <2>1. editing[r] # Free
    BY <1>2 DEF Free
  <2>2. QED
    BY <1>2, <1>4, <1>6, <2>1 DEF DraftKept, DraftShape, AloneTold, OneAtATime, AllFree
<1>8. details' = details /\ draft.state = "CREATED" /\ bills = 0
  BY <1>1, <1>2, <1>6 DEF DraftKept, AloneTold, ApiTold
<1>9. Stored
  <2>1. \A o \in Editors : editing[o].at \notin Saving
    BY <1>2, <1>7 DEF Free, Saving
  <2>2. QED
    BY <1>6, <1>8, <2>1 DEF DraftKept, AloneTold, DraftIsStored, Drafted
<1>10. Stored'
  BY <1>1, <1>8, <1>9, KindIsFixed DEF Stored
<1>11. QED
  BY <1>1, <1>7, <1>8, <1>10
     DEF AloneTold, OneAtATime, AllFree, SavingTold, ApiTold, DraftIsStored, PaidTold,
         Free, Saving

LEMMA ApiCreatesKeeps ==
  ASSUME DraftKept, NEW f \in Forms, ApiCreates(f)
  PROVE  DraftKept'
<1>1. /\ what \in ApiKinds /\ draft.state = "none"
      /\ draft' = [state |-> "CREATED", cost |-> {}]
      /\ people' = {} /\ details' = ApiForm(f)
      /\ UNCHANGED <<what, minute, editing, bills, paid, launched, built, mixed>>
  BY DEF ApiCreates
<1>2. DraftShape' /\ PaidFirst'
  BY <1>1, ApiFormHasNoRows
     DEF DraftKept, DraftShape, PaidFirst, DraftRows, DraftStates, Drafted, Costs, Details
<1>3. ASSUME ~mixed PROVE bills = 0
  BY <1>1, <1>3 DEF DraftKept, AloneTold, PaidTold, Drafted
<1>4. ASSUME ~mixed, NEW r \in Editors
      PROVE  editing[r].at \notin Saving /\ editing[r].at # "edited"
  BY <1>1, <1>4 DEF DraftKept, AloneTold, SavingTold, ApiTold
<1>5. Fit(ApiForm(f)) /\ RowsGiven(ApiForm(f)) = {} /\ Priced(ApiForm(f), {})
  BY <1>1, ApiFormHasNoRows DEF ApiKinds, HeirKinds, Fit, RowsGiven, Priced, Billed
<1>6. Stored'
  BY <1>1, <1>5, KindIsFixed DEF Stored
<1>7. QED
  BY <1>1, <1>2, <1>3, <1>4, <1>6
     DEF DraftKept, AloneTold, OneAtATime, SavingTold, ApiTold, DraftIsStored, PaidTold

LEMMA DraftAlone ==
  ASSUME [Next]_platformVars
  PROVE  /\ kind' = kind
         /\ kind = "draft" => ApiNext \/ UNCHANGED draftVars
<1>1. CASE ScannedStep \/ InlineStep
  BY <1>1, KindStays, KindsApart DEF ScannedStep, InlineStep
<1>2. CASE DraftStep \/ PromoStep \/ BridgeStep \/ AccountStep \/ ShareStep
           \/ UNCHANGED platformVars
  BY <1>2 DEF DraftStep, PromoStep, BridgeStep, AccountStep, ShareStep, platformVars, rowVars
<1>3. QED
  BY <1>1, <1>2 DEF Next

LEMMA DraftToldInit == Init => DraftTold
<1> SUFFICES ASSUME Init, kind = "draft" PROVE DraftKept
  BY DEF DraftTold, DraftKept
<1>1. DraftInit
  BY KindsApart DEF Init, InlineInit
<1>2. details \in Details
  BY <1>1, FormsAreForms, FormIsOwn DEF DraftInit
<1>3. DraftShape
  <2>1. bills \in 0..MaxBills /\ paid \in Costs
    BY <1>1, DraftBoundsAreNat DEF DraftInit, Costs
  <2>2. draft \in DraftRows
    BY <1>1 DEF DraftInit, DraftRows, DraftStates, Costs
  <2>3. minute \in 0..LastMinute
    BY <1>1, DraftBoundsAreNat DEF DraftInit
  <2>4. editing \in [Editors -> {Free}]
    BY <1>1 DEF DraftInit
  <2>5. editing \in [Editors -> {Free} \cup OpenEdits \cup OpenApi \cup OpenPays]
    BY <2>4
  <2>6. QED
    BY <1>1, <1>2, <2>1, <2>2, <2>3, <2>5 DEF DraftInit, DraftShape
<1>4. \A r \in Editors : editing[r] = Free
  BY <1>1 DEF DraftInit
<1>5. QED
  BY <1>1, <1>3, <1>4
     DEF DraftInit, DraftKept, PaidFirst, AloneTold, OneAtATime, SavingTold, ApiTold,
         DraftIsStored, PaidTold, Free, Saving, Drafted

LEMMA DraftToldStep == DraftTold /\ [Next]_platformVars => DraftTold'
<1> SUFFICES ASSUME kind = "draft", DraftKept, [Next]_platformVars PROVE DraftKept'
  BY DraftAlone DEF DraftTold, DraftKept
<1>1. ASSUME NEW r \in Editors, Pays(r) PROVE DraftKept'
  <2>1. paid' \in {draft.cost, {"nothing"}} /\ bills' = bills + 1
    BY <1>1 DEF Pays, Charges
  <2>2. draft.cost \in Costs /\ {"nothing"} \in Costs
    BY DEF DraftKept, DraftShape, DraftRows, Costs, Entries
  <2>3. QED
    BY <1>1, <2>1, <2>2, PaysKeeps DEF Pays
<1>2. ASSUME NEW r \in Editors, ApiPays(r) PROVE DraftKept'
  <2>1. paid' \in {{"api"}, {"nothing"}} /\ bills' = bills + 1
    BY <1>2 DEF ApiPays, Charges
  <2>2. {"api"} \in Costs /\ {"nothing"} \in Costs
    BY DEF Costs, Entries
  <2>3. QED
    BY <1>2, <2>1, <2>2, PaysKeeps DEF ApiPays, Drafted
<1>3. CASE UNCHANGED draftVars
  <2>1. UNCHANGED <<what, minute, draft, people, details, editing, bills, paid, launched, built,
                    mixed>>
    BY <1>3 DEF draftVars
  <2>2. QED
    BY <2>1, KindIsFixed
       DEF DraftKept, DraftShape, PaidFirst, AloneTold, OneAtATime, SavingTold, ApiTold,
           DraftIsStored, PaidTold, Stored, AllFree, Builds
<1>4. CASE DraftNext
  BY <1>1, <1>4, CreateKeeps, ClosedKeeps, ReceiverKeeps, ReadsKeeps, SavesKeeps,
     BreaksOffKeeps, MarksKeeps DEF DraftNext
<1>5. CASE ApiNext
  BY <1>2, <1>3, <1>4, <1>5, ApiCreatesKeeps, ApiEditsKeeps, ApiSavesKeeps
     DEF ApiNext, CreateEthToken, CreateEosAccount, EditEthToken, EditEosAccount,
         DeployEthToken, DeployEosAccount, ApiHides
<1>6. QED
  BY <1>3, <1>5, DraftAlone

(***************************************************************************)
(* For any forms, requests and payments: unless requests overlapped or     *)
(* broke off, what compile() reads is one form that the customer sent,     *)
(* with the options of earlier ones that it has no value for, and what was *)
(* taken is its price or nothing (contracts/serializers.py:303, api.py).   *)
(***************************************************************************)
THEOREM BuiltFromOneDraft == Spec => []BuiltIsOneDraft
<1>1. DraftTold => BuiltIsOneDraft
  <2> SUFFICES ASSUME kind = "draft", DraftKept PROVE BuiltIsOneDraft
    BY DEF DraftTold, DraftKept, BuiltIsOneDraft
  <2>1. built # NotBuilt => bills # 0
    BY DEF DraftKept, PaidFirst
  <2>2. bills # 0 /\ ~mixed => draft.state # "destroyed"
    BY DEF DraftKept, AloneTold, PaidTold, Drafted
  <2>3. ASSUME built # NotBuilt, ~mixed PROVE BuiltIsOneDraft!2!1!2
    <3>1. /\ bills = 1 /\ Fit(details) /\ Priced(details, paid) /\ Builds
          /\ what \in DraftKinds
      BY <2>1, <2>3 DEF DraftKept, DraftShape, AloneTold, PaidTold, Stored
    <3>2. PICK f \in Offered : OfForm(details, f) /\ Billed(f, paid)
      BY <3>1 DEF Priced
    <3>3. details.people = f.people
      BY <3>2 DEF OfForm, Fields
    <3>4. built.people = IF Serializer(f).rows /\ what # "eostoken"
                           THEN f.people ELSE {}
      BY <3>1, <3>3, SerializersAre DEF Builds, RowsGiven
    <3>5. \A x \in DOMAIN built.from :
            IF x = "options" THEN built.from[x] \cap f.sent = f.options
                             ELSE built.from[x] = f[x]
      BY <3>1, <3>2 DEF Builds, OfForm
    <3>6. what \in HeirKinds => built.people = details.people
      BY <3>1 DEF Builds, RowsGiven, HeirKinds
    <3>7. what \in HeirKinds => MapThenSumSet(LAMBDA p : p.share, built.people) = 100
      BY <3>1, <3>6 DEF Fit, Hundred
    <3>8. QED
      BY <3>1, <3>2, <3>4, <3>5, <3>7 DEF Billed, Offered
  <2>4. QED
    BY <2>1, <2>2, <2>3 DEF BuiltIsOneDraft
<1>2. QED
  BY <1>1, DraftToldInit, DraftToldStep, PTL DEF Spec
-----------------------------------------------------------------------------
(***************************************************************************)
(* A promo code.  While no launches overlapped and none broke off, a row   *)
(* that a launch is about to save is the one in the database, and what was *)
(* given is counted in it, but for the one discount of the launch that is  *)
(* between its payment and its count.                                      *)
(***************************************************************************)
PromoRows == [reusable : BOOLEAN, use_count_max : Nat, use_count : Nat,
              start : Nat, stop : Nat]

HeldUses == {Vacant} \cup [at : {"paid", "api"}, who : Customers]
              \cup [at : {"used"}, row : PromoRows]

PromoShape ==
  /\ promo \in PromoRows
  /\ user2promo \in [Customers -> Nat] /\ discounts \in [Customers -> Nat]
  /\ request \in [Launchers -> HeldUses]
  /\ overlapped \in BOOLEAN
  /\ IsFiniteSet(DiscountsGiven)

OneLaunch ==
  \A r, o \in Launchers : request[r] # Vacant /\ request[o] # Vacant => r = o

Counted ==
  \/ Cardinality(DiscountsGiven) <= promo.use_count
  \/ /\ \E r \in Launchers : request[r].at \in {"paid", "used"}
     /\ Cardinality(DiscountsGiven) <= promo.use_count + 1

OncePerCustomer ==
  ~promo.reusable =>
    \A c \in Customers :
      /\ discounts[c] <= 1
      /\ \/ discounts[c] <= user2promo[c]
         \/ \E r \in Launchers : request[r].at = "paid" /\ request[r].who = c

UsesAloneTold ==
  ~overlapped =>
    /\ OneLaunch
    /\ \A r \in Launchers : request[r].at = "used" => request[r].row = promo
    /\ promo.use_count_max # NoCount =>
         Cardinality(DiscountsGiven) <= promo.use_count_max
    /\ Counted /\ OncePerCustomer

PromoKept == PromoShape /\ UsesAloneTold
PromoTold == kind = "promo" => PromoKept

LEMMA DiscountGiven ==
  ASSUME PromoShape, NEW c \in Customers,
         discounts' = [discounts EXCEPT ![c] = discounts[c] + 1]
  PROVE  /\ IsFiniteSet(DiscountsGiven')
         /\ Cardinality(DiscountsGiven') = Cardinality(DiscountsGiven) + 1
<1> DEFINE new == <<c, discounts[c] + 1>>
<1>1. discounts[c] \in Nat
  BY DEF PromoShape
<1>2. new \notin DiscountsGiven
  BY <1>1 DEF DiscountsGiven
<1>3. DiscountsGiven \cup {new} \subseteq DiscountsGiven'
  <2>1. \A d \in Customers : 1..discounts[d] \subseteq 1..discounts'[d]
    BY <1>1 DEF PromoShape
  <2>2. new \in DiscountsGiven'
    BY <1>1 DEF DiscountsGiven, PromoShape
  <2>3. QED
    BY <2>1, <2>2 DEF DiscountsGiven
<1>4. ASSUME NEW u \in DiscountsGiven' PROVE u \in DiscountsGiven \cup {new}
  <2>1. PICK d \in Customers : u \in {d} \X (1..discounts'[d])
    BY <1>4 DEF DiscountsGiven
  <2>2. PICK n \in 1..discounts'[d] : u = <<d, n>>
    BY <2>1
  <2>3. n \in 1..discounts[d] \/ (d = c /\ n = discounts[c] + 1)
    BY <1>1, <2>2 DEF PromoShape
  <2>4. QED
    BY <2>2, <2>3 DEF DiscountsGiven
<1>5. DiscountsGiven' = DiscountsGiven \cup {new}
  BY <1>3, <1>4
<1> HIDE DEF new
<1>6. QED
  BY <1>2, <1>5, FS_AddElement DEF PromoShape

\* A launch that opens finds the others closed, or is marked as overlapping.
LEMMA PromoOpensMoves ==
  ASSUME PromoKept, NEW r \in Launchers,
         NEW held \in [at : {"paid", "api"}, who : Customers], PromoOpens(r, held)
  PROVE  /\ request' \in [Launchers -> HeldUses] /\ overlapped' \in BOOLEAN
         /\ request'[r] = held
         /\ ~overlapped' => /\ ~overlapped /\ OneLaunch'
                            /\ \A o \in Launchers : request[o] = Vacant
                            /\ \A o \in Launchers \ {r} : request'[o] = Vacant
<1>1. /\ request[r] = Vacant
      /\ request' = [request EXCEPT ![r] = held]
      /\ overlapped' = (overlapped \/ \E o \in Launchers \ {r} : request[o] # Vacant)
  BY DEF PromoOpens
<1>2. request \in [Launchers -> HeldUses] /\ held \in HeldUses /\ overlapped \in BOOLEAN
  BY DEF PromoKept, PromoShape, HeldUses
<1>3. QED
  BY <1>1, <1>2 DEF OneLaunch

\* A launch that goes on alone.
LEMMA LaunchGoes ==
  ASSUME PromoKept, NEW r \in Launchers, request[r] # Vacant, NEW next \in HeldUses,
         request' = [request EXCEPT ![r] = next]
  PROVE  /\ request' \in [Launchers -> HeldUses]
         /\ request'[r] = next
         /\ ~overlapped => /\ OneLaunch'
                           /\ \A o \in Launchers \ {r} : request[o] = Vacant
                           /\ \A o \in Launchers \ {r} : request'[o] = Vacant
BY DEF PromoKept, PromoShape, UsesAloneTold, OneLaunch

LEMMA DeployPaysKeeps ==
  ASSUME PromoKept, NEW r \in Launchers, NEW c \in Customers, DeployPays(r, c)
  PROVE  PromoKept'
<1> DEFINE held == [at |-> "paid", who |-> c]
<1>1. /\ PromoOpens(r, held)
      /\ discounts' = [discounts EXCEPT ![c] = @ + check_and_apply_promocode(c)]
      /\ UNCHANGED <<promo, user2promo>>
  BY DEF DeployPays
<1>2. held \in [at : {"paid", "api"}, who : Customers] /\ held.at = "paid" /\ held.who = c
  OBVIOUS
<1>3. Vacant.at = "vacant"
  BY DEF Vacant
<1> HIDE DEF held
<1>4. /\ request' \in [Launchers -> HeldUses] /\ overlapped' \in BOOLEAN
      /\ request'[r] = held
      /\ ~overlapped' => /\ ~overlapped /\ OneLaunch'
                         /\ \A o \in Launchers : request[o] = Vacant
                         /\ \A o \in Launchers \ {r} : request'[o] = Vacant
  BY <1>1, <1>2, PromoOpensMoves
<1>5. /\ promo \in PromoRows /\ user2promo \in [Customers -> Nat]
      /\ discounts \in [Customers -> Nat]
      /\ IsFiniteSet(DiscountsGiven) /\ Cardinality(DiscountsGiven) \in Nat
  BY FS_CardinalityType DEF PromoKept, PromoShape
<1>6. ASSUME ~overlapped' PROVE OneLaunch' /\ \A o \in Launchers : request'[o].at # "used"
  BY <1>2, <1>3, <1>4, <1>6
<1>7. ASSUME ~overlapped'
      PROVE  /\ Cardinality(DiscountsGiven) <= promo.use_count
             /\ promo.use_count_max # NoCount =>
                  Cardinality(DiscountsGiven) <= promo.use_count_max
             /\ ~promo.reusable => \A d \in Customers :
                  discounts[d] <= 1 /\ discounts[d] <= user2promo[d]
  BY <1>3, <1>4, <1>7 DEF PromoKept, UsesAloneTold, Counted, OncePerCustomer
<1>8. CASE Holds(c)
  <2>1. discounts' = [discounts EXCEPT ![c] = discounts[c] + 1]
    BY <1>1, <1>8 DEF check_and_apply_promocode
  <2>2. /\ IsFiniteSet(DiscountsGiven')
        /\ Cardinality(DiscountsGiven') = Cardinality(DiscountsGiven) + 1
    BY <2>1, DiscountGiven DEF PromoKept
  <2>3. discounts' \in [Customers -> Nat]
    BY <1>5, <2>1
  <2>4. PromoShape'
    BY <1>1, <1>4, <1>5, <2>2, <2>3 DEF PromoShape
  <2>5. ASSUME ~overlapped'
        PROVE  /\ promo.use_count_max # NoCount =>
                    Cardinality(DiscountsGiven') <= promo.use_count_max
               /\ Cardinality(DiscountsGiven') <= promo.use_count + 1
    BY <1>5, <1>7, <1>8, <2>2, <2>5 DEF Holds, UsedUp, NoCount, PromoRows
  <2>6. ASSUME ~overlapped', ~promo.reusable, NEW d \in Customers
        PROVE  discounts'[d] <= 1 /\ (discounts'[d] <= user2promo[d] \/ d = c)
    <3>1. user2promo[c] = 0
      BY <1>8, <2>6 DEF Holds
    <3>2. QED
      BY <1>5, <1>7, <2>1, <2>6, <3>1
  <2>7. QED
    BY <1>1, <1>2, <1>4, <1>6, <2>4, <2>5, <2>6
       DEF PromoKept, UsesAloneTold, Counted, OncePerCustomer
<1>9. CASE ~Holds(c)
  <2>1. discounts' = discounts
    BY <1>1, <1>5, <1>9 DEF check_and_apply_promocode
  <2>2. DiscountsGiven' = DiscountsGiven
    BY <2>1 DEF DiscountsGiven
  <2>3. PromoShape'
    BY <1>1, <1>4, <1>5, <2>1, <2>2 DEF PromoShape
  <2>4. QED
    BY <1>1, <1>4, <1>6, <1>7, <2>1, <2>2, <2>3
       DEF PromoKept, UsesAloneTold, Counted, OncePerCustomer
<1>10. QED
  BY <1>8, <1>9

LEMMA ApiUsesKeeps ==
  ASSUME PromoKept, NEW r \in Launchers, NEW c \in Customers, ApiUses(r, c)
  PROVE  PromoKept'
<1> DEFINE held == [at |-> "api", who |-> c]
<1>1. PromoOpens(r, held) /\ UNCHANGED <<promo, user2promo, discounts>>
  BY DEF ApiUses
<1>2. held \in [at : {"paid", "api"}, who : Customers] /\ held.at = "api"
      /\ Vacant.at = "vacant"
  BY DEF Vacant
<1> HIDE DEF held
<1>3. /\ request' \in [Launchers -> HeldUses] /\ overlapped' \in BOOLEAN
      /\ request'[r] = held
      /\ ~overlapped' => /\ ~overlapped /\ OneLaunch'
                         /\ \A o \in Launchers : request[o] = Vacant
                         /\ \A o \in Launchers \ {r} : request'[o] = Vacant
  BY <1>1, <1>2, PromoOpensMoves
<1>4. DiscountsGiven' = DiscountsGiven
  BY <1>1 DEF DiscountsGiven
<1>5. PromoShape'
  BY <1>1, <1>3, <1>4 DEF PromoKept, PromoShape
<1>6. ASSUME ~overlapped' PROVE \A o \in Launchers : request'[o].at # "used"
  BY <1>2, <1>3, <1>6
<1>7. ASSUME ~overlapped'
      PROVE  Cardinality(DiscountsGiven) <= promo.use_count /\ OncePerCustomer'
  BY <1>1, <1>2, <1>3, <1>7 DEF PromoKept, UsesAloneTold, Counted, OncePerCustomer
<1>8. QED
  BY <1>1, <1>3, <1>4, <1>5, <1>6, <1>7 DEF PromoKept, UsesAloneTold, Counted

LEMMA SavesUseKeeps ==
  ASSUME PromoKept, NEW r \in Launchers, SavesUse(r)
  PROVE  PromoKept'
<1>1. /\ request[r].at = "paid" /\ request[r] # Vacant
      /\ user2promo' = [user2promo EXCEPT ![request[r].who] = @ + 1]
      /\ request' = [request EXCEPT ![r] = [at |-> "used", row |-> promo]]
      /\ UNCHANGED <<promo, discounts, overlapped>>
  BY DEF SavesUse, Vacant
<1>2. request[r].who \in Customers
  BY <1>1 DEF PromoKept, PromoShape, HeldUses, Vacant
<1> DEFINE next == [at |-> "used", row |-> promo]
<1>3. next \in HeldUses /\ next.at = "used" /\ next.row = promo
  BY DEF HeldUses, PromoKept, PromoShape
<1>4. request' = [request EXCEPT ![r] = next]
  BY <1>1
<1> HIDE DEF next
<1>5. /\ request' \in [Launchers -> HeldUses]
      /\ request'[r] = next
      /\ ~overlapped => /\ OneLaunch'
                        /\ \A o \in Launchers \ {r} : request[o] = Vacant
                        /\ \A o \in Launchers \ {r} : request'[o] = Vacant
  BY <1>1, <1>3, <1>4, LaunchGoes
<1>6. DiscountsGiven' = DiscountsGiven
  BY <1>1 DEF DiscountsGiven
<1>7. user2promo' \in [Customers -> Nat]
      /\ user2promo'[request[r].who] = user2promo[request[r].who] + 1
      /\ \A c \in Customers \ {request[r].who} : user2promo'[c] = user2promo[c]
  BY <1>1, <1>2 DEF PromoKept, PromoShape
<1>8. PromoShape'
  BY <1>1, <1>5, <1>6, <1>7 DEF PromoKept, PromoShape
<1>9. SUFFICES ASSUME ~overlapped PROVE UsesAloneTold'
  BY <1>1, <1>8 DEF PromoKept, UsesAloneTold
<1>10. \A o \in Launchers : request'[o].at = "used" => request'[o].row = promo
  BY <1>3, <1>5, <1>9 DEF Vacant
<1>11. Counted'
  BY <1>1, <1>3, <1>5, <1>6, <1>9 DEF PromoKept, UsesAloneTold, Counted
<1>12. OncePerCustomer'
  <2>1. SUFFICES ASSUME ~promo.reusable, NEW c \in Customers
                 PROVE  discounts[c] <= 1 /\ discounts[c] <= user2promo'[c]
    BY <1>1 DEF OncePerCustomer
  <2>2. discounts[c] \in Nat /\ user2promo[c] \in Nat
    BY DEF PromoKept, PromoShape
  <2>3. discounts[c] <= 1
    BY <1>9, <2>1 DEF PromoKept, UsesAloneTold, OncePerCustomer
  <2>4. CASE c = request[r].who
    BY <1>7, <2>2, <2>3, <2>4
  <2>5. CASE c # request[r].who
    <3>1. \A o \in Launchers : ~(request[o].at = "paid" /\ request[o].who = c)
      BY <1>5, <1>9, <2>5 DEF Vacant
    <3>2. QED
      BY <1>7, <1>9, <2>1, <2>3, <2>5, <3>1 DEF PromoKept, UsesAloneTold, OncePerCustomer
  <2>6. QED
    BY <2>4, <2>5
<1>13. QED
  BY <1>1, <1>5, <1>6, <1>9, <1>10, <1>11, <1>12 DEF PromoKept, UsesAloneTold

LEMMA CountsUseKeeps ==
  ASSUME PromoKept, NEW r \in Launchers, CountsUse(r)
  PROVE  PromoKept'
<1>1. /\ request[r].at = "used" /\ request[r] # Vacant
      /\ promo' = [request[r].row EXCEPT !.use_count = @ + 1]
      /\ request' = [request EXCEPT ![r] = Vacant]
      /\ UNCHANGED <<user2promo, discounts, overlapped>>
  BY DEF CountsUse, Vacant
<1>2. request[r].row \in PromoRows
  BY <1>1 DEF PromoKept, PromoShape, HeldUses, Vacant
<1>3. /\ promo' \in PromoRows /\ promo'.use_count = request[r].row.use_count + 1
      /\ promo'.use_count_max = request[r].row.use_count_max
      /\ promo'.reusable = request[r].row.reusable
  BY <1>1, <1>2 DEF PromoRows
<1>4. /\ request' \in [Launchers -> HeldUses]
      /\ request'[r] = Vacant
      /\ ~overlapped => /\ OneLaunch'
                        /\ \A o \in Launchers \ {r} : request[o] = Vacant
                        /\ \A o \in Launchers \ {r} : request'[o] = Vacant
  BY <1>1, LaunchGoes DEF HeldUses
<1>5. DiscountsGiven' = DiscountsGiven
  BY <1>1 DEF DiscountsGiven
<1>6. PromoShape'
  BY <1>1, <1>3, <1>4, <1>5 DEF PromoKept, PromoShape
<1>7. SUFFICES ASSUME ~overlapped PROVE UsesAloneTold'
  BY <1>1, <1>6 DEF PromoKept, UsesAloneTold
<1>8. request[r].row = promo
  BY <1>1, <1>7 DEF PromoKept, UsesAloneTold
<1>9. Cardinality(DiscountsGiven) <= promo'.use_count
  BY <1>3, <1>8, <1>7, FS_CardinalityType
     DEF PromoKept, UsesAloneTold, Counted, PromoShape, PromoRows
<1>10. \A o \in Launchers : request'[o] = Vacant
  BY <1>4, <1>7
<1>11. OncePerCustomer'
  BY <1>1, <1>3, <1>4, <1>7, <1>8 DEF PromoKept, UsesAloneTold, OncePerCustomer, Vacant
<1>12. QED
  BY <1>1, <1>3, <1>4, <1>5, <1>7, <1>8, <1>9, <1>10, <1>11
     DEF PromoKept, UsesAloneTold, Counted, Vacant

LEMMA ApiSavesUseKeeps ==
  ASSUME PromoKept, NEW r \in Launchers, ApiSavesUse(r)
  PROVE  PromoKept'
<1>1. /\ request[r].at = "api" /\ request[r] # Vacant
      /\ user2promo' = [user2promo EXCEPT ![request[r].who] = @ + 1]
      /\ request' = [request EXCEPT ![r] = Vacant]
      /\ UNCHANGED <<promo, discounts, overlapped>>
  BY DEF ApiSavesUse, Vacant
<1>2. request[r].who \in Customers
  BY <1>1 DEF PromoKept, PromoShape, HeldUses, Vacant
<1>3. /\ request' \in [Launchers -> HeldUses]
      /\ request'[r] = Vacant
      /\ ~overlapped => /\ OneLaunch'
                        /\ \A o \in Launchers \ {r} : request[o] = Vacant
                        /\ \A o \in Launchers \ {r} : request'[o] = Vacant
  BY <1>1, LaunchGoes DEF HeldUses
<1>4. DiscountsGiven' = DiscountsGiven
  BY <1>1 DEF DiscountsGiven
<1>5. user2promo' \in [Customers -> Nat]
      /\ \A c \in Customers : user2promo[c] <= user2promo'[c]
  BY <1>1, <1>2 DEF PromoKept, PromoShape
<1>6. PromoShape'
  BY <1>1, <1>3, <1>4, <1>5 DEF PromoKept, PromoShape
<1>7. SUFFICES ASSUME ~overlapped PROVE UsesAloneTold'
  BY <1>1, <1>6 DEF PromoKept, UsesAloneTold
<1>8. \A o \in Launchers : request[o].at \notin {"paid", "used"}
  BY <1>1, <1>3, <1>7 DEF Vacant
<1>9. \A o \in Launchers : request'[o] = Vacant
  BY <1>3, <1>7
<1>10. OncePerCustomer'
  <2>1. SUFFICES ASSUME ~promo.reusable, NEW c \in Customers
                 PROVE  discounts[c] <= 1 /\ discounts[c] <= user2promo'[c]
    BY <1>1 DEF OncePerCustomer
  <2>2. discounts[c] <= 1 /\ discounts[c] <= user2promo[c]
    BY <1>7, <1>8, <2>1 DEF PromoKept, UsesAloneTold, OncePerCustomer
  <2>3. discounts[c] \in Nat /\ user2promo[c] \in Nat /\ user2promo'[c] \in Nat
    BY <1>5 DEF PromoKept, PromoShape
  <2>4. QED
    BY <1>5, <2>2, <2>3
<1>11. QED
  BY <1>1, <1>3, <1>4, <1>7, <1>8, <1>9, <1>10
     DEF PromoKept, UsesAloneTold, Counted, Vacant

LEMMA PromoAlone ==
  ASSUME [Next]_platformVars
  PROVE  /\ kind' = kind
         /\ kind = "promo" => PromoNext \/ UNCHANGED promoVars
<1>1. kind' = kind
  BY DraftAlone
<1>2. PromoNext \/ UNCHANGED promoVars
  BY DEF Next, platformVars, ScannedStep, InlineStep, DraftStep, PromoStep,
         BridgeStep, AccountStep, ShareStep
<1>3. QED
  BY <1>1, <1>2

LEMMA PromoToldInit == Init => PromoTold
<1> SUFFICES ASSUME Init, kind = "promo" PROVE PromoKept
  BY DEF PromoTold
<1>1. PromoInit
  BY KindsApart DEF Init, InlineInit
<1>2. PICK reusable \in BOOLEAN, max \in 0..MaxUses : CreatePromocode(reusable, max)
  BY <1>1 DEF PromoInit
<1>3. promo \in PromoRows /\ promo.use_count = 0
  BY <1>2, PromoBoundsAreNat DEF CreatePromocode, PromoRows
<1>4. discounts = [c \in Customers |-> 0] /\ user2promo = [c \in Customers |-> 0]
      /\ request = [r \in Launchers |-> Vacant] /\ overlapped = FALSE
  BY <1>1 DEF PromoInit
<1>5. DiscountsGiven = {}
  BY <1>4 DEF DiscountsGiven
<1>6. IsFiniteSet(DiscountsGiven) /\ Cardinality(DiscountsGiven) = 0
  BY <1>5, FS_EmptySet
<1>7. PromoShape
  BY <1>3, <1>4, <1>6 DEF PromoShape, HeldUses
<1>8. QED
  BY <1>3, <1>4, <1>6, <1>7
     DEF PromoKept, UsesAloneTold, OneLaunch, Counted, OncePerCustomer, Vacant, PromoRows

LEMMA PromoToldStep == PromoTold /\ [Next]_platformVars => PromoTold'
<1> SUFFICES ASSUME kind = "promo", PromoKept, [Next]_platformVars PROVE PromoKept'
  BY PromoAlone DEF PromoTold
<1>1. ASSUME NEW r \in Launchers, LaunchBreaksOff(r) PROVE PromoKept'
  <2>1. /\ request' = [request EXCEPT ![r] = Vacant] /\ overlapped' = TRUE
        /\ UNCHANGED <<promo, user2promo, discounts>>
    BY <1>1 DEF LaunchBreaksOff
  <2>2. DiscountsGiven' = DiscountsGiven /\ request' \in [Launchers -> HeldUses]
    BY <2>1 DEF DiscountsGiven, PromoKept, PromoShape, HeldUses
  <2>3. QED
    BY <2>1, <2>2 DEF PromoKept, PromoShape, UsesAloneTold
<1>2. CASE UNCHANGED <<promo, user2promo, discounts, request, overlapped>>
  <2>1. DiscountsGiven' = DiscountsGiven
    BY <1>2 DEF DiscountsGiven
  <2>2. QED
    BY <1>2, <2>1
       DEF PromoKept, PromoShape, UsesAloneTold, OneLaunch, Counted, OncePerCustomer
<1>3. CASE PromoNext
  BY <1>1, <1>2, <1>3, DeployPaysKeeps, ApiUsesKeeps, SavesUseKeeps, CountsUseKeeps,
     ApiSavesUseKeeps DEF PromoNext, DayPasses
<1>4. QED
  BY <1>2, <1>3, PromoAlone DEF promoVars

(***************************************************************************)
(* For any customers and any number of uses: launches that do not overlap  *)
(* keep to the limit of a promo code, and to one discount a customer where *)
(* it is not reusable (promo/api.py:17).                                   *)
(***************************************************************************)
THEOREM LimitAlwaysHolds == Spec => []LimitHoldsAlone
<1>1. PromoTold => LimitHoldsAlone
  BY DEF PromoTold, PromoKept, UsesAloneTold, OncePerCustomer, LimitHoldsAlone
<1>2. QED
  BY <1>1, PromoToldInit, PromoToldStep, PTL DEF Spec
-----------------------------------------------------------------------------
(***************************************************************************)
(* The types.  The row of a contract and its queue first: the steps of the *)
(* chains have the shapes that keep the bound of the queue.                *)
(***************************************************************************)
LEMMA PushesSends ==
  ASSUME kind \in ScannedKinds, NEW part \in Whole(kind), NEW thing, Pushes(part, thing)
  PROVE  MaySend /\ UNCHANGED onChain
<1>1. part \in Calls
  BY PartsOrdered DEF PartNames, Calls
<1> QED
  BY <1>1 DEF Pushes, Send, MaySend

LEMMA FirstPartIs == kind \in ScannedKinds => Parts(kind)[1] \in Whole(kind)
  BY PartsOrdered

LEMMA SecondPartIs ==
  /\ kind \in {"eosico", "eostokensa"} => "code" \in Whole(kind) /\ kind \in ScannedKinds
  /\ kind = "neoico" => "init" \in Whole(kind) /\ kind \in ScannedKinds
  BY PartsAre DEF ScannedKinds, EosKinds

LEMMA EndsTold ==
  ASSUME Ends \/ Dies
  PROVE  (Ack \/ LeaveUnacked \/ Acknowledge) /\ Spends
  BY DEF Ends, Dies, Acknowledge, DeliveredAgain, Spends

LEMMA ScannedLaunchRow ==
  ASSUME kind \in ScannedKinds, ScannedLaunch
  PROVE  HandlerTold
<1> USE LocksAre DEF HandlerTold, Locks, Hashes, Receiving, network
<1>1. ASSUME NEW k, Launches(k) \/ LaunchesOnly(k)
      PROVE  HandlerTold
  <2>1. /\ kind = k /\ Pushes(Parts(k)[1], Target) /\ txHash' = Len(chain')
        /\ Receiving("launch") /\ lockedBy' = Blocking(lockedBy, This) /\ Ends
        /\ UNCHANGED <<kind, now>>
    BY <1>1 DEF Launches, LaunchesOnly, Launching
  <2> QED
    BY <2>1, EndsTold, PushesSends, FirstPartIs
<1>2. CASE ScannedPostponed
  BY <1>2 DEF ScannedPostponed, LaunchPostponed, MaySend, Spends
<1>3. CASE ScannedLaunchRaises
  <2>1. MaySend /\ UNCHANGED onChain
    BY <1>3, PushesSends, FirstPartIs
    DEF ScannedLaunchRaises, SendsNothing, CleosKilled, MaySend
  <2> QED
    BY <1>3, <2>1
    DEF ScannedLaunchRaises, Launching, LeaveUnacked, Spends, Postpone
<1>4. CASE ScannedLaunchDies
  BY <1>4, EndsTold, PushesSends, FirstPartIs DEF ScannedLaunchDies, Launching
<1>5. CASE LaunchRefused
  BY <1>5
  DEF LaunchRefused, Launching, NodeRefuses, Postpone, LeaveUnacked, Spends, MaySend
<1> QED
  BY <1>1, <1>2, <1>3, <1>4, <1>5 DEF ScannedLaunch

LEMMA ScannedSecondRow ==
  ASSUME ScannedSecond
  PROVE  HandlerTold
<1> USE LocksAre DEF HandlerTold, Locks, Hashes, Receiving, network
<1>1. CASE NewAccount
  BY <1>1, EndsTold, PushesSends, SecondPartIs DEF NewAccount, Going
<1>2. CASE NeoDeployed
  BY <1>2, EndsTold, PushesSends, SecondPartIs DEF NeoDeployed, Going
<1>3. CASE SecondDies
  BY <1>3, EndsTold, PushesSends, SecondPartIs DEF SecondDies, Going
<1>4. CASE SecondRefused
  BY <1>4 DEF SecondRefused, NodeRefuses, Postpone, LeaveUnacked, Spends, MaySend
<1>5. CASE NothingToDo
  BY <1>5 DEF NothingToDo, Spends, MaySend
<1> QED
  BY <1>1, <1>2, <1>3, <1>4, <1>5 DEF ScannedSecond

LEMMA ScannedEndRow ==
  ASSUME ScannedEnd
  PROVE  HandlerTold
<1> USE LocksAre DEF HandlerTold, Locks, Hashes, Receiving, network, MaySend
<1>1. ASSUME NEW type, MsgDeployed(type)
      PROVE  HandlerTold
  BY <1>1, EndsTold DEF MsgDeployed
<1>2. CASE EOSAirdropDeployed
  BY <1>2, EndsTold DEF EOSAirdropDeployed
<1>3. ASSUME NEW k, NEW type, Initialized(k, type)
      PROVE  HandlerTold
  BY <1>3, EndsTold DEF Initialized
<1>4. CASE NeoICOInitialized
  BY <1>4, EndsTold DEF NeoICOInitialized, Spends
<1>5. ASSUME NEW k, TronDeployed(k)
      PROVE  HandlerTold
  BY <1>5, EndsTold DEF TronDeployed
<1>6. ASSUME NEW after, Finalized(after)
      PROVE  HandlerTold
  BY <1>6 DEF Finalized, Spends
<1>7. CASE TransactionFailed \/ TransactionUnknown
  BY <1>7 DEF TransactionFailed, TransactionUnknown, Postpone, Spends
<1> QED
  BY <1>1, <1>2, <1>3, <1>4, <1>5, <1>6, <1>7
  DEF ScannedEnd, EOSTokenCreated, EOSAccountCreated, EOSICOInitialized, EOSTokenSACreated

LEMMA ScannedChainRow ==
  ASSUME kind \in ScannedKinds, ScannedTold, RowTold, ScannedChain
  PROVE  RowTold'
<1>1. CASE Restart
  BY <1>1, RestartKeepsRow
<1>2. ASSUME NEW i \in DOMAIN chain, PartMined(i)
      PROVE  ScannerTold
  <2>1. PICK thing \in chain[i].with :
          /\ chain' = [chain EXCEPT ![i] = Settled]
          /\ UNCHANGED ready \/ \E m : ready' = Append(ready, m)
    BY <1>2 DEF PartMined
  <2>2. chain[i].call \in Whole(kind)
    BY DEF ScannedTold, ChainTold, SentInOrder
  <2>3. chain[i].call # "settled"
    BY <2>2, PartsOrdered DEF PartNames
  <2> QED
    BY <1>2, <2>1, <2>3 DEF PartMined, ScannerTold, Spends
<1>3. ASSUME NEW i \in DOMAIN chain, PartFails(i)
      PROVE  ScannerTold
  BY <1>3 DEF PartFails, ScannerTold, Spends
<1>4. CASE OwnerFinalizes
  <2>1. PublishTold
    BY <1>4 DEF OwnerFinalizes, PublishTold, network
  <2> QED
    BY <2>1, PublishKeepsRow
<1> QED
  BY <1>1, <1>2, <1>3, <1>4, ScannerKeepsRow DEF ScannedChain

(***************************************************************************)
(* The chains without a scanner.                                           *)
(***************************************************************************)
InlineParts == {"relayed", "asset", "script", "foreign script", "mint", "minted",
                "authority", "account", "contract", "no keys"}

\* The end of a launch on a chain without a scanner.
LEMMA InlineEndsTold ==
  ASSUME Receiving("launch"), UNCHANGED <<kind, network, now>>,
         \/ Done(TakeOff) \/ DoneTwice(TakeOff) \/ RaisesThere \/ DiesThere
  PROVE  HandlerTold
<1> USE LocksAre DEF HandlerTold, Locks, Hashes, Receiving, network, MaySend, Spends
<1>1. CASE Done(TakeOff)
  BY <1>1 DEF Done
<1>2. CASE DoneTwice(TakeOff)
  BY <1>2 DEF DoneTwice, Acknowledge, DeliveredAgain
<1>3. CASE RaisesThere
  BY <1>3 DEF RaisesThere, Postpone, LeaveUnacked
<1>4. CASE DiesThere
  BY <1>4 DEF DiesThere, Acknowledge, DeliveredAgain
<1> QED
  BY <1>1, <1>2, <1>3, <1>4

\* A request on NEAR leaves the queue alone.
LEMMA NearRowRests ==
  ASSUME RowTold, NEW r \in NearRequests,
         \/ NearAccepts(r) \/ NearNewAccount(r) \/ NearDeploys(r) \/ NearRaises(r)
         \/ NearInitialized(r) \/ NearIsCorrupted(r)
  PROVE  RestTold
<1> USE LocksAre DEF RestTold, Locks, network, MaySend, Spends, nearRest
<1>1. now \in Times
  BY DEF RowTold
<1>2. CASE NearAccepts(r) \/ NearNewAccount(r) \/ NearDeploys(r)
  BY <1>1, <1>2 DEF NearAccepts, NearNewAccount, NearDeploys
<1>3. CASE NearRaises(r)
  BY <1>1, <1>3 DEF NearRaises, Postpone
<1>4. CASE NearInitialized(r)
  BY <1>1, <1>4 DEF NearInitialized
<1>5. CASE NearIsCorrupted(r)
  BY <1>1, <1>5 DEF NearIsCorrupted, Postpone
<1> QED
  BY <1>2, <1>3, <1>4, <1>5

LEMMA InlineKeepsRow ==
  ASSUME RowTold, InlineNext
  PROVE  RowTold'
<1>1. CASE \/ NeoTokenDeploy \/ NeoTokenBreaks \/ WavesDeploy \/ WavesBreaks
           \/ SolanaDeploy \/ SolanaBreaks
  <2>1. HandlerTold
    BY <1>1, InlineEndsTold
    DEF NeoTokenDeploy, NeoTokenBreaks, WavesDeploy, WavesBreaks, SolanaDeploy,
        SolanaBreaks, Begun
  <2> QED
    BY <2>1, HandlerKeepsRow
<1>2. CASE SolanaAnew \/ InlinePostponed
  <2>1. HandlerTold
    BY <1>2, LocksAre
    DEF SolanaAnew, InlinePostponed, LaunchPostponed, Begun, HandlerTold, Locks, Hashes,
        Receiving, network, MaySend, Spends
  <2> QED
    BY <2>1, HandlerKeepsRow
<1>3. CASE Restart
  BY <1>3, RestartKeepsRow
<1> QED
  BY <1>1, <1>2, <1>3, NearRowRests, RestKeepsRow DEF InlineNext

LEMMA InlineTypesStart ==
  ASSUME InlineInit
  PROVE  InlineTypeOK
BY DEF InlineInit, InlineTypeOK, InlineKinds, None

\* What the handlers do to the row and to their thing.
InlineMoves ==
  /\ has' = has \/ \E t \in Objects : \E new \in SUBSET InlineParts :
                     has' = [has EXCEPT ![t] = new]
  /\ {rowNames', source', asset_id'} \subseteq Objects \cup {None}
  /\ again' \in BOOLEAN
  /\ future_minting' = future_minting
  /\ near' = near \/ \E r \in NearRequests : \E to \in {"accepted", "account", "deployed", "over"} :
                       near' = [near EXCEPT ![r] = to]
  /\ state' \in {state, "WAITING_FOR_DEPLOYMENT", "WAITING_ACTIVATION", "POSTPONED",
                 "ACTIVE", "ENDED", "DONE"}

LEMMA InlineMovesTyped ==
  ASSUME InlineTypeOK, InlineMoves
  PROVE  InlineTypeOK'
<1>1. has' \in [Objects -> SUBSET InlineParts]
  BY DEF InlineTypeOK, InlineMoves, InlineParts
<1>2. near' \in [NearRequests -> {"idle", "accepted", "account", "deployed", "over"}]
  BY DEF InlineTypeOK, InlineMoves
<1>3. again' \in BOOLEAN /\ future_minting' \in BOOLEAN
  BY Zenon DEF InlineTypeOK, InlineMoves
<1> QED
  BY <1>1, <1>2, <1>3 DEF InlineTypeOK, InlineMoves, InlineParts

LEMMA EndsTyped ==
  /\ \A lock : Done(lock) \/ DoneTwice(lock) => again' \in {again, TRUE}
  /\ RaisesThere \/ DiesThere => again' \in {again, TRUE} /\ state' \in {state, "POSTPONED"}
  BY DEF Done, DoneTwice, RaisesThere, DiesThere, Postpone

LEMMA AgainTyped ==
  ASSUME again \in BOOLEAN, again' \in {again, TRUE}
  PROVE  again' \in BOOLEAN
  OBVIOUS

LEMMA NeoMoves ==
  ASSUME InlineTypeOK, NeoTokenDeploy \/ NeoTokenBreaks
  PROVE  InlineMoves
<1>1. {rowNames, source, asset_id} \subseteq Objects \cup {None} /\ DOMAIN has = Objects
  BY DEF InlineTypeOK
<1>2. {"relayed"} \in SUBSET InlineParts
  BY DEF InlineParts
<1>3. again' \in BOOLEAN
  BY EndsTyped, AgainTyped DEF NeoTokenDeploy, NeoTokenBreaks, InlineTypeOK
<1>4. CASE NeoTokenDeploy
  BY <1>1, <1>2, <1>3, <1>4 DEF NeoTokenDeploy, Fresh, InlineMoves, Initialised
<1>5. CASE NeoTokenBreaks
  <2>1. \/ has' = has /\ rowNames' = rowNames
        \/ 1 \in Objects /\ has' = [has EXCEPT ![1] = {"relayed"}] /\ rowNames' \in {rowNames, 1}
    <3>1. has' = [has EXCEPT ![1] = {"relayed"}] \/ has' = has
      BY <1>5 DEF NeoTokenBreaks
    <3>2. rowNames' \in IF has' # has THEN {rowNames, 1} ELSE {rowNames}
      BY <1>5 DEF NeoTokenBreaks
    <3>3. CASE 1 \notin Objects
      BY <3>1, <3>2, <3>3 DEF InlineTypeOK
    <3> QED
      BY <3>1, <3>2, <3>3
  <2>2. state' \in {state, "POSTPONED"} /\ UNCHANGED <<future_minting, source, asset_id, near>>
    BY <1>5, EndsTyped DEF NeoTokenBreaks
  <2>3. has' = has \/ \E t \in Objects : \E new \in SUBSET InlineParts :
                         has' = [has EXCEPT ![t] = new]
    BY <1>2, <2>1
  <2>4. rowNames' \in Objects \cup {None}
    BY <1>1, <2>1
  <2> QED
    BY <1>1, <1>3, <2>2, <2>3, <2>4 DEF InlineMoves
<1> QED
  BY <1>4, <1>5

LEMMA WavesMoves ==
  ASSUME InlineTypeOK, WavesDeploy \/ WavesBreaks
  PROVE  InlineMoves
<1>1. \E t \in Objects : \E far : WavesDone(t, far)
  BY DEF WavesDeploy, WavesBreaks
<1> PICK t \in Objects : \E far : WavesDone(t, far)
  BY <1>1
<1> PICK far : WavesDone(t, far)
  OBVIOUS
<1>2. {rowNames, source, asset_id} \subseteq Objects \cup {None} /\ has[t] \in SUBSET InlineParts
  BY DEF InlineTypeOK, InlineParts
<1>3. \E new \in SUBSET InlineParts : has' = [has EXCEPT ![t] = new]
  <2> DEFINE src    == IF After("compile", far) THEN Compiled(t) ELSE source
             script == IF src = t THEN "script" ELSE "foreign script"
             new    == has[t] \cup (IF After("issue", far) THEN {"asset"} ELSE {})
                              \cup (IF After("script", far) THEN {script} ELSE {})
  <2>1. script \in InlineParts /\ "asset" \in InlineParts
    BY DEF InlineParts
  <2>2. new \in SUBSET InlineParts
    BY <1>2, <2>1
  <2>3. has' = [has EXCEPT ![t] = new]
    BY DEF WavesDone
  <2> QED
    BY <2>2, <2>3
<1>4. {rowNames', source', asset_id'} \subseteq Objects \cup {None}
  BY <1>2 DEF WavesDone, Compiled
<1>5. again' \in BOOLEAN /\ state' \in {state, "ACTIVE", "POSTPONED"}
      /\ UNCHANGED <<future_minting, near>>
  <2>1. again \in BOOLEAN
    BY DEF InlineTypeOK
  <2>2. CASE WavesDeploy
    BY <2>1, <2>2, EndsTyped DEF WavesDeploy
  <2>3. CASE WavesBreaks
    BY <2>1, <2>3, EndsTyped DEF WavesBreaks
  <2> QED
    BY <2>2, <2>3
<1> QED
  BY <1>3, <1>4, <1>5 DEF InlineMoves

LEMMA SolanaMoves ==
  ASSUME InlineTypeOK, SolanaDeploy \/ SolanaBreaks \/ SolanaAnew
  PROVE  InlineMoves
<1>1. {rowNames, source, asset_id} \subseteq Objects \cup {None}
  BY DEF InlineTypeOK
<1>2. PartsOf("solana") \in SUBSET InlineParts /\ {"mint"} \in SUBSET InlineParts
      /\ \A i \in DOMAIN SolanaSteps : SolanaSteps[i] \in SUBSET InlineParts
  <2>1. PartsOf("solana") = {"mint", "minted", "authority"}
    BY DEF PartsOf
  <2>2. /\ DOMAIN SolanaSteps = 1..4 /\ SolanaSteps[1] = {} /\ SolanaSteps[2] = {"mint"}
        /\ SolanaSteps[3] = {"mint", "minted"} /\ SolanaSteps[4] = PartsOf("solana")
    BY DEF SolanaSteps
  <2>3. {"mint", "minted", "authority"} \subseteq InlineParts
    BY DEF InlineParts
  <2>4. \A i \in 1..4 : i = 1 \/ i = 2 \/ i = 3 \/ i = 4
    OBVIOUS
  <2> QED
    BY <2>1, <2>2, <2>3, <2>4
<1>3. again' \in BOOLEAN
  BY EndsTyped, AgainTyped DEF SolanaDeploy, SolanaBreaks, SolanaAnew, InlineTypeOK
<1>4. CASE SolanaDeploy
  BY <1>1, <1>2, <1>3, <1>4 DEF SolanaDeploy, InlineMoves, Initialised
<1>5. CASE SolanaBreaks
  BY <1>1, <1>2, <1>3, <1>5, EndsTyped DEF SolanaBreaks, InlineMoves
<1>6. CASE SolanaAnew
  BY <1>1, <1>2, <1>3, <1>6 DEF SolanaAnew, InlineMoves
<1> QED
  BY <1>4, <1>5, <1>6

LEMMA NearMoves ==
  ASSUME InlineTypeOK, NEW r \in NearRequests,
         \/ NearAccepts(r) \/ NearNewAccount(r) \/ NearDeploys(r) \/ NearRaises(r)
         \/ NearInitialized(r) \/ NearIsCorrupted(r)
  PROVE  InlineMoves
<1>1. /\ {rowNames, source, asset_id} \subseteq Objects \cup {None}
      /\ r \in Objects /\ has[r] \in SUBSET InlineParts /\ again \in BOOLEAN
  BY NearRequestsAreThings DEF InlineTypeOK, InlineParts, Objects
<1>2. /\ {"account"} \in SUBSET InlineParts /\ has[r] \cup {"contract"} \in SUBSET InlineParts
      /\ has[r] \cup {"no keys"} \in SUBSET InlineParts
  BY <1>1 DEF InlineParts
<1>3. again' \in BOOLEAN
  BY <1>1 DEF NearAccepts, NearNewAccount, NearDeploys, NearRaises, NearInitialized,
              NearIsCorrupted
<1>4. UNCHANGED <<future_minting, source, asset_id>>
  BY DEF NearAccepts, NearNewAccount, NearDeploys, NearRaises, NearInitialized,
         NearIsCorrupted, nearRest
<1> HIDE DEF Objects
<1>5. CASE NearAccepts(r)
  BY <1>1, <1>3, <1>4, <1>5 DEF NearAccepts, NearGoes, InlineMoves
<1>6. CASE NearNewAccount(r)
  BY <1>1, <1>2, <1>3, <1>4, <1>6 DEF NearNewAccount, NearGoes, InlineMoves
<1>7. CASE NearDeploys(r)
  BY <1>1, <1>2, <1>3, <1>4, <1>7 DEF NearDeploys, NearGoes, InlineMoves
<1>8. CASE NearRaises(r)
  BY <1>1, <1>3, <1>4, <1>8 DEF NearRaises, NearGoes, Postpone, InlineMoves
<1>9. CASE NearInitialized(r) \/ NearIsCorrupted(r)
  <2>1. has' = has \/ has' = [has EXCEPT ![r] = has[r] \cup {"no keys"}]
    BY <1>9 DEF NearInitialized, NearIsCorrupted, NearBurnsKeys
  <2> QED
    BY <1>1, <1>2, <1>3, <1>4, <1>9, <2>1
    DEF NearInitialized, NearIsCorrupted, NearGoes, Postpone, InlineMoves
<1> QED
  BY <1>5, <1>6, <1>7, <1>8, <1>9

LEMMA InlineTypesKept ==
  ASSUME InlineTypeOK, InlineNext
  PROVE  InlineTypeOK'
<1>1. CASE UNCHANGED inlineVars /\ UNCHANGED state
  BY <1>1 DEF inlineVars, InlineTypeOK
<1>2. CASE InlinePostponed \/ (Restart /\ UNCHANGED inlineVars)
  BY <1>1, <1>2 DEF InlinePostponed, LaunchPostponed, Restart
<1> QED
  BY <1>2, NeoMoves, WavesMoves, SolanaMoves, NearMoves, InlineMovesTyped DEF InlineNext

(***************************************************************************)
(* The uses of a promo code.  A launch opens only while every open one may *)
(* still add a use; so what is counted, with what the open ones may add,   *)
(* stays within the bound.                                                 *)
(***************************************************************************)
\* The launches that have yet to count their use, and those that have yet to
\* write down whose it was.
Uncounted == {r \in Launchers : request[r].at \in {"paid", "used"}}
Unwritten == {r \in Launchers : request[r].at \in {"paid", "api"}}

PromoBounded ==
  /\ today \in Days
  /\ promo.use_count_max \in 0..MaxUses
  /\ \A r \in Launchers :
       request[r].at = "used" => request[r].row.use_count_max \in 0..MaxUses
  /\ \A n \in Counts : n + Cardinality(Uncounted) <= MaxUses
  /\ \A c \in Customers : user2promo[c] + Cardinality(Unwritten) <= MaxUses
  /\ \A c \in Customers : discounts[c] <= MaxUses

LEMMA OpenLaunches ==
  /\ Cardinality(Launchers) \in Nat
  /\ IsFiniteSet(Uncounted) /\ Cardinality(Uncounted) \in Nat
  /\ Cardinality(Uncounted) <= Cardinality(Launchers)
  /\ IsFiniteSet(Unwritten) /\ Cardinality(Unwritten) \in Nat
  /\ Cardinality(Unwritten) <= Cardinality(Launchers)
<1>1. Uncounted \subseteq Launchers /\ Unwritten \subseteq Launchers
  BY DEF Uncounted, Unwritten
<1>2. QED
  BY <1>1, LaunchersAreFinite, FS_Subset, FS_CardinalityType

LEMMA OpenLaunchesNext ==
  /\ Cardinality(Uncounted') \in Nat
  /\ Cardinality(Uncounted') <= Cardinality(Launchers)
  /\ Cardinality(Unwritten') \in Nat
  /\ Cardinality(Unwritten') <= Cardinality(Launchers)
<1>1. Uncounted' \subseteq Launchers /\ Unwritten' \subseteq Launchers
  BY DEF Uncounted, Unwritten
<1>2. QED
  BY <1>1, LaunchersAreFinite, FS_Subset, FS_CardinalityType

LEMMA CountsAreNat ==
  ASSUME PromoShape
  PROVE  /\ Counts \subseteq Nat /\ promo.use_count \in Counts
         /\ \A r \in Launchers : request[r].at = "used" =>
              request[r].row.use_count \in Counts /\ request[r].row \in PromoRows
<1>1. \A r \in Launchers : request[r].at = "used" => request[r].row \in PromoRows
  BY DEF PromoShape, HeldUses, Vacant
<1>2. QED
  BY <1>1 DEF PromoShape, PromoRows, Counts

LEMMA PromoBoundedOpens ==
  ASSUME PromoShape, PromoBounded, NEW r \in Launchers,
         NEW held \in [at : {"paid", "api"}, who : Customers], PromoOpens(r, held),
         UNCHANGED <<today, promo, user2promo>>,
         discounts' = discounts \/ \E c \in Customers :
                                     discounts' = [discounts EXCEPT ![c] = discounts[c] + 1]
  PROVE  PromoBounded'
<1>1. FewUses /\ request' = [request EXCEPT ![r] = held] /\ request[r] = Vacant
  BY DEF PromoOpens
<1>2. request'[r] = held /\ \A o \in Launchers \ {r} : request'[o] = request[o]
  BY <1>1 DEF PromoShape
<1>3. \A o \in Launchers : request'[o].at = "used" =>
        request[o].at = "used" /\ request'[o] = request[o]
  BY <1>2
<1>4. Counts' \subseteq Counts
  BY <1>3 DEF Counts
<1> DEFINE few == Cardinality(Launchers)
<1>5. /\ few \in Nat
      /\ Cardinality(Uncounted') \in Nat /\ Cardinality(Uncounted') <= few
      /\ Cardinality(Unwritten') \in Nat /\ Cardinality(Unwritten') <= few
  BY OpenLaunches, OpenLaunchesNext
<1>6. /\ \A n \in Counts : n \in Nat /\ n + few < MaxUses
      /\ \A c \in Customers : user2promo[c] \in Nat /\ user2promo[c] + few < MaxUses
      /\ \A c \in Customers : discounts[c] \in Nat /\ discounts[c] + few < MaxUses
  BY <1>1, CountsAreNat DEF FewUses, PromoShape
<1> HIDE DEF few
<1>7. /\ \A n \in Counts' : n + Cardinality(Uncounted') <= MaxUses
      /\ \A c \in Customers : user2promo[c] + Cardinality(Unwritten') <= MaxUses
  BY <1>4, <1>5, <1>6, PromoBoundsAreNat
<1>8. \A c \in Customers : discounts'[c] <= MaxUses
  <2>1. \A c \in Customers : discounts'[c] \in {discounts[c], discounts[c] + 1}
    BY DEF PromoShape
  <2>2. QED
    BY <1>5, <1>6, <2>1, PromoBoundsAreNat
<1>9. QED
  BY <1>3, <1>7, <1>8 DEF PromoBounded

LEMMA PromoBoundedSaves ==
  ASSUME PromoShape, PromoBounded, NEW r \in Launchers, SavesUse(r) \/ ApiSavesUse(r)
  PROVE  PromoBounded'
<1> DEFINE next == request'[r]
<1>1. /\ request[r].at \in {"paid", "api"}
      /\ user2promo' = [user2promo EXCEPT ![request[r].who] = @ + 1]
      /\ UNCHANGED <<today, promo, discounts>>
  BY DEF SavesUse, ApiSavesUse
<1>2. \/ request[r].at = "paid" /\ request' = [request EXCEPT ![r] = [at |-> "used", row |-> promo]]
      \/ request[r].at = "api" /\ request' = [request EXCEPT ![r] = Vacant]
  BY DEF SavesUse, ApiSavesUse
<1>3. /\ \A o \in Launchers \ {r} : request'[o] = request[o]
      /\ \/ request[r].at = "paid" /\ next.at = "used" /\ next.row = promo
         \/ request[r].at = "api" /\ next.at = "vacant"
  BY <1>2 DEF PromoShape, Vacant
<1> HIDE DEF next
<1>4. Uncounted' = Uncounted /\ Unwritten' = Unwritten \ {r} /\ r \in Unwritten
  BY <1>3 DEF Uncounted, Unwritten, next
<1>5. Counts' \subseteq Counts
  BY <1>1, <1>3 DEF Counts, next
<1>6. request[r].who \in Customers
  BY <1>1 DEF PromoShape, HeldUses, Vacant
<1>7. \A c \in Customers : user2promo[c] \in Nat /\ user2promo'[c] \in Nat
                           /\ user2promo'[c] <= user2promo[c] + 1
  BY <1>1, <1>6 DEF PromoShape
<1> DEFINE many == Cardinality(Unwritten)
           less == Cardinality(Unwritten')
<1>8. many \in Nat /\ less \in Nat /\ less + 1 = many
  <2>1. Cardinality(Unwritten \ {r}) = Cardinality(Unwritten) - 1
    BY <1>4, OpenLaunches, FS_RemoveElement
  <2>2. QED
    BY <1>4, <2>1, OpenLaunches, OpenLaunchesNext
<1>9. \A c \in Customers : user2promo[c] + many <= MaxUses
  BY DEF PromoBounded
<1> HIDE DEF many, less
<1>10. \A c \in Customers : user2promo'[c] + less <= MaxUses
  BY <1>7, <1>8, <1>9, PromoBoundsAreNat
<1>11. \A o \in Launchers :
         request'[o].at = "used" => request'[o].row.use_count_max \in 0..MaxUses
  BY <1>3 DEF PromoBounded, next
<1>12. QED
  BY <1>1, <1>4, <1>5, <1>10, <1>11 DEF PromoBounded, less

LEMMA PromoBoundedCounts ==
  ASSUME PromoShape, PromoBounded, NEW r \in Launchers, CountsUse(r)
  PROVE  PromoBounded'
<1>1. /\ request[r].at = "used"
      /\ promo' = [request[r].row EXCEPT !.use_count = @ + 1]
      /\ request' = [request EXCEPT ![r] = Vacant]
      /\ UNCHANGED <<today, user2promo, discounts>>
  BY DEF CountsUse
<1> DEFINE row == request[r].row
<1>2. row \in PromoRows /\ row.use_count \in Counts /\ Counts \subseteq Nat
  BY <1>1, CountsAreNat
<1>3. row.use_count_max \in 0..MaxUses
  BY <1>1 DEF PromoBounded
<1>4. promo' = [row EXCEPT !.use_count = row.use_count + 1]
  BY <1>1
<1> HIDE DEF row
<1>5. promo'.use_count = row.use_count + 1 /\ promo'.use_count_max = row.use_count_max
  BY <1>2, <1>4 DEF PromoRows
<1>6. /\ \A o \in Launchers \ {r} : request'[o] = request[o]
      /\ request'[r].at = "vacant"
  BY <1>1 DEF PromoShape, Vacant
<1>7. Uncounted' = Uncounted \ {r} /\ r \in Uncounted /\ Unwritten' = Unwritten
  BY <1>1, <1>6 DEF Uncounted, Unwritten
<1>8. Counts' \subseteq Counts \cup {row.use_count + 1}
  BY <1>5, <1>6 DEF Counts
<1> DEFINE many == Cardinality(Uncounted)
           less == Cardinality(Uncounted')
<1>9. many \in Nat /\ less \in Nat /\ less + 1 = many
  <2>1. Cardinality(Uncounted \ {r}) = Cardinality(Uncounted) - 1
    BY <1>7, OpenLaunches, FS_RemoveElement
  <2>2. QED
    BY <1>7, <2>1, OpenLaunches, OpenLaunchesNext
<1>10. \A n \in Counts : n + many <= MaxUses
  BY DEF PromoBounded
<1> HIDE DEF many, less
<1>11. ASSUME NEW n \in Counts' PROVE n + less <= MaxUses
  <2>1. CASE n \in Counts
    BY <1>2, <1>9, <1>10, <2>1, PromoBoundsAreNat
  <2>2. CASE n = row.use_count + 1
    <3>1. row.use_count \in Nat /\ row.use_count + many <= MaxUses
      BY <1>2, <1>10
    <3>2. QED
      BY <1>9, <2>2, <3>1, PromoBoundsAreNat
  <2>3. QED
    BY <1>8, <2>1, <2>2
<1>12. \A o \in Launchers :
         request'[o].at = "used" => request'[o].row.use_count_max \in 0..MaxUses
  BY <1>6 DEF PromoBounded
<1>13. QED
  BY <1>1, <1>3, <1>5, <1>7, <1>11, <1>12 DEF PromoBounded, less

LEMMA PromoBoundedBreaksOff ==
  ASSUME PromoShape, PromoBounded, NEW r \in Launchers, LaunchBreaksOff(r)
  PROVE  PromoBounded'
<1>1. request' = [request EXCEPT ![r] = Vacant] /\ UNCHANGED <<today, promo, user2promo, discounts>>
  BY DEF LaunchBreaksOff
<1>2. /\ \A o \in Launchers \ {r} : request'[o] = request[o]
      /\ request'[r].at = "vacant"
  BY <1>1 DEF PromoShape, Vacant
<1>3. Uncounted' \subseteq Uncounted /\ Unwritten' \subseteq Unwritten /\ Counts' \subseteq Counts
  BY <1>1, <1>2 DEF Uncounted, Unwritten, Counts
<1> DEFINE many == Cardinality(Uncounted)
           less == Cardinality(Uncounted')
           old  == Cardinality(Unwritten)
           new  == Cardinality(Unwritten')
<1>4. many \in Nat /\ less \in Nat /\ less <= many /\ old \in Nat /\ new \in Nat /\ new <= old
  BY <1>3, OpenLaunches, OpenLaunchesNext, FS_Subset
<1>5. /\ \A n \in Counts : n \in Nat /\ n + many <= MaxUses
      /\ \A c \in Customers : user2promo[c] \in Nat /\ user2promo[c] + old <= MaxUses
  BY CountsAreNat DEF PromoBounded, PromoShape
<1> HIDE DEF many, less, old, new
<1>6. /\ \A n \in Counts : n + less <= MaxUses
      /\ \A c \in Customers : user2promo[c] + new <= MaxUses
  BY <1>4, <1>5, PromoBoundsAreNat
<1>7. \A o \in Launchers :
        request'[o].at = "used" => request'[o].row.use_count_max \in 0..MaxUses
  BY <1>2 DEF PromoBounded
<1>8. QED
  BY <1>1, <1>3, <1>6, <1>7 DEF PromoBounded, less, new

LEMMA PromoBoundedStays ==
  ASSUME PromoBounded, UNCHANGED <<promo, user2promo, discounts, request>>, today' \in Days
  PROVE  PromoBounded'
BY DEF PromoBounded, Uncounted, Unwritten, Counts

LEMMA PromoBoundedStep ==
  ASSUME PromoShape, PromoBounded, PromoNext
  PROVE  PromoBounded'
<1>1. ASSUME NEW r \in Launchers, NEW c \in Customers, DeployPays(r, c)
      PROVE  PromoBounded'
  <2> DEFINE held == [at |-> "paid", who |-> c]
  <2>1. held \in [at : {"paid", "api"}, who : Customers]
    OBVIOUS
  <2>2. PromoOpens(r, held) /\ UNCHANGED <<today, promo, user2promo>>
    BY <1>1 DEF DeployPays
  <2>3. \/ discounts' = [discounts EXCEPT ![c] = discounts[c] + 1]
        \/ discounts' = [discounts EXCEPT ![c] = discounts[c] + 0]
    BY <1>1 DEF DeployPays, check_and_apply_promocode
  <2>4. discounts[c] + 0 = discounts[c]
    BY DEF PromoShape
  <2>5. discounts' = discounts \/ discounts' = [discounts EXCEPT ![c] = discounts[c] + 1]
    BY <2>3, <2>4 DEF PromoShape
  <2> HIDE DEF held
  <2>6. QED
    BY <2>1, <2>2, <2>5, PromoBoundedOpens
<1>2. ASSUME NEW r \in Launchers, NEW c \in Customers, ApiUses(r, c)
      PROVE  PromoBounded'
  <2> DEFINE held == [at |-> "api", who |-> c]
  <2>1. held \in [at : {"paid", "api"}, who : Customers]
    OBVIOUS
  <2>2. PromoOpens(r, held) /\ UNCHANGED <<today, promo, user2promo, discounts>>
    BY <1>2 DEF ApiUses
  <2> HIDE DEF held
  <2>3. QED
    BY <2>1, <2>2, PromoBoundedOpens
<1>3. CASE DayPasses
  <2>1. today' \in Days
    BY <1>3, PromoBoundsAreNat DEF DayPasses, PromoBounded, Days
  <2>2. QED
    BY <1>3, <2>1, PromoBoundedStays DEF DayPasses
<1>4. QED
  BY <1>1, <1>2, <1>3, PromoBoundedSaves, PromoBoundedCounts, PromoBoundedBreaksOff
     DEF PromoNext

LEMMA PromoBoundedInit ==
  ASSUME PromoInit
  PROVE  PromoBounded
<1>1. PICK reusable \in BOOLEAN, max \in 0..MaxUses : CreatePromocode(reusable, max)
  BY DEF PromoInit
<1>2. promo.use_count = 0 /\ promo.use_count_max = max
  BY <1>1 DEF CreatePromocode
<1>3. \A r \in Launchers : request[r].at = "vacant"
  BY DEF PromoInit, Vacant
<1>4. Uncounted = {} /\ Unwritten = {} /\ Counts = {0}
  BY <1>2, <1>3 DEF Uncounted, Unwritten, Counts
<1>5. Cardinality(Uncounted) = 0 /\ Cardinality(Unwritten) = 0
  BY <1>4, FS_EmptySet
<1>6. QED
  BY <1>2, <1>3, <1>4, <1>5, PromoBoundsAreNat DEF PromoBounded, PromoInit, Days

LEMMA PromoIsTyped ==
  ASSUME PromoShape, PromoBounded
  PROVE  PromoTypeOK
<1>1. promo.use_count \in 0..MaxUses
  <2>1. /\ promo.use_count \in Nat /\ Cardinality(Uncounted) \in Nat
        /\ promo.use_count + Cardinality(Uncounted) <= MaxUses
    BY CountsAreNat, OpenLaunches DEF PromoBounded
  <2>2. QED
    BY <2>1, PromoBoundsAreNat
<1>2. \A c \in Customers : user2promo[c] \in 0..MaxUses
  <2>1. /\ Cardinality(Unwritten) \in Nat
        /\ \A c \in Customers : /\ user2promo[c] \in Nat
                                /\ user2promo[c] + Cardinality(Unwritten) <= MaxUses
    BY OpenLaunches DEF PromoBounded, PromoShape
  <2>2. QED
    BY <2>1, PromoBoundsAreNat
<1>3. \A c \in Customers : discounts[c] \in 0..MaxUses
  BY PromoBoundsAreNat DEF PromoBounded, PromoShape
<1>4. QED
  BY <1>1, <1>2, <1>3 DEF PromoTypeOK, PromoBounded, PromoShape

(***************************************************************************)
(* The parts together.                                                     *)
(***************************************************************************)
LEMMA ScannedKeepsRow ==
  ASSUME kind \in ScannedKinds, ScannedTold, RowTold, ScannedNext
  PROVE  RowTold'
  BY ScannedSteps, ScannedLaunchRow, ScannedSecondRow, ScannedEndRow, ScannedChainRow,
     HandlerKeepsRow

LEMMA RowToldInit == Init => RowTold
<1> SUFFICES ASSUME Init PROVE RowTold
  OBVIOUS
<1>1. CASE RowInit /\ kind \in ScannedKinds /\ ThingInit
  <2>1. kind # "delayedpayment"
    BY <1>1 DEF ScannedKinds, EosKinds, TronKinds
  <2>2. QED
    BY <1>1, <2>1, RowStartsTold DEF ThingInit
<1>2. CASE RowInit /\ InlineInit
  <2>1. kind # "delayedpayment"
    BY <1>2 DEF InlineInit, InlineKinds
  <2>2. QED
    BY <1>2, <2>1, RowStartsTold DEF InlineInit
<1>3. CASE RowRests
  BY <1>3, RowStartsTold DEF RowRests
<1>4. QED
  BY <1>1, <1>2, <1>3 DEF Init

LEMMA RowToldStep == ChainsTold /\ RowTold /\ [Next]_platformVars => RowTold'
<1> SUFFICES ASSUME ChainsTold, RowTold, [Next]_platformVars PROVE RowTold'
  OBVIOUS
<1>1. CASE ScannedStep
  BY <1>1, ScannedKeepsRow DEF ScannedStep, ChainsTold
<1>2. CASE InlineStep
  BY <1>2, InlineKeepsRow DEF InlineStep
<1>3. CASE UNCHANGED <<rowVars, thingVars, inlineVars>>
  <2>1. RestTold
    BY <1>3 DEF rowVars, network, RestTold, Spends, Locks, MaySend, RowTold
  <2>2. QED
    BY <2>1, RestKeepsRow
<1>4. QED
  BY <1>1, <1>2, <1>3, ChainsAlone

\* What the parts' invariants leave out.
NetworksTold ==
  outside \in {"going", "done", "cancelled"} /\ second_transactions \subseteq Seconds

PartsTyped ==
  /\ kind \in InlineKinds => InlineTypeOK
  /\ kind = "promo" => PromoBounded
  /\ NetworksTold

LEMMA PartsTypedInit == Init => PartsTyped
<1> SUFFICES ASSUME Init PROVE PartsTyped
  OBVIOUS
<1>1. kind \in InlineKinds => InlineInit
  BY KindsApart DEF Init
<1>2. kind = "promo" => PromoInit
  BY KindsApart DEF Init, InlineInit
<1>3. NetworksTold
  BY PartsStart DEF BridgeInit, NetworksTold
<1>4. QED
  BY <1>1, <1>2, <1>3, InlineTypesStart, PromoBoundedInit DEF PartsTyped

LEMMA PartsTypedStep == PromoTold /\ PartsTyped /\ [Next]_platformVars => PartsTyped'
<1> SUFFICES ASSUME PromoTold, PartsTyped, [Next]_platformVars PROVE PartsTyped'
  OBVIOUS
<1>1. kind' = kind
  BY DraftAlone
<1>2. NetworksTold'
  <2>1. CASE BridgeNext
    BY <2>1
    DEF BridgeNext, PartsTyped, NetworksTold, Adds, create_swap, CreatePanama, CreatePolygon,
        PartialUpdate, RoundReads, check_swap_status, AsksBinance, CountersChecked,
        ReceiptChecked, Answered, AsksInVain, RoundSaves, TransferEnds, SecondSucceeds
  <2>2. CASE UNCHANGED bridgeVars
    BY <2>2 DEF bridgeVars, PartsTyped, NetworksTold
  <2>3. QED
    BY <2>1, <2>2, BridgeAlone
<1>3. ASSUME kind \in InlineKinds PROVE InlineTypeOK'
  <2>1. InlineTypeOK
    BY <1>3 DEF PartsTyped
  <2>2. CASE ScannedStep
    BY <1>3, <2>2, KindsApart DEF ScannedStep
  <2>3. CASE InlineStep
    BY <2>1, <2>3, InlineTypesKept DEF InlineStep
  <2>4. CASE UNCHANGED <<rowVars, thingVars, inlineVars>>
    BY <2>1, <2>4 DEF rowVars, inlineVars, InlineTypeOK
  <2>5. QED
    BY <2>2, <2>3, <2>4, ChainsAlone
<1>4. ASSUME kind = "promo" PROVE PromoBounded'
  <2>1. PromoShape /\ PromoBounded
    BY <1>4 DEF PartsTyped, PromoTold, PromoKept
  <2>2. CASE UNCHANGED promoVars
    <3>1. UNCHANGED <<promo, user2promo, discounts, request>> /\ today' \in Days
      BY <2>1, <2>2 DEF promoVars, PromoBounded
    <3>2. QED
      BY <2>1, <3>1, PromoBoundedStays
  <2>3. QED
    BY <1>4, <2>1, <2>2, PromoAlone, PromoBoundedStep
<1>5. QED
  BY <1>1, <1>2, <1>3, <1>4 DEF PartsTyped

(***************************************************************************)
(* For any parameters: the variables of every part keep to their types,    *)
(* and the queue of a contract, the bills of a draft and the uses of a     *)
(* promo code to their bounds, so that the bounds of the model cut off     *)
(* nothing but what an actor begins (deploy/receiver.py, contracts/api.py, *)
(* promo/api.py).                                                          *)
(***************************************************************************)
THEOREM PlatformTypeCorrect == Spec => []PlatformTypeOK
<1> DEFINE Inv == /\ RowTold /\ ChainsTold /\ DraftTold /\ PromoTold /\ PartsTyped
                  /\ TransferTold /\ AccountTold /\ SharesTold
<1>1. Init => Inv
  BY RowToldInit, ChainsToldInit, DraftToldInit, PromoToldInit, PartsTypedInit, PartsStart,
     TransferToldInit, AccountToldInit, SharesToldInit
<1>2. Inv /\ [Next]_platformVars => Inv'
  <2>1. ASSUME [Next]_platformVars
        PROVE  [BridgeNext]_bridgeVars /\ [AccountNext]_accountVars /\ [ShareNext]_shareVars
    BY <2>1, BridgeAlone, AccountAlone, SharesAlone
  <2>2. QED
    BY <2>1, RowToldStep, ChainsToldStep, DraftToldStep, PromoToldStep, PartsTypedStep,
       TransferToldStep, AccountToldStep, SharesToldStep
<1>3. Inv => PlatformTypeOK
  <2> SUFFICES ASSUME Inv PROVE PlatformTypeOK
    OBVIOUS
  <2>1. RowTypeOK
    BY RowIsTyped
  <2>2. kind \in ScannedKinds => ThingTypeOK
    BY DEF ChainsTold, ScannedTold, ChainTold, MadeInOrder, Makes, ServedTold, ScannedStates,
           PartNames, ThingTypeOK
  <2>3. kind = "draft" => DraftTypeOK
    BY DEF DraftTold, DraftShape, DraftTypeOK, DraftRows, DraftStates, Free, OpenEdits,
           OpenApi, OpenPays, Saving
  <2>4. kind = "promo" => PromoTypeOK
    BY PromoIsTyped DEF PromoTold, PromoKept, PartsTyped
  <2>5. BridgeTypeOK
    <3>1. \A c \in Rounds : asking[c].at \in {"idle", "read", "answered"}
      <4>1. \A c \in Rounds : asking[c] = NotAsking \/ asking[c].at \in {"read", "answered"}
        <5>1. SUFFICES ASSUME NEW c \in Rounds, asking[c] # NotAsking
                       PROVE  asking[c].at \in {"read", "answered"}
          OBVIOUS
        <5>2. PICK at \in {"read", "answered"} :
                \/ asking[c] = [at |-> at, row |-> asking[c].row]
                \/ asking[c] = [at |-> at, row |-> asking[c].row, says |-> asking[c].says]
          BY <5>1, HeldRow
        <5>3. QED
          BY <5>2
      <4>2. NotAsking.at = "idle"
        BY DEF NotAsking
      <4>3. QED
        BY <4>1, <4>2
    <3>2. QED
      BY <3>1
         DEF PartsTyped, NetworksTold, TransferTold, Rows, BridgeTypeOK
  <2>6. AccountTypeOK
    <3>1. balances \in [Sites -> 0..2]
      <4>1. balances \in [Sites -> {0, 1}]
        BY DEF AccountTold, AccountTypes
      <4>2. {0, 1} \subseteq 0..2
        OBVIOUS
      <4>3. QED
        BY <4>1, <4>2
    <3>2. QED
      BY <3>1, StepsAre DEF AccountTold, AccountTypes, AccountTypeOK
  <2>7. QED
    BY <2>1, <2>2, <2>3, <2>4, <2>5, <2>6
       DEF PlatformTypeOK, PartsTyped, SharesTold
<1>4. QED
  BY <1>1, <1>2, <1>3, PTL DEF Spec
=============================================================================
