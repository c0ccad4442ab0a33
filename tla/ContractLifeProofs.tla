-------------------------- MODULE ContractLifeProofs --------------------------
(***************************************************************************)
(* Theorems about ContractLife: no will is forgotten by the checker, a     *)
(* token the site shows as confirmed is one the protector moves, a         *)
(* protector that is over stays so, the books of the pools and the duty of *)
(* a will agree with what was paid, and an airdrop shows no entry that was *)
(* not paid.  They rest on what can become of a message (RowProofs), the   *)
(* third on the order of the queue, and the last three on sums over it.    *)
(***************************************************************************)
EXTENDS ContractLife, RowProofs

-----------------------------------------------------------------------------
(***************************************************************************)
(* No will is forgotten.                                                   *)
(***************************************************************************)
Flags == history.unscheduled \/ history.overwritten

Unwatched == state = "ACTIVE" /\ next_check = NoTime

Triggers == \A m \in Held : m.type = "triggered" => m = Trigger

WillWatched ==
  kind \in CheckedKinds =>
    /\ Queues
    /\ Triggers
    /\ now \in Nat
    /\ {"unscheduled", "overwritten"} \subseteq DOMAIN history
    /\ Unwatched => now + Interval >= ActiveTo \/ Trigger \in Held \/ Flags

LEMMA TimesAreNat ==
  /\ Interval \in Nat /\ ActiveTo \in Nat /\ MaxTime \in Nat
  /\ NoTime = MaxTime + 1
  BY TimesAreMoments, RowBoundsAreNat DEF Times, NoTime

LEMMA ScheduledIsSomeTime ==
  ASSUME now \in Nat
  PROVE  Scheduled(now) # NoTime
  BY TimesAreNat DEF Scheduled

LEMMA HandledTriggers ==
  ASSUME Queues, Triggers, Receiving("triggered"), LeaveUnacked \/ Acknowledge
  PROVE  /\ Queues' /\ Triggers'
         /\ LeaveUnacked => Trigger \in Held'
  <1>1. Head(ready) \in Held /\ Head(ready) = Trigger /\ ready # << >>
    BY Handled DEF Receiving, Triggers
  <1> QED
    BY <1>1, Leaves, Acknowledges DEF Triggers, Handles

\* A step that makes a will ACTIVE, or takes its next check away, only with a
\* reason, and leaves its trigger alone.
LEMMA WatchKeeps ==
  ASSUME WillWatched, kind \in CheckedKinds, kind' = kind,
         NEW types, Touches(types), "triggered" \notin types,
         now' = now \/ now' = now + 1,
         DOMAIN history' = DOMAIN history, Flags => Flags',
         \/ state' # "ACTIVE"
         \/ state' = state /\ next_check' = next_check
         \/ next_check' # NoTime
         \/ now + Interval >= ActiveTo
         \/ Flags'
  PROVE  WillWatched'
  <1>1. Queues' /\ Triggers' /\ (Trigger \in Held => Trigger \in Held')
    BY DEF WillWatched, Touches, Triggers, Trigger
  <1>2. /\ now' \in Nat /\ NoTime' = NoTime
        /\ now + Interval >= ActiveTo => now' + Interval >= ActiveTo
    BY TimesAreNat DEF WillWatched, NoTime
  <1>3. {"unscheduled", "overwritten"} \subseteq DOMAIN history'
    BY DEF WillWatched
  <1>4. ASSUME Unwatched'
        PROVE  now + Interval >= ActiveTo \/ Trigger \in Held \/ Flags'
    <2>1. state' = "ACTIVE" /\ next_check' = NoTime
      BY <1>2, <1>4 DEF Unwatched
    <2>2. CASE state' = state /\ next_check' = next_check
      BY <2>1, <2>2 DEF WillWatched, Unwatched
    <2> QED
      BY <2>1, <2>2
  <1> QED
    BY <1>1, <1>2, <1>3, <1>4 DEF WillWatched

LEMMA WillDeployedKeeps ==
  ASSUME WillWatched, kind \in CheckedKinds,
         WillDeployed \/ WillDeployedCutOff \/ WillDeployedNotMailed
  PROVE  WillWatched'
  <1>1. /\ Queues /\ now \in Nat /\ Receiving("deployed")
        /\ {"unscheduled", "overwritten"} \subseteq DOMAIN history
        /\ "triggered" \notin {"deployed"}
    BY DEF WillWatched, WillDeployed, WillDeployedCutOff, WillDeployedNotMailed,
           DeployedAccepted
  <1>2. CASE WillDeployed
    <2>1. Touches({"deployed"})
      BY <1>1, <1>2, Handled DEF WillDeployed
    <2>2. next_check' # NoTime
      BY <1>1, <1>2, ScheduledIsSomeTime DEF WillDeployed, CheckedKinds
    <2>3. UNCHANGED <<kind, now, history>>
      BY <1>2 DEF WillDeployed
    <2> QED
      BY <1>1, <2>1, <2>2, <2>3, WatchKeeps DEF Flags
  <1>3. CASE WillDeployedCutOff
    <2>1. Touches({"deployed"})
      BY <1>1, <1>3, Handled DEF WillDeployedCutOff, Acknowledge
    <2>2. Flags' /\ DOMAIN history' = DOMAIN history
      BY <1>1, <1>3 DEF WillDeployedCutOff, Flags
    <2>3. UNCHANGED <<kind, now>>
      BY <1>3 DEF WillDeployedCutOff
    <2> QED
      BY <1>1, <2>1, <2>2, <2>3, WatchKeeps
  <1>4. CASE WillDeployedNotMailed
    <2>1. Touches({"deployed"})
      BY <1>1, <1>4, Handled DEF WillDeployedNotMailed
    <2>2. state' # "ACTIVE" /\ UNCHANGED <<kind, now, history>>
      BY <1>4 DEF WillDeployedNotMailed, willVars
    <2> QED
      BY <1>1, <2>1, <2>2, WatchKeeps DEF Flags
  <1> QED
    BY <1>2, <1>3, <1>4

LEMMA WillCheckedKeeps ==
  ASSUME WillWatched, kind \in CheckedKinds, WillChecked
  PROVE  WillWatched'
  <1>1. Queues /\ now \in Nat /\ "triggered" \notin {"checked"}
    BY DEF WillWatched
  <1>2. Touches({"checked"})
    BY <1>1, Handled DEF WillChecked
  <1>3. /\ UNCHANGED <<kind, now, history>>
        /\ next_check' = IF ChecksAgain THEN Scheduled(now) ELSE NoTime
    BY DEF WillChecked, LastwillChecked, LostKeyChecked, LostKeyTokensChecked,
           DelayedPaymentChecked, CheckedKinds, Rescheduled
  <1>4. next_check' # NoTime \/ now + Interval >= ActiveTo
    BY <1>1, <1>3, ScheduledIsSomeTime, TimesAreNat DEF ChecksAgain
  <1> QED
    BY <1>1, <1>2, <1>3, <1>4, WatchKeeps DEF Flags

LEMMA WillTriggeredKeeps ==
  ASSUME WillWatched, kind \in CheckedKinds, WillTriggered \/ WillTriggeredNotMailed
  PROVE  WillWatched'
  <1>1. /\ Queues' /\ Triggers'
        /\ WillTriggeredNotMailed => Trigger \in Held'
    BY HandledTriggers DEF WillWatched, WillTriggered, WillTriggeredNotMailed
  <1>2. /\ UNCHANGED <<kind, now, history>>
        /\ WillTriggered => state' # "ACTIVE"
    BY DEF WillTriggered, WillTriggeredNotMailed
  <1> QED
    BY <1>1, <1>2 DEF WillWatched, Unwatched

\* The handlers that touch neither the checks nor the state but to kill.
LEMMA WillHandledKeeps ==
  ASSUME WillWatched, kind \in CheckedKinds,
         \/ WillKilled \/ WillCheckContract \/ WillConfirmAlive \/ WillCancel
         \/ WillNotified \/ WillMakePayment
  PROVE  WillWatched'
  <1> DEFINE types == {"killed", "check_contract", "repeat_check", "confirm_alive",
                       "cancel", "notified", "make_payment"}
  <1>1. /\ Queues /\ "triggered" \notin types
        /\ \E type \in types : Receiving(type)
        /\ Acknowledge \/ LeaveUnacked
    BY DEF WillWatched, WillKilled, WillCheckContract, WillConfirmAlive, WillCancel,
           WillNotified, WillMakePayment
  <1>2. /\ UNCHANGED <<kind, now, next_check, history>>
        /\ state' # "ACTIVE" \/ state' = state
    BY DEF WillKilled, WillCheckContract, WillConfirmAlive, WillCancel, WillNotified,
           WillMakePayment, willVars, willDetails
  <1> HIDE DEF types
  <1>3. Touches(types)
    BY <1>1, Handled DEF Touches
  <1> QED
    BY <1>1, <1>2, <1>3, WatchKeeps DEF Flags

LEMMA WillCallsKeep ==
  ASSUME WillWatched, kind \in CheckedKinds,
         \/ CheckerAsks \/ PressAlive \/ PressCancel
  PROVE  WillWatched'
  <1>1. PICK m \in {Check, Confirm, Cancel} :
          ready' = Append(ready, m) /\ UNCHANGED unacked
    BY DEF CheckerAsks, PressAlive, PressCancel, Publish
  <1>2. /\ UNCHANGED <<kind, now, state, next_check, history>>
        /\ "triggered" \notin {m.type} /\ Queues
    BY DEF CheckerAsks, PressAlive, PressCancel, willVars, willDetails, Check, Confirm,
           Cancel, WillWatched
  <1>3. Touches({m.type})
    BY <1>1, <1>2, Published
  <1> QED
    BY <1>2, <1>3, WatchKeeps DEF Flags

\* The steps of the checker and of the alive view that leave the queue alone.
LEMMA WillAlonesKeep ==
  ASSUME WillWatched, kind \in CheckedKinds,
         \/ CheckerReads \/ CheckerExpires \/ CheckerPasses \/ PressSaved
         \/ Tick /\ UNCHANGED willVars
  PROVE  WillWatched'
  <1>1. UNCHANGED queue /\ kind' = kind /\ (now' = now \/ now' = now + 1)
    BY DEF CheckerReads, CheckerExpires, CheckerPasses, PressSaved, Tick, rowVars
  <1>2. Touches({})
    BY <1>1, Rested DEF WillWatched
  <1>3. /\ DOMAIN history' = DOMAIN history /\ (Flags => Flags')
        /\ \/ state' # "ACTIVE"
           \/ state' = state /\ next_check' = next_check
           \/ Flags'
    <2>1. CASE PressSaved
      <3> DEFINE stale == pressing.next_check # next_check \/ pressing.btc_duty # btc_duty
      <3>1. /\ history' = [history EXCEPT !.overwritten = @ \/ stale]
            /\ state' = state /\ next_check' = pressing.next_check
        BY <2>1 DEF PressSaved, rowVars
      <3>2. /\ DOMAIN history' = DOMAIN history
            /\ history'.unscheduled = history.unscheduled
            /\ history'.overwritten = (history.overwritten \/ stale)
        BY <3>1 DEF WillWatched
      <3> QED
        BY <3>1, <3>2 DEF Flags
    <2>2. CASE ~PressSaved
      BY <2>2 DEF CheckerReads, CheckerExpires, CheckerPasses, Tick, rowVars, willVars,
                  willDetails, Flags
    <2> QED
      BY <2>1, <2>2
  <1> QED
    BY <1>1, <1>2, <1>3, WatchKeeps

LEMMA WillMinedKeeps ==
  ASSUME WillWatched, kind \in CheckedKinds, WillMined
  PROVE  WillWatched'
  <1>1. /\ UNCHANGED <<kind, now, state, next_check, unacked>> /\ Queues
        /\ DOMAIN history' = DOMAIN history /\ (Flags => Flags')
    BY DEF WillMined, CallMined, Mined, willDetails, WillWatched, Flags
  <1>2. CASE \E m : m.type # "triggered" /\ ready' = Append(ready, m)
    <2>1. PICK m : m.type # "triggered" /\ ready' = Append(ready, m)
      BY <1>2
    <2> QED
      BY <1>1, <2>1, Published, WatchKeeps
  <1>3. CASE ready' = Append(ready, Trigger)
    <2>1. Queues' /\ Held' = Held \cup {Trigger}
      BY <1>1, <1>3, Publishes
    <2> QED
      BY <1>1, <2>1 DEF WillWatched, Triggers
  <1>4. \/ ready' = Append(ready, Trigger)
        \/ \E m : m.type # "triggered" /\ ready' = Append(ready, m)
    <2>1. /\ Checked.type # "triggered" /\ Repeat.type # "triggered"
          /\ Notified.type # "triggered" /\ Killed.type # "triggered"
          /\ \A v : Funds(v).type # "triggered"
      BY DEF Checked, Repeat, Notified, Killed, Funds
    <2> QED
      BY <2>1 DEF WillMined, CallMined, Mined
  <1> QED
    BY <1>2, <1>3, <1>4

LEMMA WillKeeps ==
  ASSUME WillWatched, kind \in CheckedKinds, WillNext
  PROVE  WillWatched'
  <1>1. CASE RowNext /\ UNCHANGED willVars
    BY <1>1, RowTouches, WatchKeeps
       DEF WillWatched, RowTypes, willVars, willDetails, Flags
  <1>2. CASE Tick /\ UNCHANGED willVars
    BY <1>2, WillAlonesKeep
  <1>3. CASE WillReceives
    <2>1. ~WillContractPayment /\ ~WillFundsAdded
      BY DEF WillContractPayment, WillFundsAdded, CheckedKinds
    <2> QED
      BY <1>3, <2>1, WillDeployedKeeps, WillCheckedKeeps, WillTriggeredKeeps,
         WillHandledKeeps DEF WillReceives
  <1>4. CASE WillChecks
    BY <1>4, WillCallsKeep, WillAlonesKeep DEF WillChecks
  <1>5. CASE PressAlive \/ PressSaved \/ PressCancel
    BY <1>5, WillCallsKeep, WillAlonesKeep
  <1>6. CASE WillMined
    BY <1>6, WillMinedKeeps
  <1>7. ~BitcoinArrives /\ ~DelayedPaymentPays
    BY DEF BitcoinArrives, DelayedPaymentPays, CheckedKinds
  <1> QED
    BY <1>1, <1>2, <1>3, <1>4, <1>5, <1>6, <1>7 DEF WillNext

LEMMA KindStays ==
  ASSUME [Next]_lifeVars
  PROVE  kind' = kind
  <1>1. RowNext => kind' = kind
    BY DEF RowNext, RowReceives, LaunchPostponed, LaunchIgnored, LaunchSends, LaunchRaises,
           DeployedIgnored, DeployedPostponed, DeployedRejected, TransactionFailed,
           TransactionUnknown, Restart, DeployMined, Mined, Reverted, Reverts
  <1>2. WillNext => kind' = kind
    BY <1>1 DEF WillNext, Tick, WillReceives, WillDeployed, WillDeployedCutOff,
           WillDeployedNotMailed, WillChecked, WillTriggered, WillTriggeredNotMailed,
           WillKilled, WillCheckContract, WillConfirmAlive, WillCancel, WillNotified,
           WillContractPayment, WillMakePayment, WillFundsAdded, WillChecks, CheckerReads,
           CheckerExpires, CheckerAsks, CheckerPasses, PressAlive, PressSaved, PressCancel,
           BitcoinArrives, WillMined, CallMined, Mined, DelayedPaymentPays, rowVars
  <1>3. ProtectorNext => kind' = kind
    BY <1>1 DEF ProtectorNext, ProtectorReceives, ProtectorDeployed, TokenProtectorApprove,
           TokenProtectorTokensToSave, TokenProtectorTransactionInfo, SelfdestructionEvent,
           ConfirmInfo, DeployProtector, SkipReads, SkipSaves, ConfirmProtectorTokens,
           ApproveFromFront, RepresentTimeIsUp, RepresentPostponed, ExecuteSends,
           ExecuteSaves, OwnerApproves, OwnerDestroys, ProtectorMined, CallMined, Mined,
           ProtectorRowNext, rowVars
  <1>4. AirdropNext => kind' = kind
    <2>1. LoadChecks \/ LoadDeletes \/ LoadCreates => kind' = kind
      BY DEF LoadChecks, LoadDeletes, LoadCreates, rowVars
    <2>2. AirdropMarks => kind' = kind
      BY DEF AirdropMarks
    <2>3. AirdropFails \/ AirdropCompletes => kind' = kind
      BY DEF AirdropFails, AirdropCompletes
    <2>4. DropCalled \/ Restart => kind' = kind
      BY DEF DropCalled, Restart
    <2>5. DropDecided => kind' = kind
      BY DEF DropDecided, Mined
    <2> QED
      BY <2>1, <2>2, <2>3, <2>4, <2>5 DEF AirdropNext
  <1>5. PoolNext => kind' = kind
    BY DEF PoolNext, PoolFundsAdded, PoolTokenSent, PoolTimesChanged, PoolFinalized,
           PoolCancelled, SwapsDeposit, SwapsRefund, SwapsExpire, Pays, PaysOut, Ends,
           ChangesTimes, Tick, rowVars
  <1> QED
    BY <1>2, <1>3, <1>4, <1>5
       DEF Next, WillStep, ProtectorStep, AirdropStep, PoolStep, lifeVars, rowVars

LEMMA WatchedInit == Init => WillWatched
  <1> SUFFICES ASSUME Init, kind \in CheckedKinds
               PROVE  WillWatched
    BY DEF WillWatched
  <1>1. WillInit /\ RowInit
    BY DEF Init, ProtectorInit, AirdropInit, PoolInit, CheckedKinds, AirdropKinds, PoolKinds
  <1> DEFINE none == << >>
             one  == <<Launch>>
  <1>2. OfSome(none) /\ Elements(none) = {} /\ OfSome(one) /\ Elements(one) = {Launch}
    BY Empty, OneOrTwo
  <1>3. ready = one /\ unacked = none /\ state = "WAITING_FOR_DEPLOYMENT" /\ now = 0
    BY <1>1 DEF WillInit, RowInit
  <1>4. {"unscheduled", "overwritten"} \subseteq DOMAIN history
    BY <1>1 DEF WillInit, NoHistory
  <1>5. Launch.type # "triggered"
    BY DEF Launch
  <1> HIDE DEF none, one
  <1>6. Queues /\ Held = {Launch}
    BY <1>2, <1>3 DEF Queues, Held, LeftBehind
  <1> QED
    BY <1>3, <1>4, <1>5, <1>6 DEF WillWatched, Triggers, Unwatched

LEMMA WatchedStep == WillWatched /\ [Next]_lifeVars => WillWatched'
  <1> SUFFICES ASSUME WillWatched, [Next]_lifeVars, kind \in CheckedKinds
               PROVE  WillWatched'
    BY KindStays DEF WillWatched
  <1>1. CASE WillStep
    BY <1>1, WillKeeps DEF WillStep
  <1>2. CASE UNCHANGED lifeVars
    BY <1>2 DEF lifeVars, rowVars, queue, willVars, willDetails, WillWatched, Queues,
                Triggers, Held, LeftBehind, Unwatched, Flags, NoTime
  <1>3. ~ProtectorStep /\ ~AirdropStep /\ ~PoolStep
    BY DEF ProtectorStep, AirdropStep, PoolStep, CheckedKinds, AirdropKinds, PoolKinds
  <1> QED
    BY <1>1, <1>2, <1>3 DEF Next

\* No ACTIVE will is forgotten by the checker: one without a next check is at
\* its end or its trigger is on its way, unless msg_deployed was cut off
\* (lastwill.py:125) or the alive view wrote an old next_check back.
THEOREM WillsRemembered == Spec => []NoWillIsForgotten
  <1>1. WillWatched => NoWillIsForgotten
    BY DEF WillWatched, NoWillIsForgotten, Unwatched, Held, LeftBehind, Elements, Undone, InQueue,
           Flags
  <1> QED
    BY <1>1, WatchedInit, WatchedStep, PTL DEF Spec, Safety
-----------------------------------------------------------------------------
(***************************************************************************)
(* Confirmed is saved.                                                     *)
(***************************************************************************)
Vouched  == saved \cup late
Saving   == \E m \in Held : m.type = TokensToSave.type

\* Every row is vouched for that is confirmed, or will be when the event in
\* the queue, or that of a transaction that is out, is handled.
TokensTold ==
  /\ With("confirmed") \subseteq Vouched
  /\ Saving => Rows \subseteq Vouched
  /\ \A i \in DOMAIN chain :
       chain[i].call = "addTokenType" => Rows \subseteq chain[i].with \cup Vouched

\* A confirmation counts as out while its event can still come.
EventsComing ==
  /\ \A m \in Held : m.type = TokensToSave.type => m = TokensToSave
  /\ \A m \in LeftBehind : m.type # TokensToSave.type

RowsTyped ==
  /\ approvedTokens \in [Tokens -> TokenRows]
  /\ \A t \in Tokens : approvedTokens[t] # NoToken => "row" \in approvedTokens[t]

ProtectorTold ==
  /\ kind # "protector" => approvedTokens = [t \in Tokens |-> NoToken]
  /\ kind = "protector" =>
       /\ Queues /\ EventsComing
       /\ OfSome(chain) /\ Len(chain) <= MaxTxs
       /\ RowsTyped
       /\ TokensTold

LEMMA OutWhenSaving ==
  ASSUME Queues, EventsComing, Len(chain) <= MaxTxs, OfSome(chain),
         \/ Saving
         \/ \E i \in DOMAIN chain : chain[i].call = "addTokenType"
  PROVE  ConfirmationOut
  <1>1. CASE Saving
    BY <1>1 DEF Saving, EventsComing, Held, LeftBehind, Elements, ConfirmationOut
  <1>2. ASSUME NEW i \in DOMAIN chain, chain[i].call = "addTokenType"
        PROVE  ConfirmationOut
    <2>1. PICK S : chain \in Seq(S)
      BY DEF OfSome
    <2>2. i \in 1..MaxTxs
      BY <2>1, RowBoundsAreNat
    <2> QED
      BY <1>2, <2>2 DEF ConfirmationOut, Pending
  <1> QED
    BY <1>1, <1>2

\* The event is told neither again nor for the first time.
LEMMA Saves ==
  ASSUME EventsComing, NEW types, Touches(types), TokensToSave.type \notin types
  PROVE  EventsComing' /\ (Saving' => Saving) /\ Queues'
  BY DEF EventsComing, Touches, Saving, TokensToSave

\* What may become of a transaction that adds tokens: it is as it was, or it
\* is sent with all that is to be confirmed.
ChainKept ==
  /\ OfSome(chain') /\ Len(chain') <= MaxTxs
  /\ \A i \in DOMAIN chain' :
       \/ i \in DOMAIN chain /\ chain'[i] = chain[i]
       \/ chain'[i].call # "addTokenType"
       \/ chain'[i].with = ToConfirm(approvedTokens')

LEMMA ChainRests ==
  ASSUME OfSome(chain), Len(chain) <= MaxTxs, UNCHANGED chain
  PROVE  ChainKept
  BY DEF ChainKept

LEMMA RowChain ==
  ASSUME OfSome(chain), Len(chain) <= MaxTxs, RowNext
  PROVE  ChainKept
  <1>1. \/ UNCHANGED chain
        \/ Send("deploy", {})
        \/ \E i \in DOMAIN chain : chain' = [chain EXCEPT ![i] = Settled]
    BY RowSends
  <1> QED
    BY <1>1, ChainRests, SendKeeps, SettleKeeps DEF ChainKept

LEMMA ConfirmationChain ==
  ASSUME OfSome(chain), Len(chain) <= MaxTxs,
         Confirmation(approvedTokens') \/ SendsNothing
  PROVE  ChainKept
  <1>1. Send("addTokenType", ToConfirm(approvedTokens')) \/ UNCHANGED chain
    BY DEF Confirmation, SendsNothing
  <1> QED
    BY <1>1, ChainRests, SendKeeps DEF ChainKept

\* A row is made or marked, and late when a confirmation is out.
LEMMA RowMade ==
  ASSUME ProtectorTold, kind = "protector", NEW t, NEW flag \in {"front", "scanner"},
         approvedTokens' = [approvedTokens EXCEPT ![t] = @ \cup {"row", flag}],
         late' = LateWith(t), saved' = saved,
         ChainKept, Saving' => Saving
  PROVE  TokensTold' /\ RowsTyped'
  <1>1. \A u \in Tokens : approvedTokens'[u] = IF u = t THEN approvedTokens[u] \cup {"row", flag}
                                                        ELSE approvedTokens[u]
    BY DEF ProtectorTold, RowsTyped
  <1>2. RowsTyped'
    BY <1>1 DEF ProtectorTold, RowsTyped, TokenRows, NoToken
  <1>3. /\ Rows \subseteq Rows' /\ Rows' \subseteq Rows \cup {t}
        /\ With("confirmed")' \subseteq With("confirmed")
    BY <1>1 DEF ProtectorTold, RowsTyped, Rows, With, NoToken
  <1>4. Vouched \subseteq Vouched'
    BY DEF Vouched, LateWith
  <1>5. ConfirmationOut => Rows' \subseteq Rows \cup Vouched'
    BY <1>3 DEF Vouched, LateWith
  <1>6. Saving \/ (\E i \in DOMAIN chain : chain[i].call = "addTokenType") => ConfirmationOut
    BY OutWhenSaving DEF ProtectorTold
  <1>7. Rows' \subseteq ToConfirm(approvedTokens') \cup With("confirmed")'
    BY DEF Rows, ToConfirm, With
  <1>8. With("confirmed")' \subseteq Vouched'
    BY <1>3, <1>4 DEF ProtectorTold, TokensTold
  <1>9. Saving' => Rows' \subseteq Vouched'
    BY <1>4, <1>5, <1>6 DEF ProtectorTold, TokensTold
  <1>10. ASSUME NEW i \in DOMAIN chain', chain'[i].call = "addTokenType"
         PROVE  Rows' \subseteq chain'[i].with \cup Vouched'
    <2>1. CASE i \in DOMAIN chain /\ chain'[i] = chain[i]
      BY <1>4, <1>5, <1>6, <1>10, <2>1 DEF ProtectorTold, TokensTold
    <2>2. CASE chain'[i].with = ToConfirm(approvedTokens')
      BY <1>7, <1>8, <2>2
    <2> QED
      BY <1>10, <2>1, <2>2 DEF ChainKept
  <1> QED
    BY <1>2, <1>8, <1>9, <1>10 DEF TokensTold

\* A row is deleted.
LEMMA RowDeleted ==
  ASSUME ProtectorTold, kind = "protector", NEW t,
         approvedTokens' = [approvedTokens EXCEPT ![t] = NoToken],
         late' = late \ {t}, saved' = saved,
         ChainKept, Saving' => Saving
  PROVE  TokensTold' /\ RowsTyped'
  <1>1. \A u \in Tokens : approvedTokens'[u] = IF u = t THEN NoToken ELSE approvedTokens[u]
    BY DEF ProtectorTold, RowsTyped
  <1>2. RowsTyped'
    BY <1>1 DEF ProtectorTold, RowsTyped, TokenRows, NoToken
  <1>3. /\ Rows' = Rows \ {t}
        /\ With("confirmed")' = With("confirmed") \ {t}
    BY <1>1 DEF Rows, With, NoToken
  <1>4. Vouched \ {t} \subseteq Vouched'
    BY DEF Vouched
  <1>5. Rows' \subseteq ToConfirm(approvedTokens') \cup With("confirmed")'
    BY DEF Rows, ToConfirm, With
  <1>6. With("confirmed")' \subseteq Vouched'
    BY <1>3, <1>4 DEF ProtectorTold, TokensTold
  <1>7. Saving' => Rows' \subseteq Vouched'
    BY <1>3, <1>4 DEF ProtectorTold, TokensTold
  <1>8. ASSUME NEW i \in DOMAIN chain', chain'[i].call = "addTokenType"
        PROVE  Rows' \subseteq chain'[i].with \cup Vouched'
    <2>1. CASE i \in DOMAIN chain /\ chain'[i] = chain[i]
      BY <1>3, <1>4, <1>8, <2>1 DEF ProtectorTold, TokensTold
    <2>2. CASE chain'[i].with = ToConfirm(approvedTokens')
      BY <1>5, <1>6, <2>2
    <2> QED
      BY <1>8, <2>1, <2>2 DEF ChainKept
  <1> QED
    BY <1>2, <1>6, <1>7, <1>8 DEF TokensTold

\* The rows rest, and no event of theirs is new.
LEMMA RowsRest ==
  ASSUME ProtectorTold, kind = "protector", UNCHANGED <<approvedTokens, late, saved>>,
         ChainKept, Saving' => Saving
  PROVE  TokensTold' /\ RowsTyped'
  <1>1. /\ Rows' = Rows /\ With("confirmed")' = With("confirmed") /\ Vouched' = Vouched
        /\ RowsTyped'
    BY DEF Rows, With, Vouched, ProtectorTold, RowsTyped
  <1>2. Rows' \subseteq ToConfirm(approvedTokens') \cup With("confirmed")'
    BY DEF Rows, ToConfirm, With
  <1>3. ASSUME NEW i \in DOMAIN chain', chain'[i].call = "addTokenType"
        PROVE  Rows' \subseteq chain'[i].with \cup Vouched'
    BY <1>1, <1>2, <1>3 DEF ChainKept, ProtectorTold, TokensTold
  <1> QED
    BY <1>1, <1>3 DEF ProtectorTold, TokensTold

\* A step that neither takes nor brings the event.
LEMMA QuietStep ==
  ASSUME ProtectorTold, kind = "protector", kind' = kind,
         NEW types, Touches(types), TokensToSave.type \notin types,
         ChainKept, UNCHANGED <<approvedTokens, late, saved>>
  PROVE  ProtectorTold'
  BY Saves, RowsRest DEF ProtectorTold, ChainKept

LEMMA FrontKeeps ==
  ASSUME ProtectorTold, kind = "protector", ConfirmProtectorTokens
  PROVE  ProtectorTold'
  <1>1. PICK t \in Tokens : ApproveFromFront(t)
    BY DEF ConfirmProtectorTokens
  <1>2. /\ approvedTokens' = [approvedTokens EXCEPT ![t] = @ \cup {"row", "front"}]
        /\ late' = LateWith(t) /\ UNCHANGED <<saved, kind, queue>>
        /\ Confirmation(approvedTokens') \/ SendsNothing
    BY <1>1 DEF ApproveFromFront
  <1>3. ChainKept
    BY <1>2, ConfirmationChain DEF ProtectorTold
  <1>4. Touches({})
    BY <1>2, Rested DEF ProtectorTold
  <1>5. EventsComing' /\ (Saving' => Saving) /\ Queues'
    BY <1>4, Saves DEF ProtectorTold
  <1>6. TokensTold' /\ RowsTyped'
    BY <1>2, <1>3, <1>5, RowMade
  <1> QED
    BY <1>2, <1>3, <1>5, <1>6 DEF ProtectorTold, ChainKept

LEMMA ApproveKeeps ==
  ASSUME ProtectorTold, kind = "protector", TokenProtectorApprove
  PROVE  ProtectorTold'
  <1> DEFINE t == Message.token
  <1>1. /\ UNCHANGED <<saved, kind>>
        /\ Ack \/ LeaveUnacked \/ Acknowledge
        /\ Receiving("TokenProtectorApprove")
        /\ Confirmation(approvedTokens') \/ SendsNothing
    BY DEF TokenProtectorApprove
  <1>2. ChainKept
    BY <1>1, ConfirmationChain DEF ProtectorTold
  <1>3. Touches({"TokenProtectorApprove"})
    BY <1>1, Handled DEF ProtectorTold
  <1>4. EventsComing' /\ (Saving' => Saving) /\ Queues'
    BY <1>3, Saves DEF ProtectorTold, TokensToSave
  <1>5. TokensTold' /\ RowsTyped'
    <2>1. CASE Message.approved
      <3>1. /\ approvedTokens' = [approvedTokens EXCEPT ![t] = @ \cup {"row", "scanner"}]
            /\ late' = LateWith(t)
        BY <2>1 DEF TokenProtectorApprove
      <3> QED
        BY <1>1, <1>2, <1>4, <3>1, RowMade
    <2>2. CASE ~Message.approved
      <3>1. /\ approvedTokens' = [approvedTokens EXCEPT ![t] = NoToken]
            /\ late' = late \ {t}
        BY <2>2 DEF TokenProtectorApprove
      <3> QED
        BY <1>1, <1>2, <1>4, <3>1, RowDeleted
    <2> QED
      BY <2>1, <2>2
  <1> QED
    BY <1>1, <1>2, <1>4, <1>5 DEF ProtectorTold, ChainKept

LEMMA TokensToSaveKeeps ==
  ASSUME ProtectorTold, kind = "protector", TokenProtectorTokensToSave
  PROVE  ProtectorTold'
  <1>1. /\ approvedTokens' = AllConfirmed(approvedTokens)
        /\ UNCHANGED <<kind, saved, late, chain>>
        /\ Acknowledge /\ ready # << >> /\ Head(ready).type = TokensToSave.type
    BY DEF TokenProtectorTokensToSave, Receiving, TokensToSave, network
  <1>2. Handles /\ LeftBehind' \subseteq LeftBehind
    BY <1>1, Acknowledges DEF ProtectorTold
  <1>3. Queues' /\ EventsComing'
    BY <1>2 DEF Handles, ProtectorTold, EventsComing, TokensToSave
  <1>4. Rows \subseteq Vouched /\ Vouched' = Vouched
    BY <1>1, <1>2 DEF Handles, Saving, ProtectorTold, TokensTold, Vouched
  <1>5. Rows' = Rows /\ RowsTyped' /\ With("confirmed")' \subseteq Rows
    BY <1>1 DEF AllConfirmed, Rows, With, RowsTyped, ProtectorTold, TokenRows, NoToken
  <1>6. TokensTold'
    BY <1>1, <1>4, <1>5 DEF TokensTold, ProtectorTold
  <1> QED
    BY <1>1, <1>3, <1>5, <1>6 DEF ProtectorTold

LEMMA AddedKeeps ==
  ASSUME ProtectorTold, kind = "protector",
         NEW i \in 1..MaxTxs, CallMined(i, "addTokenType", TokensToSave, "alive"),
         saved' = saved \cup chain[i].with, UNCHANGED <<approvedTokens, late>>
  PROVE  ProtectorTold'
  <1>1. /\ i \in DOMAIN chain /\ chain[i].call = "addTokenType"
        /\ chain' = [chain EXCEPT ![i] = Settled]
        /\ ready' = Append(ready, TokensToSave) /\ UNCHANGED <<unacked, kind>>
    BY DEF CallMined, Pending, Mined
  <1>2. /\ OfSome(chain') /\ Len(chain') <= MaxTxs
        /\ \A j \in DOMAIN chain' : \/ j \in DOMAIN chain /\ chain'[j] = chain[j]
                                    \/ chain'[j].call = "settled"
    BY <1>1, SettleKeeps DEF ProtectorTold
  <1>3. Queues' /\ EventsComing'
    BY <1>1, Publishes DEF ProtectorTold, EventsComing
  <1>4. /\ Rows' = Rows /\ RowsTyped' /\ With("confirmed")' = With("confirmed")
        /\ Vouched \subseteq Vouched'
    BY DEF Rows, With, RowsTyped, Vouched, ProtectorTold
  <1>5. Rows \subseteq Vouched'
    BY <1>1 DEF Vouched, ProtectorTold, TokensTold
  <1>6. TokensTold'
    BY <1>2, <1>4, <1>5 DEF TokensTold, ProtectorTold
  <1> QED
    BY <1>1, <1>2, <1>3, <1>4, <1>6 DEF ProtectorTold

\* The messages the protector's own steps handle or publish.
ProtectorQuiet ==
  \/ ProtectorDeployed \/ TokenProtectorTransactionInfo \/ SelfdestructionEvent
  \/ ConfirmInfo \/ DeployProtector \/ SkipReads \/ SkipSaves
  \/ RepresentTimeIsUp \/ RepresentPostponed \/ ExecuteSends \/ ExecuteSaves
  \/ OwnerApproves \/ OwnerDestroys

QuietTypes == {"deployed", "launch", "TokenProtectorApprove",
               "TokenProtectorTransactionInfo", "SelfdestructionEvent"}

LEMMA QuietTouches ==
  ASSUME Queues, ProtectorQuiet
  PROVE  Touches(QuietTypes)
  <1>1. CASE UNCHANGED queue
    BY <1>1, Rested DEF Touches
  <1>2. CASE \E type \in QuietTypes : Receiving(type) /\ Acknowledge
    BY <1>2, Handled DEF Touches
  <1>3. CASE \E m : m.type \in QuietTypes /\ Publish(m)
    <2>1. PICK m : m.type \in QuietTypes /\ Publish(m)
      BY <1>3
    <2>2. ready' = Append(ready, m) /\ UNCHANGED unacked
      BY <2>1 DEF Publish
    <2> QED
      BY <2>1, <2>2, Published DEF Touches
  <1>4. /\ Launch.type \in QuietTypes /\ Selfdestruction.type \in QuietTypes
        /\ \A t, yes : Approve(t, yes).type \in QuietTypes
        /\ {"deployed", "TokenProtectorTransactionInfo", "SelfdestructionEvent"}
             \subseteq QuietTypes
    BY DEF Launch, Selfdestruction, Approve, QuietTypes
  <1>5. CASE ProtectorDeployed \/ TokenProtectorTransactionInfo \/ SelfdestructionEvent
    BY <1>2, <1>4, <1>5 DEF ProtectorDeployed, DeployedAccepted, TokenProtectorTransactionInfo,
                      SelfdestructionEvent
  <1>6. CASE ConfirmInfo
    BY <1>1, <1>3, <1>4, <1>6 DEF ConfirmInfo
  <1>7. CASE DeployProtector \/ OwnerDestroys
    BY <1>3, <1>4, <1>7 DEF DeployProtector, OwnerDestroys
  <1>8. CASE OwnerApproves
    BY <1>3, <1>4, <1>8 DEF OwnerApproves
  <1>9. CASE SkipReads \/ SkipSaves \/ RepresentTimeIsUp \/ RepresentPostponed
             \/ ExecuteSends \/ ExecuteSaves
    BY <1>1, <1>9 DEF SkipReads, SkipSaves, RepresentTimeIsUp, RepresentPostponed,
                      ExecuteSends, ExecuteSaves, rowVars
  <1> QED
    BY <1>5, <1>6, <1>7, <1>8, <1>9 DEF ProtectorQuiet

LEMMA QuietKeeps ==
  ASSUME ProtectorTold, kind = "protector", ProtectorQuiet
  PROVE  ProtectorTold'
  <1>1. UNCHANGED <<kind, approvedTokens, late, saved>>
    BY DEF ProtectorQuiet, ProtectorDeployed, TokenProtectorTransactionInfo,
           SelfdestructionEvent, ConfirmInfo, DeployProtector, SkipReads, SkipSaves,
           RepresentTimeIsUp, RepresentPostponed, ExecuteSends, ExecuteSaves,
           OwnerApproves, OwnerDestroys, approvals, protectorVars, rowVars
  <1>2. UNCHANGED chain \/ Send("execute", {})
    BY DEF ProtectorQuiet, ProtectorDeployed, TokenProtectorTransactionInfo,
           SelfdestructionEvent, ConfirmInfo, DeployProtector, SkipReads, SkipSaves,
           RepresentTimeIsUp, RepresentPostponed, ExecuteSends, ExecuteSaves,
           OwnerApproves, OwnerDestroys, network, rowVars
  <1>3. ChainKept
    BY <1>2, ChainRests, SendKeeps DEF ChainKept, ProtectorTold
  <1>4. TokensToSave.type \notin QuietTypes
    BY DEF TokensToSave, QuietTypes
  <1> QED
    BY <1>1, <1>3, <1>4, QuietTouches, QuietStep DEF ProtectorTold

LEMMA ProtectorKeeps ==
  ASSUME ProtectorTold, kind = "protector", ProtectorNext
  PROVE  ProtectorTold'
  <1>1. CASE ProtectorRowNext
    <2>1. TokensToSave.type \notin RowTypes
      BY DEF TokensToSave, RowTypes
    <2>2. UNCHANGED <<approvedTokens, late, saved>>
      BY <1>1 DEF ProtectorRowNext, approvals
    <2>3. RowNext
      BY <1>1 DEF ProtectorRowNext
    <2> QED
      BY <2>1, <2>2, <2>3, RowTouches, RowChain, QuietStep DEF ProtectorTold
  <1>2. CASE ProtectorMined
    <2>1. PICK i \in 1..MaxTxs :
            \/ /\ CallMined(i, "addTokenType", TokensToSave, "alive")
               /\ saved' = saved \cup chain[i].with
            \/ CallMined(i, "execute", TransactionInfo, "over") /\ UNCHANGED saved
      BY <1>2 DEF ProtectorMined
    <2>2. UNCHANGED <<approvedTokens, late>>
      BY <1>2 DEF ProtectorMined
    <2>3. CASE CallMined(i, "execute", TransactionInfo, "over") /\ UNCHANGED saved
      <3> DEFINE m == TransactionInfo
      <3>1. /\ i \in DOMAIN chain /\ chain' = [chain EXCEPT ![i] = Settled]
            /\ ready' = Append(ready, m) /\ UNCHANGED <<unacked, kind>>
        BY <2>3 DEF CallMined, Pending, Mined
      <3>2. TokensToSave.type \notin {m.type}
        BY DEF TokensToSave, TransactionInfo
      <3>3. ChainKept
        BY <3>1, SettleKeeps DEF ChainKept, ProtectorTold
      <3> HIDE DEF m
      <3>4. Touches({m.type})
        BY <3>1, Published DEF ProtectorTold
      <3> QED
        BY <2>2, <2>3, <3>1, <3>2, <3>3, <3>4, QuietStep
    <2> QED
      BY <2>1, <2>2, <2>3, AddedKeeps
  <1> QED
    BY <1>1, <1>2, FrontKeeps, ApproveKeeps, TokensToSaveKeeps, QuietKeeps
       DEF ProtectorNext, ProtectorReceives, ProtectorQuiet

LEMMA ToldInit == Init => ProtectorTold
  <1> SUFFICES ASSUME Init
               PROVE  ProtectorTold
    OBVIOUS
  <1>1. RowInit /\ approvedTokens = [t \in Tokens |-> NoToken]
    BY DEF Init, ProtectorInit, ProtectorRests
  <1>2. kind = "protector" => ready = << >>
    BY DEF Init, ProtectorInit, WillInit, AirdropInit, PoolInit, WillKinds, AirdropKinds,
           PoolKinds
  <1> DEFINE none == << >>
  <1>3. OfSome(none) /\ Elements(none) = {} /\ Len(none) = 0 /\ DOMAIN none = {}
    BY Empty
  <1>4. unacked = none /\ chain = none /\ (kind = "protector" => ready = none)
    BY <1>1, <1>2 DEF RowInit
  <1> HIDE DEF none
  <1>5. Rows = {} /\ With("confirmed") = {} /\ RowsTyped
    BY <1>1 DEF Rows, With, RowsTyped, NoToken, TokenRows
  <1>6. kind = "protector" => Queues /\ Held = {} /\ LeftBehind = {}
    BY <1>3, <1>4 DEF Queues, Held, LeftBehind
  <1> QED
    BY <1>1, <1>3, <1>4, <1>5, <1>6, RowBoundsAreNat
       DEF ProtectorTold, TokensTold, EventsComing

LEMMA ToldStep == ProtectorTold /\ [Next]_lifeVars => ProtectorTold'
  <1> SUFFICES ASSUME ProtectorTold, [Next]_lifeVars
               PROVE  ProtectorTold'
    OBVIOUS
  <1>1. CASE ProtectorStep
    BY <1>1, ProtectorKeeps DEF ProtectorStep
  <1>2. CASE ~ProtectorStep /\ Next
    <2>1. UNCHANGED protectorVars /\ kind # "protector" /\ kind' = kind
      BY <1>2, KindStays DEF Next, WillStep, AirdropStep, PoolStep, WillKinds, AirdropKinds,
                             PoolKinds
    <2> QED
      BY <2>1 DEF ProtectorTold, protectorVars, approvals
  <1>3. CASE UNCHANGED lifeVars
    BY <1>3 DEF lifeVars, rowVars, queue, network, protectorVars, approvals, ProtectorTold,
                Queues, EventsComing, TokensTold, RowsTyped, Held, LeftBehind, Saving, Vouched,
                Rows, With
  <1> QED
    BY <1>1, <1>2, <1>3

\* A token that the site shows as confirmed is one the protector's contract
\* moves, although TokensToSave confirms every row there is
\* (token_protector.py:229), but for a row made while a confirmation was out.
THEOREM ConfirmedSaved == Spec => []ConfirmedIsSaved
  <1>1. ProtectorTold => ConfirmedIsSaved
    BY DEF ProtectorTold, TokensTold, ConfirmedIsSaved, Vouched, With, Rows, NoToken
  <1> QED
    BY <1>1, ToldInit, ToldStep, PTL DEF Spec, Safety
-----------------------------------------------------------------------------
(***************************************************************************)
(* A protector that is over is not revived, but by a late request to skip  *)
(* its approvals.  TokensToSave could do it too, in any state; it is kept  *)
(* from it by the order in which the scanner tells what the chain did.     *)
(* The past of the first message, ended, and what the chain may still      *)
(* tell, onChain, are taken for the places before and after the queue.     *)
(***************************************************************************)
OverTypes  == {"TokenProtectorTransactionInfo", "SelfdestructionEvent"}
SaveType   == "TokenProtectorTokensToSave"

\* A launch that came twice may have deployed another contract, which begins
\* anew.
BeginsAnew(m) == m.type = "deployed" /\ m.success

\* Between the news that the contract is over and tokens that were saved
\* later there is a new contract.
OverIn(q, known, i) == IF i = 0 THEN known ELSE q[i].type \in OverTypes
SavedIn(q, alive, j) == IF j = Len(q) + 1 THEN alive ELSE q[j].type = SaveType

InTurn(known, q, alive) ==
  \A i \in 0..Len(q), j \in 1..(Len(q) + 1) :
    i < j /\ OverIn(q, known, i) /\ SavedIn(q, alive, j) =>
      \E k \in (i + 1)..(j - 1) : BeginsAnew(q[k])

Known == ended = TRUE
Alive == onChain = "alive"

\* What waits with the broker is of other types.
OthersLeft == \A m \in LeftBehind : m.type \notin OverTypes \cup {SaveType}

ProtectorInTurn ==
  kind = "protector" => Queues /\ OthersLeft /\ InTurn(Known, ready, Alive)

LEMMA FirstTaken ==
  ASSUME NEW q, OfSome(q), q # << >>, NEW known \in BOOLEAN, NEW alive \in BOOLEAN,
         NEW after \in BOOLEAN, InTurn(known, q, alive),
         after => (known /\ ~BeginsAnew(Head(q))) \/ Head(q).type \in OverTypes
  PROVE  InTurn(after, Tail(q), alive)
<1> DEFINE t == Tail(q)
<1>1. PICK S : q \in Seq(S)
  BY DEF OfSome
<1>2. /\ Len(q) \in Nat \ {0} /\ Len(t) = Len(q) - 1 /\ Head(q) = q[1]
      /\ \A i \in 1..Len(t) : t[i] = q[i + 1]
  BY <1>1, HeadTailProperties
<1> HIDE DEF t
<1> SUFFICES ASSUME NEW i \in 0..Len(t), NEW j \in 1..(Len(t) + 1), i < j,
                    OverIn(t, after, i), SavedIn(t, alive, j)
             PROVE  \E k \in (i + 1)..(j - 1) : BeginsAnew(t[k])
  BY DEF InTurn, t
<1>3. SavedIn(q, alive, j + 1)
  BY <1>2 DEF SavedIn
<1>4. ASSUME NEW k \in (i + 2)..j, BeginsAnew(q[k])
      PROVE  \E l \in (i + 1)..(j - 1) : BeginsAnew(t[l])
  <2>1. k - 1 \in (i + 1)..(j - 1) /\ k - 1 \in 1..Len(t) /\ t[k - 1] = q[k]
    BY <1>2
  <2> QED
    BY <1>4, <2>1
<1>5. CASE i > 0 \/ Head(q).type \in OverTypes
  <2>1. OverIn(q, known, i + 1)
    BY <1>2, <1>5 DEF OverIn
  <2>2. PICK k \in (i + 2)..j : BeginsAnew(q[k])
    BY <1>2, <1>3, <2>1 DEF InTurn
  <2> QED
    BY <1>4, <2>2
<1>6. CASE i = 0 /\ known /\ ~BeginsAnew(Head(q))
  <2>1. PICK k \in 1..j : BeginsAnew(q[k])
    BY <1>2, <1>3, <1>6 DEF InTurn, OverIn
  <2>2. k # 1
    BY <1>2, <1>6, <2>1
  <2> QED
    BY <1>4, <1>6, <2>1, <2>2
<1> QED
  BY <1>5, <1>6 DEF OverIn

LEMMA PutBefore ==
  ASSUME NEW q, OfSome(q), NEW u, OfSome(u), NEW known \in BOOLEAN, NEW alive \in BOOLEAN,
         NEW after \in BOOLEAN, InTurn(known, q, alive),
         \A m \in Elements(u) : m.type \notin OverTypes \cup {SaveType},
         after => known \/ (q # << >> /\ Head(q).type \in OverTypes)
  PROVE  InTurn(after, u \o q, alive)
<1> DEFINE t == u \o q
           n == Len(u)
<1>1. PICK S : q \in Seq(S)
  BY DEF OfSome
<1>2. PICK T : u \in Seq(T)
  BY DEF OfSome
<1>3. q \in Seq(S \cup T) /\ u \in Seq(S \cup T)
  BY <1>1, <1>2, SeqMonotonic
<1>4. /\ n \in Nat /\ Len(q) \in Nat /\ Len(t) = n + Len(q)
      /\ \A i \in 1..n : t[i] = u[i] /\ t[i].type \notin OverTypes \cup {SaveType}
      /\ \A i \in 1..Len(q) : t[n + i] = q[i]
  <2>1. /\ t \in Seq(S \cup T) /\ Len(t) = Len(u) + Len(q)
        /\ \A i \in 1..(Len(u) + Len(q)) :
             t[i] = IF i <= Len(u) THEN u[i] ELSE q[i - Len(u)]
    BY <1>3, ConcatProperties
  <2>2. n \in Nat /\ Len(q) \in Nat /\ DOMAIN u = 1..n
    BY <1>3
  <2> QED
    BY <2>1, <2>2 DEF Elements
<1>5. q # << >> => Head(q) = q[1] /\ Len(q) > 0
  BY <1>1
<1> HIDE DEF t, n
<1> SUFFICES ASSUME NEW i \in 0..Len(t), NEW j \in 1..(Len(t) + 1), i < j,
                    OverIn(t, after, i), SavedIn(t, alive, j)
             PROVE  \E k \in (i + 1)..(j - 1) : BeginsAnew(t[k])
  BY DEF InTurn, t
<1>6. j > n /\ j - n \in 1..(Len(q) + 1) /\ SavedIn(q, alive, j - n)
  <2>1. j > n
    BY <1>4 DEF SavedIn
  <2>2. CASE j = Len(t) + 1
    BY <1>4, <2>2 DEF SavedIn
  <2>3. CASE j # Len(t) + 1
    <3>a. n \in Nat /\ Len(q) \in Nat /\ Len(t) = n + Len(q) /\ j \in 1..(Len(t) + 1)
      BY <1>4
    <3>b. j \in Nat /\ j <= n + Len(q)
      BY <3>a, <2>3
    <3>1. j - n \in 1..Len(q) /\ n + (j - n) = j /\ j - n # Len(q) + 1
      BY <3>a, <3>b, <2>1
    <3>2. t[j] = q[j - n]
      BY <1>4, <3>1
    <3> QED
      BY <1>4, <2>1, <2>3, <3>1, <3>2 DEF SavedIn
  <2> QED
    BY <2>1, <2>2, <2>3
<1>7. ASSUME NEW o \in 0..Len(q), o < j - n, OverIn(q, known, o), i <= n + o
      PROVE  \E k \in (i + 1)..(j - 1) : BeginsAnew(t[k])
  <2>1. PICK k \in (o + 1)..((j - n) - 1) : BeginsAnew(q[k])
    BY <1>6, <1>7 DEF InTurn
  <2>2. n + k \in (i + 1)..(j - 1) /\ t[n + k] = q[k]
    BY <1>4, <1>6, <1>7, <2>1
  <2> QED
    BY <2>1, <2>2
<1>8. CASE i = 0 /\ known
  BY <1>4, <1>6, <1>7, <1>8 DEF OverIn
<1>9. CASE i = 0 /\ q # << >> /\ Head(q).type \in OverTypes
  <2>1. OverIn(q, known, 1) /\ 1 \in 0..Len(q)
    BY <1>4, <1>5, <1>9 DEF OverIn
  <2>2. j - n # 1
    <3>1. SaveType \notin OverTypes
      BY DEF SaveType, OverTypes
    <3> QED
      BY <1>4, <1>5, <1>6, <1>9, <3>1 DEF SavedIn
  <2> QED
    BY <1>4, <1>6, <1>7, <1>9, <2>1, <2>2
<1>10. CASE i > 0
  <2>1. i > n
    BY <1>4, <1>10 DEF OverIn
  <2>2. i - n \in 1..Len(q) /\ t[n + (i - n)] = q[i - n]
    BY <1>4, <2>1
  <2>3. OverIn(q, known, i - n)
    BY <1>4, <1>10, <2>1, <2>2 DEF OverIn
  <2> QED
    BY <1>4, <1>6, <1>7, <2>1, <2>2, <2>3
<1> QED
  BY <1>8, <1>9, <1>10 DEF OverIn

LEMMA PutAfter ==
  ASSUME NEW q, OfSome(q), NEW m, NEW known \in BOOLEAN, NEW alive \in BOOLEAN,
         NEW after \in BOOLEAN, NEW then \in BOOLEAN, InTurn(known, q, alive),
         after => known, m.type = SaveType => alive,
         then => BeginsAnew(m) \/ (alive /\ m.type \notin OverTypes)
  PROVE  InTurn(after, Append(q, m), then)
<1> DEFINE t == Append(q, m)
           n == Len(q)
<1>1. /\ n \in Nat /\ Len(t) = n + 1 /\ t[n + 1] = m
      /\ \A i \in 1..n : t[i] = q[i]
  BY Appended
<1> HIDE DEF t
<1> SUFFICES ASSUME NEW i \in 0..Len(t), NEW j \in 1..(Len(t) + 1), i < j,
                    OverIn(t, after, i), SavedIn(t, then, j)
             PROVE  \E k \in (i + 1)..(j - 1) : BeginsAnew(t[k])
  BY DEF InTurn, t
<1> HIDE DEF n
<1>2. "deployed" \notin OverTypes /\ SaveType \notin OverTypes
  BY DEF OverTypes, SaveType
<1>3. i # n + 1
  BY <1>1, <1>2 DEF OverIn, SavedIn, BeginsAnew
<1>4. i \in 0..n /\ OverIn(q, known, i)
  BY <1>1, <1>3 DEF OverIn
<1>5. ASSUME NEW o \in 1..(n + 1), i < o, o <= j, SavedIn(q, alive, o)
      PROVE  \E k \in (i + 1)..(j - 1) : BeginsAnew(t[k])
  <2>1. PICK k \in (i + 1)..(o - 1) : BeginsAnew(q[k])
    BY <1>1, <1>4, <1>5 DEF InTurn, n
  <2>2. k \in (i + 1)..(j - 1) /\ t[k] = q[k]
    BY <1>1, <1>4, <1>5, <2>1
  <2> QED
    BY <2>1, <2>2
<1>6. CASE j <= n
  <2>1. SavedIn(q, alive, j)
    BY <1>1, <1>6 DEF SavedIn, n
  <2> QED
    BY <1>1, <1>5, <1>6, <2>1
<1>7. CASE j = n + 1
  <2>1. SavedIn(q, alive, n + 1)
    BY <1>1, <1>7 DEF SavedIn, n
  <2> QED
    BY <1>1, <1>5, <1>7, <2>1
<1>8. CASE j = n + 2
  <2>1. then
    BY <1>1, <1>8 DEF SavedIn
  <2>2. CASE BeginsAnew(m)
    BY <1>1, <1>4, <1>8, <2>2
  <2>3. CASE alive
    <3>1. SavedIn(q, alive, n + 1)
      BY <1>1, <2>3 DEF SavedIn, n
    <3> QED
      BY <1>1, <1>4, <1>5, <1>8, <3>1
  <2> QED
    BY <2>1, <2>2, <2>3
<1> QED
  BY <1>1, <1>6, <1>7, <1>8
-----------------------------------------------------------------------------
LEMMA HandledInTurn ==
  ASSUME ProtectorInTurn, kind = "protector", kind' = kind, ready # << >>, onChain' = onChain,
         \/ Ack \/ Acknowledge
         \/ LeaveUnacked /\ Head(ready).type \notin OverTypes \cup {SaveType},
         Known' => \/ Known /\ ~BeginsAnew(Head(ready))
                   \/ Head(ready).type \in OverTypes
  PROVE  ProtectorInTurn'
<1>1. Queues /\ OthersLeft /\ InTurn(Known, ready, Alive)
  BY DEF ProtectorInTurn
<1>2. Alive' = Alive /\ Known \in BOOLEAN /\ Alive \in BOOLEAN /\ Known' \in BOOLEAN
  BY DEF Alive, Known
<1>3. CASE ready' = Tail(ready)
  <2>1. Queues' /\ OthersLeft'
    <3>1. CASE UNCHANGED unacked
      BY <1>1, <1>3, <3>1, Tailed DEF Queues, OthersLeft, LeftBehind
    <3>2. CASE LeaveUnacked /\ Head(ready).type \notin OverTypes \cup {SaveType}
      BY <1>1, <3>2, Leaves DEF OthersLeft, Handles
    <3>3. CASE DeliveredAgain
      <4>1. ready' = unacked \o ready /\ unacked' = << >>
        BY <3>3 DEF DeliveredAgain
      <4> QED
        BY <1>1, <4>1, Redelivered DEF OthersLeft
    <3> QED
      BY <3>1, <3>2, <3>3 DEF Ack, Acknowledge
  <2>2. InTurn(Known', Tail(ready), Alive)
    BY <1>1, <1>2, FirstTaken DEF Queues
  <2> QED
    BY <1>2, <1>3, <2>1, <2>2 DEF ProtectorInTurn
<1>4. CASE DeliveredAgain
  <2>1. ready' = unacked \o ready /\ unacked' = << >>
    BY <1>4 DEF DeliveredAgain
  <2>2. Queues' /\ OthersLeft'
    BY <1>1, <2>1, Redelivered DEF OthersLeft
  <2>3. InTurn(Known', unacked \o ready, Alive)
    BY <1>1, <1>2, PutBefore DEF Queues, OthersLeft, LeftBehind
  <2> QED
    BY <1>2, <2>1, <2>2, <2>3 DEF ProtectorInTurn
<1> QED
  BY <1>3, <1>4 DEF Ack, Acknowledge, LeaveUnacked

LEMMA RestartInTurn ==
  ASSUME ProtectorInTurn, kind = "protector", Restart, Known' => Known
  PROVE  ProtectorInTurn'
<1>1. Queues /\ OthersLeft /\ InTurn(Known, ready, Alive)
  BY DEF ProtectorInTurn
<1>2. ready' = unacked \o ready /\ unacked' = << >> /\ UNCHANGED <<kind, state, onChain>>
  BY DEF Restart, network
<1>3. Queues' /\ OthersLeft'
  BY <1>1, <1>2, Redelivered DEF OthersLeft
<1>4. Alive' = Alive /\ {Known, Known', Alive} \subseteq BOOLEAN
  BY <1>2 DEF Known, Alive
<1>5. InTurn(Known', unacked \o ready, Alive)
  BY <1>1, <1>4, PutBefore DEF Queues, OthersLeft, LeftBehind
<1> QED
  BY <1>2, <1>3, <1>4, <1>5 DEF ProtectorInTurn

LEMMA PublishedInTurn ==
  ASSUME ProtectorInTurn, kind = "protector", kind' = kind, NEW m,
         ready' = Append(ready, m), UNCHANGED unacked, Known' => Known,
         m.type = SaveType => Alive,
         Alive' => BeginsAnew(m) \/ (Alive /\ m.type \notin OverTypes)
  PROVE  ProtectorInTurn'
<1>1. Queues /\ OthersLeft /\ InTurn(Known, ready, Alive)
  BY DEF ProtectorInTurn
<1>2. Queues' /\ OthersLeft'
  BY <1>1, Publishes DEF OthersLeft
<1>3. Known \in BOOLEAN /\ Alive \in BOOLEAN /\ Known' \in BOOLEAN /\ Alive' \in BOOLEAN
  BY DEF Known, Alive
<1>4. InTurn(Known', Append(ready, m), Alive')
  BY <1>1, <1>3, PutAfter DEF Queues
<1> QED
  BY <1>2, <1>4 DEF ProtectorInTurn

LEMMA RestedInTurn ==
  ASSUME ProtectorInTurn, kind = "protector", kind' = kind, UNCHANGED queue,
         Known' => Known, Alive' = Alive
  PROVE  ProtectorInTurn'
<1>1. Queues' /\ OthersLeft'
  BY DEF ProtectorInTurn, Queues, OthersLeft, LeftBehind, queue
<1>2. InTurn(Known', ready, Alive)
  BY DEF ProtectorInTurn, InTurn, OverIn
<1> QED
  BY <1>1, <1>2 DEF ProtectorInTurn, queue

\* The receiver's handlers, and what else happens to the row.
LEMMA RowInTurn ==
  ASSUME ProtectorInTurn, kind = "protector", ProtectorRowNext
  PROVE  ProtectorInTurn'
<1>a. RowNext /\ ended' = (ended /\ ~ToldAnew)
  BY DEF ProtectorRowNext
<1>1. kind' = kind
  BY <1>a, RowTouches DEF ProtectorInTurn
<1>b. Known' => Known /\ ~ToldAnew
  BY <1>a DEF Known
<1>2. /\ {"launch", "transactionCompleted", "deployed"} \cap (OverTypes \cup {SaveType}) = {}
      /\ {"launch", "transactionCompleted"} \cap {"deployed"} = {}
  BY DEF OverTypes, SaveType
<1>3. CASE RowReceives
  <2>1. /\ ready # << >> /\ onChain' = onChain
        /\ Head(ready).type \in {"launch", "transactionCompleted", "deployed"}
        /\ Ack \/ Acknowledge \/ LeaveUnacked
    BY <1>3
    DEF RowReceives, LaunchPostponed, LaunchIgnored, LaunchSends, LaunchRaises,
        DeployedIgnored, DeployedPostponed, DeployedRejected, TransactionFailed,
        TransactionUnknown, Receiving, network, Send
  <2>2. BeginsAnew(Head(ready)) => ToldAnew
    <3>1. CASE DeployedIgnored \/ DeployedPostponed
      BY <3>1 DEF ToldAnew, BeginsAnew, Message
    <3>2. CASE ~(DeployedIgnored \/ DeployedPostponed)
      BY <1>2, <1>3, <3>2
      DEF RowReceives, LaunchPostponed, LaunchIgnored, LaunchSends, LaunchRaises,
          DeployedRejected, TransactionFailed, TransactionUnknown, Receiving, BeginsAnew,
          Message
    <3> QED
      BY <3>1, <3>2
  <2> QED
    BY <1>1, <1>b, <1>2, <2>1, <2>2, HandledInTurn
<1>4. CASE Restart
  BY <1>b, <1>4, RestartInTurn
<1>5. ASSUME NEW i \in 1..MaxTxs, DeployMined(i)
      PROVE  ProtectorInTurn'
  <2> DEFINE m == Deployed(TRUE)
  <2>1. /\ ready' = Append(ready, m) /\ UNCHANGED <<unacked, state>>
        /\ BeginsAnew(m) /\ m.type # SaveType
    BY <1>5 DEF DeployMined, Mined, Deployed, BeginsAnew, SaveType
  <2> HIDE DEF m
  <2> QED
    BY <1>1, <1>b, <2>1, PublishedInTurn
<1>6. ASSUME NEW i \in 1..MaxTxs, Reverted(i)
      PROVE  ProtectorInTurn'
  <2> DEFINE a == Deployed(FALSE)
             b == TxFailed(i)
             some == Append(ready, a)
  <2>1. /\ UNCHANGED <<unacked, state, onChain>>
        /\ ready' = ready \o <<a, b>> \/ ready' = ready \o <<b>>
    BY <1>6 DEF Reverted, Reverts
  <2>2. a.type \notin OverTypes \cup {SaveType} /\ b.type \notin OverTypes \cup {SaveType}
    BY DEF Deployed, TxFailed, OverTypes, SaveType
  <2> HIDE DEF a, b
  <2>3. ready' = Append(some, b) \/ ready' = Append(ready, b)
    BY <2>1, ToldOneByOne DEF ProtectorInTurn, Queues
  <2>4. /\ OfSome(ready) /\ InTurn(Known, ready, Alive) /\ OthersLeft
        /\ {Known, Known', Alive} \subseteq BOOLEAN /\ (Known' => Known) /\ Alive' = Alive
    BY <1>b, <2>1 DEF ProtectorInTurn, Queues, Known, Alive
  <2>5. CASE ready' = Append(ready, b)
    BY <1>1, <2>1, <2>2, <2>4, <2>5, PublishedInTurn
  <2>6. CASE ready' = Append(some, b)
    <3>1. OfSome(some) /\ InTurn(Known, some, Alive)
      <4>1. InTurn(Known, Append(ready, a), Alive)
        BY <2>2, <2>4, PutAfter
      <4> QED
        BY <2>4, <4>1, Appended
    <3> HIDE DEF some
    <3>2. OfSome(ready') /\ InTurn(Known', Append(some, b), Alive)
      <4>1. InTurn(Known', Append(some, b), Alive)
        BY <2>2, <2>4, <3>1, PutAfter
      <4> QED
        BY <2>6, <3>1, <4>1, Appended
    <3>3. Queues' /\ OthersLeft'
      BY <2>1, <2>4, <3>2 DEF Queues, OthersLeft, LeftBehind, ProtectorInTurn
    <3> QED
      BY <2>4, <2>6, <3>2, <3>3 DEF ProtectorInTurn
  <2> QED
    BY <2>3, <2>5, <2>6
<1> QED
  BY <1>a, <1>3, <1>4, <1>5, <1>6 DEF RowNext

\* The row is not shown as one that goes on.
Rests == state' = state \/ state' \notin {"WAITING_FOR_APPROVE", "ACTIVE"}

LEMMA ProtectorReceivesInTurn ==
  ASSUME ProtectorInTurn, kind = "protector", ProtectorReceives
  PROVE  ProtectorInTurn' /\ (Known' => Rests)
<1>1. /\ {"TokenProtectorApprove", SaveType, "deployed"} \cap OverTypes = {}
      /\ "TokenProtectorApprove" # SaveType /\ "deployed" # SaveType
      /\ "TokenProtectorApprove" # "deployed" /\ SaveType # "deployed"
  BY DEF OverTypes, SaveType
<1>2. CASE ProtectorDeployed
  <2>1. /\ ready # << >> /\ UNCHANGED <<kind, onChain>> /\ Acknowledge
        /\ ended' = FALSE
    BY <1>2 DEF ProtectorDeployed, DeployedAccepted, Receiving, network
  <2> QED
    BY <1>1, <2>1, HandledInTurn DEF Known
<1>3. CASE TokenProtectorApprove
  <2>1. /\ ready # << >> /\ UNCHANGED <<kind, onChain, state, ended>>
        /\ Head(ready).type = "TokenProtectorApprove" /\ (Acknowledge \/ LeaveUnacked)
    BY <1>3 DEF TokenProtectorApprove, Receiving, Confirmation, Send, SendsNothing
  <2> QED
    BY <1>1, <2>1, HandledInTurn DEF Known, BeginsAnew, Rests
<1>4. CASE TokenProtectorTokensToSave
  <2>1. /\ ready # << >> /\ UNCHANGED <<kind, onChain, ended>> /\ Acknowledge
        /\ Head(ready).type = SaveType
    BY <1>4 DEF TokenProtectorTokensToSave, Receiving, network, SaveType
  <2>2. ~Known
    <3>1. OfSome(ready) /\ InTurn(Known, ready, Alive)
      BY DEF ProtectorInTurn, Queues
    <3>2. Head(ready) = ready[1] /\ Len(ready) \in Nat \ {0}
      <4>1. PICK S : ready \in Seq(S)
        BY <3>1 DEF OfSome
      <4> QED
        BY <2>1, <4>1
    <3>3. SavedIn(ready, Alive, 1)
      BY <2>1, <3>2 DEF SavedIn
    <3>4. Known => \E k \in 1..0 : BeginsAnew(ready[k])
      BY <3>1, <3>2, <3>3 DEF InTurn, OverIn
    <3> QED
      BY <3>4
  <2> QED
    BY <1>1, <2>1, <2>2, HandledInTurn DEF Known
<1>5. CASE TokenProtectorTransactionInfo \/ SelfdestructionEvent
  <2>1. /\ ready # << >> /\ UNCHANGED <<kind, onChain>> /\ Acknowledge
        /\ Rests /\ Head(ready).type \in OverTypes
    BY <1>5
    DEF TokenProtectorTransactionInfo, SelfdestructionEvent, Receiving, network, OverTypes,
        Rests
  <2> QED
    BY <2>1, HandledInTurn
<1> QED
  BY <1>2, <1>3, <1>4, <1>5 DEF ProtectorReceives

LEMMA ProtectorKeepsTurn ==
  ASSUME ProtectorInTurn, kind = "protector", ProtectorNext
  PROVE  ProtectorInTurn' /\ (Known' => Rests \/ SkipsLate)
<1>1. CASE ProtectorRowNext
  <2>1. state' \in {state, "WAITING_FOR_DEPLOYMENT", "POSTPONED"}
    BY <1>1, RowTouches DEF ProtectorInTurn, ProtectorRowNext
  <2> QED
    BY <1>1, <2>1, RowInTurn DEF Rests
<1>2. CASE ProtectorReceives
  BY <1>2, ProtectorReceivesInTurn
<1>3. CASE UNCHANGED queue /\ ~ProtectorRowNext /\ ~ProtectorReceives
           /\ ~ProtectorMined /\ ~OwnerApproves /\ ~OwnerDestroys
  <2>1. UNCHANGED <<kind, onChain>>
    BY <1>3
    DEF ProtectorNext, ConfirmInfo, DeployProtector, SkipReads, SkipSaves,
        ConfirmProtectorTokens, ApproveFromFront, Confirmation, Send, SendsNothing,
        RepresentTimeIsUp, RepresentPostponed, ExecuteSends, ExecuteSaves, network, rowVars
  <2>2. Rests \/ SkipsLate
    BY <1>3
    DEF ProtectorNext, ConfirmInfo, DeployProtector, SkipReads, SkipSaves,
        ConfirmProtectorTokens, ApproveFromFront, RepresentTimeIsUp, RepresentPostponed,
        ExecuteSends, ExecuteSaves, ExecutedState, rowVars, Rests, SkipsLate
  <2>3. ended' = ended
    BY <1>3
    DEF ProtectorNext, ConfirmInfo, DeployProtector, SkipReads, SkipSaves,
        ConfirmProtectorTokens, ApproveFromFront, RepresentTimeIsUp, RepresentPostponed,
        ExecuteSends, ExecuteSaves, protectorVars
  <2> QED
    BY <1>3, <2>1, <2>2, <2>3, RestedInTurn DEF Known, Alive
<1>4. CASE (ConfirmInfo \/ DeployProtector) /\ Publish(Launch)
  <2> DEFINE m == Launch
  <2>1. /\ ready' = Append(ready, m) /\ UNCHANGED <<unacked, kind, onChain, ended>>
        /\ Rests
    BY <1>4 DEF ConfirmInfo, DeployProtector, Publish, network, protectorVars, Rests
  <2>2. m.type \notin OverTypes \cup {SaveType}
    BY DEF Launch, OverTypes, SaveType
  <2> HIDE DEF m
  <2> QED
    BY <2>1, <2>2, PublishedInTurn DEF Known, Alive, Rests
<1>5. CASE OwnerApproves
  <2>1. PICK t \in Tokens : Publish(Approve(t, "scanner" \notin approvedTokens[t]))
    BY <1>5 DEF OwnerApproves
  <2> DEFINE m == Approve(t, "scanner" \notin approvedTokens[t])
  <2>2. ready' = Append(ready, m) /\ UNCHANGED <<unacked, kind, onChain, state, ended>>
    BY <1>5, <2>1 DEF OwnerApproves, Publish, network, protectorVars
  <2>3. m.type \notin OverTypes \cup {SaveType}
    BY DEF Approve, OverTypes, SaveType
  <2> HIDE DEF m
  <2> QED
    BY <2>2, <2>3, PublishedInTurn DEF Known, Alive, Rests
<1>6. CASE OwnerDestroys
  <2> DEFINE m == Selfdestruction
  <2>1. /\ ready' = Append(ready, m) /\ UNCHANGED <<unacked, kind, state, ended>>
        /\ onChain' = "over"
    BY <1>6 DEF OwnerDestroys, Publish, protectorVars
  <2>2. m.type # SaveType
    BY DEF Selfdestruction, SaveType
  <2> HIDE DEF m
  <2> QED
    BY <2>1, <2>2, PublishedInTurn DEF Known, Alive, Rests
<1>7. CASE ProtectorMined
  <2>1. PICK i \in 1..MaxTxs :
          \/ CallMined(i, "addTokenType", TokensToSave, "alive")
          \/ CallMined(i, "execute", TransactionInfo, "over")
    BY <1>7 DEF ProtectorMined
  <2>a. ended' = ended
    BY <1>7 DEF ProtectorMined
  <2>2. CASE CallMined(i, "addTokenType", TokensToSave, "alive")
    <3> DEFINE m == TokensToSave
    <3>1. /\ ready' = Append(ready, m) /\ UNCHANGED <<unacked, kind, state>>
          /\ onChain = "alive" /\ onChain' = "alive"
      BY <2>2 DEF CallMined, Mined
    <3>2. m.type \notin OverTypes
      BY DEF TokensToSave, OverTypes
    <3> HIDE DEF m
    <3> QED
      BY <2>a, <3>1, <3>2, PublishedInTurn DEF Known, Alive, Rests
  <2>3. CASE CallMined(i, "execute", TransactionInfo, "over")
    <3> DEFINE m == TransactionInfo
    <3>1. ready' = Append(ready, m) /\ UNCHANGED <<unacked, kind, state>> /\ onChain' = "over"
      BY <2>3 DEF CallMined, Mined
    <3>2. m.type # SaveType
      BY DEF TransactionInfo, SaveType
    <3> HIDE DEF m
    <3> QED
      BY <2>a, <3>1, <3>2, PublishedInTurn DEF Known, Alive, Rests
  <2> QED
    BY <2>1, <2>2, <2>3
<1>8. UNCHANGED queue \/ ProtectorRowNext \/ ProtectorReceives
      \/ ((ConfirmInfo \/ DeployProtector) /\ Publish(Launch))
      \/ OwnerApproves \/ OwnerDestroys \/ ProtectorMined
  BY DEF ProtectorNext, ConfirmInfo, DeployProtector, SkipReads, SkipSaves, ConfirmProtectorTokens,
         ApproveFromFront, RepresentTimeIsUp, RepresentPostponed, ExecuteSends,
         ExecuteSaves, rowVars
<1> QED
  BY <1>1, <1>2, <1>3, <1>4, <1>5, <1>6, <1>7, <1>8
-----------------------------------------------------------------------------
(***************************************************************************)
(* No other kind of contract is over in this sense.                        *)
(***************************************************************************)
OverTold == ProtectorInTurn /\ (Known => kind = "protector")

LEMMA OverToldInit == Init => OverTold
<1> SUFFICES ASSUME Init PROVE OverTold
  OBVIOUS
<1>1. /\ kind = "protector" => ready = << >> /\ onChain = "none"
      /\ unacked = << >> /\ ended = FALSE
  BY DEF Init, RowInit, ProtectorInit, ProtectorRests, WillInit, AirdropInit, PoolInit,
         WillKinds, CheckedKinds, AirdropKinds, PoolKinds
<1> DEFINE none == << >>
<1>2. OfSome(none) /\ Elements(none) = {} /\ Len(none) = 0
  BY Empty
<1>3. kind = "protector" => ready = none
  BY <1>1
<1>4. unacked = none
  BY <1>1
<1> HIDE DEF none
<1>5. ~Known /\ (kind = "protector" => ~Alive)
  BY <1>1 DEF Known, Alive
<1>6. kind = "protector" => InTurn(Known, ready, Alive)
  BY <1>2, <1>3, <1>5 DEF InTurn, OverIn, SavedIn
<1>7. kind = "protector" => Queues /\ OthersLeft
  BY <1>2, <1>3, <1>4 DEF Queues, OthersLeft, LeftBehind
<1> QED
  BY <1>5, <1>6, <1>7 DEF OverTold, ProtectorInTurn

LEMMA OverToldStep ==
  ASSUME OverTold, [Next]_lifeVars
  PROVE  OverTold' /\ (Revived => SkipsLate)
<1>1. kind' = kind
  BY KindStays
<1>2. "protector" \notin WillKinds \cup AirdropKinds \cup PoolKinds
  BY DEF WillKinds, CheckedKinds, AirdropKinds, PoolKinds
<1>3. CASE ProtectorStep
  BY <1>1, <1>3, ProtectorKeepsTurn
  DEF OverTold, ProtectorStep, Revived, Rests, Known
<1>4. CASE WillStep \/ AirdropStep \/ PoolStep
  <2>1. kind # "protector" /\ ended' = ended
    BY <1>2, <1>4 DEF WillStep, AirdropStep, PoolStep, protectorVars
  <2> QED
    BY <1>1, <2>1 DEF OverTold, ProtectorInTurn, Revived, Known
<1>5. CASE UNCHANGED lifeVars
  <2>1. UNCHANGED <<kind, state, ready, unacked, onChain, ended>>
    BY <1>5 DEF lifeVars, rowVars, queue, network, protectorVars
  <2> QED
    BY <2>1
    DEF OverTold, ProtectorInTurn, Queues, OthersLeft, LeftBehind, InTurn, OverIn, Known,
        Alive, Revived
<1> QED
  BY <1>3, <1>4, <1>5 DEF Next

\* A protector that was shown as executed or destroyed does not go on
\* (token_protector.py:229), whatever comes late or twice and through whatever
\* states, for any number of tokens, transactions and mishaps, but for a late
\* request to skip its approvals (api.py:1368).
THEOREM OverStaysOver == Spec => OverIsNotRevived
<1>1. OverTold /\ [Next]_lifeVars => [Revived => SkipsLate]_<<rowVars, protectorVars>>
  BY OverToldStep
<1> QED
  BY <1>1, OverToldInit, OverToldStep, PTL DEF Spec, Safety, OverIsNotRevived
-----------------------------------------------------------------------------
(***************************************************************************)
(* The books of a pool or a swap.  Each message moves a payment from what  *)
(* the queue has yet to tell to what the site shows.  The balance is no    *)
(* sum: it is what the last message told, the one still in the queue if    *)
(* there is one.                                                           *)
(***************************************************************************)
Tally(q, type, p) == Total([i \in DOMAIN q |-> IF IsFrom(q[i], type, p) THEN 1 ELSE 0])

One(m, type, p) == IF IsFrom(m, type, p) THEN 1 ELSE 0

LEMMA TallyIsNat ==
  ASSUME NEW q, OfSome(q), NEW type, NEW p
  PROVE  Tally(q, type, p) \in Nat
  <1> DEFINE w == [i \in DOMAIN q |-> IF IsFrom(q[i], type, p) THEN 1 ELSE 0]
  <1>1. w \in [DOMAIN q -> Nat] /\ Tally(q, type, p) = Total(w)
    BY DEF Tally
  <1>2. IsFiniteSet(DOMAIN q)
    BY AppendedAt
  <1> HIDE DEF w
  <1> QED
    BY <1>1, <1>2, UnitsFinite

LEMMA TallyAppended ==
  ASSUME NEW q, OfSome(q), NEW m, NEW type, NEW p
  PROVE  Tally(Append(q, m), type, p) = Tally(q, type, p) + One(m, type, p)
  <1> DEFINE r == Append(q, m)
             w == [i \in DOMAIN q |-> IF IsFrom(q[i], type, p) THEN 1 ELSE 0]
             v == [i \in DOMAIN r |-> IF IsFrom(r[i], type, p) THEN 1 ELSE 0]
  <1>1. /\ w \in [DOMAIN q -> Nat] /\ v \in [DOMAIN Append(q, m) -> Nat]
        /\ Tally(q, type, p) = Total(w) /\ Tally(Append(q, m), type, p) = Total(v)
    BY DEF Tally
  <1>2. (\A i \in DOMAIN q : v[i] = w[i]) /\ v[Len(q) + 1] = One(m, type, p)
    BY AppendedAt DEF One
  <1> HIDE DEF w, v
  <1> QED
    BY <1>1, <1>2, TotalAppended

LEMMA TallyTaken ==
  ASSUME NEW q, OfSome(q), q # << >>, NEW type, NEW p
  PROVE  Tally(q, type, p) = One(Head(q), type, p) + Tally(Tail(q), type, p)
  <1> DEFINE r == Tail(q)
             w == [i \in DOMAIN q |-> IF IsFrom(q[i], type, p) THEN 1 ELSE 0]
             v == [i \in DOMAIN r |-> IF IsFrom(r[i], type, p) THEN 1 ELSE 0]
  <1>1. /\ w \in [DOMAIN q -> Nat] /\ v \in [DOMAIN Tail(q) -> Nat]
        /\ Tally(q, type, p) = Total(w) /\ Tally(Tail(q), type, p) = Total(v)
    BY DEF Tally
  <1>2. \A i \in DOMAIN Tail(q) : v[i] = w[i + 1]
    BY TailedAt
  <1>3. \A i \in DOMAIN q : w[i] = One(q[i], type, p)
    BY DEF One
  <1> HIDE DEF w, v
  <1>4. 1 \in DOMAIN q /\ Head(q) = q[1] /\ Total(w) = w[1] + Total(v)
    BY <1>1, <1>2, TotalTailed
  <1> QED
    BY <1>1, <1>3, <1>4

LEMMA WaitingIsTally ==
  \A type, p : Waiting(type, p) = Tally(ready, type, p)
  BY DEF Waiting, Tally

LEMMA NobodyWaits ==
  ASSUME NEW q, OfSome(q), NEW type, NEW p, Tally(q, type, p) = 0
  PROVE  \A i \in DOMAIN q : ~IsFrom(q[i], type, p)
  <1> DEFINE w == [i \in DOMAIN q |-> IF IsFrom(q[i], type, p) THEN 1 ELSE 0]
  <1>1. w \in [DOMAIN q -> Nat] /\ Total(w) = 0
    BY DEF Tally
  <1>2. IsFiniteSet(DOMAIN q)
    BY AppendedAt
  <1>3. \A i \in DOMAIN q : IsFrom(q[i], type, p) => w[i] = 1
    OBVIOUS
  <1> HIDE DEF w
  <1>4. Units(w) = {}
    BY <1>1, <1>2, UnitsFinite, FS_EmptySet DEF Total
  <1>5. ASSUME NEW i \in DOMAIN q, IsFrom(q[i], type, p) PROVE FALSE
    <2>1. <<i, 1>> \in Units(w)
      BY <1>1, <1>3, <1>5, UnitsAre
    <2> QED
      BY <1>4, <2>1
  <1> QED
    BY <1>5

\* The balance the site shows, and those the queue has yet to tell.
IsNews(q, i)     == i = 0 \/ q[i].type = "fundsAdded"
Tells(q, bal, i) == IF i = 0 THEN bal ELSE q[i].balance

LastTells(q, bal, sum) ==
  \A i \in 0..Len(q) :
    IsNews(q, i) /\ (\A j \in (i + 1)..Len(q) : q[j].type # "fundsAdded")
      => Tells(q, bal, i) = sum

LEMMA LastTaken ==
  ASSUME NEW q, OfSome(q), q # << >>, NEW bal, NEW sum, LastTells(q, bal, sum)
  PROVE  IF Head(q).type = "fundsAdded"
           THEN LastTells(Tail(q), Head(q).balance, sum)
           ELSE LastTells(Tail(q), bal, sum)
  <1> DEFINE r == Tail(q)
             known == IF Head(q).type = "fundsAdded" THEN Head(q).balance ELSE bal
  <1>1. /\ Len(q) \in Nat \ {0} /\ Len(r) = Len(q) - 1 /\ Head(q) = q[1]
        /\ \A i \in 1..Len(r) : r[i] = q[i + 1]
    <2>1. PICK S : q \in Seq(S)
      BY DEF OfSome
    <2> QED
      BY <2>1, HeadTailProperties
  <1> HIDE DEF r
  <1>2. ASSUME NEW i \in 0..Len(r), IsNews(r, i),
               \A j \in (i + 1)..Len(r) : r[j].type # "fundsAdded"
        PROVE  Tells(r, known, i) = sum
    <2>1. \A j \in (i + 2)..Len(q) : q[j].type # "fundsAdded"
      <3>1. \A j \in (i + 2)..Len(q) : j - 1 \in (i + 1)..Len(r) /\ r[j - 1] = q[j]
        BY <1>1
      <3> QED
        BY <1>2, <3>1
    <2>2. CASE i # 0
      <3>1. i + 1 \in 0..Len(q) /\ IsNews(q, i + 1) /\ r[i] = q[i + 1] /\ i + 1 # 0
        BY <1>1, <1>2, <2>2 DEF IsNews
      <3> QED
        BY <2>1, <2>2, <3>1 DEF LastTells, Tells
    <2>3. CASE i = 0 /\ Head(q).type = "fundsAdded"
      <3>1. 1 \in 0..Len(q) /\ IsNews(q, 1) /\ Tells(q, bal, 1) = Head(q).balance
        BY <1>1, <2>3 DEF IsNews, Tells
      <3>2. Tells(q, bal, 1) = sum
        BY <2>1, <2>3, <3>1 DEF LastTells
      <3> QED
        BY <2>3, <3>1, <3>2 DEF Tells
    <2>4. CASE i = 0 /\ Head(q).type # "fundsAdded"
      <3>1. \A j \in 1..Len(q) : q[j].type # "fundsAdded"
        BY <1>1, <2>1, <2>4
      <3>2. Tells(q, bal, 0) = sum
        BY <1>1, <3>1 DEF LastTells, IsNews
      <3> QED
        BY <2>4, <3>2 DEF Tells
    <2> QED
      BY <2>2, <2>3, <2>4
  <1>3. LastTells(r, known, sum)
    BY <1>2 DEF LastTells
  <1> QED
    BY <1>3 DEF r

LEMMA LastAppended ==
  ASSUME NEW q, OfSome(q), NEW m, NEW bal, NEW sum
  PROVE  /\ m.type # "fundsAdded" /\ LastTells(q, bal, sum)
              => LastTells(Append(q, m), bal, sum)
         /\ m.type = "fundsAdded" /\ m.balance = sum
              => LastTells(Append(q, m), bal, sum)
  <1> DEFINE r == Append(q, m)
             n == Len(q)
  <1>1. /\ n \in Nat /\ Len(r) = n + 1 /\ r[n + 1] = m /\ \A i \in 1..n : r[i] = q[i]
    BY Appended
  <1> HIDE DEF r, n
  <1>2. ASSUME m.type # "fundsAdded", LastTells(q, bal, sum)
        PROVE  LastTells(r, bal, sum)
    <2>1. ASSUME NEW i \in 0..(n + 1), IsNews(r, i),
                 \A j \in (i + 1)..(n + 1) : r[j].type # "fundsAdded"
          PROVE  Tells(r, bal, i) = sum
      <3>1. i # n + 1 /\ i \in 0..n /\ IsNews(q, i)
        BY <1>1, <1>2, <2>1 DEF IsNews
      <3>2. \A j \in (i + 1)..n : q[j].type # "fundsAdded"
        BY <1>1, <2>1, <3>1
      <3>3. Tells(q, bal, i) = sum
        BY <1>2, <3>1, <3>2 DEF LastTells, n
      <3> QED
        BY <1>1, <3>1, <3>3 DEF Tells
    <2> QED
      BY <1>1, <2>1 DEF LastTells
  <1>3. ASSUME m.type = "fundsAdded", m.balance = sum
        PROVE  LastTells(r, bal, sum)
    <2>1. ASSUME NEW i \in 0..(n + 1), IsNews(r, i),
                 \A j \in (i + 1)..(n + 1) : r[j].type # "fundsAdded"
          PROVE  Tells(r, bal, i) = sum
      <3>1. i = n + 1
        BY <1>1, <1>3, <2>1
      <3> QED
        BY <1>1, <1>3, <3>1 DEF Tells
    <2> QED
      BY <1>1, <2>1 DEF LastTells
  <1> QED
    BY <1>2, <1>3 DEF r

Payers == [Parties -> [in : Nat, out : Nat]]

LEMMA PaidInMoves ==
  ASSUME paid \in Payers, NEW p \in Parties
  PROVE  /\ PaidIn \in Nat
         /\ paid' = [paid EXCEPT ![p].in = @ + 1] => PaidIn' = PaidIn + 1
         /\ paid' = [paid EXCEPT ![p].out = @ + 1] => PaidIn' = PaidIn
  <1> DEFINE w == [q \in Parties |-> paid[q].in]
             v == [q \in Parties |-> paid'[q].in]
  <1>1. w \in [Parties -> Nat] /\ PaidIn = Total(w) /\ PaidIn' = Total(v)
    BY DEF PaidIn, Payers
  <1>2. IsFiniteSet(Parties)
    BY PartiesAreSome
  <1>3. ASSUME paid' = [paid EXCEPT ![p].in = @ + 1]
        PROVE  PaidIn' = PaidIn + 1
    <2>1. v \in [Parties -> Nat] /\ v[p] = w[p] + 1 /\ \A q \in Parties \ {p} : v[q] = w[q]
      BY <1>3 DEF Payers
    <2> HIDE DEF v, w
    <2>2. Total(v) = Total(w) - w[p] + v[p]
      BY <1>1, <1>2, <2>1, TotalChanged
    <2>3. Total(w) \in Nat /\ w[p] \in Nat
      BY <1>1, <1>2, UnitsFinite
    <2> QED
      BY <1>1, <2>1, <2>2, <2>3
  <1>4. ASSUME paid' = [paid EXCEPT ![p].out = @ + 1]
        PROVE  PaidIn' = PaidIn
    <2>1. v = w
      BY <1>4 DEF Payers
    <2> QED
      BY <1>1, <2>1
  <1>5. PaidIn \in Nat
    <2> HIDE DEF w, v
    <2> QED
      BY <1>1, <1>2, UnitsFinite
  <1> QED
    BY <1>3, <1>4, <1>5

\* Messages that the other kind is told by.
StrangeTypes == IF kind = "swaps" THEN {"fundsAdded"} ELSE {"depositSwaps", "refundSwaps"}

PoolShape ==
  /\ Queues
  /\ paid \in Payers
  /\ invested \in [Parties -> Int] /\ total \in [Parties -> Int]
  /\ \A m \in Held : m.type \notin StrangeTypes
  /\ kind = "investmentpool" =>
       \A m \in Held : m.type = "fundsAdded" => m.party \in Parties

PoolBalance ==
  kind = "investmentpool" =>
    /\ \A p \in Parties : invested[p] + Tally(ready, "fundsAdded", p) = paid[p].in
    /\ LastTells(ready, balance, PaidIn)

SwapsBalance ==
  kind = "swaps" /\ ~checksummed =>
    \A p \in Parties :
      /\ invested[p] + Tally(ready, "depositSwaps", p) - Tally(ready, "refundSwaps", p)
           = paid[p].in - paid[p].out
      /\ total[p] + Tally(ready, "depositSwaps", p) = paid[p].in

PoolTold == kind \in PoolKinds => PoolShape /\ (counted => PoolBalance /\ SwapsBalance)

LEMMA PoolHandles ==
  ASSUME PoolShape, NEW type, Receiving(type), CountOnce, UNCHANGED <<kind, paid>>,
         invested' \in [Parties -> Int], total' \in [Parties -> Int]
  PROVE  /\ PoolShape'
         /\ ready # << >> /\ Head(ready) \in Held /\ Head(ready).type = type
         /\ type \notin StrangeTypes
         /\ counted' => counted /\ ready' = Tail(ready)
  <1>1. Ack \/ Acknowledge
    BY DEF CountOnce, Acknowledge
  <1>2. ready # << >> /\ Head(ready).type = type
    BY DEF Receiving
  <1>3. Handles
    BY <1>1, <1>2, Acks, Acknowledges DEF PoolShape
  <1>4. PoolShape'
    BY <1>3 DEF PoolShape, Handles, StrangeTypes
  <1>5. counted' => counted /\ ready' = Tail(ready)
    BY DEF CountOnce, Ack
  <1> QED
    BY <1>2, <1>3, <1>4, <1>5 DEF Handles, PoolShape

LEMMA QuietHandled ==
  ASSUME PoolTold, kind \in PoolKinds, NEW type, Receiving(type), CountOnce,
         type \notin {"fundsAdded", "depositSwaps", "refundSwaps"},
         UNCHANGED <<kind, paid, invested, total, balance, checksummed>>
  PROVE  PoolTold'
  <1>1. PoolShape /\ (counted => PoolBalance /\ SwapsBalance)
    BY DEF PoolTold
  <1>2. /\ PoolShape' /\ ready # << >> /\ Head(ready).type = type
        /\ counted' => counted /\ ready' = Tail(ready)
    BY <1>1, PoolHandles DEF PoolShape
  <1>3. ASSUME counted' PROVE PoolBalance' /\ SwapsBalance'
    <2>1. counted /\ ready' = Tail(ready) /\ OfSome(ready) /\ PaidIn' = PaidIn
      BY <1>1, <1>2, <1>3 DEF PoolShape, Queues, PaidIn
    <2>2. \A t \in {"fundsAdded", "depositSwaps", "refundSwaps"}, p \in Parties :
            One(Head(ready), t, p) = 0
      BY <1>2 DEF One, IsFrom
    <2>3. \A t \in {"fundsAdded", "depositSwaps", "refundSwaps"}, p \in Parties :
            Tally(ready', t, p) = Tally(ready, t, p)
      BY <1>2, <2>1, <2>2, TallyTaken, TallyIsNat, Tailed
    <2>4. LastTells(ready, balance, PaidIn) => LastTells(ready', balance, PaidIn)
      BY <1>2, <2>1, LastTaken
    <2> QED
      BY <1>1, <2>1, <2>3, <2>4 DEF PoolBalance, SwapsBalance
  <1> QED
    BY <1>2, <1>3 DEF PoolTold

LEMMA CountChanges ==
  ASSUME NEW f \in [Parties -> Int], NEW x, NEW d \in Int
  PROVE  [f EXCEPT ![x] = @ + d] \in [Parties -> Int]
  <1> DEFINE g == [f EXCEPT ![x] = @ + d]
  <1>1. \A y \in Parties : g[y] = IF y = x THEN f[x] + d ELSE f[y]
    OBVIOUS
  <1>2. \A y \in Parties : g[y] \in Int
    <2> SUFFICES ASSUME NEW y \in Parties PROVE g[y] \in Int
      OBVIOUS
    <2>1. CASE y = x
      <3>1. g[y] = f[y] + d /\ f[y] \in Int
        BY <1>1, <2>1
      <3> QED
        BY <3>1
    <2>2. CASE y # x
      BY <1>1, <2>2
    <2> QED
      BY <2>1, <2>2
  <1>3. g = [y \in Parties |-> g[y]]
    OBVIOUS
  <1> HIDE DEF g
  <1>4. g \in [Parties -> Int]
    BY <1>2, <1>3
  <1> QED
    BY <1>4 DEF g

LEMMA FundsAddedKeeps ==
  ASSUME PoolTold, kind \in PoolKinds, PoolFundsAdded
  PROVE  PoolTold'
  <1>1. PoolShape /\ (counted => PoolBalance /\ SwapsBalance)
    BY DEF PoolTold
  <1>2. /\ Receiving("fundsAdded") /\ CountOnce
        /\ UNCHANGED <<kind, paid, total, checksummed>>
        /\ invested' = [invested EXCEPT ![Message.party] = @ + 1]
        /\ balance' = Message.balance
    BY DEF PoolFundsAdded
  <1>3. invested' \in [Parties -> Int] /\ total' \in [Parties -> Int]
    <2>1. invested \in [Parties -> Int] /\ total \in [Parties -> Int] /\ 1 \in Int
      BY <1>1 DEF PoolShape
    <2>2. invested' \in [Parties -> Int]
      BY <1>2, <2>1, CountChanges
    <2> QED
      BY <1>2, <2>1, <2>2
  <1>4. /\ PoolShape' /\ ready # << >> /\ Head(ready).type = "fundsAdded"
        /\ "fundsAdded" \notin StrangeTypes
        /\ counted' => counted /\ ready' = Tail(ready)
    BY <1>1, <1>2, <1>3, PoolHandles
  <1>5. kind = "investmentpool" /\ kind' = "investmentpool"
    BY <1>2, <1>4 DEF StrangeTypes, PoolKinds
  <1>6. ASSUME counted' PROVE PoolBalance' /\ SwapsBalance'
    <2>1. counted /\ ready' = Tail(ready) /\ OfSome(ready) /\ PaidIn' = PaidIn
      BY <1>1, <1>2, <1>4, <1>6 DEF PoolShape, Queues, PaidIn
    <2>2. OfSome(Tail(ready))
      BY <1>4, <2>1, Tailed
    <2>3. ASSUME NEW p \in Parties
          PROVE  invested'[p] + Tally(ready', "fundsAdded", p) = paid'[p].in
      <3>1. /\ Tally(ready, "fundsAdded", p)
                 = One(Head(ready), "fundsAdded", p) + Tally(ready', "fundsAdded", p)
            /\ Tally(ready', "fundsAdded", p) \in Nat
        BY <1>4, <2>1, <2>2, TallyTaken, TallyIsNat
      <3>2. invested'[p] = invested[p] + One(Head(ready), "fundsAdded", p)
        BY <1>1, <1>2, <1>4 DEF One, IsFrom, Message, PoolShape
      <3>3. invested[p] + Tally(ready, "fundsAdded", p) = paid[p].in
        BY <1>1, <1>5, <2>1 DEF PoolBalance
      <3>4. invested[p] \in Int /\ One(Head(ready), "fundsAdded", p) \in Int
        BY <1>1 DEF PoolShape, One
      <3> QED
        BY <1>2, <3>1, <3>2, <3>3, <3>4
    <2>4. LastTells(ready', Head(ready).balance, PaidIn)
      BY <1>1, <1>4, <1>5, <2>1, LastTaken DEF PoolBalance
    <2> QED
      BY <1>2, <1>5, <2>1, <2>3, <2>4 DEF PoolBalance, SwapsBalance, Message
  <1> QED
    BY <1>4, <1>6 DEF PoolTold

LEMMA SwapsMove ==
  ASSUME PoolTold, kind \in PoolKinds, SwapsDeposit \/ SwapsRefund
  PROVE  PoolTold'
  <1>1. PoolShape /\ (counted => PoolBalance /\ SwapsBalance)
    BY DEF PoolTold
  <1>2. PICK type \in {"depositSwaps", "refundSwaps"} :
          /\ Receiving(type) /\ CountOnce /\ UNCHANGED <<kind, paid, checksummed>>
          /\ invested' = [invested EXCEPT ![Side(Message.party)] =
                            @ + (IF type = "depositSwaps" THEN 1 ELSE -1)]
          /\ total' = IF type = "depositSwaps"
                        THEN [total EXCEPT ![Side(Message.party)] = @ + 1] ELSE total
    <2>1. CASE SwapsDeposit
      BY <2>1 DEF SwapsDeposit
    <2>2. CASE SwapsRefund
      <3>1. /\ Receiving("refundSwaps") /\ CountOnce /\ UNCHANGED <<kind, paid, checksummed>>
            /\ invested' = [invested EXCEPT ![Side(Message.party)] = @ - 1]
            /\ total' = total
        BY <2>2 DEF SwapsRefund
      <3>2. invested' = [invested EXCEPT ![Side(Message.party)] = @ + (-1)]
        BY <1>1, <3>1 DEF PoolShape
      <3> QED
        BY <3>1, <3>2
    <2> QED
      BY <2>1, <2>2
  <1>3. invested' \in [Parties -> Int] /\ total' \in [Parties -> Int]
    <2> DEFINE d == IF type = "depositSwaps" THEN 1 ELSE -1
    <2>1. d \in Int
      OBVIOUS
    <2>2. /\ invested' = [invested EXCEPT ![Side(Message.party)] = @ + d]
          /\ total' = total \/ total' = [total EXCEPT ![Side(Message.party)] = @ + 1]
          /\ invested \in [Parties -> Int] /\ total \in [Parties -> Int]
      BY <1>1, <1>2 DEF PoolShape
    <2> HIDE DEF d
    <2>3. invested' \in [Parties -> Int]
      BY <2>1, <2>2, CountChanges
    <2>4. total' \in [Parties -> Int]
      BY <2>2, CountChanges
    <2> QED
      BY <2>3, <2>4
  <1>4. /\ PoolShape' /\ ready # << >> /\ Head(ready).type = type
        /\ type \notin StrangeTypes
        /\ counted' => counted /\ ready' = Tail(ready)
    BY <1>1, <1>2, <1>3, PoolHandles
  <1>5. kind = "swaps" /\ kind' = "swaps"
    BY <1>2, <1>4 DEF StrangeTypes, PoolKinds
  <1>6. ASSUME counted', ~checksummed, NEW p \in Parties
        PROVE  /\ invested'[p] + Tally(ready', "depositSwaps", p)
                    - Tally(ready', "refundSwaps", p) = paid'[p].in - paid'[p].out
               /\ total'[p] + Tally(ready', "depositSwaps", p) = paid'[p].in
    <2>1. counted /\ ready' = Tail(ready) /\ OfSome(ready)
      BY <1>1, <1>4, <1>6 DEF PoolShape, Queues
    <2>2. OfSome(Tail(ready))
      BY <1>4, <2>1, Tailed
    <2> DEFINE dep == One(Head(ready), "depositSwaps", p)
               ref == One(Head(ready), "refundSwaps", p)
    <2>3. /\ Tally(ready, "depositSwaps", p) = dep + Tally(ready', "depositSwaps", p)
          /\ Tally(ready, "refundSwaps", p) = ref + Tally(ready', "refundSwaps", p)
          /\ Tally(ready', "depositSwaps", p) \in Nat
          /\ Tally(ready', "refundSwaps", p) \in Nat
      BY <1>4, <2>1, <2>2, TallyTaken, TallyIsNat
    <2>4. dep \in Int /\ ref \in Int
      BY DEF One
    <2>5. Side(Message.party) = Message.party
      BY <1>6 DEF Side
    <2>6. invested'[p] = invested[p] + dep - ref /\ total'[p] = total[p] + dep
      BY <1>1, <1>2, <1>4, <2>5 DEF One, IsFrom, Message, PoolShape
    <2>7. /\ invested[p] + Tally(ready, "depositSwaps", p) - Tally(ready, "refundSwaps", p)
               = paid[p].in - paid[p].out
          /\ total[p] + Tally(ready, "depositSwaps", p) = paid[p].in
      BY <1>1, <1>5, <1>6, <2>1 DEF SwapsBalance
    <2>8. invested[p] \in Int /\ total[p] \in Int /\ paid'[p] = paid[p]
      BY <1>1, <1>2 DEF PoolShape
    <2> HIDE DEF dep, ref
    <2> QED
      BY <2>3, <2>4, <2>6, <2>7, <2>8
  <1> QED
    BY <1>2, <1>4, <1>5, <1>6 DEF PoolTold, PoolBalance, SwapsBalance

LEMMA PoolPublishes ==
  ASSUME PoolTold, kind \in PoolKinds, NEW m, Publish(m), UNCHANGED kind, paid' \in Payers,
         m.type \notin StrangeTypes,
         kind = "investmentpool" /\ m.type = "fundsAdded" => m.party \in Parties,
         UNCHANGED <<invested, total, balance, checksummed, counted>>,
         counted => PoolBalance' /\ SwapsBalance'
  PROVE  PoolTold'
  <1>1. Queues' /\ Held' = Held \cup {m}
    BY Publishes DEF Publish, PoolTold, PoolShape
  <1>2. PoolShape'
    BY <1>1 DEF PoolTold, PoolShape, StrangeTypes
  <1> QED
    BY <1>2 DEF PoolTold

LEMMA QuietPublished ==
  ASSUME PoolTold, kind \in PoolKinds, NEW m, Publish(m), UNCHANGED <<kind, paid>>,
         m.type \notin {"fundsAdded", "depositSwaps", "refundSwaps"},
         UNCHANGED <<invested, total, balance, checksummed, counted>>
  PROVE  PoolTold'
  <1>1. PoolShape /\ (counted => PoolBalance /\ SwapsBalance)
    BY DEF PoolTold
  <1>2. ready' = Append(ready, m) /\ OfSome(ready) /\ PaidIn' = PaidIn
    BY <1>1 DEF PoolShape, Queues, PaidIn, Publish
  <1>3. \A t \in {"fundsAdded", "depositSwaps", "refundSwaps"}, p \in Parties :
          One(m, t, p) = 0
    BY DEF One, IsFrom
  <1>4. \A t \in {"fundsAdded", "depositSwaps", "refundSwaps"}, p \in Parties :
          Tally(ready', t, p) = Tally(ready, t, p)
    BY <1>2, <1>3, TallyAppended, TallyIsNat
  <1>5. LastTells(ready, balance, PaidIn) => LastTells(ready', balance, PaidIn)
    BY <1>2, LastAppended
  <1>6. counted => PoolBalance' /\ SwapsBalance'
    BY <1>1, <1>2, <1>4, <1>5 DEF PoolBalance, SwapsBalance
  <1>7. m.type \notin StrangeTypes /\ paid' \in Payers
    BY <1>1 DEF StrangeTypes, PoolShape
  <1> QED
    BY <1>6, <1>7, PoolPublishes

LEMMA PaysKeeps ==
  ASSUME PoolTold, kind \in PoolKinds, NEW p \in Parties, Pays(p) \/ PaysOut(p)
  PROVE  PoolTold'
  <1>1. PoolShape /\ (counted => PoolBalance /\ SwapsBalance)
    BY DEF PoolTold
  <1>2. /\ UNCHANGED <<kind, invested, total, balance, checksummed, counted>>
        /\ OfSome(ready) /\ paid \in Payers
    BY <1>1 DEF Pays, PaysOut, books, PoolShape, Queues
  <1>3. CASE Pays(p) /\ kind = "investmentpool"
    <2> DEFINE m == Invested(p, PaidIn + 1)
    <2>1. Publish(m) /\ paid' = [paid EXCEPT ![p].in = @ + 1]
      BY <1>3 DEF Pays
    <2>2. m.type = "fundsAdded" /\ m.party = p /\ m.balance = PaidIn + 1
      BY DEF Invested
    <2> HIDE DEF m
    <2>3. /\ paid' \in Payers /\ paid'[p].in = paid[p].in + 1
          /\ \A q \in Parties : q # p => paid'[q].in = paid[q].in
      BY <1>2, <2>1 DEF Payers
    <2>4. PaidIn' = PaidIn + 1
      BY <1>2, <2>1, PaidInMoves
    <2>5. ready' = Append(ready, m)
      BY <2>1 DEF Publish
    <2>6. LastTells(ready', balance, PaidIn')
      BY <1>2, <2>2, <2>4, <2>5, LastAppended
    <2>7. ASSUME counted, NEW q \in Parties
          PROVE  invested[q] + Tally(ready', "fundsAdded", q) = paid'[q].in
      <3>1. /\ Tally(ready', "fundsAdded", q)
                 = Tally(ready, "fundsAdded", q) + One(m, "fundsAdded", q)
            /\ Tally(ready, "fundsAdded", q) \in Nat
        BY <1>2, <2>5, TallyAppended, TallyIsNat
      <3>2. One(m, "fundsAdded", q) = IF q = p THEN 1 ELSE 0
        BY <2>2 DEF One, IsFrom
      <3>3. invested[q] + Tally(ready, "fundsAdded", q) = paid[q].in
        BY <1>1, <1>3, <2>7 DEF PoolBalance
      <3>4. invested[q] \in Int
        BY <1>1 DEF PoolShape
      <3> QED
        BY <2>3, <3>1, <3>2, <3>3, <3>4
    <2>8. counted => PoolBalance' /\ SwapsBalance'
      BY <1>2, <1>3, <2>6, <2>7 DEF PoolBalance, SwapsBalance
    <2>9. m.type \notin StrangeTypes
      BY <1>3, <2>2 DEF StrangeTypes
    <2> QED
      BY <1>2, <2>1, <2>2, <2>3, <2>8, <2>9, PoolPublishes
  <1>4. CASE PaysOut(p) /\ kind = "investmentpool"
    <2> DEFINE m == TokensSent(p)
    <2>1. Publish(m) /\ paid' = [paid EXCEPT ![p].out = @ + 1]
      BY <1>4 DEF PaysOut
    <2>2. m.type = "tokensSent"
      BY DEF TokensSent
    <2> HIDE DEF m
    <2>3. paid' \in Payers /\ \A q \in Parties : paid'[q].in = paid[q].in
      BY <1>2, <2>1 DEF Payers
    <2>4. PaidIn' = PaidIn
      BY <1>2, <2>1, PaidInMoves
    <2>5. ready' = Append(ready, m)
      BY <2>1 DEF Publish
    <2>6. LastTells(ready, balance, PaidIn) => LastTells(ready', balance, PaidIn')
      BY <1>2, <2>2, <2>4, <2>5, LastAppended
    <2>7. \A q \in Parties : Tally(ready', "fundsAdded", q) = Tally(ready, "fundsAdded", q)
      <3>1. \A q \in Parties : One(m, "fundsAdded", q) = 0
        BY <2>2 DEF One, IsFrom
      <3> QED
        BY <1>2, <2>5, <3>1, TallyAppended, TallyIsNat
    <2>8. counted => PoolBalance' /\ SwapsBalance'
      BY <1>1, <1>2, <1>4, <2>3, <2>6, <2>7 DEF PoolBalance, SwapsBalance
    <2>9. m.type \notin StrangeTypes /\ m.type # "fundsAdded"
      BY <1>4, <2>2 DEF StrangeTypes
    <2> QED
      BY <1>2, <2>1, <2>3, <2>8, <2>9, PoolPublishes
  <1>5. CASE kind = "swaps"
    <2>1. PICK m : /\ Publish(m) /\ m.party = p
                   /\ \/ /\ m.type = "depositSwaps"
                         /\ paid' = [paid EXCEPT ![p].in = @ + 1]
                      \/ /\ m.type = "refundSwaps"
                         /\ paid' = [paid EXCEPT ![p].out = @ + 1]
      <3>1. CASE Pays(p)
        BY <1>5, <3>1 DEF Pays, Deposit
      <3>2. CASE PaysOut(p)
        BY <1>5, <3>2 DEF PaysOut, Refund
      <3> QED
        BY <3>1, <3>2
    <2>2. paid' \in Payers
      BY <1>2, <2>1 DEF Payers
    <2>3. ready' = Append(ready, m)
      BY <2>1 DEF Publish
    <2>4. ASSUME counted, ~checksummed, NEW q \in Parties
          PROVE  /\ invested[q] + Tally(ready', "depositSwaps", q)
                      - Tally(ready', "refundSwaps", q) = paid'[q].in - paid'[q].out
                 /\ total[q] + Tally(ready', "depositSwaps", q) = paid'[q].in
      <3> DEFINE dep == One(m, "depositSwaps", q)
                 ref == One(m, "refundSwaps", q)
      <3>1. /\ Tally(ready', "depositSwaps", q) = Tally(ready, "depositSwaps", q) + dep
            /\ Tally(ready', "refundSwaps", q) = Tally(ready, "refundSwaps", q) + ref
            /\ Tally(ready, "depositSwaps", q) \in Nat
            /\ Tally(ready, "refundSwaps", q) \in Nat
        BY <1>2, <2>3, TallyAppended, TallyIsNat
      <3>2. paid'[q].in = paid[q].in + dep /\ paid'[q].out = paid[q].out + ref
        BY <1>2, <2>1 DEF One, IsFrom, Payers
      <3>3. /\ invested[q] + Tally(ready, "depositSwaps", q) - Tally(ready, "refundSwaps", q)
                 = paid[q].in - paid[q].out
            /\ total[q] + Tally(ready, "depositSwaps", q) = paid[q].in
        BY <1>1, <1>5, <2>4 DEF SwapsBalance
      <3>4. /\ invested[q] \in Int /\ total[q] \in Int /\ dep \in Int /\ ref \in Int
            /\ paid[q].in \in Nat /\ paid[q].out \in Nat
        BY <1>1, <1>2 DEF PoolShape, One, Payers
      <3> HIDE DEF dep, ref
      <3> QED
        BY <3>1, <3>2, <3>3, <3>4
    <2>5. counted => PoolBalance' /\ SwapsBalance'
      BY <1>2, <1>5, <2>4 DEF PoolBalance, SwapsBalance
    <2>6. m.type \notin StrangeTypes
      BY <1>5, <2>1 DEF StrangeTypes
    <2> QED
      BY <1>2, <1>5, <2>1, <2>2, <2>5, <2>6, PoolPublishes
  <1> QED
    BY <1>3, <1>4, <1>5 DEF PoolKinds

LEMMA PoolKeeps ==
  ASSUME PoolTold, kind \in PoolKinds, PoolNext
  PROVE  PoolTold'
  <1>1. CASE PoolTokenSent \/ PoolTimesChanged \/ PoolFinalized \/ PoolCancelled
    <2>1. PICK type : /\ Receiving(type) /\ CountOnce
                      /\ type \notin {"fundsAdded", "depositSwaps", "refundSwaps"}
                      /\ UNCHANGED <<kind, paid, invested, total, balance, checksummed>>
      BY <1>1 DEF PoolTokenSent, PoolTimesChanged, PoolFinalized, PoolCancelled, books
    <2> QED
      BY <2>1, QuietHandled
  <1>2. CASE Ends \/ ChangesTimes
    <2>1. PICK m : /\ Publish(m) /\ m.type \notin {"fundsAdded", "depositSwaps", "refundSwaps"}
                   /\ UNCHANGED <<kind, paid, invested, total, balance, checksummed, counted>>
      BY <1>2 DEF Ends, ChangesTimes, Finalized, Cancelled, TimesChanged, books, poolVars
    <2> QED
      BY <2>1, QuietPublished
  <1>3. CASE SwapsExpire \/ (Tick /\ UNCHANGED poolVars)
    <2>1. UNCHANGED <<kind, ready, unacked, paid, invested, total, balance, checksummed, counted>>
      BY <1>3 DEF SwapsExpire, Tick, poolVars, books, queue
    <2> QED
      BY <2>1 DEF PoolTold, PoolShape, PoolBalance, SwapsBalance, Queues, Held, LeftBehind,
                  StrangeTypes, PaidIn
  <1> QED
    BY <1>1, <1>2, <1>3, FundsAddedKeeps, SwapsMove, PaysKeeps DEF PoolNext

LEMMA PoolToldInit == Init => PoolTold
  <1> SUFFICES ASSUME Init, kind \in PoolKinds PROVE PoolTold
    BY DEF PoolTold
  <1>1. RowInit /\ PoolInit
    BY DEF Init, WillInit, ProtectorInit, AirdropInit, WillKinds, CheckedKinds, AirdropKinds,
           PoolKinds
  <1> DEFINE none == << >>
  <1>2. OfSome(none) /\ Elements(none) = {} /\ Len(none) = 0 /\ DOMAIN none = {}
    BY Empty
  <1>3. ready = none /\ unacked = none
    BY <1>1 DEF RowInit, PoolInit
  <1> HIDE DEF none
  <1>4. /\ paid = [p \in Parties |-> [in |-> 0, out |-> 0]]
        /\ invested = [p \in Parties |-> 0] /\ total = [p \in Parties |-> 0]
        /\ balance = 0
    BY <1>1 DEF PoolInit
  <1>5. PoolShape
    BY <1>2, <1>3, <1>4 DEF PoolShape, Queues, Held, LeftBehind, Payers
  <1>6. \A t, p : Tally(ready, t, p) = 0
    BY <1>2, <1>3, TotalOfNone DEF Tally
  <1>7. PaidIn = 0
    <2> DEFINE w == [p \in Parties |-> paid[p].in]
    <2>1. w \in [Parties -> Nat] /\ \A p \in Parties : w[p] = 0
      BY <1>4
    <2> HIDE DEF w
    <2>2. \A k \in Nat : k \notin 1..0
      OBVIOUS
    <2>3. Units(w) = {}
      BY <2>1, <2>2, UnitsAre
    <2> QED
      BY <2>3, FS_EmptySet DEF w, PaidIn, Total
  <1>8. LastTells(ready, balance, PaidIn)
    BY <1>2, <1>3, <1>4, <1>7 DEF LastTells, Tells
  <1> QED
    BY <1>4, <1>5, <1>6, <1>8 DEF PoolTold, PoolBalance, SwapsBalance

LEMMA PoolToldStep == PoolTold /\ [Next]_lifeVars => PoolTold'
  <1> SUFFICES ASSUME PoolTold, [Next]_lifeVars, kind \in PoolKinds
               PROVE  PoolTold'
    BY KindStays DEF PoolTold
  <1>1. CASE PoolStep
    BY <1>1, PoolKeeps DEF PoolStep
  <1>2. CASE UNCHANGED lifeVars
    BY <1>2 DEF lifeVars, rowVars, queue, poolVars, books, PoolTold, PoolShape, PoolBalance,
                SwapsBalance, Queues, Held, LeftBehind, StrangeTypes, PaidIn
  <1>3. ~WillStep /\ ~ProtectorStep /\ ~AirdropStep
    BY DEF WillStep, ProtectorStep, AirdropStep, WillKinds, CheckedKinds, AirdropKinds, PoolKinds
  <1> QED
    BY <1>1, <1>2, <1>3 DEF Next

\* For any parties and payments, what the site shows of a pool or a swap is
\* what the chain holds, but for what the queue has yet to tell
\* (investment_pool.py and swaps.py), unless a message was counted twice or
\* the base address was typed with capitals.
THEOREM BooksAlwaysKept == Spec => []BooksAreKept
  <1>1. PoolTold => BooksAreKept
    <2> SUFFICES ASSUME PoolTold, counted
                 PROVE  /\ kind = "investmentpool" => PoolBooks
                        /\ kind = "swaps" => checksummed \/ SwapsBooks
      BY DEF BooksAreKept
    <2>1. kind \in PoolKinds => PoolShape /\ PoolBalance /\ SwapsBalance
      BY DEF PoolTold
    <2>2. ASSUME kind = "investmentpool" PROVE PoolBooks
      <3>1. PoolShape /\ PoolBalance /\ OfSome(ready)
        BY <2>1, <2>2 DEF PoolKinds, PoolShape, Queues
      <3>2. ASSUME \A p \in Parties : Waiting("fundsAdded", p) = 0
            PROVE  balance = PaidIn
        <4>1. \A p \in Parties : \A i \in DOMAIN ready : ~IsFrom(ready[i], "fundsAdded", p)
          BY <3>1, <3>2, NobodyWaits, WaitingIsTally
        <4>2. \A i \in DOMAIN ready : ready[i] \in Held
          BY DEF Held, Elements
        <4>3. \A i \in DOMAIN ready : ready[i].type # "fundsAdded"
          BY <2>2, <3>1, <4>1, <4>2 DEF IsFrom, PoolShape
        <4>4. Len(ready) \in Nat /\ DOMAIN ready = 1..Len(ready)
          BY <3>1, Appended
        <4>5. Tells(ready, balance, 0) = PaidIn
          BY <2>2, <3>1, <4>3, <4>4 DEF PoolBalance, LastTells, IsNews
        <4> QED
          BY <4>5 DEF Tells
      <3> QED
        BY <2>2, <3>1, <3>2, WaitingIsTally DEF PoolBooks, PoolBalance
    <2>3. ASSUME kind = "swaps", ~checksummed PROVE SwapsBooks
      BY <2>1, <2>3, WaitingIsTally DEF SwapsBooks, SwapsBalance, PoolKinds
    <2> QED
      BY <2>2, <2>3
  <1> QED
    BY <1>1, PoolToldInit, PoolToldStep, PTL DEF Spec, Safety
-----------------------------------------------------------------------------
(***************************************************************************)
(* The duty of a Rootstock will.  What the queue has yet to tell of the    *)
(* payments is a sum over its messages, those left with the broker too.    *)
(***************************************************************************)
Real(m) ==
  /\ m.type = "fundsAdded" => m.value \in Nat
  /\ m.type = "contractPayment" => m = Payment

Sound(q)  == OfSome(q) /\ \A m \in Elements(q) : Real(m)
Net(q)    == PaidInBy(q) - PaidOutBy(q)
NetOf(m)  == PaidInOf(m) - PaidOutOf(m)
Weightless(m) == m.type \notin {"contractPayment", "fundsAdded"}

LEMMA WeightsAreNat ==
  ASSUME NEW m, Real(m)
  PROVE  /\ PaidInOf(m) \in Nat /\ PaidOutOf(m) \in Nat
         /\ Weightless(m) => NetOf(m) = 0
  BY DEF Real, PaidInOf, PaidOutOf, Weightless, NetOf, Payment

LEMMA SoundWeights ==
  ASSUME NEW q, Sound(q)
  PROVE  /\ [i \in DOMAIN q |-> PaidInOf(q[i])] \in [DOMAIN q -> Nat]
         /\ [i \in DOMAIN q |-> PaidOutOf(q[i])] \in [DOMAIN q -> Nat]
         /\ PaidInBy(q) \in Nat /\ PaidOutBy(q) \in Nat
         /\ Net(q) \in Int
  <1> DEFINE v == [i \in DOMAIN q |-> PaidInOf(q[i])]
             w == [i \in DOMAIN q |-> PaidOutOf(q[i])]
  <1>1. \A i \in DOMAIN q : Real(q[i])
    BY DEF Sound, Elements
  <1>2. v \in [DOMAIN q -> Nat] /\ w \in [DOMAIN q -> Nat]
    BY <1>1, WeightsAreNat
  <1>3. IsFiniteSet(DOMAIN q)
    BY AppendedAt DEF Sound
  <1>4. PaidInBy(q) = Total(v) /\ PaidOutBy(q) = Total(w)
    BY DEF PaidInBy, PaidOutBy
  <1> HIDE DEF v, w
  <1>5. Total(v) \in Nat /\ Total(w) \in Nat
    BY <1>2, <1>3, UnitsFinite
  <1> QED
    BY <1>2, <1>4, <1>5 DEF v, w, Net

LEMMA NetAppended ==
  ASSUME NEW q, Sound(q), NEW m, Real(m)
  PROVE  Sound(Append(q, m)) /\ Net(Append(q, m)) = Net(q) + NetOf(m)
  <1> DEFINE r  == Append(q, m)
             v  == [i \in DOMAIN q |-> PaidInOf(q[i])]
             w  == [i \in DOMAIN q |-> PaidOutOf(q[i])]
             vr == [i \in DOMAIN r |-> PaidInOf(r[i])]
             wr == [i \in DOMAIN r |-> PaidOutOf(r[i])]
  <1>1. Sound(r)
    BY Appended DEF Sound
  <1>2. /\ \A i \in DOMAIN q : r[i] = q[i]
        /\ DOMAIN q \subseteq DOMAIN r /\ Len(q) + 1 \in DOMAIN r /\ r[Len(q) + 1] = m
    BY AppendedAt DEF Sound
  <1>3. /\ \A i \in DOMAIN q : vr[i] = v[i] /\ wr[i] = w[i]
        /\ vr[Len(q) + 1] = PaidInOf(m) /\ wr[Len(q) + 1] = PaidOutOf(m)
    BY <1>2
  <1>4. /\ PaidInBy(q) = Total(v) /\ PaidOutBy(q) = Total(w)
        /\ PaidInBy(r) = Total(vr) /\ PaidOutBy(r) = Total(wr)
    BY DEF PaidInBy, PaidOutBy
  <1>5. /\ v \in [DOMAIN q -> Nat] /\ w \in [DOMAIN q -> Nat]
        /\ vr \in [DOMAIN r -> Nat] /\ wr \in [DOMAIN r -> Nat]
    <2> HIDE DEF r
    <2> QED
      BY <1>1, SoundWeights
  <1>6. PaidInBy(q) \in Nat /\ PaidOutBy(q) \in Nat /\ PaidInOf(m) \in Nat /\ PaidOutOf(m) \in Nat
    BY SoundWeights, WeightsAreNat
  <1>7. OfSome(q)
    BY DEF Sound
  <1> HIDE DEF v, w, vr, wr
  <1>8. Total(vr) = Total(v) + vr[Len(q) + 1]
    BY <1>3, <1>5, <1>7, TotalAppended
  <1>9. Total(wr) = Total(w) + wr[Len(q) + 1]
    BY <1>3, <1>5, <1>7, TotalAppended
  <1> HIDE DEF r
  <1>10. Net(r) = Net(q) + NetOf(m)
    BY <1>3, <1>4, <1>6, <1>8, <1>9 DEF Net, NetOf
  <1> QED
    BY <1>1, <1>10 DEF r

LEMMA NetTaken ==
  ASSUME NEW q, Sound(q), q # << >>
  PROVE  /\ Sound(Tail(q)) /\ Real(Head(q))
         /\ Net(q) = NetOf(Head(q)) + Net(Tail(q))
  <1> DEFINE r  == Tail(q)
             v  == [i \in DOMAIN q |-> PaidInOf(q[i])]
             w  == [i \in DOMAIN q |-> PaidOutOf(q[i])]
             vr == [i \in DOMAIN r |-> PaidInOf(r[i])]
             wr == [i \in DOMAIN r |-> PaidOutOf(r[i])]
  <1>1. Sound(r) /\ Real(Head(q)) /\ OfSome(q)
    BY Tailed DEF Sound
  <1>2. \A i \in DOMAIN r : i + 1 \in DOMAIN q /\ r[i] = q[i + 1]
    BY <1>1, TailedAt
  <1>3. \A i \in DOMAIN r : vr[i] = v[i + 1] /\ wr[i] = w[i + 1]
    BY <1>2
  <1>4. /\ PaidInBy(q) = Total(v) /\ PaidOutBy(q) = Total(w)
        /\ PaidInBy(r) = Total(vr) /\ PaidOutBy(r) = Total(wr)
    BY DEF PaidInBy, PaidOutBy
  <1>5. /\ v \in [DOMAIN q -> Nat] /\ w \in [DOMAIN q -> Nat]
        /\ vr \in [DOMAIN r -> Nat] /\ wr \in [DOMAIN r -> Nat]
        /\ PaidInBy(r) \in Nat /\ PaidOutBy(r) \in Nat
    <2> HIDE DEF r
    <2> QED
      BY <1>1, SoundWeights
  <1>6. \A i \in DOMAIN q : v[i] = PaidInOf(q[i]) /\ w[i] = PaidOutOf(q[i])
    OBVIOUS
  <1> HIDE DEF v, w, vr, wr
  <1>7. 1 \in DOMAIN q /\ Head(q) = q[1] /\ Total(v) = v[1] + Total(vr)
    BY <1>1, <1>3, <1>5, TotalTailed
  <1>8. Total(w) = w[1] + Total(wr)
    BY <1>1, <1>3, <1>5, TotalTailed
  <1> HIDE DEF r
  <1>9. PaidInOf(Head(q)) \in Nat /\ PaidOutOf(Head(q)) \in Nat
    BY <1>1, WeightsAreNat
  <1>10. Net(q) = NetOf(Head(q)) + Net(r)
    BY <1>4, <1>5, <1>6, <1>7, <1>8, <1>9 DEF Net, NetOf
  <1> QED
    BY <1>1, <1>10 DEF r

LEMMA NetJoined ==
  ASSUME NEW q, Sound(q), NEW r, Sound(r)
  PROVE  Sound(q \o r) /\ Net(q \o r) = Net(q) + Net(r)
  <1> DEFINE s  == q \o r
             v  == [i \in DOMAIN q |-> PaidInOf(q[i])]
             w  == [i \in DOMAIN q |-> PaidOutOf(q[i])]
             vr == [i \in DOMAIN r |-> PaidInOf(r[i])]
             wr == [i \in DOMAIN r |-> PaidOutOf(r[i])]
             vs == [i \in DOMAIN s |-> PaidInOf(s[i])]
             ws == [i \in DOMAIN s |-> PaidOutOf(s[i])]
  <1>1. OfSome(q) /\ OfSome(r) /\ Sound(s)
    BY Joined DEF Sound
  <1>2. /\ \A i \in DOMAIN q : i \in DOMAIN s /\ s[i] = q[i]
        /\ \A i \in DOMAIN r : Len(q) + i \in DOMAIN s /\ s[Len(q) + i] = r[i]
    BY <1>1, JoinedAt
  <1>3. /\ \A i \in DOMAIN q : vs[i] = v[i] /\ ws[i] = w[i]
        /\ \A i \in DOMAIN r : vs[Len(q) + i] = vr[i] /\ ws[Len(q) + i] = wr[i]
    BY <1>2
  <1>4. /\ PaidInBy(q) = Total(v) /\ PaidOutBy(q) = Total(w)
        /\ PaidInBy(r) = Total(vr) /\ PaidOutBy(r) = Total(wr)
        /\ PaidInBy(s) = Total(vs) /\ PaidOutBy(s) = Total(ws)
    BY DEF PaidInBy, PaidOutBy
  <1>5. /\ v \in [DOMAIN q -> Nat] /\ w \in [DOMAIN q -> Nat]
        /\ vr \in [DOMAIN r -> Nat] /\ wr \in [DOMAIN r -> Nat]
        /\ vs \in [DOMAIN s -> Nat] /\ ws \in [DOMAIN s -> Nat]
        /\ PaidInBy(q) \in Nat /\ PaidOutBy(q) \in Nat
        /\ PaidInBy(r) \in Nat /\ PaidOutBy(r) \in Nat
    <2> HIDE DEF s
    <2> QED
      BY <1>1, SoundWeights
  <1> HIDE DEF v, w, vr, wr, vs, ws
  <1>6. WeighJoined(q, r, v, vr, vs) /\ WeighJoined(q, r, w, wr, ws)
    BY <1>1, <1>3, <1>5 DEF WeighJoined, Weighs
  <1>7. Total(vs) = Total(v) + Total(vr) /\ Total(ws) = Total(w) + Total(wr)
    BY <1>6, TotalJoined
  <1> HIDE DEF s
  <1>8. Net(s) = Net(q) + Net(r)
    BY <1>4, <1>5, <1>7 DEF Net
  <1> QED
    BY <1>1, <1>8 DEF s

LEMMA NetOfNone ==
  ASSUME NEW q, q = << >>
  PROVE  Sound(q) /\ Net(q) = 0
  <1> DEFINE v == [i \in DOMAIN q |-> PaidInOf(q[i])]
             w == [i \in DOMAIN q |-> PaidOutOf(q[i])]
  <1>1. OfSome(q) /\ Elements(q) = {} /\ DOMAIN q = {}
    BY Empty
  <1>2. PaidInBy(q) = Total(v) /\ PaidOutBy(q) = Total(w)
    BY DEF PaidInBy, PaidOutBy
  <1>3. DOMAIN v = {} /\ DOMAIN w = {}
    BY <1>1
  <1> HIDE DEF v, w
  <1>4. Total(v) = 0 /\ Total(w) = 0
    BY <1>3, TotalOfNone
  <1> QED
    BY <1>1, <1>2, <1>4 DEF Sound, Net

\* The queue, with what was left with the broker, tells of k payments more.
Moves(k) ==
  /\ Sound(ready') /\ Sound(unacked')
  /\ Net(ready') + Net(unacked') = Net(ready) + Net(unacked) + k

LEMMA TellsMoves ==
  ASSUME Sound(ready), Sound(unacked), NEW m, Real(m),
         ready' = Append(ready, m), UNCHANGED unacked
  PROVE  Moves(NetOf(m)) /\ NetOf(m) \in Int
  <1>1. Sound(Append(ready, m)) /\ Net(Append(ready, m)) = Net(ready) + NetOf(m)
    BY NetAppended
  <1>2. Net(ready) \in Int /\ Net(unacked) \in Int /\ NetOf(m) \in Int
    BY SoundWeights, WeightsAreNat DEF NetOf
  <1> QED
    BY <1>1, <1>2 DEF Moves

LEMMA JoinedMoves ==
  ASSUME Sound(ready), Sound(unacked), ready' = unacked \o ready, unacked' = << >>
  PROVE  Moves(0)
  <1>1. Sound(unacked \o ready) /\ Net(unacked \o ready) = Net(unacked) + Net(ready)
    BY NetJoined
  <1>2. Sound(unacked') /\ Net(unacked') = 0
    BY NetOfNone
  <1>3. Net(ready) \in Int /\ Net(unacked) \in Int
    BY SoundWeights
  <1> QED
    BY <1>1, <1>2, <1>3 DEF Moves

\* A handled message that tells of no payment.
LEMMA HandledMoves ==
  ASSUME Sound(ready), Sound(unacked), ready # << >>, Weightless(Head(ready)),
         Ack \/ LeaveUnacked \/ Acknowledge
  PROVE  Moves(0)
  <1>1. /\ Sound(Tail(ready)) /\ Real(Head(ready)) /\ NetOf(Head(ready)) = 0
        /\ Net(ready) = NetOf(Head(ready)) + Net(Tail(ready))
    BY NetTaken, WeightsAreNat
  <1>2. Net(ready) \in Int /\ Net(unacked) \in Int /\ Net(Tail(ready)) = Net(ready)
    BY <1>1, SoundWeights
  <1>3. CASE Ack
    BY <1>1, <1>2, <1>3 DEF Ack, Moves
  <1>4. CASE LeaveUnacked
    <2>1. ready' = Tail(ready) /\ unacked' = Append(unacked, Head(ready))
      BY <1>4 DEF LeaveUnacked, Message
    <2>2. Sound(unacked') /\ Net(unacked') = Net(unacked) + NetOf(Head(ready))
      BY <1>1, <2>1, NetAppended
    <2> QED
      BY <1>1, <1>2, <2>1, <2>2 DEF Moves
  <1>5. CASE DeliveredAgain
    BY <1>5, JoinedMoves DEF DeliveredAgain
  <1> QED
    BY <1>3, <1>4, <1>5 DEF Acknowledge
-----------------------------------------------------------------------------
PaymentsSent ==
  /\ OfSome(chain) /\ Len(chain) <= MaxTxs
  /\ \A i \in DOMAIN chain : chain[i].call = "payment" => chain[i].with \subseteq Nat

Histories == [received : Int, funded : Int, unscheduled : BOOLEAN,
              overwritten : BOOLEAN, recounted : BOOLEAN]

DutyShape ==
  /\ Sound(ready) /\ Sound(unacked)
  /\ PaymentsSent
  /\ btc_duty \in Int /\ pressing.btc_duty \in Int
  /\ history \in Histories

DutyBalance ==
  \/ history.recounted \/ history.overwritten
  \/ btc_duty + Net(ready) + Net(unacked) = history.received - history.funded

DutyTold == kind = "rsklastwill" => DutyShape /\ DutyBalance

LEMMA PaymentsSentKept ==
  ASSUME PaymentsSent,
         \/ UNCHANGED chain
         \/ \E call, with : Send(call, with) /\ (call = "payment" => with \subseteq Nat)
         \/ \E i \in DOMAIN chain : chain' = [chain EXCEPT ![i] = Settled]
  PROVE  PaymentsSent'
  <1>1. CASE UNCHANGED chain
    BY <1>1 DEF PaymentsSent
  <1>2. CASE \E call, with : Send(call, with) /\ (call = "payment" => with \subseteq Nat)
    <2>1. PICK call, with : Send(call, with) /\ (call = "payment" => with \subseteq Nat)
      BY <1>2
    <2> QED
      BY <2>1, SendKeeps DEF PaymentsSent
  <1>3. CASE \E i \in DOMAIN chain : chain' = [chain EXCEPT ![i] = Settled]
    BY <1>3, SettleKeeps DEF PaymentsSent
  <1> QED
    BY <1>1, <1>2, <1>3

\* A step whose duty, queue and books move together.
LEMMA DutyMoves ==
  ASSUME DutyShape, DutyBalance, PaymentsSent', NEW k \in Int, Moves(k),
         btc_duty' \in Int, pressing'.btc_duty \in Int, history' \in Histories,
         history.recounted \/ history.overwritten
           => history'.recounted \/ history'.overwritten,
         \/ history'.recounted \/ history'.overwritten
         \/ btc_duty' + k - btc_duty
              = history'.received - history'.funded - (history.received - history.funded)
  PROVE  DutyTold'
  <1>1. DutyShape'
    BY DEF DutyShape, Moves
  <1>2. /\ Net(ready) \in Int /\ Net(unacked) \in Int
        /\ Net(ready') \in Int /\ Net(unacked') \in Int
    BY SoundWeights DEF DutyShape, Moves
  <1>3. /\ history.received \in Int /\ history.funded \in Int
        /\ history'.received \in Int /\ history'.funded \in Int /\ btc_duty \in Int
    BY DEF DutyShape, Histories
  <1>4. Net(ready') + Net(unacked') = Net(ready) + Net(unacked) + k
    BY DEF Moves
  <1>5. \/ history'.recounted \/ history'.overwritten
        \/ btc_duty' + Net(ready') + Net(unacked') = history'.received - history'.funded
    <2> DEFINE a == Net(ready)
               b == Net(unacked)
               c == Net(ready')
               d == Net(unacked')
    <2>1. a \in Int /\ b \in Int /\ c \in Int /\ d \in Int /\ c + d = a + b + k
      BY <1>2, <1>4
    <2>2. history.recounted \/ history.overwritten
          \/ btc_duty + a + b = history.received - history.funded
      BY DEF DutyBalance
    <2> HIDE DEF a, b, c, d
    <2>3. \/ history'.recounted \/ history'.overwritten
          \/ btc_duty' + c + d = history'.received - history'.funded
      BY <1>3, <2>1, <2>2
    <2> QED
      BY <2>3 DEF c, d
  <1>6. DutyBalance'
    BY <1>5 DEF DutyBalance, Net, PaidInBy, PaidOutBy, PaidInOf, PaidOutOf, Payment, Total, Units
  <1> QED
    BY <1>1, <1>6 DEF DutyTold

\* A step that has nothing to do with the payments.
LEMMA DutyRests ==
  ASSUME DutyShape, DutyBalance, PaymentsSent', Moves(0),
         UNCHANGED <<btc_duty, history>>, pressing'.btc_duty \in Int
  PROVE  DutyTold'
  <1>1. /\ btc_duty \in Int /\ history \in Histories /\ 0 \in Int
        /\ history.received \in Int /\ history.funded \in Int
    BY DEF DutyShape, Histories
  <1>2. btc_duty' + 0 - btc_duty
          = history'.received - history'.funded - (history.received - history.funded)
    BY <1>1
  <1> QED
    BY <1>1, <1>2, DutyMoves
-----------------------------------------------------------------------------
LEMMA RowMoves ==
  ASSUME Sound(ready), Sound(unacked), RowNext
  PROVE  Moves(0)
  <1>1. CASE RowReceives
    <2>1. PICK type \in RowTypes : Receiving(type) /\ (Ack \/ LeaveUnacked \/ Acknowledge)
      BY <1>1 DEF RowReceives, LaunchPostponed, LaunchIgnored, LaunchSends, LaunchRaises,
                  DeployedIgnored, DeployedPostponed, DeployedRejected,
                  TransactionFailed, TransactionUnknown, RowTypes
    <2>2. ready # << >> /\ Weightless(Head(ready))
      BY <2>1 DEF Receiving, RowTypes, Weightless
    <2> QED
      BY <2>1, <2>2, HandledMoves
  <1>2. CASE Restart
    BY <1>2, JoinedMoves DEF Restart
  <1>3. ASSUME NEW i \in 1..MaxTxs, DeployMined(i)
        PROVE  Moves(0)
    <2> DEFINE m == Deployed(TRUE)
    <2>1. ready' = Append(ready, m) /\ UNCHANGED unacked
      BY <1>3 DEF DeployMined, Mined
    <2>2. Real(m) /\ Weightless(m)
      BY DEF Deployed, Real, Weightless
    <2> HIDE DEF m
    <2>3. Moves(NetOf(m)) /\ NetOf(m) = 0
      BY <2>1, <2>2, TellsMoves, WeightsAreNat
    <2> QED
      BY <2>3
  <1>4. ASSUME NEW i \in 1..MaxTxs, Reverted(i)
        PROVE  Moves(0)
    <2> DEFINE a == Deployed(FALSE)
               b == TxFailed(i)
               some == Append(ready, a)
    <2>1. UNCHANGED unacked /\ (ready' = ready \o <<a, b>> \/ ready' = ready \o <<b>>)
      BY <1>4 DEF Reverted, Reverts
    <2>2. Real(a) /\ Weightless(a) /\ Real(b) /\ Weightless(b)
      BY DEF Deployed, TxFailed, Real, Weightless
    <2> HIDE DEF a, b
    <2>3. ready' = Append(some, b) \/ ready' = Append(ready, b)
      BY <2>1, ToldOneByOne DEF Sound
    <2>4. NetOf(a) = 0 /\ NetOf(b) = 0
      BY <2>2, WeightsAreNat
    <2>5. CASE ready' = Append(ready, b)
      BY <2>1, <2>2, <2>4, <2>5, TellsMoves
    <2>6. CASE ready' = Append(some, b)
      <3>1. Sound(some) /\ Net(some) = Net(ready) + NetOf(a)
        BY <2>2, NetAppended
      <3> HIDE DEF some
      <3>2. Sound(ready') /\ Net(ready') = Net(some) + NetOf(b)
        BY <2>2, <2>6, <3>1, NetAppended
      <3>3. Net(ready) \in Int /\ Net(unacked) \in Int
        BY SoundWeights
      <3> QED
        BY <2>1, <2>4, <3>1, <3>2, <3>3 DEF Moves
    <2> QED
      BY <2>3, <2>5, <2>6
  <1> QED
    BY <1>1, <1>2, <1>3, <1>4 DEF RowNext

\* The receiver's handlers that tell of no payment.
LEMMA WillHandlersDuty ==
  ASSUME DutyShape, DutyBalance,
         \/ WillDeployed \/ WillDeployedCutOff \/ WillDeployedNotMailed
         \/ WillChecked \/ WillTriggered \/ WillTriggeredNotMailed \/ WillKilled
         \/ WillCheckContract \/ WillConfirmAlive \/ WillCancel \/ WillNotified
         \/ WillMakePayment
  PROVE  DutyTold'
  <1> DEFINE types == {"deployed", "checked", "triggered", "killed", "check_contract",
                       "repeat_check", "confirm_alive", "cancel", "notified",
                       "make_payment"}
  <1>1. \E type \in types : Receiving(type)
    BY DEF WillDeployed, WillDeployedCutOff, WillDeployedNotMailed, WillChecked, WillTriggered,
           WillTriggeredNotMailed, WillKilled, WillCheckContract, WillConfirmAlive,
           WillCancel, WillNotified, WillMakePayment, DeployedAccepted
  <1>2. LeaveUnacked \/ Acknowledge
    BY DEF WillDeployed, WillDeployedCutOff, WillDeployedNotMailed, WillChecked, WillTriggered,
           WillTriggeredNotMailed, WillKilled, WillCheckContract, WillConfirmAlive,
           WillCancel, WillNotified, WillMakePayment, Acknowledge
  <1>3. ready # << >> /\ Weightless(Head(ready))
    BY <1>1 DEF Receiving, Weightless
  <1>4. Moves(0)
    BY <1>2, <1>3, HandledMoves DEF DutyShape
  <1>5. UNCHANGED <<btc_duty, pressing>>
    BY DEF WillDeployed, WillDeployedCutOff, WillDeployedNotMailed, WillChecked, WillTriggered,
           WillTriggeredNotMailed, WillKilled, WillCheckContract, WillConfirmAlive,
           WillCancel, WillNotified, WillMakePayment, willVars, willDetails, willOthers
  <1>6. PaymentsSent'
    <2>1. btc_duty >= 0 => {btc_duty} \subseteq Nat
      BY DEF DutyShape
    <2>2. \/ UNCHANGED chain
          \/ \E call, with : Send(call, with) /\ (call = "payment" => with \subseteq Nat)
      <3>1. CASE WillMakePayment
        BY <2>1, <3>1 DEF WillMakePayment, SendsNothing
      <3>2. CASE WillCheckContract \/ WillConfirmAlive \/ WillCancel
        BY <3>2 DEF WillCheckContract, WillConfirmAlive, WillCancel, SendsNothing, network
      <3>3. CASE \/ WillDeployed \/ WillDeployedCutOff \/ WillDeployedNotMailed
                 \/ WillChecked \/ WillTriggered \/ WillTriggeredNotMailed
                 \/ WillKilled \/ WillNotified
        BY <3>3 DEF WillDeployed, WillDeployedCutOff, WillDeployedNotMailed, WillChecked,
                    WillTriggered, WillTriggeredNotMailed, WillKilled, WillNotified,
                    network
      <3> QED
        BY <3>1, <3>2, <3>3
    <2> QED
      BY <2>2, PaymentsSentKept DEF DutyShape
  <1>7. CASE WillDeployedCutOff
    <2>1. history' = [history EXCEPT !.unscheduled = TRUE]
      BY <1>7 DEF WillDeployedCutOff
    <2>2. /\ history' \in Histories
          /\ history'.received = history.received /\ history'.funded = history.funded
          /\ history'.recounted = history.recounted
          /\ history'.overwritten = history.overwritten
      BY <2>1 DEF DutyShape, Histories
    <2>3. /\ btc_duty \in Int /\ history.received \in Int /\ history.funded \in Int
          /\ pressing.btc_duty \in Int
      BY DEF DutyShape, Histories
    <2>4. btc_duty' + 0 - btc_duty
            = history'.received - history'.funded - (history.received - history.funded)
      BY <1>5, <2>2, <2>3
    <2> QED
      BY <1>4, <1>5, <1>6, <2>2, <2>3, <2>4, DutyMoves
  <1>8. CASE ~WillDeployedCutOff
    <2>1. UNCHANGED history
      BY <1>8 DEF WillDeployed, WillDeployedNotMailed, WillChecked, WillTriggered,
           WillTriggeredNotMailed, WillKilled, WillCheckContract, WillConfirmAlive,
           WillCancel, WillNotified, WillMakePayment, willVars
    <2> QED
      BY <1>4, <1>5, <1>6, <2>1, DutyRests DEF DutyShape
  <1> QED
    BY <1>7, <1>8

LEMMA ContractPaymentDuty ==
  ASSUME DutyShape, DutyBalance, WillContractPayment
  PROVE  DutyTold'
  <1>1. /\ ready # << >> /\ Head(ready).type = "contractPayment"
        /\ btc_duty' = btc_duty + 1
        /\ UNCHANGED <<chain, pressing>>
    BY DEF WillContractPayment, Receiving, network, willOthers
  <1>2. PaymentsSent'
    BY <1>1, PaymentsSentKept DEF DutyShape
  <1>3. /\ Sound(Tail(ready)) /\ Real(Head(ready)) /\ Sound(ready) /\ Sound(unacked)
        /\ Net(ready) = NetOf(Head(ready)) + Net(Tail(ready))
    BY <1>1, NetTaken DEF DutyShape
  <1>4. NetOf(Head(ready)) = 1
    <2>1. Head(ready) = Payment
      BY <1>1, <1>3 DEF Real
    <2> QED
      BY <2>1 DEF NetOf, PaidInOf, PaidOutOf, Payment
  <1>5. Real(MakePay) /\ NetOf(MakePay) = 0
    BY WeightsAreNat DEF Real, MakePay, Weightless
  <1>6. /\ btc_duty \in Int /\ history \in Histories /\ pressing.btc_duty \in Int
        /\ history.received \in Int /\ history.funded \in Int
    BY DEF DutyShape, Histories
  <1>7. /\ Net(ready) \in Int /\ Net(unacked) \in Int /\ Net(Tail(ready)) \in Int
    BY <1>3, SoundWeights
  <1>8. CASE ready' = Append(Tail(ready), MakePay) /\ UNCHANGED <<unacked, history>>
    <2>1. Sound(ready') /\ Net(ready') = Net(Tail(ready)) + NetOf(MakePay)
      BY <1>3, <1>5, <1>8, NetAppended
    <2>2. Moves(0 - 1)
      BY <1>3, <1>4, <1>5, <1>7, <1>8, <2>1 DEF Moves
    <2>3. btc_duty' + (0 - 1) - btc_duty
            = history'.received - history'.funded - (history.received - history.funded)
      BY <1>1, <1>6, <1>8
    <2> QED
      BY <1>1, <1>2, <1>6, <1>8, <2>2, <2>3, DutyMoves
  <1>9. CASE /\ LeaveUnacked \/ (ready' = unacked \o Append(ready, MakePay) /\ unacked' = << >>)
             /\ history' = [history EXCEPT !.recounted = TRUE]
    <2>1. history' \in Histories /\ history'.recounted
      BY <1>6, <1>9 DEF Histories
    <2>2. Sound(ready') /\ Sound(unacked')
      <3>1. CASE LeaveUnacked
        <4>1. ready' = Tail(ready) /\ unacked' = Append(unacked, Head(ready))
          BY <3>1 DEF LeaveUnacked, Message
        <4> QED
          BY <1>3, <4>1, NetAppended
      <3>2. CASE ready' = unacked \o Append(ready, MakePay) /\ unacked' = << >>
        <4> DEFINE some == Append(ready, MakePay)
        <4>1. Sound(some)
          BY <1>3, <1>5, NetAppended
        <4>2. ready' = unacked \o some
          BY <3>2
        <4> HIDE DEF some
        <4>3. Sound(ready')
          BY <1>3, <4>1, <4>2, NetJoined
        <4> QED
          BY <3>2, <4>3, NetOfNone
      <3> QED
        BY <1>9, <3>1, <3>2
    <2>3. btc_duty' \in Int /\ pressing'.btc_duty \in Int
      BY <1>1, <1>6
    <2> QED
      BY <1>2, <2>1, <2>2, <2>3 DEF DutyTold, DutyShape, DutyBalance
  <1> QED
    BY <1>8, <1>9 DEF WillContractPayment

LEMMA FundsAddedDuty ==
  ASSUME DutyShape, DutyBalance, WillFundsAdded
  PROVE  DutyTold'
  <1>1. /\ ready # << >> /\ Head(ready).type = "fundsAdded"
        /\ btc_duty' = btc_duty - Head(ready).value
        /\ UNCHANGED <<chain, pressing>>
    BY DEF WillFundsAdded, Receiving, network, willOthers, DutyPaid, Message
  <1>2. PaymentsSent'
    BY <1>1, PaymentsSentKept DEF DutyShape
  <1>3. /\ Sound(Tail(ready)) /\ Real(Head(ready)) /\ Sound(ready) /\ Sound(unacked)
        /\ Net(ready) = NetOf(Head(ready)) + Net(Tail(ready))
    BY <1>1, NetTaken DEF DutyShape
  <1>4. NetOf(Head(ready)) = 0 - Head(ready).value /\ Head(ready).value \in Nat
    <2>1. Head(ready) # Payment /\ Head(ready).value \in Nat
      BY <1>1, <1>3 DEF Real, Payment
    <2> QED
      BY <1>1, <2>1 DEF NetOf, PaidInOf, PaidOutOf
  <1>5. /\ btc_duty \in Int /\ history \in Histories /\ pressing.btc_duty \in Int
        /\ history.received \in Int /\ history.funded \in Int
    BY DEF DutyShape, Histories
  <1>6. Net(ready) \in Int /\ Net(unacked) \in Int /\ Net(Tail(ready)) \in Int
    BY <1>3, SoundWeights
  <1>7. btc_duty' \in Int /\ pressing'.btc_duty \in Int
    BY <1>1, <1>4, <1>5
  <1>8. CASE Ack /\ UNCHANGED history
    <2> DEFINE v == Head(ready).value
    <2>1. Moves(v)
      BY <1>3, <1>4, <1>6, <1>8 DEF Ack, Moves
    <2>2. v \in Int /\ btc_duty' = btc_duty - v
      BY <1>1, <1>4
    <2> HIDE DEF v
    <2>3. btc_duty' + v - btc_duty
            = history'.received - history'.funded - (history.received - history.funded)
      BY <1>5, <1>8, <2>2
    <2> QED
      BY <1>2, <1>5, <1>7, <1>8, <2>1, <2>2, <2>3, DutyMoves
  <1>9. CASE DeliveredAgain /\ history' = [history EXCEPT !.recounted = TRUE]
    <2>1. history' \in Histories /\ history'.recounted
      BY <1>5, <1>9 DEF Histories
    <2>2. Sound(ready') /\ Sound(unacked')
      BY <1>3, <1>9, JoinedMoves DEF DeliveredAgain, Moves
    <2> QED
      BY <1>2, <1>7, <2>1, <2>2 DEF DutyTold, DutyShape, DutyBalance
  <1> QED
    BY <1>8, <1>9 DEF WillFundsAdded

\* What is published for a will that tells of no payment.
LEMMA WillCallsDuty ==
  ASSUME DutyShape, DutyBalance, CheckerAsks \/ PressAlive \/ PressCancel
  PROVE  DutyTold'
  <1>1. PICK m \in {Check, Confirm, Cancel} :
          ready' = Append(ready, m) /\ UNCHANGED unacked
    BY DEF CheckerAsks, PressAlive, PressCancel, Publish
  <1>2. Real(m) /\ NetOf(m) = 0
    BY WeightsAreNat DEF Check, Confirm, Cancel, Real, Weightless
  <1>3. Moves(0)
    BY <1>1, <1>2, TellsMoves DEF DutyShape
  <1>4. /\ UNCHANGED <<chain, btc_duty, history>>
        /\ pressing'.btc_duty = pressing.btc_duty \/ pressing'.btc_duty = btc_duty
    BY DEF CheckerAsks, PressAlive, PressCancel, willVars, willDetails, willOthers, network
  <1>5. PaymentsSent'
    BY <1>4, PaymentsSentKept DEF DutyShape
  <1> QED
    BY <1>3, <1>4, <1>5, DutyRests DEF DutyShape

\* The steps of the checker, the alive view and the clock that publish nothing.
LEMMA WillAlonesDuty ==
  ASSUME DutyShape, DutyBalance,
         \/ CheckerReads \/ CheckerExpires \/ CheckerPasses \/ PressSaved
         \/ Tick /\ UNCHANGED willVars
  PROVE  DutyTold'
  <1>1. UNCHANGED <<ready, unacked, chain>>
    BY DEF CheckerReads, CheckerExpires, CheckerPasses, PressSaved, Tick, rowVars, queue, network
  <1>2. Moves(0)
    <2>1. Net(ready) \in Int /\ Net(unacked) \in Int
      BY SoundWeights DEF DutyShape
    <2> QED
      BY <1>1, <2>1 DEF Moves, DutyShape
  <1>3. PaymentsSent'
    BY <1>1, PaymentsSentKept DEF DutyShape
  <1>4. CASE PressSaved
    <2> DEFINE stale == pressing.next_check # next_check \/ pressing.btc_duty # btc_duty
    <2>1. /\ btc_duty' = pressing.btc_duty /\ pressing' = NoRequest
          /\ history' = [history EXCEPT !.overwritten = @ \/ stale]
      BY <1>4 DEF PressSaved
    <2>2. /\ btc_duty \in Int /\ pressing.btc_duty \in Int /\ history \in Histories
          /\ history.received \in Int /\ history.funded \in Int
      BY DEF DutyShape, Histories
    <2>3. /\ history' \in Histories
          /\ history'.received = history.received /\ history'.funded = history.funded
          /\ history'.recounted = history.recounted
          /\ history'.overwritten = (history.overwritten \/ stale)
      <3> HIDE DEF stale
      <3>1. (history.overwritten \/ stale) \in BOOLEAN
        OBVIOUS
      <3> QED
        BY <2>1, <2>2, <3>1 DEF Histories
    <2>4. pressing'.btc_duty \in Int
      BY <2>1 DEF NoRequest
    <2>5. history.recounted \/ history.overwritten => history'.recounted \/ history'.overwritten
      BY <2>3, Zenon
    <2>6. stale => history'.overwritten
      BY <2>3, Zenon
    <2>7. CASE stale
      BY <1>3, <2>1, <2>2, <2>3, <2>4, <2>6, <2>7, <1>2 DEF DutyTold, DutyShape, DutyBalance, Moves
    <2>8. CASE ~stale
      <3>1. btc_duty' + 0 - btc_duty
              = history'.received - history'.funded - (history.received - history.funded)
        BY <2>1, <2>2, <2>3, <2>8
      <3>2. 0 \in Int /\ btc_duty' \in Int
        BY <2>1, <2>2
      <3> HIDE DEF stale
      <3> QED
        BY <1>2, <1>3, <2>3, <2>4, <2>5, <3>1, <3>2, DutyMoves
    <2> QED
      BY <2>7, <2>8
  <1>5. CASE ~PressSaved
    <2>1. UNCHANGED <<btc_duty, history, pressing>>
      BY <1>5 DEF CheckerReads, CheckerExpires, CheckerPasses, Tick, willVars, willDetails,
                  willOthers
    <2> QED
      BY <1>2, <1>3, <2>1, DutyRests DEF DutyShape
  <1> QED
    BY <1>4, <1>5

LEMMA BitcoinDuty ==
  ASSUME DutyShape, DutyBalance, BitcoinArrives
  PROVE  DutyTold'
  <1>1. /\ ready' = Append(ready, Payment) /\ UNCHANGED <<unacked, chain, btc_duty, pressing>>
        /\ history' = [history EXCEPT !.received = @ + 1]
    BY DEF BitcoinArrives, Publish, network, willDetails, willOthers
  <1>2. Real(Payment) /\ NetOf(Payment) = 1
    BY DEF Real, Payment, NetOf, PaidInOf, PaidOutOf
  <1>3. Moves(1)
    BY <1>1, <1>2, TellsMoves DEF DutyShape
  <1>4. /\ btc_duty \in Int /\ pressing.btc_duty \in Int /\ history \in Histories
        /\ history.received \in Int /\ history.funded \in Int
    BY DEF DutyShape, Histories
  <1>5. /\ history' \in Histories
        /\ history'.received = history.received + 1 /\ history'.funded = history.funded
        /\ history'.recounted = history.recounted
        /\ history'.overwritten = history.overwritten
    BY <1>1, <1>4 DEF Histories
  <1>6. PaymentsSent'
    BY <1>1, PaymentsSentKept DEF DutyShape
  <1>7. btc_duty' + 1 - btc_duty
          = history'.received - history'.funded - (history.received - history.funded)
    BY <1>1, <1>4, <1>5
  <1>8. history.recounted \/ history.overwritten => history'.recounted \/ history'.overwritten
    BY <1>5
  <1>9. 1 \in Int /\ btc_duty' \in Int /\ pressing'.btc_duty \in Int
    BY <1>1, <1>4
  <1> QED
    BY <1>3, <1>5, <1>6, <1>7, <1>8, <1>9, DutyMoves

LEMMA WillMinedDuty ==
  ASSUME DutyShape, DutyBalance, WillMined
  PROVE  DutyTold'
  <1>1. PICK i \in DOMAIN chain :
          /\ chain' = [chain EXCEPT ![i] = Settled]
          /\ UNCHANGED unacked
          /\ \/ /\ \E m \in {Checked, Trigger, Repeat, Notified, Killed} : ready' = Append(ready, m)
                /\ UNCHANGED history
             \/ /\ chain[i].call = "payment"
                /\ \E v \in chain[i].with : /\ ready' = Append(ready, Funds(v))
                                            /\ history' = [history EXCEPT !.funded = @ + v]
    BY DEF WillMined, CallMined, Mined, Pending
  <1>2. PaymentsSent'
    BY <1>1, PaymentsSentKept DEF DutyShape
  <1>3. UNCHANGED <<btc_duty, pressing>>
    BY DEF WillMined, willDetails, willOthers
  <1>4. /\ btc_duty \in Int /\ pressing.btc_duty \in Int /\ history \in Histories
        /\ history.received \in Int /\ history.funded \in Int
    BY DEF DutyShape, Histories
  <1>5. CASE /\ \E m \in {Checked, Trigger, Repeat, Notified, Killed} : ready' = Append(ready, m)
             /\ UNCHANGED history
    <2>1. PICK m \in {Checked, Trigger, Repeat, Notified, Killed} : ready' = Append(ready, m)
      BY <1>5
    <2>2. Real(m) /\ Weightless(m)
      BY DEF Checked, Trigger, Repeat, Notified, Killed, Real, Weightless
    <2>3. Moves(0)
      BY <1>1, <2>1, <2>2, TellsMoves, WeightsAreNat DEF DutyShape
    <2> QED
      BY <1>2, <1>3, <1>4, <1>5, <2>3, DutyRests
  <1>6. ASSUME chain[i].call = "payment", NEW v \in chain[i].with,
               ready' = Append(ready, Funds(v)), history' = [history EXCEPT !.funded = @ + v]
        PROVE  DutyTold'
    <2>1. v \in Nat
      BY <1>6 DEF DutyShape, PaymentsSent
    <2>2. Real(Funds(v)) /\ NetOf(Funds(v)) = 0 - v
      <3>1. Funds(v).type = "fundsAdded" /\ Funds(v).value = v /\ Funds(v) # Payment
        BY DEF Funds, Payment
      <3> QED
        BY <2>1, <3>1 DEF Real, NetOf, PaidInOf, PaidOutOf
    <2>3. Moves(0 - v)
      BY <1>1, <1>6, <2>2, TellsMoves DEF DutyShape
    <2>4. /\ history' \in Histories
          /\ history'.received = history.received /\ history'.funded = history.funded + v
          /\ history'.recounted = history.recounted
          /\ history'.overwritten = history.overwritten
      BY <1>4, <1>6, <2>1 DEF Histories
    <2>5. /\ btc_duty' + (0 - v) - btc_duty
               = history'.received - history'.funded - (history.received - history.funded)
          /\ 0 - v \in Int
      BY <1>3, <1>4, <2>1, <2>4
    <2> QED
      BY <1>2, <1>3, <1>4, <2>3, <2>4, <2>5, DutyMoves
  <1> QED
    BY <1>1, <1>5, <1>6

LEMMA DutyKeeps ==
  ASSUME DutyShape, DutyBalance, kind = "rsklastwill", WillNext
  PROVE  DutyTold'
  <1>1. CASE RowNext /\ UNCHANGED willVars
    <2>1. PaymentsSent'
      <3>1. \/ UNCHANGED chain
            \/ \E call, with : Send(call, with) /\ (call = "payment" => with \subseteq Nat)
            \/ \E i \in DOMAIN chain : chain' = [chain EXCEPT ![i] = Settled]
        <4>1. "deploy" # "payment"
          OBVIOUS
        <4> QED
          BY <1>1, <4>1, RowSends
      <3> QED
        BY <3>1, PaymentsSentKept DEF DutyShape
    <2>2. Moves(0)
      BY <1>1, RowMoves DEF DutyShape
    <2>3. UNCHANGED <<btc_duty, history, pressing>>
      BY <1>1 DEF willVars, willDetails, willOthers
    <2> QED
      BY <2>1, <2>2, <2>3, DutyRests DEF DutyShape
  <1>2. CASE WillReceives
    BY <1>2, WillHandlersDuty, ContractPaymentDuty, FundsAddedDuty DEF WillReceives
  <1>3. CASE (Tick /\ UNCHANGED willVars) \/ WillChecks \/ PressAlive \/ PressSaved \/ PressCancel
    BY <1>3, WillCallsDuty, WillAlonesDuty DEF WillChecks
  <1>4. ~DelayedPaymentPays
    BY DEF DelayedPaymentPays
  <1> QED
    BY <1>1, <1>2, <1>3, <1>4, BitcoinDuty, WillMinedDuty DEF WillNext

LEMMA DutyInit == Init => DutyTold
  <1> SUFFICES ASSUME Init, kind = "rsklastwill" PROVE DutyTold
    BY DEF DutyTold
  <1>1. RowInit /\ WillInit
    BY DEF Init, ProtectorInit, AirdropInit, PoolInit, AirdropKinds, PoolKinds
  <1> DEFINE none == << >>
             one  == Append(none, Launch)
  <1>2. Sound(none) /\ Net(none) = 0
    BY NetOfNone
  <1>3. Real(Launch) /\ NetOf(Launch) = 0
    BY WeightsAreNat DEF Real, Launch, Weightless
  <1>4. Sound(one) /\ Net(one) = 0
    <2> HIDE DEF none
    <2> QED
      BY <1>2, <1>3, NetAppended
  <1>5. ready = one /\ unacked = none /\ chain = none
    BY <1>1 DEF RowInit, WillInit
  <1>6. OfSome(none) /\ Len(none) = 0 /\ DOMAIN none = {}
    BY Empty
  <1>7. PaymentsSent
    <2> HIDE DEF none
    <2> QED
      BY <1>5, <1>6, RowBoundsAreNat DEF PaymentsSent
  <1> HIDE DEF none, one
  <1>8. /\ btc_duty = 0 /\ pressing.btc_duty = 0 /\ history \in Histories
        /\ history.received = 0 /\ history.funded = 0
    BY <1>1 DEF WillInit, NoRequest, NoHistory, Histories
  <1> QED
    BY <1>2, <1>4, <1>5, <1>7, <1>8 DEF DutyTold, DutyShape, DutyBalance

LEMMA DutyStep == DutyTold /\ [Next]_lifeVars => DutyTold'
  <1> SUFFICES ASSUME DutyTold, [Next]_lifeVars, kind = "rsklastwill"
               PROVE  DutyTold'
    BY KindStays DEF DutyTold
  <1>1. DutyShape /\ DutyBalance
    BY DEF DutyTold
  <1>2. CASE WillStep
    BY <1>1, <1>2, DutyKeeps DEF WillStep
  <1>3. CASE UNCHANGED lifeVars
    <2>1. UNCHANGED <<ready, unacked, chain, btc_duty, history, pressing>>
      BY <1>3 DEF lifeVars, rowVars, queue, network, willVars, willDetails, willOthers
    <2>2. PaymentsSent'
      BY <1>1, <2>1, PaymentsSentKept DEF DutyShape
    <2>3. Net(ready) \in Int /\ Net(unacked) \in Int
      BY <1>1, SoundWeights DEF DutyShape
    <2>4. Moves(0)
      BY <1>1, <2>1, <2>3 DEF Moves, DutyShape
    <2> QED
      BY <1>1, <2>1, <2>2, <2>4, DutyRests DEF DutyShape
  <1>4. ~ProtectorStep /\ ~AirdropStep /\ ~PoolStep
    BY DEF ProtectorStep, AirdropStep, PoolStep, AirdropKinds, PoolKinds
  <1> QED
    BY <1>2, <1>3, <1>4 DEF Next

\* For any number of payments, transactions and crashes: what a Rootstock
\* will is owed, with what the queue has yet to tell, is what was paid in
\* less what was paid out (lastwill.py, contractPayment and fundsAdded),
\* unless a message is handled twice or an old duty is written back.
THEOREM DutyAlwaysAddsUp == Spec => []DutyAddsUp
  <1>1. DutyTold => DutyAddsUp
    <2> SUFFICES ASSUME DutyTold, kind = "rsklastwill",
                        ~history.recounted, ~history.overwritten
                 PROVE  btc_duty + PaidInBy(ready) + PaidInBy(unacked)
                          - PaidOutBy(ready) - PaidOutBy(unacked)
                        = history.received - history.funded
      BY DEF DutyAddsUp
    <2>1. /\ btc_duty + Net(ready) + Net(unacked) = history.received - history.funded
          /\ Sound(ready) /\ Sound(unacked) /\ btc_duty \in Int
      BY DEF DutyTold, DutyShape, DutyBalance
    <2>2. /\ PaidInBy(ready) \in Nat /\ PaidOutBy(ready) \in Nat
          /\ PaidInBy(unacked) \in Nat /\ PaidOutBy(unacked) \in Nat
      BY <2>1, SoundWeights
    <2> QED
      BY <2>1, <2>2 DEF Net
  <1> QED
    BY <1>1, DutyInit, DutyStep, PTL DEF Spec, Safety
-----------------------------------------------------------------------------
(***************************************************************************)
(* The list of an airdrop.  A message marks no row twice, and of an entry  *)
(* no more rows than it names the entry: the lookups of a message are as   *)
(* many as its addresses, two at most.                                     *)
(***************************************************************************)
Counts == [Entries -> [RowStates -> Nat]]

\* What lookups may have taken, that were n[e] for each entry.
Takes(taken, n) ==
  /\ taken \in Counts
  /\ \A e \in Entries :
       /\ \A s \in RowStates : taken[e][s] <= rows[e][s]
       /\ \A s \in RowStates \ {"added", "processing"} : taken[e][s] = 0
       /\ taken[e]["added"] + taken[e]["processing"] <= n[e]

FindsFrom(found, n) ==
  /\ found.old \in {"added", "processing"}
  /\ DOMAIN found = {"old", "taken"}
  /\ Takes(found.taken, n)

Adds(n, e) == [n EXCEPT ![e] = @ + 1]

LEMMA AddsIsNat ==
  ASSUME NEW n \in [Entries -> Nat], NEW e \in Entries
  PROVE  Adds(n, e) \in [Entries -> Nat]
  BY DEF Adds

LEMMA OneMoreTaken ==
  ASSUME rows \in Counts, NEW n \in [Entries -> Nat], NEW taken, Takes(taken, n),
         NEW e \in Entries, NEW s \in {"added", "processing"},
         rows[e][s] > taken[e][s]
  PROVE  Takes([taken EXCEPT ![e][s] = @ + 1], Adds(n, e))
  <1> DEFINE new == [taken EXCEPT ![e][s] = @ + 1]
  <1>1. s \in RowStates /\ taken \in Counts
    BY DEF RowStates, Takes
  <1>2. /\ new \in [Entries -> [RowStates -> Nat]]
        /\ \A x \in Entries : \A t \in RowStates :
             new[x][t] = IF x = e /\ t = s THEN taken[x][t] + 1 ELSE taken[x][t]
    <2> DEFINE row == [taken[e] EXCEPT ![s] = @ + 1]
    <2>1. taken[e] \in [RowStates -> Nat]
      BY <1>1 DEF Counts
    <2>2. /\ row \in [RowStates -> Nat]
          /\ \A t \in RowStates : row[t] = IF t = s THEN taken[e][t] + 1 ELSE taken[e][t]
      BY <1>1, <2>1
    <2>3. new = [taken EXCEPT ![e] = row]
      OBVIOUS
    <2> HIDE DEF row, new
    <2>4. /\ new \in [Entries -> [RowStates -> Nat]]
          /\ \A x \in Entries : new[x] = IF x = e THEN row ELSE taken[x]
      BY <1>1, <2>2, <2>3 DEF Counts
    <2> QED
      BY <2>2, <2>4
  <1> HIDE DEF new
  <1>3. \A x \in Entries : Adds(n, e)[x] = IF x = e THEN n[x] + 1 ELSE n[x]
    BY DEF Adds
  <1>4. \A x \in Entries : rows[x] \in [RowStates -> Nat] /\ taken[x] \in [RowStates -> Nat]
    BY <1>1 DEF Counts
  <1>5. ASSUME NEW x \in Entries, NEW t \in RowStates
        PROVE  /\ new[x][t] <= rows[x][t]
               /\ t \notin {"added", "processing"} => new[x][t] = 0
    <2>1. rows[x][t] \in Nat /\ taken[x][t] \in Nat /\ taken[x][t] <= rows[x][t]
      BY <1>4 DEF Takes
    <2> QED
      BY <1>2, <2>1 DEF Takes
  <1>6. ASSUME NEW x \in Entries
        PROVE  new[x]["added"] + new[x]["processing"] <= Adds(n, e)[x]
    <2>1. /\ taken[x]["added"] \in Nat /\ taken[x]["processing"] \in Nat
          /\ taken[x]["added"] + taken[x]["processing"] <= n[x]
          /\ "added" \in RowStates /\ "processing" \in RowStates
          /\ n[x] \in Nat
      BY <1>4 DEF Takes, RowStates
    <2>2. /\ new[x]["added"] = IF x = e /\ "added" = s
                                 THEN taken[x]["added"] + 1 ELSE taken[x]["added"]
          /\ new[x]["processing"] = IF x = e /\ "processing" = s
                                      THEN taken[x]["processing"] + 1 ELSE taken[x]["processing"]
      BY <1>2, <2>1
    <2>3. CASE x = e
      BY <1>3, <2>1, <2>2, <2>3
    <2>4. CASE x # e
      BY <1>3, <2>1, <2>2, <2>4
    <2> QED
      BY <2>3, <2>4
  <1>7. Takes(new, Adds(n, e))
    BY <1>2, <1>5, <1>6 DEF Takes, Counts
  <1> QED
    BY <1>7 DEF new

LEMMA NoMoreTaken ==
  ASSUME NEW n \in [Entries -> Nat], NEW taken, Takes(taken, n), NEW e \in Entries
  PROVE  Takes(taken, Adds(n, e))
  <1>1. \A x \in Entries : n[x] \in Nat /\ Adds(n, e)[x] \in Nat /\ n[x] <= Adds(n, e)[x]
    BY DEF Adds
  <1>2. ASSUME NEW x \in Entries
        PROVE  taken[x]["added"] + taken[x]["processing"] <= Adds(n, e)[x]
    <2>1. /\ taken[x]["added"] \in Nat /\ taken[x]["processing"] \in Nat
          /\ taken[x]["added"] + taken[x]["processing"] <= n[x]
      BY DEF Takes, Counts, RowStates
    <2> QED
      BY <1>1, <2>1
  <1> QED
    BY <1>2 DEF Takes

LEMMA LookupFinds ==
  ASSUME rows \in Counts, NEW n \in [Entries -> Nat], NEW status, NEW found,
         FindsFrom(found, n), NEW e \in Entries
  PROVE  FindsFrom(Lookup(status, found, e), Adds(n, e))
  <1>1. Takes(found.taken, n) /\ found.old \in {"added", "processing"}
    BY DEF FindsFrom
  <1>2. Takes(found.taken, Adds(n, e))
    BY <1>1, NoMoreTaken
  <1>3. ASSUME NEW s \in {"added", "processing"}, rows[e][s] > found.taken[e][s]
        PROVE  FindsFrom([old |-> s, taken |-> [found.taken EXCEPT ![e][s] = @ + 1]], Adds(n, e))
    <2> DEFINE new == [found.taken EXCEPT ![e][s] = @ + 1]
    <2>1. Takes(new, Adds(n, e))
      BY <1>1, <1>3, OneMoreTaken
    <2> HIDE DEF new
    <2>2. FindsFrom([old |-> s, taken |-> new], Adds(n, e))
      BY <2>1 DEF FindsFrom
    <2> QED
      BY <2>2 DEF new
  <1>4. CASE rows[e][found.old] > found.taken[e][found.old]
    BY <1>1, <1>3, <1>4 DEF Lookup
  <1>5. CASE ~(rows[e][found.old] > found.taken[e][found.old]) /\ status # "COMMITTED"
    <2>1. Lookup(status, found, e) = found
      BY <1>5 DEF Lookup
    <2> QED
      BY <1>2, <2>1 DEF FindsFrom
  <1>6. CASE /\ ~(rows[e][found.old] > found.taken[e][found.old]) /\ status = "COMMITTED"
             /\ rows[e]["added"] > found.taken[e]["added"]
    BY <1>3, <1>6 DEF Lookup
  <1>7. CASE /\ ~(rows[e][found.old] > found.taken[e][found.old]) /\ status = "COMMITTED"
             /\ ~(rows[e]["added"] > found.taken[e]["added"])
    <2> DEFINE new == [found EXCEPT !.old = "added"]
    <2>1. Lookup(status, found, e) = new
      BY <1>7 DEF Lookup
    <2>2. new.old = "added" /\ new.taken = found.taken /\ DOMAIN new = {"old", "taken"}
      BY DEF FindsFrom
    <2> HIDE DEF new
    <2> QED
      BY <1>2, <2>1, <2>2 DEF FindsFrom
  <1> QED
    BY <1>4, <1>5, <1>6, <1>7

Named(drop) == [e \in Entries |-> Occurrences(drop, e)]

LEMMA NoneNamed == ASSUME NEW drop, drop = << >> PROVE Named(drop) = [e \in Entries |-> 0]
  <1>1. \A e \in Entries : {i \in DOMAIN drop : drop[i] = e} = {}
    OBVIOUS
  <1> QED
    BY <1>1, FS_EmptySet DEF Named, Occurrences

LEMMA OneNamed ==
  ASSUME NEW a \in Entries
  PROVE  Named(<<a>>) = Adds([e \in Entries |-> 0], a)
  <1> DEFINE drop == <<a>>
  <1>1. DOMAIN drop = {1} /\ drop[1] = a
    OBVIOUS
  <1> HIDE DEF drop
  <1>2. \A e \in Entries : {i \in DOMAIN drop : drop[i] = e} = IF e = a THEN {1} ELSE {}
    BY <1>1
  <1>3. Cardinality({1}) = 1 /\ Cardinality({}) = 0
    BY FS_Singleton, FS_EmptySet
  <1>4. \A e \in Entries : Occurrences(drop, e) = IF e = a THEN 1 ELSE 0
    BY <1>2, <1>3 DEF Occurrences
  <1>5. Named(drop) = [e \in Entries |-> IF e = a THEN 1 ELSE 0]
    BY <1>4 DEF Named
  <1>6. Adds([e \in Entries |-> 0], a) = [e \in Entries |-> IF e = a THEN 1 ELSE 0]
    BY DEF Adds
  <1> QED
    BY <1>5, <1>6 DEF drop

LEMMA TwoNamed ==
  ASSUME NEW a \in Entries, NEW b \in Entries
  PROVE  Named(<<a, b>>) = Adds(Adds([e \in Entries |-> 0], a), b)
  <1> DEFINE drop == <<a, b>>
             both == {1, 2}
  <1>1. DOMAIN drop = both /\ drop[1] = a /\ drop[2] = b
    OBVIOUS
  <1> HIDE DEF drop
  <1>2. \A e \in Entries : {i \in DOMAIN drop : drop[i] = e}
           = IF e = a /\ e = b THEN both
             ELSE IF e = a THEN {1} ELSE IF e = b THEN {2} ELSE {}
    BY <1>1
  <1>3. /\ Cardinality({1}) = 1 /\ Cardinality({2}) = 1 /\ Cardinality({}) = 0
        /\ Cardinality(both) = 2
    <2>1. IsFiniteSet({1}) /\ Cardinality({1}) = 1 /\ Cardinality({2}) = 1
      BY FS_Singleton
    <2>2. Cardinality({1} \cup {2}) = Cardinality({1}) + 1
      BY <2>1, FS_AddElement
    <2>3. both = {1} \cup {2}
      OBVIOUS
    <2> QED
      BY <2>1, <2>2, <2>3, FS_EmptySet
  <1> HIDE DEF both
  <1>4. \A e \in Entries : Occurrences(drop, e)
           = IF e = a /\ e = b THEN 2 ELSE IF e = a \/ e = b THEN 1 ELSE 0
    BY <1>2, <1>3 DEF Occurrences
  <1>5. Named(drop) = [e \in Entries |-> IF e = a /\ e = b THEN 2
                                         ELSE IF e = a \/ e = b THEN 1 ELSE 0]
    BY <1>4 DEF Named
  <1>6. Adds(Adds([e \in Entries |-> 0], a), b)
          = [e \in Entries |-> IF e = a /\ e = b THEN 2
                               ELSE IF e = a \/ e = b THEN 1 ELSE 0]
    <2> DEFINE n == [e \in Entries |-> 0]
               m == Adds(n, a)
               k == Adds(m, b)
    <2>1. m \in [Entries -> Nat] /\ \A e \in Entries : m[e] = IF e = a THEN 1 ELSE 0
      BY DEF Adds
    <2> HIDE DEF n, m
    <2>2. k \in [Entries -> Nat] /\ \A e \in Entries : k[e] = IF e = b THEN m[e] + 1 ELSE m[e]
      BY <2>1 DEF Adds
    <2> HIDE DEF k
    <2>3. \A e \in Entries : k[e] = IF e = a /\ e = b THEN 2 ELSE IF e = a \/ e = b THEN 1 ELSE 0
      BY <2>1, <2>2
    <2>4. k = [e \in Entries |-> IF e = a /\ e = b THEN 2 ELSE IF e = a \/ e = b THEN 1 ELSE 0]
      BY <2>2, <2>3
    <2> QED
      BY <2>4 DEF k, m, n
  <1> QED
    BY <1>5, <1>6 DEF drop

LEMMA TakenWithin ==
  ASSUME rows \in Counts, NEW status, NEW drop \in Drops \cup {<< >>}
  PROVE  Takes(Taken(status, drop), Named(drop)) /\ Named(drop) \in [Entries -> Nat]
  <1> DEFINE none  == [e \in Entries |-> 0]
             start == [old |-> OldState(status), taken |-> NoneTaken]
             first == Lookup(status, start, drop[1])
             second == Lookup(status, first, drop[2])
             g == [i \in 0..Len(drop) |-> IF i = 0 THEN start ELSE IF i = 1 THEN first ELSE second]
             eq(f) == f = [i \in 0..Len(drop) |->
                             IF i = 0 THEN start ELSE Lookup(status, f[i - 1], drop[i])]
             h == CHOOSE f : eq(f)
  <1>1. Len(drop) \in {0, 1, 2} /\ (Len(drop) = 0 <=> drop = << >>)
    BY DEF Drops
  <1>2. eq(g)
    <2>1. \A i \in 0..Len(drop) : i \in {0, 1, 2} /\ 0 \in 0..Len(drop)
                                  /\ (i = 2 => 1 \in 0..Len(drop))
      <3>1. \A k \in {0, 1, 2} : \A i \in 0..k :
              i \in {0, 1, 2} /\ 0 \in 0..k /\ (i = 2 => 1 \in 0..k)
        OBVIOUS
      <3> QED
        BY <1>1, <3>1
    <2> HIDE DEF start, first, second
    <2>2. ASSUME NEW i \in 0..Len(drop)
          PROVE g[i] = IF i = 0 THEN start ELSE Lookup(status, g[i - 1], drop[i])
      <3>1. CASE i = 0
        BY <2>1, <3>1
      <3>2. CASE i = 1
        BY <2>1, <3>2 DEF first
      <3>3. CASE i = 2
        BY <2>1, <3>3 DEF second
      <3> QED
        BY <2>1, <3>1, <3>2, <3>3
    <2> QED
      BY <2>2
  <1>3. eq(h)
    <2> HIDE DEF g, h, eq
    <2> QED
      BY <1>2 DEF h
  <1>4. Taken(status, drop) = h[Len(drop)].taken
    BY DEF Taken
  <1>5. h[0] = start /\ (Len(drop) >= 1 => h[1] = first) /\ (Len(drop) = 2 => h[2] = second)
    <2> HIDE DEF h, start, first, second
    <2>1. h[0] = start
      BY <1>1, <1>3
    <2>2. Len(drop) >= 1 => h[1] = first
      BY <1>1, <1>3, <2>1 DEF first
    <2>3. Len(drop) = 2 => h[2] = second
      BY <1>1, <1>3, <2>2 DEF second
    <2> QED
      BY <2>1, <2>2, <2>3
  <1>6. FindsFrom(start, none) /\ none \in [Entries -> Nat]
    BY DEF FindsFrom, Takes, Counts, NoneTaken, OldState, RowStates
  <1>7. CASE drop = << >>
    <2>1. Named(drop) = none /\ Len(drop) = 0
      BY <1>1, <1>7, NoneNamed
    <2> QED
      BY <1>4, <1>5, <1>6, <2>1 DEF FindsFrom
  <1>8. ASSUME NEW a \in Entries, drop = <<a>>
        PROVE  Takes(Taken(status, drop), Named(drop)) /\ Named(drop) \in [Entries -> Nat]
    <2>1. Named(drop) = Adds(none, a) /\ Len(drop) = 1 /\ drop[1] = a
      BY <1>8, OneNamed
    <2> HIDE DEF start, none
    <2>2. FindsFrom(first, Adds(none, a)) /\ Adds(none, a) \in [Entries -> Nat]
      <3>1. first = Lookup(status, start, a)
        BY <2>1
      <3> HIDE DEF first
      <3> QED
        BY <1>6, <3>1, LookupFinds, AddsIsNat
    <2> HIDE DEF first, h
    <2> QED
      BY <1>4, <1>5, <2>1, <2>2 DEF FindsFrom
  <1>9. ASSUME NEW a \in Entries, NEW b \in Entries, drop = <<a, b>>
        PROVE  Takes(Taken(status, drop), Named(drop)) /\ Named(drop) \in [Entries -> Nat]
    <2> DEFINE n == Adds(none, a)
    <2>1. Named(drop) = Adds(n, b) /\ Len(drop) = 2 /\ drop[1] = a /\ drop[2] = b
      BY <1>9, TwoNamed
    <2> HIDE DEF start, none
    <2>2. FindsFrom(first, n) /\ n \in [Entries -> Nat]
      <3>1. first = Lookup(status, start, a)
        BY <2>1
      <3> HIDE DEF first
      <3> QED
        BY <1>6, <3>1, LookupFinds, AddsIsNat
    <2> HIDE DEF first, n
    <2>3. FindsFrom(second, Adds(n, b)) /\ Adds(n, b) \in [Entries -> Nat]
      <3>1. second = Lookup(status, first, b)
        BY <2>1
      <3> HIDE DEF second
      <3> QED
        BY <2>2, <3>1, LookupFinds, AddsIsNat
    <2> HIDE DEF second, h
    <2> QED
      BY <1>4, <1>5, <2>1, <2>3 DEF FindsFrom
  <1> QED
    BY <1>7, <1>8, <1>9 DEF Drops

\* What a message makes of the list: a COMMITTED one takes rows to "sent",
\* as many of an entry as it names the entry, any other one none.
LEMMA MarkedWithin ==
  ASSUME rows \in Counts, NEW status \in Statuses, NEW drop \in Drops \cup {<< >>}
  PROVE  /\ Marked(status, drop) \in Counts
         /\ \A e \in Entries :
              /\ Marked(status, drop)[e]["completed"] = rows[e]["completed"]
              /\ Marked(status, drop)[e]["failed"] = rows[e]["failed"]
              /\ Marked(status, drop)[e]["sent"]
                   <= rows[e]["sent"] + (IF status = "COMMITTED" THEN Occurrences(drop, e) ELSE 0)
  <1> DEFINE taken == Taken(status, drop)
             to(e) == taken[e]["added"] + taken[e]["processing"]
             new(e, s) == rows[e][s] - taken[e][s] + (IF s = NewState(status) THEN to(e) ELSE 0)
  <1>1. Takes(taken, Named(drop)) /\ Named(drop) \in [Entries -> Nat]
    BY TakenWithin
  <1>2. Marked(status, drop) = [e \in Entries |-> [s \in RowStates |-> new(e, s)]]
    BY DEF Marked
  <1>3. NewState(status) \in {"added", "processing", "sent"}
        /\ (status # "COMMITTED" => NewState(status) # "sent")
    BY DEF NewState, Statuses
  <1> HIDE DEF taken
  <1>4. ASSUME NEW e \in Entries
        PROVE  /\ \A s \in RowStates : new(e, s) \in Nat
               /\ new(e, "completed") = rows[e]["completed"]
               /\ new(e, "failed") = rows[e]["failed"]
               /\ new(e, "sent") <= rows[e]["sent"]
                     + (IF status = "COMMITTED" THEN Named(drop)[e] ELSE 0)
    <2>1. /\ \A s \in RowStates : /\ rows[e][s] \in Nat /\ taken[e][s] \in Nat
                                 /\ taken[e][s] <= rows[e][s]
          /\ taken[e]["completed"] = 0 /\ taken[e]["failed"] = 0 /\ taken[e]["sent"] = 0
          /\ to(e) <= Named(drop)[e] /\ Named(drop)[e] \in Nat
      BY <1>1 DEF Takes, Counts, RowStates
    <2>2. {"added", "processing", "sent", "completed", "failed"} = RowStates
      BY DEF RowStates
    <2>3. to(e) \in Nat
      <3>1. "added" \in RowStates /\ "processing" \in RowStates
        BY DEF RowStates
      <3>2. taken[e]["added"] \in Nat /\ taken[e]["processing"] \in Nat
        BY <2>1, <3>1
      <3> QED
        BY <3>2
    <2>4. \A s \in RowStates : rows[e][s] - taken[e][s] \in Nat
      BY <2>1
    <2> HIDE DEF to
    <2>5. \A s \in RowStates : new(e, s) \in Nat
      BY <2>3, <2>4
    <2>6. new(e, "completed") = rows[e]["completed"] /\ new(e, "failed") = rows[e]["failed"]
      BY <1>3, <2>1, <2>2
    <2>7. rows[e]["sent"] \in Nat
      BY <2>1, <2>2
    <2>8. new(e, "sent") = rows[e]["sent"] + (IF "sent" = NewState(status) THEN to(e) ELSE 0)
      BY <2>1, <2>7
    <2>9. new(e, "sent") <= rows[e]["sent"]
                     + (IF status = "COMMITTED" THEN Named(drop)[e] ELSE 0)
      <3>1. CASE "sent" = NewState(status)
        BY <1>3, <2>1, <2>3, <2>7, <2>8, <3>1
      <3>2. CASE "sent" # NewState(status)
        BY <2>1, <2>7, <2>8, <3>2
      <3> QED
        BY <3>1, <3>2
    <2> QED
      BY <2>5, <2>6, <2>9
  <1>5. \A e \in Entries : Named(drop)[e] = Occurrences(drop, e)
    BY DEF Named
  <1>6. "completed" \in RowStates /\ "failed" \in RowStates /\ "sent" \in RowStates
    BY DEF RowStates
  <1> HIDE DEF new
  <1> QED
    BY <1>2, <1>4, <1>5, <1>6 DEF Counts
-----------------------------------------------------------------------------
\* How often the messages of a queue tell that an entry was paid.
Paying(m, e)   == IF m.status = "COMMITTED" THEN Occurrences(m.addresses, e) ELSE 0
DropsIn(q, e)  == Total([i \in DOMAIN q |-> Paying(q[i], e)])

TellsDrop(m) ==
  /\ m.type = "airdrop" /\ m.status \in Statuses
  /\ m.addresses \in Drops \cup {<< >>}

TellDrops(q) == OfSome(q) /\ \A m \in Elements(q) : TellsDrop(m)

LEMMA PayingIsNat ==
  ASSUME NEW m, TellsDrop(m), NEW e \in Entries
  PROVE  Paying(m, e) \in Nat
  <1> DEFINE drop == m.addresses
  <1>1. CASE drop = << >>
    <2>1. {i \in DOMAIN drop : drop[i] = e} = {}
      BY <1>1
    <2> QED
      BY <2>1, FS_EmptySet DEF Paying, Occurrences
  <1>2. CASE drop \in Drops
    <2>1. drop \in Seq(Entries)
      <3>1. \/ \E a \in Entries : drop = <<a>>
            \/ \E a \in Entries, b \in Entries : drop = <<a, b>>
        BY <1>2 DEF Drops
      <3>2. \A a \in Entries : <<a>> \in Seq(Entries)
        OBVIOUS
      <3>3. \A a \in Entries, b \in Entries : <<a, b>> \in Seq(Entries)
        OBVIOUS
      <3> HIDE DEF drop
      <3> QED
        BY <3>1, <3>2, <3>3
    <2> HIDE DEF drop
    <2>2. DOMAIN drop = 1..Len(drop) /\ Len(drop) \in Nat
      BY <2>1
    <2>3. IsFiniteSet(DOMAIN drop)
      BY <2>2, IntervalsFinite
    <2> DEFINE D == DOMAIN drop
               I == {i \in D : drop[i] = e}
    <2>4. I \subseteq D /\ IsFiniteSet(D)
      BY <2>3
    <2> HIDE DEF D, I
    <2>5. Cardinality(I) \in Nat
      BY <2>4, FS_Subset, FS_CardinalityType
    <2> QED
      BY <2>5 DEF I, D, drop, Paying, Occurrences
  <1> QED
    BY <1>1, <1>2 DEF TellsDrop

LEMMA DropsInAre ==
  ASSUME NEW q, TellDrops(q), NEW e \in Entries
  PROVE  /\ [i \in DOMAIN q |-> Paying(q[i], e)] \in [DOMAIN q -> Nat]
         /\ DropsIn(q, e) \in Nat
  <1> DEFINE w == [i \in DOMAIN q |-> Paying(q[i], e)]
  <1>1. \A i \in DOMAIN q : TellsDrop(q[i])
    BY DEF TellDrops, Elements
  <1>2. w \in [DOMAIN q -> Nat]
    BY <1>1, PayingIsNat
  <1>3. IsFiniteSet(DOMAIN q)
    BY AppendedAt DEF TellDrops
  <1>4. DropsIn(q, e) = Total(w)
    BY DEF DropsIn
  <1> HIDE DEF w
  <1>5. Total(w) \in Nat
    BY <1>2, <1>3, UnitsFinite
  <1> QED
    BY <1>2, <1>4, <1>5 DEF w

LEMMA DropsAppended ==
  ASSUME NEW q, TellDrops(q), NEW m, TellsDrop(m), NEW e \in Entries
  PROVE  /\ TellDrops(Append(q, m))
         /\ DropsIn(Append(q, m), e) = DropsIn(q, e) + Paying(m, e)
  <1> DEFINE r == Append(q, m)
             w == [i \in DOMAIN q |-> Paying(q[i], e)]
             v == [i \in DOMAIN r |-> Paying(r[i], e)]
  <1>1. TellDrops(r) /\ OfSome(q)
    BY Appended DEF TellDrops
  <1>2. (\A i \in DOMAIN q : v[i] = w[i]) /\ v[Len(q) + 1] = Paying(m, e)
    BY <1>1, AppendedAt
  <1>3. DropsIn(q, e) = Total(w) /\ DropsIn(r, e) = Total(v)
    BY DEF DropsIn
  <1>4. w \in [DOMAIN q -> Nat] /\ v \in [DOMAIN r -> Nat]
    <2> HIDE DEF r
    <2> QED
      BY <1>1, DropsInAre
  <1> HIDE DEF w, v
  <1>5. Total(v) = Total(w) + v[Len(q) + 1]
    BY <1>1, <1>2, <1>4, TotalAppended
  <1> HIDE DEF r
  <1> QED
    BY <1>1, <1>2, <1>3, <1>5 DEF r

LEMMA DropsTaken ==
  ASSUME NEW q, TellDrops(q), q # << >>, NEW e \in Entries
  PROVE  /\ TellDrops(Tail(q)) /\ TellsDrop(Head(q))
         /\ DropsIn(q, e) = Paying(Head(q), e) + DropsIn(Tail(q), e)
  <1> DEFINE r == Tail(q)
             w == [i \in DOMAIN q |-> Paying(q[i], e)]
             v == [i \in DOMAIN r |-> Paying(r[i], e)]
  <1>1. TellDrops(r) /\ TellsDrop(Head(q)) /\ OfSome(q)
    BY Tailed DEF TellDrops
  <1>2. \A i \in DOMAIN r : v[i] = w[i + 1]
    BY <1>1, TailedAt
  <1>3. DropsIn(q, e) = Total(w) /\ DropsIn(r, e) = Total(v)
    BY DEF DropsIn
  <1>4. w \in [DOMAIN q -> Nat] /\ v \in [DOMAIN r -> Nat]
    <2> HIDE DEF r
    <2> QED
      BY <1>1, DropsInAre
  <1>5. \A i \in DOMAIN q : w[i] = Paying(q[i], e)
    OBVIOUS
  <1> HIDE DEF w, v
  <1>6. 1 \in DOMAIN q /\ Head(q) = q[1] /\ Total(w) = w[1] + Total(v)
    BY <1>1, <1>2, <1>4, TotalTailed
  <1> HIDE DEF r
  <1> QED
    BY <1>1, <1>3, <1>5, <1>6 DEF r
-----------------------------------------------------------------------------
AirdropShape ==
  /\ TellDrops(ready) /\ TellDrops(unacked)
  /\ kind = "airdrop" => \A m \in Held : m.errors = << >>
  /\ OfSome(chain) /\ Len(chain) <= MaxTxs
  /\ \A i \in DOMAIN chain : chain[i].call = "airdrop" => chain[i].with \subseteq Drops
  /\ rows \in Counts /\ dropped \in [Entries -> Nat]
  /\ kind = "airdrop" => \A e \in Entries : rows[e]["failed"] = 0
  /\ completing => kind = "airdrop" /\ ready # << >>

\* The message that is being handled has been counted.
Uncounted == IF completing THEN Tail(ready) ELSE ready

\* Each entry was paid as often as it is shown and told.
AirdropBalance ==
  ~excused =>
    /\ unacked = << >>
    /\ completing => \A e \in Entries : rows[e]["added"] + rows[e]["processing"] = 0
    /\ \A e \in Entries :
         rows[e]["sent"] + rows[e]["completed"] + DropsIn(Uncounted, e) <= dropped[e]

AirdropTold == kind \in AirdropKinds => AirdropShape /\ AirdropBalance

LEMMA RowIsNat ==
  ASSUME NEW r \in Counts, NEW e \in Entries
  PROVE  /\ r[e]["added"] \in Nat /\ r[e]["processing"] \in Nat /\ r[e]["sent"] \in Nat
         /\ r[e]["completed"] \in Nat /\ r[e]["failed"] \in Nat
  <1>1. r[e] \in [RowStates -> Nat]
    BY DEF Counts
  <1> QED
    BY <1>1 DEF RowStates

LEMMA LoadKeeps ==
  ASSUME AirdropShape, AirdropBalance, kind \in AirdropKinds,
         LoadChecks \/ LoadDeletes \/ LoadCreates
  PROVE  AirdropTold'
  <1>1. UNCHANGED <<kind, ready, unacked, chain, dropped, completing>>
    BY DEF LoadChecks, LoadDeletes, LoadCreates, rowVars, queue, network
  <1>2. rows \in Counts
    BY DEF AirdropShape
  <1>3. /\ rows' \in Counts
        /\ \A e \in Entries : /\ rows'[e]["sent"] <= rows[e]["sent"]
                             /\ rows'[e]["completed"] <= rows[e]["completed"]
                             /\ rows'[e]["failed"] <= rows[e]["failed"]
                             /\ \/ excused'
                                \/ ~completing
                                \/ /\ rows'[e]["added"] <= rows[e]["added"]
                                   /\ rows'[e]["processing"] <= rows[e]["processing"]
        /\ excused => excused'
    <2>1. CASE LoadChecks
      <3>1. UNCHANGED <<rows, excused>>
        BY <2>1 DEF LoadChecks
      <3> QED
        BY <1>2, <3>1, RowIsNat
    <2>2. CASE LoadDeletes
      <3>1. /\ excused' = excused
            /\ rows' = [e \in Entries |-> [s \in RowStates |->
                          IF s \in Kept THEN rows[e][s] ELSE 0]]
        BY <2>2 DEF LoadDeletes
      <3>2. \A e \in Entries : rows[e] \in [RowStates -> Nat]
        BY <1>2 DEF Counts
      <3>3. \A e \in Entries, s \in RowStates :
              /\ rows'[e][s] = IF s \in Kept THEN rows[e][s] ELSE 0
              /\ rows[e][s] \in Nat
        BY <3>1, <3>2
      <3>4. rows' \in Counts
        BY <3>1, <3>2 DEF Counts
      <3>5. \A e \in Entries, s \in RowStates : rows'[e][s] <= rows[e][s]
        BY <3>3
      <3> QED
        BY <3>1, <3>4, <3>5 DEF RowStates
    <2>3. CASE LoadCreates
      <3>1. PICK list \in [Entries -> 0..MaxRows] :
              rows' = [e \in Entries |-> [rows[e] EXCEPT !["added"] = @ + list[e]]]
        BY <2>3 DEF LoadCreates
      <3>2. excused' = (excused \/ completing)
        BY <2>3 DEF LoadCreates
      <3>3. \A e \in Entries : /\ rows[e] \in [RowStates -> Nat] /\ list[e] \in Nat
                              /\ rows'[e] = [rows[e] EXCEPT !["added"] = @ + list[e]]
        BY <1>2, <3>1 DEF Counts
      <3>4. ASSUME NEW e \in Entries
            PROVE  /\ rows'[e] \in [RowStates -> Nat]
                   /\ \A s \in RowStates \ {"added"} : rows'[e][s] = rows[e][s]
        <4> DEFINE row == rows[e]
                   new == rows'[e]
                   k   == list[e]
        <4>1. row \in [RowStates -> Nat] /\ k \in Nat /\ new = [row EXCEPT !["added"] = @ + k]
          BY <3>3
        <4>2. "added" \in RowStates
          BY DEF RowStates
        <4> HIDE DEF row, new, k
        <4>3. row["added"] \in Nat
          BY <4>1, <4>2
        <4>4. new \in [RowStates -> Nat] /\ \A s \in RowStates \ {"added"} : new[s] = row[s]
          BY <4>1, <4>2, <4>3
        <4> QED
          BY <4>4 DEF new, row
      <3>5. rows' \in Counts
        BY <3>1, <3>4 DEF Counts
      <3>6. \A e \in Entries : /\ rows'[e]["sent"] = rows[e]["sent"]
                              /\ rows'[e]["completed"] = rows[e]["completed"]
                              /\ rows'[e]["failed"] = rows[e]["failed"]
        BY <3>4 DEF RowStates
      <3>7. excused' \/ ~completing
        BY <3>2, Zenon
      <3>8. excused => excused'
        BY <3>2, Zenon
      <3> QED
        BY <1>2, <3>5, <3>6, <3>7, <3>8, RowIsNat
    <2> QED
      BY <2>1, <2>2, <2>3
  <1>4. AirdropShape'
    <2>1. \A e \in Entries : rows[e]["failed"] = 0 => rows'[e]["failed"] = 0
      BY <1>2, <1>3, RowIsNat
    <2> QED
      BY <1>1, <1>3, <2>1
         DEF AirdropShape, TellDrops, TellsDrop, Held, LeftBehind, Counts
  <1>5. ASSUME ~excused'
        PROVE  /\ unacked' = << >>
               /\ completing' => \A e \in Entries : rows'[e]["added"] + rows'[e]["processing"] = 0
               /\ \A e \in Entries :
                    rows'[e]["sent"] + rows'[e]["completed"] + DropsIn(Uncounted, e) <= dropped[e]
    <2>1. ~excused
      BY <1>3, <1>5
    <2>2. ASSUME NEW e \in Entries
          PROVE  rows'[e]["sent"] + rows'[e]["completed"] + DropsIn(Uncounted, e) <= dropped[e]
      <3>1. rows[e]["sent"] + rows[e]["completed"] + DropsIn(Uncounted, e) <= dropped[e]
        BY <2>1 DEF AirdropBalance
      <3>2. TellDrops(Uncounted)
        <4>1. completing => TellDrops(Tail(ready))
          <5>1. ASSUME TellDrops(ready), ready # << >>
                PROVE  TellDrops(Tail(ready))
            BY <5>1, Tailed DEF TellDrops
          <5> QED
            BY <5>1 DEF AirdropShape
        <4> QED
          BY <4>1 DEF Uncounted, AirdropShape
      <3>3. DropsIn(Uncounted, e) \in Nat
        BY <3>2, DropsInAre
      <3>4. dropped[e] \in Nat
        BY DEF AirdropShape
      <3> QED
        BY <1>2, <1>3, <3>1, <3>3, <3>4, RowIsNat
    <2>3. ASSUME completing', NEW e \in Entries
          PROVE  rows'[e]["added"] + rows'[e]["processing"] = 0
      <3>1. rows[e]["added"] + rows[e]["processing"] = 0
        BY <1>1, <2>1, <2>3 DEF AirdropBalance
      <3>2. rows'[e]["added"] <= rows[e]["added"] /\ rows'[e]["processing"] <= rows[e]["processing"]
        BY <1>1, <1>3, <1>5, <2>3
      <3> QED
        BY <1>2, <1>3, <3>1, <3>2, RowIsNat
    <2> QED
      BY <1>1, <2>1, <2>2, <2>3 DEF AirdropBalance
  <1>6. Uncounted' = Uncounted
    BY <1>1 DEF Uncounted
  <1>7. AirdropBalance'
    <2>1. ASSUME NEW e \in Entries PROVE DropsIn(Uncounted, e)' = DropsIn(Uncounted, e)
      BY <1>1, <1>6 DEF DropsIn, Paying, Total, Units, Occurrences, Uncounted
    <2> QED
      BY <1>1, <1>5, <2>1 DEF AirdropBalance
  <1> QED
    BY <1>4, <1>7 DEF AirdropTold

LEMMA QueuesTell ==
  TellDrops(ready) /\ TellDrops(unacked) <=> Queues /\ \A m \in Held : TellsDrop(m)
  BY DEF TellDrops, Queues, Held, LeftBehind

\* A handled message leaves a queue of the same kind.
LEMMA AirdropHandles ==
  ASSUME AirdropShape, ready # << >>, kind' = kind,
         Ack \/ LeaveUnacked \/ DeliveredAgain \/ UNCHANGED queue
  PROVE  /\ TellDrops(ready') /\ TellDrops(unacked')
         /\ kind' = "airdrop" => \A m \in Held' : m.errors = << >>
         /\ Head(ready) \in Held /\ TellsDrop(Head(ready))
  <1>1. Queues /\ \A m \in Held : TellsDrop(m)
    BY QueuesTell DEF AirdropShape
  <1>2. Queues' /\ Held' \subseteq Held /\ Head(ready) \in Held
    <2>1. CASE Ack
      BY <1>1, <2>1, Acks DEF Handles
    <2>2. CASE LeaveUnacked
      BY <1>1, <2>2, Leaves DEF Handles
    <2>3. CASE DeliveredAgain
      BY <1>1, <2>3, Redelivered, Tailed DEF DeliveredAgain, Held, Queues
    <2>4. CASE UNCHANGED queue
      BY <1>1, <2>4, Tailed DEF queue, Held, Queues, LeftBehind
    <2> QED
      BY <2>1, <2>2, <2>3, <2>4
  <1>3. \A m \in Held' : TellsDrop(m)
    BY <1>1, <1>2
  <1>4. TellDrops(ready') /\ TellDrops(unacked')
    BY <1>2, <1>3 DEF TellDrops, Queues, Held, LeftBehind
  <1> QED
    BY <1>1, <1>2, <1>4 DEF AirdropShape

\* The handler counts: what it shows more of is what its message tells.
LEMMA ShownWithin ==
  ASSUME AirdropShape, AirdropBalance, ~completing, ready # << >>, ~excused,
         NEW new \in Counts, NEW e \in Entries,
         new[e]["completed"] <= rows[e]["completed"],
         new[e]["sent"] <= rows[e]["sent"]
            + (IF Head(ready).status = "COMMITTED"
                 THEN Occurrences(Head(ready).addresses, e) ELSE 0)
  PROVE  new[e]["sent"] + new[e]["completed"] + DropsIn(Tail(ready), e) <= dropped[e]
  <1>1. rows[e]["sent"] + rows[e]["completed"] + DropsIn(ready, e) <= dropped[e]
    BY DEF AirdropBalance, Uncounted
  <1>2. /\ TellDrops(Tail(ready)) /\ TellsDrop(Head(ready))
        /\ DropsIn(ready, e) = Paying(Head(ready), e) + DropsIn(Tail(ready), e)
    BY DropsTaken DEF AirdropShape
  <1>3. /\ DropsIn(Tail(ready), e) \in Nat /\ Paying(Head(ready), e) \in Nat
    BY <1>2, DropsInAre, PayingIsNat
  <1>4. new[e]["sent"] <= rows[e]["sent"] + Paying(Head(ready), e)
    BY DEF Paying
  <1>5. /\ rows[e]["sent"] \in Nat /\ rows[e]["completed"] \in Nat /\ dropped[e] \in Nat
        /\ new[e]["sent"] \in Nat /\ new[e]["completed"] \in Nat
    BY RowIsNat DEF AirdropShape
  <1> DEFINE a == DropsIn(ready, e)
             b == DropsIn(Tail(ready), e)
             p == Paying(Head(ready), e)
             s == rows[e]["sent"]
             c == rows[e]["completed"]
             t == new[e]["sent"]
             u == new[e]["completed"]
             d == dropped[e]
  <1>6. /\ a = p + b /\ b \in Nat /\ p \in Nat
        /\ s \in Nat /\ c \in Nat /\ t \in Nat /\ u \in Nat /\ d \in Nat
        /\ s + c + a <= d /\ t <= s + p /\ u <= c
    BY <1>1, <1>2, <1>3, <1>4, <1>5
  <1> HIDE DEF a, b, p, s, c, t, u, d
  <1>7. t + u + b <= d
    BY <1>6
  <1> QED
    BY <1>7 DEF b, t, u, d

LEMMA MarksKeep ==
  ASSUME AirdropShape, AirdropBalance, kind \in AirdropKinds, AirdropMarks
  PROVE  AirdropTold'
  <1> DEFINE m      == Head(ready)
             marked == Marked(m.status, m.addresses)
  <1>1. /\ ready # << >> /\ ~completing /\ rows' = marked
        /\ completing' = (kind = "airdrop" /\ NothingLeft(marked))
        /\ UNCHANGED <<kind, chain, dropped>>
    BY DEF AirdropMarks, Receiving, Message, network
  <1>2. \/ completing' /\ UNCHANGED <<queue, excused>>
        \/ ~completing' /\ Ack /\ UNCHANGED excused
        \/ ~completing' /\ DeliveredAgain /\ excused' = TRUE
    BY DEF AirdropMarks
  <1>3. /\ TellDrops(ready') /\ TellDrops(unacked') /\ TellsDrop(m)
        /\ kind' = "airdrop" => \A n \in Held' : n.errors = << >>
    BY <1>1, <1>2, AirdropHandles
  <1>4. /\ marked \in Counts
        /\ \A e \in Entries :
             /\ marked[e]["completed"] = rows[e]["completed"]
             /\ marked[e]["failed"] = rows[e]["failed"]
             /\ marked[e]["sent"]
                  <= rows[e]["sent"] + (IF m.status = "COMMITTED"
                                          THEN Occurrences(m.addresses, e) ELSE 0)
    BY <1>3, MarkedWithin DEF AirdropShape, TellsDrop
  <1> HIDE DEF marked
  <1>5. AirdropShape'
    <2>1. completing' => kind' = "airdrop" /\ ready' # << >>
      BY <1>1, <1>2 DEF queue
    <2> QED
      BY <1>1, <1>3, <1>4, <2>1 DEF AirdropShape, Counts
  <1>6. ASSUME ~excused'
        PROVE  /\ unacked' = << >>
               /\ completing' => \A e \in Entries : marked[e]["added"] + marked[e]["processing"] = 0
               /\ \A e \in Entries :
                    marked[e]["sent"] + marked[e]["completed"] + DropsIn(Tail(ready), e) <= dropped[e]
               /\ Uncounted' = Tail(ready)
    <2>1. ~excused /\ ((completing' /\ UNCHANGED queue) \/ (~completing' /\ Ack))
      BY <1>2, <1>6
    <2>2. unacked' = << >> /\ Uncounted' = Tail(ready)
      BY <2>1 DEF AirdropBalance, queue, Ack, Uncounted
    <2>3. ASSUME completing', NEW e \in Entries
          PROVE  marked[e]["added"] + marked[e]["processing"] = 0
      <3>1. ~(marked[e]["added"] + marked[e]["processing"] > 0)
        BY <1>1, <2>3 DEF NothingLeft, Unsettled
      <3>2. marked[e]["added"] \in Nat /\ marked[e]["processing"] \in Nat
        BY <1>4, RowIsNat
      <3> QED
        BY <3>1, <3>2
    <2>4. ASSUME NEW e \in Entries
          PROVE  marked[e]["sent"] + marked[e]["completed"] + DropsIn(Tail(ready), e) <= dropped[e]
      <3>1. marked[e]["completed"] <= rows[e]["completed"]
        BY <1>4, RowIsNat DEF AirdropShape
      <3> QED
        BY <1>1, <1>4, <2>1, <3>1, ShownWithin
    <2> QED
      BY <2>2, <2>3, <2>4
  <1>7. AirdropBalance'
    BY <1>1, <1>6 DEF AirdropBalance
  <1> QED
    BY <1>5, <1>7 DEF AirdropTold

LEMMA FailsKeep ==
  ASSUME AirdropShape, AirdropBalance, kind \in AirdropKinds, AirdropFails
  PROVE  AirdropTold'
  <1> DEFINE m      == Head(ready)
             marked == Marked(m.status, m.addresses)
             err    == m.errors[1]
  <1>1. /\ ready # << >> /\ m.errors # << >>
        /\ UNCHANGED <<kind, chain, dropped, completing>>
    BY DEF AirdropFails, Receiving, Message, network
  <1>2. \/ /\ \E s \in RowStates :
               /\ marked[err][s] > 0
               /\ rows' = [marked EXCEPT
                    ![err] = OneFailed(@, s)]
           /\ Ack /\ UNCHANGED excused
        \/ rows' = marked /\ LeaveUnacked /\ excused' = TRUE
    BY DEF AirdropFails, Message
  <1>3. /\ TellDrops(ready') /\ TellDrops(unacked') /\ TellsDrop(m) /\ m \in Held
        /\ kind' = "airdrop" => \A n \in Held' : n.errors = << >>
    BY <1>1, <1>2, AirdropHandles
  <1>4. kind # "airdrop" /\ ~completing
    BY <1>1, <1>3 DEF AirdropShape
  <1>5. /\ marked \in Counts
        /\ \A e \in Entries :
             /\ marked[e]["completed"] = rows[e]["completed"]
             /\ marked[e]["sent"]
                  <= rows[e]["sent"] + (IF m.status = "COMMITTED"
                                          THEN Occurrences(m.addresses, e) ELSE 0)
    BY <1>3, MarkedWithin DEF AirdropShape, TellsDrop
  <1> HIDE DEF marked, err
  <1>6. ASSUME NEW s \in RowStates, marked[err][s] > 0,
               rows' = [marked EXCEPT
                    ![err] = OneFailed(@, s)]
        PROVE  /\ rows' \in Counts
               /\ \A e \in Entries : /\ rows'[e]["completed"] <= marked[e]["completed"]
                                    /\ rows'[e]["sent"] <= marked[e]["sent"]
    <2>1. CASE err \notin Entries
      <3>1. rows' = marked
        BY <1>5, <1>6, <2>1 DEF Counts
      <3> QED
        BY <1>5, <3>1, RowIsNat
    <2>2. CASE err \in Entries
      <3> DEFINE row == marked[err]
                 one == [row EXCEPT ![s] = row[s] - 1]
                 new == OneFailed(row, s)
      <3>1. row \in [RowStates -> Nat] /\ row[s] > 0
        BY <1>5, <1>6, <2>2 DEF Counts
      <3>2. rows' = [marked EXCEPT ![err] = new]
        BY <1>6
      <3>3. "failed" \in RowStates /\ "sent" \in RowStates /\ "completed" \in RowStates
        BY DEF RowStates
      <3> HIDE DEF row
      <3>4. /\ one \in [RowStates -> Nat]
            /\ \A t \in RowStates : one[t] = IF t = s THEN row[t] - 1 ELSE row[t]
        <4>1. row[s] - 1 \in Nat
          BY <3>1
        <4> QED
          BY <3>1, <4>1
      <3>5. /\ new \in [RowStates -> Nat]
            /\ \A t \in RowStates \ {"failed"} : new[t] = one[t]
        <4>1. new = [one EXCEPT !["failed"] = one["failed"] + 1]
          BY DEF OneFailed
        <4> HIDE DEF one, new
        <4>2. one["failed"] + 1 \in Nat
          BY <3>3, <3>4
        <4> QED
          BY <3>4, <4>1, <4>2
      <3> HIDE DEF new, one
      <3>6. new["sent"] <= row["sent"] /\ new["completed"] <= row["completed"]
        <4>1. new["sent"] = one["sent"] /\ new["completed"] = one["completed"]
          BY <3>3, <3>5
        <4>2. row["sent"] \in Nat /\ row["completed"] \in Nat
          BY <3>1, <3>3
        <4> QED
          BY <3>3, <3>4, <4>1, <4>2
      <3>7. rows' \in Counts /\ \A e \in Entries : rows'[e] = IF e = err THEN new ELSE marked[e]
        BY <1>5, <3>2, <3>5 DEF Counts
      <3>8. ASSUME NEW e \in Entries
            PROVE  rows'[e]["completed"] <= marked[e]["completed"] /\ rows'[e]["sent"] <= marked[e]["sent"]
        <4>1. CASE e = err
          BY <3>6, <3>7, <4>1 DEF row
        <4>2. CASE e # err
          BY <1>5, <3>7, <4>2, RowIsNat
        <4> QED
          BY <4>1, <4>2
      <3> QED
        BY <3>7, <3>8
    <2> QED
      BY <2>1, <2>2
  <1>7. rows' \in Counts
    BY <1>2, <1>5, <1>6
  <1>8. AirdropShape'
    BY <1>1, <1>3, <1>4, <1>7 DEF AirdropShape, Counts
  <1>9. ASSUME ~excused'
        PROVE  /\ unacked' = << >>
               /\ \A e \in Entries :
                    rows'[e]["sent"] + rows'[e]["completed"] + DropsIn(Tail(ready), e) <= dropped[e]
               /\ Uncounted' = Tail(ready)
    <2>1. ~excused /\ Ack
      BY <1>2, <1>9
    <2>2. \A e \in Entries : /\ rows'[e]["completed"] <= marked[e]["completed"]
                            /\ rows'[e]["sent"] <= marked[e]["sent"]
      BY <1>2, <1>6, <1>9
    <2>3. unacked' = << >> /\ Uncounted' = Tail(ready)
      BY <1>1, <1>4, <2>1 DEF AirdropBalance, Ack, Uncounted
    <2>4. ASSUME NEW e \in Entries
          PROVE  rows'[e]["sent"] + rows'[e]["completed"] + DropsIn(Tail(ready), e) <= dropped[e]
      <3>1. marked[e]["completed"] <= rows[e]["completed"]
        BY <1>5, RowIsNat DEF AirdropShape
      <3>2. marked[e]["sent"] + marked[e]["completed"] + DropsIn(Tail(ready), e) <= dropped[e]
        BY <1>1, <1>4, <1>5, <2>1, <3>1, ShownWithin
      <3>3. TellDrops(Tail(ready))
        BY <1>1, Tailed DEF AirdropShape, TellDrops
      <3>4. DropsIn(Tail(ready), e) \in Nat
        BY <3>3, DropsInAre
      <3>5. dropped[e] \in Nat
        BY DEF AirdropShape
      <3> QED
        BY <1>5, <1>7, <2>2, <3>2, <3>4, <3>5, RowIsNat
    <2> QED
      BY <2>3, <2>4
  <1>10. AirdropBalance'
    BY <1>1, <1>4, <1>9 DEF AirdropBalance
  <1> QED
    BY <1>8, <1>10 DEF AirdropTold

LEMMA CompletesKeep ==
  ASSUME AirdropShape, AirdropBalance, kind \in AirdropKinds, AirdropCompletes
  PROVE  AirdropTold'
  <1> DEFINE all(e) == rows[e]["added"] + rows[e]["processing"] + rows[e]["sent"]
                         + rows[e]["completed"] + rows[e]["failed"]
  <1>1. /\ ready # << >> /\ completing /\ kind = "airdrop" /\ ~completing'
        /\ rows' = [e \in Entries |-> [s \in RowStates |-> IF s = "completed" THEN all(e) ELSE 0]]
        /\ UNCHANGED <<kind, chain, dropped>>
        /\ (Ack /\ UNCHANGED excused) \/ (DeliveredAgain /\ excused' = TRUE)
    BY DEF AirdropCompletes, AirdropShape, network
  <1>2. /\ TellDrops(ready') /\ TellDrops(unacked')
        /\ kind' = "airdrop" => \A n \in Held' : n.errors = << >>
    BY <1>1, AirdropHandles
  <1>3. \A e \in Entries : all(e) \in Nat
    <2> SUFFICES ASSUME NEW e \in Entries PROVE all(e) \in Nat
      OBVIOUS
    <2>1. /\ rows[e]["added"] \in Nat /\ rows[e]["processing"] \in Nat /\ rows[e]["sent"] \in Nat
          /\ rows[e]["completed"] \in Nat /\ rows[e]["failed"] \in Nat
      BY RowIsNat DEF AirdropShape
    <2> QED
      BY <2>1
  <1>4. /\ rows' \in Counts
        /\ \A e \in Entries : /\ rows'[e]["completed"] = all(e) /\ rows'[e]["sent"] = 0
                             /\ rows'[e]["failed"] = 0
    <2> HIDE DEF all
    <2>1. "completed" \in RowStates /\ "sent" \in RowStates /\ "failed" \in RowStates
      BY DEF RowStates
    <2> QED
      BY <1>1, <1>3, <2>1 DEF Counts
  <1>5. AirdropShape'
    BY <1>1, <1>2, <1>4 DEF AirdropShape
  <1>6. ASSUME ~excused'
        PROVE  /\ unacked' = << >> /\ Uncounted' = Tail(ready)
               /\ \A e \in Entries :
                    rows'[e]["sent"] + rows'[e]["completed"] + DropsIn(Tail(ready), e) <= dropped[e]
    <2>1. ~excused /\ Ack
      BY <1>1, <1>6
    <2>2. unacked' = << >> /\ Uncounted' = Tail(ready)
      BY <1>1, <2>1 DEF AirdropBalance, Ack, Uncounted
    <2>3. ASSUME NEW e \in Entries
          PROVE  rows'[e]["sent"] + rows'[e]["completed"] + DropsIn(Tail(ready), e) <= dropped[e]
      <3>1. /\ rows[e]["sent"] + rows[e]["completed"] + DropsIn(Tail(ready), e) <= dropped[e]
            /\ rows[e]["added"] + rows[e]["processing"] = 0 /\ rows[e]["failed"] = 0
        BY <1>1, <2>1 DEF AirdropBalance, AirdropShape, Uncounted
      <3>2. /\ rows[e]["added"] \in Nat /\ rows[e]["processing"] \in Nat /\ rows[e]["sent"] \in Nat
            /\ rows[e]["completed"] \in Nat /\ dropped[e] \in Nat
        BY RowIsNat DEF AirdropShape
      <3>3. TellDrops(Tail(ready))
        BY <1>1, Tailed DEF AirdropShape, TellDrops
      <3>4. DropsIn(Tail(ready), e) \in Nat
        BY <3>3, DropsInAre
      <3>5. all(e) = rows[e]["sent"] + rows[e]["completed"]
        BY <3>1, <3>2
      <3> QED
        BY <1>4, <3>1, <3>2, <3>4, <3>5
    <2> QED
      BY <2>2, <2>3
  <1>7. AirdropBalance'
    BY <1>1, <1>6 DEF AirdropBalance
  <1> QED
    BY <1>5, <1>7 DEF AirdropTold

\* What the scanner tells of a call, when the chain has paid it.
LEMMA ToldKeeps ==
  ASSUME AirdropShape, AirdropBalance, kind \in AirdropKinds,
         NEW m, TellsDrop(m), kind = "airdrop" => m.errors = << >>,
         ready' = Append(ready, m),
         UNCHANGED <<kind, unacked, rows, completing, excused>>,
         OfSome(chain'), Len(chain') <= MaxTxs,
         \A i \in DOMAIN chain' : chain'[i].call = "airdrop" => chain'[i].with \subseteq Drops,
         dropped' \in [Entries -> Nat],
         \A e \in Entries : dropped'[e] >= dropped[e] + Paying(m, e)
  PROVE  AirdropTold'
  <1>1. Queues /\ (\A n \in Held : TellsDrop(n)) /\ TellDrops(ready)
    BY QueuesTell DEF AirdropShape
  <1>2. Queues' /\ Held' = Held \cup {m}
    BY <1>1, Publishes
  <1>3. TellDrops(ready') /\ TellDrops(unacked')
    <2>1. \A n \in Held' : TellsDrop(n)
      BY <1>1, <1>2
    <2> QED
      BY <1>2, <2>1 DEF TellDrops, Queues, Held, LeftBehind
  <1>4. completing => ready # << >> /\ ready' # << >> /\ Tail(ready') = Append(Tail(ready), m)
    <2>1. PICK S : ready \in Seq(S)
      BY <1>1 DEF Queues, OfSome
    <2>2. ready \in Seq(S \cup {m})
      BY <2>1, SeqMonotonic
    <2>3. completing => ready # << >>
      BY DEF AirdropShape
    <2>4. ready # << >> => Tail(Append(ready, m)) = Append(Tail(ready), m)
      BY <2>2
    <2>5. Append(ready, m) # << >>
      BY <2>2
    <2> QED
      BY <2>3, <2>4, <2>5
  <1>5. AirdropShape'
    BY <1>2, <1>3, <1>4 DEF AirdropShape, Counts
  <1>6. TellDrops(Uncounted) /\ Uncounted' = Append(Uncounted, m)
    <2>1. completing => TellDrops(Tail(ready))
      BY <1>1, <1>4, Tailed DEF TellDrops
    <2> QED
      BY <1>1, <1>4, <2>1 DEF Uncounted
  <1>7. ASSUME ~excused, NEW e \in Entries
        PROVE  rows[e]["sent"] + rows[e]["completed"] + DropsIn(Append(Uncounted, m), e) <= dropped'[e]
    <2> DEFINE a == DropsIn(Uncounted, e)
               b == DropsIn(Append(Uncounted, m), e)
               p == Paying(m, e)
               s == rows[e]["sent"]
               c == rows[e]["completed"]
               d == dropped[e]
               n == dropped'[e]
    <2>1. b = a + p
      BY <1>6, DropsAppended
    <2>2. a \in Nat /\ p \in Nat
      BY <1>6, DropsInAre, PayingIsNat
    <2>3. s \in Nat /\ c \in Nat /\ d \in Nat /\ n \in Nat
      BY RowIsNat DEF AirdropShape
    <2>4. s + c + a <= d /\ n >= d + p
      BY <1>7 DEF AirdropBalance
    <2> HIDE DEF a, b, p, s, c, d, n
    <2>5. s + c + b <= n
      BY <2>1, <2>2, <2>3, <2>4
    <2> QED
      BY <2>5 DEF s, c, b, n
  <1>8. AirdropBalance'
    BY <1>6, <1>7 DEF AirdropBalance
  <1> QED
    BY <1>5, <1>8 DEF AirdropTold

LEMMA CallKeeps ==
  ASSUME AirdropShape, AirdropBalance, kind \in AirdropKinds, DropCalled
  PROVE  AirdropTold'
  <1>1. PICK drop \in Drops :
          /\ Send("airdrop", {drop})
          /\ Publish(Told("PENDING", drop, << >>)) \/ UNCHANGED queue
    BY DEF DropCalled
  <1>2. UNCHANGED <<kind, rows, completing, excused, dropped>>
    BY DEF DropCalled, airdropVars
  <1>3. /\ OfSome(chain') /\ Len(chain') <= MaxTxs
        /\ \A i \in DOMAIN chain' : chain'[i].call = "airdrop" => chain'[i].with \subseteq Drops
    BY <1>1, SendKeeps DEF AirdropShape
  <1>4. CASE UNCHANGED queue
    <2>1. Uncounted' = Uncounted /\ UNCHANGED <<ready, unacked>>
      BY <1>2, <1>4 DEF Uncounted, queue
    <2>2. AirdropShape'
      BY <1>2, <1>3, <2>1 DEF AirdropShape, Held, LeftBehind, Counts
    <2>3. AirdropBalance'
      BY <1>2, <2>1 DEF AirdropBalance
    <2> QED
      BY <2>2, <2>3 DEF AirdropTold
  <1>5. CASE Publish(Told("PENDING", drop, << >>))
    <2> DEFINE none == << >>
               m == Told("PENDING", drop, none)
    <2>1. ready' = Append(ready, m) /\ UNCHANGED unacked
      BY <1>5 DEF Publish
    <2>2. /\ m.type = "airdrop" /\ m.status = "PENDING" /\ m.addresses = drop
          /\ m.errors = none
      BY DEF Told
    <2> HIDE DEF m
    <2>3. TellsDrop(m)
      BY <2>2 DEF TellsDrop, Statuses
    <2>4. /\ dropped' \in [Entries -> Nat]
          /\ \A e \in Entries : dropped'[e] >= dropped[e] + Paying(m, e)
      BY <1>2, <2>2 DEF Paying, AirdropShape
    <2> QED
      BY <1>2, <1>3, <2>1, <2>2, <2>3, <2>4, ToldKeeps
  <1> QED
    BY <1>1, <1>4, <1>5

LEMMA DecidedKeeps ==
  ASSUME AirdropShape, AirdropBalance, kind \in AirdropKinds, DropDecided
  PROVE  AirdropTold'
  <1> DEFINE none == << >>
  <1>1. PICK i \in DOMAIN chain : \E drop \in chain[i].with :
          /\ Pending(i, "airdrop")
          /\ \/ /\ Mined(i, Told("COMMITTED", drop, none), onChain)
                /\ dropped' = Paid(drop)
             \/ /\ kind = "eosairdrop"
                /\ Mined(i, Told("COMMITTED", Tail(drop), <<Head(drop)>>), onChain)
                /\ dropped' = Paid(Tail(drop))
             \/ /\ Mined(i, Told("REJECTED", drop, none), onChain)
                /\ UNCHANGED dropped
    BY DEF DropDecided
  <1>2. PICK drop \in chain[i].with :
          /\ Pending(i, "airdrop")
          /\ \/ /\ Mined(i, Told("COMMITTED", drop, none), onChain)
                /\ dropped' = Paid(drop)
             \/ /\ kind = "eosairdrop"
                /\ Mined(i, Told("COMMITTED", Tail(drop), <<Head(drop)>>), onChain)
                /\ dropped' = Paid(Tail(drop))
             \/ /\ Mined(i, Told("REJECTED", drop, none), onChain)
                /\ UNCHANGED dropped
    BY <1>1
  <1> HIDE DEF none
  <1>3. drop \in Drops
    BY <1>2 DEF Pending, AirdropShape
  <1>4. Tail(drop) \in Drops \cup {<< >>}
    <2>1. \A a : Tail(<<a>>) = << >>
      OBVIOUS
    <2>2. \A a, b : Tail(<<a, b>>) = <<b>>
      OBVIOUS
    <2>3. \/ \E a \in Entries : drop = <<a>>
          \/ \E a \in Entries, b \in Entries : drop = <<a, b>>
      BY <1>3 DEF Drops
    <2>4. \A b \in Entries : <<b>> \in Drops
      BY DEF Drops
    <2> QED
      BY <2>1, <2>2, <2>3, <2>4
  <1>5. PICK m, told :
          /\ ready' = Append(ready, m) /\ told \in Drops \cup {<< >>}
          /\ m.type = "airdrop" /\ m.addresses = told
          /\ kind = "airdrop" => m.errors = << >>
          /\ \/ m.status = "COMMITTED" /\ dropped' = Paid(told)
             \/ m.status = "REJECTED" /\ UNCHANGED dropped
    <2>1. CASE Mined(i, Told("COMMITTED", drop, none), onChain) /\ dropped' = Paid(drop)
      <3> DEFINE n == Told("COMMITTED", drop, none)
      <3>1. /\ n.type = "airdrop" /\ n.addresses = drop /\ n.errors = none
            /\ n.status = "COMMITTED"
        BY DEF Told
      <3>2. ready' = Append(ready, n)
        BY <2>1 DEF Mined
      <3> HIDE DEF n
      <3> QED
        BY <1>3, <2>1, <3>1, <3>2 DEF none
    <2>2. CASE /\ kind = "eosairdrop"
               /\ Mined(i, Told("COMMITTED", Tail(drop), <<Head(drop)>>), onChain)
               /\ dropped' = Paid(Tail(drop))
      <3> DEFINE n == Told("COMMITTED", Tail(drop), <<Head(drop)>>)
      <3>1. n.type = "airdrop" /\ n.addresses = Tail(drop) /\ n.status = "COMMITTED"
        BY DEF Told
      <3>2. ready' = Append(ready, n) /\ kind # "airdrop"
        BY <2>2 DEF Mined
      <3> HIDE DEF n
      <3> QED
        BY <1>4, <2>2, <3>1, <3>2
    <2>3. CASE Mined(i, Told("REJECTED", drop, none), onChain) /\ UNCHANGED dropped
      <3> DEFINE n == Told("REJECTED", drop, none)
      <3>1. /\ n.type = "airdrop" /\ n.addresses = drop /\ n.errors = none
            /\ n.status = "REJECTED"
        BY DEF Told
      <3>2. ready' = Append(ready, n)
        BY <2>3 DEF Mined
      <3> HIDE DEF n
      <3> QED
        BY <1>3, <2>3, <3>1, <3>2 DEF none
    <2> QED
      BY <1>2, <2>1, <2>2, <2>3
  <1>6. TellsDrop(m)
    BY <1>5 DEF TellsDrop, Statuses
  <1>7. /\ dropped' \in [Entries -> Nat]
        /\ \A e \in Entries : dropped'[e] >= dropped[e] + Paying(m, e)
    <2>1. dropped \in [Entries -> Nat] /\ \A e \in Entries : Paying(m, e) \in Nat
      BY <1>6, PayingIsNat DEF AirdropShape
    <2>2. CASE m.status = "COMMITTED" /\ dropped' = Paid(told)
      <3>1. \A e \in Entries : Paying(m, e) = Occurrences(told, e)
        BY <1>5, <2>2 DEF Paying
      <3>2. dropped' = [e \in Entries |-> dropped[e] + Paying(m, e)]
        BY <2>2, <3>1 DEF Paid
      <3>3. \A e \in Entries : dropped[e] + Paying(m, e) \in Nat
        BY <2>1
      <3> QED
        BY <2>1, <3>2, <3>3
    <2>3. CASE m.status = "REJECTED" /\ UNCHANGED dropped
      BY <2>1, <2>3 DEF Paying
    <2> QED
      BY <1>5, <2>2, <2>3
  <1>8. /\ UNCHANGED <<kind, unacked, rows, completing, excused>>
        /\ chain' = [chain EXCEPT ![i] = Settled]
    BY <1>2 DEF DropDecided, Mined
  <1>9. /\ OfSome(chain') /\ Len(chain') <= MaxTxs
        /\ \A j \in DOMAIN chain' : chain'[j].call = "airdrop" => chain'[j].with \subseteq Drops
    BY <1>8, SettleKeeps DEF AirdropShape
  <1> QED
    BY <1>5, <1>6, <1>7, <1>8, <1>9, ToldKeeps

LEMMA RestartKeeps ==
  ASSUME AirdropShape, AirdropBalance, kind \in AirdropKinds, Restart, UNCHANGED airdropVars
  PROVE  AirdropTold'
  <1>1. /\ unacked # << >> /\ ready' = unacked \o ready /\ unacked' = << >>
        /\ UNCHANGED <<kind, chain, rows, completing, excused, dropped>>
    BY DEF Restart, airdropVars, network
  <1>2. excused
    BY <1>1 DEF AirdropBalance
  <1>3. Queues /\ \A n \in Held : TellsDrop(n)
    BY QueuesTell DEF AirdropShape
  <1>4. Queues' /\ Held' = Held
    BY <1>1, <1>3, Redelivered
  <1>5. TellDrops(ready') /\ TellDrops(unacked')
    BY <1>3, <1>4 DEF TellDrops, Queues, Held, LeftBehind
  <1>6. ready' # << >>
    <2>1. Elements(ready') = Elements(unacked) \cup Elements(ready) /\ Elements(unacked) # {}
      <3>1. Elements(unacked) # {}
        BY <1>1, <1>3, Tailed DEF Queues
      <3> QED
        BY <1>1, <1>3, <3>1, Joined DEF Queues
    <2> QED
      BY <2>1, Empty
  <1>7. AirdropShape'
    BY <1>1, <1>4, <1>5, <1>6 DEF AirdropShape, Counts
  <1> QED
    BY <1>1, <1>2, <1>7 DEF AirdropTold, AirdropBalance

LEMMA AirdropToldInit == Init => AirdropTold
  <1> SUFFICES ASSUME Init, kind \in AirdropKinds PROVE AirdropTold
    BY DEF AirdropTold
  <1>1. RowInit /\ AirdropInit
    BY DEF Init, WillInit, ProtectorInit, PoolInit, WillKinds, AirdropKinds, PoolKinds
  <1> DEFINE none == << >>
  <1>2. OfSome(none) /\ Elements(none) = {} /\ Len(none) = 0 /\ DOMAIN none = {}
    BY Empty
  <1>3. ready = none /\ unacked = none /\ chain = none
    BY <1>1 DEF RowInit, AirdropInit
  <1>4. /\ rows = [e \in Entries |-> [s \in RowStates |-> 0]]
        /\ dropped = [e \in Entries |-> 0] /\ ~completing
    BY <1>1 DEF AirdropInit
  <1>5. rows \in Counts /\ dropped \in [Entries -> Nat]
    BY <1>4 DEF Counts
  <1>6. \A e \in Entries : rows[e]["failed"] = 0 /\ rows[e]["sent"] = 0 /\ rows[e]["completed"] = 0
    BY <1>4 DEF RowStates
  <1>7. unacked = << >>
    BY <1>3
  <1> HIDE DEF none
  <1>8. AirdropShape
    BY <1>2, <1>3, <1>4, <1>5, <1>6, RowBoundsAreNat
       DEF AirdropShape, TellDrops, Held, LeftBehind
  <1>9. \A e \in Entries : DropsIn(Uncounted, e) = 0
    BY <1>2, <1>3, <1>4, TotalOfNone DEF DropsIn, Uncounted
  <1>10. AirdropBalance
    BY <1>4, <1>6, <1>7, <1>9 DEF AirdropBalance
  <1> QED
    BY <1>8, <1>10 DEF AirdropTold

LEMMA AirdropToldStep == AirdropTold /\ [Next]_lifeVars => AirdropTold'
  <1> SUFFICES ASSUME AirdropTold, [Next]_lifeVars, kind \in AirdropKinds
               PROVE  AirdropTold'
    BY KindStays DEF AirdropTold
  <1>1. AirdropShape /\ AirdropBalance
    BY DEF AirdropTold
  <1>2. CASE AirdropStep
    BY <1>1, <1>2, LoadKeeps, MarksKeep, FailsKeep, CompletesKeep, CallKeeps, DecidedKeeps,
       RestartKeeps DEF AirdropStep, AirdropNext
  <1>3. CASE UNCHANGED lifeVars
    <2>1. UNCHANGED <<kind, ready, unacked, chain, rows, completing, excused, dropped>>
      BY <1>3 DEF lifeVars, rowVars, queue, network, airdropVars
    <2>2. AirdropShape'
      BY <1>1, <2>1 DEF AirdropShape, Held, LeftBehind, Counts
    <2>3. Uncounted' = Uncounted
      BY <2>1 DEF Uncounted
    <2>4. AirdropBalance'
      BY <1>1, <2>1, <2>3 DEF AirdropBalance
    <2> QED
      BY <2>2, <2>4 DEF AirdropTold
  <1>4. ~WillStep /\ ~ProtectorStep /\ ~PoolStep
    BY DEF WillStep, ProtectorStep, PoolStep, WillKinds, AirdropKinds, PoolKinds
  <1> QED
    BY <1>2, <1>3, <1>4 DEF Next

\* A contract of another kind has no list.
NoList == kind \notin AirdropKinds => AirdropRests

LEMMA NoListInit == Init => NoList
  BY DEF Init, NoList, AirdropInit

LEMMA NoListStep == NoList /\ [Next]_lifeVars => NoList'
  <1> SUFFICES ASSUME NoList, [Next]_lifeVars, kind \notin AirdropKinds
               PROVE  NoList'
    BY KindStays DEF NoList
  <1>1. UNCHANGED airdropVars
    BY DEF Next, WillStep, ProtectorStep, AirdropStep, PoolStep, lifeVars
  <1> QED
    BY <1>1 DEF NoList, AirdropRests, airdropVars

\* For any entries, lists and calls of the customer: an airdrop shows an entry
\* as sent or completed no more often than the chain has paid it (airdrop.py),
\* unless a message was handled twice or a list was loaded between the count
\* and the completion.
THEOREM SentAlwaysDropped == Spec => []SentWasDropped
  <1>1. AirdropTold /\ NoList => SentWasDropped
    <2> SUFFICES ASSUME AirdropTold, NoList, ~excused, NEW e \in Entries
                 PROVE  rows[e]["sent"] + rows[e]["completed"] <= dropped[e]
      BY DEF SentWasDropped
    <2>1. CASE kind \notin AirdropKinds
      BY <2>1 DEF NoList, AirdropRests, RowStates
    <2>2. CASE kind \in AirdropKinds
      <3>1. AirdropShape /\ AirdropBalance
        BY <2>2 DEF AirdropTold
      <3>2. TellDrops(Uncounted)
        BY <3>1, Tailed DEF Uncounted, AirdropShape, TellDrops
      <3>3. DropsIn(Uncounted, e) \in Nat
        BY <3>2, DropsInAre
      <3>4. rows[e]["sent"] \in Nat /\ rows[e]["completed"] \in Nat /\ dropped[e] \in Nat
        BY <3>1, RowIsNat DEF AirdropShape
      <3>5. rows[e]["sent"] + rows[e]["completed"] + DropsIn(Uncounted, e) <= dropped[e]
        BY <3>1 DEF AirdropBalance
      <3> QED
        BY <3>3, <3>4, <3>5
    <2> QED
      BY <2>1, <2>2
  <1> QED
    BY <1>1, AirdropToldInit, AirdropToldStep, NoListInit, NoListStep, PTL DEF Spec, Safety
-----------------------------------------------------------------------------
(***************************************************************************)
(* The rows of all kinds: what each step may do to the queue.              *)
(***************************************************************************)
LEMMA WillHandlersTold ==
  ASSUME WillReceives, ~WillContractPayment
  PROVE  HandlerTold
  <1> USE LocksAre DEF Spends, Locks, Hashes, MaySend, Receiving, network, HandlerTold
  <1>1. CASE WillDeployed \/ WillDeployedCutOff \/ WillDeployedNotMailed
    BY <1>1 DEF WillDeployed, WillDeployedCutOff, WillDeployedNotMailed, DeployedAccepted,
                Acknowledge, DeliveredAgain, LeaveUnacked
  <1>2. CASE WillChecked
    BY <1>2 DEF WillChecked, LastwillChecked, LostKeyChecked, LostKeyTokensChecked,
                DelayedPaymentChecked, Rescheduled, Acknowledge, DeliveredAgain
  <1>3. CASE WillTriggered \/ WillTriggeredNotMailed \/ WillKilled \/ WillNotified
    BY <1>3 DEF WillTriggered, WillTriggeredNotMailed, WillKilled, WillNotified,
                Acknowledge, DeliveredAgain, LeaveUnacked
  <1>4. CASE WillCheckContract
    <2>1. "check" \in Calls
      BY DEF Calls
    <2> QED
      BY <1>4, <2>1 DEF WillCheckContract, Acknowledge, DeliveredAgain, LeaveUnacked,
                Send, SendsNothing
  <1>5. CASE WillConfirmAlive
    <2>1. "imAvailable" \in Calls
      BY DEF Calls
    <2> QED
      BY <1>5, <2>1 DEF WillConfirmAlive, Acknowledge, DeliveredAgain, LeaveUnacked, Send
  <1>6. CASE WillCancel
    <2>1. "kill" \in Calls
      BY DEF Calls
    <2> QED
      BY <1>6, <2>1 DEF WillCancel, Acknowledge, DeliveredAgain, LeaveUnacked, Send
  <1>7. CASE WillMakePayment
    <2>1. "payment" \in Calls
      BY DEF Calls
    <2> QED
      BY <1>7, <2>1 DEF WillMakePayment, Acknowledge, DeliveredAgain, LeaveUnacked, Send,
                SendsNothing
  <1>8. CASE WillFundsAdded
    BY <1>8 DEF WillFundsAdded, Acknowledge, DeliveredAgain
  <1> QED
    BY <1>1, <1>2, <1>3, <1>4, <1>5, <1>6, <1>7, <1>8 DEF WillReceives

LEMMA WillCallsTold ==
  ASSUME CheckerAsks \/ PressAlive \/ PressCancel \/ BitcoinArrives
  PROVE  PublishTold
  BY DEF CheckerAsks, PressAlive, PressCancel, BitcoinArrives, PublishTold, network

LEMMA TickTold ==
  ASSUME RowTold, Tick
  PROVE  RestTold
  BY RowBoundsAreNat DEF RowTold, Tick, RestTold, Spends, Locks, MaySend, network, Times

LEMMA WillRestsTold ==
  ASSUME RowTold, CheckerReads \/ CheckerExpires \/ CheckerPasses \/ PressSaved
  PROVE  RestTold
  BY DEF CheckerReads, CheckerExpires, CheckerPasses, PressSaved, RowTold, rowVars,
         RestTold, Spends, Locks, MaySend, network

LEMMA WillMinedTold ==
  ASSUME WillMined
  PROVE  ScannerTold
  <1>1. \A i, call, m, after :
          /\ CallMined(i, call, m, after) /\ call # "settled" /\ after \in {"alive", "over"}
          => ScannerTold
    <2> SUFFICES ASSUME NEW i, NEW call, NEW m, NEW after, CallMined(i, call, m, after),
                        call # "settled", after \in {"alive", "over"}
                 PROVE  ScannerTold
      OBVIOUS
    <2>1. i \in DOMAIN chain /\ chain[i].call # "settled" /\ Mined(i, m, after)
      BY DEF CallMined, Pending
    <2> QED
      BY <2>1, MinedTold
  <1> QED
    BY <1>1 DEF WillMined

LEMMA ContractPaymentTold ==
  ASSUME RowTold, WillContractPayment
  PROVE  RowTold'
  <1>1. CASE LeaveUnacked
    <2>1. HandlerTold
      BY <1>1 DEF WillContractPayment, HandlerTold, Spends, Locks, Hashes, MaySend, network,
                  Receiving, LeaveUnacked
    <2> QED
      BY <2>1, HandlerKeepsRow
  <1>2. CASE ~LeaveUnacked
    <2>1. Queues /\ ready # << >> /\ Size \in Nat
      BY SizeIs DEF RowTold, WillContractPayment, Receiving
    <2>2. PICK R, S : ready \in Seq(R) /\ unacked \in Seq(S)
      BY <2>1 DEF Queues, OfSome
    <2> DEFINE T == R \cup S \cup {MakePay}
               one == Append(ready, MakePay)
               two == Append(Tail(ready), MakePay)
    <2>3. ready \in Seq(T) /\ unacked \in Seq(T) /\ MakePay \in T
      BY <2>2, SeqMonotonic
    <2> HIDE DEF T
    <2>4. /\ one \in Seq(T) /\ Len(one) = Len(ready) + 1
          /\ Tail(ready) \in Seq(T) /\ Len(Tail(ready)) = Len(ready) - 1
          /\ Len(ready) \in Nat \ {0} /\ Len(unacked) \in Nat
      BY <2>1, <2>3
    <2>5. /\ two \in Seq(T) /\ Len(two) = Len(ready)
          /\ unacked \o one \in Seq(T) /\ Len(unacked \o one) = Len(unacked) + Len(ready) + 1
      BY <2>3, <2>4
    <2>6. << >> \in Seq(T) /\ Len(<< >>) = 0
      OBVIOUS
    <2>7. \/ ready' = two /\ UNCHANGED <<unacked, troubles>>
          \/ Trouble /\ ready' = unacked \o one /\ unacked' = << >>
      BY <1>2 DEF WillContractPayment
    <2> HIDE DEF one, two
    <2>8. /\ Queues'
          /\ \/ Size' = Size /\ UNCHANGED troubles
             \/ Size' = Size + 1 /\ Trouble
      <3>1. CASE ready' = two /\ UNCHANGED <<unacked, troubles>>
        <4>1. Queues'
          BY <2>3, <2>5, <3>1 DEF Queues, OfSome
        <4>2. Len(ready') = Len(ready) /\ Len(unacked') = Len(unacked)
          BY <2>5, <3>1
        <4> QED
          BY <3>1, <4>1, <4>2 DEF Size
      <3>2. CASE Trouble /\ ready' = unacked \o one /\ unacked' = << >>
        <4>1. Queues'
          BY <2>5, <2>6, <3>2 DEF Queues, OfSome
        <4>2. Len(ready') = Len(unacked) + Len(ready) + 1 /\ Len(unacked') = 0
          BY <2>5, <2>6, <3>2
        <4>3. Size' = Size + 1
          BY <2>4, <4>2 DEF Size
        <4> QED
          BY <3>2, <4>1, <4>3
      <3> QED
        BY <2>7, <3>1, <3>2
    <2>9. /\ UNCHANGED <<kind, lockedBy, txHash, chain, onChain, now>>
          /\ Spends /\ Locks /\ Hashes
      BY <2>7 DEF WillContractPayment, network, Spends, Locks, Hashes
    <2>10. Settles(0) /\ Coming' = Coming /\ Coming \in {0, 1}
      BY <2>9, NothingSettles, ComingStays DEF RowTold, Coming
    <2>11. onChain' \in {"none", "alive", "over"} /\ now' \in Times
      BY <2>9 DEF RowTold
    <2>12. CASE Size' = Size /\ UNCHANGED troubles
      <3>1. Size' + Coming' <= Size + Coming + 2 * 0
        BY <2>1, <2>10, <2>12
      <3> QED
        BY <2>8, <2>9, <2>10, <2>11, <3>1, RowStepTold
    <2>13. CASE Size' = Size + 1 /\ Trouble
      <3>1. Size' + Coming' <= Size + Coming + 1
        BY <2>1, <2>10, <2>13
      <3> QED
        BY <2>8, <2>9, <2>10, <2>11, <2>13, <3>1, RowStepTold
    <2> QED
      BY <2>8, <2>12, <2>13
  <1> QED
    BY <1>1, <1>2

LEMMA DelayedPaymentTold ==
  ASSUME RowTold, DelayedPaymentPays
  PROVE  RowTold'
  <1> DEFINE m == Trigger
  <1>1. /\ ready' = Append(ready, m) /\ kind = "delayedpayment" /\ onChain = "alive"
        /\ onChain' = "over"
        /\ UNCHANGED <<kind, unacked, lockedBy, txHash, chain, now, troubles>>
    BY DEF DelayedPaymentPays
  <1> HIDE DEF m
  <1>2. Queues' /\ Size' = Size + 1 /\ Size \in Nat
    BY <1>1, SizeTold, SizeIs DEF RowTold
  <1>3. Coming = 1 /\ Coming' = 0
    BY <1>1 DEF Coming
  <1>4. Size' + Coming' <= Size + Coming + 2 * 0
    BY <1>2, <1>3
  <1>5. Settles(0)
    BY <1>1, NothingSettles DEF RowTold
  <1>6. /\ onChain' \in {"none", "alive", "over"} /\ now' \in Times
        /\ Spends /\ Locks /\ Hashes
    BY <1>1 DEF RowTold, Spends, Locks, Hashes
  <1> QED
    BY <1>2, <1>4, <1>5, <1>6, RowStepTold

LEMMA WillKeepsRow ==
  ASSUME RowTold, WillNext
  PROVE  RowTold'
  <1>1. CASE RowNext
    BY <1>1, RowNextKeepsRow
  <1>2. CASE Tick
    BY <1>2, TickTold, RestKeepsRow
  <1>3. CASE WillReceives
    BY <1>3, WillHandlersTold, HandlerKeepsRow, ContractPaymentTold
  <1>4. CASE WillChecks \/ PressAlive \/ PressSaved \/ PressCancel \/ BitcoinArrives
    BY <1>4, WillCallsTold, PublishKeepsRow, WillRestsTold, RestKeepsRow DEF WillChecks
  <1>5. CASE WillMined
    BY <1>5, WillMinedTold, ScannerKeepsRow
  <1>6. CASE DelayedPaymentPays
    BY <1>6, DelayedPaymentTold
  <1> QED
    BY <1>1, <1>2, <1>3, <1>4, <1>5, <1>6 DEF WillNext

LEMMA ProtectorHandlersTold ==
  ASSUME ProtectorReceives
  PROVE  HandlerTold
  <1> USE LocksAre DEF Spends, Locks, Hashes, MaySend, Receiving, network, HandlerTold
  <1>1. CASE ProtectorDeployed
    BY <1>1 DEF ProtectorDeployed, DeployedAccepted, Acknowledge, DeliveredAgain
  <1>2. CASE TokenProtectorApprove
    <2>1. "addTokenType" \in Calls
      BY DEF Calls
    <2> QED
      BY <1>2, <2>1 DEF TokenProtectorApprove, Confirmation, Send, SendsNothing,
                Acknowledge, DeliveredAgain, LeaveUnacked
  <1>3. CASE TokenProtectorTokensToSave \/ TokenProtectorTransactionInfo \/ SelfdestructionEvent
    BY <1>3 DEF TokenProtectorTokensToSave, TokenProtectorTransactionInfo,
                SelfdestructionEvent, Acknowledge, DeliveredAgain
  <1> QED
    BY <1>1, <1>2, <1>3 DEF ProtectorReceives

LEMMA ConfirmInfoTold ==
  ASSUME RowTold, ConfirmInfo
  PROVE  PublishTold \/ RestTold
  BY DEF ConfirmInfo, PublishTold, RestTold, RowTold, network, Spends, Locks, MaySend

LEMMA ProtectorCallsTold ==
  ASSUME DeployProtector \/ OwnerApproves \/ OwnerDestroys
  PROVE  PublishTold
  BY DEF DeployProtector, OwnerApproves, OwnerDestroys, PublishTold, network

LEMMA FrontTold ==
  ASSUME RowTold, NEW t \in Tokens, ApproveFromFront(t)
  PROVE  RestTold
  <1>1. "addTokenType" \in Calls
    BY DEF Calls
  <1>2. MaySend /\ UNCHANGED <<onChain, kind, lockedBy, queue, txHash, now, troubles>>
    BY <1>1 DEF ApproveFromFront, Confirmation, SendsNothing, MaySend, Send
  <1> QED
    BY <1>2 DEF RestTold, Spends, Locks, RowTold

LEMMA ProtectorRestsTold ==
  ASSUME RowTold, \/ SkipReads \/ SkipSaves \/ RepresentTimeIsUp \/ RepresentPostponed
                  \/ ExecuteSends \/ ExecuteSaves
  PROVE  RestTold
  <1>1. "execute" \in Calls
    BY DEF Calls
  <1> QED
    BY <1>1 DEF SkipReads, SkipSaves, RepresentTimeIsUp, RepresentPostponed, ExecuteSends,
                ExecuteSaves, RestTold, RowTold, network, rowVars, Spends, Locks, MaySend,
                Send

LEMMA ProtectorMinedTold ==
  ASSUME ProtectorMined
  PROVE  ScannerTold
  <1>1. ASSUME NEW i, NEW call \in {"addTokenType", "execute"}, NEW m,
               NEW after \in {"alive", "over"}, CallMined(i, call, m, after)
        PROVE  ScannerTold
    <2>1. i \in DOMAIN chain /\ chain[i].call # "settled" /\ Mined(i, m, after)
      BY <1>1 DEF CallMined, Pending
    <2> QED
      BY <2>1, MinedTold
  <1> QED
    BY <1>1 DEF ProtectorMined

LEMMA ProtectorKeepsRow ==
  ASSUME RowTold, ProtectorNext
  PROVE  RowTold'
  <1>1. CASE ProtectorRowNext
    BY <1>1, RowNextKeepsRow DEF ProtectorRowNext
  <1>2. CASE ProtectorReceives
    BY <1>2, ProtectorHandlersTold, HandlerKeepsRow
  <1>3. CASE ConfirmInfo \/ DeployProtector \/ OwnerApproves \/ OwnerDestroys
    BY <1>3, ConfirmInfoTold, ProtectorCallsTold, PublishKeepsRow, RestKeepsRow
  <1>4. CASE \/ SkipReads \/ SkipSaves \/ RepresentTimeIsUp \/ RepresentPostponed
             \/ ExecuteSends \/ ExecuteSaves
    BY <1>4, ProtectorRestsTold, RestKeepsRow
  <1>5. CASE ConfirmProtectorTokens
    BY <1>5, FrontTold, RestKeepsRow DEF ConfirmProtectorTokens
  <1>6. CASE ProtectorMined
    BY <1>6, ProtectorMinedTold, ScannerKeepsRow
  <1> QED
    BY <1>1, <1>2, <1>3, <1>4, <1>5, <1>6 DEF ProtectorNext

LEMMA CallKeepsRow ==
  ASSUME RowTold, DropCalled
  PROVE  RowTold'
  <1>1. PICK drop \in Drops :
          /\ Send("airdrop", {drop})
          /\ Publish(Told("PENDING", drop, << >>)) \/ UNCHANGED queue
    BY DEF DropCalled
  <1>2. /\ Spends /\ Locks /\ Hashes /\ MaySend
        /\ UNCHANGED <<kind, lockedBy, txHash, onChain, now, troubles>>
    <2>1. "airdrop" \in Calls
      BY DEF Calls
    <2> QED
      BY <1>1, <2>1 DEF DropCalled, Spends, Locks, Hashes, MaySend, Send
  <1>3. CASE UNCHANGED queue
    BY <1>2, <1>3, RestKeepsRow DEF RestTold, RowTold
  <1>4. ASSUME NEW m, Publish(m) PROVE RowTold'
    <2>1. /\ ready' = Append(ready, m) /\ UNCHANGED unacked /\ Queues /\ Size < MaxQueue
      BY <1>4 DEF Publish, RowTold, Size
    <2>2. Queues' /\ Size' = Size + 1 /\ Size \in Nat
      BY <2>1, SizeTold, SizeIs
    <2>3. Size' <= Size + 1
      BY <2>2
    <2>4. Settles(0)
      BY <1>2, SendsSettles DEF RowTold
    <2>5. onChain' \in {"none", "alive", "over"} /\ now' \in Times
      BY <1>2 DEF RowTold
    <2> QED
      BY <1>2, <2>1, <2>2, <2>3, <2>4, <2>5, RowStepTold
  <1> QED
    BY <1>1, <1>3, <1>4

LEMMA DecidedTold ==
  ASSUME DropDecided
  PROVE  ScannerTold
  <1>1. PICK i \in DOMAIN chain : Pending(i, "airdrop") /\ \E m : Mined(i, m, onChain)
    BY DEF DropDecided
  <1>2. chain[i].call # "settled"
    BY <1>1 DEF Pending
  <1> QED
    BY <1>1, <1>2, MinedTold

LEMMA MarksTold ==
  ASSUME RowTold, AirdropMarks
  PROVE  HandlerTold \/ RestTold
  <1>1. /\ ready # << >>
        /\ UNCHANGED <<kind, lockedBy, network, now>>
        /\ \/ UNCHANGED <<queue, troubles>>
           \/ Ack /\ UNCHANGED troubles
           \/ DeliveredAgain
    BY DEF AirdropMarks, Receiving
  <1> QED
    BY <1>1 DEF RowTold, HandlerTold, RestTold, Spends, Locks, Hashes, MaySend, network,
                Acknowledge, DeliveredAgain

LEMMA AirdropKeepsRow ==
  ASSUME RowTold, AirdropTold, kind \in AirdropKinds, AirdropNext
  PROVE  RowTold'
  <1>1. CASE LoadChecks \/ LoadDeletes \/ LoadCreates
    <2>1. RestTold
      BY <1>1 DEF LoadChecks, LoadDeletes, LoadCreates, rowVars, network, RestTold,
                  RowTold, Spends, Locks, MaySend
    <2> QED
      BY <2>1, RestKeepsRow
  <1>2. CASE AirdropMarks
    BY <1>2, MarksTold, HandlerKeepsRow, RestKeepsRow
  <1>3. CASE AirdropFails
    <2>1. HandlerTold
      BY <1>3 DEF AirdropFails, Receiving, HandlerTold, Spends, Locks, Hashes, MaySend,
                  network, LeaveUnacked
    <2> QED
      BY <2>1, HandlerKeepsRow
  <1>4. CASE AirdropCompletes
    <2>1. ready # << >>
      BY <1>4 DEF AirdropCompletes, AirdropTold, AirdropShape
    <2>2. HandlerTold
      BY <1>4, <2>1 DEF AirdropCompletes, HandlerTold, Spends, Locks, Hashes, MaySend,
                  network, Acknowledge, DeliveredAgain
    <2> QED
      BY <2>2, HandlerKeepsRow
  <1>5. CASE DropCalled
    BY <1>5, CallKeepsRow
  <1>6. CASE DropDecided
    BY <1>6, DecidedTold, ScannerKeepsRow
  <1>7. CASE Restart
    BY <1>7, RestartKeepsRow
  <1> QED
    BY <1>1, <1>2, <1>3, <1>4, <1>5, <1>6, <1>7 DEF AirdropNext

LEMMA PoolKeepsRow ==
  ASSUME RowTold, PoolNext
  PROVE  RowTold'
  <1>1. CASE \/ PoolFundsAdded \/ PoolTokenSent \/ PoolTimesChanged \/ PoolFinalized
             \/ PoolCancelled \/ SwapsDeposit \/ SwapsRefund
    <2>1. /\ ready # << >> /\ CountOnce
          /\ UNCHANGED <<kind, lockedBy, network, now>>
      BY <1>1 DEF PoolFundsAdded, PoolTokenSent, PoolTimesChanged, PoolFinalized,
                  PoolCancelled, SwapsDeposit, SwapsRefund, Receiving
    <2>2. HandlerTold
      BY <2>1 DEF CountOnce, HandlerTold, Spends, Locks, Hashes, MaySend, network,
                  Acknowledge, DeliveredAgain
    <2> QED
      BY <2>2, HandlerKeepsRow
  <1>2. CASE SwapsExpire
    <2>1. RestTold
      BY <1>2 DEF SwapsExpire, RestTold, RowTold, network, Spends, Locks, MaySend
    <2> QED
      BY <2>1, RestKeepsRow
  <1>3. CASE Tick
    BY <1>3, TickTold, RestKeepsRow
  <1>4. CASE (\E p \in Parties : Pays(p) \/ PaysOut(p)) \/ ChangesTimes
    <2>1. PublishTold
      BY <1>4 DEF Pays, PaysOut, ChangesTimes, PublishTold, network
    <2> QED
      BY <2>1, PublishKeepsRow
  <1>5. CASE Ends
    <2>1. PublishTold
      BY <1>5 DEF Ends, PublishTold
    <2> QED
      BY <2>1, PublishKeepsRow
  <1> QED
    BY <1>1, <1>2, <1>3, <1>4, <1>5 DEF PoolNext

LEMMA LifeRowInit == Init => RowTold
  <1> SUFFICES ASSUME Init PROVE RowTold
    OBVIOUS
  <1>1. /\ RowInit /\ onChain \in {"none", "alive"}
        /\ ready = << >> \/ ready = <<Launch>>
        /\ kind = "delayedpayment" => onChain = "none"
    BY DEF Init, WillInit, ProtectorInit, AirdropInit, PoolInit, AirdropKinds, PoolKinds
  <1> QED
    BY <1>1, RowStartsTold

LEMMA LifeRowStep == RowTold /\ AirdropTold /\ [Next]_lifeVars => RowTold'
  <1> SUFFICES ASSUME RowTold, AirdropTold, [Next]_lifeVars PROVE RowTold'
    OBVIOUS
  <1>1. CASE UNCHANGED lifeVars
    BY <1>1, RestKeepsRow
       DEF lifeVars, rowVars, network, RestTold, RowTold, Spends, Locks, MaySend
  <1>2. CASE Next
    BY <1>2, WillKeepsRow, ProtectorKeepsRow, AirdropKeepsRow, PoolKeepsRow
       DEF Next, WillStep, ProtectorStep, AirdropStep, PoolStep
  <1> QED
    BY <1>1, <1>2
-----------------------------------------------------------------------------
(***************************************************************************)
(* The types of a will.  Its duty is bounded because every payment is told *)
(* once, and once more after a crash: what is owed, with the payments that *)
(* the queue has yet to tell, is not more than what was received and the   *)
(* crashes.                                                                *)
(***************************************************************************)
RowMessages == {Deployed(TRUE), Deployed(FALSE)} \cup {TxFailed(i) : i \in 1..MaxTxs}

\* The step brings only messages of M.
Brings(M) == Queues' /\ Held' \subseteq Held \cup M

LEMMA HandlerBrings ==
  ASSUME Queues, HandlerTold
  PROVE  Brings({}) /\ Head(ready) \in Held
  BY Acks, Leaves, Acknowledges DEF HandlerTold, Handles, Brings

LEMMA PublishBrings ==
  ASSUME Queues, NEW m, Publish(m)
  PROVE  Brings({m})
  BY Publishes DEF Publish, Brings

LEMMA RestBrings ==
  ASSUME Queues, UNCHANGED queue
  PROVE  Brings({})
  BY DEF Queues, Held, LeftBehind, queue, Brings

LEMMA MinedBrings ==
  ASSUME Queues, NEW i, NEW m, NEW after, Mined(i, m, after)
  PROVE  Brings({m})
  BY Publishes DEF Mined, Brings

LEMMA RowBrings ==
  ASSUME RowTold, RowNext
  PROVE  Brings(RowMessages)
  <1>1. Queues
    BY DEF RowTold
  <1>2. CASE RowReceives
    BY <1>1, <1>2, RowReceivesTold, HandlerBrings DEF Brings
  <1>3. CASE Restart
    BY <1>1, <1>3, Redelivered DEF Restart, Brings
  <1>4. ASSUME NEW i \in 1..MaxTxs, DeployMined(i)
        PROVE  Brings(RowMessages)
    <2> DEFINE m == Deployed(TRUE)
    <2>1. m \in RowMessages /\ Mined(i, m, "alive")
      BY <1>4 DEF DeployMined, RowMessages
    <2> HIDE DEF m
    <2> QED
      BY <1>1, <2>1, MinedBrings DEF Brings
  <1>5. ASSUME NEW i \in 1..MaxTxs, Reverted(i)
        PROVE  Brings(RowMessages)
    <2> DEFINE a == Deployed(FALSE)
               b == TxFailed(i)
               some == Append(ready, a)
    <2>1. a \in RowMessages /\ b \in RowMessages
      BY DEF RowMessages
    <2>2. UNCHANGED unacked /\ (ready' = ready \o <<a, b>> \/ ready' = ready \o <<b>>)
      BY <1>5 DEF Reverted, Reverts
    <2> HIDE DEF a, b
    <2>3. ready' = Append(some, b) \/ ready' = Append(ready, b)
      BY <1>1, <2>2, ToldOneByOne DEF Queues
    <2>4. OfSome(some) /\ Elements(some) = Elements(ready) \cup {a}
      BY <1>1, Appended DEF Queues
    <2> HIDE DEF some
    <2>5. OfSome(ready') /\ Elements(ready') \subseteq Elements(ready) \cup {a, b}
      <3>1. CASE ready' = Append(some, b)
        <4>1. OfSome(ready') /\ Elements(ready') = Elements(some) \cup {b}
          BY <2>4, <3>1, Appended
        <4> QED
          BY <2>4, <4>1
      <3>2. CASE ready' = Append(ready, b)
        <4>1. OfSome(ready') /\ Elements(ready') = Elements(ready) \cup {b}
          BY <1>1, <3>2, Appended DEF Queues
        <4> QED
          BY <4>1
      <3> QED
        BY <2>3, <3>1, <3>2
    <2> QED
      BY <1>1, <2>1, <2>2, <2>5 DEF Queues, Held, LeftBehind, Brings
  <1> QED
    BY <1>2, <1>3, <1>4, <1>5 DEF RowNext

LEMMA DutyIsNat == MaxDuty \in Nat /\ MaxPayments \in Nat /\ MaxTroubles \in Nat
  BY PaymentsAreNat, RowBoundsAreNat DEF MaxDuty

LEMMA WillMessagesAre ==
  /\ RowMessages \subseteq WillMessages
  /\ {Launch, Confirm, Cancel, Check, Repeat, Checked, Trigger, Killed, Notified,
      Payment, MakePay} \subseteq WillMessages
  /\ \A v \in 0..MaxDuty : Funds(v) \in WillMessages
  <1>1. Deployed(TRUE) \in WillMessages /\ Deployed(FALSE) \in WillMessages
    BY DEF Deployed, WillMessages
  <1>2. \A i \in 1..MaxTxs : TxFailed(i) \in WillMessages
    BY DEF TxFailed, WillMessages
  <1>3. \A v \in 0..MaxDuty : Funds(v) \in WillMessages
    BY DEF Funds, WillMessages
  <1>4. {Launch, Confirm, Cancel, Check, Repeat, Checked, Trigger, Killed, Notified,
         Payment, MakePay} \subseteq WillMessages
    BY DEF WillMessages
  <1> QED
    BY <1>1, <1>2, <1>3, <1>4 DEF RowMessages

LEMMA WillMessagesReal ==
  ASSUME NEW m \in WillMessages
  PROVE  Real(m) /\ (m.type = "fundsAdded" => m.value \in Nat)
  <1> USE DEF Real
  <1>1. CASE m \in {Launch, Confirm, Cancel, Check, Repeat, Checked, Trigger, Killed, Notified,
                    Payment, MakePay}
    BY <1>1 DEF Launch, Confirm, Cancel, Check, Repeat, Checked, Trigger, Killed, Notified,
                Payment, MakePay
  <1>2. CASE m \in [type: {"deployed"}, success: BOOLEAN]
    <2>1. m.type = "deployed"
      BY <1>2
    <2> QED
      BY <2>1
  <1>3. CASE m \in [type: {"transactionCompleted"}, hash: 1..MaxTxs]
    <2>1. m.type = "transactionCompleted"
      BY <1>3
    <2> QED
      BY <2>1
  <1>4. CASE m \in [type: {"fundsAdded"}, value: 0..MaxDuty]
    <2>1. m.type = "fundsAdded" /\ m.value \in 0..MaxDuty
      BY <1>4
    <2> QED
      BY <2>1
  <1> QED
    BY <1>1, <1>2, <1>3, <1>4 DEF WillMessages

WillMessaged == Queues /\ Held \subseteq WillMessages

LEMMA WillSound ==
  ASSUME WillMessaged
  PROVE  Sound(ready) /\ Sound(unacked)
  BY WillMessagesReal DEF WillMessaged, Queues, Held, LeftBehind, Sound

(***************************************************************************)
(* The payments that the queue has yet to tell.                            *)
(***************************************************************************)
LEMMA PaidInAppended ==
  ASSUME NEW q, Sound(q), NEW m, Real(m)
  PROVE  PaidInBy(Append(q, m)) = PaidInBy(q) + PaidInOf(m)
  <1> DEFINE r == Append(q, m)
             v == [i \in DOMAIN q |-> PaidInOf(q[i])]
             w == [i \in DOMAIN r |-> PaidInOf(r[i])]
  <1>1. Sound(r) /\ OfSome(q)
    BY Appended DEF Sound
  <1>2. /\ \A i \in DOMAIN q : r[i] = q[i]
        /\ DOMAIN q \subseteq DOMAIN r /\ Len(q) + 1 \in DOMAIN r /\ r[Len(q) + 1] = m
    BY AppendedAt DEF Sound
  <1>3. (\A i \in DOMAIN q : w[i] = v[i]) /\ w[Len(q) + 1] = PaidInOf(m)
    BY <1>2
  <1>4. PaidInBy(q) = Total(v) /\ PaidInBy(r) = Total(w)
    BY DEF PaidInBy
  <1>5. v \in [DOMAIN q -> Nat] /\ w \in [DOMAIN r -> Nat]
    <2> HIDE DEF r
    <2> QED
      BY <1>1, SoundWeights
  <1> HIDE DEF v, w
  <1>6. Total(w) = Total(v) + w[Len(q) + 1]
    BY <1>1, <1>3, <1>5, TotalAppended
  <1> HIDE DEF r
  <1> QED
    BY <1>3, <1>4, <1>6 DEF r

LEMMA PaidInTaken ==
  ASSUME NEW q, Sound(q), q # << >>
  PROVE  /\ Sound(Tail(q)) /\ Real(Head(q))
         /\ PaidInBy(q) = PaidInOf(Head(q)) + PaidInBy(Tail(q))
  <1> DEFINE r == Tail(q)
             v == [i \in DOMAIN q |-> PaidInOf(q[i])]
             w == [i \in DOMAIN r |-> PaidInOf(r[i])]
  <1>1. Sound(r) /\ Real(Head(q)) /\ OfSome(q)
    BY Tailed DEF Sound
  <1>2. \A i \in DOMAIN r : i + 1 \in DOMAIN q /\ r[i] = q[i + 1]
    BY <1>1, TailedAt
  <1>3. \A i \in DOMAIN r : w[i] = v[i + 1]
    BY <1>2
  <1>4. PaidInBy(q) = Total(v) /\ PaidInBy(r) = Total(w)
    BY DEF PaidInBy
  <1>5. v \in [DOMAIN q -> Nat] /\ w \in [DOMAIN r -> Nat]
    <2> HIDE DEF r
    <2> QED
      BY <1>1, SoundWeights
  <1>6. \A i \in DOMAIN q : v[i] = PaidInOf(q[i])
    OBVIOUS
  <1> HIDE DEF v, w
  <1>7. 1 \in DOMAIN q /\ Head(q) = q[1] /\ Total(v) = v[1] + Total(w)
    BY <1>1, <1>3, <1>5, TotalTailed
  <1> HIDE DEF r
  <1> QED
    BY <1>1, <1>4, <1>6, <1>7 DEF r

LEMMA PaidInJoined ==
  ASSUME NEW q, Sound(q), NEW r, Sound(r)
  PROVE  Sound(q \o r) /\ PaidInBy(q \o r) = PaidInBy(q) + PaidInBy(r)
  <1> DEFINE s == q \o r
             v == [i \in DOMAIN q |-> PaidInOf(q[i])]
             w == [i \in DOMAIN r |-> PaidInOf(r[i])]
             u == [i \in DOMAIN s |-> PaidInOf(s[i])]
  <1>1. OfSome(q) /\ OfSome(r) /\ Sound(s)
    BY Joined DEF Sound
  <1>2. /\ \A i \in DOMAIN q : i \in DOMAIN s /\ s[i] = q[i]
        /\ \A i \in DOMAIN r : Len(q) + i \in DOMAIN s /\ s[Len(q) + i] = r[i]
    BY <1>1, JoinedAt
  <1>3. /\ \A i \in DOMAIN q : u[i] = v[i]
        /\ \A i \in DOMAIN r : u[Len(q) + i] = w[i]
    BY <1>2
  <1>4. PaidInBy(q) = Total(v) /\ PaidInBy(r) = Total(w) /\ PaidInBy(s) = Total(u)
    BY DEF PaidInBy
  <1>5. v \in [DOMAIN q -> Nat] /\ w \in [DOMAIN r -> Nat] /\ u \in [DOMAIN s -> Nat]
    <2> HIDE DEF s
    <2> QED
      BY <1>1, SoundWeights
  <1> HIDE DEF v, w, u
  <1>6. WeighJoined(q, r, v, w, u)
    BY <1>1, <1>3, <1>5 DEF WeighJoined, Weighs
  <1>7. Total(u) = Total(v) + Total(w)
    BY <1>6, TotalJoined
  <1> HIDE DEF s
  <1> QED
    BY <1>1, <1>4, <1>7 DEF s

LEMMA PaidInOfNone ==
  ASSUME NEW q, q = << >>
  PROVE  PaidInBy(q) = 0
  <1> DEFINE v == [i \in DOMAIN q |-> PaidInOf(q[i])]
  <1>1. DOMAIN v = {} /\ PaidInBy(q) = Total(v)
    BY DEF PaidInBy
  <1> HIDE DEF v
  <1> QED
    BY <1>1, TotalOfNone

Untold == PaidInBy(ready) + PaidInBy(unacked)

\* Untold in the next state, with no prime inside.
LEMMA UntoldNext == Untold' = PaidInBy(ready') + PaidInBy(unacked')
  BY DEF Untold, PaidInBy, PaidInOf, Payment, Total, Units

LEMMA UntoldIsNat ==
  ASSUME Sound(ready), Sound(unacked)
  PROVE  Untold \in Nat
  BY SoundWeights DEF Untold

LEMMA UntoldTaken ==
  ASSUME Sound(ready), Sound(unacked), ready # << >>, Ack \/ LeaveUnacked \/ Acknowledge
  PROVE  /\ Untold' \in Nat /\ Untold' <= Untold
         /\ LeaveUnacked => Untold' = Untold
  <1> DEFINE a == PaidInBy(ready)
             b == PaidInBy(unacked)
             c == PaidInBy(Tail(ready))
             h == PaidInOf(Head(ready))
  <1>1. Sound(Tail(ready)) /\ Real(Head(ready)) /\ a = h + c
    BY PaidInTaken
  <1>2. a \in Nat /\ b \in Nat /\ c \in Nat /\ h \in Nat
    BY <1>1, SoundWeights, WeightsAreNat
  <1>3. LeaveUnacked => PaidInBy(ready') = c /\ PaidInBy(unacked') = b + h
    <2> SUFFICES ASSUME LeaveUnacked PROVE PaidInBy(ready') = c /\ PaidInBy(unacked') = b + h
      OBVIOUS
    <2>1. ready' = Tail(ready) /\ unacked' = Append(unacked, Head(ready))
      BY DEF LeaveUnacked, Message
    <2> QED
      BY <1>1, <2>1, PaidInAppended
  <1>4. Ack => PaidInBy(ready') = c /\ PaidInBy(unacked') = b
    BY DEF Ack
  <1>5. DeliveredAgain => PaidInBy(ready') = b + a /\ PaidInBy(unacked') = 0
    BY PaidInJoined, PaidInOfNone DEF DeliveredAgain
  <1> HIDE DEF a, b, c, h
  <1>6. Untold = a + b
    BY DEF Untold, a, b
  <1>7. LeaveUnacked => Untold' = Untold
    BY <1>1, <1>2, <1>3, <1>6, UntoldNext
  <1>8. Ack => Untold' = c + b
    BY <1>4, UntoldNext
  <1>9. DeliveredAgain => Untold' = Untold
    BY <1>2, <1>5, <1>6, UntoldNext
  <1> QED
    BY <1>1, <1>2, <1>6, <1>7, <1>8, <1>9 DEF Acknowledge

LEMMA UntoldTold ==
  ASSUME Sound(ready), Sound(unacked), NEW m, Real(m), ready' = Append(ready, m), UNCHANGED unacked
  PROVE  Untold' = Untold + PaidInOf(m)
  <1>1. PaidInBy(ready) \in Nat /\ PaidInBy(unacked) \in Nat /\ PaidInOf(m) \in Nat
    BY SoundWeights, WeightsAreNat
  <1>2. PaidInBy(ready') = PaidInBy(ready) + PaidInOf(m)
    BY PaidInAppended
  <1> QED
    BY <1>1, <1>2, UntoldNext DEF Untold

LEMMA UntoldJoined ==
  ASSUME Sound(ready), Sound(unacked), ready' = unacked \o ready, unacked' = << >>
  PROVE  Untold' = Untold
  <1>1. PaidInBy(ready) \in Nat /\ PaidInBy(unacked) \in Nat
    BY SoundWeights
  <1>2. PaidInBy(ready') = PaidInBy(unacked) + PaidInBy(ready) /\ PaidInBy(unacked') = 0
    BY PaidInJoined, PaidInOfNone
  <1> QED
    BY <1>1, <1>2, UntoldNext DEF Untold

Whens == Times \cup {NoTime}

WillRowTyped ==
  /\ state \in WillStates
  /\ next_check \in Whens /\ pressed \in Whens
  /\ checker \in {"idle", "read"}
  /\ pressing \in [step: {"idle", "published"}, next_check: Whens, btc_duty: Int]
  /\ history \in Histories

WillPayments ==
  \A i \in DOMAIN chain : chain[i].call = "payment" => chain[i].with \subseteq 0..MaxDuty

DutyWithin ==
  /\ history.received \in 0..MaxPayments
  /\ btc_duty \in Int
  /\ \A x \in {0, btc_duty, pressing.btc_duty} : x + Untold <= history.received + troubles

WillTold == kind \in WillKinds =>
  WillMessaged /\ WillRowTyped /\ WillPayments /\ DutyWithin

LEMMA ScheduledWhen ==
  ASSUME now \in Times
  PROVE  Scheduled(now) \in Whens /\ NoTime \in Whens
  BY TimesAreNat DEF Scheduled, Whens, Times

LEMMA WillReceivesTyped ==
  ASSUME RowTold, WillRowTyped, WillReceives
  PROVE  WillRowTyped'
  <1>1. now \in Times
    BY DEF RowTold
  <1>2. Whens' = Whens /\ WillStates' = WillStates /\ Histories' = Histories
    BY DEF Whens, Times, NoTime, WillStates, Histories
  <1>3. UNCHANGED <<checker, pressing>>
    BY DEF WillReceives, WillDeployed, WillDeployedCutOff, WillDeployedNotMailed, WillChecked,
           WillTriggered, WillTriggeredNotMailed, WillKilled, WillCheckContract,
           WillConfirmAlive, WillCancel, WillNotified, WillContractPayment, WillMakePayment,
           WillFundsAdded, willVars, willDetails, willOthers
  <1>4. state' \in WillStates
    BY DEF WillRowTyped, WillReceives, WillDeployed, WillDeployedCutOff, WillDeployedNotMailed,
           WillChecked, LastwillChecked, LostKeyChecked, LostKeyTokensChecked,
           DelayedPaymentChecked, LostKeyEnds,
           WillTriggered, WillTriggeredNotMailed, WillKilled, WillCheckContract,
           WillConfirmAlive, WillCancel, WillNotified, WillContractPayment, WillMakePayment,
           WillFundsAdded, WillStates
  <1>5. next_check' \in Whens /\ pressed' \in Whens
    BY <1>1, ScheduledWhen
       DEF WillRowTyped, WillReceives, WillDeployed, WillDeployedCutOff, WillDeployedNotMailed,
           WillChecked, LastwillChecked, LostKeyChecked, LostKeyTokensChecked,
           DelayedPaymentChecked, Rescheduled, LastwillTriggered, LostKeyTriggered,
           DelayedPaymentTriggered,
           WillTriggered, WillTriggeredNotMailed, WillKilled, WillCheckContract,
           WillConfirmAlive, WillCancel, WillNotified, WillContractPayment, WillMakePayment,
           WillFundsAdded, willVars, willDetails
  <1>6. history' \in Histories
    <2>1. \/ UNCHANGED history
          \/ history' = [history EXCEPT !.unscheduled = TRUE]
          \/ history' = [history EXCEPT !.recounted = TRUE]
      BY DEF WillReceives, WillDeployed, WillDeployedCutOff, WillDeployedNotMailed, WillChecked,
           WillTriggered, WillTriggeredNotMailed, WillKilled, WillCheckContract,
           WillConfirmAlive, WillCancel, WillNotified, WillContractPayment, WillMakePayment,
           WillFundsAdded, willVars
    <2> QED
      BY <2>1 DEF WillRowTyped, Histories
  <1> QED
    BY <1>2, <1>3, <1>4, <1>5, <1>6 DEF WillRowTyped

LEMMA PressAliveTyped ==
  ASSUME RowTold, WillRowTyped, btc_duty \in Int, PressAlive
  PROVE  WillRowTyped' /\ pressing'.btc_duty = btc_duty
  <1>1. /\ pressing' = [step |-> "published", next_check |-> next_check, btc_duty |-> btc_duty]
        /\ UNCHANGED <<state, next_check, pressed, checker, history>>
    BY DEF PressAlive, willDetails
  <1> QED
    BY <1>1 DEF WillRowTyped, Whens, Times, NoTime, WillStates, Histories

LEMMA PressSavedTyped ==
  ASSUME RowTold, WillRowTyped, PressSaved
  PROVE  /\ WillRowTyped'
         /\ pressing'.btc_duty = 0 /\ history'.received = history.received
  <1> DEFINE stale == pressing.next_check # next_check \/ pressing.btc_duty # btc_duty
  <1>1. /\ pressed' = now /\ next_check' = pressing.next_check /\ pressing' = NoRequest
        /\ history' = [history EXCEPT !.overwritten = @ \/ stale]
        /\ UNCHANGED <<state, checker>>
    BY DEF PressSaved, rowVars
  <1>2. (history.overwritten \/ stale) \in BOOLEAN
    OBVIOUS
  <1>3. history \in Histories
    BY DEF WillRowTyped
  <1> HIDE DEF stale
  <1>4. history' \in Histories /\ history'.received = history.received
    BY <1>1, <1>2, <1>3 DEF Histories
  <1>5. now \in Whens /\ pressing.next_check \in Whens /\ NoTime \in Whens
    BY DEF RowTold, WillRowTyped, Whens
  <1>6. NoRequest \in [step: {"idle", "published"}, next_check: Whens, btc_duty: Int]
        /\ NoRequest.btc_duty = 0
    BY <1>5 DEF NoRequest
  <1> QED
    BY <1>1, <1>4, <1>5, <1>6 DEF WillRowTyped, Whens, Times, NoTime, WillStates, Histories

LEMMA WillMinedBooks ==
  ASSUME RowTold, WillRowTyped, WillPayments, WillMined
  PROVE  history' \in Histories /\ history'.received = history.received
  <1>1. CASE UNCHANGED history
    BY <1>1 DEF WillRowTyped
  <1>2. CASE ~UNCHANGED history
    <2>1. PICK i \in DOMAIN chain : \E v \in chain[i].with :
            /\ CallMined(i, "payment", Funds(v), "alive")
            /\ history' = [history EXCEPT !.funded = @ + v]
      BY <1>2 DEF WillMined
    <2>2. PICK v \in chain[i].with :
            /\ CallMined(i, "payment", Funds(v), "alive")
            /\ history' = [history EXCEPT !.funded = @ + v]
      BY <2>1
    <2>3. v \in Nat
      BY <2>2, DutyIsNat DEF CallMined, Pending, WillPayments
    <2> QED
      BY <2>2, <2>3 DEF WillRowTyped, Histories
  <1> QED
    BY <1>1, <1>2

LEMMA WillAlonesTyped ==
  ASSUME RowTold, WillRowTyped, WillPayments,
         \/ RowNext /\ UNCHANGED willVars
         \/ Tick /\ UNCHANGED willVars
         \/ WillChecks \/ PressCancel \/ BitcoinArrives
         \/ WillMined \/ DelayedPaymentPays
  PROVE  WillRowTyped'
  <1>1. state' \in WillStates
    <2>1. CASE RowNext
      BY <2>1, RowTouches DEF RowTold, WillRowTyped, WillStates
    <2>2. CASE ~RowNext
      BY <2>2 DEF WillRowTyped, Tick, WillChecks, CheckerReads, CheckerExpires, CheckerAsks,
             CheckerPasses, PressCancel, BitcoinArrives, WillMined, CallMined, Mined,
             DelayedPaymentPays, rowVars, WillStates
    <2> QED
      BY <2>1, <2>2
  <1>2. UNCHANGED <<next_check, pressed, pressing>> /\ checker' \in {"idle", "read"}
    BY DEF WillRowTyped, WillChecks, CheckerReads, CheckerExpires, CheckerAsks,
             CheckerPasses, PressCancel, BitcoinArrives, WillMined,
             DelayedPaymentPays, willVars, willDetails, willOthers
  <1>3. history' \in Histories
    <2>1. CASE WillMined
      BY <2>1, WillMinedBooks
    <2>2. CASE ~WillMined
      <3>1. UNCHANGED history \/ history' = [history EXCEPT !.received = @ + 1]
        BY <2>2 DEF WillChecks, CheckerReads, CheckerExpires, CheckerAsks,
             CheckerPasses, PressCancel, BitcoinArrives, DelayedPaymentPays, willVars
      <3> QED
        BY <3>1 DEF WillRowTyped, Histories
    <2> QED
      BY <2>1, <2>2
  <1> QED
    BY <1>1, <1>2, <1>3 DEF WillRowTyped, Whens, Times, NoTime, WillStates, Histories

LEMMA WillRowKept ==
  ASSUME RowTold, WillRowTyped, WillPayments, btc_duty \in Int, WillNext
  PROVE  WillRowTyped'
  BY WillReceivesTyped, PressAliveTyped, PressSavedTyped, WillAlonesTyped DEF WillNext

(***************************************************************************)
(* The messages of a will and its payments.                                *)
(***************************************************************************)
LEMMA WillHeldKept ==
  ASSUME WillMessaged, NEW M, M \subseteq WillMessages, Brings(M)
  PROVE  WillMessaged'
  <1>1. WillMessages' = WillMessages
    BY DEF WillMessages
  <1> QED
    BY <1>1 DEF WillMessaged, Brings

LEMMA ContractPaymentBrings ==
  ASSUME RowTold, WillContractPayment
  PROVE  Brings({MakePay})
  <1>1. Queues /\ ready # << >>
    BY DEF RowTold, WillContractPayment, Receiving
  <1>2. CASE LeaveUnacked
    BY <1>1, <1>2, Leaves DEF Brings, Handles
  <1>3. CASE ready' = Append(Tail(ready), MakePay) /\ UNCHANGED unacked
    <2> DEFINE rest == Tail(ready)
    <2>1. OfSome(rest) /\ Elements(rest) \subseteq Elements(ready)
      BY <1>1, Tailed DEF Queues
    <2>2. ready' = Append(rest, MakePay)
      BY <1>3
    <2> HIDE DEF rest
    <2>3. OfSome(ready') /\ Elements(ready') = Elements(rest) \cup {MakePay}
      BY <2>1, <2>2, Appended
    <2> QED
      BY <1>1, <1>3, <2>1, <2>3 DEF Queues, Held, LeftBehind, Brings
  <1>4. CASE ready' = unacked \o Append(ready, MakePay) /\ unacked' = << >>
    <2> DEFINE more == Append(ready, MakePay)
    <2>1. OfSome(more) /\ Elements(more) = Elements(ready) \cup {MakePay}
      BY <1>1, Appended DEF Queues
    <2>2. ready' = unacked \o more
      BY <1>4
    <2> HIDE DEF more
    <2>3. OfSome(ready') /\ Elements(ready') = Elements(unacked) \cup Elements(more)
      BY <1>1, <2>1, <2>2, Joined DEF Queues
    <2>4. OfSome(unacked') /\ Elements(unacked') = {}
      BY <1>4, Empty
    <2> QED
      BY <2>1, <2>3, <2>4 DEF Queues, Held, LeftBehind, Brings
  <1> QED
    BY <1>2, <1>3, <1>4 DEF WillContractPayment

LEMMA WillMessagesKept ==
  ASSUME RowTold, WillMessaged, WillPayments, WillNext
  PROVE  WillMessaged'
  <1>1. Queues
    BY DEF RowTold
  <1>2. CASE RowNext
    BY <1>2, RowBrings, WillHeldKept, WillMessagesAre
  <1>3. CASE Tick \/ CheckerReads \/ CheckerExpires \/ CheckerPasses \/ PressSaved
    <2>1. UNCHANGED queue
      BY <1>3 DEF Tick, CheckerReads, CheckerExpires, CheckerPasses, PressSaved, rowVars
    <2> QED
      BY <1>1, <2>1, RestBrings, WillHeldKept
  <1>4. CASE WillReceives
    <2>1. CASE WillContractPayment
      BY <2>1, ContractPaymentBrings, WillHeldKept, WillMessagesAre
    <2>2. CASE ~WillContractPayment
      BY <1>1, <1>4, <2>2, WillHandlersTold, HandlerBrings, WillHeldKept
    <2> QED
      BY <2>1, <2>2
  <1>5. CASE CheckerAsks \/ PressAlive \/ PressCancel \/ BitcoinArrives
    <2>1. PICK m \in {Check, Confirm, Cancel, Payment} : Publish(m)
      BY <1>5 DEF CheckerAsks, PressAlive, PressCancel, BitcoinArrives
    <2>2. {m} \subseteq WillMessages
      BY WillMessagesAre
    <2>3. Brings({m})
      BY <1>1, <2>1, PublishBrings
    <2> QED
      BY <2>2, <2>3, WillHeldKept
  <1>6. CASE WillMined
    <2>1. \E i, after : \E m \in {Checked, Trigger, Repeat, Notified, Killed}
                               \cup {Funds(v) : v \in 0..MaxDuty} : Mined(i, m, after)
      BY <1>6 DEF WillMined, CallMined, Pending, WillPayments
    <2>2. PICK m \in {Checked, Trigger, Repeat, Notified, Killed}
                      \cup {Funds(v) : v \in 0..MaxDuty} :
            \E i, after : Mined(i, m, after)
      BY <2>1
    <2>3. {m} \subseteq WillMessages
      BY WillMessagesAre
    <2>4. Brings({m})
      BY <1>1, <2>2, MinedBrings
    <2> QED
      BY <2>3, <2>4, WillHeldKept
  <1>7. CASE DelayedPaymentPays
    <2>1. Brings({Trigger})
      BY <1>1, <1>7, Publishes DEF DelayedPaymentPays, Brings
    <2> QED
      BY <2>1, WillHeldKept, WillMessagesAre
  <1> QED
    BY <1>2, <1>3, <1>4, <1>5, <1>6, <1>7 DEF WillNext, WillChecks

LEMMA WillPaymentsKept ==
  ASSUME RowTold, WillPayments,
         \/ UNCHANGED chain
         \/ \E call, with : Send(call, with) /\ (call = "payment" => with \subseteq 0..MaxDuty)
         \/ \E i \in DOMAIN chain : chain' = [chain EXCEPT ![i] = Settled]
  PROVE  WillPayments'
  <1>1. OfSome(chain) /\ Len(chain) <= MaxTxs /\ (0..MaxDuty)' = 0..MaxDuty
    BY DEF RowTold, CallsTold, MaxDuty
  <1>2. CASE UNCHANGED chain
    BY <1>1, <1>2 DEF WillPayments
  <1>3. CASE \E call, with : Send(call, with) /\ (call = "payment" => with \subseteq 0..MaxDuty)
    <2>1. PICK call, with : Send(call, with) /\ (call = "payment" => with \subseteq 0..MaxDuty)
      BY <1>3
    <2> QED
      BY <1>1, <2>1, SendKeeps DEF WillPayments
  <1>4. CASE \E i \in DOMAIN chain : chain' = [chain EXCEPT ![i] = Settled]
    BY <1>1, <1>4, SettleKeeps DEF WillPayments
  <1> QED
    BY <1>2, <1>3, <1>4

LEMMA WillPaymentsStep ==
  ASSUME RowTold, WillMessaged, WillPayments, DutyWithin, WillNext
  PROVE  WillPayments'
  <1>1. btc_duty >= 0 => {btc_duty} \subseteq 0..MaxDuty
    <2>1. Untold \in Nat
      BY WillSound, UntoldIsNat
    <2>2. btc_duty + Untold <= history.received + troubles /\ btc_duty \in Int
      BY DEF DutyWithin
    <2>3. /\ history.received \in Nat /\ history.received <= MaxPayments
          /\ troubles \in Nat /\ troubles <= MaxTroubles
      BY DutyIsNat DEF DutyWithin, RowTold
    <2> DEFINE r == history.received
    <2> HIDE DEF r
    <2>4. btc_duty <= MaxPayments + MaxTroubles
      BY <2>1, <2>2, <2>3, DutyIsNat
    <2> QED
      BY <2>2, <2>4 DEF MaxDuty
  <1>2. \/ UNCHANGED chain
        \/ \E call, with : Send(call, with) /\ (call = "payment" => with \subseteq 0..MaxDuty)
        \/ \E i \in DOMAIN chain : chain' = [chain EXCEPT ![i] = Settled]
    <2>1. CASE RowNext
      <3>1. "deploy" # "payment"
        OBVIOUS
      <3> QED
        BY <2>1, <3>1, RowSends
    <2>2. CASE WillMakePayment
      BY <1>1, <2>2 DEF WillMakePayment, SendsNothing
    <2>3. CASE WillCheckContract \/ WillConfirmAlive \/ WillCancel
      BY <2>3 DEF WillCheckContract, WillConfirmAlive, WillCancel, SendsNothing, network
    <2>4. CASE \/ WillDeployed \/ WillDeployedCutOff \/ WillDeployedNotMailed
               \/ WillChecked \/ WillTriggered \/ WillTriggeredNotMailed
               \/ WillKilled \/ WillNotified \/ WillContractPayment \/ WillFundsAdded
      BY <2>4 DEF WillDeployed, WillDeployedCutOff, WillDeployedNotMailed, WillChecked,
                  WillTriggered, WillTriggeredNotMailed, WillKilled, WillNotified,
                  WillContractPayment, WillFundsAdded, network
    <2>5. CASE WillMined
      BY <2>5 DEF WillMined, CallMined, Mined, Pending
    <2>6. CASE \/ Tick \/ WillChecks \/ PressAlive \/ PressSaved \/ PressCancel
               \/ BitcoinArrives \/ DelayedPaymentPays
      BY <2>6 DEF Tick, WillChecks, CheckerReads, CheckerExpires, CheckerAsks, CheckerPasses,
                  PressAlive, PressSaved, PressCancel, BitcoinArrives, DelayedPaymentPays,
                  rowVars, network
    <2> QED
      BY <2>1, <2>2, <2>3, <2>4, <2>5, <2>6 DEF WillNext, WillReceives
  <1> QED
    BY <1>2, WillPaymentsKept

\* k messages of payments more, and so many payments received or crashes.
LEMMA WithinKept ==
  ASSUME DutyWithin, pressing.btc_duty \in Int, troubles \in Nat, troubles' \in Nat,
         Untold \in Nat, Untold' \in Nat,
         NEW k \in {0, 1}, Untold' <= Untold + k,
         history'.received \in 0..MaxPayments,
         history.received + troubles + k <= history'.received + troubles',
         btc_duty' \in {btc_duty, pressing.btc_duty, 0},
         pressing'.btc_duty \in {btc_duty, pressing.btc_duty, 0}
  PROVE  DutyWithin'
  <1> DEFINE r == history.received + troubles
             s == history'.received + troubles'
             n == Untold
             m == Untold'
  <1>1. r \in Int /\ s \in Int /\ n \in Int /\ m \in Int /\ btc_duty' \in Int
    BY DEF DutyWithin
  <1>2. r + k <= s /\ m <= n + k
    OBVIOUS
  <1>3. \A x \in {0, btc_duty, pressing.btc_duty} : x \in Int /\ x + n <= r
    BY DEF DutyWithin
  <1> HIDE DEF r, s, n, m
  <1>4. \A x \in {0, btc_duty, pressing.btc_duty} : x + m <= s
    BY <1>1, <1>2, <1>3
  <1>5. \A x \in {0, btc_duty', pressing'.btc_duty} : x + m <= s
    BY <1>4
  <1> QED
    BY <1>1, <1>5 DEF DutyWithin, r, s, m

LEMMA WeightlessUntold ==
  ASSUME NEW m, m.type # "contractPayment"
  PROVE  PaidInOf(m) = 0
  BY DEF PaidInOf, Payment

LEMMA HandlerUntold ==
  ASSUME WillMessaged, HandlerTold
  PROVE  Untold' \in Nat /\ Untold' <= Untold + 0
  <1>1. Untold' \in Nat /\ Untold' <= Untold /\ Untold \in Nat
    BY WillSound, UntoldTaken, UntoldIsNat DEF HandlerTold
  <1> QED
    BY <1>1

LEMMA RestUntold ==
  ASSUME WillMessaged, UNCHANGED queue
  PROVE  Untold' \in Nat /\ Untold' <= Untold + 0
  <1>1. Untold' = Untold /\ Untold \in Nat
    BY WillSound, UntoldIsNat, UntoldNext DEF Untold, queue
  <1> QED
    BY <1>1

LEMMA ToldUntold ==
  ASSUME WillMessaged, NEW m, m \in WillMessages, ready' = Append(ready, m), UNCHANGED unacked
  PROVE  /\ Untold' \in Nat
         /\ m.type # "contractPayment" => Untold' <= Untold + 0
         /\ Untold' <= Untold + 1
  <1>1. Real(m)
    BY WillMessagesReal
  <1>2. Untold' = Untold + PaidInOf(m) /\ Untold \in Nat /\ PaidInOf(m) \in {0, 1}
    BY <1>1, WillSound, UntoldTold, UntoldIsNat DEF PaidInOf
  <1>3. m.type # "contractPayment" => PaidInOf(m) = 0
    BY WeightlessUntold
  <1> QED
    BY <1>2, <1>3

LEMMA RowUntold ==
  ASSUME RowTold, WillMessaged, RowNext
  PROVE  Untold' \in Nat /\ Untold' <= Untold + 0
  <1>1. Sound(ready) /\ Sound(unacked) /\ Untold \in Nat
    BY WillSound, UntoldIsNat
  <1>2. CASE RowReceives
    BY <1>2, RowReceivesTold, HandlerUntold
  <1>3. CASE Restart
    <2>1. Untold' = Untold
      BY <1>1, <1>3, UntoldJoined DEF Restart
    <2> QED
      BY <1>1, <2>1
  <1>4. ASSUME NEW i \in 1..MaxTxs, DeployMined(i)
        PROVE  Untold' \in Nat /\ Untold' <= Untold + 0
    <2> DEFINE m == Deployed(TRUE)
    <2>1. m \in WillMessages /\ m.type # "contractPayment"
      BY WillMessagesAre DEF RowMessages, Deployed
    <2>2. ready' = Append(ready, m) /\ UNCHANGED unacked
      BY <1>4 DEF DeployMined, Mined
    <2> HIDE DEF m
    <2> QED
      BY <2>1, <2>2, ToldUntold
  <1>5. ASSUME NEW i \in 1..MaxTxs, Reverted(i)
        PROVE  Untold' \in Nat /\ Untold' <= Untold + 0
    <2> DEFINE a == Deployed(FALSE)
               b == TxFailed(i)
               some == Append(ready, a)
    <2>1. /\ a \in WillMessages /\ a.type # "contractPayment"
          /\ b \in WillMessages /\ b.type # "contractPayment"
      BY WillMessagesAre DEF RowMessages, Deployed, TxFailed
    <2>2. UNCHANGED unacked /\ (ready' = ready \o <<a, b>> \/ ready' = ready \o <<b>>)
      BY <1>5 DEF Reverted, Reverts
    <2> HIDE DEF a, b
    <2>3. ready' = Append(some, b) \/ ready' = Append(ready, b)
      BY <2>2, ToldOneByOne DEF WillMessaged, Queues
    <2>4. Real(a) /\ Real(b) /\ PaidInOf(a) = 0 /\ PaidInOf(b) = 0
      BY <2>1, WillMessagesReal, WeightlessUntold
    <2>5. CASE ready' = Append(ready, b)
      BY <2>1, <2>2, <2>5, ToldUntold
    <2>6. CASE ready' = Append(some, b)
      <3>1. Sound(some) /\ PaidInBy(some) = PaidInBy(ready) + PaidInOf(a)
        BY <1>1, <2>4, NetAppended, PaidInAppended
      <3> HIDE DEF some
      <3>2. PaidInBy(ready') = PaidInBy(some) + PaidInOf(b)
        BY <2>4, <2>6, <3>1, PaidInAppended
      <3>3. PaidInBy(ready) \in Nat /\ PaidInBy(unacked) \in Nat
        BY <1>1, SoundWeights
      <3>4. Untold' = Untold
        BY <2>2, <2>4, <3>1, <3>2, <3>3, UntoldNext DEF Untold
      <3> QED
        BY <1>1, <3>4
    <2> QED
      BY <2>3, <2>5, <2>6
  <1> QED
    BY <1>2, <1>3, <1>4, <1>5 DEF RowNext

\* A step that counts no payment and receives none.
LEMMA WithinRests ==
  ASSUME WillMessaged, RowTold, WillRowTyped, DutyWithin, Untold' \in Nat, Untold' <= Untold + 0,
         RowTold', history'.received = history.received, UNCHANGED troubles \/ Trouble,
         btc_duty' \in {btc_duty, pressing.btc_duty, 0},
         pressing'.btc_duty \in {btc_duty, pressing.btc_duty, 0}
  PROVE  DutyWithin'
  <1>1. /\ pressing.btc_duty \in Int /\ Untold \in Nat
        /\ troubles \in Nat /\ troubles' \in Nat /\ history'.received \in 0..MaxPayments
        /\ history.received \in Int
    BY WillSound, UntoldIsNat DEF WillRowTyped, RowTold, DutyWithin
  <1>2. troubles' = troubles \/ troubles' = troubles + 1
    BY DEF Trouble
  <1>3. history.received + troubles + 0 <= history'.received + troubles'
    BY <1>1, <1>2
  <1> QED
    BY <1>1, <1>3, WithinKept

LEMMA WillHandlersWithin ==
  ASSUME RowTold, RowTold', WillMessaged, WillRowTyped, DutyWithin, WillReceives,
         ~WillContractPayment, ~WillFundsAdded
  PROVE  DutyWithin'
  <1>1. HandlerTold /\ (UNCHANGED troubles \/ Trouble)
    BY WillHandlersTold DEF HandlerTold, Spends
  <1>2. Untold' \in Nat /\ Untold' <= Untold + 0
    BY <1>1, HandlerUntold
  <1>3. /\ UNCHANGED <<btc_duty, pressing>>
        /\ UNCHANGED history \/ history' = [history EXCEPT !.unscheduled = TRUE]
    BY DEF WillReceives, WillDeployed, WillDeployedCutOff, WillDeployedNotMailed, WillChecked,
           WillTriggered, WillTriggeredNotMailed, WillKilled, WillCheckContract,
           WillConfirmAlive, WillCancel, WillNotified, WillMakePayment,
           willVars, willDetails, willOthers
  <1>4. history'.received = history.received
    BY <1>3 DEF WillRowTyped, Histories
  <1> QED
    BY <1>1, <1>2, <1>3, <1>4, WithinRests

LEMMA FundsAddedWithin ==
  ASSUME RowTold, RowTold', WillMessaged, WillRowTyped, DutyWithin, WillFundsAdded
  PROVE  DutyWithin'
  <1>1. /\ HandlerTold /\ Receiving("fundsAdded")
        /\ btc_duty' = btc_duty - Head(ready).value /\ UNCHANGED pressing
        /\ UNCHANGED history \/ history' = [history EXCEPT !.recounted = TRUE]
    BY WillHandlersTold
       DEF WillFundsAdded, WillReceives, WillContractPayment, Receiving, DutyPaid, Message,
           willOthers
  <1>2. Untold' \in Nat /\ Untold' <= Untold /\ Untold \in Nat
    BY <1>1, HandlerUntold, WillSound, UntoldIsNat
  <1>3. Head(ready).value \in Nat
    BY <1>1, HandlerBrings, WillMessagesReal DEF Receiving, WillMessaged
  <1>4. /\ history'.received = history.received /\ history.received \in 0..MaxPayments
    BY <1>1 DEF WillRowTyped, Histories, DutyWithin
  <1>5. troubles \in Nat /\ (troubles' = troubles \/ troubles' = troubles + 1)
    BY <1>1 DEF RowTold, HandlerTold, Spends, Trouble
  <1> DEFINE r == history.received
             n == Untold
             m == Untold'
             p == pressing.btc_duty
             v == Head(ready).value
             t == troubles
             u == troubles'
             c == btc_duty'
  <1>6. /\ r \in Nat /\ n \in Nat /\ m \in Nat /\ m <= n /\ v \in Nat /\ p \in Int
        /\ btc_duty \in Int /\ c = btc_duty - v /\ t \in Nat /\ (u = t \/ u = t + 1)
    BY <1>1, <1>2, <1>3, <1>4, <1>5 DEF DutyWithin, WillRowTyped
  <1>7. 0 + n <= r + t /\ btc_duty + n <= r + t /\ p + n <= r + t
    BY DEF DutyWithin
  <1> HIDE DEF r, n, m, p, v, t, u, c
  <1>8. /\ 0 + m <= r + u /\ c + m <= r + u /\ p + m <= r + u /\ c \in Int
    BY <1>6, <1>7
  <1> QED
    BY <1>1, <1>4, <1>8 DEF DutyWithin, r, n, m, p, u, c

LEMMA ContractPaymentWithin ==
  ASSUME RowTold, RowTold', WillMessaged, WillRowTyped, DutyWithin, WillContractPayment
  PROVE  DutyWithin'
  <1>1. /\ Receiving("contractPayment") /\ ready # << >>
        /\ btc_duty' = btc_duty + 1 /\ UNCHANGED pressing
        /\ UNCHANGED history \/ history' = [history EXCEPT !.recounted = TRUE]
    BY DEF WillContractPayment, Receiving, willOthers
  <1>2. /\ Sound(ready) /\ Sound(unacked) /\ Untold \in Nat
        /\ Sound(Tail(ready)) /\ Real(Head(ready))
        /\ PaidInBy(ready) = PaidInOf(Head(ready)) + PaidInBy(Tail(ready))
    BY <1>1, WillSound, UntoldIsNat, PaidInTaken
  <1>3. Head(ready) = Payment /\ PaidInOf(Head(ready)) = 1
    BY <1>1, <1>2 DEF Receiving, Real, PaidInOf
  <1>4. /\ PaidInBy(ready) \in Nat /\ PaidInBy(unacked) \in Nat /\ PaidInBy(Tail(ready)) \in Nat
    BY <1>2, SoundWeights
  <1>5. Real(MakePay) /\ PaidInOf(MakePay) = 0
    BY DEF Real, MakePay, PaidInOf, Payment
  <1>6. \/ Untold' = Untold - 1 /\ UNCHANGED troubles
        \/ Untold' = Untold /\ Trouble
    <2>1. CASE LeaveUnacked
      <3>1. Untold' = Untold
        BY <1>1, <1>2, <2>1, UntoldTaken
      <3> QED
        BY <2>1, <3>1 DEF LeaveUnacked
    <2>2. CASE ready' = Append(Tail(ready), MakePay) /\ UNCHANGED <<unacked, troubles>>
      <3>1. PaidInBy(ready') = PaidInBy(Tail(ready)) + 0
        BY <1>2, <1>5, <2>2, PaidInAppended
      <3>2. Untold' = Untold - 1
        BY <1>2, <1>3, <1>4, <2>2, <3>1, UntoldNext DEF Untold
      <3> QED
        BY <2>2, <3>2
    <2>3. CASE Trouble /\ ready' = unacked \o Append(ready, MakePay) /\ unacked' = << >>
      <3> DEFINE more == Append(ready, MakePay)
      <3>1. Sound(more) /\ PaidInBy(more) = PaidInBy(ready) + 0
        BY <1>2, <1>5, NetAppended, PaidInAppended
      <3>2. ready' = unacked \o more
        BY <2>3
      <3> HIDE DEF more
      <3>3. PaidInBy(ready') = PaidInBy(unacked) + PaidInBy(more) /\ PaidInBy(unacked') = 0
        BY <1>2, <2>3, <3>1, <3>2, PaidInJoined, PaidInOfNone
      <3>4. Untold' = Untold
        BY <1>4, <3>1, <3>3, UntoldNext DEF Untold
      <3> QED
        BY <2>3, <3>4
    <2> QED
      BY <2>1, <2>2, <2>3 DEF WillContractPayment
  <1>7. history'.received = history.received /\ history.received \in 0..MaxPayments
    BY <1>1 DEF WillRowTyped, Histories, DutyWithin
  <1> DEFINE r == history.received
             n == Untold
             m == Untold'
             p == pressing.btc_duty
             t == troubles
             u == troubles'
             c == btc_duty'
  <1>8. /\ r \in Nat /\ n \in Nat /\ p \in Int
        /\ btc_duty \in Int /\ c = btc_duty + 1 /\ t \in Nat
        /\ (m = n - 1 /\ u = t) \/ (m = n /\ u = t + 1)
    BY <1>1, <1>2, <1>6, <1>7 DEF DutyWithin, WillRowTyped, RowTold, Trouble
  <1>9. 0 + n <= r + t /\ btc_duty + n <= r + t /\ p + n <= r + t
    BY DEF DutyWithin
  <1> HIDE DEF r, n, m, p, t, u, c
  <1>10. /\ 0 + m <= r + u /\ c + m <= r + u /\ p + m <= r + u /\ c \in Int
    BY <1>8, <1>9
  <1> QED
    BY <1>1, <1>7, <1>10 DEF DutyWithin, r, n, m, p, u, c

LEMMA BitcoinWithin ==
  ASSUME RowTold, RowTold', WillMessaged, WillRowTyped, DutyWithin, BitcoinArrives
  PROVE  DutyWithin'
  <1>1. /\ ready' = Append(ready, Payment) /\ UNCHANGED <<unacked, troubles, btc_duty, pressing>>
        /\ history' = [history EXCEPT !.received = @ + 1] /\ history.received < MaxPayments
    BY DEF BitcoinArrives, Publish, willDetails, willOthers
  <1>2. Untold' \in Nat /\ Untold' <= Untold + 1 /\ Untold \in Nat
    BY <1>1, ToldUntold, WillMessagesAre, WillSound, UntoldIsNat
  <1>3. /\ history'.received = history.received + 1 /\ history'.received \in 0..MaxPayments
        /\ history.received \in Nat
    BY <1>1, DutyIsNat DEF WillRowTyped, Histories, DutyWithin
  <1>4. pressing.btc_duty \in Int /\ troubles \in Nat /\ troubles' \in Nat
    BY <1>1 DEF WillRowTyped, RowTold
  <1>5. history.received + troubles + 1 <= history'.received + troubles'
    BY <1>1, <1>3, <1>4
  <1>6. /\ btc_duty' \in {btc_duty, pressing.btc_duty, 0}
        /\ pressing'.btc_duty \in {btc_duty, pressing.btc_duty, 0}
    BY <1>1
  <1> QED
    BY <1>2, <1>3, <1>4, <1>5, <1>6, WithinKept

LEMMA WillWithinKept ==
  ASSUME RowTold, RowTold', WillMessaged, WillRowTyped, WillPayments, DutyWithin, WillNext
  PROVE  DutyWithin'
  <1>1. CASE WillReceives
    BY <1>1, WillHandlersWithin, FundsAddedWithin, ContractPaymentWithin
  <1>2. CASE BitcoinArrives
    BY <1>2, BitcoinWithin
  <1>3. CASE ~WillReceives /\ ~BitcoinArrives
    <2>1. Untold' \in Nat /\ Untold' <= Untold + 0
      <3>1. CASE RowNext
        BY <3>1, RowUntold
      <3>2. CASE Tick \/ CheckerReads \/ CheckerExpires \/ CheckerPasses \/ PressSaved
        <4>1. UNCHANGED queue
          BY <3>2 DEF Tick, CheckerReads, CheckerExpires, CheckerPasses, PressSaved, rowVars
        <4> QED
          BY <4>1, RestUntold
      <3>3. CASE \/ CheckerAsks \/ PressAlive \/ PressCancel \/ WillMined \/ DelayedPaymentPays
        <4>1. PICK m \in {Check, Confirm, Cancel, Checked, Trigger, Repeat, Notified, Killed}
                             \cup {Funds(v) : v \in 0..MaxDuty} :
                ready' = Append(ready, m) /\ UNCHANGED unacked
          BY <3>3 DEF CheckerAsks, PressAlive, PressCancel, Publish, WillMined, CallMined, Mined,
                      Pending, WillPayments, DelayedPaymentPays
        <4>2. m \in WillMessages
          BY WillMessagesAre
        <4>3. m.type # "contractPayment"
          BY DEF Check, Confirm, Cancel, Checked, Trigger, Repeat, Notified, Killed, Funds
        <4> QED
          BY <4>1, <4>2, <4>3, ToldUntold
      <3> QED
        BY <1>3, <3>1, <3>2, <3>3 DEF WillNext, WillChecks
    <2>2. history'.received = history.received
      <3>1. CASE WillMined
        BY <3>1, WillMinedBooks
      <3>2. CASE PressSaved
        BY <3>2, PressSavedTyped
      <3>3. CASE ~WillMined /\ ~PressSaved
        BY <1>3, <3>3 DEF WillNext, WillChecks, CheckerReads, CheckerExpires, CheckerAsks,
             CheckerPasses, PressAlive, PressCancel, DelayedPaymentPays, willVars
      <3> QED
        BY <3>1, <3>2, <3>3
    <2>3. /\ btc_duty' \in {btc_duty, pressing.btc_duty, 0}
          /\ pressing'.btc_duty \in {btc_duty, pressing.btc_duty, 0}
      BY <1>3 DEF WillNext, WillChecks, CheckerReads, CheckerExpires, CheckerAsks,
             CheckerPasses, PressAlive, PressSaved, NoRequest, PressCancel, WillMined,
             DelayedPaymentPays, willVars, willDetails, willOthers
    <2>4. UNCHANGED troubles \/ Trouble
      <3>1. CASE RowNext
        BY <3>1 DEF RowNext, RowReceives, LaunchPostponed, LaunchIgnored, LaunchSends, LaunchRaises,
           DeployedIgnored, DeployedPostponed, DeployedRejected, TransactionFailed,
           TransactionUnknown, Restart, DeployMined, Mined, Reverted, Reverts, Acknowledge,
           DeliveredAgain, LeaveUnacked
      <3>2. CASE ~RowNext
        BY <1>3, <3>2 DEF WillNext, Tick, WillChecks, CheckerReads, CheckerExpires, CheckerAsks,
             CheckerPasses, PressAlive, PressSaved, PressCancel, WillMined, CallMined, Mined,
             DelayedPaymentPays, rowVars
      <3> QED
        BY <3>1, <3>2
    <2> QED
      BY <2>1, <2>2, <2>3, <2>4, WithinRests
  <1> QED
    BY <1>1, <1>2, <1>3

LEMMA WillToldInit == Init => WillTold
  <1> SUFFICES ASSUME Init, kind \in WillKinds
               PROVE  WillMessaged /\ WillRowTyped /\ WillPayments /\ DutyWithin
    BY DEF WillTold
  <1>1. RowInit /\ WillInit
    BY DEF Init, WillKinds, ProtectorInit, AirdropInit, AirdropKinds, PoolInit, PoolKinds
  <1>2. ready = <<Launch>> /\ unacked = << >>
    BY <1>1 DEF WillInit, RowInit
  <1>3. WillMessaged
    <2>1. OfSome(ready) /\ Elements(ready) = {Launch}
      BY <1>2, OneOrTwo
    <2>2. OfSome(unacked) /\ Elements(unacked) = {}
      BY <1>2, Empty
    <2>3. Launch \in WillMessages
      BY WillMessagesAre
    <2> QED
      BY <2>1, <2>2, <2>3 DEF WillMessaged, Queues, Held, LeftBehind
  <1>4. now \in Times
    BY LifeRowInit DEF RowTold
  <1>5. NoTime \in Whens
    BY <1>4, ScheduledWhen
  <1>6. WillRowTyped
    BY <1>1, <1>5 DEF WillInit, WillRowTyped, WillStates, NoRequest, NoHistory, Histories
  <1>7. WillPayments
    BY <1>1, Empty DEF RowInit, WillPayments
  <1>8. Untold = 0
    <2> DEFINE m == Launch
               none == << >>
    <2>1. none \o <<m>> = Append(none, m)
      BY Empty, ToldOneByOne
    <2>2. none \o <<m>> = <<m>>
      OBVIOUS
    <2>3. Sound(none)
      BY Empty DEF Sound, Elements
    <2>4. Real(m) /\ PaidInOf(m) = 0
      <3>1. m \in WillMessages /\ m.type # "contractPayment"
        BY WillMessagesAre DEF Launch
      <3> QED
        BY <3>1, WillMessagesReal, WeightlessUntold
    <2>5. PaidInBy(none) = 0
      BY PaidInOfNone
    <2> HIDE DEF m
    <2>6. PaidInBy(Append(none, m)) = PaidInBy(none) + PaidInOf(m)
      BY <2>3, <2>4, PaidInAppended
    <2>7. PaidInBy(<<m>>) = 0
      BY <2>1, <2>2, <2>4, <2>5, <2>6
    <2> QED
      BY <1>2, <2>5, <2>7 DEF Untold, m
  <1>9. DutyWithin
    BY <1>1, <1>8, DutyIsNat DEF WillInit, RowInit, NoHistory, NoRequest, DutyWithin
  <1> QED
    BY <1>3, <1>6, <1>7, <1>9

LEMMA WillToldStep ==
  RowTold /\ RowTold' /\ WillTold /\ [Next]_lifeVars => WillTold'
  <1> SUFFICES ASSUME RowTold, RowTold', WillMessaged, WillRowTyped, WillPayments, DutyWithin,
                      kind \in WillKinds, [Next]_lifeVars
               PROVE  WillMessaged' /\ WillRowTyped' /\ WillPayments' /\ DutyWithin'
    BY KindStays DEF WillTold
  <1>1. CASE WillNext
    <2>1. WillMessaged'
      BY <1>1, WillMessagesKept
    <2>2. WillRowTyped'
      BY <1>1, WillRowKept DEF DutyWithin
    <2>3. WillPayments'
      BY <1>1, WillPaymentsStep
    <2>4. DutyWithin'
      BY <1>1, WillWithinKept
    <2> QED
      BY <2>1, <2>2, <2>3, <2>4
  <1>2. CASE UNCHANGED lifeVars
    <2>1. UNCHANGED <<kind, state, queue, chain, troubles, next_check, pressed, btc_duty,
                      checker, pressing, history>>
      BY <1>2 DEF lifeVars, rowVars, network, willVars, willDetails, willOthers, queue
    <2>2. WillMessaged'
      BY <2>1, RestBrings, WillHeldKept DEF RowTold
    <2>3. WillRowTyped'
      BY <2>1 DEF WillRowTyped, Whens, Times, NoTime, WillStates, Histories
    <2>4. WillPayments'
      BY <2>1, WillPaymentsKept
    <2>5. Untold' = Untold
      BY <2>1, UntoldNext DEF Untold, queue
    <2>6. DutyWithin'
      BY <2>1, <2>5 DEF DutyWithin
    <2> QED
      BY <2>2, <2>3, <2>4, <2>6
  <1>3. WillNext \/ UNCHANGED lifeVars
    BY DEF Next, WillStep, ProtectorStep, AirdropStep, PoolStep, WillKinds, AirdropKinds,
           PoolKinds
  <1> QED
    BY <1>1, <1>2, <1>3

LEMMA WillIsTyped == RowTold /\ WillTold => (kind \in WillKinds => WillTypeOK)
  <1> SUFFICES ASSUME RowTold, WillMessaged, WillRowTyped, DutyWithin, kind \in WillKinds
               PROVE  WillTypeOK
    BY DEF WillTold
  <1>1. btc_duty \in Int /\ btc_duty <= MaxDuty
    <2>1. Untold \in Nat
      BY WillSound, UntoldIsNat
    <2>2. btc_duty + Untold <= history.received + troubles /\ btc_duty \in Int
      BY DEF DutyWithin
    <2>3. /\ history.received \in Nat /\ history.received <= MaxPayments
          /\ troubles \in Nat /\ troubles <= MaxTroubles
      BY DutyIsNat DEF DutyWithin, RowTold
    <2> DEFINE r == history.received
    <2> HIDE DEF r
    <2> QED
      BY <2>1, <2>2, <2>3, DutyIsNat DEF MaxDuty
  <1>2. \A i \in DOMAIN ready : ready[i] \in WillMessages
    BY DEF WillMessaged, Held, Elements
  <1>3. pressing.step \in {"idle", "published"} /\ history.unscheduled \in BOOLEAN
    BY DEF WillRowTyped, Histories
  <1> QED
    BY <1>1, <1>2, <1>3 DEF WillRowTyped, Whens, WillTypeOK
-----------------------------------------------------------------------------
(***************************************************************************)
(* The types of a token protector.                                         *)
(***************************************************************************)
ProtectorRow ==
  /\ state \in ProtectorStates
  /\ approving_time \in BOOLEAN /\ address \in BOOLEAN
  /\ saved \subseteq Tokens /\ late \subseteq Tokens
  /\ executor \in {"idle", "sent"}
  /\ skipping \in BOOLEAN /\ ended \in BOOLEAN

TokenCalls ==
  \A i \in DOMAIN chain : chain[i].call = "addTokenType" => chain[i].with \subseteq Tokens

ProtectorMessaged == Queues /\ Held \subseteq ProtectorMessages

ProtectorTyped == kind = "protector" =>
  ProtectorMessaged /\ TokenCalls /\ ProtectorRow

LEMMA ProtectorMessagesAre ==
  /\ RowMessages \subseteq ProtectorMessages
  /\ {Launch, TokensToSave, TransactionInfo, Selfdestruction} \subseteq ProtectorMessages
  /\ \A t \in Tokens : \A yes \in BOOLEAN : Approve(t, yes) \in ProtectorMessages
  <1>1. Deployed(TRUE) \in ProtectorMessages /\ Deployed(FALSE) \in ProtectorMessages
    BY DEF Deployed, ProtectorMessages
  <1>2. \A i \in 1..MaxTxs : TxFailed(i) \in ProtectorMessages
    BY DEF TxFailed, ProtectorMessages
  <1>3. \A t \in Tokens : \A yes \in BOOLEAN : Approve(t, yes) \in ProtectorMessages
    BY DEF Approve, ProtectorMessages
  <1>4. {Launch, TokensToSave, TransactionInfo, Selfdestruction} \subseteq ProtectorMessages
    BY DEF ProtectorMessages
  <1> QED
    BY <1>1, <1>2, <1>3, <1>4 DEF RowMessages

LEMMA ApprovesAToken ==
  ASSUME NEW m \in ProtectorMessages, m.type = "TokenProtectorApprove"
  PROVE  m.token \in Tokens
  <1>1. CASE m \in {Launch, TokensToSave, TransactionInfo, Selfdestruction}
    BY <1>1 DEF Launch, TokensToSave, TransactionInfo, Selfdestruction
  <1>2. CASE m \in [type: {"deployed"}, success: BOOLEAN]
    <2>1. m.type = "deployed"
      BY <1>2
    <2> QED
      BY <2>1
  <1>3. CASE m \in [type: {"transactionCompleted"}, hash: 1..MaxTxs]
    <2>1. m.type = "transactionCompleted"
      BY <1>3
    <2> QED
      BY <2>1
  <1>4. CASE m \in [type: {"TokenProtectorApprove"}, token: Tokens, approved: BOOLEAN]
    BY <1>4
  <1> QED
    BY <1>1, <1>2, <1>3, <1>4 DEF ProtectorMessages

LEMMA ProtectorHeldKept ==
  ASSUME ProtectorMessaged, NEW M, M \subseteq ProtectorMessages, Brings(M)
  PROVE  ProtectorMessaged'
  <1>1. ProtectorMessages' = ProtectorMessages
    BY DEF ProtectorMessages
  <1> QED
    BY <1>1 DEF ProtectorMessaged, Brings

LEMMA ProtectorMessagesKept ==
  ASSUME RowTold, ProtectorMessaged, ProtectorNext
  PROVE  ProtectorMessaged'
  <1>1. Queues
    BY DEF RowTold
  <1>2. CASE ProtectorRowNext
    BY <1>2, RowBrings, ProtectorHeldKept, ProtectorMessagesAre DEF ProtectorRowNext
  <1>3. CASE ProtectorReceives
    BY <1>1, <1>3, ProtectorHandlersTold, HandlerBrings, ProtectorHeldKept
  <1>4. CASE \/ SkipReads \/ SkipSaves \/ ConfirmProtectorTokens \/ RepresentTimeIsUp
             \/ RepresentPostponed \/ ExecuteSends \/ ExecuteSaves
    <2>1. UNCHANGED queue
      BY <1>4 DEF SkipReads, SkipSaves, ConfirmProtectorTokens, ApproveFromFront,
                  RepresentTimeIsUp, RepresentPostponed, ExecuteSends, ExecuteSaves, rowVars
    <2> QED
      BY <1>1, <2>1, RestBrings, ProtectorHeldKept
  <1>5. CASE ConfirmInfo \/ DeployProtector \/ OwnerApproves \/ OwnerDestroys
    <2>1. \/ UNCHANGED queue
          \/ \E m \in ProtectorMessages : Publish(m)
      <3>1. CASE OwnerApproves
        <4>1. PICK t \in Tokens : Publish(Approve(t, "scanner" \notin approvedTokens[t]))
          BY <3>1 DEF OwnerApproves
        <4> DEFINE yes == "scanner" \notin approvedTokens[t]
        <4>2. yes \in BOOLEAN
          OBVIOUS
        <4>3. Publish(Approve(t, yes))
          BY <4>1
        <4> HIDE DEF yes
        <4>4. Approve(t, yes) \in ProtectorMessages
          BY <4>2, ProtectorMessagesAre
        <4> QED
          BY <4>3, <4>4
      <3>2. CASE ~OwnerApproves
        BY <1>5, <3>2, ProtectorMessagesAre DEF ConfirmInfo, DeployProtector, OwnerDestroys
      <3> QED
        BY <3>1, <3>2
    <2>2. CASE UNCHANGED queue
      BY <1>1, <2>2, RestBrings, ProtectorHeldKept
    <2>3. ASSUME NEW m \in ProtectorMessages, Publish(m)
          PROVE  ProtectorMessaged'
      <3>1. {m} \subseteq ProtectorMessages
        OBVIOUS
      <3>2. Brings({m})
        BY <1>1, <2>3, PublishBrings
      <3> QED
        BY <3>1, <3>2, ProtectorHeldKept
    <2> QED
      BY <2>1, <2>2, <2>3
  <1>6. CASE ProtectorMined
    <2>1. \E m \in {TokensToSave, TransactionInfo} : \E i, after : Mined(i, m, after)
      BY <1>6 DEF ProtectorMined, CallMined
    <2>2. PICK m \in {TokensToSave, TransactionInfo} : \E i, after : Mined(i, m, after)
      BY <2>1
    <2>3. {m} \subseteq ProtectorMessages
      BY ProtectorMessagesAre
    <2>4. Brings({m})
      BY <1>1, <2>2, MinedBrings
    <2> QED
      BY <2>3, <2>4, ProtectorHeldKept
  <1> QED
    BY <1>2, <1>3, <1>4, <1>5, <1>6 DEF ProtectorNext

LEMMA TokenCallsKept ==
  ASSUME RowTold, TokenCalls,
         \/ UNCHANGED chain
         \/ \E call, with : Send(call, with) /\ (call = "addTokenType" => with \subseteq Tokens)
         \/ \E i \in DOMAIN chain : chain' = [chain EXCEPT ![i] = Settled]
  PROVE  TokenCalls'
  <1>1. OfSome(chain) /\ Len(chain) <= MaxTxs
    BY DEF RowTold, CallsTold
  <1>2. CASE UNCHANGED chain
    BY <1>1, <1>2 DEF TokenCalls
  <1>3. CASE \E call, with : Send(call, with) /\ (call = "addTokenType" => with \subseteq Tokens)
    <2>1. PICK call, with : Send(call, with) /\ (call = "addTokenType" => with \subseteq Tokens)
      BY <1>3
    <2> QED
      BY <1>1, <2>1, SendKeeps DEF TokenCalls
  <1>4. CASE \E i \in DOMAIN chain : chain' = [chain EXCEPT ![i] = Settled]
    BY <1>1, <1>4, SettleKeeps DEF TokenCalls
  <1> QED
    BY <1>2, <1>3, <1>4

LEMMA ConfirmationSends ==
  ASSUME NEW r, Confirmation(r) \/ SendsNothing
  PROVE  \/ UNCHANGED chain
         \/ \E call, with : Send(call, with) /\ (call = "addTokenType" => with \subseteq Tokens)
  <1>1. ToConfirm(r) \subseteq Tokens
    BY DEF ToConfirm
  <1> QED
    BY <1>1 DEF Confirmation, SendsNothing

LEMMA ProtectorCallsKept ==
  ASSUME RowTold, TokenCalls, ProtectorNext
  PROVE  TokenCalls'
  <1>1. CASE ProtectorRowNext
    <2>1. "deploy" # "addTokenType"
      OBVIOUS
    <2> QED
      BY <1>1, <2>1, RowSends, TokenCallsKept DEF ProtectorRowNext
  <1>2. CASE TokenProtectorApprove \/ ConfirmProtectorTokens
    <2>1. \E r : Confirmation(r) \/ SendsNothing
      BY <1>2 DEF TokenProtectorApprove, ConfirmProtectorTokens, ApproveFromFront
    <2> QED
      BY <2>1, ConfirmationSends, TokenCallsKept
  <1>3. CASE ExecuteSends
    <2>1. Send("execute", {}) /\ "execute" # "addTokenType"
      BY <1>3 DEF ExecuteSends
    <2> QED
      BY <2>1, TokenCallsKept
  <1>4. CASE ProtectorMined
    <2>1. \E i \in DOMAIN chain : chain' = [chain EXCEPT ![i] = Settled]
      BY <1>4 DEF ProtectorMined, CallMined, Mined, Pending
    <2> QED
      BY <2>1, TokenCallsKept
  <1>5. CASE ~(\/ ProtectorRowNext \/ TokenProtectorApprove \/ ConfirmProtectorTokens
               \/ ExecuteSends \/ ProtectorMined)
    <2>1. UNCHANGED chain
      BY <1>5 DEF ProtectorNext, ProtectorReceives, ProtectorDeployed,
                  TokenProtectorTokensToSave, TokenProtectorTransactionInfo,
                  SelfdestructionEvent, ConfirmInfo, DeployProtector, SkipReads, SkipSaves,
                  RepresentTimeIsUp, RepresentPostponed, ExecuteSaves, OwnerApproves,
                  OwnerDestroys, network, rowVars
    <2> QED
      BY <2>1, TokenCallsKept
  <1> QED
    BY <1>1, <1>2, <1>3, <1>4, <1>5

LEMMA ProtectorRowKept ==
  ASSUME RowTold, ProtectorMessaged, TokenCalls, ProtectorRow, ProtectorNext
  PROVE  ProtectorRow'
  <1> USE DEF ProtectorRow
  <1>1. state' \in ProtectorStates
    <2>1. CASE ProtectorRowNext
      BY <2>1, RowTouches DEF RowTold, ProtectorRowNext, ProtectorStates
    <2>2. CASE ~ProtectorRowNext
      BY <2>2 DEF ProtectorNext, ProtectorReceives, ProtectorDeployed, TokenProtectorApprove,
                  TokenProtectorTokensToSave, TokenProtectorTransactionInfo,
                  SelfdestructionEvent, ConfirmInfo, DeployProtector, SkipReads, SkipSaves,
                  ConfirmProtectorTokens, ApproveFromFront, RepresentTimeIsUp,
                  RepresentPostponed, ExecuteSends, ExecuteSaves, ExecutedState, OwnerApproves,
                  OwnerDestroys, ProtectorMined, CallMined, Mined, rowVars, ProtectorStates
    <2> QED
      BY <2>1, <2>2
  <1>2. /\ approving_time' = approving_time \/ approving_time' = TRUE \/ approving_time' = FALSE
        /\ address' = address \/ address' = TRUE
        /\ executor' \in {executor, "idle", "sent"}
    BY DEF ProtectorRowNext, ProtectorNext, ProtectorReceives, ProtectorDeployed, TokenProtectorApprove,
           TokenProtectorTokensToSave, TokenProtectorTransactionInfo, SelfdestructionEvent,
           ConfirmInfo, DeployProtector, SkipReads, SkipSaves, ConfirmProtectorTokens, ApproveFromFront,
           RepresentTimeIsUp, RepresentPostponed, ExecuteSends, ExecuteSaves, OwnerApproves,
           OwnerDestroys, ProtectorMined, approvals, protectorVars
  <1>3. late' \subseteq Tokens
    <2>1. CASE TokenProtectorApprove
      <3>1. Message \in ProtectorMessages /\ Message.type = "TokenProtectorApprove"
        <4>1. Head(ready) \in Held
          BY <2>1, ProtectorHandlersTold, HandlerBrings DEF ProtectorReceives, RowTold
        <4> QED
          BY <2>1, <4>1 DEF TokenProtectorApprove, Receiving, Message, ProtectorMessaged
      <3>2. Message.token \in Tokens
        BY <3>1, ApprovesAToken
      <3> QED
        BY <2>1, <3>2 DEF TokenProtectorApprove, LateWith
    <2>2. CASE ConfirmProtectorTokens
      BY <2>2 DEF ConfirmProtectorTokens, ApproveFromFront, LateWith
    <2>3. CASE ~TokenProtectorApprove /\ ~ConfirmProtectorTokens
      BY <2>3 DEF ProtectorNext, ProtectorRowNext, ProtectorReceives, ProtectorDeployed,
                  TokenProtectorTokensToSave, TokenProtectorTransactionInfo,
                  SelfdestructionEvent, ConfirmInfo, DeployProtector, SkipReads, SkipSaves,
                  RepresentTimeIsUp, RepresentPostponed, ExecuteSends, ExecuteSaves,
                  OwnerApproves, OwnerDestroys, ProtectorMined, approvals, protectorVars
    <2> QED
      BY <2>1, <2>2, <2>3
  <1>4. saved' \subseteq Tokens
    <2>1. CASE ProtectorMined
      BY <2>1 DEF ProtectorMined, CallMined, Pending, TokenCalls
    <2>2. CASE ~ProtectorMined
      BY <2>2 DEF ProtectorNext, ProtectorRowNext, ProtectorReceives, ProtectorDeployed, TokenProtectorApprove,
                  TokenProtectorTokensToSave, TokenProtectorTransactionInfo,
                  SelfdestructionEvent, ConfirmInfo, DeployProtector, SkipReads, SkipSaves,
                  ConfirmProtectorTokens, ApproveFromFront, RepresentTimeIsUp,
                  RepresentPostponed, ExecuteSends, ExecuteSaves, OwnerApproves,
                  OwnerDestroys, approvals, protectorVars
    <2> QED
      BY <2>1, <2>2
  <1>5. approving_time' \in BOOLEAN /\ address' \in BOOLEAN
    BY <1>2, Zenon
  <1>6. executor' \in {"idle", "sent"}
    BY <1>2
  <1>7. /\ skipping' = skipping \/ skipping' = TRUE \/ skipping' = FALSE
        /\ ended' = ended \/ ended' = TRUE \/ ended' = FALSE
    <2>1. CASE ProtectorRowNext
      BY <2>1 DEF ProtectorRowNext
    <2>2. CASE ~ProtectorRowNext
      BY <2>2 DEF ProtectorNext, ProtectorReceives, ProtectorDeployed, TokenProtectorApprove,
             TokenProtectorTokensToSave, TokenProtectorTransactionInfo, SelfdestructionEvent,
             ConfirmInfo, DeployProtector, SkipReads, SkipSaves, ConfirmProtectorTokens,
             ApproveFromFront, RepresentTimeIsUp, RepresentPostponed, ExecuteSends,
             ExecuteSaves, OwnerApproves, OwnerDestroys, ProtectorMined, protectorVars
    <2> QED
      BY <2>1, <2>2
  <1>8. skipping' \in BOOLEAN /\ ended' \in BOOLEAN
    BY <1>7, Zenon
  <1> QED
    BY <1>1, <1>3, <1>4, <1>5, <1>6, <1>8 DEF ProtectorStates

LEMMA ProtectorTypedInit == Init => ProtectorTyped
  <1> SUFFICES ASSUME Init, kind = "protector"
               PROVE  ProtectorMessaged /\ TokenCalls /\ ProtectorRow
    BY DEF ProtectorTyped
  <1>1. RowInit /\ ProtectorInit
    BY DEF Init, WillKinds, WillInit, AirdropInit, AirdropKinds, PoolInit, PoolKinds
  <1>2. ProtectorMessaged
    BY <1>1, Empty DEF RowInit, ProtectorInit, ProtectorMessaged, Queues, Held, LeftBehind
  <1>3. TokenCalls
    BY <1>1 DEF RowInit, TokenCalls
  <1>4. ProtectorRow
    BY <1>1 DEF ProtectorInit, ProtectorRow, ProtectorStates
  <1> QED
    BY <1>2, <1>3, <1>4

LEMMA ProtectorTypedStep ==
  RowTold /\ ProtectorTyped /\ [Next]_lifeVars => ProtectorTyped'
  <1> SUFFICES ASSUME RowTold, ProtectorMessaged, TokenCalls, ProtectorRow,
                      kind = "protector", [Next]_lifeVars
               PROVE  ProtectorMessaged' /\ TokenCalls' /\ ProtectorRow'
    BY KindStays DEF ProtectorTyped
  <1>1. CASE ProtectorNext
    BY <1>1, ProtectorMessagesKept, ProtectorCallsKept, ProtectorRowKept
  <1>2. CASE UNCHANGED lifeVars
    <2>1. UNCHANGED <<state, queue, chain, approving_time, address, saved, late, executor,
                    skipping, ended>>
      BY <1>2 DEF lifeVars, rowVars, network, protectorVars, approvals
    <2>2. ProtectorMessaged'
      BY <2>1, RestBrings, ProtectorHeldKept DEF RowTold
    <2>3. TokenCalls'
      BY <2>1, TokenCallsKept
    <2>4. ProtectorRow'
      BY <2>1 DEF ProtectorRow, ProtectorStates
    <2> QED
      BY <2>2, <2>3, <2>4
  <1>3. ProtectorNext \/ UNCHANGED lifeVars
    BY DEF Next, WillStep, ProtectorStep, AirdropStep, PoolStep, WillKinds, AirdropKinds,
           PoolKinds
  <1> QED
    BY <1>1, <1>2, <1>3

LEMMA ProtectorIsTyped ==
  ProtectorTold /\ ProtectorTyped => (kind = "protector" => ProtectorTypeOK)
  <1> SUFFICES ASSUME ProtectorTold, ProtectorMessaged, ProtectorRow, kind = "protector"
               PROVE  ProtectorTypeOK
    BY DEF ProtectorTyped
  <1>1. \A i \in DOMAIN ready : ready[i] \in ProtectorMessages
    BY DEF ProtectorMessaged, Held, Elements
  <1>2. approvedTokens \in [Tokens -> TokenRows]
    BY DEF ProtectorTold, RowsTyped
  <1> QED
    BY <1>1, <1>2 DEF ProtectorRow, ProtectorTypeOK
-----------------------------------------------------------------------------
(***************************************************************************)
(* The types of an airdrop.  The rows of an entry only change their state, *)
(* and new ones are made when the others were deleted; the chain pays an   *)
(* entry twice at most for each call that is over.                         *)
(***************************************************************************)
AllOf(r) == r["added"] + r["processing"] + r["sent"] + r["completed"] + r["failed"]

AirdropRow ==
  /\ state \in {"ACTIVE", "ENDED", "POSTPONED"}
  /\ in_progress \in BOOLEAN /\ completing \in BOOLEAN /\ excused \in BOOLEAN
  /\ loading \in {"idle", "checked", "deleted"}

ListWithin ==
  /\ \A e \in Entries : AllOf(rows[e]) <= MaxRows
  /\ loading = "deleted" => \A e \in Entries : \A s \in RowStates \ Kept : rows[e][s] = 0

DropsWithin ==
  /\ Len(chain) <= MaxDrops
  /\ \A e \in Entries : dropped[e] <= 2 * Cardinality(Over)

AirdropMessages == [type: {"airdrop"}, status: Statuses, addresses: Drops \cup {<< >>},
                    errors: {<< >>} \cup {<<e>> : e \in Entries}]

AirdropMessaged ==
  /\ Queues /\ Held \subseteq AirdropMessages
  /\ \A m \in Held : m.errors # << >> => kind = "eosairdrop"

AirdropTyped == kind \in AirdropKinds =>
  AirdropMessaged /\ AirdropRow /\ ListWithin /\ DropsWithin

LEMMA AllIsNat ==
  ASSUME NEW r \in [RowStates -> Nat]
  PROVE  /\ AllOf(r) \in Nat
         /\ \A s \in RowStates : r[s] \in Nat /\ r[s] <= AllOf(r)
  <1> DEFINE a == r["added"]
             b == r["processing"]
             c == r["sent"]
             d == r["completed"]
             f == r["failed"]
  <1>1. a \in Nat /\ b \in Nat /\ c \in Nat /\ d \in Nat /\ f \in Nat
    BY DEF RowStates
  <1>2. \A s \in RowStates : r[s] \in {a, b, c, d, f}
    BY DEF RowStates
  <1>3. AllOf(r) = a + b + c + d + f
    BY DEF AllOf
  <1> HIDE DEF a, b, c, d, f
  <1>4. \A x \in {a, b, c, d, f} : x \in Nat /\ x <= a + b + c + d + f
    BY <1>1
  <1> QED
    BY <1>1, <1>2, <1>3, <1>4

LEMMA FailedAll ==
  ASSUME NEW r \in [RowStates -> Nat], NEW s \in RowStates, r[s] > 0
  PROVE  OneFailed(r, s) \in [RowStates -> Nat] /\ AllOf(OneFailed(r, s)) = AllOf(r)
  <1> DEFINE less == [r EXCEPT ![s] = @ - 1]
             new  == [less EXCEPT !["failed"] = @ + 1]
  <1>1. "failed" \in RowStates /\ r[s] \in Nat
    BY DEF RowStates
  <1>2. /\ less \in [RowStates -> Nat]
        /\ \A t \in RowStates : less[t] = IF t = s THEN r[t] - 1 ELSE r[t]
    BY <1>1
  <1> HIDE DEF less
  <1>3. /\ new \in [RowStates -> Nat]
        /\ \A t \in RowStates : new[t] = IF t = "failed" THEN less[t] + 1 ELSE less[t]
    BY <1>1, <1>2
  <1>4. OneFailed(r, s) = new
    BY DEF OneFailed, less
  <1> HIDE DEF new
  <1> DEFINE a == r["added"]
             b == r["processing"]
             c == r["sent"]
             d == r["completed"]
             f == r["failed"]
  <1>5. a \in Nat /\ b \in Nat /\ c \in Nat /\ d \in Nat /\ f \in Nat
    BY DEF RowStates
  <1>6. /\ new["added"] = IF s = "added" THEN a - 1 ELSE a
        /\ new["processing"] = IF s = "processing" THEN b - 1 ELSE b
        /\ new["sent"] = IF s = "sent" THEN c - 1 ELSE c
        /\ new["completed"] = IF s = "completed" THEN d - 1 ELSE d
        /\ new["failed"] = (IF s = "failed" THEN f - 1 ELSE f) + 1
    BY <1>2, <1>3 DEF RowStates
  <1>7. AllOf(r) = a + b + c + d + f
    BY DEF AllOf
  <1> HIDE DEF a, b, c, d, f
  <1>8. AllOf(new) = a + b + c + d + f
    <2>1. s \in {"added", "processing", "sent", "completed", "failed"}
      BY DEF RowStates
    <2>2. CASE s = "added"
      BY <1>5, <1>6, <2>2 DEF AllOf
    <2>3. CASE s = "processing"
      BY <1>5, <1>6, <2>3 DEF AllOf
    <2>4. CASE s = "sent"
      BY <1>5, <1>6, <2>4 DEF AllOf
    <2>5. CASE s = "completed"
      BY <1>5, <1>6, <2>5 DEF AllOf
    <2>6. CASE s = "failed"
      BY <1>5, <1>6, <2>6 DEF AllOf
    <2> QED
      BY <2>1, <2>2, <2>3, <2>4, <2>5, <2>6
  <1> QED
    BY <1>3, <1>4, <1>7, <1>8

\* Rows are marked, and none is made; with nothing to mark the list stays.
LEMMA MarkedAll ==
  ASSUME rows \in Counts, NEW status \in Statuses, NEW drop \in Drops \cup {<< >>},
         NEW e \in Entries
  PROVE  /\ Marked(status, drop)[e] \in [RowStates -> Nat]
         /\ AllOf(Marked(status, drop)[e]) = AllOf(rows[e])
         /\ rows[e]["added"] = 0 /\ rows[e]["processing"] = 0
              => \A s \in RowStates : Marked(status, drop)[e][s] = rows[e][s]
  <1> DEFINE r == rows[e]
             taken == Taken(status, drop)
             t == taken[e]
             to == t["added"] + t["processing"]
             n == NewState(status)
             new == Marked(status, drop)[e]
  <1>1. /\ \A s \in RowStates : r[s] \in Nat /\ t[s] \in Nat /\ t[s] <= r[s]
        /\ t["completed"] = 0 /\ t["failed"] = 0 /\ t["sent"] = 0
    BY TakenWithin DEF Takes, Counts, RowStates
  <1>2. new = [s \in RowStates |-> r[s] - t[s] + (IF s = n THEN to ELSE 0)]
    BY DEF Marked
  <1>3. n \in {"added", "processing", "sent"}
    BY DEF NewState, Statuses
  <1>4. new \in [RowStates -> Nat]
    BY MarkedWithin DEF Counts
  <1> HIDE DEF r, taken, t, n, new, to
  <1> DEFINE a == r["added"]
             b == r["processing"]
             c == r["sent"]
             d == r["completed"]
             f == r["failed"]
             x == t["added"]
             y == t["processing"]
  <1>5. /\ a \in Nat /\ b \in Nat /\ c \in Nat /\ d \in Nat /\ f \in Nat
        /\ x \in Nat /\ y \in Nat /\ x <= a /\ y <= b
    BY <1>1 DEF RowStates
  <1>6. to = x + y
    BY DEF to
  <1>7. /\ new["added"] = a - x + (IF "added" = n THEN to ELSE 0)
        /\ new["processing"] = b - y + (IF "processing" = n THEN to ELSE 0)
        /\ new["sent"] = c - t["sent"] + (IF "sent" = n THEN to ELSE 0)
        /\ new["completed"] = d - t["completed"] + (IF "completed" = n THEN to ELSE 0)
        /\ new["failed"] = f - t["failed"] + (IF "failed" = n THEN to ELSE 0)
    BY <1>2 DEF RowStates
  <1>8. AllOf(r) = a + b + c + d + f
    BY DEF AllOf
  <1> HIDE DEF a, b, c, d, f, x, y
  <1>9. new["completed"] = d /\ new["failed"] = f
    BY <1>1, <1>3, <1>5, <1>7
  <1>10. new["sent"] = c + (IF "sent" = n THEN to ELSE 0)
    BY <1>1, <1>5, <1>6, <1>7
  <1>11. AllOf(new) = a + b + c + d + f
    <2>1. CASE n = "added"
      BY <1>5, <1>6, <1>7, <1>9, <1>10, <2>1 DEF AllOf
    <2>2. CASE n = "processing"
      BY <1>5, <1>6, <1>7, <1>9, <1>10, <2>2 DEF AllOf
    <2>3. CASE n = "sent"
      BY <1>5, <1>6, <1>7, <1>9, <1>10, <2>3 DEF AllOf
    <2> QED
      BY <1>3, <2>1, <2>2, <2>3
  <1>12. ASSUME a = 0, b = 0
         PROVE  \A s \in RowStates : new[s] = r[s]
    <2>1. x = 0 /\ y = 0 /\ to = 0
      BY <1>5, <1>6, <1>12
    <2>2. \A s \in RowStates : t[s] = 0
      BY <1>1, <2>1 DEF RowStates, x, y
    <2> QED
      BY <1>1, <1>2, <2>1, <2>2
  <1> QED
    BY <1>4, <1>8, <1>11, <1>12 DEF new, r, a, b

LEMMA DropNamesTwo ==
  ASSUME NEW drop \in Drops \cup {<< >>}, NEW e \in Entries
  PROVE  Occurrences(drop, e) \in 0..2
  <1> DEFINE none == [x \in Entries |-> 0]
  <1>1. Occurrences(drop, e) = Named(drop)[e]
    BY DEF Named
  <1>2. CASE drop = << >>
    BY <1>1, <1>2, NoneNamed
  <1>3. ASSUME NEW a \in Entries, drop = <<a>>
        PROVE  Occurrences(drop, e) \in 0..2
    <2>1. Named(drop) = Adds(none, a)
      BY <1>3, OneNamed
    <2>2. Adds(none, a)[e] \in 0..2
      BY DEF Adds
    <2> QED
      BY <1>1, <2>1, <2>2
  <1>4. ASSUME NEW a \in Entries, NEW b \in Entries, drop = <<a, b>>
        PROVE  Occurrences(drop, e) \in 0..2
    <2> DEFINE n == Adds(none, a)
    <2>1. Named(drop) = Adds(n, b)
      BY <1>4, TwoNamed
    <2>2. n \in [Entries -> Nat] /\ n[e] \in 0..1
      BY DEF Adds
    <2> HIDE DEF n
    <2>3. Adds(n, b)[e] \in 0..2
      BY <2>2 DEF Adds
    <2> QED
      BY <1>1, <2>1, <2>3
  <1> QED
    BY <1>2, <1>3, <1>4 DEF Drops

LEMMA DropsWithinKept ==
  ASSUME RowTold, AirdropShape, DropsWithin, AirdropNext
  PROVE  DropsWithin'
  <1>1. CallsTold /\ Cardinality(Over) \in Nat
    BY OverIs DEF RowTold
  <1>2. MaxDrops \in Nat
    BY AirdropBoundsAreNat
  <1>3. CASE DropCalled
    <2>1. PICK drop \in Drops : Send("airdrop", {drop})
      BY <1>3 DEF DropCalled
    <2>2. "airdrop" \in Calls
      BY DEF Calls
    <2>3. Settles(0)
      BY <1>1, <2>1, <2>2, SendSettles
    <2>4. Cardinality(Over') = Cardinality(Over)
      BY <1>1, <2>3 DEF Settles
    <2>5. Len(chain') <= MaxDrops
      <3>1. OfSome(chain) /\ Len(chain) < MaxDrops
        BY <1>1, <1>3 DEF CallsTold, DropCalled
      <3> DEFINE tx == [call |-> "airdrop", with |-> {drop}]
      <3>2. chain' = Append(chain, tx)
        BY <2>1 DEF Send
      <3> HIDE DEF tx
      <3>3. Len(chain') = Len(chain) + 1 /\ Len(chain) \in Nat
        BY <3>1, <3>2, Appended
      <3> QED
        BY <1>2, <3>1, <3>3
    <2>6. UNCHANGED dropped
      BY <1>3 DEF DropCalled, airdropVars
    <2> QED
      BY <2>4, <2>5, <2>6 DEF DropsWithin
  <1>4. CASE DropDecided
    <2>1. PICK i \in DOMAIN chain : \E drop \in chain[i].with :
            /\ Pending(i, "airdrop")
            /\ \/ \E m : Mined(i, m, onChain) /\ dropped' = Paid(drop)
               \/ \E m : Mined(i, m, onChain) /\ dropped' = Paid(Tail(drop))
               \/ \E m : Mined(i, m, onChain) /\ UNCHANGED dropped
      BY <1>4 DEF DropDecided
    <2>2. PICK drop \in chain[i].with :
            /\ Pending(i, "airdrop")
            /\ \/ \E m : Mined(i, m, onChain) /\ dropped' = Paid(drop)
               \/ \E m : Mined(i, m, onChain) /\ dropped' = Paid(Tail(drop))
               \/ \E m : Mined(i, m, onChain) /\ UNCHANGED dropped
      BY <2>1
    <2>3. /\ chain[i].call = "airdrop" /\ chain[i].call # "settled"
          /\ chain' = [chain EXCEPT ![i] = Settled]
      BY <2>2 DEF Pending, Mined
    <2>4. Cardinality(Over') = Cardinality(Over) + 1
      BY <1>1, <2>3, OneSettles DEF Settles
    <2>5. Len(chain') <= MaxDrops
      <3>1. PICK S : chain \in Seq(S)
        BY <1>1 DEF CallsTold, OfSome
      <3>2. chain \in Seq(S \cup {Settled})
        BY <3>1, SeqMonotonic
      <3>3. Len(chain') = Len(chain)
        BY <2>3, <3>2
      <3> QED
        BY <3>3 DEF DropsWithin
    <2>6. drop \in Drops
      BY <2>2, <2>3 DEF AirdropShape
    <2>7. Tail(drop) \in Drops \cup {<< >>}
      <3>1. \A a : Tail(<<a>>) = << >>
        OBVIOUS
      <3>2. \A a, b : Tail(<<a, b>>) = <<b>>
        OBVIOUS
      <3>3. \/ \E a \in Entries : drop = <<a>>
            \/ \E a \in Entries, b \in Entries : drop = <<a, b>>
        BY <2>6 DEF Drops
      <3>4. \A b \in Entries : <<b>> \in Drops
        BY DEF Drops
      <3> QED
        BY <3>1, <3>2, <3>3, <3>4
    <2>8. \A e \in Entries : \E k \in 0..2 : dropped'[e] = dropped[e] + k
      <3>1. \A e \in Entries : dropped[e] \in Nat
        BY DEF AirdropShape
      <3>2. ASSUME NEW told \in Drops \cup {<< >>}, dropped' = Paid(told), NEW e \in Entries
            PROVE  \E k \in 0..2 : dropped'[e] = dropped[e] + k
        <4>1. Occurrences(told, e) \in 0..2
          BY DropNamesTwo
        <4>2. dropped'[e] = dropped[e] + Occurrences(told, e)
          BY <3>2 DEF Paid
        <4> QED
          BY <4>1, <4>2
      <3>3. CASE UNCHANGED dropped
        <4>1. \A e \in Entries : dropped'[e] = dropped[e] + 0
          BY <3>1, <3>3
        <4>2. 0 \in 0..2
          OBVIOUS
        <4> QED
          BY <4>1, <4>2
      <3> QED
        BY <2>2, <2>6, <2>7, <3>2, <3>3
    <2>9. ASSUME NEW e \in Entries
          PROVE  dropped'[e] <= 2 * Cardinality(Over')
      <3> DEFINE d == dropped[e]
                 n == Cardinality(Over)
                 new == Cardinality(Over')
      <3>1. d \in Nat /\ d <= 2 * n /\ n \in Nat /\ new = n + 1
        BY <1>1, <2>4 DEF AirdropShape, DropsWithin
      <3>2. PICK k \in 0..2 : dropped'[e] = d + k
        BY <2>8
      <3> HIDE DEF d, n, new
      <3>3. d + k <= 2 * new
        BY <3>1
      <3> QED
        BY <3>2, <3>3 DEF new
    <2> QED
      BY <2>5, <2>9 DEF DropsWithin
  <1>5. CASE ~DropCalled /\ ~DropDecided
    <2>1. UNCHANGED <<chain, dropped>>
      BY <1>5 DEF AirdropNext, LoadChecks, LoadDeletes, LoadCreates, AirdropMarks, AirdropFails,
                  AirdropCompletes, Restart, rowVars, network, airdropVars
    <2> QED
      BY <2>1 DEF DropsWithin, Over
  <1> QED
    BY <1>3, <1>4, <1>5

LEMMA AirdropRowKept ==
  ASSUME AirdropRow, AirdropNext
  PROVE  AirdropRow'
  <1> USE DEF AirdropRow
  <1>1. state' \in {state, "ENDED", "POSTPONED"} /\ loading' \in {loading, "idle", "checked", "deleted"}
    BY DEF AirdropNext, LoadChecks, LoadDeletes, LoadCreates, AirdropMarks, AirdropFails,
           AirdropCompletes, DropCalled, DropDecided, Mined, Restart, rowVars, airdropVars
  <1>2. in_progress' \in BOOLEAN /\ completing' \in BOOLEAN
    <2>1. CASE AirdropMarks
      BY <2>1, Zenon DEF AirdropMarks
    <2>2. CASE ~AirdropMarks
      <3>1. in_progress' = in_progress /\ (completing' = completing \/ completing' = FALSE)
        BY <2>2 DEF AirdropNext, LoadChecks, LoadDeletes, LoadCreates, AirdropFails,
             AirdropCompletes, DropCalled, DropDecided, airdropVars
      <3> QED
        BY <3>1, Zenon
    <2> QED
      BY <2>1, <2>2
  <1>3. excused' \in BOOLEAN
    <2>1. CASE LoadCreates
      BY <2>1, Zenon DEF LoadCreates
    <2>2. CASE ~LoadCreates
      <3>1. excused' = excused \/ excused' = TRUE
        BY <2>2 DEF AirdropNext, LoadChecks, LoadDeletes, AirdropMarks, AirdropFails,
             AirdropCompletes, DropCalled, DropDecided, airdropVars
      <3> QED
        BY <3>1, Zenon
    <2> QED
      BY <2>1, <2>2
  <1> QED
    BY <1>1, <1>2, <1>3

\* The messages: an address that failed is told on EOS only.
LEMMA AirdropTellsOf ==
  ASSUME NEW status \in Statuses, NEW drop \in Drops \cup {<< >>},
         NEW errors \in {<< >>} \cup {<<e>> : e \in Entries}
  PROVE  /\ Told(status, drop, errors) \in AirdropMessages
         /\ Told(status, drop, errors).errors = errors
  BY DEF Told, AirdropMessages

LEMMA AirdropHeldKept ==
  ASSUME AirdropMessaged, kind' = kind,
         \/ Brings({})
         \/ \E m \in AirdropMessages : Brings({m}) /\ (m.errors # << >> => kind = "eosairdrop")
  PROVE  AirdropMessaged'
  <1>1. AirdropMessages' = AirdropMessages
    BY DEF AirdropMessages, Statuses, Drops
  <1> QED
    BY <1>1 DEF AirdropMessaged, Brings

LEMMA AirdropMessagesKept ==
  ASSUME RowTold, AirdropShape, AirdropMessaged, kind' = kind, AirdropNext
  PROVE  AirdropMessaged'
  <1>1. Queues
    BY DEF RowTold
  <1> DEFINE none == << >>
  <1>2. CASE LoadChecks \/ LoadDeletes \/ LoadCreates
    <2>1. UNCHANGED queue
      BY <1>2 DEF LoadChecks, LoadDeletes, LoadCreates, rowVars
    <2> QED
      BY <1>1, <2>1, RestBrings, AirdropHeldKept
  <1>3. CASE AirdropMarks \/ AirdropFails \/ AirdropCompletes
    <2>1. /\ ready # << >>
          /\ Ack \/ LeaveUnacked \/ DeliveredAgain \/ UNCHANGED queue
      BY <1>3 DEF AirdropMarks, AirdropFails, AirdropCompletes, Receiving, AirdropShape
    <2>2. Brings({})
      <3>1. CASE UNCHANGED queue
        BY <1>1, <3>1, RestBrings
      <3>2. CASE Ack
        BY <1>1, <2>1, <3>2, Acks DEF Handles, Brings
      <3>3. CASE LeaveUnacked
        BY <1>1, <2>1, <3>3, Leaves DEF Handles, Brings
      <3>4. CASE DeliveredAgain
        BY <1>1, <3>4, Redelivered DEF DeliveredAgain, Brings
      <3> QED
        BY <2>1, <3>1, <3>2, <3>3, <3>4
    <2> QED
      BY <2>2, AirdropHeldKept
  <1>4. CASE DropCalled
    <2>1. PICK drop \in Drops : Publish(Told("PENDING", drop, none)) \/ UNCHANGED queue
      BY <1>4 DEF DropCalled
    <2> DEFINE m == Told("PENDING", drop, none)
    <2>2. m \in AirdropMessages /\ m.errors = none
      BY AirdropTellsOf DEF Statuses
    <2> HIDE DEF m
    <2>3. CASE Publish(m)
      <3>1. Brings({m})
        BY <1>1, <2>3, PublishBrings
      <3> QED
        BY <2>2, <3>1, AirdropHeldKept
    <2>4. CASE UNCHANGED queue
      BY <1>1, <2>4, RestBrings, AirdropHeldKept
    <2> QED
      BY <2>1, <2>3, <2>4 DEF m
  <1>5. CASE DropDecided
    <2>1. PICK i \in DOMAIN chain : \E drop \in chain[i].with :
            /\ Pending(i, "airdrop")
            /\ \/ Mined(i, Told("COMMITTED", drop, none), onChain)
               \/ /\ kind = "eosairdrop"
                  /\ Mined(i, Told("COMMITTED", Tail(drop), <<Head(drop)>>), onChain)
               \/ Mined(i, Told("REJECTED", drop, none), onChain)
      BY <1>5 DEF DropDecided
    <2>2. PICK drop \in chain[i].with :
            /\ Pending(i, "airdrop")
            /\ \/ Mined(i, Told("COMMITTED", drop, none), onChain)
               \/ /\ kind = "eosairdrop"
                  /\ Mined(i, Told("COMMITTED", Tail(drop), <<Head(drop)>>), onChain)
               \/ Mined(i, Told("REJECTED", drop, none), onChain)
      BY <2>1
    <2>3. drop \in Drops
      BY <2>2 DEF Pending, AirdropShape
    <2>4. Tail(drop) \in Drops \cup {<< >>} /\ Head(drop) \in Entries
      <3>1. \A a : Tail(<<a>>) = << >> /\ Head(<<a>>) = a
        OBVIOUS
      <3>2. \A a, b : Tail(<<a, b>>) = <<b>> /\ Head(<<a, b>>) = a
        OBVIOUS
      <3>3. \/ \E a \in Entries : drop = <<a>>
            \/ \E a \in Entries, b \in Entries : drop = <<a, b>>
        BY <2>3 DEF Drops
      <3>4. \A b \in Entries : <<b>> \in Drops
        BY DEF Drops
      <3> QED
        BY <3>1, <3>2, <3>3, <3>4
    <2> DEFINE a == Told("COMMITTED", drop, none)
               b == Told("COMMITTED", Tail(drop), <<Head(drop)>>)
               c == Told("REJECTED", drop, none)
    <2>5. /\ a \in AirdropMessages /\ a.errors = << >>
          /\ b \in AirdropMessages
          /\ c \in AirdropMessages /\ c.errors = << >>
      BY <2>3, <2>4, AirdropTellsOf DEF Statuses
    <2> HIDE DEF a, b, c
    <2>6. PICK m \in {a, b, c} : Mined(i, m, onChain) /\ (m = b => kind = "eosairdrop" \/ m \in {a, c})
      BY <2>2 DEF a, b, c
    <2>7. Brings({m})
      BY <1>1, <2>6, MinedBrings
    <2>8. m \in AirdropMessages /\ (m.errors # << >> => kind = "eosairdrop")
      BY <2>5, <2>6
    <2> QED
      BY <2>7, <2>8, AirdropHeldKept
  <1>6. CASE Restart
    BY <1>1, <1>6, Redelivered, AirdropHeldKept DEF Restart, Brings
  <1> QED
    BY <1>2, <1>3, <1>4, <1>5, <1>6 DEF AirdropNext

LEMMA ListKept ==
  ASSUME AirdropShape, AirdropMessaged, ListWithin, kind' = kind, AirdropNext
  PROVE  ListWithin'
  <1>1. /\ rows \in Counts /\ Kept' = Kept /\ Kept \subseteq {"completed"}
        /\ RowStates' = RowStates /\ (\A e \in Entries : rows[e] \in [RowStates -> Nat])
    BY DEF AirdropShape, Kept, Counts, RowStates
  <1>2. \A e \in Entries : AllOf(rows[e]) \in Nat /\ AllOf(rows[e]) <= MaxRows /\ MaxRows \in Nat
    BY <1>1, AllIsNat, AirdropBoundsAreNat DEF ListWithin
  <1>3. CASE UNCHANGED rows /\ (loading' = "deleted" => loading = "deleted")
    BY <1>1, <1>3 DEF ListWithin, AllOf
  <1>4. CASE LoadDeletes
    <2>1. \A e \in Entries : \A s \in RowStates :
            rows'[e][s] = IF s \in Kept THEN rows[e][s] ELSE 0
      BY <1>4 DEF LoadDeletes
    <2>2. ASSUME NEW e \in Entries
          PROVE  AllOf(rows'[e]) <= MaxRows
      <3>1. /\ rows'[e]["added"] = 0 /\ rows'[e]["processing"] = 0 /\ rows'[e]["sent"] = 0
            /\ rows'[e]["failed"] = 0 /\ rows'[e]["completed"] \in {0, rows[e]["completed"]}
        BY <1>1, <2>1 DEF RowStates
      <3>2. rows[e]["completed"] \in Nat /\ rows[e]["completed"] <= AllOf(rows[e])
        BY <1>1, AllIsNat DEF RowStates
      <3>3. AllOf(rows'[e]) = rows'[e]["completed"]
        BY <3>1, <3>2 DEF AllOf
      <3> QED
        BY <1>2, <3>1, <3>2, <3>3
    <2>3. \A e \in Entries : \A s \in RowStates \ Kept : rows'[e][s] = 0
      BY <2>1
    <2> QED
      BY <1>1, <2>2, <2>3 DEF ListWithin, AllOf
  <1>5. CASE LoadCreates
    <2>1. PICK list \in [Entries -> 0..MaxRows] :
            /\ \A e \in Entries :
                 rows[e]["added"] + rows[e]["completed"] + list[e] <= MaxRows
            /\ rows' = [e \in Entries |-> [rows[e] EXCEPT !["added"] = @ + list[e]]]
      BY <1>5 DEF LoadCreates
    <2>2. loading = "deleted" /\ loading' = "idle"
      BY <1>5 DEF LoadCreates
    <2>3. ASSUME NEW e \in Entries
          PROVE  AllOf(rows'[e]) <= MaxRows
      <3> DEFINE r == rows[e]
                 new == rows'[e]
                 l == list[e]
      <3>1. new = [r EXCEPT !["added"] = @ + l] /\ r \in [RowStates -> Nat] /\ l \in Nat
        BY <1>1, <2>1, AirdropBoundsAreNat
      <3>2. r["added"] + r["completed"] + l <= MaxRows
        BY <2>1
      <3>3. r["processing"] = 0 /\ r["sent"] = 0 /\ r["failed"] = 0
        BY <1>1, <2>2 DEF ListWithin, RowStates
      <3> HIDE DEF r, new, l
      <3>4. /\ new["added"] = r["added"] + l /\ new["processing"] = 0 /\ new["sent"] = 0
            /\ new["completed"] = r["completed"] /\ new["failed"] = 0
            /\ r["added"] \in Nat /\ r["completed"] \in Nat
        BY <3>1, <3>3 DEF RowStates
      <3>5. AllOf(new) = r["added"] + r["completed"] + l
        BY <3>1, <3>4 DEF AllOf
      <3> QED
        BY <3>2, <3>5 DEF new
    <2> QED
      BY <1>1, <2>2, <2>3 DEF ListWithin, AllOf
  <1> DEFINE marked == Marked(Message.status, Message.addresses)
  <1>6. ASSUME ready # << >>, ~completing, Ack \/ LeaveUnacked \/ DeliveredAgain \/ UNCHANGED queue
        PROVE  /\ Message.status \in Statuses /\ Message.addresses \in Drops \cup {<< >>}
               /\ Message \in Held
    BY <1>6, AirdropHandles DEF Message, TellsDrop
  <1>7. ASSUME Message.status \in Statuses, Message.addresses \in Drops \cup {<< >>}
        PROVE  /\ \A e \in Entries : marked[e] \in [RowStates -> Nat] /\ AllOf(marked[e]) <= MaxRows
               /\ loading = "deleted" =>
                    \A e \in Entries : \A s \in RowStates : marked[e][s] = rows[e][s]
    <2>1. loading = "deleted" => \A e \in Entries : rows[e]["added"] = 0 /\ rows[e]["processing"] = 0
      BY <1>1 DEF ListWithin, RowStates
    <2> QED
      BY <1>1, <1>2, <1>7, <2>1, MarkedAll
  <1>8. CASE AirdropMarks
    <2>1. ready # << >> /\ ~completing /\ (Ack \/ DeliveredAgain \/ UNCHANGED queue)
      BY <1>8 DEF AirdropMarks, Receiving
    <2>2. Message.status \in Statuses /\ Message.addresses \in Drops \cup {<< >>}
      BY <1>6, <2>1
    <2>3. rows' = marked /\ UNCHANGED loading
      BY <1>8 DEF AirdropMarks
    <2> HIDE DEF marked
    <2> QED
      BY <1>1, <1>7, <2>2, <2>3 DEF ListWithin, AllOf
  <1>9. CASE AirdropFails
    <2>1. CASE completing
      <3>1. kind = "airdrop" /\ ready # << >>
        BY <2>1 DEF AirdropShape
      <3>2. Message \in Held
        BY <3>1, Tailed DEF AirdropMessaged, Queues, Held, Message
      <3> QED
        BY <1>9, <3>1, <3>2 DEF AirdropFails, AirdropMessaged
    <2>2. CASE ~completing
      <3>1. ready # << >> /\ (Ack \/ LeaveUnacked)
        BY <1>9 DEF AirdropFails, Receiving
      <3>2. /\ Message.status \in Statuses /\ Message.addresses \in Drops \cup {<< >>}
            /\ Message \in Held
        BY <1>6, <2>2, <3>1
      <3>3. kind = "eosairdrop" /\ Kept = {}
        BY <1>9, <3>2 DEF AirdropFails, AirdropMessaged, Kept
      <3> DEFINE x == Message.errors[1]
      <3>4. /\ UNCHANGED loading
            /\ \/ rows' = marked
               \/ \E s \in RowStates : marked[x][s] > 0 /\ rows' = [marked EXCEPT ![x] = OneFailed(@, s)]
        BY <1>9 DEF AirdropFails
      <3> HIDE DEF x
      <3>5. CASE rows' = marked
        <4> HIDE DEF marked
        <4> QED
          BY <1>1, <1>7, <3>2, <3>4, <3>5 DEF ListWithin, AllOf
      <3>6. ASSUME NEW s \in RowStates, marked[x][s] > 0, rows' = [marked EXCEPT ![x] = OneFailed(@, s)]
            PROVE  ListWithin'
        <4>1. DOMAIN marked = Entries
          BY DEF Marked
        <4> HIDE DEF marked
        <4>2. /\ \A e \in Entries : rows'[e] = IF e = x THEN OneFailed(marked[x], s) ELSE marked[e]
              /\ \A e \in Entries : marked[e] \in [RowStates -> Nat] /\ AllOf(marked[e]) <= MaxRows
          BY <1>7, <3>2, <3>6, <4>1
        <4>3. \A e \in Entries : AllOf(rows'[e]) <= MaxRows
          BY <3>6, <4>2, FailedAll
        <4>4. CASE x \in Entries
          <5>1. ~(loading = "deleted")
            <6>1. loading = "deleted" => marked[x][s] = 0
              BY <1>7, <3>2, <3>3, <4>4 DEF ListWithin
            <6> QED
              BY <3>6, <6>1
          <5> QED
            BY <1>1, <3>4, <4>3, <5>1 DEF ListWithin, AllOf
        <4>5. CASE x \notin Entries
          <5>1. \A e \in Entries : rows'[e] = marked[e]
            BY <4>2, <4>5
          <5>2. loading = "deleted" => \A e \in Entries : \A t \in RowStates : rows'[e][t] = rows[e][t]
            BY <1>7, <3>2, <5>1
          <5> QED
            BY <1>1, <3>4, <4>3, <5>2 DEF ListWithin, AllOf
        <4> QED
          BY <4>4, <4>5
      <3> QED
        BY <3>4, <3>5, <3>6
    <2> QED
      BY <2>1, <2>2
  <1>10. CASE AirdropCompletes
    <2>1. \A e \in Entries : \A s \in RowStates :
            rows'[e][s] = IF s = "completed" THEN AllOf(rows[e]) ELSE 0
      BY <1>10 DEF AirdropCompletes, AllOf
    <2>2. ASSUME NEW e \in Entries
          PROVE  AllOf(rows'[e]) <= MaxRows
      <3>1. /\ rows'[e]["added"] = 0 /\ rows'[e]["processing"] = 0 /\ rows'[e]["sent"] = 0
            /\ rows'[e]["failed"] = 0 /\ rows'[e]["completed"] = AllOf(rows[e])
        BY <2>1 DEF RowStates
      <3>2. AllOf(rows'[e]) = rows'[e]["completed"]
        BY <1>2, <3>1 DEF AllOf
      <3> QED
        BY <1>2, <3>1, <3>2
    <2>3. completing /\ UNCHANGED loading
      BY <1>10 DEF AirdropCompletes
    <2>4. Kept = {"completed"}
      BY <2>3 DEF AirdropShape, Kept
    <2>5. \A e \in Entries : \A s \in RowStates \ Kept : rows'[e][s] = 0
      BY <2>1, <2>4
    <2> QED
      BY <1>1, <2>2, <2>5 DEF ListWithin, AllOf
  <1>11. CASE LoadChecks \/ DropCalled \/ DropDecided \/ (Restart /\ UNCHANGED airdropVars)
    BY <1>3, <1>11 DEF LoadChecks, DropCalled, DropDecided, airdropVars
  <1> QED
    BY <1>4, <1>5, <1>8, <1>9, <1>10, <1>11 DEF AirdropNext

LEMMA AirdropTypedInit == Init => AirdropTyped
  <1> SUFFICES ASSUME Init, kind \in AirdropKinds
               PROVE  AirdropMessaged /\ AirdropRow /\ ListWithin /\ DropsWithin
    BY DEF AirdropTyped
  <1>1. RowInit /\ AirdropInit
    BY DEF Init, WillInit, ProtectorInit, PoolInit, WillKinds, AirdropKinds, PoolKinds
  <1>2. AirdropMessaged
    BY <1>1, Empty DEF RowInit, AirdropInit, AirdropMessaged, Queues, Held, LeftBehind
  <1>3. AirdropRow
    BY <1>1 DEF AirdropInit, AirdropRow
  <1>4. ListWithin
    BY <1>1, AirdropBoundsAreNat DEF AirdropInit, ListWithin, AllOf, RowStates
  <1>5. DropsWithin
    <2>1. chain = << >> /\ \A e \in Entries : dropped[e] = 0
      BY <1>1 DEF RowInit, AirdropInit
    <2>2. Over = {} /\ Cardinality({}) = 0 /\ Len(chain) = 0
      BY <2>1, FS_EmptySet DEF Over
    <2> QED
      BY <2>1, <2>2, AirdropBoundsAreNat DEF DropsWithin
  <1> QED
    BY <1>2, <1>3, <1>4, <1>5

LEMMA AirdropTypedStep ==
  RowTold /\ AirdropTold /\ AirdropTyped /\ [Next]_lifeVars => AirdropTyped'
  <1> SUFFICES ASSUME RowTold, AirdropTold, AirdropMessaged, AirdropRow, ListWithin, DropsWithin,
                      kind \in AirdropKinds, [Next]_lifeVars
               PROVE  AirdropMessaged' /\ AirdropRow' /\ ListWithin' /\ DropsWithin'
    BY KindStays DEF AirdropTyped
  <1>1. AirdropShape /\ kind' = kind
    BY KindStays DEF AirdropTold
  <1>2. CASE AirdropNext
    <2>1. AirdropMessaged'
      BY <1>1, <1>2, AirdropMessagesKept
    <2>2. AirdropRow'
      BY <1>2, AirdropRowKept
    <2>3. ListWithin'
      BY <1>1, <1>2, ListKept
    <2>4. DropsWithin'
      BY <1>1, <1>2, DropsWithinKept
    <2> QED
      BY <2>1, <2>2, <2>3, <2>4
  <1>3. CASE UNCHANGED lifeVars
    <2>1. UNCHANGED <<state, queue, chain, rows, in_progress, loading, completing, dropped, excused>>
      BY <1>3 DEF lifeVars, rowVars, network, airdropVars
    <2>2. AirdropMessaged'
      BY <1>1, <2>1, RestBrings, AirdropHeldKept DEF RowTold
    <2>3. AirdropRow'
      BY <2>1 DEF AirdropRow
    <2>4. ListWithin'
      BY <1>1, <2>1 DEF ListWithin, AllOf, Kept, RowStates
    <2>5. DropsWithin'
      BY <2>1 DEF DropsWithin, Over
    <2> QED
      BY <2>2, <2>3, <2>4, <2>5
  <1>4. AirdropNext \/ UNCHANGED lifeVars
    BY DEF Next, WillStep, ProtectorStep, AirdropStep, PoolStep, WillKinds, AirdropKinds,
           PoolKinds
  <1> QED
    BY <1>2, <1>3, <1>4

LEMMA AirdropIsTyped ==
  RowTold /\ AirdropTold /\ AirdropTyped => (kind \in AirdropKinds => AirdropTypeOK)
  <1> SUFFICES ASSUME RowTold, AirdropShape, AirdropMessaged, AirdropRow, ListWithin, DropsWithin,
                      kind \in AirdropKinds
               PROVE  AirdropTypeOK
    BY DEF AirdropTold, AirdropTyped
  <1>1. \A i \in DOMAIN ready : ready[i] \in AirdropMessages
    BY DEF AirdropMessaged, Held, Elements
  <1>2. rows \in [Entries -> [RowStates -> 0..MaxRows]]
    <2>1. rows \in [Entries -> [RowStates -> Nat]]
      BY DEF AirdropShape, Counts
    <2>2. ASSUME NEW e \in Entries
          PROVE  rows[e] \in [RowStates -> 0..MaxRows]
      <3>1. rows[e] \in [RowStates -> Nat] /\ AllOf(rows[e]) <= MaxRows
        BY <2>1 DEF ListWithin
      <3>2. \A s \in RowStates : rows[e][s] \in Nat /\ rows[e][s] <= AllOf(rows[e]) /\ AllOf(rows[e]) \in Nat
        BY <3>1, AllIsNat
      <3>3. \A s \in RowStates : rows[e][s] \in 0..MaxRows
        BY <3>1, <3>2, AirdropBoundsAreNat
      <3> QED
        BY <3>1, <3>3
    <2> QED
      BY <2>1, <2>2
  <1>3. dropped \in [Entries -> 0..(2 * MaxDrops)]
    <2>1. /\ Cardinality(Over) \in Nat /\ Cardinality(Over) <= Len(chain) /\ Len(chain) \in Nat
          /\ Len(chain) <= MaxDrops /\ MaxDrops \in Nat
      BY OverIs, AirdropBoundsAreNat DEF RowTold, DropsWithin
    <2>2. ASSUME NEW e \in Entries
          PROVE  dropped[e] \in 0..(2 * MaxDrops)
      <3> DEFINE n == Cardinality(Over)
      <3>1. dropped[e] \in Nat /\ dropped[e] <= 2 * n
        BY DEF AirdropShape, DropsWithin
      <3> HIDE DEF n
      <3>2. n \in Nat /\ n <= MaxDrops
        BY <2>1 DEF n
      <3> QED
        BY <2>1, <3>1, <3>2
    <2> QED
      BY <2>2 DEF AirdropShape
  <1> QED
    BY <1>1, <1>2, <1>3 DEF AirdropTypeOK, AirdropRow, AirdropMessages
-----------------------------------------------------------------------------
(***************************************************************************)
(* The types of a pool or a swap.  The balance is what some message told,  *)
(* and no message tells of more than all can have paid.                    *)
(***************************************************************************)
PaidBounded == [Parties -> [in : 0..MaxDeposits, out : 0..MaxDeposits]]

PoolPaid == paid \in PaidBounded /\ \A p \in Parties : paid[p].out <= paid[p].in

PoolRow ==
  /\ state \in {"ACTIVE", "DONE", "CANCELLED", "EXPIRED"}
  /\ ending \in {"no", "finalized", "cancelled"}
  /\ balance \in 0..AllPaid
  /\ take_away \subseteq Parties
  /\ stop_date \in Times
  /\ checksummed \in BOOLEAN /\ counted \in BOOLEAN

TotalsGrow == \A p \in Parties : total[p] >= 0

PoolMessaged == Queues /\ Held \subseteq PoolMessages

PoolTyped == kind \in PoolKinds =>
  PoolMessaged /\ PoolPaid /\ PoolRow /\ TotalsGrow

LEMMA AllPaidBounds ==
  ASSUME NEW f \in PaidBounded
  PROVE  Total([p \in Parties |-> f[p].in]) \in 0..AllPaid
  <1> DEFINE w == [p \in Parties |-> f[p].in]
             all == Parties \X (1..MaxDeposits)
  <1>1. w \in [Parties -> Nat] /\ \A p \in Parties : w[p] <= MaxDeposits
    BY DepositsAreNat DEF PaidBounded
  <1> HIDE DEF w
  <1>2. IsFiniteSet(1..MaxDeposits) /\ Cardinality(1..MaxDeposits) = MaxDeposits
    BY DepositsAreNat, FS_Interval
  <1>3. IsFiniteSet(all) /\ Cardinality(all) = Cardinality(Parties) * MaxDeposits
    BY <1>2, PartiesAreSome, FS_Product
  <1>4. Units(w) \subseteq all
    <2> SUFFICES ASSUME NEW u \in Units(w) PROVE u \in all
      OBVIOUS
    <2>1. u = <<u[1], u[2]>> /\ u[1] \in Parties /\ u[2] \in 1..w[u[1]]
      BY <1>1, UnitsAre
    <2>2. u[2] \in 1..MaxDeposits
      <3> DEFINE n == w[u[1]]
      <3>1. n \in Nat /\ n <= MaxDeposits /\ u[2] \in 1..n
        BY <1>1, <2>1
      <3> HIDE DEF n
      <3> QED
        BY <3>1, DepositsAreNat
    <2> QED
      BY <2>1, <2>2
  <1>5. Cardinality(Units(w)) <= Cardinality(all) /\ Cardinality(Units(w)) \in Nat
    BY <1>3, <1>4, FS_Subset, FS_CardinalityType
  <1>6. Cardinality(all) = AllPaid /\ AllPaid \in Nat
    <2>1. Cardinality(Parties) \in Nat
      BY PartiesAreSome, FS_CardinalityType
    <2> HIDE DEF all
    <2> QED
      BY <1>3, <2>1, DepositsAreNat DEF AllPaid
  <1>7. Total(w) = Cardinality(Units(w))
    BY DEF Total
  <1>8. Total(w) \in 0..AllPaid
    BY <1>5, <1>6, <1>7
  <1> QED
    BY <1>8 DEF w

LEMMA PoolMessagesAre ==
  /\ Cancelled \in PoolMessages
  /\ \A p \in Parties : \A sum \in 0..AllPaid : Invested(p, sum) \in PoolMessages
  /\ \A p \in Parties : {Deposit(p), Refund(p), TokensSent(p)} \subseteq PoolMessages
  /\ \A status \in {"COMMITTED", "REJECTED"} : Finalized(status) \in PoolMessages
  /\ \A t \in Times : TimesChanged(t) \in PoolMessages
  <1>1. \A p \in Parties : \A sum \in 0..AllPaid : Invested(p, sum) \in PoolMessages
    BY DEF PoolMessages, Invested
  <1>2. \A p \in Parties : {Deposit(p), Refund(p), TokensSent(p)} \subseteq PoolMessages
    BY DEF PoolMessages, Deposit, Refund, TokensSent
  <1>3. \A status \in {"COMMITTED", "REJECTED"} : Finalized(status) \in PoolMessages
    BY DEF PoolMessages, Finalized
  <1>4. \A t \in Times : TimesChanged(t) \in PoolMessages
    BY DEF PoolMessages, TimesChanged
  <1> QED
    BY <1>1, <1>2, <1>3, <1>4 DEF PoolMessages

LEMMA PoolMessagesSay ==
  ASSUME NEW m \in PoolMessages
  PROVE  /\ m.type = "fundsAdded" => m.balance \in 0..AllPaid
         /\ m.type = "tokensSent" => m.party \in Parties
         /\ m.type = "timesChanged" => m.endTime \in Times
  <1>1. CASE m = Cancelled
    BY <1>1 DEF Cancelled
  <1>2. CASE m \in [type: {"fundsAdded"}, party: Parties, balance: 0..AllPaid]
    BY <1>2
  <1>3. CASE m \in [type: {"depositSwaps", "refundSwaps", "tokensSent"}, party: Parties]
    BY <1>3
  <1>4. CASE m \in [type: {"finalized"}, status: {"COMMITTED", "REJECTED"}]
    BY <1>4
  <1>5. CASE m \in [type: {"timesChanged"}, endTime: Times]
    BY <1>5
  <1> QED
    BY <1>1, <1>2, <1>3, <1>4, <1>5 DEF PoolMessages

LEMMA PaidKept ==
  ASSUME PoolPaid, PoolNext
  PROVE  PoolPaid'
  <1>1. ASSUME NEW p \in Parties, Pays(p)
        PROVE  PoolPaid'
    <2> DEFINE r == paid[p]
               new == [r EXCEPT !.in = @ + 1]
    <2>1. r \in [in : 0..MaxDeposits, out : 0..MaxDeposits] /\ r.out <= r.in
      BY DEF PoolPaid, PaidBounded
    <2>2. r.in < MaxDeposits
      BY <1>1 DEF Pays
    <2>3. paid' = [paid EXCEPT ![p] = new]
      BY <1>1 DEF Pays, PoolPaid, PaidBounded
    <2> HIDE DEF r
    <2>4. new \in [in : 0..MaxDeposits, out : 0..MaxDeposits] /\ new.out <= new.in
      BY <2>1, <2>2, DepositsAreNat
    <2> HIDE DEF new
    <2> QED
      BY <2>3, <2>4 DEF PoolPaid, PaidBounded
  <1>2. ASSUME NEW p \in Parties, PaysOut(p)
        PROVE  PoolPaid'
    <2> DEFINE r == paid[p]
               new == [r EXCEPT !.out = @ + 1]
    <2>1. r \in [in : 0..MaxDeposits, out : 0..MaxDeposits] /\ r.out <= r.in
      BY DEF PoolPaid, PaidBounded
    <2>2. r.out < r.in
      BY <1>2 DEF PaysOut
    <2>3. paid' = [paid EXCEPT ![p] = new]
      BY <1>2 DEF PaysOut, PoolPaid, PaidBounded
    <2> HIDE DEF r
    <2>4. new \in [in : 0..MaxDeposits, out : 0..MaxDeposits] /\ new.out <= new.in
      BY <2>1, <2>2, DepositsAreNat
    <2> HIDE DEF new
    <2> QED
      BY <2>3, <2>4 DEF PoolPaid, PaidBounded
  <1>3. CASE ~\E p \in Parties : Pays(p) \/ PaysOut(p)
    <2>1. UNCHANGED paid
      BY <1>3 DEF PoolNext, PoolFundsAdded, PoolTokenSent, PoolTimesChanged, PoolFinalized,
                  PoolCancelled, SwapsDeposit, SwapsRefund, SwapsExpire, Ends, ChangesTimes,
                  poolVars
    <2> QED
      BY <2>1 DEF PoolPaid, PaidBounded
  <1> QED
    BY <1>1, <1>2, <1>3

LEMMA PoolHeldKept ==
  ASSUME PoolMessaged, NEW M, M \subseteq PoolMessages, Brings(M)
  PROVE  PoolMessaged'
  <1>1. PoolMessages' = PoolMessages
    BY DEF PoolMessages, AllPaid, Times
  <1> QED
    BY <1>1 DEF PoolMessaged, Brings

LEMMA PoolMessagesKept ==
  ASSUME RowTold, PoolMessaged, PoolPaid, PoolNext
  PROVE  PoolMessaged'
  <1>1. Queues
    BY DEF RowTold
  <1>2. ASSUME NEW m \in PoolMessages, Publish(m)
        PROVE  PoolMessaged'
    <2>1. {m} \subseteq PoolMessages
      OBVIOUS
    <2>2. Brings({m})
      BY <1>1, <1>2, PublishBrings
    <2> QED
      BY <2>1, <2>2, PoolHeldKept
  <1>3. CASE \/ PoolFundsAdded \/ PoolTokenSent \/ PoolTimesChanged \/ PoolFinalized
             \/ PoolCancelled \/ SwapsDeposit \/ SwapsRefund
    <2>1. ready # << >> /\ (Ack \/ DeliveredAgain)
      BY <1>3 DEF PoolFundsAdded, PoolTokenSent, PoolTimesChanged, PoolFinalized,
                  PoolCancelled, SwapsDeposit, SwapsRefund, Receiving, CountOnce
    <2>2. Brings({})
      BY <1>1, <2>1, Acks, Redelivered DEF Handles, DeliveredAgain, Brings
    <2> QED
      BY <2>2, PoolHeldKept
  <1>4. CASE SwapsExpire \/ Tick
    <2>1. UNCHANGED queue
      BY <1>4 DEF SwapsExpire, Tick, rowVars
    <2> QED
      BY <1>1, <2>1, RestBrings, PoolHeldKept
  <1>5. ASSUME NEW p \in Parties, Pays(p)
        PROVE  PoolMessaged'
    <2>1. PoolPaid'
      BY <1>5, PaidKept DEF PoolNext
    <2>2. PaidIn' \in 0..AllPaid
      <3>1. PaidIn' = Total([q \in Parties |-> paid'[q].in])
        BY DEF PaidIn, Total, Units
      <3>2. paid' \in PaidBounded
        BY <2>1 DEF PoolPaid, PaidBounded
      <3> QED
        BY <3>1, <3>2, AllPaidBounds
    <2>3. PaidIn' = PaidIn + 1
      <3>1. paid \in Payers
        BY DepositsAreNat DEF PoolPaid, PaidBounded, Payers
      <3> QED
        BY <1>5, <3>1, PaidInMoves DEF Pays
    <2>4. Publish(Deposit(p)) \/ Publish(Invested(p, PaidIn + 1))
      BY <1>5 DEF Pays
    <2> QED
      BY <1>2, <2>2, <2>3, <2>4, PoolMessagesAre
  <1>6. ASSUME NEW p \in Parties, PaysOut(p)
        PROVE  PoolMessaged'
    <2>1. Publish(Refund(p)) \/ Publish(TokensSent(p))
      BY <1>6 DEF PaysOut
    <2> QED
      BY <1>2, <2>1, PoolMessagesAre
  <1>7. CASE Ends \/ ChangesTimes
    <2>1. \E m \in PoolMessages : Publish(m)
      BY <1>7, PoolMessagesAre DEF Ends, ChangesTimes
    <2> QED
      BY <1>2, <2>1
  <1> QED
    BY <1>3, <1>4, <1>5, <1>6, <1>7 DEF PoolNext

LEMMA PoolRowKept ==
  ASSUME PoolMessaged, PoolRow, PoolNext
  PROVE  PoolRow'
  <1>1. ready # << >> => Message \in PoolMessages
    BY Tailed DEF PoolMessaged, Queues, Held, Message
  <1>2. (0..AllPaid)' = 0..AllPaid /\ Times' = Times
    BY DEF AllPaid, Times
  <1>3. state' \in {state, "DONE", "CANCELLED", "EXPIRED"} /\ ending' \in {ending, "finalized", "cancelled"}
    BY DEF PoolNext, PoolFundsAdded, PoolTokenSent, PoolTimesChanged, PoolFinalized,
           PoolCancelled, SwapsDeposit, SwapsRefund, SwapsExpire, Pays, PaysOut, Ends,
           ChangesTimes, Tick, poolVars
  <1>4. balance' \in 0..AllPaid
    <2>1. CASE PoolFundsAdded
      BY <1>1, <2>1, PoolMessagesSay DEF PoolFundsAdded, Receiving, Message
    <2>2. CASE ~PoolFundsAdded
      BY <2>2 DEF PoolRow, PoolNext, PoolTokenSent, PoolTimesChanged, PoolFinalized,
             PoolCancelled, SwapsDeposit, SwapsRefund, SwapsExpire, Pays, PaysOut, Ends,
             ChangesTimes, poolVars, books
    <2> QED
      BY <2>1, <2>2
  <1>5. take_away' \subseteq Parties
    <2>1. CASE PoolTokenSent
      BY <1>1, <2>1, PoolMessagesSay DEF PoolRow, PoolTokenSent, Receiving, Message
    <2>2. CASE ~PoolTokenSent
      BY <2>2 DEF PoolRow, PoolNext, PoolFundsAdded, PoolTimesChanged, PoolFinalized,
             PoolCancelled, SwapsDeposit, SwapsRefund, SwapsExpire, Pays, PaysOut, Ends,
             ChangesTimes, poolVars, books
    <2> QED
      BY <2>1, <2>2
  <1>6. stop_date' \in Times
    <2>1. CASE PoolTimesChanged
      BY <1>1, <2>1, PoolMessagesSay DEF PoolTimesChanged, Receiving, Message
    <2>2. CASE ~PoolTimesChanged
      BY <2>2 DEF PoolRow, PoolNext, PoolFundsAdded, PoolTokenSent, PoolFinalized,
             PoolCancelled, SwapsDeposit, SwapsRefund, SwapsExpire, Pays, PaysOut, Ends,
             ChangesTimes, poolVars
    <2> QED
      BY <2>1, <2>2
  <1>7. checksummed' \in BOOLEAN /\ counted' \in BOOLEAN
    <2>1. checksummed' = checksummed /\ (counted' = counted \/ counted' = FALSE)
      BY DEF PoolNext, PoolFundsAdded, PoolTokenSent, PoolTimesChanged, PoolFinalized,
             PoolCancelled, SwapsDeposit, SwapsRefund, SwapsExpire, Pays, PaysOut, Ends,
             ChangesTimes, poolVars, CountOnce
    <2> QED
      BY <2>1, Zenon DEF PoolRow
  <1> QED
    BY <1>2, <1>3, <1>4, <1>5, <1>6, <1>7 DEF PoolRow

LEMMA TotalsKept ==
  ASSUME PoolShape, TotalsGrow, PoolNext
  PROVE  TotalsGrow'
  <1>1. total \in [Parties -> Int]
    BY DEF PoolShape
  <1>2. CASE SwapsDeposit
    <2>1. \E q : total' = [total EXCEPT ![q] = @ + 1]
      BY <1>2 DEF SwapsDeposit
    <2> QED
      BY <1>1, <2>1 DEF TotalsGrow
  <1>3. CASE ~SwapsDeposit
    <2>1. UNCHANGED total
      BY <1>3 DEF PoolNext, PoolFundsAdded, PoolTokenSent, PoolTimesChanged, PoolFinalized,
             PoolCancelled, SwapsRefund, SwapsExpire, Pays, PaysOut, Ends,
             ChangesTimes, poolVars, books
    <2> QED
      BY <2>1 DEF TotalsGrow
  <1> QED
    BY <1>2, <1>3

LEMMA PoolTypedInit == Init => PoolTyped
  <1> SUFFICES ASSUME Init, kind \in PoolKinds
               PROVE  PoolMessaged /\ PoolPaid /\ PoolRow /\ TotalsGrow
    BY DEF PoolTyped
  <1>1. RowInit /\ PoolInit
    BY DEF Init, WillInit, ProtectorInit, AirdropInit, WillKinds, AirdropKinds, PoolKinds
  <1>2. PoolMessaged
    BY <1>1, Empty DEF RowInit, PoolInit, PoolMessaged, Queues, Held, LeftBehind
  <1>3. PoolPaid /\ TotalsGrow
    BY <1>1, DepositsAreNat DEF PoolInit, PoolPaid, PaidBounded, TotalsGrow
  <1>4. PoolRow
    <2>1. 1 \in Times
      BY TimesAreMoments, RowBoundsAreNat DEF Times
    <2>2. 0 \in 0..AllPaid
      <3>1. Cardinality(Parties) \in Nat
        BY PartiesAreSome, FS_CardinalityType
      <3>2. AllPaid \in Nat
        BY <3>1, DepositsAreNat DEF AllPaid
      <3> QED
        BY <3>2
    <2>3. checksummed \in BOOLEAN
      BY <1>1, Zenon DEF PoolInit
    <2> QED
      BY <1>1, <2>1, <2>2, <2>3 DEF PoolInit, PoolRow
  <1> QED
    BY <1>2, <1>3, <1>4

LEMMA PoolTypedStep ==
  RowTold /\ PoolTold /\ PoolTyped /\ [Next]_lifeVars => PoolTyped'
  <1> SUFFICES ASSUME RowTold, PoolShape, PoolMessaged, PoolPaid, PoolRow, TotalsGrow,
                      kind \in PoolKinds, [Next]_lifeVars
               PROVE  PoolMessaged' /\ PoolPaid' /\ PoolRow' /\ TotalsGrow'
    BY KindStays DEF PoolTyped, PoolTold
  <1>1. CASE PoolNext
    BY <1>1, PoolMessagesKept, PaidKept, PoolRowKept, TotalsKept
  <1>2. CASE UNCHANGED lifeVars
    <2>1. UNCHANGED <<state, queue, paid, ending, total, balance, take_away, stop_date,
                      checksummed, counted>>
      BY <1>2 DEF lifeVars, rowVars, poolVars, books
    <2>2. PoolMessaged'
      BY <2>1, RestBrings, PoolHeldKept DEF RowTold
    <2>3. PoolPaid' /\ PoolRow' /\ TotalsGrow'
      BY <2>1 DEF PoolPaid, PaidBounded, PoolRow, AllPaid, Times, TotalsGrow
    <2> QED
      BY <2>2, <2>3
  <1>3. PoolNext \/ UNCHANGED lifeVars
    BY DEF Next, WillStep, ProtectorStep, AirdropStep, PoolStep, WillKinds, AirdropKinds,
           PoolKinds
  <1> QED
    BY <1>1, <1>2, <1>3

LEMMA PoolIsTyped ==
  PoolTold /\ PoolTyped => (kind \in PoolKinds => PoolTypeOK)
  <1> SUFFICES ASSUME PoolShape, PoolMessaged, PoolPaid, PoolRow, TotalsGrow, kind \in PoolKinds
               PROVE  PoolTypeOK
    BY DEF PoolTold, PoolTyped
  <1>1. \A i \in DOMAIN ready : ready[i] \in PoolMessages
    BY DEF PoolMessaged, Held, Elements
  <1>2. \A p \in Parties : invested[p] \in Int /\ total[p] \in Nat
    BY DEF PoolShape, TotalsGrow
  <1> QED
    BY <1>1, <1>2 DEF PoolPaid, PaidBounded, PoolRow, PoolTypeOK
-----------------------------------------------------------------------------
\* For any contract of any kind that lives on, with any times and bounds:
\* its row, its queue and the details of its kind are always what the code
\* takes them for, in whatever order messages, requests, the checker and the
\* network come, and however often a process dies.
THEOREM LifeTypeCorrect == Spec => []LifeTypeOK
  <1> DEFINE Typed == /\ RowTold /\ WillTold /\ ProtectorTold /\ ProtectorTyped
                      /\ AirdropTold /\ AirdropTyped /\ PoolTold /\ PoolTyped
  <1>1. Init => Typed
    BY LifeRowInit, WillToldInit, ToldInit, ProtectorTypedInit, AirdropToldInit,
       AirdropTypedInit, PoolToldInit, PoolTypedInit
  <1>2. Typed /\ [Next]_lifeVars => Typed'
    <2> SUFFICES ASSUME Typed, [Next]_lifeVars PROVE Typed'
      OBVIOUS
    <2>1. RowTold'
      BY LifeRowStep
    <2>2. WillTold'
      BY <2>1, WillToldStep
    <2>3. ProtectorTold' /\ ProtectorTyped'
      BY ToldStep, ProtectorTypedStep
    <2>4. AirdropTold' /\ AirdropTyped'
      BY AirdropToldStep, AirdropTypedStep
    <2>5. PoolTold' /\ PoolTyped'
      BY PoolToldStep, PoolTypedStep
    <2> QED
      BY <2>1, <2>2, <2>3, <2>4, <2>5
  <1>3. Typed => LifeTypeOK
    BY RowIsTyped, WillIsTyped, ProtectorIsTyped, AirdropIsTyped, PoolIsTyped DEF LifeTypeOK
  <1> HIDE DEF Typed
  <1> QED
    BY <1>1, <1>2, <1>3, PTL DEF Spec, Safety
=============================================================================
