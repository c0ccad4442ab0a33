--------------------------- MODULE TokenProtector ---------------------------
(***************************************************************************)
(* The token protector (lastwill/contracts/submodels/token_protector.py, *)
(* its views in lastwill/contracts/api.py and its serializer): a contract  *)
(* the owner lets spend chosen tokens, and which moves them to a reserve   *)
(* address when it is executed, after end_timestamp or, with an oracle, *)
(* when the owner's account has been still for long enough.                *)
(*                                                                         *)
(* The owner names tokens at the site and approves them on the chain; once *)
(* every token named was approved, the platform adds them all to the       *)
(* contract (addTokenType), whose event confirms the rows.  The site's     *)
(* requests, the receiver and the checker read and save the same rows.     *)
(***************************************************************************)
EXTENDS ContractRow

CONSTANT Tokens  \* the tokens the owner may protect

ProtectorStates ==
  {"CREATED", "WAITING_FOR_PAYMENT", "WAITING_FOR_DEPLOYMENT",
   "WAITING_FOR_APPROVE", "WAITING_FOR_CONFIRM", "ACTIVE",
   "WAITING_FOR_EXECUTION", "DONE", "CANCELLED", "POSTPONED", "TIME_IS_UP"}

VARIABLES
  approvedTokens,  \* the ApprovedToken rows: what is known of each token
  approving_time,  \* whether details.approving_time is set
  address,         \* whether eth_contract.address is known
  saved,           \* the tokens the contract on the chain moves
  executor,        \* the checker between the transaction and the save
  late,            \* tokens whose row was made while a confirmation was out
  skipping,        \* a request to skip the approvals has read the row
  ended            \* the row was DONE or CANCELLED since its last deployment

approvals     == <<approvedTokens, approving_time, saved, late>>
protectorVars == <<address, approvals, executor, skipping, ended>>

\* A row: who vouches for the token, and whether the contract has it.
NoToken   == {}
TokenRows == SUBSET {"row", "front", "scanner", "confirmed"}
Rows      == {t \in Tokens : "row" \in approvedTokens[t]}
With(flag) == {t \in Rows : flag \in approvedTokens[t]}

Approve(t, yes) == [type |-> "TokenProtectorApprove", token |-> t,
                    approved |-> yes]
TokensToSave    == [type |-> "TokenProtectorTokensToSave"]
TransactionInfo == [type |-> "TokenProtectorTransactionInfo"]
Selfdestruction == [type |-> "SelfdestructionEvent"]

ProtectorMessages ==
  {Launch, TokensToSave, TransactionInfo, Selfdestruction}
    \cup [type: {"deployed"}, success: BOOLEAN]
    \cup [type: {"transactionCompleted"}, hash: 1..MaxTxs]
    \cup [type: {"TokenProtectorApprove"}, token: Tokens, approved: BOOLEAN]

ProtectorTypeOK ==
  /\ state \in ProtectorStates
  /\ \A i \in DOMAIN ready : ready[i] \in ProtectorMessages
  /\ approvedTokens \in [Tokens -> TokenRows]
  /\ approving_time \in BOOLEAN
  /\ address \in BOOLEAN
  /\ saved \subseteq Tokens
  /\ executor \in {"idle", "sent"}
  /\ late \subseteq Tokens
  /\ skipping \in BOOLEAN
  /\ ended \in BOOLEAN

ProtectorInit ==
  /\ kind = "protector"
  /\ state = "CREATED"
  /\ onChain = "none"
  /\ ready = << >>
  /\ approvedTokens = [t \in Tokens |-> NoToken]
  /\ approving_time = FALSE
  /\ address = FALSE
  /\ saved = {} /\ late = {}
  /\ executor = "idle"
  /\ skipping = FALSE /\ ended = FALSE
-----------------------------------------------------------------------------
(***************************************************************************)
(* The views.  predeploy_validate refuses a launch less than half an hour  *)
(* before end_timestamp; that moment may come between any two steps here.  *)
(***************************************************************************)
\* confirm_protector_info on ETHEREUM_MAINNET, or on ETHEREUM_ROPSTEN, where
\* it is free: there the state is saved before predeploy_validate may refuse,
\* and then nothing is launched.
ConfirmInfo ==
  /\ state = "CREATED"
  /\ \/ state' = "WAITING_FOR_PAYMENT" /\ UNCHANGED queue
     \/ /\ state' = "WAITING_FOR_DEPLOYMENT"
        /\ Publish(Launch) \/ UNCHANGED queue
  /\ UNCHANGED <<kind, lockedBy, network, now, troubles, protectorVars>>

\* deploy_protector, called by autodeploing when the balance covers the cost.
DeployProtector ==
  /\ state = "WAITING_FOR_PAYMENT"
  /\ Publish(Launch)
  /\ state' = "WAITING_FOR_DEPLOYMENT"
  /\ UNCHANGED <<kind, lockedBy, network, now, troubles, protectorVars>>

\* skip_protector_approve reads a row that waits for approvals ...
SkipReads ==
  /\ ~skipping
  /\ state = "WAITING_FOR_APPROVE"
  /\ skipping' = TRUE
  /\ UNCHANGED <<rowVars, address, approvals, executor, ended>>

\* ... and saves all of it, whatever was saved in between.
SkipSaves ==
  /\ skipping
  /\ state' = "ACTIVE"
  /\ skipping' = FALSE
  /\ UNCHANGED <<kind, lockedBy, queue, network, now, troubles,
                 address, approvals, executor, ended>>

(***************************************************************************)
(* confirm_tokens: addTokenType with every token that is not confirmed.    *)
(* No hash is kept.                                                        *)
(***************************************************************************)
\* Every token named at the site was approved on the chain.
AllApproved(rows) ==
  \A t \in Tokens : "front" \in rows[t] => "scanner" \in rows[t]

\* Seeded bug: a token the owner approved without naming it is not sent.
NamedToConfirm(rows) ==
  {t \in Tokens : "front" \in rows[t] /\ "confirmed" \notin rows[t]}

ToConfirm(rows) ==
  {t \in Tokens : "row" \in rows[t] /\ "confirmed" \notin rows[t]}

\* A contract whose address is not known cannot be called.
Confirmation(rows) == address /\ Send("addTokenType", ToConfirm(rows))

\* An addTokenType is in the network, or its event in the queue.
ConfirmationOut ==
  \/ \E i \in 1..MaxTxs : Pending(i, "addTokenType")
  \/ \E i \in DOMAIN ready : ready[i] = TokensToSave

LateWith(t) == IF ConfirmationOut /\ t \notin Rows THEN late \cup {t} ELSE late

\* approve_from_front(tokens), here of one token.  approving_time is set, and
\* cleared before the tokens are confirmed: when that raises it stays cleared.
ApproveFromFront(t) ==
  LET rows == [approvedTokens EXCEPT ![t] = @ \cup {"row", "front"}]
  IN  /\ approvedTokens' = rows
      /\ late' = LateWith(t)
      /\ state' = IF state = "WAITING_FOR_APPROVE" THEN "WAITING_FOR_CONFIRM"
                                                   ELSE state
      /\ IF AllApproved(rows)
           THEN approving_time' = FALSE /\ (Confirmation(rows) \/ SendsNothing)
           ELSE approving_time' = TRUE /\ SendsNothing
      /\ UNCHANGED <<kind, lockedBy, queue, txHash, now, troubles,
                     address, saved, executor, skipping, ended>>

\* The owner's request, in any state of the protector.
ConfirmProtectorTokens == \E t \in Tokens : ApproveFromFront(t)

(***************************************************************************)
(* The serializer's to_representation saves what it finds: it runs in      *)
(* every request that shows the contract, and in the receiver after every  *)
(* save of it.                                                             *)
(***************************************************************************)
RepresentTimeIsUp ==
  /\ state \in {"CREATED", "WAITING_FOR_PAYMENT"}
  /\ state' = "TIME_IS_UP"
  /\ UNCHANGED <<kind, lockedBy, queue, network, now, troubles, protectorVars>>

\* More than ten minutes after a token was named, whatever the state is by
\* then.
RepresentPostponed ==
  /\ approving_time
  /\ approving_time' = FALSE
  /\ state' = "POSTPONED"
  /\ UNCHANGED <<kind, lockedBy, queue, network, now, troubles,
                 address, approvedTokens, saved, late, executor, skipping, ended>>
-----------------------------------------------------------------------------
(***************************************************************************)
(* The receiver.                                                           *)
(***************************************************************************)
\* msg_deployed; the mails are in a try of their own.
ProtectorDeployed ==
  /\ DeployedAccepted
  /\ lockedBy' = TakeOff
  /\ address' = TRUE
  /\ state' = "WAITING_FOR_APPROVE"
  /\ ended' = FALSE
  /\ Acknowledge
  /\ UNCHANGED <<kind, network, now, approvals, executor, skipping>>

\* 'TokenProtectorApprove': an approval makes or marks the row, a withdrawn
\* one deletes it; then try_confirm_execute.
TokenProtectorApprove ==
  /\ Receiving("TokenProtectorApprove")
  /\ LET t    == Message.token
         rows == [approvedTokens EXCEPT ![t] =
                    IF Message.approved THEN @ \cup {"row", "scanner"}
                                        ELSE NoToken]
     IN  /\ approvedTokens' = rows
         /\ late' = IF Message.approved THEN LateWith(t) ELSE late \ {t}
         /\ IF approving_time /\ AllApproved(rows)
              THEN /\ approving_time' = FALSE
                   /\ \/ Confirmation(rows) /\ Acknowledge
                      \/ SendsNothing /\ LeaveUnacked
              ELSE UNCHANGED approving_time /\ SendsNothing /\ Acknowledge
  /\ UNCHANGED <<kind, state, lockedBy, txHash, now, address,
                 saved, executor, skipping, ended>>

\* Every row there is, and not the tokens the event names.
AllConfirmed(rows) ==
  [t \in Tokens |-> IF "row" \in rows[t] THEN rows[t] \cup {"confirmed"}
                                         ELSE NoToken]

\* 'TokenProtectorTokensToSave', in any state.
TokenProtectorTokensToSave ==
  /\ Receiving("TokenProtectorTokensToSave")
  /\ approvedTokens' = AllConfirmed(approvedTokens)
  /\ state' = "ACTIVE"
  /\ Acknowledge
  /\ UNCHANGED <<kind, lockedBy, network, now, address,
                 approving_time, saved, late, executor, skipping, ended>>

\* 'TokenProtectorTransactionInfo'
TokenProtectorTransactionInfo ==
  /\ Receiving("TokenProtectorTransactionInfo")
  /\ state' = "DONE"
  /\ ended' = TRUE
  /\ Acknowledge
  /\ UNCHANGED <<kind, lockedBy, network, now, address, approvals, executor, skipping>>

\* 'SelfdestructionEvent'
SelfdestructionEvent ==
  /\ Receiving("SelfdestructionEvent")
  /\ state' = "CANCELLED"
  /\ ended' = TRUE
  /\ Acknowledge
  /\ UNCHANGED <<kind, lockedBy, network, now, address, approvals, executor, skipping>>
-----------------------------------------------------------------------------
(***************************************************************************)
(* The checker's turn of a protector.  Its reminders are mails, and left   *)
(* out.                                                                    *)
(***************************************************************************)
\* execute_contract, after end_timestamp, or with an oracle when the owner
\* was silent for long enough, which may be at any moment.  The transaction
\* is sent by the checker, without the lock of the address ...
ExecuteSends ==
  /\ executor = "idle"
  /\ state = "ACTIVE"
  /\ Send("execute", {})
  /\ executor' = "sent"
  /\ UNCHANGED <<kind, state, lockedBy, queue, txHash, now, troubles,
                 address, approvals, skipping, ended>>

\* Seeded bug: the row is saved as it was read.
ReadState == "ACTIVE"

ExecutedState == "WAITING_FOR_EXECUTION"

\* ... and the row it read at the start of its round is saved.
ExecuteSaves ==
  /\ executor = "sent"
  /\ state' = ExecutedState
  /\ executor' = "idle"
  /\ UNCHANGED <<kind, lockedBy, queue, network, now, troubles,
                 address, approvals, skipping, ended>>
-----------------------------------------------------------------------------
(***************************************************************************)
(* The chain: the owner's approvals, and the contract, which is not in     *)
(* this repository.  The owner acts when the queue is empty, and approves  *)
(* while the contract stands and no request to skip the approvals is under *)
(* way, which are bounds; an approval that changes nothing is left out.    *)
(***************************************************************************)
OwnerApproves ==
  /\ onChain = "alive" /\ ~skipping
  /\ Quiet
  /\ \E t \in Tokens :
       Publish(Approve(t, "scanner" \notin approvedTokens[t]))
  /\ UNCHANGED <<kind, state, lockedBy, network, now, troubles, protectorVars>>

OwnerDestroys ==
  /\ onChain = "alive"
  /\ Quiet
  /\ Publish(Selfdestruction)
  /\ onChain' = "over"
  /\ UNCHANGED <<kind, state, lockedBy, txHash, chain, now, troubles,
                 protectorVars>>

ProtectorMined ==
  /\ \E i \in 1..MaxTxs :
       \/ /\ CallMined(i, "addTokenType", TokensToSave, "alive")
          /\ saved' = saved \cup chain[i].with
       \/ CallMined(i, "execute", TransactionInfo, "over") /\ UNCHANGED saved
  /\ UNCHANGED <<address, approvedTokens, approving_time, late, executor,
                 skipping, ended>>

ProtectorReceives ==
  \/ ProtectorDeployed \/ TokenProtectorApprove \/ TokenProtectorTokensToSave
  \/ TokenProtectorTransactionInfo \/ SelfdestructionEvent

\* Another deployment is told of a row that is not changed by it.
ToldAnew == (DeployedIgnored \/ DeployedPostponed) /\ Message.success

ProtectorRowNext ==
  /\ RowNext
  /\ ended' = (ended /\ ~ToldAnew)
  /\ UNCHANGED <<address, approvals, executor, skipping>>

ProtectorNext ==
  \/ ProtectorRowNext
  \/ ProtectorReceives
  \/ ConfirmInfo \/ DeployProtector
  \/ SkipReads \/ SkipSaves
  \/ ConfirmProtectorTokens
  \/ RepresentTimeIsUp \/ RepresentPostponed
  \/ ExecuteSends \/ ExecuteSaves
  \/ OwnerApproves \/ OwnerDestroys \/ ProtectorMined
-----------------------------------------------------------------------------
(***************************************************************************)
(* Properties.                                                             *)
(***************************************************************************)
\* A token the site shows as confirmed is one the contract on the chain will
\* move, although TokensToSave confirms every row there is and not the
\* tokens of its transaction: except for a row that was made while a
\* confirmation was out.
ConfirmedIsSaved == With("confirmed") \subseteq saved \cup late

\* A protector that was shown as executed or destroyed neither waits for
\* approvals nor is ACTIVE again, by which the checker would execute it again,
\* whatever the checker, the views and late events write in its row and
\* through whatever states, until another deployment of it is told.  But for
\* a request to skip the approvals that had read the row before it was over:
\* saving what it read makes the protector ACTIVE.
Revived == ended' /\ state' # state /\ state' \in {"WAITING_FOR_APPROVE", "ACTIVE"}

SkipsLate == skipping /\ ~skipping'

OverIsNotRevived == [][Revived => SkipsLate]_<<rowVars, protectorVars>>
=============================================================================
