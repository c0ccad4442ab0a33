---------------------------- MODULE IcoPipeline ----------------------------
(***************************************************************************)
(* The deployment of one crowdsale (lastwill/contracts/submodels/ico.py).  *)
(*                                                                         *)
(* It takes up to four transactions, each sent by the handler of a message *)
(* that reports the one before: 'launch' sends the token, its 'deployed'   *)
(* sends the crowdsale, whose 'deployed' sends transferOwnership, whose    *)
(* 'ownershipTransferred' sends init, whose 'initialized' makes the        *)
(* contract ACTIVE.  A crowdsale that reuses a token deployed earlier      *)
(* starts with the second; then it waits for the owner of the token to     *)
(* send the third.  Two EthContract rows remember two hashes and two       *)
(* addresses for all of this, so that a repeated message may overwrite     *)
(* what an earlier one is still waiting for.                               *)
(*                                                                         *)
(* The receiver, the broker and the scanner are those of DeployQueue; mail *)
(* is refused here only where it turns an ACTIVE contract POSTPONED.       *)
(***************************************************************************)
EXTENDS Naturals, Sequences, DeployLock

CONSTANTS
  Ico,         \* the crowdsale; the other contracts share its address
  OldToken,    \* the token that a crowdsale with reused_token sells
  Deployers,   \* web requests to the deploy view
  MaxTxs,      \* bound on the transactions sent
  MaxTroubles  \* bound on crashes, database errors and repeated requests

ASSUME IcoIsAContract == Ico \in Contracts
ASSUME BoundsAreNat == MaxTxs \in Nat /\ MaxTroubles \in Nat
ASSUME OldTokenIsNoTransaction == OldToken \notin 0..MaxTxs

None == 0                 \* a null address or tx_hash
Txs  == 1..MaxTxs         \* a transaction, and the contract it creates

IcoStates   == {"CREATED", "WAITING_FOR_DEPLOYMENT", "WAITING_ACTIVATION",
                "ACTIVE", "ENDED", "POSTPONED"}
TokenStates == {"ACTIVE", "UNDER_CROWDSALE", "ENDED"}
Rows        == {"token", "crowdsale"}
Kinds       == {"token", "crowdsale", "transfer", "init"}

Launch                    == [type |-> "launch"]
Deployed(r, t, ok)        == [type |-> "deployed", row |-> r, address |-> t,
                              success |-> ok]
OwnershipTransferred(tok) == [type |-> "ownershipTransferred", token |-> tok]
Initialized               == [type |-> "initialized"]
Finalized                 == [type |-> "finalized"]
TxFailed(t)               == [type |-> "transactionCompleted", hash |-> t]

Messages ==
  {Launch, Initialized, Finalized}
    \cup [type: {"deployed"}, row: Rows, address: Txs, success: BOOLEAN]
    \cup [type: {"ownershipTransferred"}, token: {"own", "other"}]
    \cup [type: {"transactionCompleted"}, hash: Txs]

VARIABLES
  state,       \* Contract.state of the crowdsale
  tokenState,  \* Contract.state of the contract that made the old token
  details,     \* reused_token and continue_minting, fixed when it is drafted
  row,         \* eth_contract_token and eth_contract_crowdsale
  lockedBy,    \* DeployAddress.locked_by
  ready,       \* messages the receiver will handle, in this order
  unacked,     \* messages whose handler raised, neither acked nor nacked
  handling,    \* the message in hand and the transaction sent for it
  chain,       \* the transactions of this crowdsale
  reported,    \* those whose outcome the scanner has published
  events,      \* what else happened on the network to the crowdsale
  request,     \* the statement each web request has come to
  troubles     \* crashes, database errors and repeated requests so far

rows    == <<tokenState, details, row>>
queue   == <<ready, unacked>>
network == <<chain, reported, events>>
vars    == <<state, rows, lockedBy, queue, handling, network, request, troubles>>

Idle == [message |-> Finalized, tx |-> None, busy |-> FALSE]

Calls == [kind: Kinds, token: Txs \cup {None, OldToken},
          crowdsale: Txs \cup {None}, status: {"pending", "mined", "failed"}]

TypeOK ==
  /\ state \in IcoStates
  /\ tokenState \in TokenStates
  /\ details \in [reused_token: BOOLEAN, continue_minting: BOOLEAN]
  /\ row \in [Rows -> [address: Txs \cup {None, OldToken},
                       tx_hash: Txs \cup {None}]]
  /\ row["crowdsale"].address # OldToken
  /\ lockedBy \in LockValues
  /\ ready \in Seq(Messages)
  /\ unacked \in Seq(Messages)
  /\ handling \in [message: Messages, tx: Txs \cup {None}, busy: BOOLEAN]
  /\ chain \in Seq(Calls)
  /\ Len(chain) <= MaxTxs
  /\ reported \subseteq Txs
  /\ events \subseteq {"stray", "finalized"}
  /\ request \in [Deployers -> {"new", "save", "launch", "done"}]
  /\ troubles \in 0..MaxTroubles

NoRow == [address |-> None, tx_hash |-> None]

Init ==
  /\ state = "CREATED"
  /\ tokenState = "ACTIVE"
  /\ details \in [reused_token: BOOLEAN, continue_minting: BOOLEAN]
  /\ row = [r \in Rows |->
              IF r = "token" /\ details.reused_token
                THEN [address |-> OldToken, tx_hash |-> None]
                ELSE NoRow]
  /\ lockedBy = NoOne
  /\ ready = << >>
  /\ unacked = << >>
  /\ handling = Idle
  /\ chain = << >>
  /\ reported = {}
  /\ events = {}
  /\ request = [q \in Deployers |-> "new"]
  /\ troubles = 0
-----------------------------------------------------------------------------
(***************************************************************************)
(* The deploy view, which DeployQueue models with its payment.             *)
(***************************************************************************)
Step(q, from, to) ==
  /\ request[q] = from
  /\ request' = [request EXCEPT ![q] = to]

DeployRead(q) ==
  /\ state = "CREATED"
  /\ Step(q, "new", "save")
  /\ IF \A p \in Deployers : request[p] = "new"
       THEN UNCHANGED troubles
       ELSE troubles < MaxTroubles /\ troubles' = troubles + 1
  /\ UNCHANGED <<state, rows, lockedBy, queue, handling, network>>

DeploySave(q) ==
  /\ Step(q, "save", "launch")
  /\ state' = "WAITING_FOR_DEPLOYMENT"
  /\ UNCHANGED <<rows, lockedBy, queue, handling, network, troubles>>

DeployLaunch(q) ==
  /\ Step(q, "launch", "done")
  /\ ready' = Append(ready, Launch)
  /\ UNCHANGED <<state, rows, lockedBy, unacked, handling, network, troubles>>
-----------------------------------------------------------------------------
(***************************************************************************)
(* The receiver.  callback acks when the handler returned or raised TxFail *)
(* or AlreadyPostponed, and leaves the message alone on another exception. *)
(***************************************************************************)
Receiving(type) ==
  /\ ~handling.busy
  /\ ready # << >>
  /\ Head(ready).type = type

Ack         == ready' = Tail(ready) /\ UNCHANGED unacked
LeaveUnacked == ready' = Tail(ready) /\ unacked' = Append(unacked, Head(ready))

\* The handler goes on to send a transaction.
Begin ==
  /\ handling' = [message |-> Head(ready), tx |-> None, busy |-> TRUE]
  /\ ready' = Tail(ready)
  /\ UNCHANGED unacked

\* The transaction a message's handler sends, and the row that gets its hash.
KindSent(m) ==
  CASE m.type = "launch" -> IF details.reused_token THEN "crowdsale" ELSE "token"
    [] m.type = "deployed" -> IF m.row = "token" THEN "crowdsale" ELSE "transfer"
    [] OTHER -> "init"

RowOfKind(kind) == IF kind \in {"token", "transfer"} THEN "token" ELSE "crowdsale"

\* What each transaction is made from: addresses as the rows have them.
Call(kind) ==
  [kind |-> kind,
   token |-> IF kind \in {"crowdsale", "transfer"}
               THEN row["token"].address ELSE None,
   crowdsale |-> IF kind \in {"transfer", "init"}
                   THEN row["crowdsale"].address ELSE None,
   status |-> "pending"]

\* @postponable on entry, in deploy, msg_deployed, ownershipTransferred and
\* initialized: the contract is POSTPONED already.
MessagePostponed ==
  /\ \E type \in {"launch", "deployed", "ownershipTransferred", "initialized"} :
       Receiving(type)
  /\ state = "POSTPONED"
  /\ lockedBy' = TakeOffFor(lockedBy, Ico)
  /\ Ack
  /\ UNCHANGED <<state, rows, handling, network, request, troubles>>

(***************************************************************************)
(* 'launch': deploy().                                                     *)
(***************************************************************************)
LaunchIgnored ==
  /\ Receiving("launch")
  /\ state \notin {"CREATED", "WAITING_FOR_DEPLOYMENT", "POSTPONED"}
  /\ lockedBy' = TakeOff
  /\ Ack
  /\ UNCHANGED <<state, rows, handling, network, request, troubles>>

LaunchAccepted ==
  /\ Receiving("launch")
  /\ state \in {"CREATED", "WAITING_FOR_DEPLOYMENT"}
  /\ lockedBy' = Blocking(lockedBy, Ico)
  /\ Begin
  /\ UNCHANGED <<state, rows, network, request, troubles>>

(***************************************************************************)
(* 'deployed': receiver.deployed and msg_deployed().                       *)
(***************************************************************************)
\* Seeded bug: msg_deployed loses its @check_transaction.
NeverRejected(m) == FALSE

\* check_transaction raises TxFail.
Rejected(m) == ~m.success

\* 'ignored because already active'.
DeployedIgnored ==
  /\ Receiving("deployed")
  /\ state = "ACTIVE"
  /\ Ack
  /\ UNCHANGED <<state, rows, lockedBy, handling, network, request, troubles>>

DeployedRejected ==
  /\ Receiving("deployed")
  /\ state \notin {"ACTIVE", "POSTPONED"}
  /\ Rejected(Head(ready))
  /\ state' = "POSTPONED"
  /\ lockedBy' = TakeOffFor(lockedBy, Ico)
  /\ Ack
  /\ UNCHANGED <<rows, handling, network, request, troubles>>

\* The contract waits for no deployment any more.
DeployedLate ==
  /\ Receiving("deployed")
  /\ state \in {"CREATED", "WAITING_ACTIVATION", "ENDED"}
  /\ ~Rejected(Head(ready))
  /\ lockedBy' = TakeOff
  /\ Ack
  /\ UNCHANGED <<state, rows, handling, network, request, troubles>>

\* The owner of the old token has to act next.
DeployedReused ==
  /\ Receiving("deployed")
  /\ state = "WAITING_FOR_DEPLOYMENT"
  /\ ~Rejected(Head(ready))
  /\ details.reused_token
  /\ state' = "WAITING_ACTIVATION"
  /\ row' = [row EXCEPT !["crowdsale"].address = Head(ready).address]
  /\ lockedBy' = TakeOff
  /\ Ack
  /\ UNCHANGED <<tokenState, details, handling, network, request, troubles>>

\* The token or the crowdsale is there: go on to the next transaction.
DeployedAccepted ==
  /\ Receiving("deployed")
  /\ state = "WAITING_FOR_DEPLOYMENT"
  /\ ~Rejected(Head(ready))
  /\ ~details.reused_token
  /\ row' = [row EXCEPT ![Head(ready).row].address = Head(ready).address]
  /\ lockedBy' = Blocking(lockedBy, Ico)
  /\ Begin
  /\ UNCHANGED <<state, tokenState, details, network, request, troubles>>

(***************************************************************************)
(* 'ownershipTransferred'.                                                 *)
(***************************************************************************)
TransferLate ==
  /\ Receiving("ownershipTransferred")
  /\ state \in {"ACTIVE", "ENDED"}
  /\ lockedBy' = TakeOff
  /\ Ack
  /\ UNCHANGED <<state, rows, handling, network, request, troubles>>

\* Seeded bug: any token will do.
AnyToken(m) == TRUE

\* message['contractId'] is the id of eth_contract_token.
OwnToken(m) == m.token = "own"

\* Some other token was given to the crowdsale.  Only while it waits for
\* deployment is the lock, which @blocking has taken, given back.
TransferIgnored ==
  /\ Receiving("ownershipTransferred")
  /\ state \notin {"ACTIVE", "ENDED", "POSTPONED"}
  /\ ~OwnToken(Head(ready))
  /\ lockedBy' = IF state = "WAITING_FOR_DEPLOYMENT"
                   THEN TakeOff ELSE Blocking(lockedBy, Ico)
  /\ Ack
  /\ UNCHANGED <<state, rows, handling, network, request, troubles>>

TransferAccepted ==
  /\ Receiving("ownershipTransferred")
  /\ state \notin {"ACTIVE", "ENDED", "POSTPONED"}
  /\ OwnToken(Head(ready))
  /\ state' = IF state = "WAITING_ACTIVATION"
                THEN "WAITING_FOR_DEPLOYMENT" ELSE state
  /\ lockedBy' = Blocking(lockedBy, Ico)
  /\ Begin
  /\ UNCHANGED <<rows, network, request, troubles>>

(***************************************************************************)
(* 'initialized'.                                                          *)
(***************************************************************************)
AwaitsInit == state = "WAITING_FOR_DEPLOYMENT"

InitializedIgnored ==
  /\ Receiving("initialized")
  /\ ~AwaitsInit /\ state # "POSTPONED"
  /\ Ack
  /\ UNCHANGED <<state, rows, lockedBy, handling, network, request, troubles>>

\* The mail to the user comes after the rows are saved: its failure postpones
\* the contract that has just become ACTIVE.
InitializedAccepted ==
  /\ Receiving("initialized")
  /\ AwaitsInit
  /\ lockedBy' = TakeOff
  /\ tokenState' = IF details.reused_token THEN "UNDER_CROWDSALE" ELSE tokenState
  /\ \/ state' = "ACTIVE" /\ Ack
     \/ state' = "POSTPONED" /\ LeaveUnacked
  /\ UNCHANGED <<details, row, handling, network, request, troubles>>

(***************************************************************************)
(* 'finalized', whatever the state.                                        *)
(***************************************************************************)
IcoFinalized ==
  /\ Receiving("finalized")
  /\ state' = "ENDED"
  /\ tokenState' = IF details.reused_token /\ ~details.continue_minting
                     THEN "ENDED" ELSE tokenState
  /\ Ack
  /\ UNCHANGED <<details, row, lockedBy, handling, network, request, troubles>>

(***************************************************************************)
(* 'transactionCompleted' of a failed transaction: the row is found by its *)
(* tx_hash, and tx_failed() asks nothing of the state.                     *)
(***************************************************************************)
RowsOf(t) == {r \in Rows : row[r].tx_hash = t}

TransactionFailed ==
  /\ Receiving("transactionCompleted")
  /\ RowsOf(Head(ready).hash) # {}
  /\ state' = "POSTPONED"
  /\ lockedBy' = TakeOffFor(lockedBy, Ico)
  /\ Ack
  /\ UNCHANGED <<rows, handling, network, request, troubles>>

TransactionUnknown ==
  /\ Receiving("transactionCompleted")
  /\ RowsOf(Head(ready).hash) = {}
  /\ Ack
  /\ UNCHANGED <<state, rows, lockedBy, handling, network, request, troubles>>
-----------------------------------------------------------------------------
(***************************************************************************)
(* The rest of a handler that sends a transaction.                         *)
(***************************************************************************)
\* eth_sendRawTransaction.
SendTransaction ==
  /\ handling.busy /\ handling.tx = None
  /\ Len(chain) < MaxTxs
  /\ chain' = Append(chain, Call(KindSent(handling.message)))
  /\ handling' = [handling EXCEPT !.tx = Len(chain) + 1]
  /\ UNCHANGED <<state, rows, lockedBy, queue, reported, events, request, troubles>>

\* Seeded bug: eth_contract.save() is missing.
RecordUnsaved ==
  /\ handling.busy /\ handling.tx # None
  /\ state' = IF KindSent(handling.message) \in {"token", "crowdsale"}
                THEN "WAITING_FOR_DEPLOYMENT" ELSE state
  /\ handling' = Idle
  /\ UNCHANGED <<rows, lockedBy, queue, network, request, troubles>>

\* The hash is saved; deploy() also saves the state; the message is acked.
RecordTransaction ==
  LET kind == KindSent(handling.message)
  IN  /\ handling.busy /\ handling.tx # None
      /\ row' = [row EXCEPT ![RowOfKind(kind)].tx_hash = handling.tx]
      /\ state' = IF kind \in {"token", "crowdsale"}
                    THEN "WAITING_FOR_DEPLOYMENT" ELSE state
      /\ handling' = Idle
      /\ UNCHANGED <<tokenState, details, lockedBy, queue, network, request,
                     troubles>>

\* Compilation, node, signer or database fail, before or after the
\* transaction is out: @postponable, and no ack.
HandlerRaises ==
  /\ handling.busy
  /\ state' = "POSTPONED"
  /\ lockedBy' = TakeOffFor(lockedBy, Ico)
  /\ unacked' = Append(unacked, handling.message)
  /\ handling' = Idle
  /\ UNCHANGED <<rows, ready, network, request, troubles>>

\* The database refuses the UPDATE of @blocking: NeedRequeue.  The messages
\* behind it are handled first.
MessageRequeued ==
  /\ \/ Receiving("launch")
     \/ Receiving("ownershipTransferred")
     \/ Receiving("deployed") /\ state # "ACTIVE"
  /\ troubles < MaxTroubles
  /\ troubles' = troubles + 1
  /\ ready' = Append(Tail(ready), Head(ready))
  /\ UNCHANGED <<state, rows, lockedBy, unacked, handling, network, request>>

ReceiverRestart ==
  /\ troubles < MaxTroubles
  /\ troubles' = troubles + 1
  /\ handling.busy \/ unacked # << >>
  /\ ready' = (IF handling.busy THEN Append(unacked, handling.message)
                                ELSE unacked) \o ready
  /\ unacked' = << >>
  /\ handling' = Idle
  /\ UNCHANGED <<state, rows, lockedBy, network, request>>

(***************************************************************************)
(* Other contracts of the network use the same address: they lock it, and  *)
(* their reports release it for everybody.                                 *)
(***************************************************************************)
OthersUseAddress ==
  /\ lockedBy' \in {Blocking(lockedBy, c) : c \in Contracts \ {Ico}} \cup {TakeOff}
  /\ UNCHANGED <<state, rows, queue, handling, network, request, troubles>>
-----------------------------------------------------------------------------
(***************************************************************************)
(* The network and its scanner (outside this repository).  The platform    *)
(* can give a token away once, a crowdsale is initialized once, and init   *)
(* of a crowdsale that does not own its token may succeed or fail.         *)
(***************************************************************************)
Mined(kind) == {t \in 1..Len(chain) : chain[t].kind = kind
                                        /\ chain[t].status = "mined"}

Owns(c, token) ==
  \E t \in Mined("transfer") : chain[t].crowdsale = c /\ chain[t].token = token

IsInitialized(c) == \E t \in Mined("init") : chain[t].crowdsale = c

CanSucceed(t) ==
  /\ chain[t].kind = "transfer" =>
       \A u \in Mined("transfer") : chain[u].token # chain[t].token
  /\ chain[t].kind = "init" => ~IsInitialized(chain[t].crowdsale)

Mine(t) ==
  /\ t \in 1..Len(chain)
  /\ chain[t].status = "pending"
  /\ \/ CanSucceed(t) /\ chain' = [chain EXCEPT ![t].status = "mined"]
     \/ chain' = [chain EXCEPT ![t].status = "failed"]
  /\ UNCHANGED <<state, rows, lockedBy, queue, handling, reported, events,
                 request, troubles>>

\* What the scanner publishes of a transaction: deployments and failures are
\* found by a row's tx_hash, events by the rows' addresses.
Reports(t) ==
  LET call == chain[t]
  IN  IF call.status = "pending" THEN {}
      ELSE IF call.kind \in {"token", "crowdsale"}
        THEN {Deployed(r, t, call.status = "mined") : r \in RowsOf(t)}
               \cup IF call.status = "failed" /\ RowsOf(t) # {}
                      THEN {TxFailed(t)} ELSE {}
      ELSE IF call.status = "failed"
        THEN IF RowsOf(t) # {} THEN {TxFailed(t)} ELSE {}
      ELSE IF row["crowdsale"].address # call.crowdsale THEN {}
      ELSE IF call.kind = "init" THEN {Initialized}
      ELSE IF row["token"].address = call.token
        THEN {OwnershipTransferred("own")} ELSE {}

Report(t) ==
  /\ t \in 1..Len(chain)
  /\ t \notin reported
  /\ reported' = reported \cup {t}
  /\ \E m \in Reports(t) : ready' = Append(ready, m)
  /\ UNCHANGED <<state, rows, lockedBy, unacked, handling, chain, events,
                 request, troubles>>

\* The owner of the old token gives it to the crowdsale.
OwnerTransfers ==
  /\ details.reused_token
  /\ row["crowdsale"].address # None
  /\ \A t \in 1..Len(chain) : chain[t].kind # "transfer"
  /\ Len(chain) < MaxTxs
  /\ chain' = Append(chain, [Call("transfer") EXCEPT !.status = "mined"])
  /\ UNCHANGED <<state, rows, lockedBy, queue, handling, reported, events,
                 request, troubles>>

\* Somebody gives another token to the crowdsale.
StrayTransfer ==
  /\ row["crowdsale"].address # None
  /\ "stray" \notin events
  /\ events' = events \cup {"stray"}
  /\ ready' = Append(ready, OwnershipTransferred("other"))
  /\ UNCHANGED <<state, rows, lockedBy, unacked, handling, chain, reported,
                 request, troubles>>

\* The sale is over.  The scanner reads the network in order.
Finalize ==
  /\ \E t \in Mined("init") \cap reported :
       chain[t].crowdsale = row["crowdsale"].address
  /\ "finalized" \notin events
  /\ events' = events \cup {"finalized"}
  /\ ready' = Append(ready, Finalized)
  /\ UNCHANGED <<state, rows, lockedBy, unacked, handling, chain, reported,
                 request, troubles>>
-----------------------------------------------------------------------------
WebStep ==
  \E q \in Deployers : DeployRead(q) \/ DeploySave(q) \/ DeployLaunch(q)

HandleMessage ==
  \/ MessagePostponed
  \/ LaunchIgnored
  \/ LaunchAccepted
  \/ DeployedIgnored
  \/ DeployedRejected
  \/ DeployedLate
  \/ DeployedReused
  \/ DeployedAccepted
  \/ TransferLate
  \/ TransferIgnored
  \/ TransferAccepted
  \/ InitializedIgnored
  \/ InitializedAccepted
  \/ IcoFinalized
  \/ TransactionFailed
  \/ TransactionUnknown
  \/ SendTransaction
  \/ RecordTransaction
  \/ HandlerRaises

Fault == MessageRequeued \/ ReceiverRestart

NetworkStep ==
  \/ \E t \in Txs : Mine(t) \/ Report(t)
  \/ OwnerTransfers
  \/ StrayTransfer
  \/ Finalize

Next == WebStep \/ HandleMessage \/ Fault \/ OthersUseAddress \/ NetworkStep

Spec == Init /\ [][Next]_vars

(***************************************************************************)
(* The receiver's thread keeps consuming, every transaction is mined or    *)
(* fails, and the scanner reports it.  Nothing is assumed of users.        *)
(***************************************************************************)
Fairness ==
  /\ WF_vars(HandleMessage)
  /\ \A t \in Txs : WF_vars(Mine(t)) /\ WF_vars(Report(t))

FairSpec == Spec /\ Fairness
-----------------------------------------------------------------------------
Sent(kind) == {t \in 1..Len(chain) : chain[t].kind = kind}

\* No deployment was repeated: each contract was sent once.
SentOnce ==
  \A kind \in {"token", "crowdsale"} : \A t, u \in Sent(kind) : t = u

\* The tokens the crowdsale may sell.
Tokens == IF details.reused_token THEN {OldToken} ELSE Mined("token")

(***************************************************************************)
(* What users are sent to buy from works: the crowdsale shown as ACTIVE    *)
(* exists, sells the token shown with it, owns that token and is           *)
(* initialized, whatever was delivered twice or in another order, as long  *)
(* as neither contract was sent twice.                                     *)
(***************************************************************************)
ActiveIsWired ==
  state = "ACTIVE" /\ SentOnce =>
    LET crowdsale == row["crowdsale"].address
        token     == row["token"].address
    IN  /\ crowdsale \in Mined("crowdsale")
        /\ chain[crowdsale].token = token
        /\ Owns(crowdsale, token)
        /\ IsInitialized(crowdsale)

(***************************************************************************)
(* A transaction is only ever made from contracts that exist: no crowdsale *)
(* for a token that failed or was not reported, no call to such a          *)
(* crowdsale.                                                              *)
(***************************************************************************)
CallsReachContracts ==
  \A t \in 1..Len(chain) :
    /\ chain[t].kind \in {"crowdsale", "transfer"} =>
         chain[t].token \in Tokens
    /\ chain[t].kind \in {"transfer", "init"} =>
         chain[t].crowdsale \in Mined("crowdsale")

(***************************************************************************)
(* The invariant behind the two properties above: each row, message and    *)
(* transaction vouches for the step of the pipeline before it.             *)
(***************************************************************************)
\* The rows name contracts that exist, and hashes of their own.
RowsReal ==
  /\ details.reused_token => row["token"].address = OldToken /\ Sent("token") = {}
  /\ row["token"].address \in Tokens \cup {None}
  /\ row["crowdsale"].address \in Mined("crowdsale") \cup {None}
  /\ Sent("crowdsale") # {} => row["token"].address # None
  /\ Sent("transfer") # {} \/ Sent("init") # {} => row["crowdsale"].address # None
  /\ \A r \in Rows : row[r].tx_hash # None =>
       /\ row[r].tx_hash \in 1..Len(chain)
       /\ RowOfKind(chain[row[r].tx_hash].kind) = r

\* No step of the pipeline is taken or claimed without the one before.
InOrder ==
  /\ Sent("init") # {} => Mined("transfer") # {}
  /\ state = "ACTIVE" => Mined("init") # {}

Truthful(m) ==
  /\ m.type = "deployed" /\ m.success => m.address \in Mined(m.row)
  /\ m.type = "ownershipTransferred" /\ m.token = "own" => Mined("transfer") # {}
  /\ m.type = "initialized" => Mined("init") # {}

TruthfulMessages == {m \in Messages : Truthful(m)}

MessagesTrue ==
  /\ ready \in Seq(TruthfulMessages)
  /\ unacked \in Seq(TruthfulMessages)

\* A handler has what it needs to make its call.
InHand ==
  LET m == handling.message
  IN  handling.busy =>
        /\ Truthful(m)
        /\ m.type \in {"launch", "deployed", "ownershipTransferred"}
        /\ m.type = "deployed" => /\ m.success /\ ~details.reused_token
                                  /\ row[m.row].address # None
        /\ m.type = "ownershipTransferred" => m.token = "own"
        /\ handling.tx # None => /\ handling.tx \in 1..Len(chain)
                                 /\ chain[handling.tx].kind = KindSent(m)

Vouched == RowsReal /\ CallsReachContracts /\ InOrder /\ MessagesTrue /\ InHand

(***************************************************************************)
(* The lock the crowdsale holds between its transactions is waited on by   *)
(* something that will release it or hand it on.  Excepted is the one leak *)
(* of the code: the message of a stray transfer to a crowdsale in          *)
(* WAITING_ACTIVATION is ignored with the lock it has just taken.  Of two  *)
(* crowdsales sent for one contract the older one's sale may end the       *)
(* pipeline while the younger holds the lock, and another deploy request   *)
(* may then open it again, so that is excepted too.                        *)
(***************************************************************************)
Releasing == {"launch", "deployed", "ownershipTransferred", "initialized"}

Awaited ==
  \/ handling.busy
  \/ \E i \in 1..Len(ready) :
       \/ ready[i].type \in Releasing
       \/ ready[i].type = "transactionCompleted" /\ RowsOf(ready[i].hash) # {}
  \/ \E t \in 1..Len(chain) :
       t \notin reported /\ (chain[t].status = "pending" \/ Reports(t) # {})

LockIsAwaited ==
  lockedBy = Ico /\ (SentOnce \/ "finalized" \notin events) =>
    Awaited \/ (details.reused_token /\ "stray" \in events)

(***************************************************************************)
(* A launch is resolved: the crowdsale becomes ACTIVE, waits for the owner *)
(* of its token, or is POSTPONED for a person to look at; it never hangs   *)
(* between two of its transactions.                                        *)
(***************************************************************************)
InQueue(m) == \E i \in 1..Len(ready) : ready[i] = m

Resolved == state \in {"WAITING_ACTIVATION", "ACTIVE", "ENDED", "POSTPONED"}

PipelineMoves == InQueue(Launch) ~> Resolved \/ ~SentOnce
=============================================================================
