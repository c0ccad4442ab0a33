# A verification development of mywill_backend

The repository is the back end of a contract factory: a user drafts a contract
(a token, a crowdsale, a last will, an airdrop, ...) on a web site, pays, and
the service deploys it on a chain and looks after it.  This directory holds
TLA+ models of it, the TLC configurations that check them on small instances,
and proofs that TLAPS checks for every instance.

## The system

| component | state it keeps | operations | talks to |
|---|---|---|---|
| web application (`lastwill/contracts/api.py`, `serializers.py`) | `Contract` rows and their details | draft, edit, hide, deploy, confirm, cancel | the database; publishes `launch`, `cancel`, `confirm_alive`, ... on RabbitMQ |
| receiver (`receiver.py`) | one thread per network; its unacknowledged messages | one handler per message type | consumes the network's queue, acks by hand |
| deployment (`contracts/submodels/common.py`, `decorators.py`) | `Contract.state`, `EthContract` rows, `DeployAddress.locked_by` | `deploy`, `compile`, `msg_deployed`, `tx_failed`, `killed` under `@blocking`, `@postponable`, `@check_transaction` | a node (JSON-RPC), a signer, the mail server |
| scanner (another repository) | what it has published | publishes `deployed`, `transactionCompleted`, `killed`, `payment`, ... | the chains, RabbitMQ |
| payments (`payments/api.py`) | `UserSiteBalance`, `InternalPayment`, `FreezeBalance` | `create_payment`, `positive_payment`, `negative_payment`, `freeze_payments` | called by the views and by the receiver |
| automatic deployment (`autodeploing`, `deploy_swaps`, `deploy_protector`) | - | launches the contracts a prepaid balance covers | called by the receiver and by two confirm views, at the same time |
| freezing daemon (`freeze_15_percent.py`) | `FreezeBalance` | sends the shares that were put aside to cold accounts | the database, `cleos`, the nodes |
| promo codes (`promo/api.py`, `contracts/api_eth.py`) | `use_count`, `User2Promo` | discount, count a use | the deploy view, the API for programs |
| API for programs (`contracts/api_eth.py`, `api_eos.py`) | `Contract.invisible` | draft, edit, deploy, hide | the payments, the receiver |
| ICO and tokens (`submodels/ico.py`) | two contracts, four transactions | deploy, `ownershipTransferred`, `initialized`, `finalized` | the deployment |
| last will, lost key, deferred (`submodels/lastwill.py`, ...) | next check, balance, alive time | check, trigger, alive, cancel, refill | the receiver, `checker.py` |
| airdrop (`submodels/airdrop.py`) | the state of each address | batches, `airdrop` messages | the receiver |
| token protector (`submodels/token_protector.py`, `checker.py`) | approvals, reminder flags, nonce | approve, confirm, remind, execute | the receiver, the checker |
| order book and limiter (`swaps_common/orderbook`) | an order's state, twice | create, edit, close, on-chain messages | the receiver, celery |
| Panama bridge (`panama_bridge`) | swap records | create, poll | bridge back ends, celery |
| accounts (`profile`) | users, profiles, balances per site | register, log in | every other part |
| other chains (`eos.py`, `tron.py`, `neo.py`, `waves.py`, `near`, `solana.py`) | variants of the deployment | one or several transactions each | nodes, command line clients, the scanner |

What makes it hard.  Nothing is one transaction: a view reads a row, does
several things, and writes the whole row back.  A receiver runs next to the
views and next to the other networks' receivers.  Messages are acked by hand,
and one whose handler raised stays with the broker until the receiver is
started again, so that every handler may run twice, long after.  A chain
answers later, through the scanner, in its own order.  The lock of a
deployment address outlives the process that took it.

What makes it right: no launch that was not billed (that the bill is paid, the
code does not ensure); no contract shown as active
that is not on the chain; no second deployment of a finished contract; the
address always comes back; every launch ends in a state a person can see; a
deposit is recorded once and never forgotten; a balance is never overdrawn.

## Modules

| module | models |
|---|---|
| `DeployLock` | the operations of `decorators.py` on `locked_by`, as functions from its old value to its new one |
| `DeployQueue` (extends `DeployLock`) | the deployment of one network's contracts: deploy view, edits, receiver, broker, chain and scanner |
| `DeploymentPromise` | the abstract specification: charges and what was waived, orders, creations, activations, with nothing of how |
| `DeployQueueProofs`, `DeployPromiseProofs` | theorems about `DeployQueue` |
| `Payments` | one user's balance on a prepaid site: deposits, the ledger, automatic deployment |
| `PaymentsProofs` | theorems about `Payments` |
| `IcoPipeline` (extends `DeployLock`) | the deployment of one crowdsale: up to four transactions, one after another |
| `IcoPipelineProofs` | theorems about `IcoPipeline` |
| `OrderBook` | one order of the order book, the requests, messages and limiter tasks that save its row |
| `OrderBookProofs` | theorems about `OrderBook` |
| `ContractRow` (extends `DeployLock`) | what the long-lived contracts share: the row, the queue, the lock, the transactions |
| `Wills`, `TokenProtector`, `Airdrop`, `Pools` (extend `ContractRow`) | one contract of these kinds from its launch, or from ACTIVE, to its end |
| `ContractLife` | the composition of the four: a contract of any of their thirteen kinds |
| `RowProofs` | lemmas about the queue and the state of `ContractRow`, which both proofs below use |
| `ContractLifeProofs` | theorems about `ContractLife` |
| `ScannedChains`, `InlineChains` (extend `ContractRow`) | the deployment on EOS, TRON and of the NEO crowdsale; on NEO, Waves, Solana and NEAR |
| `Drafts`, `TokenApi` (extends `Drafts`) | a draft of any kind, from the site and from the API for programs |
| `PromoCodes`, `PanamaBridge`, `Accounts`, `FrozenShares` | one promo code, one bridged transfer, one account, the shares of payments that are put aside |
| `Platform` | the composition of the modules of the last three rows |
| `PlatformProofs` | theorems about `Platform` |
| `MCDeployQueue`, `MCPayments`, `MCIcoPipeline`, `MCOrderBook`, `MCContractLife`, `MCPlatform` | the instances TLC checks |

### DeployQueue

State and code: `state` is `Contract.state`, `eth` the details' reference to an
`EthContract` row, `ethContract` those rows, `lockedBy` the lock, `ready` and
`unacked` the queue (with everything prefetched: there is no prefetch limit)
and the messages left without an ack, `handling` the launch in hand, or the
contract whose mails are going out, `request`
the web requests and the statement each has come to, `chain` and `reported` the
transactions and what the scanner has published.  A row, a transaction and the
address it creates are all named by the compilation that made them, so a model
value never has to be matched with a string.  `charged`, `unpaid` and
`launches` are history: the view never looks at the balance, and for a contract
in `Poor` the UPDATE of `negative_payment` may match no row (`DeployCharge`), so
that nothing is taken and the contract is launched all the same.

One statement of the deploy view is one action (`DeployRead`, `DeployCharge`,
`DeploySave`, `DeployLaunch`), and the same of an edit (`EditRead`,
`EditSave`), because nothing spans them; `RequestDies` stops a request
anywhere.  A message is handled in one action, except two.  A launch is cut
where it matters: after `compile`, after `eth_sendRawTransaction` and after the
rows are saved (`LaunchCompile`, `SendTransaction`, `RecordTransaction`).  So
the crash, the exception and the report of a transaction that no row records
yet can all come between.  And `msg_deployed` is cut where it has saved ACTIVE
(`DeployedAccepted`) and the mails are still to be sent: they go out and the
message is acked (`DeployedMailed`), or one is refused and `postponable` saves
POSTPONED in a second commit (`DeployedNotMailed`); a web request's save or a
death of the receiver may come between.  The decorators are part of the action of
the function they wrap: what
`postponable` does is in `PostponedLock`, `AlreadyPostponed` and
`DeployRaises`.  `Ack`, `LeaveUnacked` and `Requeue` are callback's three ends.
Contracts compile in three ways, which the constants `Replacing` (the old row
is deleted), `Reusing` (the old row is kept) and neither (a new row, the old
one stays) stand for.

Left out: gas, nonces and bytecode; the retries of a node call, whose outcome
is success or exception; the `ARCHIVED` state, which no code sets.  Promo codes
are in `PromoCodes`, and the hiding and deleting of contracts in `Drafts` and
`TokenApi`.  External: `Mine`, `Report`, `Destroy`.

### Payments

A deposit is announced on its network's queue (`Announce`, possibly twice).
`receiver.payment` is cut at each statement that another process can come
between: the look-up by `tx_hash` (`PaymentRepeated`, `PaymentTaken`), the
balance (`PaymentCredited`), the `InternalPayment` row (`PaymentRecorded`).
Then `autodeploing` runs, in the receiver and in the confirm views alike: it
reads the balance, lists the waiting contracts, and for each reads the contract
(`OpenContract`), the balance (`CheckFunds`), charges (`Debit`; `DebitFails`
and `DebitAgain` are the second try with 95%), records, saves and publishes.
`NegativePayment` is `negative_payment` with its filtered UPDATE: it may match
no row, and says nothing.  `OnlyNewest` is the token protector, whose
`autodeploing` stops after one contract and whose confirmation does not save
the other contracts again.  `PaymentRaises`, `RequestDies` and
`ReceiverRestart` are the failures.  `interrupted` and `credited` are history:
how often a deposit was added, and how often its handling broke off just after.

Left out: the conversion of currencies and the amount of the freeze beyond its
being taken (`FrozenShares`), promo codes (`PromoCodes`), the testnet branch of `confirm_protector_info` (which
takes no payment).

### IcoPipeline

One contract of `submodels/ico.py`.  `row` holds the two `EthContract` rows of
its details, with the only two fields the handlers read, `address` and
`tx_hash`; `details` are `reused_token` and `continue_minting`; `tokenState` is
the state of the contract that made a reused token.  `chain` lists the
transactions that were sent, with the addresses they were made from, and a
transaction's number is also the address it creates.  The queue, the lock and
the message in hand are those of `DeployQueue`.

| code | actions |
|---|---|
| `deploy` view | `DeployRead`, `DeploySave`, `DeployLaunch` |
| `launch`: `deploy` | `LaunchIgnored`, `LaunchAccepted` |
| `deployed`: `Receiver.deployed`, `msg_deployed` | `DeployedIgnored`, `DeployedRejected`, `DeployedLate`, `DeployedReused`, `DeployedAccepted` |
| `ownershipTransferred` | `TransferLate`, `TransferIgnored`, `TransferAccepted` |
| `initialized` | `InitializedIgnored`, `InitializedAccepted` |
| `finalized` | `IcoFinalized` |
| `transactionCompleted`: `tx_failed` | `TransactionFailed`, `TransactionUnknown` |
| the rest of a handler that sends | `SendTransaction`, `RecordTransaction`, `HandlerRaises` |
| `postponable`, `blocking`, the broker | `MessagePostponed`, `MessageRequeued`, `ReceiverRestart` |

A handler that sends a transaction is cut after its guards, after
`eth_sendRawTransaction` and after the save, as in `DeployQueue`.
`KindSent`, `RowOfKind` and `Call` say which transaction a message leads to,
which row keeps its hash and which addresses it is made from.  That one hash
per row serves a deployment first and a call later is kept: `RowsOf` finds a
row by the hash it has now, for the scanner and for `transactionCompleted`.
External are `Mine`, `Report` with `Reports`, `OwnerTransfers` (the owner of a
reused token acts by himself), `StrayTransfer` (somebody gives the crowdsale a
token it does not sell) and `Finalize`.  `OthersUseAddress` is every other
contract of the network: it takes the address if it is free, and frees it
whoever holds it.

Left out: bonuses, dates, holders and the other parameters of the contracts'
source, `timesChanged` and the whitelist, the payment (it is in `DeployQueue`),
mails but the one of `initialized`, which turns a contract that is live
POSTPONED, and the verification mail that follows it, whose failure does the
same.  A token alone runs as in `DeployQueue`.

`SentOnce` says that neither contract was sent twice.  A redelivered or second
launch does send another token and another crowdsale, both of which report to
the same two rows; what then becomes ACTIVE may mix the two.  The properties
that name `SentOnce` are about the other behaviours: messages late, twice or
out of order, failed or repeated calls, crashes anywhere after the deployment.

### OrderBook

`order` is a row of `OrderBookSwaps`, `exists` whether it is there.  Whoever
changes it reads it first and saves all of it later, so each has a `copy`:
`writer` are the web requests and the receiver's thread, `task` the limiter's
celery tasks.  The beat starts a task every minute and a task may wait ten for
a receipt, twice, so that two are under way at once.

| code | actions |
|---|---|
| `edit_`, `get_swap_from_orderbook`, `delete_`, `cancel_swaps_v3`, the exchange API's requests | `RequestRead`, `RequestSave` |
| `admin_delete_swaps_v3` | `AdminDelete` |
| `depositOrder`, `refundOrder` | `MessageRead`, `MessageSave`, `MessageRaises` |
| `_set_base_amount_contributed` | `RefreshRead`, `RefreshSave` |
| `_get_profitability_order`, `_hide_order` | `Match`, `Hide` |
| `_confirm_orders` | `ConfirmRead`, `Check` with `NextCall` |
| `swap_token_on_uniswap` | `SwapSend`, `SwapDone` |
| `_complete_order`, `_set_done_status_order` | `DepositSend`, `DepositDone` |
| every early return and exception of a task, a restart of the worker | `TaskEnds` |

The wallet's nonce is the number of its mined transactions, so that a new one
replaces the pending one (`pending`) or is refused.  `mishap` is history: the
platform lost track of a swap, which is when an older copy is saved over the
flag, when a task ends while it waits, and when a task swaps that could not know
(`SwapUnseen`: the flag was set after it read the row, or another task's swap is
on its way).  A task that swaps although its own copy has the flag is none.
External are `UsersAct` (deposit, refund, or complete the order on the chain) and
`Mine`.

Left out: prices and limits (an order may pay or not at each question), the
public list and `is_displayed`, the approval of the token, the quote side's
amounts.  Time is not a variable: an edit sets `stop_date`, so a view may find
any order late; and the limiter never does, for its manager compares with the
time the worker was started.  The messages `orderCreated`, `finish`,
`finalized` and `cancelled` are left out because they change nothing: their
handlers pass a message to methods that take none, and raise.  The loop of
`set_swaps_expired` over contracts does too (`Contract.contract` does not exist,
`api.py:440`), so only the one over orders is modelled.

A row made by the exchange API starts as `ExchangeOrder`, in state 'ACTIVE',
which no query of the book spells, and without a pair of addresses; `detach`
is `delete_order_for_user` of that API.  A deposit or refund whose receiver dies before
its ack (`AckOrDie`) is handled again, and added again.

### ContractLife: ContractRow, Wills, TokenProtector, Airdrop, Pools

`ContractRow` is one contract's row after its draft: `kind`, `state`, the lock,
the queue (`ready`, `unacked`), the transactions sent for it (`chain`, with what
each call carries), the last hash the row keeps (`txHash`), what stands on the
chain (`onChain`), a coarse clock `now` and the `troubles` so far.  `Acknowledge`
is callback's end of a handler that did not raise: the message is acked, or the
process dies just before and the broker delivers it again.  `LeaveUnacked` is a
handler that raised.  A launch is one step with three outcomes (it is cut where it matters in
`DeployQueue`); the life that follows it is the subject here.

| module | code | actions |
|---|---|---|
| `Wills` | `msg_deployed` of each kind | `WillDeployed`, `WillDeployedCutOff`, `WillDeployedNotMailed` |
| | `check_all`, `check_one` of `checker.py` | `CheckerReads`, `CheckerExpires`, `CheckerAsks`, `CheckerPasses` |
| | the views `i_am_alive`, `cancel`, and a payment in bitcoin | `PressAlive`, `PressSaved`, `PressCancel`, `BitcoinArrives` |
| | `checked`, `triggered`, `killed` | `WillChecked`, `WillTriggered`, `WillTriggeredNotMailed`, `WillKilled` |
| | `check_contract`, `i_am_alive`, `cancel`, `make_payment` | `WillCheckContract`, `WillConfirmAlive`, `WillCancel`, `WillMakePayment` |
| | `contractPayment`, `fundsAdded`, `notified` | `WillContractPayment`, `WillFundsAdded`, `WillNotified` |
| `TokenProtector` | the views, `autodeploing`'s launch | `ConfirmInfo`, `DeployProtector`, `SkipReads`, `SkipSaves`, `ConfirmProtectorTokens` |
| | the serializer, which saves what it shows | `RepresentTimeIsUp`, `RepresentPostponed` |
| | `msg_deployed`, `approve`, `tokens_to_save`, ... | `ProtectorDeployed`, `TokenProtectorApprove`, `TokenProtectorTokensToSave`, `TokenProtectorTransactionInfo`, `SelfdestructionEvent` |
| | `execute_contract` in the checker | `ExecuteSends`, `ExecuteSaves` |
| `Airdrop` | `load_airdrop` | `LoadChecks`, `LoadDeletes`, `LoadCreates` |
| | `airdrop` | `AirdropMarks`, `AirdropFails`, `AirdropCompletes` |
| `Pools` | the pool's messages | `PoolFundsAdded`, `PoolTokenSent`, `PoolTimesChanged`, `PoolFinalized`, `PoolCancelled` |
| | the swap's | `SwapsDeposit`, `SwapsRefund`, `SwapsExpire` |

External: the mined calls (`WillMined`, `ProtectorMined`, `Mined`), the
customer's calls of an airdrop (`DropCalled`, `DropDecided`), the payments of a
pool (`Pays`, `PaysOut`, `Ends`, `ChangesTimes`), the owner of a protector
(`OwnerApproves`, `OwnerDestroys`), a deferred payment that pays by itself.

Airdrop rows are looked up by address, amount and state only, so those that agree
are counted and not named; a list may name an entry more than once.  Pool amounts are in units of one payment.  The
checker's row is the one it read at the start of its round: `CheckerExpires` and
`ExecuteSaves` write an old state back.  So does a request to skip the approvals,
which is cut between its read and its save.  The protector's other requests are
one step each.

Some history is kept so that the properties can name what the code does not
protect: `history.unscheduled` (the process died between the two saves of a
will's `msg_deployed`), `.overwritten` (the alive view saved the details it had
read over newer ones), `.recounted` (a payment message was handled twice);
`late` (a protected token named while a confirmation was out); `ended` (a
protector was DONE or CANCELLED since its last deployment was told); `excused` (an
airdrop message came again after a death or an exception, or a list was loaded while its
predecessor was being completed); `counted` and `checksummed` (a pool's message
was counted twice; the base address of a swap was typed with capitals).

### Platform: ScannedChains, InlineChains, Drafts, TokenApi, PromoCodes, PanamaBridge, Accounts, FrozenShares

`kind` says which of the parts is looked at; the others rest.  They write no
row of each other, so that their product would show nothing more.  What does
interact is in one module: requests, launch and compilation of one draft; all
logins of one customer.

*`ScannedChains`*: a thing on the chain has parts, each made by one transaction
that the handler of a message pushes (`Pushes`) and the scanner reports.  On EOS
and NEO the draft names the thing and the node refuses to make a part of it
twice (`NodeRefuses`); on TRON each launch makes another.  `Launches`,
`LaunchesOnly`, `EOSICODeploy`, `NeoICODeploy` are the `deploy` of the kinds;
`NewAccount`, `EOSAccountCreated`, `EOSAirdropDeployed`, `Initialized`,
`TronDeployed`, `TRONAirdropDeployed`, `TRONLostkeyDeployed`, `NeoDeployed`,
`NeoICOInitialized`, `Finalized`, `GameAssetsFinalized` the message handlers,
with `ScannedLaunchRaises`, `ScannedLaunchDies`, `SecondDies`, `SecondRefused`,
`CleosKilled` for their failures.

*`InlineChains`*: one handler sends all the transactions of a token and waits
for them.  `NeoTokenDeploy`, `WavesDeploy`, `SolanaDeploy` run to their end;
`NeoTokenBreaks`, `WavesBreaks`, `SolanaBreaks`, `SolanaAnew` stop after any step
of theirs or run again.  On NEAR the handler is the customer's request, and two
requests interleave (`NearNewAccount` to `NearIsCorrupted`).

*`Drafts`*: a form is abstracted to what `validate`, the price (`calc_cost`) and
the checks of time of its kind tell apart; `Serializer(f)` is the `validate` of
each kind's details serializer, `Price(f)` its price, `Timely` the
`predeploy_validate`.  `Create` runs in one transaction; an edit is `Reads`,
`KeepsRows` or `DeletesRows` and `AddsRows`, `SavesDetails`, `SavesContract`, and
may stop anywhere (`BreaksOff`).  What it saves sets the fields the form has a
value for and keeps the others (`Edited`); of the fields a form is abstracted to,
`validate` lets it leave out only options (`sent`).  The price is the form's by
itself.  The deploy view is `Pays` and `Marks`, and takes the price, or nothing
when the balance is too low (`Charges`);
`ChangeContractState` and `Destroy` are its views, `ShownTooLate` what
`to_representation` saves.  `Compiles`, `CompiledAnew` and `LaunchDropped` are the
receiver's, and `Compilation` says what each kind's `compile` takes from where.
`TokenApi` adds the requests of `api_eth.py` and `api_eos.py`.  The draft of a
NEAR token, which is Solana's but for its checks and is launched by a request of
its own (`InlineChains`), is left out.

*`PromoCodes`*: the look-up (`PromoOpens` with `check_and_apply_promocode`), the
price taken (`DeployPays`), `User2Promo` and `use_count` (`SavesUse`, `CountsUse`)
are steps of requests that overlap; `ApiUses` has the API's own rules.

*`PanamaBridge`*: rounds of the celery task read a row, ask (`check_swap_status`,
`AsksBinance`, `CountersChecked`, `ReceiptChecked`) and save all of it later
(`RoundSaves`).  The customer's requests are taken at their word: a POST
(`CreatePolygon`, and `CreatePanama` when Binance answers nothing) saves the
status and the second transaction it brings, a PATCH (`PartialUpdate`) any
status, second transaction and way, whatever the row is.  A PATCH that gives the
transfer another `transaction_id` is left out.

*`Accounts`*: a login looks for the user, creates it, and `init_profile` saves
the profile and a balance for each site, in the order of the code, one after
the other; each way of logging in completes a half-made profile, or does not.

*`FrozenShares`*: the row of `FreezeBalance` (`frozen`), to which
`freeze_payments` adds a share of every payment, and the daemon of
`freeze_15_percent.py`, which reads it (`CheckWakes`), and for each currency in
turn passes on (`NotEnough`) or sends, by cleos, a node or an HTTP client
(`Freezes`, `Refused`, `Unheard`), and saves the whole row it had read
(`SavesShares`, `SaveFails`).  A transfer takes minutes, so payments come
between; `FreezerDies` stops the daemon anywhere.  `put` and `sent` are history.
The thresholds are settings, which the repository does not hold: one number
stands for all, and for the 450 TRONISH a transfer always sends, which the
comment at the line gives as its threshold too.

Excuses of the properties: `claimed` (what the bridge's row says, or of which
way it is, only the customer said), `disturbed` (a TRON handler died after its first
save), `again` (a launch ran again), `mixed` (requests on one draft overlapped
or broke off), `overlapped` (launches with a code did), `halved` (`init_profile`
broke off in a login that nothing completes), `overwritten` (the daemon saved
its copy over a share that had come meanwhile), `unsaved` (a transfer went out
and its answer, or the row's save, was lost).

## Runs

| run | checks | bounds, and why they are enough |
|---|---|---|
| `DeployQueue` | `TypeOK`, `RecordsAgree`, `ActiveIsDeployed`, `NeverRedeployed`, `ActiveIsKept`, `KeepsPromise` | 2 contracts of different compile kinds, one white label; 2 deploy requests and an edit, so both contracts, or one twice, are launched while a stale save is pending; 3 compilations: two for one contract and one for the other; 1 crash or refused lock; mails may fail, and a balance may be too low for either contract. 702 873 states |
| `DeployQueueLive` | `LockIsAwaited`, `LaunchResolves`, `LockIsReleased` | fairness below; 2 compilations, 1 fault, mails sent, no white label, nobody poor (what was taken decides nothing). 186 094 states |
| `DeployQueueLock` | `LockedLaunchWaits`, violated | no fault is needed |
| `DeployQueueIgnored` | `IgnoredIsDeployed`, violated | one edit is needed |
| `Payments` | `TypeOK`, `NeverOverdrawn`, `RecordedOnce`, `CreditsExplained`, `NeverForgotten` | 2 deposits of 95% or 100% of the price, 3 announcements (both and a duplicate), 2 contracts, one receiver and one confirmation that overlap, 1 failure of any kind. About two million states up to the symmetry of contracts and deposits |
| `PaymentsTwice` | `CreditedOnce`, violated | one deposit, one crash |
| `PaymentsFree` | `LaunchIsPaid`, violated | one deposit of 95%, no fault |
| `IcoPipeline` | `TypeOK`, `ActiveIsWired`, `CallsReachContracts`, `LockIsAwaited`, `PipelineMoves` | both kinds of crowdsale, one other contract on the address, 2 deploy requests, 6 transactions: a whole pipeline and two that were sent again; 1 crash, requeued message or second request. Fairness below. 219 941 states; the invariants were also checked with 2 troubles, 3.4 million states |
| `OrderBook` | `TypeOK`, `OnlyFilledIsTaken`, `MarksAreEarned`, `SwapsExplained`, `GoneIsKept` | an order of the site or of the exchange API; 2 limiter tasks that overlap, 1 writer at a time beside them (a view, a message or 1 request that changes the order, or 1 death of the receiver), any number of views, swaps and failed tasks. 2 331 380 states up to the symmetry of the tasks |
| `ContractLife` | `LifeTypeOK`, `NoWillIsForgotten`, `DutyAddsUp`, `ConfirmedIsSaved`, `SentWasDropped`, `BooksAreKept`, `OverIsNotRevived`, `WillsEnd` | one contract of each of 13 kinds; 3 transactions (launch, a call, and one more that fails or is sent again), 2 messages waiting, moments 0 to 3 with checks after 1 and `active_to` 2, so that one check is due before the end and one is not; 2 tokens, so that one is confirmed while the other is late; 2 entries of 1 row each and 2 calls of up to two addresses; 2 payments of each of 2 parties; 1 crash, exception or failed transaction. Fairness below. 1 138 935 states (2 rows of an entry are beyond the five minutes) |
| `AirdropCommitted` | `CommittedIsSent`, violated | 2 rows of an entry; no fault |
| `Platform` | `PlatformTypeOK`, `ServedIsWhole`, `FreedWhenServed`, `BuiltIsOneDraft`, `LimitHoldsAlone`, `BridgeDoneIsDone`, `AccountIsWhole`, `SharesAddUp` | one contract of each kind of the other chains, with 4 transactions, the most parts a thing has and one again, and 3 troubles, so that a retry may fail too; a draft of each kind with 4 forms (two valid, differing in rows, price and state, the second of which says nothing of an option the first sets; one without people; one that breaks every rule) and 2 edits or launches; a code that is reusable or not, limited or not, 2 customers, 2 launches that overlap and 3 days; 2 rounds of the bridge, 2 second transactions and a customer who says of each way that it is completed, and of Polygon's all that is in order; 2 logins of each way; 3 payments whose shares are below the threshold or above it, so that a transfer leaves something and another payment comes meanwhile, and 2 lost answers, failed saves or deaths. 488 293 states up to the symmetry of the two requests |

`CHECK_DEADLOCK FALSE` is in every configuration: once every request is answered
and every message handled, the system rests.  `MaxTries`, `MaxFaults`,
`MaxAnnounced`, `MaxTxs`, `MaxRequests`, `MaxTroubles`, `MaxQueue`, `MaxTime`,
`MaxRows`, `MaxDrops`, `MaxDeposits`, `MaxPayments`, `MaxBills`, `MaxUses`,
`LastMinute` and `LastDay` are bounds of the model and not of the code; so are the
guards that a comment calls one: when a draft is still edited or charged
(`Opens`), when the owner of a protector approves (`OwnerApproves`).

Fairness (`FairSpec`; `OrderBook` has none, for it states safety only): the receiver's thread keeps consuming and finishing the
message in hand (`start_consuming` in a process docker starts again whenever it
stops), a transaction that was sent is mined or fails, and the scanner publishes
what became of it.  Nothing is assumed of web requests: one may stop anywhere.
`Spec` of `ContractLife` assumes only that the clock goes on (`ClockTicks`) and
that the checker takes an ACTIVE will that is due in one of its rounds
(`CheckerGoesOn`): `checker.py` is a loop in a process of its own, which reads
every ACTIVE contract in every round and catches what a will raises.  It does
not catch what a token protector with an oracle raises before its turn
(`details.check_account_active()` is outside of the `try`s); that this ends a
round before the will is reached is assumed not to go on for ever.
`WillsEnd` follows from these alone: not from the receiver, the network or the
owner.  `Platform` states safety only.

Properties, in words:

* `RecordsAgree`: a details object and its row point at each other, a row
  records only its own contract's transactions and addresses, the launch in
  hand is the newest compilation, a successful report tells the truth.
* `ActiveIsDeployed`, `ActiveIsKept`, `NeverRedeployed`: ACTIVE means a mined
  transaction of this very contract; it is lost for one of four reasons only (it
  destroyed itself, a transaction of its own failed, a stale save, a mail about
  it that was refused before its message was acked); a finished contract is not
  sent again by a redelivered or repeated launch.
* `KeepsPromise`: `DeployQueue` implements `DeploymentPromise` under the
  mapping in `Promise`: a contract is not launched more often than
  `create_payment` was called for it, which took the price or found the balance
  too low (`waived`); one that exists was launched, an active one exists.
* `LockIsAwaited`, `LockIsReleased`, `LaunchResolves`: a held lock is waited on
  by something that releases it, so it is released; a launch in the queue ends
  in ACTIVE, POSTPONED or KILLED.
* `NeverOverdrawn`, `RecordedOnce`, `CreditsExplained`, `NeverForgotten`:
  see the modules.
* `CallsReachContracts`: every transaction of the pipeline is made from
  contracts that are on the chain, whatever failed before.  `ActiveIsWired`: an
  ACTIVE crowdsale sells the token shown with it, owns it and is initialized.
* `LockIsAwaited` of `IcoPipeline`: between two transactions the lock is held
  for something that is on its way.  `PipelineMoves`: a launch ends in a state
  a person can see.
* `OnlyFilledIsTaken`: the wallet spends only on an order whose contract was
  filled at some time, whatever edits, repeated messages and old copies made of
  the row.  It does not say that the contract is filled still: it was asked
  minutes before.
  `MarksAreEarned`: done, closed and swapped, in the row and in every copy,
  stand for a receipt.  `SwapsExplained`, `GoneIsKept`: an order is swapped
  again, or comes back when it was done, cancelled, hidden or deleted, only in
  the ways named there; that a task whose own copy says it was swapped swaps it
  is not among them.
* `NoWillIsForgotten`: an ACTIVE will that the checker watches has a next check,
  or is about to end, or its trigger is on its way; `WillsEnd`: it does not stay
  ACTIVE for ever.  `DutyAddsUp`: what the site owes a Rootstock will is what
  was paid in less what was paid out.
* `ConfirmedIsSaved`: a token that the site shows as confirmed is one the
  protector on the chain will move.  `OverIsNotRevived`: a protector that was
  shown as executed or destroyed neither waits for approvals nor is ACTIVE again,
  through whatever states, until another deployment of it is told; but for a late
  request to skip its approvals.
* `SentWasDropped`: an airdrop list shows no more rows as sent than the chain has
  paid.  `BooksAreKept`: what the site shows of a pool or a swap, with what the
  queue has yet to tell, is what the chain holds.
* `ServedIsWhole`: a contract shown as ready on another chain names a thing that
  has every part.  `FreedWhenServed`: it has given the address back.
* `BuiltIsOneDraft`: what is compiled is one form the customer sent, with nothing
  of earlier ones but the options it has no value for; it is billed once, before
  it is built, at its price, of which nothing is taken when the balance is too
  low; a draft that was billed is not deleted.
* `LimitHoldsAlone`: a promo code is given no more often than its limit says.
* `BridgeDoneIsDone`: a transfer that the rounds show as completed has come
  through: they never make one completed that is not, however they overlap with
  each other and with the customer's updates.  Of a row whose status or way only
  the customer said, nothing can be promised.
* `AccountIsWhole`: no customer has two balances on a site, and one who is in
  has a profile and all of them.
* `SharesAddUp`: of the shares put aside none is lost and none is sent twice, but
  for the fractions of an EOSISH and the daemon's mishaps named there.

## What the code does not keep

* `LockedLaunchWaits`.  `@blocking` means to requeue a launch while another
  contract holds the address ("address locked. sleeping 5 and requeueing the
  message"), but its UPDATE just matches no row.  The launch runs, and the first
  report or ignored launch frees the address for everybody.  `RecordsAgree` and
  `ActiveIsDeployed` hold nevertheless: no contract is taken for another.
* `IgnoredIsDeployed`.  A contract can be left in WAITING_FOR_PAYMENT by an
  edit that read it before the deploy view saved it; its paid launch is then
  ignored "because already deployed".  `LaunchResolves` excepts contracts
  edited meanwhile for this reason.
* `CreditedOnce`.  The balance and the `InternalPayment` row are two
  transactions; a crash between them credits the deposit again.
  `CreditsExplained` says that this is the only way.
* `LaunchIsPaid`.  With 95% of the price the checks pass, the UPDATE of
  `negative_payment` matches no row and raises nothing, the second try never
  comes, and the contract is launched for nothing.
* Two exceptions are built into `LockIsAwaited`: a white label contract keeps
  the lock after its first launch and nothing sends the second; and a mail
  server that refuses keeps `postponable` from releasing the lock.
* Two exceptions are built into `KeepsPromise` and `ActiveIsKept`.  The deploy
  view does not look at the balance: one that is too low matches no row, and the
  contract is launched for nothing.  And a mail that is refused after
  `msg_deployed` has saved ACTIVE makes `postponable` save a contract as
  POSTPONED that is on the chain and served.
* Of `OrderBook`: an order may be swapped twice when a task ends while it waits
  or another has an older copy (`SwapsExplained`); one that is refunded or taken
  after the limiter has asked its contract is paid for all the same, as
  `OnlyFilledIsTaken` is about the past only; a save of an older copy takes
  back whatever happened since, and a view turns a hidden order into an expired
  one, because `EXCLUDED_STATES` does not name it (`GoneIsKept`); a failed
  deposit has a receipt too, and makes the order done (`MarksAreEarned`).
* Two exceptions are built into the properties of `IcoPipeline`.  A transfer
  of some other token to a crowdsale in WAITING_ACTIVATION is ignored with the
  address locked, and nothing gives it back before another message about any
  contract does.  When a crowdsale was sent twice, the older one's
  `initialized` may come when the sale is over, with the lock held for the
  younger one, and addresses of both may be mixed.  Besides, `tx_failed` or a stale deploy request
  may take a sale out of ENDED.

* `CommittedIsSent`.  The handler of a COMMITTED airdrop call overwrites
  `old_state` inside its loop: behind one address that is looked up as 'added',
  those still 'processing' are passed over, and the list can then not be loaded
  again.

What follows was met while modelling, is in the models as it is, and is excused
by name in a property or has none.

Wills.  A crash between the two saves of `msg_deployed` leaves an ACTIVE will
without a next check, for ever.  The `i_am_alive` view publishes and then saves
the details it read before, over `next_check` and `btc_duty` of the receiver;
its handler frees the whole network's lock when `last_press_imalive` is set.
Two `contractPayment`s before `fundsAdded` pay the same duty twice.
`triggered` never releases the lock.  `tx_failed` postpones a contract in
whatever state it is.  The checker has no turn for deferred payments and for the
kinds of the Binance network.

Token protector.  A request to skip the approvals that read the row before it was
executed or destroyed makes it ACTIVE again (`OverIsNotRevived` excepts it).
`confirm_protector_info` on Ropsten saves
WAITING_FOR_DEPLOYMENT before `predeploy_validate` may refuse the launch.  What
shows a protector postpones it ten minutes after a token was named, in any
state.  `TokensToSave` confirms every row there is.  The row that
`execute_contract` saves may be DONE by then.  The 30-day reminder sets the
week's flag (`token_protector.py:274`).

Airdrop.  A list loaded between the handler's count and its save marks rows as
completed that were not dropped.  The EOS airdrop counts the rows of another
table, so any message ends it.

Pools and swaps.  A 'finalized' that was REJECTED, after `stop_date`, turns a
DONE pool CANCELLED; a swap is DONE whatever the status of 'finalized'.  A base
address with capitals makes deposits of the base token count as the quote's.
Showing an old swap saves it as expired.  `tokenSent` marks a pool's first row
of an investor again and again.

Other chains.  A redelivered `newAccount` postpones a crowdsale that is DONE on
EOS; the EOS token is created without its holder rows, and the EOS crowdsale
reads them again at its launch.  TRON saves ACTIVE before the address and the
lock.  A NEO token is ACTIVE, and ENDED, before its transaction is mined.  A
relaunch on Waves sets the script of the old asset on a new account; on Solana it
makes the row of a served token name an empty mint.  NEAR charges and deploys
again at a second request, swallows a failure to burn the keys, never checks
them although the docstring says so, and never releases the lock.

Drafts.  An edit prices the form by itself and sets only the fields it has a value
for: an option of an earlier form that it does not name stays, is compiled, and
is not paid for.  `update` is not atomic, and one that is refused for want of
`token_holders` has deleted the holders (`neo`, `neoico`, `eostoken`, `solana`).
An edit in flight at the deployment saves the old state, heirs and price back.  A
contract in WAITING_ACTIVATION can be destroyed, and the launch of a destroyed
one is ignored.  A crowdsale draft is accepted five minutes before its start,
and `predeploy_validate` of EOS asks for ten.  The heirs' kinds reckon a price from
heirs and time (and raise for a missing field or a zero interval), and then
return a fixed one.  An old swap is priced in ETH wei, a NEO token without the
decimals of USDT.

API for programs.  Its drafts have cost 0, and cost nothing when they are
launched on the site.  A balance that is too low matches no row and raises
nothing here either (the answer 'You have not money' is never given), so they are launched
for nothing.  Its promo rule takes the discount's share of the price instead of the rest of it,
keeps to neither limit and counts no use; the site counts a use even when the
code was refused, and two launches lose an update.

Accounts and bridge.  A Facebook user left without a profile never gets one,
and the other logins complete no half-made profile.  A deposit into Ethereum of
the Polygon bridge raises KeyError ('block_bumber') and never moves on; a round that
overlaps another may take a completed transfer back.  A POST and a PATCH save
whatever status and way the customer sends, `Completed` as well.

Frozen shares.  What payments add while the daemon waits for a transfer is wiped
by its save.  A transfer of which it hears nothing, or whose save fails, is sent
again ten minutes later; cleos is killed and called again at once.  The
fractions of an EOSISH are dropped at each transfer.  WISH is put aside and never
sent, for that branch is commented out.

## Proofs

`DeployQueueProofs` proves `TypeOK` (`TypeCorrect`), `NeverRedeployed`
(`DeployedOnceClosed`), `RecordsAgree` (`RecordsAlwaysAgree`) and
`ActiveIsDeployed` (`ActiveAlwaysDeployed`), for every set of contracts and
requests, every way of compiling and every bound.  `ActiveIsDeployed` is not
inductive: an address comes from a message, a message from a row and a
transaction, so `RecordsAgree` ties all of them together and is inductive with
`TypeOK`.  The argument: `QuietStep` collects what most actions leave alone and
keeps `RecordsAgree` at once; the few that touch rows, transactions or messages
(compile, send, record, accept a report, publish one) have a lemma each.
`NeverRedeployed` needs `LaunchInHand` as well, for a launch can only be in
hand while its contract is open: nothing else the receiver does comes between
`LaunchCompile` and `SendTransaction`, and the views write open states only.

`DeployPromiseProofs` goes on from there.  `KeepsPromise` (`PromiseKept`): every
step of `DeployQueue` is a step of `DeploymentPromise` or changes nothing of it;
`ActiveIsKept` (`ActiveAlwaysKept`); and `LockIsAwaited` (`LockAlwaysAwaited`).
The first two say why a thing is there, so the invariant `HasReasons` gives each
of launches in hand, messages and transactions what it came from
(`SentForALaunch`, `InHandForALaunch`, `MessagesAreGrounded`), and `StoryGrows`,
about a step, says that none of these reasons is ever taken back.  That nothing
is launched that was not billed needs a count, `Paid`: a contract's launches and
the requests that have billed it and not yet published (`Owed`) are together no
more than the times its price was taken or waived.  A step is then mapped by the kind of
step it is (`SeenWeb`, `SeenLaunch`, `SeenReport`, `SeenNetwork`).

`LockIsAwaited` is proved under the assumption that the mail server answers,
`MailFails = FALSE`, the one under which its run checks it and without which it
is false: `postponable` and `tx_failed` send the mail before they free the
address.  A held lock is awaited in three ways: its launch is in hand, a message
about it is on its way, or a transaction is undecided.  That the last one is told
to somebody needs `LockIsGrounded`: an ACTIVE contract does not hold the address
(`ActiveIsFree`), what was reported was sent (`ReportedWasSent`), and the
transaction that is just out is neither recorded nor reported
(`SentIsUnreported`).

`PaymentsProofs` proves `TypeOK`, `NeverOverdrawn`, `RecordedOnce`,
`CreditsExplained` and `NeverForgotten`, for every number of receivers,
confirmations, contracts and deposits.  The inductive invariant `Books` adds to
`TypeOK` that a message is on the queue of its deposit's network (`Routed`),
that a receiver has a deposit in hand unrecorded exactly until it writes the row
(`InHand`), and that credits are rows plus interruptions plus the deposit that
is between the two (`Counted`).  `Routed` is what makes the unprotected look-up
by `tx_hash` safe: all announcements of a deposit are handled by one thread.

`IcoPipelineProofs` proves `TypeOK` (`TypeCorrect`), `CallsReachContracts`
(`CallsReach`) and `ActiveIsWired` (`ActiveWired`), for every number of
requests, transactions and troubles.  Neither property is inductive: a call is
made from a row, a row is written from a message, a message comes from a
transaction.  `Vouched` (`VouchedAlways`) says of each what the step before it
must have done: rows name contracts that were mined and hashes of their own
kind (`RowsReal`), no init without a transfer and no ACTIVE without an init
(`InOrder`), a message only claims what happened (`Truthful`,
`MessagesTrue`), and the handler at work has the addresses it is about to use
(`InHand`).  All of it is about things that stay true once they are
(`Extends`), which is why messages may come late, twice or in another order.
Steps that touch neither rows nor transactions are `QuietStep`s and keep
`Vouched` at once; the others have a lemma each.  `ActiveIsWired` follows
without another induction: an init and a transfer were mined, both name
contracts that exist, and `SentOnce` leaves one of each to name.

`LockIsAwaited` (`LockAlwaysAwaited`) needs `LockTold` beside it.  While the
lock is held and no handler is at work, a message that frees it or goes on is
waiting (`Freeing`), or the last transaction has a row by which the scanner will
know it (`Tied`); this is `LockExplained`.  A transaction that is just out has no
row yet, so what can be published of it is only its event, which is then in the
queue when the handler ends (`SentTold`).  The message that may be passed over
with the lock held is `initialized`, by a sale that is ENDED; it cannot come
after `finalized`, because a crowdsale is initialized once (`OneInit`) and is
finalized only when that was told (`EventsTold`, `EndComesLast`), unless two
crowdsales were sent.  The proof corrected the property: its exception was about
the state ENDED, but a third deploy request that read the draft early can take a
sale out of ENDED, so it is about the event `finalized`.

`OrderBookProofs` proves all five properties of `OrderBook`: `TypeOK`
(`OrderTyped`), `MarksAreEarned` (`MarksAlwaysEarned`), `OnlyFilledIsTaken`
(`OnlyFilledAlwaysTaken`), `SwapsExplained` (`SwapsAlwaysExplained`) and
`GoneIsKept` (`GoneAlwaysKept`), for every number of writers, limiter tasks and
requests.  `Ledger` is inductive: the row and every copy of it are earned
(`AllEarned`), a task that says it has a receipt has one (`InHand`), and whoever
is about to pay found the contract filled (`Funded`).  A save() then puts one
earned order in the place of another, whichever it was, so that one lemma serves
the writers (`WebStepKeeps`) and one the tasks (`GoKeeps`).  The two action
properties need to know what is remembered (`Memory`): that the wallet has
swapped, by the row, by a task at it, or as a mishap (`Remembered`), which needs
that a receipt goes to tasks that wait for it (`Waiters`); and that a view had
looked at an order that may expire (`Viewed`).

`PlatformProofs` proves `BridgeDoneIsDone` (`BridgeTold`) and `AccountIsWhole`
(`AccountWhole`) for every number of rounds, second transactions and logins, and
`SharesAddUp` (`SharesAlwaysAddUp`) for all sums, thresholds, payments and
mishaps.  None is inductive.  A completed transfer is saved by a round from a copy, so
`TransferTold` says of every row a round holds, and of every one it may save
when its answer comes, what must be true outside when it says completed; what is
outside only grows, so a copy stays honest however old it is.  The customer's
update changes whatever it likes in the row: the answer counts for the way and
the second transaction in the copy, which are saved with it, but of Binance's
transfers, where the status alone is saved; so a row is the customer's word
(`claimed`) when the way it has is not the copy's.

`AccountTold` ties the logins to the database: a profile can be saved but once,
so that at most one login at a time goes on to the balances, and those it has not
come to are missing (`OneFills`); where there is a profile, nobody is at it and
none broke off, all balances are there (`FilledOrHalved`); and a login that is in
has a profile, but by Facebook, where a user without one was given up or is
about to get it (`InWithProfile`).  `SharesTold` keeps the books of the daemon's
copy as well as those of the row: a save puts the copy in the row's place, so
the copy must account for all that was put aside but what is fresh; and between
a transfer and its save it is the copy and not the row that adds up.  What a
transfer of EOSISH drops is bounded by lemmas on the quotient of the sums sent
(`Fraction`, `FractionsAre`).

It also proves `ServedIsWhole` (`ServedWhole`) and `FreedWhenServed`
(`ServedFreesLock`), for every kind of the other chains, every number of
transactions and every number of troubles.  Both follow from one invariant, `ChainsTold`.  Where
there is a scanner (`ScannedTold`), a row claims what a message told, a message
tells what a transaction made, and the transaction for the last part was sent
after the message about the others (`SentInOrder`, `MadeInOrder`,
`MessagesTold`); so whatever was redelivered, `ServedTold` follows from what is
made.  `LockTold` says why the address comes back: as long as the contract holds
it, the contract is not served yet, and once all is made the message that will
free it is on its way.  Where there is none (`LaunchTold`, `NearTold`), the
queue never holds more than the one launch (`Lone`), and a NEAR contract that two
requests did not deploy has one request that did.  A contract's kind is fixed,
so the steps of the others change nothing here (`ChainsAlone`, `OthersRest`).

And it proves `BuiltIsOneDraft` (`BuiltFromOneDraft`), for any forms, and
`LimitHoldsAlone` (`LimitAlwaysHolds`), for any customers.  A request of a draft
writes rows, details and price one after the other, so the three agree only
between requests.  `DraftTold` says, while no requests overlapped, that one is
open at most and how far it is (`SavingTold`): which of the three are still the
old form's and which its own.  A payment finds all three of one form (`Stored`),
and no edit comes after it, as it left the states a draft is edited in
(`PaidTold`).  Prices and heirs' shares are taken from the form as they are: the
proof needs only that the same form has the same price.  The details are a form
with options of earlier ones beside its own, which `WithOptions` and `OfForm`
say and an edit keeps (`SavedOver`).  The count of a promo
code is in its row, and the discounts are not: `PromoTold` says that the row a
launch is about to save is the one in the database, and that what was given is
counted in it but for one launch, which is between its payment and its count
(`Counted`).

`ContractLifeProofs` proves `NoWillIsForgotten` (`WillsRemembered`) and
`ConfirmedIsSaved` (`ConfirmedSaved`), for every number of tokens, transactions
and entries and every calendar.  `WillWatched` says of an ACTIVE will without a
next check that its end is near, that its trigger is on the queue, or that one
of the two histories happened; it needs that a message of type triggered is the
trigger (`Triggers`).  The queue is what makes it long: a step may take a
message off, hand it back or publish one or two, so each step is first reduced
to the types of the messages it touches (`Touches`), and only those that touch
triggered, or the will's own columns, are looked into (`WatchKeeps`).
`ProtectorTold` says of each row of a protector that it is vouched for: the
contract moves its token, it came late, or a confirmation is on its way whose
event will save it; and of that event, in the queue or still to come from an
addTokenType transaction, that the tokens it brings are those of the rows there
were (`EventsComing`, `TokensTold`).  Both are about one kind of contract, so
the steps of the other kinds leave all of it alone (`KindStays`).

`OverIsNotRevived` (`OverStaysOver`) is about the order of the queue.  What
could revive a protector, besides a late request to skip the approvals, is
`TokensToSave`, whose handler makes it ACTIVE in any state.  `InTurn` says that
between the news that a protector is over and a later `TokensToSave` there is a
deployment that succeeded; with what was shown (`ended`) as the past before the
queue and the chain as the future after it, this is inductive.  Only a launch
that came twice deploys again, and once that is told the protector may be
revived: it is another one.  That a message can be delivered again does not break the
order, because those that can be are of other types (`OthersLeft`).  No other
kind of contract is over in this sense.

Three more theorems of `ContractLifeProofs` balance the row and the queue
against the chain.  They add up over a queue of any length, and a recursive sum
would need an induction the provers cannot do; so `Total` counts pairs (`Units`),
and the theorems on cardinalities say what a message more or less does to it:
`RowProofs` has the sum of one value, of two parts, of a renumbered sequence, and
so what `Append`, `Tail` and a message handed back do (`TotalOfOne`,
`TotalOfParts`, `TotalMovedBy`).

* `BooksAreKept` (`BooksAlwaysKept`).  `PoolTold`: of each party, what the row
  shows and the messages that wait are what it paid.  A pool's balance is not
  added up but told, as each message brings the whole of it; so `LastTells` says
  that the last such message in the queue, or the row when there is none, has
  the sum of all payments.  A swap needs no such thing.
* `DutyAddsUp` (`DutyAlwaysAddsUp`).  `DutyTold`: the equation itself, for as
  long as neither history happened, where `Net` of a queue is what it tells of
  payments in less payments out; and that a payment that is still a transaction
  will tell of a natural number.  Each step is reduced to the sum it moves
  (`Moves`), and the row has to move by the same.
* `SentWasDropped` (`SentAlwaysDropped`).  `AirdropTold`: the rows shown as sent
  or completed, and those that the COMMITTED messages in the queue name, are no
  more than the chain paid.  A message that was counted but is not yet
  acknowledged, when the handler completes the list, is not among them
  (`Uncounted`).  The rest is the lookup: that it takes no row twice and no more
  rows of an entry than the message names (`TakenWithin`), so that what is marked
  as sent is covered (`MarkedWithin`).  It unfolds a call of two addresses, the
  longest there are in the model: of longer ones nothing is proved.

The proof of the last one showed two things the model had wrong.  Its lists named
each entry once at most.  And an EOS call whose failed address has no row raises,
after the addresses that were paid are marked: when it is delivered again they are
marked again, which `excused` did not tell of.

The types of the two compositions are theorems too, `PlatformTypeCorrect` and
`LifeTypeCorrect`.  What is hard in them is that a queue, a count or a row of
the list stays within a bound, for every value of the constants, although the
guards with the bounds stand only where an actor begins something.

* The queue.  A handler publishes without asking how long the queue is, so its
  bound must be paid for by something that runs out.  `RowTold` (in `RowProofs`,
  for both compositions) bounds what is held, with the trigger that a deferred
  payment has yet to come (`Coming`), by `Allowed`: those published while there
  was room, the launch, two messages for each transaction that is over (`Over`,
  `Settles`) and one for each handler that published and died.  That a
  settled transaction never moves again makes it a bound.
* A will's duty (`WillTold`).  No equation of `DutyAddsUp` is left once a payment
  was handled twice or an older duty was saved over a newer one; what still
  holds then is an inequality: the row's duty, and the copy that the alive view
  is about to save, with what the queue has still to tell (`Untold`), are no
  more than what was received and one for each crash (`DutyWithin`).  Only a
  redelivery tells a payment again, and a redelivery is a crash.
* An airdrop's list (`AirdropTyped`).  Messages, however often they come, only
  change the states of an entry's rows; new ones are made when the others were
  deleted (`ListWithin`).  And an entry is paid at most twice by each call, as a call names two
  addresses (`DropsWithin`).
* A pool's balance (`PoolTyped`).  What each party paid is bounded, so all of it
  is (`AllPaid`, by the cardinality of the pairs that `Total` counts); and no
  message tells more.
* A promo code's uses (`PromoBounded`).  A launch opens only while each of the
  open ones may still add a use: what is counted, in the row or in a copy about
  to be saved over it, with the launches that have yet to count theirs, stays
  within the bound.  Without the copies this is not inductive: overlapped
  launches save counts that the row no longer has.
* A protector's row and messages name its owner's tokens (`ProtectorTyped`), and
  what a handler of the other chains leaves behind, wherever it stops, is a part
  of a thing it was to make (`InlineMoves`).

These proofs corrected the bounds of the model, none of which the runs' constants
had shown to be wrong: the queue's did not grow with the troubles and counted one
message for each transaction; the guard of a promo code's look-up did not see the
copies, and a code's limit was 2 at most.  A will's duty and an airdrop's rows were
bounded by more than they reach.

Assumptions: those of the modules' `ASSUME`s (kinds of contracts are disjoint
where the code makes them so, bounds are natural numbers, prices are positive,
a form asks for one of the two states that the serializer lets through).

That `Parties` and `Launchers` are finite (`PartiesAreSome`, `LaunchersAreFinite`)
is what a sum over the first and a count of the second need: there are as many as
open accounts and requests.

Only model-checked: liveness (`LaunchResolves`, `LockIsReleased`,
`PipelineMoves`, `WillsEnd`), since fairness and ENABLED are out of the prover's
reach.  Every invariant and every action property of a passing run is a theorem.

## Not modelled

The map covers about 31% of the implementation's lines.  Most of the rest has no
state that a property could be about:

* Field validation, serializer field lists, URL tables, migrations, settings,
  ABIs and other constants; statistics, dashboards, listings, snapshots.
* Mails, Telegram, rates, the token table and market sync
  (`coingecko_market_sync.py`), `tron_autoreplenish.py`: they read this state, or send it elsewhere.
* The node and signer clients: they answer or fail, which every fault action
  stands for.
* The subclasses for other EVM networks (Binance, xinfin, matic, heco,
  moonriver), which change names and parameters of the kinds that are modelled.
* Dead code: `neo.py` holds several handlers in strings.

What has state and is still missing: the extras bought after the deployment
(`buy_verification`, `buy_brand_report`, `api.py:1475`) and the verification
mails; `timesChanged` and the whitelist of a crowdsale; `investmentPoolSetup`;
assets of Waves that reuse a token; `ownershipTransferred` and the lost key's
life on TRON; the price per contract type of a promo code; sessions and second
factors, which libraries keep.

## Plan

1. ICO: an abstract specification (the four steps happen in order) that it
   implements, with `timesChanged`.
2. The extras bought after the deployment, as actions of `DeployQueue`.
3. The composition of `Payments` with `DeployQueue`, for the launches that
   `confirm_swaps_info` brings back.
4. The liveness of the limiter, under a node that gives receipts.
