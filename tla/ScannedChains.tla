---------------------------- MODULE ScannedChains ----------------------------
(***************************************************************************)
(* The deployment on EOS, on TRON and of the crowdsale on NEO: the handler *)
(* of 'launch' sends a transaction; the scanner of the chain tells when it *)
(* is in a block, and the handler of that message sends the next one or    *)
(* takes the contract for deployed.                                        *)
(*                                                                         *)
(* What stands on the chain is a thing of several parts.  On EOS and NEO   *)
(* the draft names it, so a contract has but one, and the node refuses to  *)
(* make a part of it twice.  On TRON every launch makes another thing.     *)
(*                                                                         *)
(* Left out: prices, names of the arguments, mails, the messages setcode   *)
(* and timesChanged, which change no state that is kept here.              *)
(***************************************************************************)
EXTENDS ContractRow

VARIABLES
  made,     \* the parts that each thing on the chain has
  named,    \* the thing that the contract's row names
  disturbed \* a handler died between its saves, or a launch ran again

thingVars == <<made, named, disturbed>>

Things  == 1..MaxTxs
Nothing == 0

EosKinds  == {"eostoken", "eosaccount", "eosico", "eostokensa", "eosdrop"}
TronKinds == {"trontoken", "gameassets", "trondrop", "tronlostkey"}
ScannedKinds == EosKinds \cup TronKinds \cup {"neoico"}

\* What a contract of a kind consists of, in the order it is made.
Parts(k) ==
  CASE k = "eostoken"               -> <<"token">>
    [] k = "eosaccount"             -> <<"account">>
    [] k \in {"eosico", "eostokensa"} -> <<"account", "code">>
    [] k = "eosdrop"                -> <<"entry">>
    [] k \in TronKinds              -> <<"code">>
    [] k = "neoico"                 -> <<"code", "init">>

Whole(k) == {Parts(k)[i] : i \in DOMAIN Parts(k)}

\* The messages of the scanner.
About(type, thing) == [type |-> type, thing |-> thing]

\* Which of them tells of a part.
TellsOf(k, part) ==
  CASE part = "token"                           -> "tokenCreated"
    [] part = "account"                         -> "newAccount"
    [] part = "entry"                           -> "deployed"
    [] part = "code" /\ k = "eostokensa"        -> "tokenCreated"
    [] part = "code" /\ k = "eosico"            -> "initialized"
    [] part = "code" /\ k \notin {"eostokensa", "eosico"} -> "deployed"
    [] part = "init"                            -> "initialized"

ThingTypeOK ==
  /\ made \in [Things -> SUBSET {"token", "account", "entry", "code", "init"}]
  /\ named \in Things \cup {Nothing}
  /\ disturbed \in BOOLEAN
  /\ state \in {"WAITING_FOR_DEPLOYMENT", "POSTPONED", "ACTIVE", "ENDED", "DONE"}

ThingInit ==
  /\ state = "WAITING_FOR_DEPLOYMENT"
  /\ onChain = "alive"
  /\ ready = <<Launch>>
  /\ made = [t \in Things |-> {}]
  /\ named = Nothing
  /\ disturbed = FALSE

\* Kinds whose row names the thing before it is sent: TRON saves the address
\* it has computed, and compile() of EOSICO the account of the draft.
AddressFirst == TronKinds \cup {"eosico"}

\* The thing that a launch makes, or goes on making.
Target == IF kind \in TronKinds THEN Len(chain) + 1 ELSE 1

Underway(part, thing) ==
  \/ part \in made[thing]
  \/ \E i \in DOMAIN chain : Pending(i, part) /\ thing \in chain[i].with

\* Sent, and with the first answer of the node accepted.
Pushes(part, thing) ==
  /\ thing \in Things
  /\ ~Underway(part, thing)
  /\ Send(part, {thing})

\* The process dies inside of a handler: the message comes again.
Dies == DeliveredAgain /\ disturbed' = TRUE

\* Acknowledged, or the process dies when all is saved.
Ends ==
  \/ Ack /\ UNCHANGED <<troubles, disturbed>>
  \/ Dies
-----------------------------------------------------------------------------
(***************************************************************************)
(* 'launch': @blocking @postponable deploy(), which asks for no state but  *)
(* POSTPONED.                                                              *)
(***************************************************************************)
Launching(k) == Receiving("launch") /\ kind = k /\ state # "POSTPONED"

\* One transaction; then the row names the thing and the contract waits.
Launches(k) ==
  /\ Launching(k)
  /\ Pushes(Parts(k)[1], Target)
  /\ txHash' = Len(chain')
  /\ named' = Target
  /\ lockedBy' = Blocking(lockedBy, This)
  /\ state' = "WAITING_FOR_DEPLOYMENT"
  /\ Ends
  /\ UNCHANGED <<kind, now, made>>

EOSTokenDeploy     == Launches("eostoken")
EOSAccountDeploy   == Launches("eosaccount")
EOSAirdropDeploy   == Launches("eosdrop")
EOSTokenSADeploy   == Launches("eostokensa")
TRONTokenDeploy    == Launches("trontoken")
GameAssetsDeploy   == Launches("gameassets")
TRONAirdropDeploy  == Launches("trondrop")
TRONLostkeyDeploy  == Launches("tronlostkey")

\* These two save the transaction and leave the state as it is.
LaunchesOnly(k) ==
  /\ Launching(k)
  /\ Pushes(Parts(k)[1], Target)
  /\ txHash' = Len(chain')
  /\ named' = Target
  /\ lockedBy' = Blocking(lockedBy, This)
  /\ Ends
  /\ UNCHANGED <<kind, state, now, made>>

EOSICODeploy == LaunchesOnly("eosico")
NeoICODeploy == LaunchesOnly("neoico")

\* cleos is run again when it prints nothing in time: the node may have the
\* transaction of the attempt that was killed, and refuse the next one.
CleosKilled(part) == kind \in EosKinds /\ Pushes(part, Target)

\* compile(), the node or the broadcast fails.
ScannedLaunchRaises ==
  /\ kind \in ScannedKinds
  /\ Launching(kind)
  /\ SendsNothing \/ CleosKilled(Parts(kind)[1])
  /\ named' \in IF kind \in AddressFirst /\ Target \in Things
                  THEN {named, Target} ELSE {named}
  /\ Postpone(Blocking(lockedBy, This))
  /\ LeaveUnacked
  /\ UNCHANGED <<kind, txHash, now, made, disturbed>>

\* The process dies when the transaction is out and its hash is not saved.
ScannedLaunchDies ==
  /\ kind \in ScannedKinds
  /\ Launching(kind)
  /\ Pushes(Parts(kind)[1], Target)
  /\ named' = IF kind \in AddressFirst THEN Target ELSE named
  /\ lockedBy' = Blocking(lockedBy, This)
  /\ Dies
  /\ UNCHANGED <<kind, state, txHash, now, made>>

ScannedPostponed ==
  /\ kind \in ScannedKinds
  /\ LaunchPostponed
  /\ UNCHANGED thingVars

\* The part is there already, or on its way.  TxFail, on NEO, is acked.
NodeRefuses(part) ==
  /\ Underway(part, Target)
  /\ Postpone(Blocking(lockedBy, This))
  /\ IF kind = "neoico" THEN Ack /\ UNCHANGED troubles ELSE LeaveUnacked
  /\ UNCHANGED <<kind, network, now, thingVars>>

LaunchRefused ==
  /\ kind \in ScannedKinds \ TronKinds
  /\ Launching(kind)
  /\ NodeRefuses(Parts(kind)[1])
-----------------------------------------------------------------------------
(***************************************************************************)
(* The second transaction.                                                 *)
(***************************************************************************)
\* Seeded bug: the crowdsale is taken for done with its account.
AsAccount == "ACTIVE"

\* EOSICO's newAccount; the standalone token leaves the state as it is.
AfterNewAccount == IF kind = "eosico" THEN "WAITING_FOR_DEPLOYMENT" ELSE state

\* newAccount of EOSICO and the standalone token, msg_deployed of NeoICO: the
\* receiver ignores them when the contract is ACTIVE.
Going(type) ==
  /\ Receiving(type)
  /\ state \notin {"ACTIVE", "POSTPONED"}
  /\ lockedBy' = Blocking(lockedBy, This)

NewAccount ==
  /\ kind \in {"eosico", "eostokensa"}
  /\ Going("newAccount")
  /\ Pushes("code", 1)
  /\ state' = AfterNewAccount
  /\ txHash' = Len(chain')
  /\ Ends
  /\ UNCHANGED <<kind, now, made, named>>

NeoDeployed ==
  /\ kind = "neoico"
  /\ Going("deployed")
  /\ Pushes("init", 1)
  /\ txHash' = Len(chain')
  /\ Ends
  /\ UNCHANGED <<kind, state, now, made, named>>

\* The process dies when the transaction is out.
SecondDies ==
  /\ \/ kind \in {"eosico", "eostokensa"} /\ Going("newAccount") /\ Pushes("code", 1)
     \/ kind = "neoico" /\ Going("deployed") /\ Pushes("init", 1)
  /\ Dies
  /\ UNCHANGED <<kind, state, txHash, now, made, named>>

SecondRefused ==
  /\ \/ kind \in {"eosico", "eostokensa"} /\ Receiving("newAccount")
     \/ kind = "neoico" /\ Receiving("deployed")
  /\ state \notin {"ACTIVE", "POSTPONED"}
  /\ NodeRefuses(Parts(kind)[2])

\* Ignored when ACTIVE; AlreadyPostponed where it is postponable.
NothingToDo ==
  /\ \/ kind \in {"eosico", "eostokensa"} /\ Receiving("newAccount")
     \/ kind = "eosaccount" /\ Receiving("newAccount") /\ state = "ACTIVE"
     \/ kind \in {"neoico", "eosdrop", "tronlostkey"} /\ Receiving("deployed")
     \/ kind \in TronKinds /\ Receiving("deployed") /\ state = "ACTIVE"
  /\ state \in {"ACTIVE", "POSTPONED"}
  /\ lockedBy' = IF state = "ACTIVE" THEN lockedBy
                 ELSE IF kind = "tronlostkey" THEN TakeOffFor(lockedBy, This)
                 ELSE TakeOffFor(Blocking(lockedBy, This), This)
  /\ Ack
  /\ UNCHANGED <<kind, state, network, now, troubles, thingVars>>
-----------------------------------------------------------------------------
(***************************************************************************)
(* The contract is taken for deployed.                                     *)
(***************************************************************************)
\* CommonDetails.msg_deployed: the lock first, the state last, so a handler
\* that dies does it all again.
MsgDeployed(type) ==
  /\ Receiving(type)
  /\ lockedBy' = TakeOff
  /\ \/ named' = Message.thing /\ state' = "ACTIVE" /\ Ends
     \/ UNCHANGED <<named, state>> /\ Dies
  /\ UNCHANGED <<kind, network, now, made>>

EOSTokenCreated   == kind = "eostoken" /\ MsgDeployed("tokenCreated")
EOSAccountCreated == /\ kind = "eosaccount" /\ state # "ACTIVE"
                     /\ MsgDeployed("newAccount")

\* @blocking @postponable @check_transaction
EOSAirdropDeployed ==
  /\ kind = "eosdrop"
  /\ state \notin {"ACTIVE", "POSTPONED"}
  /\ Receiving("deployed")
  /\ lockedBy' = TakeOff
  /\ \/ state' = "ACTIVE" /\ Ends
     \/ UNCHANGED state /\ Dies
  /\ UNCHANGED <<kind, network, now, made, named>>

\* The state first and the lock last, in any state, POSTPONED too.
Initialized(k, type) ==
  /\ kind = k
  /\ Receiving(type)
  /\ state' = "ACTIVE"
  /\ \/ lockedBy' = TakeOffFor(lockedBy, This) /\ Ends
     \/ UNCHANGED lockedBy /\ Dies
  /\ UNCHANGED <<kind, network, now, made, named>>

EOSICOInitialized   == Initialized("eosico", "initialized")
EOSTokenSACreated   == Initialized("eostokensa", "tokenCreated")

NeoICOInitialized ==
  /\ kind = "neoico"
  /\ Receiving("initialized")
  /\ IF state = "WAITING_FOR_DEPLOYMENT"
       THEN /\ lockedBy' = TakeOff
            /\ \/ state' = "ACTIVE" /\ Ends
               \/ UNCHANGED state /\ Dies
       ELSE /\ lockedBy' = IF state = "POSTPONED" THEN TakeOffFor(lockedBy, This)
                                                  ELSE lockedBy
            /\ Ack
            /\ UNCHANGED <<state, troubles, disturbed>>
  /\ UNCHANGED <<kind, network, now, made, named>>

\* The state, the address, the lock.  The receiver ignores 'deployed' when
\* the contract is ACTIVE, so what a handler that dies left out stays so.
TronDeployed(k) ==
  /\ kind = k
  /\ Receiving("deployed")
  /\ state # "ACTIVE"
  /\ k = "tronlostkey" => state # "POSTPONED"
  /\ state' = "ACTIVE"
  /\ \/ named' = Message.thing /\ lockedBy' = TakeOff /\ Ends
     \/ named' \in {named, Message.thing} /\ UNCHANGED lockedBy /\ Dies
  /\ UNCHANGED <<kind, network, now, made>>

TRONTokenDeployed   == TronDeployed("trontoken")
GameAssetsDeployed  == TronDeployed("gameassets")
TRONAirdropDeployed == TronDeployed("trondrop")
TRONLostkeyDeployed == TronDeployed("tronlostkey")

Finalized(after) ==
  /\ Receiving("finalized")
  /\ state' = after
  /\ Ack
  /\ UNCHANGED <<kind, lockedBy, network, now, troubles, thingVars>>

EOSICOFinalized     == kind = "eosico" /\ Finalized("DONE")
NeoICOFinalized     == kind = "neoico" /\ Finalized("ENDED")
TRONTokenFinalized  == kind = "trontoken" /\ Finalized("ENDED")
GameAssetsFinalized == kind = "gameassets" /\ Finalized("ENDED")
-----------------------------------------------------------------------------
(***************************************************************************)
(* The chain.                                                              *)
(***************************************************************************)
\* The scanner knows the contract by what its row names.
PartMined(i) ==
  /\ kind \in ScannedKinds
  /\ \E thing \in chain[i].with :
       /\ made' = [made EXCEPT ![thing] = @ \cup {chain[i].call}]
       /\ chain' = [chain EXCEPT ![i] = Settled]
       /\ ready' = IF named = Nothing THEN ready
                   ELSE Append(ready, About(TellsOf(kind, chain[i].call), thing))
  /\ UNCHANGED <<kind, state, lockedBy, unacked, txHash, onChain, now,
                 troubles, named, disturbed>>

\* Dropped or failed.  The handler that looks for the hash finds a contract
\* that is not the one, or this one.
PartFails(i) ==
  /\ kind \in ScannedKinds
  /\ chain[i].call # "settled"
  /\ Trouble
  /\ chain' = [chain EXCEPT ![i] = Settled]
  /\ ready' = Append(ready, TxFailed(i))
  /\ UNCHANGED <<kind, state, lockedBy, unacked, txHash, onChain, now, thingVars>>

\* The owner ends the sale or the minting of the thing that the row names.
OwnerFinalizes ==
  /\ kind \in {"eosico", "neoico", "trontoken", "gameassets"}
  /\ Quiet
  /\ state \notin {"ENDED", "DONE"}
  /\ named # Nothing
  /\ Whole(kind) \subseteq made[named]
  /\ Publish(About("finalized", named))
  /\ UNCHANGED <<kind, state, lockedBy, network, now, troubles, thingVars>>

ScannedNext ==
  \/ EOSTokenDeploy \/ EOSAccountDeploy \/ EOSAirdropDeploy \/ EOSTokenSADeploy
  \/ TRONTokenDeploy \/ GameAssetsDeploy \/ TRONAirdropDeploy \/ TRONLostkeyDeploy
  \/ EOSICODeploy \/ NeoICODeploy
  \/ ScannedPostponed \/ ScannedLaunchRaises \/ ScannedLaunchDies \/ LaunchRefused
  \/ NewAccount \/ NeoDeployed \/ SecondDies \/ SecondRefused \/ NothingToDo
  \/ EOSTokenCreated \/ EOSAccountCreated \/ EOSAirdropDeployed
  \/ EOSICOInitialized \/ EOSTokenSACreated \/ NeoICOInitialized
  \/ TRONTokenDeployed \/ GameAssetsDeployed \/ TRONAirdropDeployed
  \/ TRONLostkeyDeployed
  \/ EOSICOFinalized \/ NeoICOFinalized \/ TRONTokenFinalized \/ GameAssetsFinalized
  \/ (TransactionFailed \/ TransactionUnknown) /\ UNCHANGED thingVars
  \/ Restart /\ UNCHANGED thingVars
  \/ \E i \in DOMAIN chain : PartMined(i) \/ PartFails(i)
  \/ OwnerFinalizes
=============================================================================
