----------------------------- MODULE InlineChains -----------------------------
(***************************************************************************)
(* The deployment on NEO, Waves, Solana and NEAR, where nobody scans the   *)
(* chain: one handler sends every transaction, waits for those it needs    *)
(* and marks the contract itself.  On NEO, Waves and Solana the handler is *)
(* that of 'launch'; on NEAR it is the request of the customer.            *)
(*                                                                         *)
(* A handler may raise or die after any of its steps.  The step it came to *)
(* is a choice of the action, since nothing else acts on the contract while*)
(* the receiver works; two requests on NEAR do interleave.                 *)
(***************************************************************************)
EXTENDS ContractRow

CONSTANT NearRequests \* the requests that deploy on NEAR; each is a thing too

ASSUME NearRequestsAreThings == NearRequests \subseteq 1..MaxTxs

VARIABLES
  has,        \* the parts that each thing on the chain has
  rowNames,   \* the thing that the contract's row names
  again,      \* a launch ran again after it had begun, or two requests overlapped
  future_minting, \* details.future_minting, of the draft
  source,     \* Waves: the thing whose asset the compiled script sells
  asset_id,   \* Waves: the thing whose asset the row names
  near        \* NEAR: how far each request has come

inlineVars == <<has, rowNames, again, future_minting, source, asset_id, near>>

InlineKinds == {"neotoken", "waves", "solana", "near"}
Objects     == 1..MaxTxs
None        == 0
PartsOf(k)  ==
  CASE k = "neotoken" -> {"relayed"}
    [] k = "waves"    -> {"asset", "script"}
    [] k = "solana"   -> {"mint", "minted", "authority"}
    [] k = "near"     -> {"account", "contract"}

InlineTypeOK ==
  /\ has \in [Objects -> SUBSET {"relayed", "asset", "script", "foreign script",
                                 "mint", "minted", "authority",
                                 "account", "contract", "no keys"}]
  /\ {rowNames, source, asset_id} \subseteq Objects \cup {None}
  /\ again \in BOOLEAN /\ future_minting \in BOOLEAN
  /\ near \in [NearRequests -> {"idle", "accepted", "account", "deployed", "over"}]
  /\ state \in {"CREATED", "WAITING_FOR_DEPLOYMENT", "WAITING_ACTIVATION",
                "POSTPONED", "ACTIVE", "ENDED", "DONE"}

InlineInit ==
  /\ kind \in InlineKinds
  /\ onChain = "alive"
  /\ IF kind = "near" THEN state = "CREATED" /\ ready = << >>
                      ELSE state = "WAITING_FOR_DEPLOYMENT" /\ ready = <<Launch>>
  /\ has = [t \in Objects |-> {}]
  /\ rowNames = None
  /\ again = FALSE
  /\ future_minting \in (IF kind = "waves" THEN {TRUE} ELSE BOOLEAN)
  /\ source = None
  /\ asset_id = None
  /\ near = [r \in NearRequests |-> "idle"]

\* The contract's state after initialized().
Initialised == IF future_minting THEN "ACTIVE" ELSE "ENDED"

Begun(k) == kind = k /\ Receiving("launch") /\ state # "POSTPONED"

Fresh(t) == t \in Objects /\ has[t] = {} /\ \A u \in 1..(t - 1) : has[u] # {}

\* The end of a launch, after what it did: done; done, but the process dies
\* before the ack; it raises on the way; or it dies there.
Done(lock)    == lockedBy' = lock /\ Ack /\ UNCHANGED <<troubles, again>>
DoneTwice(lock) == lockedBy' = lock /\ DeliveredAgain /\ again' = TRUE
RaisesThere   == Postpone(Blocking(lockedBy, This)) /\ LeaveUnacked /\ UNCHANGED again
DiesThere     == /\ UNCHANGED state
                 /\ lockedBy' = Blocking(lockedBy, This)
                 /\ DeliveredAgain
                 /\ again' = TRUE

InlinePostponed == kind # "near" /\ LaunchPostponed /\ UNCHANGED inlineVars
-----------------------------------------------------------------------------
(***************************************************************************)
(* NEO: neo-cli signs and relays, and initialized({}) runs at once.  The   *)
(* hash of the contract comes from its code, so there is one thing; to     *)
(* relay it again neo-cli refuses.                                         *)
(***************************************************************************)
\* initialized() returns when the state is neither of the two; the lock then
\* stays with the contract.
NeoInitialized == state \in {"WAITING_FOR_DEPLOYMENT", "ENDED"}

NeoTokenDeploy ==
  /\ Begun("neotoken")
  /\ Fresh(1)
  /\ has' = [has EXCEPT ![1] = {"relayed"}]
  /\ rowNames' = 1
  /\ NeoInitialized
  /\ state' = Initialised
  /\ Done(TakeOff) \/ DoneTwice(TakeOff)
  /\ UNCHANGED <<kind, network, now, future_minting, source, asset_id, near>>

NeoTokenBreaks ==
  /\ Begun("neotoken")
  /\ \/ has[1] = {} /\ has' = [has EXCEPT ![1] = {"relayed"}]
     \/ UNCHANGED has
  /\ rowNames' \in IF has' # has THEN {rowNames, 1} ELSE {rowNames}
  /\ RaisesThere \/ DiesThere
  /\ UNCHANGED <<kind, network, now, future_minting, source, asset_id, near>>
-----------------------------------------------------------------------------
(***************************************************************************)
(* Waves: a new account t, funded by the platform's, which issues the      *)
(* asset; compile(), which does nothing when there is a source already;    *)
(* the script of the account.  A sale that reuses a token is left out.     *)
(***************************************************************************)
WavesSteps == <<"fund", "issue", "compile", "script", "asset_id", "ride">>

After(step, far) ==
  \E i, j \in DOMAIN WavesSteps :
    WavesSteps[i] = step /\ WavesSteps[j] = far /\ i <= j

\* Seeded bug: the sale is marked before its script is set.
ServedBeforeScript == "issue"

\* The step after which the sale is ACTIVE.
LastStep == "ride"

Compiled(t) == IF source = None THEN t ELSE source

\* The chain and the rows when a launch with account t has done step far.
WavesDone(t, far) ==
  LET src    == IF After("compile", far) THEN Compiled(t) ELSE source
      script == IF src = t THEN "script" ELSE "foreign script"
  IN  /\ has' = [has EXCEPT ![t] =
           @ \cup (IF After("issue", far) THEN {"asset"} ELSE {})
             \cup (IF After("script", far) THEN {script} ELSE {})]
      /\ source' = src
      /\ asset_id' = IF After("asset_id", far) /\ asset_id = None THEN t
                                                                  ELSE asset_id
      /\ rowNames' = IF After("ride", far) THEN t ELSE rowNames

WavesDeploy ==
  /\ Begun("waves")
  /\ \E t \in Objects : Fresh(t) /\ WavesDone(t, LastStep)
  /\ state' = "ACTIVE"
  /\ Done(TakeOff) \/ DoneTwice(TakeOff)
  /\ UNCHANGED <<kind, network, now, future_minting, near>>

WavesBreaks ==
  /\ Begun("waves")
  /\ \E t \in Objects, i \in DOMAIN WavesSteps :
       Fresh(t) /\ WavesDone(t, WavesSteps[i])
  /\ RaisesThere \/ DiesThere
  /\ UNCHANGED <<kind, network, now, future_minting, near>>
-----------------------------------------------------------------------------
(***************************************************************************)
(* Solana: a new mint t, confirmed, which the row names at once; then      *)
(* msg_deployed({}) mints to the holders and hands the authority over,     *)
(* each confirmed; initialized({}).                                        *)
(***************************************************************************)
SolanaSteps == << {}, {"mint"}, {"mint", "minted"}, PartsOf("solana") >>

SolanaDeploy ==
  /\ Begun("solana")
  /\ state = "WAITING_FOR_DEPLOYMENT"
  /\ \E t \in Objects :
       /\ Fresh(t)
       /\ has' = [has EXCEPT ![t] = PartsOf("solana")]
       /\ rowNames' = t
  /\ state' = Initialised
  /\ Done(TakeOff) \/ DoneTwice(TakeOff)
  /\ UNCHANGED <<kind, network, now, future_minting, source, asset_id, near>>

SolanaBreaks ==
  /\ Begun("solana")
  /\ state = "WAITING_FOR_DEPLOYMENT"
  /\ \E t \in Objects, i \in DOMAIN SolanaSteps :
       /\ Fresh(t)
       /\ has' = [has EXCEPT ![t] = SolanaSteps[i]]
       /\ rowNames' \in IF "mint" \in SolanaSteps[i] THEN {t} ELSE {rowNames}
  /\ RaisesThere \/ DiesThere
  /\ UNCHANGED <<kind, network, now, future_minting, source, asset_id, near>>

\* The launch comes again when the contract is served: deploy() asks for no
\* state, so the row names a new mint; msg_deployed() returns.
SolanaAnew ==
  /\ Begun("solana")
  /\ state # "WAITING_FOR_DEPLOYMENT"
  /\ \E t \in Objects :
       /\ Fresh(t)
       /\ has' = [has EXCEPT ![t] = {"mint"}]
       /\ rowNames' = t
  /\ lockedBy' = TakeOff
  /\ Ack
  /\ UNCHANGED <<kind, state, network, now, troubles, again, future_minting,
                 source, asset_id, near>>
-----------------------------------------------------------------------------
(***************************************************************************)
(* NEAR: deploy_near_contract.  A request works on the rows as it read     *)
(* them, and the guards of deploy() and initialized() on its own copy.     *)
(***************************************************************************)
nearRest == <<kind, queue, network, now, future_minting, source, asset_id>>

NearGoes(r, from, to) ==
  /\ kind = "near"
  /\ near[r] = from
  /\ near' = [near EXCEPT ![r] = to]

\* The state is checked, the price charged, and the state saved.
NearAccepts(r) ==
  /\ NearGoes(r, "idle", "accepted")
  /\ state \in {"CREATED", "WAITING_FOR_DEPLOYMENT"}
  /\ state' = "WAITING_FOR_DEPLOYMENT"
  /\ again' = (again \/ \E o \in NearRequests \ {r} : near[o] # "idle")
  /\ UNCHANGED <<nearRest, lockedBy, troubles, has, rowNames>>

\* new_account: the row names the account that this request has made.
NearNewAccount(r) ==
  /\ NearGoes(r, "accepted", "account")
  /\ has' = [has EXCEPT ![r] = {"account"}]
  /\ rowNames' = r
  /\ lockedBy' = Blocking(lockedBy, This)
  /\ UNCHANGED <<nearRest, state, troubles, again>>

\* deploy_and_init_contract; compile() has saved the request's row again.
NearDeploys(r) ==
  /\ NearGoes(r, "account", "deployed")
  /\ has' = [has EXCEPT ![r] = @ \cup {"contract"}]
  /\ rowNames' = r
  /\ state' = "WAITING_ACTIVATION"
  /\ UNCHANGED <<nearRest, lockedBy, troubles, again>>

\* A transfer that failed is printed only; without it the deployment fails,
\* and the hash that it should have bound is not: deploy() raises.
NearRaises(r) ==
  /\ \E from \in {"accepted", "account"} : NearGoes(r, from, "over")
  /\ Trouble
  /\ rowNames' = IF near[r] = "account" THEN r ELSE rowNames
  /\ Postpone(Blocking(lockedBy, This))
  /\ UNCHANGED <<nearRest, has, again>>

\* burn_keys: a failure is printed only, and check_contract does not look.
NearBurnsKeys(r) == has' = [has EXCEPT ![r] = @ \cup {"no keys"}]

\* The lock stays with the contract.
NearInitialized(r) ==
  /\ NearGoes(r, "deployed", "over")
  /\ \/ NearBurnsKeys(r) /\ UNCHANGED troubles
     \/ Trouble /\ UNCHANGED has
  /\ state' = IF future_minting THEN "ACTIVE" ELSE "DONE"
  /\ lockedBy' = Blocking(lockedBy, This)
  /\ UNCHANGED <<nearRest, rowNames, again>>

\* check_contract reads other metadata than the row's.
NearIsCorrupted(r) ==
  /\ NearGoes(r, "deployed", "over")
  /\ Trouble
  /\ NearBurnsKeys(r) \/ UNCHANGED has
  /\ Postpone(Blocking(lockedBy, This))
  /\ UNCHANGED <<nearRest, rowNames, again>>

InlineNext ==
  \/ InlinePostponed
  \/ NeoTokenDeploy \/ NeoTokenBreaks
  \/ WavesDeploy \/ WavesBreaks
  \/ SolanaDeploy \/ SolanaBreaks \/ SolanaAnew
  \/ \E r \in NearRequests :
       \/ NearAccepts(r) \/ NearNewAccount(r) \/ NearDeploys(r) \/ NearRaises(r)
       \/ NearInitialized(r) \/ NearIsCorrupted(r)
  \/ Restart /\ UNCHANGED inlineVars
=============================================================================
