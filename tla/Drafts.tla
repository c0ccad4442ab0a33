-------------------------------- MODULE Drafts --------------------------------
(***************************************************************************)
(* The draft of a contract: created in one transaction, edited by requests *)
(* that save the rows of its heirs or token holders, its details and the   *)
(* contract one after the other, deleted, paid, launched and compiled.     *)
(*                                                                         *)
(* A form, what a request sends, is abstracted to what the validate(), the *)
(* price and the checks of time of its kind tell apart: "formats" stands   *)
(* for all that is asked of one field by itself, "sent" are the options    *)
(* that the form has a value for and "options" those it sets; of the       *)
(* fields kept here validate() lets a form leave out no others.            *)
(*                                                                         *)
(* Left out: edits that send no contract_details, free networks, promo     *)
(* codes (PromoCodes) and the subclasses for other networks, which change  *)
(* neither of the three.  A unit of the clock is five minutes.             *)
(***************************************************************************)
EXTENDS Naturals, Sequences, FiniteSetsExt

CONSTANTS
  Forms,     \* the forms that requests send
  Editors,   \* requests that are open at a time
  LastMinute, \* bound on the clock
  MaxBills   \* bound on the payments for the draft

ASSUME DraftBoundsAreNat == LastMinute \in Nat /\ MaxBills \in Nat

Fields == {"asks", "people", "given", "formats", "start", "stop", "soft", "hard",
           "until", "base", "quote", "options", "sent"}

\* ContractSerializer replaces any other state that a form asks for.
ASSUME FormsAreForms ==
  /\ Forms # {}
  /\ \A f \in Forms :
       /\ Fields \subseteq DOMAIN f
       /\ f.options \subseteq f.sent
       /\ f.asks \in {"CREATED", "WAITING_FOR_PAYMENT"}

VARIABLES
  what,     \* Contract.contract_type
  minute,   \* timezone.now()
  draft,    \* the contract's row: its state and cost
  people,   \* its Heir, TokenHolder or EOSTokenHolder rows
  details,  \* its details: the form they were saved from, options kept
  editing,  \* how far each open request is, and what it holds
  bills,    \* how often create_payment was called
  paid,     \* what it took the last time
  launched, \* 'launch' waits for the receiver
  built,    \* what compile() read, once it did
  mixed     \* requests overlapped, or an edit broke off

draftVars == <<what, minute, draft, people, details, editing, bills, paid, launched,
               built, mixed>>

HeirKinds   == {"lastwill", "lostkey", "lostkeytokens", "tronlostkey"}
HolderKinds == {"ico", "token", "neo", "neoico", "eostoken", "eosico",
                "trontoken", "solana"}
PlainKinds  == {"deferred", "airdrop", "pool", "eosaccount", "eosdrop",
                "eostokensa", "gameassets", "trondrop", "swaps", "swaps2",
                "waves", "protector"}
DraftKinds  == HeirKinds \cup HolderKinds \cup PlainKinds

Free     == [at |-> "free"]
NotBuilt == [at |-> "not built"]
-----------------------------------------------------------------------------
(***************************************************************************)
(* validate() and the rows, by kind.  A form that gives no people raises   *)
(* KeyError where its rows would be added, if validate() let it pass.      *)
(***************************************************************************)
WithRows(valid) == [rows |-> TRUE, valid |-> valid]
WithoutRows(valid) == [rows |-> FALSE, valid |-> valid]

Hundred(f)    == MapThenSumSet(LAMBDA p : p.share, f.people) = 100
SoonFrozen(list, t) == \E p \in list : p.freeze # 0 /\ p.freeze < t + 2
Dates(f)      == f.start >= minute + 1 /\ f.stop >= f.start + 1
Caps(f)       == f.soft <= f.hard

Will(f)       == WithRows(f.given /\ f.formats /\ Hundred(f))
TronLostkey(f) == WithRows(f.given /\ f.formats /\ Hundred(f))
LostKeyTokens(f) == WithRows(f.given /\ f.formats /\ Hundred(f))
ICO(f)        == WithRows(/\ f.given /\ f.formats /\ Dates(f) /\ Caps(f)
                          /\ ~SoonFrozen(f.people, minute))
Token(f)      == WithRows(f.given /\ f.formats /\ ~SoonFrozen(f.people, minute))
TronToken(f)  == WithRows(f.given /\ f.formats /\ ~SoonFrozen(f.people, minute))
Neo(f)        == WithRows(f.formats)
NeoICO(f)     == WithRows(f.formats /\ Dates(f))
EOSToken(f)   == WithRows(f.formats)
EOSICO(f)     == WithRows(f.given /\ f.formats /\ Dates(f) /\ Caps(f))
Solana(f)     == WithRows(f.formats)
Deferred(f)   == WithoutRows(f.formats)
AirdropForm(f) == WithoutRows(TRUE)
TronDrop(f)   == WithoutRows(TRUE)
Pool(f)       == WithoutRows(f.formats /\ Dates(f) /\ Caps(f))
EOSAccount(f) == WithoutRows(f.formats)
EOSDrop(f)    == WithoutRows(f.formats)
EOSTokenSA(f) == WithoutRows(f.formats)
GameAssets(f) == WithoutRows(f.formats)
Swaps(f)      == WithoutRows(f.formats /\ f.base # f.quote)
Swaps2(f)     == WithoutRows(f.formats /\ f.base # f.quote)
WavesSTO(f)   == WithoutRows(f.formats /\ Dates(f))
Protector(f)  == WithoutRows(f.formats /\ f.until >= minute + 6)

\* get_details_serializer
Serializer(f) ==
  CASE what \in {"lastwill", "lostkey"} -> Will(f)
    [] what = "tronlostkey"   -> TronLostkey(f)
    [] what = "lostkeytokens" -> LostKeyTokens(f)
    [] what = "ico"        -> ICO(f)        [] what = "token"      -> Token(f)
    [] what = "trontoken"  -> TronToken(f)  [] what = "neo"        -> Neo(f)
    [] what = "neoico"     -> NeoICO(f)     [] what = "eostoken"   -> EOSToken(f)
    [] what = "eosico"     -> EOSICO(f)     [] what = "solana"     -> Solana(f)
    [] what = "deferred"   -> Deferred(f)   [] what = "airdrop"    -> AirdropForm(f)
    [] what = "trondrop"   -> TronDrop(f)   [] what = "pool"       -> Pool(f)
    [] what = "eosaccount" -> EOSAccount(f) [] what = "eosdrop"    -> EOSDrop(f)
    [] what = "eostokensa" -> EOSTokenSA(f) [] what = "gameassets" -> GameAssets(f)
    [] what = "swaps"      -> Swaps(f)      [] what = "swaps2"     -> Swaps2(f)
    [] what = "waves"      -> WavesSTO(f)   [] what = "protector"  -> Protector(f)

\* calc_cost(): what is paid of the price list, the kind and the options it
\* knows.  The wills reckon with the heirs and the time until active_to, and
\* answer the price of the kind; the price of EOS memory is left out.
With(f, known, entry) == {entry} \cup (f.options \cap known)

TokenPrice(f)  == With(f, {"authio", "verification", "white_label"}, "ETH_TOKEN")
SolanaPrice(f) == With(f, {"verification", "white_label"}, "SOLANA_TOKEN")
ICOPrice(f)    == With(f, {"verification"}, "ETH_ICO")
DropPrice(f)   == With(f, {"verification"}, "ETH_AIRDROP")
TronPrice(f)   == With(f, {"verification"}, "TRON")
WillPrice          == {"ETH_LASTWILL"}
LostKeyPrice       == {"ETH_LOSTKEY"}
LostKeyTokensPrice == {"ETH_LOSTKEY_TOKENS"}
TronLostkeyPrice   == {"TRON_LOSTKEY"}
SwapsPrice         == {"half an ether"}
EOSAccountPrice    == {"EOS_ACCOUNT"}

Price(f) ==
  CASE what = "token"  -> TokenPrice(f)
    [] what = "solana" -> SolanaPrice(f)
    [] what = "ico"    -> ICOPrice(f)
    [] what = "airdrop" -> DropPrice(f)
    [] what \in {"trontoken", "gameassets", "trondrop"} -> TronPrice(f)
    [] what = "lastwill"      -> WillPrice
    [] what = "lostkey"       -> LostKeyPrice
    [] what = "lostkeytokens" -> LostKeyTokensPrice
    [] what = "tronlostkey"   -> TronLostkeyPrice
    [] what = "swaps"         -> SwapsPrice
    [] what = "eosaccount"    -> EOSAccountPrice
    [] OTHER -> {"of the kind"}

\* predeploy_validate(), of the rows list and the details f.
NotOver(f)       == f.until >= minute
ICOTimely(f, list) == f.start >= minute /\ ~SoonFrozen(list, minute)
TokenTimely(list)  == ~SoonFrozen(list, minute)
EOSICOTimely(f)    == f.start >= minute + 2
PoolTimely(f)      == 5 * f.start >= 5 * minute + 7
ProtectorTimely(f) == f.until >= minute + 6
SaleTimely(f)      == f.start >= minute

Timely(f, list) ==
  CASE what \in {"lastwill", "lostkey", "deferred"} -> NotOver(f)
    [] what = "ico"       -> ICOTimely(f, list)
    [] what \in {"token", "trontoken", "eostoken"} -> TokenTimely(list)
    [] what = "eosico"    -> EOSICOTimely(f)
    [] what = "pool"      -> PoolTimely(f)
    [] what = "protector" -> ProtectorTimely(f)
    [] what \in {"neoico", "waves"} -> SaleTimely(f)
    [] OTHER -> TRUE
-----------------------------------------------------------------------------
(***************************************************************************)
(* The requests.                                                           *)
(***************************************************************************)
Drafted == {"CREATED", "WAITING_FOR_PAYMENT"}

DraftTypeOK ==
  /\ what \in DraftKinds
  /\ minute \in 0..LastMinute
  /\ draft.state \in Drafted \cup {"none", "destroyed", "TIME_IS_UP",
                                 "WAITING_ACTIVATION", "WAITING_FOR_DEPLOYMENT"}
  /\ \A r \in Editors : editing[r].at \in {"free", "read", "deleted", "rows",
                                          "details", "edited", "charged"}
  /\ launched \in BOOLEAN /\ mixed \in BOOLEAN
  /\ bills \in 0..MaxBills

DraftInit ==
  /\ what \in DraftKinds
  /\ minute = 0
  /\ draft = [state |-> "none", cost |-> {}]
  /\ people = {}
  /\ details \in {CHOOSE f \in Forms : TRUE}
  /\ editing = [r \in Editors |-> Free]
  /\ bills = 0 /\ paid = {}
  /\ launched = FALSE
  /\ built = NotBuilt
  /\ mixed = FALSE

\* create(): rolled back when it raises.
Create(f) ==
  /\ draft.state = "none"
  /\ Serializer(f).valid
  /\ Serializer(f).rows => f.given
  /\ draft' = [state |-> f.asks, cost |-> Price(f)]
  /\ people' = IF Serializer(f).rows THEN f.people ELSE {}
  /\ details' = f
  /\ UNCHANGED <<what, minute, editing, bills, paid, launched, built, mixed>>

\* A request starts when others may be open.  Bounds: none after compile(),
\* when only requests that overlapped find the state that lets them; and when
\* some have overlapped, none between the launch and compile().
Opens(r, held) ==
  /\ built = NotBuilt
  /\ ~(mixed /\ launched)
  /\ editing[r] = Free
  /\ editing' = [editing EXCEPT ![r] = held]
  /\ mixed' = (mixed \/ \E o \in Editors \ {r} : editing[o] # Free)

Goes(r, from, to) ==
  /\ editing[r].at = from
  /\ editing' = [editing EXCEPT ![r] = IF to = "free" THEN Free
                                                      ELSE [@ EXCEPT !.at = to]]

\* The details as they were read, with what the form has a value for.
Edited(f, old) == [f EXCEPT !.options = @ \cup (old.options \ f.sent)]

\* update(): the state is checked, the form validated and priced by itself.
Reads(r, f) ==
  /\ draft.state = "CREATED"
  /\ Serializer(f).valid
  /\ Opens(r, [at |-> IF Serializer(f).rows THEN "read" ELSE "rows",
               form |-> Edited(f, details), price |-> Price(f)])
  /\ UNCHANGED <<what, minute, draft, people, details, bills, paid, launched, built>>

\* Seeded bug: the old rows stay.
KeepsRows == people

OldRowsLeft == {}

DeletesRows(r) ==
  /\ Goes(r, "read", "deleted")
  /\ people' = OldRowsLeft
  /\ UNCHANGED <<what, minute, draft, details, bills, paid, launched, built, mixed>>

AddsRows(r) ==
  /\ Goes(r, "deleted", "rows")
  /\ editing[r].form.given
  /\ people' = people \cup editing[r].form.people
  /\ UNCHANGED <<what, minute, draft, details, bills, paid, launched, built, mixed>>

SavesDetails(r) ==
  /\ Goes(r, "rows", "details")
  /\ details' = editing[r].form
  /\ UNCHANGED <<what, minute, draft, people, bills, paid, launched, built, mixed>>

\* The whole row, as the request has read and changed it.
SavesContract(r) ==
  /\ Goes(r, "details", "free")
  /\ draft' = [state |-> editing[r].form.asks, cost |-> editing[r].price]
  /\ UNCHANGED <<what, minute, people, details, bills, paid, launched, built, mixed>>

\* KeyError for want of people, or any other failure: what is saved stays.
BreaksOff(r) ==
  /\ \E from \in {"read", "deleted", "rows", "details"} : Goes(r, from, "free")
  /\ mixed' = TRUE
  /\ UNCHANGED <<what, minute, draft, people, details, bills, paid, launched, built>>

\* create_payment: when the balance is too low the UPDATE finds no row, which
\* is no exception.
Charges(price) == bills' = bills + 1 /\ paid' \in {price, {"nothing"}}

\* deploy(): the price that was read is charged; the row as it was read is
\* saved, and the launch published.
Pays(r) ==
  /\ draft.state \in Drafted
  /\ bills < MaxBills
  /\ Timely(details, people)
  /\ Opens(r, [at |-> "charged", row |-> draft])
  /\ Charges(draft.cost)
  /\ UNCHANGED <<what, minute, draft, people, details, launched, built>>

Marks(r) ==
  /\ Goes(r, "charged", "free")
  /\ draft' = [editing[r].row EXCEPT !.state = "WAITING_FOR_DEPLOYMENT"]
  /\ launched' = TRUE
  /\ UNCHANGED <<what, minute, people, details, bills, paid, built, mixed>>

\* change_contract_state: the customer deploys a swap from a wallet of theirs.
ChangeContractState ==
  /\ what = "swaps2"
  /\ draft.state = "CREATED"
  /\ draft' = [draft EXCEPT !.state = "WAITING_ACTIVATION"]
  /\ mixed' = (mixed \/ \E o \in Editors : editing[o] # Free)
  /\ UNCHANGED <<what, minute, people, details, editing, bills, paid, launched, built>>

\* The row and all that refers to it.
Destroy ==
  /\ draft.state \in Drafted \cup {"WAITING_ACTIVATION"}
  /\ draft' = [state |-> "destroyed", cost |-> {}]
  /\ people' = {}
  /\ mixed' = (mixed \/ \E o \in Editors : editing[o] # Free)
  /\ UNCHANGED <<what, minute, details, editing, bills, paid, launched, built>>

\* to_representation() of a protector: a look at the draft ends it.
ShownTooLate ==
  /\ what = "protector"
  /\ draft.state \in Drafted
  /\ ~ProtectorTimely(details)
  /\ draft' = [draft EXCEPT !.state = "TIME_IS_UP"]
  /\ mixed' = (mixed \/ \E o \in Editors : editing[o] # Free)
  /\ UNCHANGED <<what, minute, people, details, editing, bills, paid, launched, built>>

-----------------------------------------------------------------------------
(***************************************************************************)
(* compile() of each kind: the rows that become arguments or constants of  *)
(* the contract, and what it takes from the details of what is told apart  *)
(* here.  Kinds without a compile() read when they deploy.                 *)
(***************************************************************************)
Takes(rows, fields) ==
  [at |-> "built", people |-> rows, from |-> [x \in fields |-> details[x]]]

Sale == {"start", "stop", "soft", "hard"}

WillCompile          == Takes(people, {})
LostKeyCompile       == Takes(people, {})
LostKeyTokensCompile == Takes(people, {})
TronLostkeyCompile   == Takes(people, {})
DeferredCompile      == Takes({}, {"until"})
ICOCompile           == Takes(people, Sale)
TokenCompile         == Takes(people, {"options"})
TronTokenCompile     == Takes(people, {})
NeoCompile           == Takes(people, {})
NeoICOCompile        == Takes(people, Sale \ {"soft"})
EOSTokenCreate       == Takes({}, {})  \* the rows are never read
EOSICOCompile        == Takes(people, {"soft", "hard"})
SolanaCreate         == Takes(people, {})
AirdropCompile       == Takes({}, {})
TronDropCompile      == Takes({}, {})
GameAssetsCompile    == Takes({}, {})
PoolCompile          == Takes({}, Sale)
SwapsCompile         == Takes({}, {"base", "quote", "stop"})
WavesCompile         == Takes({}, Sale)
ProtectorCompile     == Takes({}, {"until"})

Compilation ==
  CASE what = "lastwill"      -> WillCompile
    [] what = "lostkey"       -> LostKeyCompile
    [] what = "lostkeytokens" -> LostKeyTokensCompile
    [] what = "tronlostkey"   -> TronLostkeyCompile
    [] what = "deferred"   -> DeferredCompile   [] what = "ico"   -> ICOCompile
    [] what = "token"      -> TokenCompile      [] what = "neo"   -> NeoCompile
    [] what = "trontoken"  -> TronTokenCompile  [] what = "pool"  -> PoolCompile
    [] what = "neoico"     -> NeoICOCompile     [] what = "swaps" -> SwapsCompile
    [] what = "eostoken"   -> EOSTokenCreate    [] what = "waves" -> WavesCompile
    [] what = "eosico"     -> EOSICOCompile     [] what = "airdrop" -> AirdropCompile
    [] what = "solana"     -> SolanaCreate      [] what = "protector" -> ProtectorCompile
    [] what = "gameassets" -> GameAssetsCompile [] what = "trondrop" -> TronDropCompile
    [] OTHER -> Takes({}, {})

\* Those that have no temp_directory to tell them 'already compiled'.
CompiledAnew == {"lastwill", "lostkey", "deferred", "airdrop", "swaps2",
                 "eostoken", "eosaccount", "eosdrop", "eostokensa", "solana"}

\* Those that are deployed by CommonDetails.deploy, which looks at the state.
DeployedInCommon == (HeirKinds \ {"tronlostkey"}) \cup
  {"deferred", "ico", "token", "airdrop", "pool", "swaps", "swaps2", "protector"}

\* The receiver: the contract was deleted, or its state is past deployment.
Ignored ==
  \/ draft.state = "destroyed"
  \/ /\ what \in DeployedInCommon
     /\ draft.state \notin {"CREATED", "WAITING_FOR_DEPLOYMENT"}

LaunchDropped ==
  /\ launched
  /\ Ignored
  /\ launched' = FALSE
  /\ UNCHANGED <<what, minute, draft, people, details, editing, bills, paid, built, mixed>>

Compiles ==
  /\ launched
  /\ ~Ignored
  /\ launched' = FALSE
  /\ built' = IF built = NotBuilt \/ what \in CompiledAnew THEN Compilation ELSE built
  /\ UNCHANGED <<what, minute, draft, people, details, editing, bills, paid, mixed>>

MinutePasses ==
  /\ minute < LastMinute
  /\ minute' = minute + 1
  /\ UNCHANGED <<what, draft, people, details, editing, bills, paid, launched, built, mixed>>

DraftNext ==
  \/ \E f \in Forms : Create(f) \/ \E r \in Editors : Reads(r, f)
  \/ \E r \in Editors :
       \/ DeletesRows(r) \/ AddsRows(r) \/ SavesDetails(r) \/ SavesContract(r)
       \/ BreaksOff(r) \/ Pays(r) \/ Marks(r)
  \/ ChangeContractState \/ Destroy \/ ShownTooLate \/ LaunchDropped \/ Compiles \/ MinutePasses
=============================================================================
