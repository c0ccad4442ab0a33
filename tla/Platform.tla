------------------------------- MODULE Platform -------------------------------
(***************************************************************************)
(* The parts of the platform beside the Ethereum contracts of the other    *)
(* modules: a contract on another chain, a draft, a promo code, a transfer *)
(* over a bridge, an account, the shares put aside.  No two write a row of *)
(* each other but those that a module holds together, so one of them is    *)
(* looked at at a time: kind says which, and the others rest.              *)
(***************************************************************************)
EXTENDS ScannedChains, InlineChains, TokenApi, PromoCodes, PanamaBridge, Accounts,
        FrozenShares

platformVars == <<rowVars, thingVars, inlineVars, draftVars, invisible, promoVars,
                  bridgeVars, accountVars, shareVars>>

ScannedRests ==
  /\ made = [t \in Things |-> {}] /\ named = Nothing /\ disturbed = FALSE

InlineRests ==
  /\ has = [t \in Objects |-> {}] /\ rowNames = None /\ again = FALSE
  /\ future_minting = FALSE /\ source = None /\ asset_id = None
  /\ near = [r \in NearRequests |-> "idle"]

RowRests ==
  /\ RowInit
  /\ state = "CREATED" /\ ready = << >> /\ onChain = "none"
  /\ ScannedRests /\ InlineRests

DraftRests ==
  /\ what = "deferred" /\ minute = 0
  /\ draft = [state |-> "none", cost |-> {}]
  /\ people = {} /\ details = NotBuilt
  /\ editing = [r \in Editors |-> Free]
  /\ bills = 0 /\ paid = {} /\ launched = FALSE /\ built = NotBuilt /\ mixed = FALSE
  /\ invisible = FALSE

PromoRests ==
  /\ today = 0 /\ user2promo = [c \in Customers |-> 0]
  /\ promo = [reusable |-> FALSE, use_count_max |-> 0, use_count |-> 0,
              start |-> 0, stop |-> 0]
  /\ discounts = [c \in Customers |-> 0]
  /\ request = [r \in Launchers |-> Vacant] /\ overlapped = FALSE

BridgeRests == BridgeInit

AccountRests ==
  /\ user = FALSE /\ profile = FALSE /\ halved = FALSE
  /\ balances = [s \in Sites |-> 0]
  /\ login = [r \in Requests |-> "away"]
  /\ by = "register"

Init ==
  \/ /\ RowInit
     /\ \/ kind \in ScannedKinds /\ ThingInit /\ InlineRests
        \/ InlineInit /\ ScannedRests
     /\ DraftRests /\ PromoRests /\ BridgeRests /\ AccountRests /\ ShareInit
  \/ /\ RowRests /\ ShareInit
     /\ \/ kind = "draft" /\ DraftInit /\ ApiInit
           /\ PromoRests /\ BridgeRests /\ AccountRests
        \/ kind = "promo" /\ PromoInit /\ DraftRests /\ BridgeRests /\ AccountRests
        \/ kind = "bridge" /\ BridgeInit /\ DraftRests /\ PromoRests /\ AccountRests
        \/ kind = "account" /\ AccountInit /\ DraftRests /\ PromoRests /\ BridgeRests
        \/ kind = "shares" /\ DraftRests /\ PromoRests /\ BridgeRests /\ AccountRests

ScannedStep ==
  /\ kind \in ScannedKinds
  /\ ScannedNext
  /\ UNCHANGED <<inlineVars, draftVars, invisible, promoVars, bridgeVars, accountVars,
                 shareVars>>

InlineStep ==
  /\ kind \in InlineKinds
  /\ InlineNext
  /\ UNCHANGED <<thingVars, draftVars, invisible, promoVars, bridgeVars, accountVars,
                 shareVars>>

DraftStep ==
  /\ kind = "draft"
  /\ ApiNext
  /\ UNCHANGED <<rowVars, thingVars, inlineVars, promoVars, bridgeVars, accountVars,
                 shareVars>>

PromoStep ==
  /\ kind = "promo"
  /\ PromoNext
  /\ UNCHANGED <<rowVars, thingVars, inlineVars, draftVars, invisible, bridgeVars,
                 accountVars, shareVars>>

BridgeStep ==
  /\ kind = "bridge"
  /\ BridgeNext
  /\ UNCHANGED <<rowVars, thingVars, inlineVars, draftVars, invisible, promoVars,
                 accountVars, shareVars>>

AccountStep ==
  /\ kind = "account"
  /\ AccountNext
  /\ UNCHANGED <<rowVars, thingVars, inlineVars, draftVars, invisible, promoVars,
                 bridgeVars, shareVars>>

ShareStep ==
  /\ kind = "shares"
  /\ ShareNext
  /\ UNCHANGED <<rowVars, thingVars, inlineVars, draftVars, invisible, promoVars,
                 bridgeVars, accountVars>>

Next ==
  \/ ScannedStep \/ InlineStep \/ DraftStep \/ PromoStep \/ BridgeStep \/ AccountStep
  \/ ShareStep

Spec == Init /\ [][Next]_platformVars

PlatformTypeOK ==
  /\ RowTypeOK
  /\ kind \in ScannedKinds => ThingTypeOK
  /\ kind \in InlineKinds => InlineTypeOK
  /\ kind = "draft" => DraftTypeOK
  /\ kind = "promo" => PromoTypeOK
  /\ kind = "bridge" => BridgeTypeOK
  /\ kind = "account" => AccountTypeOK
  /\ kind = "shares" => ShareTypeOK
-----------------------------------------------------------------------------
(***************************************************************************)
(* The contracts of the other chains.                                      *)
(***************************************************************************)
Served == state \in {"ACTIVE", "ENDED", "DONE"}

(***************************************************************************)
(* What the site shows as ready is whole on the chain: the thing that the  *)
(* contract's row names has every part, through crashes, exceptions,       *)
(* refusals of the node and messages that come again.  On TRON a handler   *)
(* that dies after it saved the state leaves the address of another        *)
(* attempt; on Waves, Solana and NEAR a launch that runs again names a new *)
(* thing; an EOS crowdsale is named by its draft.  NEO's tokens are served *)
(* when they are relayed.                                                  *)
(***************************************************************************)
ServedIsWhole ==
  Served =>
    /\ kind \in EosKinds \cup {"neoico"} => Whole(kind) \subseteq made[1]
    /\ kind \in TronKinds /\ ~disturbed =>
         named # Nothing /\ Whole(kind) \subseteq made[named]
    /\ kind \in InlineKinds /\ ~again =>
         rowNames # None /\ PartsOf(kind) \subseteq has[rowNames]
    /\ kind = "waves" /\ ~again => asset_id = rowNames

(***************************************************************************)
(* A served contract gives the deployment address back: when its messages  *)
(* are handled it does not hold the lock of its network, so the next       *)
(* launch there need not wait.  A handler that died between the state and  *)
(* the lock, a launch that ran again and NEAR's deploy(), which never      *)
(* releases, keep it.                                                      *)
(***************************************************************************)
FreedWhenServed ==
  Served /\ Quiet /\ kind # "near" /\ ~disturbed /\ ~again => lockedBy # This
-----------------------------------------------------------------------------
(***************************************************************************)
(* Unless requests overlapped or an edit broke off, what is deployed is    *)
(* one form that the customer sent: its own heirs or holders and all that  *)
(* compile() takes of its details, and nothing of an earlier one but the   *)
(* options that this form has no value for, which stay in the row and are  *)
(* not in its price.  The heirs' shares are all that is left; and it is    *)
(* charged once, at the form's price or the API's (whose drafts cost       *)
(* nothing on the site), or nothing is taken because the balance is too    *)
(* low.  A draft that was so charged is not deleted, and none is deployed  *)
(* before the charge was tried, whatever the requests do.  An EOS token is *)
(* created without its holders.                                            *)
(***************************************************************************)
BuiltIsOneDraft ==
  kind = "draft" =>
    /\ built # NotBuilt /\ ~mixed =>
         /\ bills = 1
         /\ \E f \in Forms \cup {ApiForm(g) : g \in Forms} :
              /\ built.people = IF Serializer(f).rows /\ what # "eostoken"
                                  THEN f.people ELSE {}
              /\ \A x \in DOMAIN built.from :
                   IF x = "options" THEN built.from[x] \cap f.sent = f.options
                                    ELSE built.from[x] = f[x]
              /\ \/ paid \in {Price(f), {"nothing"}}
                 \/ paid \in {{"api"}, {}} /\ what \in ApiKinds
         /\ what \in HeirKinds =>
              MapThenSumSet(LAMBDA p : p.share, built.people) = 100
    /\ bills # 0 /\ ~mixed => draft.state # "destroyed"
    /\ built # NotBuilt => bills # 0

\* One for each time that a customer paid less.
DiscountsGiven == UNION {{c} \X (1..discounts[c]) : c \in Customers}

(***************************************************************************)
(* Unless launches with the code overlapped or broke off, the site gives   *)
(* it no more often than its limit says, and once to each customer when it *)
(* is not reusable, whatever the API for programs does with the same code. *)
(***************************************************************************)
LimitHoldsAlone ==
  kind = "promo" /\ ~overlapped =>
    /\ promo.use_count_max # NoCount =>
         Cardinality(DiscountsGiven) <= promo.use_count_max
    /\ ~promo.reusable => \A c \in Customers : discounts[c] <= 1

(***************************************************************************)
(* What the bridge's list shows as completed has come through: the back    *)
(* end, the bridge or the second transaction that the very row names say   *)
(* so, although rounds overlap, save rows they read long ago and race with *)
(* the customer's updates.  Excused is only what the customer said last,   *)
(* in a request that gave the row its status or its way: nothing checks    *)
(* what a POST or a PATCH says.                                            *)
(***************************************************************************)
BridgeDoneIsDone ==
  kind = "bridge" /\ swap.status = "Completed" /\ ~claimed =>
    IF swap.way = "poleth" THEN swap.second \in second_transactions
                           ELSE outside = "done"

(***************************************************************************)
(* No first logins of one customer, however they overlap, give the user a  *)
(* second balance on a site; and a customer who is in has a profile and    *)
(* all the balances, once nobody is at making them, unless init_profile    *)
(* broke off where no login completes it.                                  *)
(***************************************************************************)
AccountIsWhole ==
  kind = "account" =>
    /\ \A s \in Sites : balances[s] <= 1
    /\ (\E r \in Requests : login[r] = "logged in")
         /\ (\A r \in Requests : login[r] \notin Steps)
         /\ ~halved
         => profile /\ \A s \in Sites : balances[s] = 1

(***************************************************************************)
(* Between two transfers of the daemon, what was put aside of a currency   *)
(* is in the row or was sent, but for the fractions of an EOSISH that each *)
(* transfer drops: none of it is lost unless the daemon saved its copy of  *)
(* the row over a share that came meanwhile, and none is sent twice unless *)
(* the daemon never knew, or could not save, that it was sent.             *)
(***************************************************************************)
Fractions(c) ==
  IF c = "eosish" THEN (WholeEosish - 1) * (sent[c] \div WholeEosish) ELSE 0

SharesAddUp ==
  kind = "shares" /\ ~moved =>
    \A c \in Currencies :
      /\ ~overwritten => put[c] <= frozen[c] + sent[c] + Fractions(c)
      /\ ~unsaved => frozen[c] + sent[c] <= put[c]
=============================================================================
