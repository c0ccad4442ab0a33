------------------------------- MODULE TokenApi -------------------------------
(***************************************************************************)
(* The API for customers' programs, which drafts and launches tokens on    *)
(* Ethereum and accounts on EOS beside the site's own requests: it keeps   *)
(* no price in the contract, takes another one from the balance when the   *)
(* contract is launched, and hides a contract where the site deletes it.   *)
(***************************************************************************)
EXTENDS Drafts

VARIABLE invisible \* Contract.invisible

ApiKinds == {"token", "eosaccount"}

ApiInit == invisible = FALSE

\* cost=0, no options and no holders.
ApiForm(f) == [f EXCEPT !.people = {}, !.options = {}, !.sent = {}, !.given = FALSE,
                        !.asks = "CREATED"]

ApiCreates(f) ==
  /\ what \in ApiKinds
  /\ draft.state = "none"
  /\ f.formats
  /\ draft' = [state |-> "CREATED", cost |-> {}]
  /\ people' = {}
  /\ details' = ApiForm(f)
  /\ UNCHANGED <<what, minute, editing, bills, paid, launched, built, mixed,
                 invisible>>

\* create_eth_token, create_eos_account
CreateEthToken(f)   == what = "token" /\ ApiCreates(f)
CreateEosAccount(f) == what = "eosaccount" /\ ApiCreates(f)

\* What the API lets be edited are names and numbers, which a form stands
\* for already; the details are saved as the request has read them.
ApiEdits(r) ==
  /\ draft.state = "CREATED"
  /\ ~invisible
  /\ Opens(r, [at |-> "edited", form |-> details])
  /\ UNCHANGED <<what, minute, draft, people, details, bills, paid, launched, built,
                 invisible>>

EditEthToken(r)   == what = "token" /\ ApiEdits(r)
EditEosAccount(r) == what = "eosaccount" /\ ApiEdits(r)

ApiSaves(r) ==
  /\ Goes(r, "edited", "free")
  /\ details' = editing[r].form
  /\ UNCHANGED <<what, minute, draft, people, bills, paid, launched, built, mixed,
                 invisible>>

\* A price of its own, which the balance may be too low for as well.
ApiPays(r) ==
  /\ what \in ApiKinds
  /\ draft.state = "CREATED"
  /\ ~invisible
  /\ bills < MaxBills
  /\ Timely(details, people)
  /\ Opens(r, [at |-> "charged", row |-> draft])
  /\ Charges({"api"})
  /\ UNCHANGED <<what, minute, draft, people, details, launched, built,
                 invisible>>

DeployEthToken(r)   == what = "token" /\ ApiPays(r)
DeployEosAccount(r) == what = "eosaccount" /\ ApiPays(r)

\* In any state.
ApiHides ==
  /\ what \in ApiKinds
  /\ draft.state \notin {"none", "destroyed"}
  /\ invisible' = TRUE
  /\ UNCHANGED draftVars

ApiNext ==
  \/ \E f \in Forms : CreateEthToken(f) \/ CreateEosAccount(f)
  \/ \E r \in Editors :
       \/ EditEthToken(r) \/ EditEosAccount(r) \/ ApiSaves(r)
       \/ DeployEthToken(r) \/ DeployEosAccount(r)
  \/ ApiHides
  \/ DraftNext /\ UNCHANGED invisible
=============================================================================
