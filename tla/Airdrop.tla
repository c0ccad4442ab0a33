------------------------------- MODULE Airdrop -------------------------------
(***************************************************************************)
(* The airdrops (lastwill/contracts/submodels/airdrop.py, and the classes  *)
(* of that name in eos.py and tron.py): the customer loads a list of       *)
(* addresses with amounts, and then calls the contract on the chain with a *)
(* few of them at a time.  The scanner tells of each call twice: PENDING   *)
(* when it sees it, COMMITTED or REJECTED when it is decided.  The handler *)
(* looks up a row for each address of the call by its address, amount and  *)
(* state, so rows that agree in them are one to the other: what is kept    *)
(* here is how many there are.                                             *)
(*                                                                         *)
(* The contract is deployed already: it is ACTIVE, and alive on its chain. *)
(***************************************************************************)
EXTENDS ContractRow

CONSTANTS
  Entries,  \* the pairs of an address and an amount
  MaxRows,  \* bound on the rows of one entry
  MaxDrops  \* bound on the customer's calls

ASSUME AirdropBoundsAreNat == MaxRows \in Nat /\ MaxDrops \in Nat

AirdropKinds == {"airdrop", "eosairdrop", "tronairdrop"}
RowStates    == {"added", "processing", "sent", "completed", "failed"}
Statuses     == {"PENDING", "COMMITTED", "REJECTED"}

\* The addresses of one call.
Drops == {<<a>> : a \in Entries} \cup {<<a, b>> : a \in Entries, b \in Entries}

VARIABLES
  rows,         \* how many AirdropAddress rows of an entry are in a state
  in_progress,  \* details.airdrop_in_progress
  loading,      \* the load_airdrop request: how far it has come
  completing,   \* the handler has counted: nothing is left to drop
  dropped,      \* how often the chain has paid an entry
  excused       \* a message was handled twice, or a list was loaded between
                \* the count and the completion

airdropVars == <<rows, in_progress, loading, completing, dropped, excused>>

\* airdroppedAddresses, and on EOS errorAddresses, here one or none.
Told(status, drop, errors) == [type |-> "airdrop", status |-> status,
                               addresses |-> drop, errors |-> errors]

AirdropTypeOK ==
  /\ kind \in AirdropKinds
  /\ state \in {"ACTIVE", "ENDED", "POSTPONED"}
  /\ \A i \in DOMAIN ready :
       ready[i] \in [type: {"airdrop"}, status: Statuses,
                     addresses: Drops \cup {<< >>},
                     errors: {<< >>} \cup {<<e>> : e \in Entries}]
  /\ rows \in [Entries -> [RowStates -> 0..MaxRows]]
  /\ in_progress \in BOOLEAN
  /\ loading \in {"idle", "checked", "deleted"}
  /\ completing \in BOOLEAN
  /\ dropped \in [Entries -> 0..(2 * MaxDrops)]
  /\ excused \in BOOLEAN

AirdropInit ==
  /\ kind \in AirdropKinds
  /\ state = "ACTIVE"
  /\ onChain = "alive"
  /\ ready = << >>
  /\ rows = [e \in Entries |-> [s \in RowStates |-> 0]]
  /\ in_progress = FALSE
  /\ loading = "idle"
  /\ completing = FALSE
  /\ dropped = [e \in Entries |-> 0]
  /\ excused = FALSE

Some(s) == \E e \in Entries : rows[e][s] > 0
-----------------------------------------------------------------------------
(***************************************************************************)
(* load_airdrop: three statements, and no transaction around them.         *)
(***************************************************************************)
LoadChecks ==
  /\ loading = "idle"
  /\ state = "ACTIVE"
  /\ ~Some("processing") /\ ~Some("sent")
  /\ kind = "airdrop" => ~in_progress
  /\ loading' = "checked"
  /\ UNCHANGED <<rowVars, rows, in_progress, completing, dropped, excused>>

\* Rows of an earlier list that is completed are kept, but not on EOS.
Kept == IF kind = "eosairdrop" THEN {} ELSE {"completed"}

LoadDeletes ==
  /\ loading = "checked"
  /\ rows' = [e \in Entries |-> [s \in RowStates |->
                IF s \in Kept THEN rows[e][s] ELSE 0]]
  /\ loading' = "deleted"
  /\ UNCHANGED <<rowVars, in_progress, completing, dropped, excused>>

LoadCreates ==
  /\ loading = "deleted"
  /\ \E list \in [Entries -> 0..MaxRows] :
       /\ \E e \in Entries : list[e] > 0
       /\ \A e \in Entries :
            rows[e]["added"] + rows[e]["completed"] + list[e] <= MaxRows
       /\ rows' = [e \in Entries |-> [rows[e] EXCEPT !["added"] = @ + list[e]]]
  /\ loading' = "idle"
  /\ excused' = (excused \/ completing)
  /\ UNCHANGED <<rowVars, in_progress, completing, dropped>>
-----------------------------------------------------------------------------
(***************************************************************************)
(* 'airdrop', with any status.                                             *)
(***************************************************************************)
\* Seeded bug: a call is taken for done when it is seen.
NewStateOfSeen(status) == IF status = "REJECTED" THEN "added" ELSE "sent"

NewState(status) ==
  CASE status = "COMMITTED" -> "sent"
    [] status = "PENDING"   -> "processing"
    [] status = "REJECTED"  -> "added"

OldState(status) == IF status = "PENDING" THEN "added" ELSE "processing"

\* Seeded bug: without exclude(id__in=ids).
LookupAgain(status, found, e) ==
  IF rows[e][found.old] > 0
    THEN [found EXCEPT !.taken[e][found.old] = @ + 1] ELSE found

\* One address of the message: a row that was not taken for an address before
\* it, in old; for a COMMITTED call else one that is added, and then old is
\* "added" for all addresses after it too.
Lookup(status, found, e) ==
  LET free(s) == rows[e][s] > found.taken[e][s]
      take(s) == [old |-> s, taken |-> [found.taken EXCEPT ![e][s] = @ + 1]]
  IN  IF free(found.old) THEN take(found.old)
      ELSE IF status # "COMMITTED" THEN found
      ELSE IF free("added") THEN take("added")
      ELSE [found EXCEPT !.old = "added"]

NoneTaken == [e \in Entries |-> [s \in RowStates |-> 0]]

Taken(status, drop) ==
  LET found[i \in 0..Len(drop)] ==
        IF i = 0 THEN [old |-> OldState(status), taken |-> NoneTaken]
                 ELSE Lookup(status, found[i - 1], drop[i])
  IN  found[Len(drop)].taken

\* update(state=new_state)
Marked(status, drop) ==
  LET taken == Taken(status, drop)
      to(e) == taken[e]["added"] + taken[e]["processing"]
  IN  [e \in Entries |-> [s \in RowStates |->
         rows[e][s] - taken[e][s] + (IF s = NewState(status) THEN to(e) ELSE 0)]]

Unsettled(counts) ==
  \E e \in Entries : counts[e]["added"] + counts[e]["processing"] > 0

\* EOS counts the rows of the other table, where it has none.
NothingLeft(counts) == kind = "eosairdrop" \/ ~Unsettled(counts)

\* The rows are marked, and those still to be dropped are counted.  With none
\* left, EOS and TRON end the contract; Ethereum has a step more.
AirdropMarks ==
  /\ Receiving("airdrop")
  /\ ~completing
  /\ Message.errors = << >>
  /\ LET marked == Marked(Message.status, Message.addresses)
     IN  /\ rows' = marked
         /\ state' = IF kind # "airdrop" /\ NothingLeft(marked) THEN "ENDED"
                                                               ELSE state
         /\ in_progress' = (kind = "airdrop" /\ ~NothingLeft(marked))
         /\ completing' = (kind = "airdrop" /\ NothingLeft(marked))
  /\ IF completing' THEN UNCHANGED <<queue, troubles, excused>>
     ELSE \/ Ack /\ UNCHANGED <<troubles, excused>>
          \/ DeliveredAgain /\ excused' = TRUE
  /\ UNCHANGED <<kind, lockedBy, network, now, loading, dropped>>

\* update(state='failed') of one row.
OneFailed(row, s) == [[row EXCEPT ![s] = @ - 1] EXCEPT !["failed"] = @ + 1]

\* A call of EOS with an address that failed postpones the contract.  The
\* address is looked up in any state; without a row the handler raises, and
\* the addresses that did not fail are counted again when it comes again.
AirdropFails ==
  /\ Receiving("airdrop")
  /\ Message.errors # << >>
  /\ state' = "POSTPONED"
  /\ LET e      == Message.errors[1]
         marked == Marked(Message.status, Message.addresses)
     IN  \/ /\ \E s \in RowStates :
              /\ marked[e][s] > 0
              /\ rows' = [marked EXCEPT ![e] = OneFailed(@, s)]
           /\ Ack /\ UNCHANGED <<troubles, excused>>
        \/ /\ \A s \in RowStates : marked[e][s] = 0
           /\ rows' = marked
           /\ LeaveUnacked /\ excused' = TRUE
  /\ UNCHANGED <<kind, lockedBy, network, now, in_progress, loading, completing,
                 dropped>>

\* Every active row is completed, those too that were not there to be counted.
AirdropCompletes ==
  /\ completing
  /\ rows' = [e \in Entries |->
       LET all == rows[e]["added"] + rows[e]["processing"] + rows[e]["sent"]
                    + rows[e]["completed"] + rows[e]["failed"]
       IN  [s \in RowStates |-> IF s = "completed" THEN all ELSE 0]]
  /\ completing' = FALSE
  /\ \/ Ack /\ UNCHANGED <<troubles, excused>>
     \/ DeliveredAgain /\ excused' = TRUE
  /\ UNCHANGED <<kind, state, lockedBy, network, now, in_progress, loading,
                 dropped>>
-----------------------------------------------------------------------------
(***************************************************************************)
(* The customer's calls and the chain, which pays all of a call or nothing *)
(* of it; on EOS an address can fail by itself.                            *)
(***************************************************************************)
\* PENDING may be lost.
DropCalled ==
  /\ Len(chain) < MaxDrops
  /\ \E drop \in Drops :
       /\ Send("airdrop", {drop})
       /\ (Quiet /\ Publish(Told("PENDING", drop, << >>))) \/ UNCHANGED queue
  /\ UNCHANGED <<kind, state, lockedBy, txHash, now, troubles, airdropVars>>

Occurrences(drop, e) == Cardinality({i \in DOMAIN drop : drop[i] = e})

Paid(drop) == [e \in Entries |-> dropped[e] + Occurrences(drop, e)]

DropDecided ==
  /\ \E i \in DOMAIN chain : \E drop \in chain[i].with :
       /\ Pending(i, "airdrop")
       /\ \/ /\ Mined(i, Told("COMMITTED", drop, << >>), onChain)
             /\ dropped' = Paid(drop)
          \/ /\ kind = "eosairdrop"
             /\ Mined(i, Told("COMMITTED", Tail(drop), <<Head(drop)>>), onChain)
             /\ dropped' = Paid(Tail(drop))
          \/ /\ Mined(i, Told("REJECTED", drop, << >>), onChain)
             /\ UNCHANGED dropped
  /\ UNCHANGED <<rows, in_progress, loading, completing, excused>>

AirdropNext ==
  \/ LoadChecks \/ LoadDeletes \/ LoadCreates
  \/ AirdropMarks \/ AirdropFails \/ AirdropCompletes
  \/ DropCalled \/ DropDecided
  \/ Restart /\ UNCHANGED airdropVars
-----------------------------------------------------------------------------
(***************************************************************************)
(* Properties.                                                             *)
(***************************************************************************)
\* The list shows an entry as sent or completed no more often than the chain
\* has paid it, in whatever order calls are made, lost, decided and loaded
\* over: unless a message was handled twice or a list was loaded while the
\* handler completed the one before.
SentWasDropped ==
  excused \/ \A e \in Entries :
               rows[e]["sent"] + rows[e]["completed"] <= dropped[e]

\* "in case 'pending' msg was lost or dropped, but 'commited' is there"
\* (airdrop.py:89): a COMMITTED call marks a row for each of its addresses
\* that has one, whether it is processing or still added.
CommittedIsSent ==
  [][(AirdropMarks /\ Message.status = "COMMITTED") =>
       \A e \in Entries :
         \/ rows'[e]["sent"] - rows[e]["sent"]
              >= Occurrences(Message.addresses, e)
         \/ rows'[e]["added"] + rows'[e]["processing"] = 0]_airdropVars
=============================================================================
