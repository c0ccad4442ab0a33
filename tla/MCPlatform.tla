------------------------------ MODULE MCPlatform ------------------------------
(***************************************************************************)
(* Two heirs or holders, four forms: two that are valid and differ in all  *)
(* the rows and the price, the second of which says nothing of an option   *)
(* that the first sets; one that gives no people, and one that breaks      *)
(* every rule of the details.  Of the bridge, what customers say that is   *)
(* in its way, and for each way the word that it is completed.             *)
(***************************************************************************)
EXTENDS Platform, TLC
CONSTANTS this, ann, bob, one, other

Symmetry == Permutations({one, other})

Form(asks, p, g, ok, t, said, opts) ==
  [asks |-> asks, people |-> p, given |-> g, formats |-> ok,
   start |-> t, stop |-> t + 2, soft |-> 1, hard |-> 2, until |-> t + 4,
   base |-> 1, quote |-> 2, sent |-> said, options |-> opts]

Sent    == {"verification", "authio", "white_label"}
Alone   == {[who |-> ann, share |-> 100, freeze |-> 0]}
Both    == {[who |-> ann, share |-> 40, freeze |-> 2],
            [who |-> bob, share |-> 60, freeze |-> 0]}

MCForms ==
  { Form("CREATED", Alone, TRUE, TRUE, 3, Sent, {"authio"}),
    Form("WAITING_FOR_PAYMENT", Both, TRUE, TRUE, 2, Sent \ {"authio"},
         {"verification", "white_label"}),
    Form("CREATED", {}, FALSE, TRUE, 3, {}, {}),
    [Form("CREATED", Alone, TRUE, FALSE, 0, Sent, {}) EXCEPT !.soft = 3, !.quote = 1] }

MCSaid ==
  {[way |-> w, status |-> "Completed"] : w \in Ways} \cup
  {[way |-> "ethpol", status |-> "DepositInProgress"],
   [way |-> "poleth", status |-> "DepositInProgress"],
   [way |-> "poleth", status |-> "WithdrawInProgress"]}
=============================================================================
