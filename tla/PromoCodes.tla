------------------------------ MODULE PromoCodes ------------------------------
(***************************************************************************)
(* One promo code.  The site's requests that launch a contract, and that   *)
(* for NEAR, look whether the code holds, take the reduced price and then  *)
(* write down the use; the API for programs has rules of its own.  A unit  *)
(* of the clock is a day.                                                  *)
(***************************************************************************)
EXTENDS Naturals, FiniteSets

CONSTANTS
  Customers, \* who launch contracts
  Launchers, \* requests that are open at a time
  LastDay,   \* bound on the clock
  MaxUses    \* bound on the uses of the code

ASSUME PromoBoundsAreNat == LastDay \in Nat /\ MaxUses \in Nat
ASSUME LaunchersAreFinite == IsFiniteSet(Launchers)

VARIABLES
  today,       \* datetime.now().date()
  promo,       \* the row of Promo
  user2promo,  \* how many rows of User2Promo each customer has
  discounts,   \* how many times each customer paid less on the site
  request,     \* what each open request holds
  overlapped   \* requests were open together, or one broke off

promoVars == <<today, promo, user2promo, discounts, request, overlapped>>

Days      == 0..LastDay
NoCount   == 0
Vacant    == [at |-> "vacant"]

PromoTypeOK ==
  /\ today \in Days
  /\ promo.use_count \in 0..MaxUses /\ promo.use_count_max \in 0..MaxUses
  /\ user2promo \in [Customers -> 0..MaxUses]
  /\ discounts \in [Customers -> 0..MaxUses]
  /\ DOMAIN request = Launchers

\* create_promocode: without dates the code holds from today on for a year;
\* a limit of 0 is none.
CreatePromocode(reusable, max) ==
  promo \in { [reusable |-> reusable, use_count_max |-> max, use_count |-> 0,
               start |-> d, stop |-> e] : d \in {0, 1}, e \in {1, LastDay} }

PromoInit ==
  /\ today = 0
  /\ \E reusable \in BOOLEAN, max \in 0..MaxUses : CreatePromocode(reusable, max)
  /\ user2promo = [c \in Customers |-> 0]
  /\ discounts = [c \in Customers |-> 0]
  /\ request = [r \in Launchers |-> Vacant]
  /\ overlapped = FALSE

\* Seeded bug: one use too many.
UsedOver == promo.use_count > promo.use_count_max

UsedUp == promo.use_count >= promo.use_count_max

InTime == promo.start <= today /\ today <= promo.stop

\* check_and_get_discount
Holds(c) ==
  /\ InTime
  /\ ~(promo.use_count_max # NoCount /\ UsedUp)
  /\ promo.reusable \/ user2promo[c] = 0

\* The counts that are in the row or may be saved there.
Counts == {promo.use_count}
  \cup {request[r].row.use_count : r \in {o \in Launchers : request[o].at = "used"}}

\* A bound: with every request that may be open the uses stay within MaxUses.
FewUses ==
  \A n \in Counts \cup {user2promo[c] : c \in Customers}
                  \cup {discounts[c] : c \in Customers} :
    n + Cardinality(Launchers) < MaxUses

PromoOpens(r, held) ==
  /\ request[r] = Vacant
  /\ FewUses
  /\ request' = [request EXCEPT ![r] = held]
  /\ overlapped' = (overlapped \/ \E o \in Launchers \ {r} : request[o] # Vacant)

\* How many discounts a launch gets.
check_and_apply_promocode(c) == IF Holds(c) THEN 1 ELSE 0

\* check_promocode and create_payment.  When the code does not hold the
\* price is the full one; its use is written down all the same.
DeployPays(r, c) ==
  /\ PromoOpens(r, [at |-> "paid", who |-> c])
  /\ discounts' = [discounts EXCEPT ![c] = @ + check_and_apply_promocode(c)]
  /\ UNCHANGED <<today, promo, user2promo>>

\* Promo is read, and the use saved.
SavesUse(r) ==
  /\ request[r].at = "paid"
  /\ LET c == request[r].who IN
       /\ user2promo' = [user2promo EXCEPT ![c] = @ + 1]
       /\ request' = [request EXCEPT ![r] = [at |-> "used", row |-> promo]]
  /\ UNCHANGED <<today, promo, discounts, overlapped>>

\* The whole row, counted up from what was read.
CountsUse(r) ==
  /\ request[r].at = "used"
  /\ promo' = [request[r].row EXCEPT !.use_count = @ + 1]
  /\ request' = [request EXCEPT ![r] = Vacant]
  /\ UNCHANGED <<today, user2promo, discounts, overlapped>>

\* check_promocode_in_api: no limit, no second use whatever the code allows.
\* The use is saved before the price is taken, and never counted.
ApiUses(r, c) ==
  /\ PromoOpens(r, [at |-> "api", who |-> c])
  /\ InTime
  /\ user2promo[c] = 0
  /\ UNCHANGED <<today, promo, user2promo, discounts>>

ApiSavesUse(r) ==
  /\ request[r].at = "api"
  /\ user2promo' = [user2promo EXCEPT ![request[r].who] = @ + 1]
  /\ request' = [request EXCEPT ![r] = Vacant]
  /\ UNCHANGED <<today, promo, discounts, overlapped>>

LaunchBreaksOff(r) ==
  /\ request[r] # Vacant
  /\ request' = [request EXCEPT ![r] = Vacant]
  /\ overlapped' = TRUE
  /\ UNCHANGED <<today, promo, user2promo, discounts>>

DayPasses ==
  /\ today < LastDay
  /\ today' = today + 1
  /\ UNCHANGED <<promo, user2promo, discounts, request, overlapped>>

PromoNext ==
  \/ \E r \in Launchers :
       \/ \E c \in Customers : DeployPays(r, c) \/ ApiUses(r, c)
       \/ SavesUse(r) \/ CountsUse(r) \/ ApiSavesUse(r) \/ LaunchBreaksOff(r)
  \/ DayPasses
=============================================================================
