------------------------------- MODULE Accounts -------------------------------
(***************************************************************************)
(* The account of one customer, made at the registration or by the first   *)
(* login with Facebook, Google or a wallet: a user, then a profile and a   *)
(* balance for each of the sites, saved one after the other and outside of *)
(* any transaction.  Requests of the same customer may overlap.            *)
(*                                                                         *)
(* Left out: passwords, one-time codes, sessions and the keys' derivation. *)
(***************************************************************************)
EXTENDS Naturals

CONSTANT Requests \* requests of the customer that are open at a time

VARIABLES
  by,       \* how the customer comes; each way makes a user of its own
  user,     \* the row of User, whose username is unique
  profile,  \* the row of Profile, whose user is unique
  balances, \* how many rows of UserSiteBalance each site has for the user
  login,    \* how far each request has come
  halved    \* init_profile broke off where no later login takes it up

accountVars == <<by, user, profile, balances, login, halved>>

Sites  == {"wish", "swaps", "protector"}
Logins == {"register", "FacebookAuth", "social", "metamask"}

\* Seeded bug: the profile is saved after the balances.
ProfileLast == <<"wish", "swaps", "protector", "profile", "node">>

\* What it does, in its order; the addresses are told to the node last.
init_profile == <<"profile", "wish", "swaps", "protector", "node">>

Steps == {init_profile[i] : i \in DOMAIN init_profile}

AccountTypeOK ==
  /\ user \in BOOLEAN /\ profile \in BOOLEAN /\ halved \in BOOLEAN
  /\ balances \in [Sites -> 0..2]
  /\ login \in [Requests -> {"away", "no user", "user", "logged in"} \cup Steps]
  /\ by \in Logins

AccountInit ==
  /\ user = FALSE /\ profile = FALSE /\ halved = FALSE
  /\ balances = [s \in Sites |-> 0]
  /\ login = [r \in Requests |-> "away"]
  /\ by \in Logins

Moves(r, to) == login' = [login EXCEPT ![r] = to]

\* Is there the user already?  The site's form refuses to register it twice.
LooksForUser(r) ==
  /\ login[r] = "away"
  /\ by = "register" => ~user
  /\ Moves(r, IF user THEN "user" ELSE "no user")
  /\ UNCHANGED <<by, user, profile, balances, halved>>

\* create_user, or an IntegrityError when another request was first.  The
\* registration and FacebookAuth go straight on with init_profile.
CreatesUser(r) ==
  /\ login[r] = "no user"
  /\ user' = TRUE
  /\ Moves(r, IF user THEN "away"
              ELSE IF by \in {"register", "FacebookAuth"} THEN init_profile[1]
              ELSE "user")
  /\ UNCHANGED <<by, profile, balances, halved>>

\* A user that is there is logged in, with FacebookAuth whatever it has; the
\* other logins look for the profile first.
HasProfile(r) ==
  /\ login[r] = "user"
  /\ by = "FacebookAuth" \/ profile
  /\ Moves(r, "logged in")
  /\ UNCHANGED <<by, user, profile, balances, halved>>

HasNone(r) ==
  /\ login[r] = "user"
  /\ by \in {"social", "metamask"}
  /\ ~profile
  /\ Moves(r, init_profile[1])
  /\ UNCHANGED <<by, user, profile, balances, halved>>

\* The step after this one of init_profile; the login when it was the last.
NextStep(step) ==
  IF step = "node" THEN "logged in"
  ELSE LET i == CHOOSE j \in DOMAIN init_profile : init_profile[j] = step
       IN  init_profile[i + 1]

\* An IntegrityError when there is a profile.
SavesProfile(r) ==
  /\ login[r] = "profile"
  /\ profile' = TRUE
  /\ Moves(r, IF profile THEN "away" ELSE NextStep("profile"))
  /\ UNCHANGED <<by, user, balances, halved>>

SavesBalance(r) ==
  /\ login[r] \in Sites
  /\ balances' = [balances EXCEPT ![login[r]] = @ + 1]
  /\ Moves(r, NextStep(login[r]))
  /\ UNCHANGED <<by, user, profile, halved>>

RegistersAddresses(r) ==
  /\ login[r] = "node"
  /\ Moves(r, "logged in")
  /\ UNCHANGED <<by, user, profile, balances, halved>>

\* The node does not answer or the process dies: what is saved stays.
LoginBreaks(r) ==
  /\ login[r] \in Steps
  /\ Moves(r, "away")
  /\ halved' = \/ halved
                \/ login[r] \in Sites
                \/ /\ login[r] = "profile"
                   /\ by \in {"register", "FacebookAuth"}
  /\ UNCHANGED <<by, user, profile, balances>>

ComesAgain(r) ==
  /\ login[r] = "logged in"
  /\ Moves(r, "away")
  /\ UNCHANGED <<by, user, profile, balances, halved>>

AccountNext ==
  \E r \in Requests :
    \/ LooksForUser(r) \/ CreatesUser(r) \/ HasProfile(r) \/ HasNone(r)
    \/ SavesProfile(r) \/ SavesBalance(r) \/ RegistersAddresses(r)
    \/ LoginBreaks(r) \/ ComesAgain(r)
=============================================================================
