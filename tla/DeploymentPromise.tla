------------------------- MODULE DeploymentPromise -------------------------
(***************************************************************************)
(* What the service promises about deployment, with nothing of how it is   *)
(* done: a contract is launched no more often than its price was asked     *)
(* for, and paid or waived; only a launched contract comes to exist on the *)
(* network, and only a contract that exists there is ever presented as     *)
(* active.                                                                 *)
(***************************************************************************)
EXTENDS Naturals

CONSTANT Contracts

VARIABLES
  charged,   \* times the user was charged for the contract
  waived,    \* times the user had too little, and nothing was taken
  launched,  \* times its deployment was ordered
  created,   \* contracts that exist on the network
  active     \* contracts presented to their users as active

pvars == <<charged, waived, launched, created, active>>

PromiseInit ==
  /\ charged = [c \in Contracts |-> 0]
  /\ waived = [c \in Contracts |-> 0]
  /\ launched = [c \in Contracts |-> 0]
  /\ created = {}
  /\ active = {}

Charge(c) ==
  /\ charged' = [charged EXCEPT ![c] = @ + 1]
  /\ UNCHANGED <<waived, launched, created, active>>

Waive(c) ==
  /\ waived' = [waived EXCEPT ![c] = @ + 1]
  /\ UNCHANGED <<charged, launched, created, active>>

Order(c) ==
  /\ launched[c] < charged[c] + waived[c]
  /\ launched' = [launched EXCEPT ![c] = @ + 1]
  /\ UNCHANGED <<charged, waived, created, active>>

Create(c) ==
  /\ launched[c] > 0
  /\ created' = created \cup {c}
  /\ UNCHANGED <<charged, waived, launched, active>>

Activate(c) ==
  /\ c \in created
  /\ active' = active \cup {c}
  /\ UNCHANGED <<charged, waived, launched, created>>

Deactivate(c) ==
  /\ active' = active \ {c}
  /\ UNCHANGED <<charged, waived, launched, created>>

PromiseNext ==
  \E c \in Contracts : \/ Charge(c)
                       \/ Waive(c)
                       \/ Order(c)
                       \/ Create(c)
                       \/ Activate(c)
                       \/ Deactivate(c)

PromiseSpec == PromiseInit /\ [][PromiseNext]_pvars
=============================================================================
