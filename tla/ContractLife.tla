----------------------------- MODULE ContractLife -----------------------------
(***************************************************************************)
(* The life of one contract after its draft, of any of the kinds that live *)
(* on: a will, a token protector, an airdrop, an investment pool or a      *)
(* swap.  They share the contract's row, the receiver, the lock and the    *)
(* network of ContractRow; the details of the kinds that were not chosen   *)
(* rest.                                                                   *)
(***************************************************************************)
EXTENDS Wills, TokenProtector, Airdrop, Pools

\* The details of a kind this contract is not.
WillRests ==
  /\ next_check = NoTime /\ pressed = NoTime /\ btc_duty = 0
  /\ checker = "idle" /\ pressing = NoRequest /\ history = NoHistory

ProtectorRests ==
  /\ approvedTokens = [t \in Tokens |-> NoToken]
  /\ approving_time = FALSE /\ address = FALSE
  /\ saved = {} /\ late = {} /\ executor = "idle"
  /\ skipping = FALSE /\ ended = FALSE

AirdropRests ==
  /\ rows = [e \in Entries |-> [s \in RowStates |-> 0]]
  /\ in_progress = FALSE /\ loading = "idle" /\ completing = FALSE
  /\ dropped = [e \in Entries |-> 0] /\ excused = FALSE

PoolRests ==
  /\ paid = [p \in Parties |-> [in |-> 0, out |-> 0]] /\ ending = "no"
  /\ invested = [p \in Parties |-> 0] /\ total = [p \in Parties |-> 0]
  /\ balance = 0 /\ take_away = {} /\ stop_date = 1
  /\ checksummed = FALSE /\ counted = TRUE

lifeVars == <<rowVars, willVars, protectorVars, airdropVars, poolVars>>

Init ==
  /\ RowInit
  /\ \/ WillInit /\ ProtectorRests /\ AirdropRests /\ PoolRests
     \/ ProtectorInit /\ WillRests /\ AirdropRests /\ PoolRests
     \/ AirdropInit /\ WillRests /\ ProtectorRests /\ PoolRests
     \/ PoolInit /\ WillRests /\ ProtectorRests /\ AirdropRests

WillStep ==
  /\ kind \in WillKinds
  /\ WillNext
  /\ UNCHANGED <<protectorVars, airdropVars, poolVars>>

ProtectorStep ==
  /\ kind = "protector"
  /\ ProtectorNext
  /\ UNCHANGED <<willVars, airdropVars, poolVars>>

AirdropStep ==
  /\ kind \in AirdropKinds
  /\ AirdropNext
  /\ UNCHANGED <<willVars, protectorVars, poolVars>>

PoolStep ==
  /\ kind \in PoolKinds
  /\ PoolNext
  /\ UNCHANGED <<willVars, protectorVars, airdropVars>>

Next == WillStep \/ ProtectorStep \/ AirdropStep \/ PoolStep

Safety == Init /\ [][Next]_lifeVars

(***************************************************************************)
(* The clock goes on, and the checker, a loop of its own process, takes    *)
(* every contract that is ACTIVE in each of its rounds.                    *)
(***************************************************************************)
ClockTicks ==
  /\ kind \in WillKinds
  /\ Tick
  /\ UNCHANGED <<willVars, protectorVars, airdropVars, poolVars>>

CheckerGoesOn ==
  /\ kind \in WillKinds
  /\ WillChecks
  /\ UNCHANGED <<protectorVars, airdropVars, poolVars>>

Spec == Safety /\ WF_lifeVars(ClockTicks) /\ WF_lifeVars(CheckerGoesOn)

LifeTypeOK ==
  /\ RowTypeOK
  /\ kind \in WillKinds => WillTypeOK
  /\ kind = "protector" => ProtectorTypeOK
  /\ kind \in AirdropKinds => AirdropTypeOK
  /\ kind \in PoolKinds => PoolTypeOK
=============================================================================
