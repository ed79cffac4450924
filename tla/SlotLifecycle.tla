---------------------------- MODULE SlotLifecycle ----------------------------
(***************************************************************************)
(* What the parking registry promises its single writer, the fleet         *)
(* manager: each parking slot walks                                        *)
(*                                                                         *)
(*   EMPTY -> RESERVED -> OCCUPIED -> EXIT_RESERVED -> EXITING -> EMPTY    *)
(*                                                                         *)
(* (a reservation whose plan was never published may also be withdrawn),   *)
(* a slot held by a mission is taken over by no other mission, and a       *)
(* vehicle number is in at most one slot, from the reservation until the   *)
(* car has left.                                                           *)
(* Crashes and restarts are invisible here: they are stutters.             *)
(***************************************************************************)
CONSTANTS
    Slots,        \* the registered parking slots
    Missions,     \* mission identifiers
    Vehicles,     \* normalized vehicle numbers
    NoMission,    \* no mission holds the slot
    Anonymous     \* a park request without a vehicle number

VARIABLES
    phase,        \* lifecycle phase of each slot
    holder,       \* mission that holds the slot, or NoMission
    tenant        \* vehicle number registered in the slot, or Anonymous

vars == <<phase, holder, tenant>>

Lifecycle == {"EMPTY", "RESERVED", "OCCUPIED", "EXIT_RESERVED", "EXITING"}

-----------------------------------------------------------------------------
Init ==
    /\ phase  = [s \in Slots |-> "EMPTY"]
    /\ holder = [s \in Slots |-> NoMission]
    /\ tenant = [s \in Slots |-> Anonymous]

Move(s, from, to, m, v) ==
    /\ phase[s] = from
    /\ phase'  = [phase  EXCEPT ![s] = to]
    /\ holder' = [holder EXCEPT ![s] = m]
    /\ tenant' = [tenant EXCEPT ![s] = v]

\* A park mission takes a free slot for a car that is in no other slot.
Reserve(s, m, v) ==
    /\ v # Anonymous => \A t \in Slots : tenant[t] # v
    /\ Move(s, "EMPTY", "RESERVED", m, v)

\* The plan of the reservation was never published.
Withdraw(s, m) ==
    /\ holder[s] = m
    /\ Move(s, "RESERVED", "EMPTY", NoMission, Anonymous)

\* The car stands in the slot and no mission holds it any more.
Occupy(s, m) ==
    /\ holder[s] = m
    /\ Move(s, "RESERVED", "OCCUPIED", NoMission, tenant[s])

ReserveExit(s, m) == Move(s, "OCCUPIED", "EXIT_RESERVED", m, tenant[s])

StartExit(s, m) ==
    /\ holder[s] = m
    /\ Move(s, "EXIT_RESERVED", "EXITING", m, tenant[s])

Vacate(s, m) ==
    /\ holder[s] = m
    /\ Move(s, "EXITING", "EMPTY", NoMission, Anonymous)

Next ==
    \E s \in Slots, m \in Missions :
        \/ \E v \in Vehicles \cup {Anonymous} : Reserve(s, m, v)
        \/ Withdraw(s, m)
        \/ Occupy(s, m)
        \/ ReserveExit(s, m)
        \/ StartExit(s, m)
        \/ Vacate(s, m)

Spec == Init /\ [][Next]_vars
=============================================================================
