--------------------------- MODULE ParkingRegistry ---------------------------
(***************************************************************************)
(* parking_registry.py: the slot records the fleet manager owns, kept in   *)
(* memory and in SQLite.  Every transition writes the row first and the    *)
(* in-memory record second (_replace_record); the process may die before,  *)
(* between and after the two, and a restart accepts only a database whose  *)
(* slots are all EMPTY or well-formed OCCUPIED.                            *)
(*                                                                         *)
(* Pose, vehicle specification and parking direction are written together  *)
(* by complete_park; the field "placed" stands for the three.  The         *)
(* credential is abstracted to whether there is one.  A call whose checks  *)
(* fail raises RegistryTransitionError and changes nothing: it is a        *)
(* stutter, so an action below is a call whose checks succeed.             *)
(***************************************************************************)
CONSTANTS
    Slots,        \* configured slot ids
    Missions,     \* mission ids the fleet may pass
    Vehicles,     \* normalized vehicle numbers
    NoMission,    \* the empty mission id
    Anonymous,    \* the empty vehicle number
    NoSlot        \* no row is ahead of the memory

ASSUME RegistryAssumption ==
    /\ NoMission \notin Missions
    /\ Anonymous \notin Vehicles
    /\ NoSlot \notin Slots

VARIABLES
    disk,         \* the parking_slots table: slot -> record
    memory,       \* ParkingRegistry._records
    unassigned,   \* slot whose row is committed and whose memory is not, or NoSlot
    node          \* the process that owns the registry: "up", "down", "refused"

vars == <<disk, memory, unassigned, node>>

Numbers == Vehicles \cup {Anonymous}

Lifecycle == {"EMPTY", "RESERVED", "OCCUPIED", "EXIT_RESERVED", "EXITING"}

ParkingRecord ==
    [lifecycle  : Lifecycle,
     mission    : Missions \cup {NoMission},   \* reservation_mission_id
     kind       : {"", "park", "retrieve"},    \* reservation_kind
     parkedBy   : Missions \cup {NoMission},   \* parked_by_mission_id
     placed     : BOOLEAN,                     \* pose, spec and direction
     number     : Numbers,                     \* vehicle_number
     credential : BOOLEAN]

EmptyRecord ==
    [lifecycle |-> "EMPTY", mission |-> NoMission, kind |-> "",
     parkedBy |-> NoMission, placed |-> FALSE, number |-> Anonymous,
     credential |-> FALSE]

AllEmpty == [s \in Slots |-> EmptyRecord]

-----------------------------------------------------------------------------
\* A new database: every slot row is EMPTY and the memory is loaded from it.
Init ==
    /\ disk = AllEmpty
    /\ memory = AllEmpty
    /\ unassigned = NoSlot
    /\ node = "up"

(***************************************************************************)
(* _replace_record, first half: the row is replaced in one transaction.    *)
(* The second half is Assign; the single-threaded caller runs nothing in   *)
(* between, but the process may die there.  The unique index of the table  *)
(* rejects a second row with the same non-empty vehicle number.            *)
(***************************************************************************)
IndexAllows(s, rec) ==
    rec.number # Anonymous =>
        \A t \in Slots \ {s} : disk[t].number # rec.number

Save(s, rec) ==
    /\ IndexAllows(s, rec)
    /\ disk' = [disk EXCEPT ![s] = rec]
    /\ unassigned' = s
    /\ UNCHANGED <<memory, node>>

\* Mutant: the new record is committed and never replaces the live one.
AssignForgotten ==
    /\ node = "up"
    /\ unassigned # NoSlot
    /\ unassigned' = NoSlot
    /\ UNCHANGED <<disk, memory, node>>

\* _replace_record, second half: self._records[slot_id] = record.
Assign ==
    /\ node = "up"
    /\ unassigned # NoSlot
    /\ memory' = [memory EXCEPT ![unassigned] = disk[unassigned]]
    /\ unassigned' = NoSlot
    /\ UNCHANGED <<disk, node>>

\* _require_state on the in-memory record, when no call is under way.
RequireState(s, lifecycle) ==
    /\ node = "up"
    /\ unassigned = NoSlot
    /\ memory[s].lifecycle = lifecycle

RequireHeld(s, lifecycle, m, kind) ==
    /\ RequireState(s, lifecycle)
    /\ memory[s].mission = m
    /\ memory[s].kind = kind

\* Mutant: only parked cars are searched, not the ones on their way in or out.
RegisteredParked(v) ==
    \E t \in Slots : memory[t].lifecycle = "OCCUPIED" /\ memory[t].number = v

\* find_by_vehicle_number is not None
Registered(v) ==
    \E t \in Slots : memory[t].lifecycle # "EMPTY" /\ memory[t].number = v

\* Mutant: neither the live records nor the index are asked for the number.
ReserveParkUnchecked(s, m, v, credential) ==
    /\ RequireState(s, "EMPTY")
    /\ v # Anonymous <=> credential
    /\ disk' = [disk EXCEPT ![s] =
                 [EmptyRecord EXCEPT !.lifecycle = "RESERVED", !.mission = m,
                                     !.kind = "park", !.number = v,
                                     !.credential = credential]]
    /\ unassigned' = s
    /\ UNCHANGED <<memory, node>>

ReservePark(s, m, v, credential) ==
    /\ RequireState(s, "EMPTY")
    /\ v # Anonymous <=> credential
    /\ v # Anonymous => ~Registered(v)
    /\ Save(s, [EmptyRecord EXCEPT !.lifecycle = "RESERVED", !.mission = m,
                                   !.kind = "park", !.number = v,
                                   !.credential = credential])

RollbackUnpublishedPark(s, m) ==
    /\ RequireHeld(s, "RESERVED", m, "park")
    /\ Save(s, EmptyRecord)

\* Mutant: parked_by_mission_id is not written.
CompleteParkUnsigned(s, m) ==
    /\ RequireHeld(s, "RESERVED", m, "park")
    /\ Save(s, [EmptyRecord EXCEPT !.lifecycle = "OCCUPIED",
                                   !.placed = TRUE,
                                   !.number = memory[s].number,
                                   !.credential = memory[s].credential])

\* Mutant: the number is kept and its password forgotten.
CompleteParkNoPassword(s, m) ==
    /\ RequireHeld(s, "RESERVED", m, "park")
    /\ Save(s, [EmptyRecord EXCEPT !.lifecycle = "OCCUPIED", !.parkedBy = m,
                                   !.placed = TRUE,
                                   !.number = memory[s].number])

CompletePark(s, m) ==
    /\ RequireHeld(s, "RESERVED", m, "park")
    /\ Save(s, [EmptyRecord EXCEPT !.lifecycle = "OCCUPIED", !.parkedBy = m,
                                   !.placed = TRUE,
                                   !.number = memory[s].number,
                                   !.credential = memory[s].credential])

\* Mutant: a slot is reserved for exit whoever is in it.
ReserveRetrieveAny(s, m) ==
    /\ node = "up"
    /\ unassigned = NoSlot
    /\ memory[s].placed
    /\ Save(s, [memory[s] EXCEPT !.lifecycle = "EXIT_RESERVED",
                                 !.mission = m, !.kind = "retrieve"])

ReserveRetrieve(s, m) ==
    /\ RequireState(s, "OCCUPIED")
    /\ memory[s].placed
    /\ Save(s, [memory[s] EXCEPT !.lifecycle = "EXIT_RESERVED",
                                 !.mission = m, !.kind = "retrieve"])

MarkRetrieveExiting(s, m) ==
    /\ RequireHeld(s, "EXIT_RESERVED", m, "retrieve")
    /\ Save(s, [memory[s] EXCEPT !.lifecycle = "EXITING"])

\* Mutant: the slot is freed although the car was never driven out.
CompleteRetrieveEarly(s, m) ==
    /\ RequireHeld(s, "EXIT_RESERVED", m, "retrieve")
    /\ Save(s, EmptyRecord)

CompleteRetrieve(s, m) ==
    /\ RequireHeld(s, "EXITING", m, "retrieve")
    /\ Save(s, EmptyRecord)

(***************************************************************************)
(* The process dies: killed, power lost, or ended by the                   *)
(* RegistryPersistenceError of a save that failed (the transaction is      *)
(* rolled back and no caller catches the error).                           *)
(***************************************************************************)
Crash ==
    /\ node = "up"
    /\ node' = "down"
    /\ memory' = AllEmpty
    /\ unassigned' = NoSlot
    /\ UNCHANGED disk

\* _validate_restored_records
ValidRestored(rec) ==
    \/ rec = EmptyRecord
    \/ /\ rec.lifecycle = "OCCUPIED"
       /\ rec.mission = NoMission
       /\ rec.kind = ""
       /\ rec.parkedBy # NoMission
       /\ rec.placed
       /\ rec.number # Anonymous <=> rec.credential

\* Mutant: the process counts as running before it has loaded a row.
RestoreUntyped ==
    /\ node # "up"
    /\ \A s \in Slots : ValidRestored(disk[s])
    /\ node' = "starting"
    /\ memory' = disk
    /\ UNCHANGED <<disk, unassigned>>

Restore ==
    /\ node # "up"
    /\ \A s \in Slots : ValidRestored(disk[s])
    /\ node' = "up"
    /\ memory' = disk
    /\ UNCHANGED <<disk, unassigned>>

\* RegistryPersistenceError at startup: the operator has to look.
Refuse ==
    /\ node # "up"
    /\ \E s \in Slots : ~ValidRestored(disk[s])
    /\ node' = "refused"
    /\ UNCHANGED <<disk, memory, unassigned>>

Next ==
    \/ \E s \in Slots, m \in Missions :
          \/ \E v \in Numbers, c \in BOOLEAN : ReservePark(s, m, v, c)
          \/ RollbackUnpublishedPark(s, m)
          \/ CompletePark(s, m)
          \/ ReserveRetrieve(s, m)
          \/ MarkRetrieveExiting(s, m)
          \/ CompleteRetrieve(s, m)
    \/ Assign
    \/ Crash
    \/ Restore
    \/ Refuse

Spec == Init /\ [][Next]_vars

-----------------------------------------------------------------------------
TypeOK ==
    /\ disk \in [Slots -> ParkingRecord]
    /\ memory \in [Slots -> ParkingRecord]
    /\ unassigned \in Slots \cup {NoSlot}
    /\ node \in {"up", "down", "refused"}

\* The live record is the durable one, except in the window between the two
\* halves of _replace_record: no call decides on a record the database lost.
MemoryMirrorsDisk ==
    node = "up" => \A s \in Slots : s # unassigned => memory[s] = disk[s]

\* A vehicle number is in at most one row, whatever calls and crashes happened:
\* find_by_vehicle_number and the retrieval login have one answer.
OneSlotPerVehicle ==
    \A s, t \in Slots :
        disk[s].number # Anonymous /\ disk[s].number = disk[t].number => s = t

\* The in-memory search and the unique index of the table agree: a park
\* request that passes the search never dies on the index (the error would
\* end the process), and no request is turned away for a number nobody holds.
NumberCheckMatchesIndex ==
    node = "up" /\ unassigned = NoSlot =>
        \A v \in Vehicles :
            Registered(v) <=> \E t \in Slots : disk[t].number = v

\* What each lifecycle says about the rest of its row (the six transitions
\* and the restart check agree on it).
WellFormed(rec) ==
    /\ rec.number # Anonymous <=> rec.credential
    /\ rec.lifecycle = "EMPTY" => rec = EmptyRecord
    /\ rec.lifecycle = "RESERVED" =>
          rec.mission # NoMission /\ rec.kind = "park" /\ ~rec.placed
    /\ rec.lifecycle = "OCCUPIED" =>
          /\ rec.mission = NoMission /\ rec.kind = ""
          /\ rec.parkedBy # NoMission /\ rec.placed
    /\ rec.lifecycle \in {"EXIT_RESERVED", "EXITING"} =>
          /\ rec.mission # NoMission /\ rec.kind = "retrieve"
          /\ rec.parkedBy # NoMission /\ rec.placed

RowsWellFormed == \A s \in Slots : WellFormed(disk[s])

\* A startup is refused only because a mission was cut off: no crash point
\* and no sequence of calls writes a row the restart check calls invalid.
RefusedOnlyMidMission ==
    node = "refused" =>
        \E s \in Slots :
            disk[s].lifecycle \in {"RESERVED", "EXIT_RESERVED", "EXITING"}

\* A car the registry has placed stays findable under its number until it is
\* EXITING and leaves: no crash, restart or other mission's call loses it.
PlacedCarIsNotLost ==
    [][\A s \in Slots :
          disk[s].placed /\ ~disk'[s].placed =>
             /\ disk[s].lifecycle = "EXITING"
             /\ node = "up"
             /\ memory[s].lifecycle = "EXITING"]_vars

\* The rows implement the abstract slot lifecycle; memory, crash and restart
\* are invisible in it.
Abstract == INSTANCE SlotLifecycle WITH
    phase  <- [s \in Slots |-> disk[s].lifecycle],
    holder <- [s \in Slots |-> disk[s].mission],
    tenant <- [s \in Slots |-> disk[s].number]

ImplementsSlotLifecycle == Abstract!Spec
=============================================================================
