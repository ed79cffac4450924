------------------------ MODULE ParkingRegistryProofs ------------------------
(***************************************************************************)
(* Proofs about ParkingRegistry for any set of slots, missions and         *)
(* vehicles: its invariants, that a placed car is not lost, and that it    *)
(* implements SlotLifecycle.                                               *)
(***************************************************************************)
EXTENDS ParkingRegistry, TLAPS

\* A dead process has no write under way.
DownIsQuiet == node # "up" => unassigned = NoSlot

\* The inductive invariant: the calls decide on memory, so that the rows stay
\* well formed rests on the memory mirroring the disk whenever a call starts.
IndInv ==
    /\ TypeOK
    /\ MemoryMirrorsDisk
    /\ OneSlotPerVehicle
    /\ RowsWellFormed
    /\ DownIsQuiet
    /\ RefusedOnlyMidMission

-----------------------------------------------------------------------------
(* Facts every call rests on. *)

LEMMA EmptyFields ==
    EmptyRecord.number = Anonymous /\ ~EmptyRecord.placed
BY DEF EmptyRecord

\* When a call starts, the record it decides on is the committed row.
LEMMA CallSeesRow ==
    ASSUME IndInv, NEW s \in Slots, NEW l, RequireState(s, l)
    PROVE  /\ node = "up" /\ unassigned = NoSlot
           /\ memory = disk
           /\ disk[s].lifecycle = l
           /\ disk[s] \in ParkingRecord
           /\ WellFormed(disk[s])
<1>1. node = "up" /\ unassigned = NoSlot /\ memory[s].lifecycle = l
  BY DEF RequireState
<1>2. \A t \in Slots : memory[t] = disk[t]
  BY <1>1, RegistryAssumption DEF IndInv, MemoryMirrorsDisk
<1>3. memory = disk
  BY <1>2 DEF IndInv, TypeOK
<1>4. QED
  BY <1>1, <1>3 DEF IndInv, TypeOK, RowsWellFormed

\* Saving a well-formed record whose number is anonymous or already the row's
\* keeps the invariant, and so does a number the index lets through.
LEMMA SavePreserves ==
    ASSUME IndInv, NEW s \in Slots, NEW rec \in ParkingRecord,
           node = "up", unassigned = NoSlot, memory = disk,
           WellFormed(rec), Save(s, rec)
    PROVE  IndInv'
<1>1. /\ disk' = [disk EXCEPT ![s] = rec]
      /\ unassigned' = s /\ memory' = memory /\ node' = node
      /\ IndexAllows(s, rec)
  BY DEF Save
<1>2. TypeOK'
  BY <1>1 DEF IndInv, TypeOK
<1>3. MemoryMirrorsDisk'
  BY <1>1 DEF IndInv, TypeOK, MemoryMirrorsDisk
<1>4. OneSlotPerVehicle'
  BY <1>1 DEF IndInv, TypeOK, OneSlotPerVehicle, IndexAllows
<1>5. RowsWellFormed'
  <2> SUFFICES ASSUME NEW t \in Slots PROVE WellFormed(disk'[t])
    BY DEF RowsWellFormed, WellFormed
  <2>1. CASE t = s
    BY <2>1, <1>1 DEF IndInv, TypeOK
  <2>2. CASE t # s
    BY <2>2, <1>1 DEF IndInv, TypeOK, RowsWellFormed
  <2>3. QED BY <2>1, <2>2
<1>6. DownIsQuiet' /\ RefusedOnlyMidMission'
  BY <1>1 DEF DownIsQuiet, RefusedOnlyMidMission
<1>7. QED BY <1>2, <1>3, <1>4, <1>5, <1>6 DEF IndInv

\* The record a call writes, and what the call found in the row before.
\* Every call that succeeds is one of these moves of the slot lifecycle.
LEMMA ReserveParkWrites ==
    ASSUME IndInv, NEW s \in Slots, NEW m \in Missions, NEW v \in Numbers,
           NEW c \in BOOLEAN, ReservePark(s, m, v, c)
    PROVE  /\ IndInv'
           /\ disk[s].lifecycle = "EMPTY" /\ ~disk[s].placed
           /\ v # Anonymous => \A t \in Slots : disk[t].number # v
           /\ \E rec \in ParkingRecord :
                 /\ disk' = [disk EXCEPT ![s] = rec]
                 /\ rec.lifecycle = "RESERVED" /\ rec.mission = m
                 /\ rec.number = v
<1> DEFINE rec == [EmptyRecord EXCEPT !.lifecycle = "RESERVED", !.mission = m,
                                      !.kind = "park", !.number = v,
                                      !.credential = c]
<1>1. /\ RequireState(s, "EMPTY") /\ (v # Anonymous <=> c)
      /\ v # Anonymous => ~Registered(v)
      /\ Save(s, rec)
  BY DEF ReservePark
<1>2. /\ node = "up" /\ unassigned = NoSlot /\ memory = disk
      /\ disk[s].lifecycle = "EMPTY" /\ WellFormed(disk[s])
  BY <1>1, CallSeesRow
<1>3. /\ rec \in ParkingRecord /\ WellFormed(rec)
      /\ rec.lifecycle = "RESERVED" /\ rec.mission = m /\ rec.number = v
  BY <1>1, RegistryAssumption
  DEF ParkingRecord, EmptyRecord, Lifecycle, Numbers, WellFormed
<1>4. IndInv'
  BY <1>1, <1>2, <1>3, SavePreserves
<1>5. ~disk[s].placed /\ disk[s].number = Anonymous
  BY <1>2, EmptyFields DEF WellFormed
<1>6. v # Anonymous => \A t \in Slots : disk[t].number # v
  BY <1>1, <1>3, <1>5 DEF Save, IndexAllows
<1>7. disk' = [disk EXCEPT ![s] = rec]
  BY <1>1 DEF Save
<1>8. QED BY <1>2, <1>3, <1>4, <1>5, <1>6, <1>7

LEMMA RollbackWrites ==
    ASSUME IndInv, NEW s \in Slots, NEW m \in Missions,
           RollbackUnpublishedPark(s, m)
    PROVE  /\ IndInv'
           /\ disk[s].lifecycle = "RESERVED" /\ disk[s].mission = m
           /\ ~disk[s].placed
           /\ disk' = [disk EXCEPT ![s] = EmptyRecord]
<1>1. RequireState(s, "RESERVED") /\ memory[s].mission = m /\ Save(s, EmptyRecord)
  BY DEF RollbackUnpublishedPark, RequireHeld
<1>2. /\ node = "up" /\ unassigned = NoSlot /\ memory = disk
      /\ disk[s].lifecycle = "RESERVED" /\ WellFormed(disk[s])
  BY <1>1, CallSeesRow
<1>3. EmptyRecord \in ParkingRecord /\ WellFormed(EmptyRecord)
  BY DEF ParkingRecord, EmptyRecord, Lifecycle, Numbers, WellFormed
<1>4. IndInv'
  BY <1>1, <1>2, <1>3, SavePreserves
<1>5. QED BY <1>1, <1>2, <1>4 DEF Save, WellFormed

LEMMA CompleteParkWrites ==
    ASSUME IndInv, NEW s \in Slots, NEW m \in Missions, CompletePark(s, m)
    PROVE  /\ IndInv'
           /\ disk[s].lifecycle = "RESERVED" /\ disk[s].mission = m
           /\ ~disk[s].placed
           /\ \E rec \in ParkingRecord :
                 /\ disk' = [disk EXCEPT ![s] = rec]
                 /\ rec.lifecycle = "OCCUPIED" /\ rec.mission = NoMission
                 /\ rec.number = disk[s].number
<1> DEFINE rec == [EmptyRecord EXCEPT !.lifecycle = "OCCUPIED", !.parkedBy = m,
                                      !.placed = TRUE,
                                      !.number = memory[s].number,
                                      !.credential = memory[s].credential]
<1>1. RequireState(s, "RESERVED") /\ memory[s].mission = m /\ Save(s, rec)
  BY DEF CompletePark, RequireHeld
<1>2. /\ node = "up" /\ unassigned = NoSlot /\ memory = disk
      /\ disk[s].lifecycle = "RESERVED" /\ WellFormed(disk[s])
      /\ disk[s] \in ParkingRecord
  BY <1>1, CallSeesRow
<1>3. /\ rec \in ParkingRecord /\ WellFormed(rec)
      /\ rec.lifecycle = "OCCUPIED" /\ rec.mission = NoMission
      /\ rec.number = disk[s].number
  BY <1>2, RegistryAssumption
  DEF ParkingRecord, EmptyRecord, Lifecycle, Numbers, WellFormed
<1>4. IndInv'
  BY <1>1, <1>2, <1>3, SavePreserves
<1>5. disk' = [disk EXCEPT ![s] = rec]
  BY <1>1 DEF Save
<1>6. QED BY <1>1, <1>2, <1>3, <1>4, <1>5 DEF WellFormed

LEMMA ReserveRetrieveWrites ==
    ASSUME IndInv, NEW s \in Slots, NEW m \in Missions, ReserveRetrieve(s, m)
    PROVE  /\ IndInv'
           /\ disk[s].lifecycle = "OCCUPIED"
           /\ \E rec \in ParkingRecord :
                 /\ disk' = [disk EXCEPT ![s] = rec]
                 /\ rec.lifecycle = "EXIT_RESERVED" /\ rec.mission = m
                 /\ rec.number = disk[s].number /\ rec.placed
<1> DEFINE rec == [memory[s] EXCEPT !.lifecycle = "EXIT_RESERVED",
                                    !.mission = m, !.kind = "retrieve"]
<1>1. RequireState(s, "OCCUPIED") /\ memory[s].placed /\ Save(s, rec)
  BY DEF ReserveRetrieve
<1>2. /\ node = "up" /\ unassigned = NoSlot /\ memory = disk
      /\ disk[s].lifecycle = "OCCUPIED" /\ WellFormed(disk[s])
      /\ disk[s] \in ParkingRecord
  BY <1>1, CallSeesRow
<1>3. /\ rec \in ParkingRecord /\ WellFormed(rec)
      /\ rec.lifecycle = "EXIT_RESERVED" /\ rec.mission = m
      /\ rec.number = disk[s].number /\ rec.placed
  BY <1>1, <1>2, RegistryAssumption
  DEF ParkingRecord, Lifecycle, WellFormed
<1>4. IndInv'
  BY <1>1, <1>2, <1>3, SavePreserves
<1>5. disk' = [disk EXCEPT ![s] = rec]
  BY <1>1 DEF Save
<1>6. QED BY <1>2, <1>3, <1>4, <1>5

LEMMA MarkExitingWrites ==
    ASSUME IndInv, NEW s \in Slots, NEW m \in Missions,
           MarkRetrieveExiting(s, m)
    PROVE  /\ IndInv'
           /\ disk[s].lifecycle = "EXIT_RESERVED" /\ disk[s].mission = m
           /\ \E rec \in ParkingRecord :
                 /\ disk' = [disk EXCEPT ![s] = rec]
                 /\ rec.lifecycle = "EXITING" /\ rec.mission = m
                 /\ rec.number = disk[s].number /\ rec.placed
<1> DEFINE rec == [memory[s] EXCEPT !.lifecycle = "EXITING"]
<1>1. RequireState(s, "EXIT_RESERVED") /\ memory[s].mission = m /\ Save(s, rec)
  BY DEF MarkRetrieveExiting, RequireHeld
<1>2. /\ node = "up" /\ unassigned = NoSlot /\ memory = disk
      /\ disk[s].lifecycle = "EXIT_RESERVED" /\ WellFormed(disk[s])
      /\ disk[s] \in ParkingRecord
  BY <1>1, CallSeesRow
<1>3. /\ rec \in ParkingRecord /\ WellFormed(rec)
      /\ rec.lifecycle = "EXITING" /\ rec.mission = m
      /\ rec.number = disk[s].number /\ rec.placed
  BY <1>1, <1>2, RegistryAssumption
  DEF ParkingRecord, Lifecycle, WellFormed
<1>4. IndInv'
  BY <1>1, <1>2, <1>3, SavePreserves
<1>5. disk' = [disk EXCEPT ![s] = rec]
  BY <1>1 DEF Save
<1>6. QED BY <1>1, <1>2, <1>3, <1>4, <1>5

LEMMA CompleteRetrieveWrites ==
    ASSUME IndInv, NEW s \in Slots, NEW m \in Missions, CompleteRetrieve(s, m)
    PROVE  /\ IndInv'
           /\ node = "up" /\ memory = disk
           /\ disk[s].lifecycle = "EXITING" /\ disk[s].mission = m
           /\ disk' = [disk EXCEPT ![s] = EmptyRecord]
<1>1. RequireState(s, "EXITING") /\ memory[s].mission = m /\ Save(s, EmptyRecord)
  BY DEF CompleteRetrieve, RequireHeld
<1>2. /\ node = "up" /\ unassigned = NoSlot /\ memory = disk
      /\ disk[s].lifecycle = "EXITING"
  BY <1>1, CallSeesRow
<1>3. EmptyRecord \in ParkingRecord /\ WellFormed(EmptyRecord)
  BY DEF ParkingRecord, EmptyRecord, Lifecycle, Numbers, WellFormed
<1>4. IndInv'
  BY <1>1, <1>2, <1>3, SavePreserves
<1>5. QED BY <1>1, <1>2, <1>4 DEF Save

-----------------------------------------------------------------------------
(* The invariants. *)

LEMMA InitEstablishes == Init => IndInv
<1> SUFFICES ASSUME Init PROVE IndInv
  OBVIOUS
<1>1. EmptyRecord \in ParkingRecord /\ WellFormed(EmptyRecord)
  BY DEF ParkingRecord, EmptyRecord, Lifecycle, Numbers, WellFormed
<1>2. disk = AllEmpty /\ memory = AllEmpty /\ unassigned = NoSlot /\ node = "up"
  BY DEF Init
<1>3. \A s \in Slots : disk[s] = EmptyRecord
  BY <1>2 DEF AllEmpty
<1>4. TypeOK
  BY <1>1, <1>2 DEF TypeOK, AllEmpty
<1>5. MemoryMirrorsDisk /\ DownIsQuiet /\ RefusedOnlyMidMission
  BY <1>2 DEF MemoryMirrorsDisk, DownIsQuiet, RefusedOnlyMidMission
<1>6. OneSlotPerVehicle
  BY <1>3, EmptyFields DEF OneSlotPerVehicle
<1>7. RowsWellFormed
  BY <1>1, <1>3 DEF RowsWellFormed
<1>8. QED BY <1>4, <1>5, <1>6, <1>7 DEF IndInv

LEMMA AssignPreserves ==
    ASSUME IndInv, Assign PROVE IndInv'
<1>1. /\ node = "up" /\ unassigned \in Slots
      /\ memory' = [memory EXCEPT ![unassigned] = disk[unassigned]]
      /\ unassigned' = NoSlot /\ disk' = disk /\ node' = node
  BY DEF Assign, IndInv, TypeOK
<1>2. TypeOK'
  BY <1>1 DEF IndInv, TypeOK
<1>3. MemoryMirrorsDisk'
  BY <1>1 DEF IndInv, TypeOK, MemoryMirrorsDisk
<1>4. OneSlotPerVehicle' /\ RowsWellFormed'
  BY <1>1 DEF IndInv, OneSlotPerVehicle, RowsWellFormed, WellFormed
<1>5. DownIsQuiet' /\ RefusedOnlyMidMission'
  BY <1>1 DEF DownIsQuiet, RefusedOnlyMidMission
<1>6. QED BY <1>2, <1>3, <1>4, <1>5 DEF IndInv

LEMMA CrashPreserves ==
    ASSUME IndInv, Crash PROVE IndInv'
<1>1. /\ node' = "down" /\ memory' = AllEmpty /\ unassigned' = NoSlot
      /\ disk' = disk
  BY DEF Crash
<1>2. AllEmpty \in [Slots -> ParkingRecord]
  BY DEF AllEmpty, ParkingRecord, EmptyRecord, Lifecycle, Numbers
<1>3. TypeOK'
  BY <1>1, <1>2 DEF IndInv, TypeOK
<1>4. MemoryMirrorsDisk' /\ DownIsQuiet' /\ RefusedOnlyMidMission'
  BY <1>1 DEF MemoryMirrorsDisk, DownIsQuiet, RefusedOnlyMidMission
<1>5. OneSlotPerVehicle' /\ RowsWellFormed'
  BY <1>1 DEF IndInv, OneSlotPerVehicle, RowsWellFormed, WellFormed
<1>6. QED BY <1>3, <1>4, <1>5 DEF IndInv

LEMMA RestorePreserves ==
    ASSUME IndInv, Restore PROVE IndInv'
<1>1. /\ node' = "up" /\ memory' = disk /\ unassigned' = NoSlot
      /\ disk' = disk
  BY DEF Restore, IndInv, DownIsQuiet
<1>2. TypeOK' /\ MemoryMirrorsDisk' /\ DownIsQuiet' /\ RefusedOnlyMidMission'
  BY <1>1 DEF IndInv, TypeOK, MemoryMirrorsDisk, DownIsQuiet,
              RefusedOnlyMidMission
<1>3. OneSlotPerVehicle' /\ RowsWellFormed'
  BY <1>1 DEF IndInv, OneSlotPerVehicle, RowsWellFormed, WellFormed
<1>4. QED BY <1>2, <1>3 DEF IndInv

LEMMA RefusePreserves ==
    ASSUME IndInv, Refuse PROVE IndInv'
<1>1. /\ node # "up" /\ node' = "refused" /\ disk' = disk
      /\ memory' = memory /\ unassigned' = unassigned
  BY DEF Refuse
<1>2. PICK s \in Slots : ~ValidRestored(disk[s])
  BY DEF Refuse
<1>3. WellFormed(disk[s]) /\ disk[s] \in ParkingRecord
  BY DEF IndInv, RowsWellFormed, TypeOK
<1>4. disk[s].lifecycle \in {"RESERVED", "EXIT_RESERVED", "EXITING"}
  <2>1. disk[s].lifecycle \in Lifecycle
    BY <1>3 DEF ParkingRecord
  <2>2. disk[s].lifecycle # "EMPTY" /\ disk[s].lifecycle # "OCCUPIED"
    BY <1>2, <1>3 DEF WellFormed, ValidRestored
  <2>3. QED BY <2>1, <2>2 DEF Lifecycle
<1>5. RefusedOnlyMidMission'
  BY <1>1, <1>4 DEF RefusedOnlyMidMission
<1>6. TypeOK' /\ MemoryMirrorsDisk' /\ DownIsQuiet'
  BY <1>1 DEF IndInv, TypeOK, MemoryMirrorsDisk, DownIsQuiet
<1>7. OneSlotPerVehicle' /\ RowsWellFormed'
  BY <1>1 DEF IndInv, OneSlotPerVehicle, RowsWellFormed, WellFormed
<1>8. QED BY <1>5, <1>6, <1>7 DEF IndInv

LEMMA StutterPreserves ==
    ASSUME IndInv, UNCHANGED vars PROVE IndInv'
BY DEF IndInv, TypeOK, MemoryMirrorsDisk, OneSlotPerVehicle, RowsWellFormed,
       WellFormed, DownIsQuiet, RefusedOnlyMidMission, vars

\* Every call, crash and restart keeps the invariant.
LEMMA NextPreserves == IndInv /\ [Next]_vars => IndInv'
<1> SUFFICES ASSUME IndInv, [Next]_vars PROVE IndInv'
  OBVIOUS
<1>1. ASSUME NEW s \in Slots, NEW m \in Missions, NEW v \in Numbers,
             NEW c \in BOOLEAN, ReservePark(s, m, v, c)
      PROVE  IndInv'
  BY <1>1, ReserveParkWrites
<1>2. ASSUME NEW s \in Slots, NEW m \in Missions, RollbackUnpublishedPark(s, m)
      PROVE  IndInv'
  BY <1>2, RollbackWrites
<1>3. ASSUME NEW s \in Slots, NEW m \in Missions, CompletePark(s, m)
      PROVE  IndInv'
  BY <1>3, CompleteParkWrites
<1>4. ASSUME NEW s \in Slots, NEW m \in Missions, ReserveRetrieve(s, m)
      PROVE  IndInv'
  BY <1>4, ReserveRetrieveWrites
<1>5. ASSUME NEW s \in Slots, NEW m \in Missions, MarkRetrieveExiting(s, m)
      PROVE  IndInv'
  BY <1>5, MarkExitingWrites
<1>6. ASSUME NEW s \in Slots, NEW m \in Missions, CompleteRetrieve(s, m)
      PROVE  IndInv'
  BY <1>6, CompleteRetrieveWrites
<1>7. CASE Assign          BY <1>7, AssignPreserves
<1>8. CASE Crash           BY <1>8, CrashPreserves
<1>9. CASE Restore         BY <1>9, RestorePreserves
<1>10. CASE Refuse         BY <1>10, RefusePreserves
<1>11. CASE UNCHANGED vars BY <1>11, StutterPreserves
<1>12. QED
  BY <1>1, <1>2, <1>3, <1>4, <1>5, <1>6, <1>7, <1>8, <1>9, <1>10, <1>11
  DEF Next

\* The whole invariant holds in every reachable state.
THEOREM InvariantHolds == Spec => []IndInv
<1>1. Init => IndInv  BY InitEstablishes
<1>2. IndInv /\ [Next]_vars => IndInv'  BY NextPreserves
<1>3. QED BY <1>1, <1>2, PTL DEF Spec

\* Records, lifecycles and the process state keep their types.
THEOREM TypeCorrect == Spec => []TypeOK
<1>1. IndInv => TypeOK  BY DEF IndInv
<1>2. QED BY <1>1, InvariantHolds, PTL

\* No sequence of calls and crashes puts one vehicle number into two rows.
THEOREM VehiclesAreUnique == Spec => []OneSlotPerVehicle
<1>1. IndInv => OneSlotPerVehicle  BY DEF IndInv
<1>2. QED BY <1>1, InvariantHolds, PTL

\* Every row says what its lifecycle needs: no row of a mission is left half
\* written by a call or a crash.
THEOREM RowsAreWellFormed == Spec => []RowsWellFormed
<1>1. IndInv => RowsWellFormed  BY DEF IndInv
<1>2. QED BY <1>1, InvariantHolds, PTL

\* The live records are the durable ones whenever no write is under way.
THEOREM MemoryIsDurable == Spec => []MemoryMirrorsDisk
<1>1. IndInv => MemoryMirrorsDisk  BY DEF IndInv
<1>2. QED BY <1>1, InvariantHolds, PTL

\* A restart is refused only because a mission was cut off.
THEOREM RefusalIsJustified == Spec => []RefusedOnlyMidMission
<1>1. IndInv => RefusedOnlyMidMission  BY DEF IndInv
<1>2. QED BY <1>1, InvariantHolds, PTL

\* The search for a vehicle number and the unique index agree.
THEOREM NumberCheckIsExact == Spec => []NumberCheckMatchesIndex
<1>1. IndInv => NumberCheckMatchesIndex
  <2> SUFFICES ASSUME IndInv, node = "up", unassigned = NoSlot,
                      NEW v \in Vehicles
               PROVE  Registered(v) <=> \E t \in Slots : disk[t].number = v
    BY DEF NumberCheckMatchesIndex
  <2>1. \A t \in Slots : memory[t] = disk[t]
    BY RegistryAssumption DEF IndInv, MemoryMirrorsDisk
  <2>2. \A t \in Slots : disk[t].number = v => disk[t].lifecycle # "EMPTY"
    BY RegistryAssumption, EmptyFields DEF IndInv, RowsWellFormed, WellFormed
  <2>3. QED BY <2>1, <2>2 DEF Registered
<1>2. QED BY <1>1, InvariantHolds, PTL

-----------------------------------------------------------------------------
(* Placed cars. *)

\* Only CompleteRetrieve takes a placed car out of its row.
LEMMA PlacedStep ==
    ASSUME IndInv, [Next]_vars, NEW s \in Slots,
           disk[s].placed, ~disk'[s].placed
    PROVE  /\ disk[s].lifecycle = "EXITING"
           /\ node = "up" /\ memory[s].lifecycle = "EXITING"
<1> DEFINE Goal == /\ disk[s].lifecycle = "EXITING"
                   /\ node = "up" /\ memory[s].lifecycle = "EXITING"
<1>0. disk \in [Slots -> ParkingRecord]
  BY DEF IndInv, TypeOK
<1>1. ASSUME NEW t \in Slots, NEW m \in Missions, NEW v \in Numbers,
             NEW c \in BOOLEAN, ReservePark(t, m, v, c)
      PROVE  Goal
  BY <1>0, <1>1, ReserveParkWrites
<1>2. ASSUME NEW t \in Slots, NEW m \in Missions, RollbackUnpublishedPark(t, m)
      PROVE  Goal
  BY <1>0, <1>2, RollbackWrites
<1>3. ASSUME NEW t \in Slots, NEW m \in Missions, CompletePark(t, m)
      PROVE  Goal
  BY <1>0, <1>3, CompleteParkWrites
<1>4. ASSUME NEW t \in Slots, NEW m \in Missions, ReserveRetrieve(t, m)
      PROVE  Goal
  BY <1>0, <1>4, ReserveRetrieveWrites
<1>5. ASSUME NEW t \in Slots, NEW m \in Missions, MarkRetrieveExiting(t, m)
      PROVE  Goal
  BY <1>0, <1>5, MarkExitingWrites
<1>6. ASSUME NEW t \in Slots, NEW m \in Missions, CompleteRetrieve(t, m)
      PROVE  Goal
  BY <1>0, <1>6, CompleteRetrieveWrites
<1>7. CASE Assign \/ Crash \/ Restore \/ Refuse \/ UNCHANGED vars
  BY <1>7 DEF Assign, Crash, Restore, Refuse, vars
<1>8. QED
  BY <1>1, <1>2, <1>3, <1>4, <1>5, <1>6, <1>7 DEF Next

\* No crash, restart or other mission's call loses a placed car.
THEOREM PlacedCarsStay == Spec => PlacedCarIsNotLost
<1>1. ASSUME IndInv, [Next]_vars
      PROVE  [\A s \in Slots :
                 disk[s].placed /\ ~disk'[s].placed =>
                    /\ disk[s].lifecycle = "EXITING"
                    /\ node = "up"
                    /\ memory[s].lifecycle = "EXITING"]_vars
  BY <1>1, PlacedStep
<1>2. QED BY <1>1, InvariantHolds, PTL DEF Spec, PlacedCarIsNotLost

-----------------------------------------------------------------------------
(* Refinement. *)

\* One replaced row is one move of its slot; every other slot stays.
LEMMA ReplacedRowMoves ==
    ASSUME disk \in [Slots -> ParkingRecord], NEW s \in Slots,
           NEW rec \in ParkingRecord, disk' = [disk EXCEPT ![s] = rec]
    PROVE  Abstract!Move(s, disk[s].lifecycle, rec.lifecycle,
                         rec.mission, rec.number)
BY DEF Abstract!Move

LEMMA StepRefines ==
    ASSUME IndInv, [Next]_vars
    PROVE  [Abstract!Next]_(Abstract!vars)
<1> USE DEF Numbers
<1>0. disk \in [Slots -> ParkingRecord]
  BY DEF IndInv, TypeOK
<1>e. /\ EmptyRecord \in ParkingRecord /\ EmptyRecord.lifecycle = "EMPTY"
      /\ EmptyRecord.mission = NoMission /\ EmptyRecord.number = Anonymous
  BY DEF EmptyRecord, ParkingRecord, Lifecycle
<1>1. ASSUME NEW s \in Slots, NEW m \in Missions, NEW v \in Numbers,
             NEW c \in BOOLEAN, ReservePark(s, m, v, c)
      PROVE  Abstract!Next
  <2>1. Abstract!Move(s, "EMPTY", "RESERVED", m, v)
    BY <1>0, <1>1, ReserveParkWrites, ReplacedRowMoves
  <2>2. v # Anonymous => \A t \in Slots : disk[t].number # v
    BY <1>1, ReserveParkWrites
  <2>3. Abstract!Reserve(s, m, v)
    BY <2>1, <2>2 DEF Abstract!Reserve
  <2>4. QED BY <2>3 DEF Abstract!Next
<1>2. ASSUME NEW s \in Slots, NEW m \in Missions, RollbackUnpublishedPark(s, m)
      PROVE  Abstract!Next
  <2>1. Abstract!Move(s, "RESERVED", "EMPTY", NoMission, Anonymous)
    BY <1>0, <1>e, <1>2, RollbackWrites, ReplacedRowMoves
  <2>2. Abstract!Withdraw(s, m)
    BY <1>2, <2>1, RollbackWrites DEF Abstract!Withdraw
  <2>3. QED BY <2>2 DEF Abstract!Next
<1>3. ASSUME NEW s \in Slots, NEW m \in Missions, CompletePark(s, m)
      PROVE  Abstract!Next
  <2>a. disk[s].lifecycle = "RESERVED"
    BY <1>3, CompleteParkWrites
  <2>b. PICK rec \in ParkingRecord :
           /\ disk' = [disk EXCEPT ![s] = rec]
           /\ rec.lifecycle = "OCCUPIED" /\ rec.mission = NoMission
           /\ rec.number = disk[s].number
    BY <1>3, CompleteParkWrites
  <2>1. Abstract!Move(s, "RESERVED", "OCCUPIED", NoMission, disk[s].number)
    BY <1>0, <2>a, <2>b DEF Abstract!Move
  <2>2. Abstract!Occupy(s, m)
    BY <1>3, <2>1, CompleteParkWrites DEF Abstract!Occupy, Abstract!Move
  <2>3. QED BY <2>2 DEF Abstract!Next
<1>4. ASSUME NEW s \in Slots, NEW m \in Missions, ReserveRetrieve(s, m)
      PROVE  Abstract!Next
  <2>a. disk[s].lifecycle = "OCCUPIED"
    BY <1>4, ReserveRetrieveWrites
  <2>b. PICK rec \in ParkingRecord :
           /\ disk' = [disk EXCEPT ![s] = rec]
           /\ rec.lifecycle = "EXIT_RESERVED" /\ rec.mission = m
           /\ rec.number = disk[s].number
    BY <1>4, ReserveRetrieveWrites
  <2>1. Abstract!Move(s, "OCCUPIED", "EXIT_RESERVED", m, disk[s].number)
    BY <1>0, <2>a, <2>b DEF Abstract!Move
  <2>2. Abstract!ReserveExit(s, m)
    BY <2>1 DEF Abstract!ReserveExit, Abstract!Move
  <2>3. QED BY <2>2 DEF Abstract!Next
<1>5. ASSUME NEW s \in Slots, NEW m \in Missions, MarkRetrieveExiting(s, m)
      PROVE  Abstract!Next
  <2>a. disk[s].lifecycle = "EXIT_RESERVED"
    BY <1>5, MarkExitingWrites
  <2>b. PICK rec \in ParkingRecord :
           /\ disk' = [disk EXCEPT ![s] = rec]
           /\ rec.lifecycle = "EXITING" /\ rec.mission = m
           /\ rec.number = disk[s].number
    BY <1>5, MarkExitingWrites
  <2>1. Abstract!Move(s, "EXIT_RESERVED", "EXITING", m, disk[s].number)
    BY <1>0, <2>a, <2>b DEF Abstract!Move
  <2>2. Abstract!StartExit(s, m)
    BY <1>5, <2>1, MarkExitingWrites DEF Abstract!StartExit, Abstract!Move
  <2>3. QED BY <2>2 DEF Abstract!Next
<1>6. ASSUME NEW s \in Slots, NEW m \in Missions, CompleteRetrieve(s, m)
      PROVE  Abstract!Next
  <2>1. Abstract!Move(s, "EXITING", "EMPTY", NoMission, Anonymous)
    BY <1>0, <1>e, <1>6, CompleteRetrieveWrites, ReplacedRowMoves
  <2>2. Abstract!Vacate(s, m)
    BY <1>6, <2>1, CompleteRetrieveWrites DEF Abstract!Vacate
  <2>3. QED BY <2>2 DEF Abstract!Next
<1>7. CASE Assign \/ Crash \/ Restore \/ Refuse \/ UNCHANGED vars
  <2>1. disk' = disk
    BY <1>7 DEF Assign, Crash, Restore, Refuse, vars
  <2>2. UNCHANGED Abstract!vars
    BY <2>1 DEF Abstract!vars
  <2>3. QED BY <2>2
<1>8. QED
  BY <1>1, <1>2, <1>3, <1>4, <1>5, <1>6, <1>7 DEF Next

\* The rows of the database implement the abstract slot lifecycle.
THEOREM RegistryImplementsLifecycle == Spec => ImplementsSlotLifecycle
<1>1. Init => Abstract!Init
  <2> SUFFICES ASSUME Init PROVE Abstract!Init
    OBVIOUS
  <2>1. \A s \in Slots : disk[s] = EmptyRecord
    BY DEF Init, AllEmpty
  <2>2. /\ EmptyRecord.lifecycle = "EMPTY" /\ EmptyRecord.mission = NoMission
        /\ EmptyRecord.number = Anonymous
    BY DEF EmptyRecord
  <2>3. QED BY <2>1, <2>2 DEF Abstract!Init
<1>2. IndInv /\ [Next]_vars => [Abstract!Next]_(Abstract!vars)
  BY StepRefines
<1>3. QED
  BY <1>1, <1>2, InvariantHolds, PTL
  DEF Spec, ImplementsSlotLifecycle, Abstract!Spec
=============================================================================
