CONSTANTS
    Slots = {s1, s2}
    Missions = {m1, m2}
    Vehicles = {v1, v2}
    NoMission = NoMission
    Anonymous = Anonymous
    NoSlot = NoSlot
SPECIFICATION Spec
INVARIANTS
    TypeOK
    MemoryMirrorsDisk
    OneSlotPerVehicle
    NumberCheckMatchesIndex
    RowsWellFormed
    RefusedOnlyMidMission
PROPERTIES
    PlacedCarIsNotLost
    ImplementsSlotLifecycle
