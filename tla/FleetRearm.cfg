CONSTANTS
    Slots = {s1, s2}
    Missions = {m1, m2}
    Vehicles = {v1}
    NoMission = NoMission
    Anonymous = Anonymous
    NoSlot = NoSlot
    MaxPlans = 3
    Troubles = {"fault"}
    Rearms = {"park"}
SPECIFICATION Spec
CHECK_DEADLOCK FALSE
INVARIANTS
    OneSlotPerMission
