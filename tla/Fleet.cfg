CONSTANTS
    Slots = {s1, s2}
    Missions = {m1, m2}
    Vehicles = {v1}
    NoMission = NoMission
    Anonymous = Anonymous
    NoSlot = NoSlot
    MaxPlans = 3
    Troubles = {"fault", "publish", "crash", "late"}
    Rearms = {"retrieve"}
SPECIFICATION FairSpec
CHECK_DEADLOCK FALSE
INVARIANTS
    TypeOK
    OneSlotPerMission
    NoOrphanedSlot
    NumberStillFree
PROPERTIES
    RecordedWhereSetDown
    FreedWhenSetDown
    MissionSettles
