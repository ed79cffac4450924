CONSTANTS
    Missions = {m1}
    NoMission = NoMission
    NoStage = NoStage
    Troubles = {"recoverable", "stale"}
    Rearms = TRUE
SPECIFICATION Spec
CHECK_DEADLOCK FALSE
INVARIANTS
    TypeOK
    LoadHeldWhileDriving
    ReturnOnlyUnloaded
    Lockstep
PROPERTIES
    CompleteWhenBothReturned
