CONSTANTS
    Missions = {m1}
    NoMission = NoMission
    NoStage = NoStage
    Troubles = {"hardware"}
    Rearms = TRUE
SPECIFICATION Spec
CHECK_DEADLOCK FALSE
PROPERTIES
    HomeWhenComplete
