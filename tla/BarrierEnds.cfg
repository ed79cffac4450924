CONSTANTS
    Missions = {m1, m2}
    NoMission = NoMission
    NoStage = NoStage
    Troubles = {"emergency"}
    Rearms = TRUE
SPECIFICATION FairSpec
CHECK_DEADLOCK FALSE
PROPERTIES
    MissionEnds
    EmergencyStopsBoth
