CONSTANTS
    Missions = {m1}
    NoMission = NoMission
    NoStage = NoStage
    Troubles = {}
    Rearms = FALSE
SPECIFICATION Spec
CHECK_DEADLOCK FALSE
PROPERTIES
    LiftedClaimIsTrue
