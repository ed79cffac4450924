CONSTANTS
    Missions = {m1, m2}
    NoMission = NoMission
    NoStage = NoStage
    Troubles = {"slow", "restart"}
    Rearms = FALSE
SPECIFICATION FairSpec
CHECK_DEADLOCK FALSE
PROPERTIES
    SetDownOnlyAtGoal
    HomeWhenComplete
    ImplementsPairMission
    NoEndlessWait
