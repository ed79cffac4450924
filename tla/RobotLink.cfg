CONSTANTS
    Session = {s1, s2, s3}
    None = None
    Acks = 1
    Line = 1
    Backlog = 1
    Luck = 2
    Troubles = {"late", "overdue", "again", "garbled", "lost", "unplugged", "estop", "wheel",
                "restart"}
SPECIFICATION FairSpec
CHECK_DEADLOCK FALSE
INVARIANTS
    TypeOK
    Authority
    SessionAgreement
PROPERTIES
    EstopFreezes
    HeldCarIsKept
    JawsFollowMission
    LinkComesBack
    WheelsStop
