CONSTANTS
    Session = {s1, s2, s3}
    None = None
    Acks = 1
    Line = 1
    Backlog = 1
    Luck = 1
    Troubles = {"restartLoaded"}
SPECIFICATION Spec
CHECK_DEADLOCK FALSE
INVARIANTS
    NeverReattachesOpen
