CONSTANTS
    Depth = 2
    Room = 1
SPECIFICATION FairSpec
INVARIANTS
    TypeOK
    TornNeverActs
PROPERTIES
    ImplementsFifo
    LossClosesSession
    RequestIsServed
    RefusalClosesSession
