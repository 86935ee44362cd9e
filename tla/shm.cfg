SPECIFICATION FairSpec
CONSTANTS
    r1 = r1
    r2 = r2
    Reader = {r1, r2}
    RingSize = 6
    MaxMsg = 2
    MsgLen <- MCLen
    NMsg = 4
    CtlRoom = 1
    MayCrash = {r2}
    Blocking <- MCModes
    Huge = 1000
INVARIANTS
    NoOverwrite
PROPERTIES
    BroadcastSpec
    EveryMessageArrives
    SenderResumes
CHECK_DEADLOCK FALSE
