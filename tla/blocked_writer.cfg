SPECIFICATION FairSpec
CONSTANTS
    r1 = r1
    r2 = r2
    Reader = {r1}
    RingSize = 6
    MaxMsg = 2
    MsgLen <- MCLen
    NMsg = 5
    CtlRoom = 2
    MayCrash = {}
    Blocking <- MCBlocking
    Huge = 1000
PROPERTIES
    BlockedWriterResumes
CHECK_DEADLOCK FALSE
