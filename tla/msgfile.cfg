SPECIFICATION FairSpec
CONSTANTS
    NMsg = 3
    NOpen = 3
    Thr = 2
    TornPayload = TRUE
    Strays = {2, 9}
    Beyond = 0
INVARIANTS
    NumberedOnce
    ReadsBySeqno
    CloseTells
PROPERTIES
    BrokenIsLeft
    FlushedInTheEnd
CHECK_DEADLOCK FALSE
