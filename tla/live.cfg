SPECIFICATION FairSpec
CONSTANTS
    c1 = c1
    c2 = c2
    p = p
    q = q
    s = s
    Client = {c1}
    Pool = {p, q, s}
    Static = {s}
    Rank <- MCRank
    NoPool = none
    Parts = 2
    Room = 2
    MaxVersion = 2
    MayStop = {c1}
    MayDie = TRUE
INVARIANTS
    BackPressure
    DataWhole
PROPERTIES
    CursorFollowsPool
    ChangesShown
    DisconnectNoticed
CHECK_DEADLOCK FALSE
