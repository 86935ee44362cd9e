SPECIFICATION FairSpec
CONSTANTS
    NCmd = 4
    Graphs <- MCGraphs
    Empties <- MCEmpties
    MaxJobs <- MCMaxJobs
    MaxErr <- MCMaxErr
INVARIANTS
    ZeroMeansBuilt
    LoopReported
PROPERTIES
    GivenUpForCause
    DagSpec
    BuildEnds
CHECK_DEADLOCK FALSE
