SPECIFICATION FairSpec
CONSTANTS
    NCmd = 7
    Graphs <- MCGraphs
    Empties <- MCEmpties
    MaxJobs <- MCMaxJobs
    ComplOoo <- MCBoth
INVARIANTS
    OpenFilesBounded
    ZeroMeansAllOk
PROPERTIES
    ShownInOrder
    ExecReturns
CHECK_DEADLOCK FALSE
