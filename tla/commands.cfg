SPECIFICATION Spec
CONSTANTS
    Null = Null
    n1 = n1  n2 = n2  a = a  b = b  c = c  ex = ex  sp = sp
    Ns = {n1, n2}
    EmptyNs = none
    Ctype = {a, c}
    NsOf <- MCNsOf
    Pos <- MCPos
    Fields <- MCFields
    BackRefs <- MCBackRefs
    Ssimfile = {a, c}
    Content <- MCContent
    OverlayRows <- MCOverlayRows
    Char = {ex, sp}
    Space = sp
    CtypeMatchesFilter <- MCMatches
    Inputs <- CommandInputs
    TermHei = {4}
    StartHei = 6
    FilterArgs <- MCFilterArgs
    ViewArgs = {"help", "codegen"}
    MaxFilter = 1
    MaxNav = 0
    MaxOverlay = 1
INVARIANTS
    OverlayReturns
    StartupHelpFirst
    LeftFresh
    FilterModeAlone
    SelectionInView
