SPECIFICATION Spec
CONSTANTS
    Null = Null
    n1 = n1  n2 = n2  a = a  b = b  c = c  ex = ex  sp = sp
    Ns = {n1, n2}
    EmptyNs = none
    Ctype = {a, c}
    NsOf <- MCNsOf
    Pos <- MCPos
    Fields <- MCFields
    BackRefs <- MCBackRefs
    Ssimfile = {c}
    Content <- MCContent
    OverlayRows <- MCOverlayRows
    Char = {ex, sp}
    Space = sp
    CtypeMatchesFilter <- MCMatches
    Inputs <- OverlayInputs
    TermHei = {40}
    StartHei = 40
    FilterArgs <- MCFilterArgs
    ViewArgs = {}
    MaxFilter = 1
    MaxNav = 1
    MaxOverlay = 3
INVARIANTS
    DetailOfSelection
    ContentCurrent
PROPERTIES
    DismissReturns
