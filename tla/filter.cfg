SPECIFICATION SessionSpec
CONSTANTS
    Null = Null
    n1 = n1  n2 = n2  a = a  b = b  c = c  ex = ex  sp = sp
    Ns = {n1, n2}
    EmptyNs = none
    Ctype = {a, b, c}
    NsOf <- MCNsOf
    Pos <- MCPos
    Fields <- MCFields
    BackRefs <- MCBackRefs
    Ssimfile = {a, c}
    Content <- MCContent
    OverlayRows <- MCOverlayRows
    Char = {ex, sp}
    Space = sp
    CtypeMatchesFilter <- MCMatches
    Inputs <- FilterInputs
    TermHei = {40}
    StartHei = 40
    FilterArgs <- MCFilterArgs
    ViewArgs = {"xref"}
    MaxFilter = 1
    MaxNav = 0
    MaxOverlay = 3
INVARIANTS
    AutoExpandedOpen
PROPERTIES
    AcceptShowsMatches
    CancelReturns
