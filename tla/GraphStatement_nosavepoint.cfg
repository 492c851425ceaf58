SPECIFICATION Spec
SYMMETRY Symmetry
CONSTANTS
    n1 = n1
    n2 = n2
    r1 = r1
    one = one
    yes = yes
    L = L
    T = T
    Nodes = {n1, n2}
    Rels = {r1}
    Labels = {L}
    Types = {T}
    Values = {one, yes}
    WellTyped = {one}
    Scalars <- MCScalars
    SqlForm <- MCSqlForm
    Scopes <- OnlyTx
    CommitAfterError = TRUE
    Null = Null
    NoRow = NoRow
    NoEnds = NoEnds
    Unloaded = Unloaded
INVARIANT ConstraintsHold
