SPECIFICATION Spec
SYMMETRY Symmetry
CONSTANTS
    Clients = {w1, r1}
    Writers = {w1}
    Nodes = {n1}
    Vecs = {v1}
    Indexes = {i1}
    NoVec = NoVec
    Unset = Unset
    NoView = NoView
    NoMatrix = NoMatrix
    Nobody = Nobody
    NoBuild = NoBuild
    HasReadPool = TRUE
    CommitAfterError = FALSE
    Budget = 4
    MaxEpoch = 4
INVARIANTS
    CacheCoherent
