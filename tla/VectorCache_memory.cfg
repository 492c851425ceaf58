SPECIFICATION Spec
SYMMETRY Symmetry
CONSTANTS
    Clients = {w1, r1, r2}
    Writers = {w1}
    Nodes = {n1}
    Vecs = {v1, v2}
    Indexes = {i1, i2}
    NoVec = NoVec
    Unset = Unset
    NoView = NoView
    NoMatrix = NoMatrix
    Nobody = Nobody
    NoBuild = NoBuild
    HasReadPool = FALSE
    CommitAfterError = FALSE
    Budget = 4
    MaxEpoch = 3
INVARIANTS
    TypeOK
    CacheCoherent
    NoUncommittedVectors
    NoNilMapWrite
    NoOrphanMatrix
