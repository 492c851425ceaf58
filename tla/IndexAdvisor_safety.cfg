SPECIFICATION Spec
SYMMETRY Symmetry
CONSTANTS
    Clients = {c1, c2}
    Keys = {k1, k2}
    Builder = Builder
    Nobody = Nobody
    NoKey = NoKey
    Handles <- AllHandles
    DiskMayFail = TRUE
    ScansBefore = 2
    IndexMax = 1
CHECK_DEADLOCK FALSE
INVARIANT TypeOK
INVARIANT NoPhantomIndex
INVARIANT WithinCap
INVARIANT QueuedOnce
INVARIANT NoBuildAfterClose
PROPERTY ReadOnlyIndexedByReads
