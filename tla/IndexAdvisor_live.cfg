SPECIFICATION FairSpec

CONSTANTS
    Clients = {c1, c2}
    Keys = {k1}
    Builder = Builder
    Nobody = Nobody
    NoKey = NoKey
    Handles <- FileHandle
    DiskMayFail = FALSE
    ScansBefore = 1
    IndexMax = 1
CHECK_DEADLOCK FALSE
PROPERTY AskedIsBuilt
PROPERTY CloseReturns
