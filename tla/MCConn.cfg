SPECIFICATION Spec
CONSTANTS
    g1 = g1
    g2 = g2
    g3 = g3
    None = None
    Goroutines = {g1, g2, g3}
    Cfgs <- BothVersions
    MaxCalls = 4
    MaxRecords = 2
    MaxUseless = 1
SYMMETRY GoroutineSymmetry
CHECK_DEADLOCK FALSE
INVARIANTS
    TypeOK
    CompleteMeansNoError
    NoAppDataAfterCloseNotify
    NoAppDataMidHandshake
    LockedRecordsInSequence
    ReadKeysInSync
    NoLockCycle
    CloseExcludesWrite
