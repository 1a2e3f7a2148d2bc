SPECIFICATION Spec
CONSTANTS
    g1 = g1
    g2 = g2
    None = None
    Goroutines = {g1, g2}
    Cfgs <- BothVersions
    MaxCalls = 2
    MaxRecords = 2
    MaxUseless = 1
CHECK_DEADLOCK FALSE
INVARIANT RecordsInSequence
