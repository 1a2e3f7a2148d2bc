SPECIFICATION ClientSpec
CONSTANTS
    Conns = {c1, c2}
    Servers = {s1, s2, s3}
    Capacity = 2
    MaxSessions = 1
    MaxCerts = 3
SYMMETRY Symmetry
INVARIANTS MapMatchesList EntriesReclaimed
PROPERTIES LRUButForNilPut LiveEntryStays
