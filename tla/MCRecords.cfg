SPECIFICATION Spec
CONSTANTS
    Versions = {12, 13}
    Policies = {"never", "once"}
    maxUselessRecords = 2
    MaxRecords = 8
    MaxErrors = 2
    MaxBytes = 2
    MaxPost = 2
    MaxWire = 2
INVARIANTS MessageKeys DataFaithful LegalNeverRefused
CHECK_DEADLOCK FALSE
PROPERTIES DataDelivered
