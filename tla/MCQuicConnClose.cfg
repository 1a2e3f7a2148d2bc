SPECIFICATION Spec
CONSTANTS
    Cfgs <- SomeCfgs
    MaxData = 4
    MaxChunk = 2
CHECK_DEADLOCK FALSE
PROPERTIES CloseReturns
