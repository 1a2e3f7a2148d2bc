SPECIFICATION Spec
CONSTANTS
    ClientCfgs <- MCClientCfgs
    ServerCfgs <- MCServerCfgs
    Transports = {TRUE, FALSE}
    MaxConns = 2
INVARIANT ECHRejectionReported
CHECK_DEADLOCK FALSE
