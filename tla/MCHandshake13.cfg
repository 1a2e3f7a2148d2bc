SPECIFICATION Spec
CONSTANTS
    ClientCfgs <- MCClientCfgs
    ServerCfgs <- MCServerCfgs
    Transports = {TRUE, FALSE}
    MaxConns = 2
INVARIANTS
    Agreement
    AuthPolicy
    ECHKeepsSecrets
    Interop
    NeverStuck
\* after MaxConns connections there is nothing left to do
CHECK_DEADLOCK FALSE
