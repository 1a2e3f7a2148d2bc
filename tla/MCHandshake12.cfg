SPECIFICATION Spec
CONSTANTS
    ClientCfgs <- MCClientCfgs
    ServerCfgs <- MCServerCfgs
    MaxConns = 3
INVARIANTS
    Agreement
    AuthPolicy
    Interop
PROPERTY HandshakeEnds
\* after MaxConns connections there is nothing left to do
CHECK_DEADLOCK FALSE
