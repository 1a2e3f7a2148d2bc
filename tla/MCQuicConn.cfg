SPECIFICATION Spec
CONSTANTS
    Cfgs <- SomeCfgs
    MaxData = 8
    MaxChunk = 2
CHECK_DEADLOCK FALSE
INVARIANTS Handoff CryptoInOrder EventsInOrder DeclineHonoured ExitClosesChannels
PROPERTIES CallsReturn
