SPECIFICATION Spec
CONSTANTS
    Handshakes = {h1, h2}
    Rotation = 2
    Lifetime = 3
    Setups <- SomeSetups
    AppKeys <- OneKey
    MaxTime = 5
    MaxHandshakes = 3
SYMMETRY HandshakeSymmetry
INVARIANT TicketKeysAvailable
