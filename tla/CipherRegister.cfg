SPECIFICATION Spec
INVARIANT RegisterNegotiates
CONSTANTS
    KeyExchanges = {x25519, p256}
    NoKx = NoKx
    NumAlgs = 2
    FaultTolerant = 2
    MaxKeys = 3
    MaxData = 2
    MaxRefused = 1
    MaxReloads = 1
CHECK_DEADLOCK FALSE
