SPECIFICATION FairSpec
INVARIANTS
    TypeOK
    LostOnlyWhenDisturbed
PROPERTIES
    ConfirmMatchesAnswer
    CleanHandshakeAgrees
    HandshakeCompletes
CONSTANTS
    KeyExchanges = {x25519, p256}
    NoKx = NoKx
    NumAlgs = 2
    FaultTolerant = 2
    MaxKeys = 3
    MaxData = 1
    MaxRefused = 1
    MaxReloads = 1
CHECK_DEADLOCK FALSE
