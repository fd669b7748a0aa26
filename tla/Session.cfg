CONSTANTS
    BufLen = 2
    Window = 2
    MaxBytes <- MCMaxBytes

SPECIFICATION FairSpec

INVARIANT TypeOK
INVARIANT NothingLostWhileOpen
INVARIANT DeliveredIsLogged
INVARIANT EofMeansForwarded
PROPERTY IsByteRelay
PROPERTY EndsWithPeer
PROPERTY DirectionsIndependent
