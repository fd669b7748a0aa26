CONSTANTS
    BufLen = 2
    Window = 2
    MaxBytes <- MCMaxBytes

SPECIFICATION FairSpec

INVARIANT ForwardsEveryByte
