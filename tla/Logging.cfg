CONSTANTS
    wa = wa
    wb = wb
    wc = wc
    b1 = b1
    b2 = b2
    b3 = b3
    Writers <- MCWriters
    Letters <- MCLetters
    Chunks <- MCChunks
    Output <- MCOutput
    Buffers <- MCBuffers
    MaxIdle = 1
    MaxChunks <- MCMaxChunks
    MaxFaults = 1

SPECIFICATION FairSpec

INVARIANT TypeOK
INVARIANT BuffersHaveOneOwner
INVARIANT PrintsWhatIsDue
INVARIANT CapturesWhatIsPrinted
INVARIANT TornByFaultsOnly
PROPERTY LogReturns
