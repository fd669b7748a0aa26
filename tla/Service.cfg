CONSTANTS
    none = none
    s1 = s1
    s2 = s2
    l1 = l1
    l2 = l2
    l3 = l3
    l4 = l4
    None = none
    SocketsOf <- MCSocketsOf
    Files <- MCFiles
    Content <- MCContent
    Slots <- MCSlots
    Sessions <- MCSessions
    StopTimeout <- MCStopTimeout
    MaxLag <- MCMaxLag

SPECIFICATION FairSpec

INVARIANT TypeOK
INVARIANT RunsWhatIsWritten
PROPERTY EndsForCause
PROPERTY RestartTakesEffect
