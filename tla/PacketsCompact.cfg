CONSTANTS
    Streams <- MCStreams
    Profiles <- MCProfiles
    BufferLen = 4
    PreviewLen = 9

SPECIFICATION Spec

\* The stream ends.
CHECK_DEADLOCK FALSE

INVARIANT CompactIsHighlighted
