CONSTANTS
    Streams <- MCStreams
    Profiles <- MCProfiles
    BufferLen = 4
    PreviewLen = 3

SPECIFICATION Spec

\* The stream ends.
CHECK_DEADLOCK FALSE

INVARIANT TypeOK
INVARIANT RedactsSecretsOnly
INVARIANT HighlightMarksPatterns
