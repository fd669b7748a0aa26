CONSTANTS
    Pipelines = {1, 2}
    Responses <- MCIdle
    HistoryLen = 2
    MaxPolls = 3

SPECIFICATION Spec

\* The program ends when the user quits.
CHECK_DEADLOCK FALSE

INVARIANT GraphIsThroughput
