CONSTANTS
    p1 = p1
    p2 = p2
    s1 = s1
    s2 = s2
    s3 = s3
    n1 = n1
    Pipelines <- MCPipelines
    Sessions <- MCSessions
    Names <- MCNames
    PipelineOf <- MCPipelineOf
    NameOf <- MCNameOf
    AcceptMayFail = TRUE
    StdoutMayFail = TRUE
    HandlerMayFail = TRUE

SPECIFICATION Spec

INVARIANT AcceptsUntilCancelled
