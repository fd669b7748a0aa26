CONSTANTS
    p1 = p1
    p2 = p2
    c1 = c1
    c2 = c2
    s1 = s1
    na = na
    Processes = {p1, p2}
    Names = {na}
    Sessions = {s1}
    Home <- MCHome
    NameOf <- MCNameOf
    Clients = {c1, c2}
    Requests <- MCRequests
    Reporting = {p2}
    MaxChunks <- MCMaxChunks
    MaxFaults = 1

SPECIFICATION FairSpec

\* Every process may be gone.
CHECK_DEADLOCK FALSE

INVARIANT TypeOK
INVARIANT AnswersAreTimely
INVARIANT AnswersAreComplete
INVARIANT EndsByFaultOnly
PROPERTY RequestsAreAnswered
