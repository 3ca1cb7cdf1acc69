SPECIFICATION FairSpec
CONSTANTS
    q1 = q1
    q2 = q2
    q3 = q3
    w1 = w1
    w2 = w2
    None = None
    Requests = {q1, q2, q3}
    Workers = {w1, w2}
    MaxConcurrency = 1
    DrainTimeout = 1
INVARIANTS InFlightAccounted CleanExitCutsNothing JobsInOnePlace
PROPERTIES JobsKeepPromise DrainEnds JobsEnd
CHECK_DEADLOCK FALSE
