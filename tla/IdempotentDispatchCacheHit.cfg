SPECIFICATION Spec
CONSTANTS
    q1 = q1
    q2 = q2
    q3 = q3
    k1 = k1
    empty = empty
    a1 = a1
    a2 = a2
    None = None
    Requests = {q1, q2, q3}
    Keys = {k1}
    Calls <- BothAddresses
    Cached = TRUE
    EntryTtl = 2
    StaleAfter = 1
    CacheTtl = 1
SYMMETRY Interchangeable
INVARIANT ReservedIsReleased
CHECK_DEADLOCK FALSE
