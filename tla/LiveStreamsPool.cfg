SPECIFICATION FairSpec
CONSTANTS
    t1 = t1
    t2 = t2
    t3 = t3
    s1 = s1
    r1 = r1
    r2 = r2
    c1 = c1
    c2 = c2
    None = None
    Threads = {t1, t2}
    Streams = {s1}
    Rows = {r1}
    Connections = {c1, c2}
    SeparateReaders = FALSE
    Buffer = 1
    MaxWrites = 2
PROPERTY NeverRefused
CHECK_DEADLOCK FALSE
