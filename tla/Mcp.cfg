SPECIFICATION Spec
CONSTANTS
    l1 = l1
    s1 = s1
    s2 = s2
    s3 = s3
    c1 = c1
    c2 = c2
    g1 = g1
    g2 = g2
    p1 = p1
    p2 = p2
    None = None
    Logins = {l1}
    Sessions = {s1, s2, s3}
    Earlier = {s1, s2}
    Calls = {c1, c2}
    Conns = {g1, g2}
    Posts = {p1, p2}
    Buffer = 1
SYMMETRY Interchangeable
CONSTRAINT Bounded
INVARIANTS CorrelationAccounted DeliveredIsTrue ConnectionsAccounted IdentityCopied
CHECK_DEADLOCK FALSE
