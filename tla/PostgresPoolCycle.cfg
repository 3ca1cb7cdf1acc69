SPECIFICATION Spec
CONSTANTS
    t1 = t1
    t2 = t2
    t3 = t3
    None = None
    Threads = {t1, t2}
    MaxSize = 1
    MaxDepth = 1
INVARIANT NeverStuck
CHECK_DEADLOCK FALSE
