SPECIFICATION Spec
CONSTANTS
    i1 = i1
    i2 = i2
    t1 = t1
    t2 = t2
    None = None
    Instances = {i1, i2}
    Threads = {t1, t2}
    MaxChanges = 2
    MaxFailures = 2
    Buffer = 1
    MaxRetries = 1
INVARIANTS Converged HeardOnce
PROPERTIES Settles
CHECK_DEADLOCK FALSE
