SPECIFICATION Spec
CONSTANTS
    t1 = t1
    t2 = t2
    t3 = t3
    None = None
    Threads = {t1, t2, t3}
    MaxSize = 2
    MaxDepth = 2
INVARIANTS SlotsAccounted WaitersAreWoken StuckOnlyInCycle
CHECK_DEADLOCK FALSE
