CONSTANTS
    Flushers = {f1}
    Names = {"a"}
    SubNames = {"a"}
    MaxData = 2
    MaxFlushes = 2
    MaxFaults = 1
    Procs = {p1, p2}
    MaxGen = 3
    Keeps = {1, 2}
    MaxOps = 4
    MaxStops = 1
    MaxDamage = 1
    Parts = {"file"}
SPECIFICATION MCSpec
SYMMETRY MCSymmetry
CHECK_DEADLOCK FALSE
INVARIANT FlushAtomic
