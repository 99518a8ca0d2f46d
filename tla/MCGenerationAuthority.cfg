SPECIFICATION Spec
CONSTANTS
    None = None
    g1 = g1
    g2 = g2
    x1 = x1
    t1 = t1
    t2 = t2
    s1 = s1
    s2 = s2
    l1 = l1
    l2 = l2
    Stores = {s1, s2}
    Threads = {t1, t2}
    StoreOf <- TwoProcesses
    Generations = {g1, g2}
    Foreign = {}
    Parent <- MCParent
    Leases = {l1}
    MaxRecords = 3
    MaxPins = 1
    MaxFailures = 1
    SharedLeases = FALSE
INVARIANTS
    LogRecoverable
    HeadsCommitted
    LeasesProtect
    RollbackTargetLive
PROPERTIES
    LedgerSpec
