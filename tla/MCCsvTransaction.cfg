CONSTANTS
    orders = orders
    orders2 = orders2
    ragged = ragged
    p1 = p1
    p2 = p2
    t1 = t1
    t2 = t2
    NoArtifact = NoArtifact
    NoTx = NoTx
    Contents = {orders, orders2, ragged}
    Source <- MCSource
    Callers = {p1, p2}
    Txs = {t1}
    MaxFaults = 1
    MaxCalls = 3
    MaxSource = 4
    Requests <- MCRequests
    Again <- MCAgain
    MaxSourceBytes = 6
    MaxChunkBytes = 3
    MaxChunks = 5
    MaxRows = 5
    MaxPayloads = 13
SPECIFICATION MCSpec
CHECK_DEADLOCK FALSE
SYMMETRY Symmetry
INVARIANTS
    ValidatedIsWhole
    GenerationsAreBuilds

    
