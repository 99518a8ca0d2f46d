SPECIFICATION MCSpec
CONSTANTS
    Keys <- MCKeys
    Hash <- MCHash
    Entries = {e1, e2}
    Default = nothing
    MinCapacity = 4
    InitialCapacity = 1
    BlockSize = 2
    MaxHandle = 4
    MaxGeneration = 3
    MaxEpoch = 3
    Shards = 2
    Batches <- MCBatches
    Requests <- MCRequests
    Faults <- MCFaults
    Blobs <- MCBlobs
    Cuts <- MCCuts
    MaxCsv = 4
    MaxMutable = 3
    MaxText = 4
    TextBytes <- MCTextBytes
    MaxChunk = 3
    Threads = {t1, t2}
    Names = {"n", "m"}
    Texts <- MCTexts
    MaxWrites = 3
    MaxFaults = 1
SYMMETRY MCSymmetry
CHECK_DEADLOCK FALSE
INVARIANTS
    
    KernelsAgree
    
PROPERTIES
    ImplementsHandleMap
