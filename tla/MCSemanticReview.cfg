SPECIFICATION Spec
CONSTANTS
    CsvIds = {"x", "xy"}
    Containing <- MCContaining
    EvidenceNames = {"scan", "ring"}
    BlockedEvidence <- MCBlockedEvidence
    Compatible = {"r1", "r2"}
    MaxPropositions = 2
    PayloadLimit = 2
    MaxTransitions = 3
    LifecycleLimit = 5
    MaxBatch = 2
    BatchLimit = 4
    DeclarationLists <- MCDeclarationLists
    Requests <- MCRequests
    RequestLists <- MCRequestLists
    BatchAuthorizations <- MCBatchAuthorizations
    Releases <- MCReleases
    Versions = {0, 1, 2, 3}
    MaxWrites = 1
    TightLimit = 3
    MaxCandidates = 1
    MaxLedgers = 2
    MaxReceipts = 1
    MaxBlocked = 1
CHECK_DEADLOCK FALSE
INVARIANTS
    
    ValidIsLineage
    PathsAgree
