CONSTANTS
    app = app
    admin = admin
    data = data
    sidecar = sidecar
    None = None
    Orphan = Orphan
    Committers = {app}
    Admins = {admin}
    Files = {data, sidecar}
    MaxCommits = 2
    MaxGenerations = 3
    MaxMounts = 2
    MaxFailures = 2
    Quiescent = TRUE
    Tokens = {"a", "b"}
    Requests <- MCRequests
    Proposals <- MCProposals
    Callers = {c1, c2}
    Workers = {t1, t2}
    Sources = {"manager", "other"}
    Levels = {0, 1}
    Attempts = 2
    MaxObserved = 1
    MaxEpoch = 2
    MaxSequence = 2
    MaxCalls = 3
    MaxFaults = 1
    Parts = {"storage", "decoding", "telemetry"}
SPECIFICATION MCSpec
CHECK_DEADLOCK FALSE
SYMMETRY MCSymmetry
INVARIANTS
    
    ReceiptsTrue
    TracesAccepted
    OnePublisher
PROPERTIES
    ImagesMoveWhole
    DecodesAsTarget
    PublicationsInOrder
