CONSTANTS
    None = None
    Orphan = Orphan
    Processes = {p1, p2}
    Segments = {s1, s2}
    Damageable = {s1, s2}
    MaxGenerations = 3
    MaxFailures = 3
    ExclusiveRecovery = TRUE
    Programs <- MCPrograms
    Inputs <- MCInputs
    VMLimits <- MCLimits
    Drafts <- MCDrafts
    Foreign <- MCForeign
    DriverIds = {"d"}
    Signers = {"s"}
    Secrets = {1, 2}
    SignedManifests <- MCSignedManifests
    DriverFixtures <- MCDriverFixtures
    FoundryPolicies <- MCFoundryPolicies
    RunCalls <- MCRunCalls
    RegressCalls <- MCRegressCalls
    ReviewCalls <- MCReviewCalls
    FoundryLimits <- MCLimits
    MaxCases = 2
    MaxDriverReports = 2
SPECIFICATION MCSpec
INVARIANTS
    RetainedIntact
    
    TrustHolds
PROPERTIES
    PublicationsStand
    
    LifecycleForward
