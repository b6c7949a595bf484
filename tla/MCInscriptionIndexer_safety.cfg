SPECIFICATION Spec
CONSTANTS
    p1 = p1
    p2 = p2
    o1 = o1
    o2 = o2
    Nobody = Nobody
    Passes = {p1, p2}
    Owners = {o1, o2}
    Bodies <- SafetyBodies
    Chains <- MCChains
    UpstreamWindow <- AnyPC
    FaultKinds = {"early", "staged", "final", "late", "crash", "rpc"}
    MovesOfConsumed = TRUE
    MaxHeight = 2
    MaxEvents = 2
    Genesis = 1
    MaxReorgs = 1
    MaxFaults = 1
    EnergyThreshold = 1
    GrowthMultiplier = 2
    PenaltyMultiplier = 3
    U64Max = 1000
INVARIANTS
    TypeOK
    OneActivePerOwner
    StoreChecksNeverFail
    PendingMatchesSynced
    EnergyAgreesWithPasses
    EnergyNeverBehind
PROPERTY DurableStoreIsALog
ACTION_CONSTRAINT PollBeforeRead
