SPECIFICATION ServiceSpec
CONSTANTS
    p1 = p1
    p2 = p2
    o1 = o1
    o2 = o2
    Nobody = Nobody
    Passes = {p1, p2}
    Owners = {o1, o2}
    Bodies <- ServiceBodies
    Chains <- ServiceChains
    UpstreamWindow <- WhileWaiting
    ReaderWindow <- Writes
    FaultKinds = {"crash"}
    MovesOfConsumed = FALSE
    MaxHeight = 3
    MaxEvents = 2
    Genesis = 2
    MaxReorgs = 1
    MaxFaults = 1
    EnergyThreshold = 1
    GrowthMultiplier = 2
    PenaltyMultiplier = 3
    U64Max = 1000
    PassOrder <- NumberOrder
    MaxPageSize = 2
    TopK = 1
    LoadPageSize = 1
    Version = "v1"
    Requests <- AllRequests
INVARIANTS
    ServiceTypeOK
    AnswersAreOneState
    NoBrokenInvariantReported
    ShownStateIsOneChain
ACTION_CONSTRAINTS
    PollBeforeRead
    Relevant
    PolledFirst
