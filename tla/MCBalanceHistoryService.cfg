SPECIFICATION ServiceSpec
CONSTANTS
    a = a
    b = b
    o1 = o1
    o2 = o2
    o3 = o3
    o4 = o4
    Outpoint <- MCOutpoint
    Script <- MCScript
    ScriptOf <- MCScriptOf
    ValueOf <- MCValueOf
    Body <- MCBody
    Chains <- ServiceChains
    MaxLength = 3
    BatchSize = 2
    MaxSyncHeight = 4
    StableLag = 0
    UndoRetention = 9
    CleanupInterval = 2
    MaxReorgs = 1
    MaxFaults = 1
    Faults = {"crash"}
    ReorgWindow <- WhileWaiting
    ReaderWindow <- BetweenWrites
    Requests <- AllRequests
    Version = "v1"
    MaxBuckets = 2
INVARIANTS
    AnswersAreOneState
    AggregatesAddUp
    RefusalsAreTrue
    ReadyNamesACommit
ACTION_CONSTRAINTS
    Relevant
