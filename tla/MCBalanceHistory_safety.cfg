SPECIFICATION Spec
CONSTANTS
    a = a
    b = b
    o1 = o1
    o2 = o2
    o3 = o3
    o4 = o4
    Outpoint <- MCOutpoint
    Script <- MCScript
    ScriptOf <- MCScriptOf
    ValueOf <- MCValueOf
    Body <- MCBody
    Chains <- MCChains
    MaxLength = 3
    BatchSize = 2
    MaxSyncHeight = 9
    StableLag = 0
    UndoRetention = 2
    CleanupInterval = 1
    MaxReorgs = 1
    MaxFaults = 1
    Faults = {"crash", "rpc", "db"}
    ReorgWindow <- AnyPC
INVARIANTS
    TypeOK
    NothingAboveTip
    UndoCoversRollback
    JournalTracksHeight
    CommitsBindRows
    QueryReadyMeansSettled
PROPERTIES
    HeightMoves
