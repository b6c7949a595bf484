SPECIFICATION FairSpec
CONSTANTS
    Block <- MCBlock
    Parent <- MCParent
    Arrivals <- MCArrivals
    Genesis = "g"
    Zero = "0"
    RecordsPerFile = 2
    RestoreWindow = 1
    LoaderThreshold = 0
    StableLag = 0
    BatchSize = 1
    CacheCapacity = 1
    PrefetchCapacity = 1
    MaxRequests = 1
    MaxStops = 1
    MaxReorgs = 1
    MaxFaults = 1
    Faults = {"crash", "rpc", "duplicate", "resync"}
CHECK_DEADLOCK FALSE
INVARIANTS TypeOK SortedIsAChain IndexFollowsTheNode FetchedIsAsked
PROPERTY CatchesUp
