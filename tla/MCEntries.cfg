SPECIFICATION Spec
CONSTANTS
    Adapters = {"memcache", "etcd", "dynamo", "mongo", "rocksdb"}
    Namespaces = {"n"}
    Names <- MCNames
    Stored <- MCStored
    None = None
    Stale = Stale
    Lives <- MCLives
    Tasks = {t1, t2}
    t1 = t1
    t2 = t2
    Ops <- MCOps
    Batches <- MCBatches
    WriteChunk = 2
    ReadChunk = 1
    PageSize = 1
    LeaseUnit = 1
    SharedTtl = None
    SecondTicks = 2
    IterationLimit = 2
    PastTilde = {}
    Faults = TRUE
    MaxTime <- MCMaxTime
    MaxCalls = 2
INVARIANTS  EffectsReportedElse  TableReady
PROPERTIES SweepSafe 
CHECK_DEADLOCK FALSE
