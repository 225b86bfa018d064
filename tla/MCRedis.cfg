SPECIFICATION Spec
CONSTANTS
    Adapters = {"redis", "keydb", "valkey"}
    Namespaces = {"n"}
    Names <- MCNames
    Stored <- MCStored
    None = None
    Stale = Stale
    Lives <- MCLives
    Tasks = {t1, t2}
    t1 = t1
    t2 = t2
    Ops <- MCOps
    Batches <- MCBatches
    Masters = {m1, m2}
    m1 = m1
    m2 = m2
    MasterOf <- MCMaster
    Clusters = {"redis"}
    ChunkSize = 1
    Extending = {}
    Faults = TRUE
    MaxTime <- MCMaxTime
    MaxCalls = 2
INVARIANTS ReadsCurrent EffectsReported WalksComplete OneSlot
CHECK_DEADLOCK FALSE
