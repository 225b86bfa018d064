SPECIFICATION Spec
CONSTANTS
    Adapters = {"mysql", "postgres", "sqlite"}
    Namespaces = {"n"}
    Names <- MCNames
    Stored <- MCStored
    None = None
    Stale = Stale
    Lives <- MCLives
    Tasks = {t1, t2}
    t1 = t1
    t2 = t2
    Ops <- MCOps
    Faults = TRUE
    Batches <- MCBatches
    MaxTime <- MCMaxTime
    MaxCalls = 2
    BatchSize = 1
    PageSize = 1
INVARIANTS TypeOK ReadsCurrent EffectsReported WalksExact
PROPERTIES SweepSafe
CHECK_DEADLOCK FALSE
