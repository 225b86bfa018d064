SPECIFICATION FairSpec
CONSTANTS
    Separator = ":"
    Namespaces <- TwoNamespaces
    Keys <- TwoKeys
    Values = {v1}
    v1 = v1
    None = None
    Lives = {None}
    a1 = a1
    a2 = a2
    Adapters = {a1}
    s1 = s1
    s2 = s2
    Stores = {s1, s2}
    Initially <- AllShort
    Methods <- OneNative
    t1 = t1
    t2 = t2
    Tasks = {t1, t2}
    Ops <- BatchesAndKeys
    Faults = TRUE
    Refusals = TRUE
    Setters = TRUE
    MaxBatch = 2
    MaxTime = 1
    MaxCalls = 2
INVARIANTS TypeOK SweepSafe AnswersAligned  ClearComplete
PROPERTIES ClearIsolated CallsComplete
CHECK_DEADLOCK FALSE
