\* One adapter over a live Map, its namespace changing under an iterator or a hasMany.
CONSTANTS
    v1 = v1  a1 = a1  t1 = t1
    None = None
    Separator = ":"
    Namespaces <- PlainNamespaces
    Keys <- OneKey
    Values = {v1}
    Ttls = {0, 1}
    Adapters = {a1}
    Tasks = {t1}
    HasKeys = TRUE
    MaxBatch = 2
    MaxTime = 2
    MaxInserts = 2
SPECIFICATION Spec
INVARIANTS TypeOK
PROPERTIES ImplementsPromise 
CHECK_DEADLOCK FALSE
