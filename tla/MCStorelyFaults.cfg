\* Every operation, with expiry checks, against an adapter that rejects, refuses and
\* returns corrupt rows; values that cannot be encoded.  One caller: what each call reports.
CONSTANTS
    k1 = k1  k2 = k2  v1 = v1  undef = undef  sym = sym  circ = circ  t1 = t1  t2 = t2
    None = None
    EmptyKey = ""
    Undefined = undef
    Keys <- MCKeys
    CleanKey <- CleanToEmpty
    Values <- ValuesBad
    Symbols = {sym}
    Unserializable = {circ}
    Ttls = {}
    Expiries = {0}
    DefaultTtl = None
    Tasks = {t1}
    Ops = {"get", "getMany", "getRaw", "getManyRaw", "set", "setMany", "setRaw", "setManyRaw", "delete", "deleteMany", "has", "hasMany", "clear", "disconnect", "iterator"}
    CheckExpired = TRUE
    ThrowOnErrors = FALSE
    Serialization = TRUE
    FastPath = FALSE
    Faults = TRUE
    MaxTime = 1
    MaxBatch = 2
    MaxCalls = 2
SPECIFICATION Spec
INVARIANTS NoSilentFailure TelemetryMatchesResult
PROPERTIES WritesAligned
CHECK_DEADLOCK FALSE
