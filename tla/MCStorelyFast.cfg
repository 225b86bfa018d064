\* With throwOnErrors, the fast path beside slow operations on an in-memory store, with a default TTL.
CONSTANTS
    k1 = k1  k2 = k2  v1 = v1  undef = undef  sym = sym  circ = circ  t1 = t1  t2 = t2
    None = None
    EmptyKey = ""
    Undefined = undef
    Keys <- MCKeysTwo
    CleanKey <- CleanIdentityTwo
    Values <- ValuesSym
    Symbols = {sym}
    Unserializable = {}
    Ttls = {0, 2}
    Expiries = {}
    DefaultTtl = 1
    Tasks = {t1, t2}
    Ops = {"get", "set", "delete", "has", "setMany", "getRaw", "hasMany", "clear"}
    CheckExpired = FALSE
    ThrowOnErrors = TRUE
    Serialization = FALSE
    FastPath = TRUE
    Faults = TRUE
    MaxTime = 1
    MaxBatch = 1
    MaxCalls = 3
SYMMETRY TaskSymmetry
SPECIFICATION Spec
INVARIANTS NoSilentFailure
CHECK_DEADLOCK FALSE
