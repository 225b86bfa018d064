\* One caller, sanitization that is not idempotent.
CONSTANTS
    k1 = k1  k2 = k2  v1 = v1  undef = undef  sym = sym  circ = circ  t1 = t1  t2 = t2
    None = None
    EmptyKey = ""
    Undefined = undef
    Keys <- MCKeysDollar
    CleanKey <- CleanNotIdempotent
    Values <- Values1
    Symbols = {}
    Unserializable = {}
    Ttls = {1}
    Expiries = {}
    DefaultTtl = None
    Tasks = {t1}
    Ops = {"get", "set"}
    CheckExpired = TRUE
    ThrowOnErrors = FALSE
    Serialization = TRUE
    FastPath = FALSE
    Faults = FALSE
    MaxTime = 2
    MaxBatch = 2
    MaxCalls = 3
SPECIFICATION Spec
PROPERTIES SweepRemovesOnlyExpired
CHECK_DEADLOCK FALSE
