\* Concurrent reads, writes, raw writes and iteration with expiry checked by the facade.
CONSTANTS
    k1 = k1  k2 = k2  v1 = v1  undef = undef  sym = sym  circ = circ  t1 = t1  t2 = t2
    None = None
    EmptyKey = ""
    Undefined = undef
    Keys <- MCKeysTwo
    CleanKey <- CleanIdentityTwo
    Values <- ValuesUndef
    Symbols = {}
    Unserializable = {}
    Ttls = {1}
    Expiries = {2}
    DefaultTtl = None
    Tasks = {t1, t2}
    Ops = {"get", "getMany", "set", "setRaw", "iterator"}
    CheckExpired = TRUE
    ThrowOnErrors = FALSE
    Serialization = TRUE
    FastPath = FALSE
    Faults = FALSE
    MaxTime = 2
    MaxBatch = 2
    MaxCalls = 3
SPECIFICATION FairSpec
INVARIANTS TypeOK StoreOutlivesEnvelope SweepSafe
  
CHECK_DEADLOCK FALSE
