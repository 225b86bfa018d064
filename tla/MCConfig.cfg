SPECIFICATION ConfigSpec
CONSTANTS
    i1 = i1
    i2 = i2
    m1 = m1
    r1 = r1
    n1 = n1
    n2 = n2
    z1 = z1
    z2 = z2
    Instances = {i1, i2}
    Adapters = {m1, r1}
    InMemory = {m1}
    Namespaces = {n1, n2}
    CleanNs <- CleanToFirst
    Sanitizers = {z1, z2}
    Unbuilt = Unbuilt
    Shared = FALSE
    Sanitizing = FALSE
    Updating = FALSE
    MaxChanges = 5
INVARIANTS  FastPathCurrent
CHECK_DEADLOCK FALSE
