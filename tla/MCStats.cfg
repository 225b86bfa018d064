SPECIFICATION Spec
SYMMETRY Alike
CONSTANTS
    p1 = p1
    p2 = p2
    e1 = e1
    e2 = e2
    k1 = k1
    k2 = k2
    k3 = k3
    Stats = {p1, p2}
    Emitters = {e1, e2}
    Keys = {k1, k2, k3}
    NoKey = ""
    None = None
    Limits = {2}
    Direct = TRUE
    MaxEvents = 4
INVARIANTS OneListener LruKeepsRecent
