SPECIFICATION Spec
CONSTANTS
    Requests = {r1, r2, r3}
    Keys = {k1, k2, k3}
    Ops = {o1, o2, o3, o4, o5, o6}
    Capacity = 2
    None = None
SYMMETRY Symmetry
INVARIANTS
    OpsMatchTheirKeys
    OwnersAreCounted
    HoldsMostRecentlyUsed
PROPERTIES
    RacersAgree
