\* Two requests for one or two models, of which one is measured; one stop.
SPECIFICATION Spec
CONSTANTS
    Requests = {q1, q2}
    Models = {m1, m2}
    Gguf = {m1}
    Limits = {1, 2}
    MaxQueue = 1
    MaxStops = 1
    RefMod = 5
    None = None
INVARIANTS
    TypeOK
    ServersAreLoaded
    RefCountsUsers
    InUseStaysOpen
PROPERTIES
    RequestsAnswered
CHECK_DEADLOCK FALSE
