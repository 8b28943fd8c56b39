SPECIFICATION Spec
CONSTANTS
    Clients = {c1, c2, c3, c4}
    NumBlocks = 2
    None = None
INVARIANTS
    EachBlockOnce
    NoLostWakeup
PROPERTIES
    ImplementsBlockLending
