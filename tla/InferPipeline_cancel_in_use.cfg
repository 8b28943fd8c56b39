\* A user cancels while the GPU stage runs.
SPECIFICATION Spec
CONSTANTS
    Requests = {r1, r2}
    Threads = {t1, t2}
    NumBlocks = 1
    Faults = {}
    CancelAt = {"running"}
    None = None
INVARIANTS
    OneUserPerBlock
