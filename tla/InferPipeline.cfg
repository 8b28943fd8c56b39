\* Safety, with failures and a cancel() at any moment.
SPECIFICATION Spec
SYMMETRY Symmetry
CONSTANTS
    Requests = {r1, r2, r3}
    Threads = {t1, t2, t3}
    NumBlocks = 2
    Faults = {"preprocess", "start", "sync", "postprocess"}
    CancelAt <- AllStages
    None = None
INVARIANTS
    TypeOK
    BlocksKeptApart
    FinishedWhenDelivered
    PoolWholeAtRest
CHECK_DEADLOCK FALSE
