\* Liveness, two threads that contend for one block; Run may throw after it
\* has enqueued work.
SPECIFICATION Spec
CONSTANTS
    Requests = {r1, r2, r3}
    Threads = {t1, t2}
    NumBlocks = 1
    Faults = {"start", "run", "postprocess"}
    CancelAt = {}
    None = None
PROPERTIES
    
    ImplementsBlockLending
