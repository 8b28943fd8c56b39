\* A constructor that may fail half-way, three tasks, and an owner that may
\* not wait for them.
SPECIFICATION Spec
CONSTANTS
    NumThreads = 3
    Tasks = {k1, k2, k3}
    SpawnMayFail = TRUE
    StopWhileBusy = TRUE
    None = None
INVARIANTS
    ReadyMeansContexts
    LatchOutlivesUsers
    NoLostWakeup
PROPERTIES
    EveryTaskRuns
    DestructionEnds
    ImplementsTaskExecutor
CHECK_DEADLOCK FALSE
