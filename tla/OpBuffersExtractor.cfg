\* Every graph of six nodes that ends with a Result, as a model and as the
\* body of a loop.
SPECIFICATION PlanSpec
CONSTANTS
    NumNodes = 6
    MaxInputs = 2
    MaxSize = 1
    Null = Null
INVARIANTS
    TensorsSurviveUntilRead
    StableTensorsSurvive
    ReleasedAfterLastRead
CHECK_DEADLOCK FALSE
