\* Two slots of three inputs; batches of one or two tokens of a sequence.
SPECIFICATION Spec
CONSTANTS
    Slots <- TwoSlots
    Capacity = 6
    MaxInt = 1000
    Blank = Blank
    a = a
    b = b
    Tokens = {a, b}
    Prompts <- SomePrompts
    Generated = {a}
    CachePrompts = {TRUE}
    NumKeeps = {0}
    NumPredict = 2
    BatchSize = 2
    MultiUser = {TRUE, FALSE}
    None = None
INVARIANTS
    TypeOK
    OneCellPerInput
    DataFollowsUnmergedCells
    RangesCoverCells
    AlwaysRoom
CHECK_DEADLOCK FALSE
