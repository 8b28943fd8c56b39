\* Two pulls of a blob of three bytes in two parts, one crash.
SPECIFICATION Spec
CONSTANTS
    Pulls = {c1, c2}
    Total = 3
    PartSize = 2
    MaxCrashes = 1
    None = None
INVARIANTS
    TypeOK
    OneWriter
    PartFilesTellTruth
    BlobIsWhole
PROPERTIES
    WaitersAnswered
CHECK_DEADLOCK FALSE
