\* The user calls at any time, and device memory may run out.
SPECIFICATION Spec
CONSTANTS
    Values = {a, b}
    MaxLen = 3
    InitialLen = 1
    MallocMayFail = TRUE
    Zero = Zero
    Junk = Junk
    InitValue = InitValue
    None = None
INVARIANTS
    CopiesStayInBuffer
    ReadValueSeesState
PROPERTIES
    ImplementsStateRegister
