SPECIFICATION Spec
CONSTANTS
    Objects = {4, 7}
    DeltaSizes = {1}
    MaxRecs = 2
    MaxOut = 2
    MaxInt = 7
    SCRATCH_MIN = 2
    MaxTries = 3
    MaxWalks = 2
    Families = {"log", "buf"}
    Cap = 3
    MaxCap = 4
    MaxBytes = 4
INVARIANTS ResolveExact GrowEnough BooksExact BufExact
CHECK_DEADLOCK FALSE
