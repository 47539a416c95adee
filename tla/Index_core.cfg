SPECIFICATION Spec
CONSTANTS
    Keys = {1, 2}
    Cursors = {"seek", "range"}
    MemMax = 3
    MaxRuns = 3
    MaxPut = 4
    MaxDrop = 1
    MaxDeath = 2
INVARIANT CursorExact
PROPERTIES ImplementsMap CommitSaves
CONSTRAINT CursorBound
CHECK_DEADLOCK FALSE
