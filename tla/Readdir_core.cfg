SPECIFICATION ReaddirSpec
CONSTANTS
    N = 3
INVARIANT ScanExact
CHECK_DEADLOCK FALSE
