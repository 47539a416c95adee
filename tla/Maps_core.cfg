SPECIFICATION Spec
CONSTANTS
    Bases = {1, 2}
    Fds = {1, 2}
    MaxWrap = 4
    PIN_MAPS = 2
    PIN_FDS = 2
INVARIANTS LiveIsMapped LiveKeepsSlot NoLeak PinsExact SweptInTime
CHECK_DEADLOCK FALSE
