SPECIFICATION Spec
CONSTANTS
    Fds = {3, 4, 5}
    MaxFds = 2
    MaxReg = 3
    MaxThrow = 2
    MaxRun = 1
INVARIANTS NeverFreedUnderLoop ClaimHonoured
PROPERTIES NoStaleHandler FirstThrowSurfaces
