SPECIFICATION Spec
CONSTANTS
    Fds = {3, 4}
    MaxFds = 2
    MaxReg = 2
    MaxThrow = 2
    MaxRun = 2
INVARIANT NeverFreedUnderLoop
