SPECIFICATION WheelSpec
CONSTANTS
    MS = 2
    HOUR = 3
    MaxInt = 4
    Delays = {0, 3, 8}
    MaxId = 2
    MaxFirst = 3
    MaxLate = 0
INVARIANTS WheelArmed DeadStayDead
PROPERTIES FiresOnce EventuallyFires
