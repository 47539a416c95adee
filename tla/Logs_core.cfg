SPECIFICATION Spec
CONSTANTS
    a = a
    b = b
    Views = {v1, v2}
    Contents = {a, b}
    Size <- MCSize
    Bulky = {b}
    Cap = 6
    MaxTs = 2
    MaxBuilds = 3
INVARIANTS Ascending SeekExact CursorOnRow AckedSurvive
CHECK_DEADLOCK FALSE
