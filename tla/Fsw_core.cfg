SPECIFICATION FswSpec
CONSTANTS
    Dirs = {d1, d2}
    Names = {n1}
    QMax = 3
    BufMax = 2
    MaxCalls = 5
INVARIANT NothingMissed
PROPERTIES RightDirectory Reported
CHECK_DEADLOCK FALSE
