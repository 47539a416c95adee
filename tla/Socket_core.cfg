SPECIFICATION Spec
CONSTANTS
    SndBuf = 2
    MaxOut = 3
    MaxIn = 2
    Resets = TRUE
    May <- MayWild
INVARIANTS NoLostWakeup GracefulClose
PROPERTIES ImplementsStream FinCloses Drains
CHECK_DEADLOCK FALSE
