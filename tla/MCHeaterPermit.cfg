SPECIFICATION Spec
CONSTANTS
    Modulus = 24
    MaxAge = 2
    StartTimes <- EarlyStarts
    Horizon = 9
INVARIANTS
    DrivenPinIsFlagged
    HeaterFollowsPd
    HoldKeepsHeaterOff
    PermitIsShortLived
CHECK_DEADLOCK FALSE
