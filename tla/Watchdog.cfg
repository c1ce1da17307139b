SPECIFICATION Spec
CONSTANTS
    HbModulus = 9
    MaxBeats = 1
    Timeout = 3
INVARIANTS
    StalledTaskIsReset
    LiveTasksAreNotReset
CHECK_DEADLOCK FALSE
