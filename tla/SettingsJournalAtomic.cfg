SPECIFICATION Spec
CONSTANTS
    Used = {"SafetyCalibration", "UserPreferences"}
    MaxValue = 1
    MaxSeq = 4
    MaxEdits = 3
    MaxFaults = 0
    MaxRestarts = 2
INVARIANTS
    SavesAreAtomic
CHECK_DEADLOCK FALSE
