SPECIFICATION Spec
CONSTANTS
    Used = {"SafetyCalibration", "UserPreferences", "ThermalPlant"}
    MaxValue = 1
    MaxSeq = 4
    MaxEdits = 2
    MaxFaults = 1
    MaxRestarts = 2
INVARIANTS
    SavedIsStored
    UnlockedIsBacked
    LegacySurvives
    UnsavedIsDueOrReported
    FullSavesAreAtomic
CHECK_DEADLOCK FALSE
