SPECIFICATION Spec
CONSTANTS
    Used <- MCUsed
    Values <- MCValues
    ResetValue <- MCResetValue
    Currents <- MCCurrents
    Shunts <- MCShunts
    CalUnit = 25
INVARIANTS
    NoSilentLoss
    RangeIsChips
    CalibrationFits
