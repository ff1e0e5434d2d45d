CONSTANTS
    NChan = 2
    EnArgs <- MCEnArgs
    Durations <- MCDurations
    ErasedStop <- MCErasedStop
    LevelSums <- MCNoLevel

SPECIFICATION Spec
PROPERTY CloseDrivesPinLow
