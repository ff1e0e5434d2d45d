CONSTANTS
    NChan = 2
    EnArgs <- MCEnArgs
    Durations <- MCDurations
    ErasedStop <- MCErasedStop
    LevelSums <- MCLevelSums

SPECIFICATION Spec
INVARIANT OpenTimeBounded
