CONSTANTS
    NChan = 2
    EnArgs <- MCEnArgs
    Durations <- MCDurations
    ErasedStop <- MCErasedStop
    LevelSums <- MCNoLevel

SPECIFICATION FairSpec
INVARIANT TypeOK
INVARIANT OpenTimeBounded
INVARIANT OpenPinIsTimed
PROPERTY PinRisesInItsTime
PROPERTY EveryPinCloses
