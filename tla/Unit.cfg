CONSTANTS
    Interval <- MCInterval
    First <- MCFirst
    Block <- MCBlock
    MaxIdle = 1
    Wrap = 11
    Day = 9
    SyncInterval = 6
    Wait = 1
    Corrections <- MCCorrections
    MaxTime = 13
    N12 = 3
    N3600 = 3
    ByteSize = 4
    LongSize = 256
    Mantissa = 16
    Ulps <- MCUlps
    Configurations <- MCConfigurations
    Level <- MCLevel
    LeftOver <- MCLeftOver
    EnArgs <- MCEnArgs
    Durations <- MCDurations

SPECIFICATION UnitSpec
INVARIANT TypeOK
INVARIANT UnitTypeOK
INVARIANT NeverLate
INVARIANT TrendIsTrue
INVARIANT ClosesInTime
PROPERTY NeverEarly
PROPERTY ResetOncePerDay
