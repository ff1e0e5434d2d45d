CONSTANTS
    MaxTries = 1
    ByteMod = 4
    MaxRow = 5
    MaxFaults = 4
    MaxEdits = 1
    Edits <- MCEdits
    Files <- MCFiles

SPECIFICATION FairSpec
INVARIANT TypeOK
INVARIANT FixedIpDroppedLate
PROPERTY ConfigGivenUpLate
PROPERTY CrashingConfigHeals
