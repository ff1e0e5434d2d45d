CONSTANTS
    MAX_WEATHER_READ = 3
    timeint = 1
    Tolerance = 1
    START_INTERVAL = 0
    MaxTime = 12
    MaxTorn = 2

SPECIFICATION Spec
INVARIANT TypeOK
INVARIANT RestartIsSeamless
INVARIANT InOrderButForTorn
PROPERTY GapSinceLatest
