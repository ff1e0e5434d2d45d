CONSTANTS
    Tables <- MCTables
    Thermometers <- MCThermometers
    NValues = 3
    MaxRounds = 3

SPECIFICATION Spec
INVARIANT TypeOK
INVARIANT RecordsAreTrue
INVARIANT ReplyIsTrue
PROPERTY RecordsAreKept
