CONSTANTS
    a = a
    b = b
    s = s
    Units <- MCUnits
    Others <- MCOthers
    NRules = 1
    MaxCalls = 3

SPECIFICATION FairSpec
INVARIANT TypeOK
INVARIANT SuccessWasRun
INVARIANT RunOnceInOrder
PROPERTY CallsReturn
PROPERTY RequestsAreServed
