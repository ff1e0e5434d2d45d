CONSTANTS
    Lines <- MCLines
    FileLines <- MCFileLines
    Stores <- MCStores

SPECIFICATION Spec
INVARIANT TypeOK
INVARIANT ListsInPlace
PROPERTY PromisedSpec
PROPERTY ConfEditsKeepRules
