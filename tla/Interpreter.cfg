CONSTANTS
    VSTACKLEN = 28
    Bottom = 20
    Frame = 24
    Vars = {"a", "b"}
    Rules <- MCRules
    Slips <- MCSlips
    ArgSlips <- MCArgSlips
    Patience = 80
    MaxMistakes = 2

SPECIFICATION Spec
INVARIANT StackIsSound
INVARIANT RuleIsTrue
INVARIANT NoSilentError
