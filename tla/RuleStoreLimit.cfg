CONSTANTS
    Lines <- MCLines
    FileLines <- MCFileLines
    Stores <- MCRoomBehind

SPECIFICATION Spec
PROPERTY RuleEditsKeepConf
