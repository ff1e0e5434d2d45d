CONSTANTS
    BUFFDIM = 4
    MAXSIZ = 7
    Block = 3
    NewLines <- MCNewLines
    MaxLine = 2
    MaxSize = 10
    MaxEdits = 1

SPECIFICATION FilesSpec
INVARIANT FilesTypeOK
INVARIANT DownloadHasTail
INVARIANT EditLosesOneBlock
PROPERTY EditMovesRest
