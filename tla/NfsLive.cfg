CONSTANTS
    ex = ex
    a = a
    b = b
    c1 = c1
    c2 = c2
    d1 = d1
    NoRequest = NoRequest
    Empty = Empty
    Export <- MCExport
    Present <- MCPresent
    Mounted <- MCMountedExport
    TreePath <- MCTreePath
    Name <- MCName
    Client <- MCClient
    Data <- MCData
    Menu <- MenuMoves
    MaxFiles = 3
    MaxCalls = 2
    MaxLives = 2
SPECIFICATION FairSpec
CHECK_DEADLOCK FALSE
PROPERTIES
    CallsAreAnswered
