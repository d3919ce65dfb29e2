CONSTANTS
    ex = ex
    a = a
    b = b
    c1 = c1
    c2 = c2
    d1 = d1
    NoRequest = NoRequest
    Empty = Empty
    Export <- MCExport
    Present <- MCPresent
    Mounted <- MCMountedExport
    TreePath <- MCTreePath
    Name <- MCName
    Client <- MCClient
    Data <- MCData
    Menu <- MenuAll
    MaxFiles = 3
    MaxCalls = 2
    MaxLives = 2
SYMMETRY Symmetry
SPECIFICATION Spec
CHECK_DEADLOCK FALSE
INVARIANTS
    HandleLeadsToFile
    OneWinner
PROPERTIES
    OnlyRemoveLosesFiles
