SPECIFICATION ProgramsSpec
CONSTANTS
    Disks <- MCDisks
    FMSZ = 2
    SMSZ = 2
    MinVld = 3
    MaxVld = 18
    LastBlk = 20
    Bits = 4
    Word = 16
    MaxLayout = 6
    CylBlocks = 2
    MaxCylinders = 4
    MaxExtra = 2
    MaxSeek = 2
    Rows = 3
    Cols = 2
    Glyphs = {"a"}
    MaxOutputs = 4
    Sentences <- MCSentences
    MaxSentences = 2
    Longest = 3
    MaxLogs = 1
    Frames = {"f", "g"}
    ScreenW = 10
    ScreenH = 8
    WINBORDER = 2
    WINTITLEBAR = 2
    ContentW = 2
    ContentH = 2
    MinimizedW = 4
    Corner = 4
    Step8 = 2
    Points <- MCPoints
    MaxDoings = 4
    Hosts = {"4404", "sdl"}
    Keys = {100}
    RingSize = 3
    MaxLen = 2
    MaxTyped = 2
    MaxPending = 2
    Walk <- MCWalk
    Directories <- MCDirectories
    Inodes <- MCInodes
    Wanted <- MCWanted
    FileSizes = {0, 3}
    TBLOCK = 2
    NBLOCK = 2
    Blockings = {1, 2}
    MaxChanges = 1
    Names <- MCNames
    Archives <- MCArchives
    Times = {1, 2}
    ProbeSize = 12
    Sizes <- MCSizes
    Addends = {0, 1}
    MaxRelas = 2
    Programs <- MCProgramFiles
    HeaderLen = 7
    SymLen = 10
    ElfSymLen = 16
    LBIN = 3
    BUFSIZ = 2
    MaxLength = 5
    MaxCount = 3
    Units <- MCUnits
    MaxUnits = 2
    Align = 2
    Hash <- MCHash
    BSIZE = 3
    NUMEDGERS = 1
    TurnAfter = 1
    StopAfter = 2
    MaxWalk = 12
    Rocks = {1}
    MAXROCKS = 4
    MAXBULLETS = 2
    BoomBullets = 2
    Immortal = 1
    FireLife = 1
    BoomLife = 1
    Cooldown = 1
    EndFrames = 2
\* The programs end, and the bounds stop the model.
CHECK_DEADLOCK FALSE
INVARIANTS
    
    
    
    KeysAreRight
    ArchiveIsRight
    ElfIsRight
    ElfFileIsRight
    TailIsRight
    RcatIsRight
    AsteronixIsRight
PROPERTY ArrowsAreRight
