CONSTANTS
    dot = dot
    a = a
    b = b
    c = c
    Free = Free
    Name <- MCName
    NameLength <- MCNameLength
    Standing <- MCStandingHole
    Procedures = {"READDIR", "READDIR3", "READDIRPLUS3"}
    Counts = {64, 88, 188, 216, 340, 600}
    DirCounts = {0, 512}
    TRANSFER_SIZE = 500
    MaxChanges = 2
    MaxClock = 3
SPECIFICATION FairSpec
CHECK_DEADLOCK FALSE
INVARIANTS
    PageFits
    EachEntryOnce
    ListingIsSnapshot
    
PROPERTIES
    ListingEnds
