CONSTANTS
    c1 = c1
    c2 = c2
    NoSession = NoSession
    Client <- TwoClients
    Lengths <- MCLengths
    Short <- MCShort
    Socket <- MCSocket
    Before <- MCBefore
    WIRE = 8
    MaxArrivals = 1
    MaxFaults = 3
    MaxQueue = 3
SPECIFICATION FairSpec
CHECK_DEADLOCK FALSE
INVARIANTS
    FileIsWhole
PROPERTIES
    FileArrives
    OnlyLastAckStops
