CONSTANTS
    c1 = c1
    c2 = c2
    NoSession = NoSession
    Client <- OneClient
    Lengths <- MCLengths
    Short <- MCShort
    Socket <- MCSocket
    Before <- MCBefore
    WIRE = 8
    MaxArrivals = 2
    MaxFaults = 1
    MaxQueue = 3
SPECIFICATION FairSpec
CHECK_DEADLOCK FALSE
PROPERTIES
    OthersAreServed
