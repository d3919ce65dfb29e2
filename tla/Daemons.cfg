SPECIFICATION DaemonsSpec
CONSTANTS
    usr = usr
    bin = bin
    etc = etc
    tmp = tmp
    Path <- MCPath
    Exported <- MCExported
    MaxMounts = 3
    MaxSteps = 6
    Streams <- MCStreams
    Prints = 2
    ZombieAnswers = TRUE
    Conns = {1, 2, 3}
    Backlog = 2
    Hosts <- MCHosts
    Servers = {1}
    Addresses <- MCAddresses
    Xids = {1, 2, 3, 4}
    Years <- MCYears
    FrameSize = 3
    MAXWRITE = 2
    MaxFrames = 2
    MaxClients = 2
    Machine = {1, 2}
    Mine = 1
    Builds = {"apple", "linux"}
    MaxTrouble = 1
\* The daemons end, and the bounds stop the model.
CHECK_DEADLOCK FALSE
INVARIANTS
    
    HandlerNeverWaits
    ClientsAreRight
    FramesAreWhole
PROPERTIES
    UnmountTakesOne
    
    
    DaemonsGoOn
