CONSTANTS
    Null = Null
    Builds = {"4404"}
    MaxCreated = 4
SPECIFICATION FairSpec
CHECK_DEADLOCK FALSE
PROPERTIES
    LogoutEnds
