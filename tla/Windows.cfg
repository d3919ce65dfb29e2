CONSTANTS
    Null = Null
    Builds = {"4404", "modern"}
    MaxCreated = 5
SPECIFICATION Spec
CHECK_DEADLOCK FALSE
INVARIANTS
    SlotPerChild
    
    OneLogin
PROPERTIES
    DeathTakesItsWindow
