CONSTANTS
    Null = Null
    Builds = {"4404"}
    MaxCreated = 5
SPECIFICATION Spec
CHECK_DEADLOCK FALSE
INVARIANTS
    ChainHoldsWindows
