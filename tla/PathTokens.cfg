CONSTANTS
    usr = usr
    bin = bin
    etc = etc
    Garbage = Garbage
    Component <- MCComponent
    Path <- MCPath
    MaxDepth = 2
    MaxToken = 2
    Trailing = {0, 1, 3}
    MaxLives = 2
SPECIFICATION Spec
\* A daemon whose table is full and that is not restarted stands still.
CHECK_DEADLOCK FALSE
INVARIANTS
    TypeOK
    PoolUnique
    HandleResolves
    HandleIdentifies
PROPERTY
    ImplementsDirectory
