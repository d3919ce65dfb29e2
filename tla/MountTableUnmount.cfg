CONSTANTS
    usr = usr
    bin = bin
    etc = etc
    tmp = tmp
    Path <- MCPath
    Exported <- MCExported
    MaxMounts = 3
    MaxSteps = 6
SPECIFICATION Spec
\* The bound on the requests stops the model.
CHECK_DEADLOCK FALSE
PROPERTY
    UnmountIsNamed
