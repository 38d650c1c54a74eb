SPECIFICATION Spec
CONSTANTS
    a = a
    b = b
    a1 = a1
    a2 = a2
    b1 = b1
    NoImage = NoImage
    Erased = Erased
    Garbage = Garbage
    Image = {a, b}
    Content = {a1, a2, b1, Erased, Garbage}
    Data <- MCData
    Capacity = 2
    Sectors = 2
    Place <- MCPlace
    Operation = {1, 2}
    MemoryMayFail = TRUE
    MaxFrames = 6
    MaxResets = 1
    MaxReboots = 1
INVARIANTS
    TypeOK
    ReadyIsStaged
    SwdExclusive
    BackupFaithful
    AcceptedRan
PROPERTIES
    DoneIsVerified
    EraseNeedsImage
CHECK_DEADLOCK FALSE
