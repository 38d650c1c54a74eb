SPECIFICATION Spec
CONSTANTS
    a = a
    b = b
    NoImage = NoImage
    Erased = Erased
    Garbage = Garbage
    Image = {a, b}
    Content = {a, b, Erased, Garbage}
    Data <- MCData
    Capacity = 2
    p = p
    q = q
    Operation = {p, q}
    NoOperation = NoOperation
    JobQueue = 2
    LinkQueue = 1
    AppQueue = 1
    MaxBegins = 2
    MaxStarts = 2
    MaxTroubles = 2
SYMMETRY MCSymmetry
INVARIANTS
    TypeOK
    ErrorIsShown
    FreshImage
CHECK_DEADLOCK FALSE
