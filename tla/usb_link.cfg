SPECIFICATION Spec
CONSTANTS
    MaxCode = 4
    RawMax = 7
    Record <- MCRecord
    ChunkMax = 3
    ChunkQueue = 1
    Blocks = 2
    MaxRequests = 2
    MaxFaults = 1
INVARIANTS
    HandledWereSent
    TypeOK
    IntactIsHandled
    BreaksForCause
PROPERTIES
    AnsweredWasHandled
