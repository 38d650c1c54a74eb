SPECIFICATION Spec
CONSTANTS
    FlashSize = 32
    MaxSegments = 2
    Width = 128
    SectorSize = 16
    ChunkSize = 8
    Files <- MCFiles
    Wire <- MCWire
    Past <- MCPast
INVARIANTS
    TypeOK
    AcceptsExactly
    NeverRefused
    ProgrammedOnce
    OutsideUntouched
    SuccessHoldsImage
    HostImageVerifies
CHECK_DEADLOCK FALSE
