SPECIFICATION Spec
CONSTANTS
    Address <- MCAddress
    NoAddress = NoAddress
    Disturbance = {"ACK", "READ", "WRITE", "BUSY"}
    Chip = {"MSPM0G3507", "OTHER"}
    Expected = "MSPM0G3507"
    MaxNoise = 1
    MaxEvents = 1
INVARIANTS
    TypeOK
    ForeignUntouched
    PinsReleased
    SuccessRuns
PROPERTIES
    AccessExact
    SuccessIsProgrammed
    ServiceSpec
    OperationAdvances
