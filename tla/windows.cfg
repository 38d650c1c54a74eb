SPECIFICATION Spec

CONSTANTS
    gateway = gateway
    probe = probe
    Node = {gateway, probe}
    Peer <- MCPeer
    TxWindow = 2
    RxWindow = 2
    TxQueue = 1
    CtrlQueue = 1
    RawQueue = 1
    AppQueue = 1
    ResyncRetries = 1
    Commands <- TwoDown
    Epochs <- ProbeTwoEpochs
    Resyncs <- ProbeRecovers
    Restartable = {}
    Operators = {probe}
    Fading = {}
    Heartbeats = {}

INVARIANTS
    TypeOK
    OneAtATime
    InOrder
    TxWindowContiguous
    AckedWereCommitted
    InProgressHasWorker
