SPECIFICATION MonitorSpec
CONSTANTS
    u1 = u1  u2 = u2  u3 = u3  b1 = b1
    n1 = n1  n2 = n2  x1 = x1  x2 = x2
    NoFrame = NoFrame
    Packets <- MCPackets
    BroadcastPackets = {b1}
    Neighbours <- MCNeighbours
    RxPackets = {x1, x2}
    RxPacketsForMe = {x2}
    QueueCapacity = 2
    MaxTxTries = 1
    CheckDataPacketEqDC = TRUE
    SkipDirectTxFinalAck = FALSE
    InstantSleep = TRUE
SYMMETRY Symmetry
INVARIANTS
    TypeOK
    NoRuntimeError
    PhaseServed
    KeptFrames
    Custody
    MonitorTypeOK
    MeasuresWhileUp
PROPERTIES
    KeepsLinkPromise
    DeferredDropCompleted
    AcknowledgedNotDropped
