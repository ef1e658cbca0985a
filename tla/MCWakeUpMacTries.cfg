SPECIFICATION TriesSpec
CONSTANTS
    u1 = u1  u2 = u2  n1 = n1  x1 = x1
    NoFrame = NoFrame
    Packets = {u1, u2}
    BroadcastPackets = {}
    Neighbours = {n1}
    RxPackets = {x1}
    RxPacketsForMe = {}
    QueueCapacity = 2
    MaxTxTries = 2
    CheckDataPacketEqDC = TRUE
    SkipDirectTxFinalAck = FALSE
    InstantSleep = FALSE
    DynamicWakeUpChecking = FALSE
PROPERTY DroppedAfterMaxTries
