SPECIFICATION Spec
CONSTANTS
    u1 = u1  b1 = b1  n1 = n1  x1 = x1  x2 = x2
    NoFrame = NoFrame
    Packets = {u1}
    BroadcastPackets = {}
    Neighbours = {n1}
    RxPackets = {x1, x2}
    RxPacketsForMe = {x2}
    QueueCapacity = 2
    MaxTxTries = 1
    CheckDataPacketEqDC = TRUE
    SkipDirectTxFinalAck = FALSE
    InstantSleep = TRUE
PROPERTY StoredPacketKept
