SPECIFICATION ReceptionSpec
CONSTANTS
    u1 = u1  n1 = n1  n2 = n2  x1 = x1
    NoFrame = NoFrame
    Packets = {u1}
    BroadcastPackets = {}
    Neighbours = {n1, n2}
    RxPackets = {x1}
    RxPacketsForMe = {}
    QueueCapacity = 1
    MaxTxTries = 1
    CheckDataPacketEqDC = TRUE
    SkipDirectTxFinalAck = FALSE
    InstantSleep = TRUE
PROPERTY OnlyReceptionRecorded
