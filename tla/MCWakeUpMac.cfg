SPECIFICATION WakeUpFairSpec
CONSTANTS
    u1 = u1  b1 = b1  n1 = n1  x1 = x1  x2 = x2
    NoFrame = NoFrame
    Packets = {u1, b1}
    BroadcastPackets = {b1}
    Neighbours = {n1}
    RxPackets = {x1, x2}
    RxPacketsForMe = {x2}
    QueueCapacity = 1
    MaxTxTries = 2
    CheckDataPacketEqDC = TRUE
    SkipDirectTxFinalAck = TRUE
    InstantSleep = FALSE
    DynamicWakeUpChecking = TRUE
INVARIANTS
    WakeUpTypeOK
    WakeUpNoRuntimeError
    WakeUpPhaseServed
    OneRadioOn
    KeptFrames
PROPERTIES
    KeepsLinkPromise
    WakeUpAcknowledgedNotDropped
    WakeUpPhasesEnd
    WakeUpEveryPacketResolved
