SPECIFICATION FairSpec
CONSTANTS
    Tunings = 1
    MaxPackets = 3
    MaxSends = 1
INVARIANTS ReceiverOn NoLostWakeup
PROPERTIES HandedOnce RssiOfPacket  
CHECK_DEADLOCK FALSE
