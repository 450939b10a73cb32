SPECIFICATION FairSpec
CONSTANTS
    Ids = {1, 2}
    Msvs = {1}
    Flags = {0, 1}
    AX5043_MAX = 2
    AddrWrap = 4
    MaxPackets = 4
    MaxDeletes = 1
INVARIANT MsvOfMeter
INVARIANT ShownExists
 
PROPERTY NoneWaits
