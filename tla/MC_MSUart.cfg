SPECIFICATION FairSpec
CONSTANTS
    SetFlags = {1}
    GetFlags = {2}
    Chooses = {0}
    ValveUsed = FALSE
    ShellGets = {2}
    Payloads <- mcShort
    Noise <- mcNoise
    SetTicks = 2
    GetTicks = 2
    ValveTicks = 2
    ByteTicks = 1
    TimeWrap = 4
    LenWrap = 34
    DataMax = 33
    MaxRequests = 2
    MaxShell = 1
    MaxFaults = 0
    RxDepth = 1
INVARIANT LinkInv
INVARIANT AnswerOfSameCommand
PROPERTY ReturnsWholeVerdict
PROPERTY JudgedOnce
PROPERTY Returns
CHECK_DEADLOCK FALSE
