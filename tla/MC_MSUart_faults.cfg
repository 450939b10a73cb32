SPECIFICATION Spec
CONSTANTS
    SetFlags = {0, 1, 2}
    GetFlags = {0, 1, 2}
    Chooses = {0, 1}
    ValveUsed = TRUE
    ShellGets = {}
    Payloads <- mcAll
    Noise <- mcNoise
    SetTicks = 2
    GetTicks = 2
    ValveTicks = 2
    ByteTicks = 1
    TimeWrap = 4
    LenWrap = 34
    DataMax = 33
    MaxRequests = 1
    MaxShell = 0
    MaxFaults = 1
    RxDepth = 1
INVARIANT ValueSound
CHECK_DEADLOCK FALSE
