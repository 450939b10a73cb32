SPECIFICATION Spec
CONSTANTS
    RECORD_MAX = 3
    AX5043_MAX = 2
    MaxSaves = 4
    MaxCuts = 2
    MaxCmds = 1
    MaxFails = 1
INVARIANT ResultsKept
INVARIANT ReportsKept
INVARIANT MemoryMatchesFile
INVARIANT WipedOnce
CHECK_DEADLOCK FALSE
