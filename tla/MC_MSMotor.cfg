SPECIFICATION FairSpec
CONSTANTS
    MS1_SPEED_ALL = 12
    MS2_SPEED_ALL = 11
    MinPulses = 1
    MaxPulses = 1
    MaxRuns = 2
    MaxCommands = 2
INVARIANTS ExactTurn SpeedKept
PROPERTY WaitEnds
CHECK_DEADLOCK FALSE
