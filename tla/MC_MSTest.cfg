SPECIFICATION FairSpec
CONSTANTS
    Defects <- mcDefects
    Rows <- mcRows
    MaxTests = 2
INVARIANT FaultyMeterFails
INVARIANT PassedMeter
INVARIANT ErrorNamesCause
PROPERTY TestEnds
CHECK_DEADLOCK FALSE
