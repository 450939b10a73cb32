SPECIFICATION Spec
CONSTANTS
    IdMax = 3
    DoneTurns = 1
    MaxCuts = 1
INVARIANT TestedIsSaved
INVARIANT NextIdTested
INVARIANT TimeOfClockTested
PROPERTY TypedTimeKept
