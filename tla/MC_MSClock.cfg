SPECIFICATION Spec
CONSTANTS
    Digits = {0, 9}
    RowValues = {23, 60}
    MaxKeys = 2
INVARIANTS SetsInRange
PROPERTIES StampOfClock DigitAtMark TypedKept
