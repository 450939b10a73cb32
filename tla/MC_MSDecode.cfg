SPECIFICATION DecodeSpec
CONSTANTS
    r1 = r1
    r2 = r2
    r3 = r3
    b1 = b1
    b2 = b2
    b3 = b3
    Bytes <- MC_Bytes
    Bits <- MC_Bits
    MaxBad = 8
SYMMETRY MC_Symmetry
INVARIANTS DataIntact RefusedIfDisturbed
CHECK_DEADLOCK FALSE
