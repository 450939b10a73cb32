---------------------------- MODULE MC_MSDecode ----------------------------
(* MSDecode on blocks of three times three bits: four bits are the smallest  *)
(* error that the parities miss.  Nothing tells two bytes, or two bits of a  *)
(* byte, from each other.                                                    *)
EXTENDS MSDecode, TLC

CONSTANTS r1, r2, r3, b1, b2, b3

MC_Bytes == {r1, r2, r3}
MC_Bits == {b1, b2, b3}
MC_Symmetry == Permutations(MC_Bytes) \cup Permutations(MC_Bits)
=============================================================================
