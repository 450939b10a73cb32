----------------------------- MODULE MC_MSTest -----------------------------
(* A small instance of the test procedure for TLC: meters with at most one *)
(* defect, and the MSVs 0, 1 and those that a standing wheel or a wheel    *)
(* that is counted one short would turn into the expected ones.            *)
EXTENDS MSTest

mcDefects == {{}} \cup {{d} : d \in AllDefects} \cup
             {{Counts, Forgets}, {Stuck, 5}, {1, 0}}
mcRows == {0, 1, 3, 7}
=============================================================================
