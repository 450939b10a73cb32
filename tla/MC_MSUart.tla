----------------------------- MODULE MC_MSUart -----------------------------
(* Small instances of the meter link for TLC. *)
EXTENDS MSUart

(* An acknowledge, a refusal; alarms "03". *)
mcShort == {<<48>>, <<49>>, <<48, 51>>}

(* One payload of every length, and a refusal: the six and eight digit    *)
(* numbers 000FB1 and 000E003A, the alarm words 03 and 031C5, and valve.  *)
mcAll == {<<48>>, <<49>>, <<48, 51>>, <<48, 51, 49, 67, 53>>,
          <<48, 48, 48, 70, 66, 49>>, <<48, 48, 48, 69, 48, 48, 51, 65>>,
          [i \in 1..27 |-> ch0]}

(* Bytes that a disturbed byte may turn into. *)
mcNoise == {chAt, chA, chE, ch0, chStar}
=============================================================================
