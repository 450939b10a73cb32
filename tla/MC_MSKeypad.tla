---------------------------- MODULE MC_MSKeypad ----------------------------
(* MSKeypad with three rows of two keys, numbered out of order as the real  *)
(* ones are.                                                                *)
EXTENDS MSKeypad

MC_button_data == [p \in 0..5 |-> CASE p = 0 -> 1 [] p = 1 -> 2 [] p = 2 -> 4
                                    [] p = 3 -> 5 [] p = 4 -> 3 [] p = 5 -> 0]
=============================================================================
