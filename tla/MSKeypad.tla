------------------------------ MODULE MSKeypad ------------------------------
(***************************************************************************)
(* The keypad (button_16.c).  get_button_number drives one row of the      *)
(* matrix after the other high, reads the columns and returns the number   *)
(* of the first key it finds, once: button_lock stays until a scan of all  *)
(* rows finds nothing.  main calls it in every turn of its loop.           *)
(*                                                                         *)
(* Fingers move at any time, also inside a scan.  Rows are driven, high or *)
(* low, and columns pulled down: a column with keys of a high and of a low *)
(* row can be read either way.                                             *)
(***************************************************************************)
EXTENDS Integers, FiniteSets

CONSTANTS
    Rows, Cols,     \* four each
    button_data,    \* the number of a key, by its place
    NoButton,       \* 16
    MaxDown         \* bound: keys that are down together

Keys == (0..(Rows - 1)) \X (0..(Cols - 1))

ASSUME KeypadAssumption ==
    /\ Rows \in Nat \ {0} /\ Cols \in Nat \ {0} /\ MaxDown \in Nat
    /\ button_data \in [0..(Rows * Cols - 1) -> Nat \ {NoButton}]
    /\ \A a, b \in DOMAIN button_data : button_data[a] = button_data[b] => a = b

VARIABLES
    down,           \* the keys that are pressed
    high,           \* the rows that are driven high
    i, j,           \* the loop counters
    pc,             \* "main", or where get_button_number is
    button, button_lock,
    fresh,          \* history: the keys pressed since the last report
    clash           \* history: two keys of a column were down at once

keypadVars == <<down, high, i, j, pc, button, button_lock, fresh, clash>>

KeypadInit ==
    /\ down = {} /\ high = {} /\ i = 0 /\ j = 0 /\ pc = "main"
    /\ button = NoButton /\ button_lock = NoButton /\ fresh = {} /\ clash = FALSE

-----------------------------------------------------------------------------
(* Fingers (external) *)

Clash(d) == \E a, b \in d : a[1] # b[1] /\ a[2] = b[2]

Press(k) ==
    /\ k \notin down /\ Cardinality(down) < MaxDown
    /\ down' = down \cup {k} /\ fresh' = fresh \cup {k}
    /\ clash' = (clash \/ Clash(down'))
    /\ UNCHANGED <<high, i, j, pc, button, button_lock>>

Release(k) ==
    /\ k \in down /\ down' = down \ {k}
    /\ UNCHANGED <<high, i, j, pc, button, button_lock, fresh, clash>>

-----------------------------------------------------------------------------
(* get_button_number *)

(* What rt_pin_read may return for column c. *)
Levels(c) ==
    LET on == {k[1] : k \in {q \in down : q[2] = c}}
    IN  {l \in BOOLEAN : IF l THEN on \cap high # {} ELSE on = {} \/ on \ high # {}}

Begin ==
    /\ pc = "main" /\ pc' = "row" /\ i' = 0 /\ high' = {}
    /\ button' = NoButton
    /\ UNCHANGED <<down, j, button_lock, fresh, clash>>

RowsScanned == i = Rows

Drive ==
    /\ pc = "row" /\ ~RowsScanned
    /\ high' = high \cup {i} /\ j' = 0 /\ pc' = "column"
    /\ UNCHANGED <<down, i, button, button_lock, fresh, clash>>

ReadLow ==
    /\ pc = "column" /\ j < Cols /\ FALSE \in Levels(j)
    /\ j' = j + 1
    /\ UNCHANGED <<down, high, i, pc, button, button_lock, fresh, clash>>

Leave_High == high          \* planted defect
Leave == high \ {i}

NextRow ==
    /\ pc = "column" /\ j = Cols
    /\ high' = Leave /\ i' = i + 1 /\ pc' = "row"
    /\ UNCHANGED <<down, j, button, button_lock, fresh, clash>>

Number == button_data[j + i * Cols]

Free_Other == button_lock # Number      \* planted defect: another key is not locked
Free == button_lock = NoButton

Found(free) == /\ pc = "column" /\ j < Cols /\ TRUE \in Levels(j)
               /\ pc' = "main"
               /\ free = Free

(* The key is returned, with the row left high ... *)
Report ==
    /\ Found(TRUE)
    /\ button' = Number /\ button_lock' = Number /\ fresh' = {}
    /\ UNCHANGED <<down, high, i, j, clash>>

(* ... or was returned before. *)
Locked ==
    /\ Found(FALSE)
    /\ UNCHANGED <<down, high, i, j, button, button_lock, fresh, clash>>

Unlock_Zero == 0            \* planted defect: 0 is the number of a key
Unlock == NoButton

NothingFound ==
    /\ pc = "row" /\ RowsScanned
    /\ button_lock' = Unlock /\ pc' = "main"
    /\ UNCHANGED <<down, high, i, j, button, fresh, clash>>

get_button_number ==
    Begin \/ Drive \/ ReadLow \/ NextRow \/ Report \/ Locked \/ NothingFound

KeypadNext == get_button_number \/ \E k \in Keys : Press(k) \/ Release(k)

KeypadSpec == KeypadInit /\ [][KeypadNext]_keypadVars

(* main's loop goes on calling get_button_number. *)
KeypadFairSpec == KeypadSpec /\ WF_keypadVars(get_button_number)

-----------------------------------------------------------------------------
(* Type invariant of the keypad. *)
KeypadTypeOK ==
    /\ down \subseteq Keys /\ fresh \subseteq Keys /\ high \subseteq 0..(Rows - 1)
    /\ i \in 0..Rows /\ j \in 0..Cols /\ pc \in {"main", "row", "column"}
    /\ {button, button_lock} \subseteq {button_data[p] : p \in DOMAIN button_data} \cup {NoButton}
    /\ clash \in BOOLEAN

NumberOf(k) == button_data[k[2] + k[1] * Cols]
Reports(k) == button = NoButton /\ button' = NumberOf(k)

(* A number that get_button_number returns is that of a key that is down,  *)
(* though the scan returns with a row left high.                           *)
ReportedIsDown == [][\A k \in Keys : Reports(k) => k \in down]_keypadVars

(* A key is returned once per press, however long it is held and whatever  *)
(* other keys do: a returned key was pressed after the last one was        *)
(* returned, unless two keys of a column disturbed the reading.            *)
NoRepeat == [][\A k \in Keys : Reports(k) /\ ~clash => k \in fresh]_keypadVars

(* The lock opens after all keys are up, and a key that is pressed alone   *)
(* and held while it is open is returned: no sequence of presses leaves    *)
(* the keypad dead.                                                        *)
PressesServed ==
    /\ down = {} ~> (down # {} \/ button_lock = NoButton)
    /\ \A k \in Keys :
           down = {k} /\ button_lock = NoButton ~>
               (down # {k} \/ button = NumberOf(k))
=============================================================================
