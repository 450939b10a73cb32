------------------------------ MODULE MSClock ------------------------------
(***************************************************************************)
(* The date and time of the tester: the buffer my_time of main.c, which is *)
(* read from the clock, edited digit by digit on the radio page, and put   *)
(* on each report; and the second way to set the clock, from the time row  *)
(* of the settings (MS_thread_SetTime).                                    *)
(*                                                                         *)
(* A step is a turn of main's loop.  thread_time counts the turns modulo   *)
(* 100; only whether it is a multiple of 10 matters here, so it is kept    *)
(* modulo 10.  The clock chip (external) keeps what it is given; that it   *)
(* runs is represented by age, the turns since my_time was read.           *)
(***************************************************************************)
EXTENDS Integers

CONSTANTS
    Digits,     \* the digits the operator types
    RowValues,  \* two digit numbers typed in the time row of the settings
    MaxKeys     \* bound: digits typed

ASSUME ClockAssumption ==
    Digits \subseteq 0..9 /\ RowValues \subseteq 0..99 /\ MaxKeys \in Nat

(* Indices of my_time: seconds, minutes, hours, day, month, year. *)
Fields == {0, 1, 2, 4, 5, 6}
Browsing == 20      \* time_number while nothing is edited
MaxAge == 11        \* bound: age is not counted any further

VARIABLES
    MS,             \* 1: other pages, 10, 11: radio page, 12: report to file
    thread_time, time_number, my_time,
    clock,          \* the clock chip
    keys,           \* counter: digits typed
    age,            \* history: turns since my_time was read from the clock
    typed,          \* history: fields of my_time with digits of the operator
    calm,           \* history: turns since the last edit, at most 2
    source          \* history: which page has set the clock last, or
                    \* "crosswise": a row that its limits do not fit

editVars == <<time_number, keys>>
history == <<age, typed, calm, source>>
vars == <<MS, thread_time, my_time, clock, editVars, history>>

Init ==
    /\ MS = 1 /\ thread_time \in 0..9 /\ time_number = 0
    /\ my_time = [f \in Fields |-> 0] /\ clock = [f \in Fields |-> 11]
    /\ keys = 0
    /\ age = 0 /\ typed = {} /\ calm = 2 /\ source = "none"

-----------------------------------------------------------------------------
AtMost(x, y) == IF x < y THEN x ELSE y

(* The end of a turn in which thread_time has become t. *)
TurnEnds(t) == thread_time' = (t + 1) % 10

Older(a) == AtMost(a + 1, MaxAge)

(* get_date: all of my_time from the clock. *)
get_date ==
    /\ my_time' = clock
    /\ age' = 1 /\ typed' = {}

-----------------------------------------------------------------------------
(* MS_thread_SetTime: the clock from the time row of the settings.  The    *)
(* hours are compared and the seconds brought into range, and the other    *)
(* way round.                                                              *)
RowTime(h, m, s) ==
    LET s1 == IF h > 23 THEN 23 ELSE s
        h1 == IF s1 > 59 THEN 59 ELSE h
    IN  [my_time EXCEPT ![2] = h1, ![1] = AtMost(m, 59), ![0] = s1]

MS_thread_SetTime(h, m, s) ==
    /\ MS = 1
    /\ my_time' = RowTime(h, m, s)
    /\ clock' = [f \in Fields |-> IF f \in 0..2 THEN my_time'[f] ELSE clock[f]]
    /\ source' = IF h > 23 \/ s > 59 THEN "crosswise" ELSE "settings"
    /\ UNCHANGED <<MS, thread_time, editVars, age, typed, calm>>

(* MS_thread_SelectMode: the radio page is chosen. *)
SelectRadio ==
    /\ MS = 1 /\ MS' = 10
    /\ thread_time' \in 0..9
    /\ UNCHANGED <<my_time, clock, editVars, history>>

MS_thread_ax_start ==
    /\ MS = 10 /\ MS' = 11
    /\ get_date /\ time_number' = Browsing
    /\ TurnEnds(thread_time)
    /\ calm' = 2
    /\ UNCHANGED <<clock, keys, source>>

-----------------------------------------------------------------------------
(* MS_thread_ax: every tenth turn my_time is read, unless it is edited;    *)
(* then the button of this turn.                                           *)
ReadIf(cond) == thread_time = 0 /\ cond

(* Planted defect: the clock is read while it is edited, too. *)
ReadNow_Always == ReadIf(TRUE)

ReadNow == ReadIf(time_number = Browsing)

Time == IF ReadNow THEN clock ELSE my_time
Typed == IF ReadNow THEN {} ELSE typed
AgeNow == IF ReadNow THEN 1 ELSE Older(age)

(* A turn without an effect on the edit. *)
Turn ==
    /\ MS = 11
    /\ my_time' = Time /\ typed' = Typed /\ age' = AgeNow
    /\ calm' = IF time_number = Browsing THEN AtMost(calm + 1, 2) ELSE calm
    /\ TurnEnds(thread_time)
    /\ UNCHANGED <<MS, clock, editVars, source>>

(* Planted defect: day first. *)
time_addr_DayFirst(n) == IF n < 6 THEN 4 + n \div 2 ELSE 5 - n \div 2

time_addr(n) == IF n < 6 THEN 6 - n \div 2 ELSE 5 - n \div 2

Advance(n) == (n + 1) % 12

TypeDigit(d) ==
    /\ MS = 11 /\ time_number < 12 /\ keys < MaxKeys /\ keys' = keys + 1
    /\ LET f == time_addr(time_number)
           x == Time[f]
       IN  /\ my_time' = [Time EXCEPT ![f] = IF time_number % 2 = 1
                                             THEN (x \div 10) * 10 + d
                                             ELSE (x % 10) + d * 10]
           /\ typed' = Typed \cup {f}
    /\ time_number' = Advance(time_number)
    /\ age' = AgeNow /\ TurnEnds(9)
    /\ UNCHANGED <<MS, clock, calm, source>>

(* The arrows move the mark. *)
Move ==
    /\ MS = 11 /\ time_number < 12
    /\ \/ time_number' = IF time_number > 0 THEN time_number - 1 ELSE 11
       \/ time_number' = Advance(time_number)
    /\ my_time' = Time /\ typed' = Typed /\ age' = AgeNow
    /\ TurnEnds(9)
    /\ UNCHANGED <<MS, clock, keys, calm, source>>

(* OK opens the edit ... *)
Open ==
    /\ MS = 11 /\ time_number = Browsing /\ time_number' = 0
    /\ my_time' = Time /\ typed' = Typed /\ age' = AgeNow /\ calm' = 0
    /\ TurnEnds(9)
    /\ UNCHANGED <<MS, clock, keys, source>>

(* ... and sets the clock.  The bytes are unsigned: none is below 0. *)
Limit == [f \in Fields |-> CASE f = 6 -> 99 [] f = 5 -> 12 [] f = 4 -> 31
                             [] f = 2 -> 23 [] f \in {0, 1} -> 59]

SetFrom(limit) ==
    /\ MS = 11 /\ time_number < 12 /\ time_number' = Browsing
    /\ my_time' = [f \in Fields |-> AtMost(Time[f], limit[f])]
    /\ clock' = my_time' /\ source' = "radio"
    /\ typed' = {} /\ age' = 1 /\ calm' = 0
    /\ TurnEnds(9)
    /\ UNCHANGED <<MS, keys>>

(* Planted defect: the limits of hours and minutes are exchanged. *)
Accept_Exchanged == SetFrom([Limit EXCEPT ![2] = 59, ![1] = 23])

Accept == SetFrom(Limit)

(* RETURN gives the edit up: my_time is read again in the next turn. *)
GiveUpAs(t) ==
    /\ MS = 11 /\ time_number < 12 /\ time_number' = Browsing
    /\ my_time' = Time /\ typed' = Typed /\ age' = AgeNow /\ calm' = 0
    /\ TurnEnds(t)
    /\ UNCHANGED <<MS, clock, keys, source>>

(* Planted defect: the clock is not read at once. *)
GiveUp_Later == GiveUpAs(thread_time)

GiveUp == GiveUpAs(9)

(* RETURN leaves the page. *)
Leave ==
    /\ MS = 11 /\ time_number = Browsing /\ MS' = 1
    /\ my_time' = Time /\ typed' = Typed /\ age' = AgeNow
    /\ TurnEnds(0)
    /\ UNCHANGED <<clock, editVars, calm, source>>

MS_thread_ax ==
    \/ Turn \/ (\E d \in Digits : TypeDigit(d)) \/ Move \/ Open \/ Accept \/ GiveUp
    \/ Leave

-----------------------------------------------------------------------------
(* The radio thread has a report: set_thread_MS. *)
Report ==
    /\ MS = 11 /\ MS' = 12
    /\ UNCHANGED <<thread_time, my_time, clock, editVars, history>>

(* MS_thread_ax_refresh puts my_time on the report, then reads the clock. *)
MS_thread_ax_refresh ==
    /\ MS = 12 /\ MS' = 11
    /\ get_date
    /\ calm' = IF time_number = Browsing THEN AtMost(calm + 1, 2) ELSE calm
    /\ TurnEnds(thread_time)
    /\ UNCHANGED <<clock, editVars, source>>

Next ==
    \/ \E h, m, s \in RowValues : MS_thread_SetTime(h, m, s)
    \/ SelectRadio \/ MS_thread_ax_start \/ MS_thread_ax
    \/ Report \/ MS_thread_ax_refresh

Spec == Init /\ [][Next]_vars

-----------------------------------------------------------------------------
(* What the operator sees: ax_time_show writes 20YY-MM-DD hh:mm:ss, and    *)
(* lcd_show_zf_time inverts the character of time_number.                  *)
Screen(t) ==
    LET At == [c \in {2, 3, 5, 6, 8, 9, 11, 12, 14, 15, 17, 18} |->
                 CASE c \in 2..3   -> <<6, c - 2>> [] c \in 5..6   -> <<5, c - 5>>
                   [] c \in 8..9   -> <<4, c - 8>> [] c \in 11..12 -> <<2, c - 11>>
                   [] c \in 14..15 -> <<1, c - 14>> [] c \in 17..18 -> <<0, c - 17>>]
    IN  [c \in DOMAIN At |-> IF At[c][2] = 0 THEN t[At[c][1]] \div 10
                                              ELSE t[At[c][1]] % 10]

Marked(n) == 2 + n + n \div 2

-----------------------------------------------------------------------------
(* Type invariant of the clock. *)
TypeOK ==
    /\ MS \in {1, 10, 11, 12} /\ thread_time \in 0..9
    /\ time_number \in 0..11 \cup {Browsing}
    /\ my_time \in [Fields -> 0..99] /\ clock \in [Fields -> 0..99]
    /\ keys \in 0..MaxKeys
    /\ age \in 0..MaxAge /\ typed \subseteq Fields /\ calm \in 0..2
    /\ source \in {"none", "settings", "crosswise", "radio"}

(* A report carries the time of the clock, read at most ten turns (half a  *)
(* second) before, though the turns in which main reads it may go to       *)
(* reports, unless the operator edits the date or gave it up in the turn   *)
(* before: then it carries the digits he typed.                            *)
StampOfClock ==
    [][MS = 12 /\ MS' = 11 /\ calm >= 1 => typed = {} /\ age <= 10]_vars

(* What the operator types appears where the mark is, and nothing else on  *)
(* the screen changes: the index computed by MS_thread_ax, the order in    *)
(* ax_time_show and the position in lcd_show_zf_time agree.                *)
DigitAtMark ==
    [][\A d \in Digits : TypeDigit(d) =>
           Screen(my_time') = [Screen(my_time) EXCEPT ![Marked(time_number)] = d]]_vars

(* Typed digits stay until the edit ends, unless a report is filed: it     *)
(* puts the clock in their place.                                          *)
TypedKept ==
    [][time_number < 12 /\ time_number' < 12 /\ MS = 11 =>
           typed \subseteq typed' /\ \A f \in Fields : f \notin typed' =>
                                                my_time'[f] = my_time[f]]_vars

(* Whatever digits are typed, and whichever page sets it after the other,  *)
(* the clock keeps a time of day, a month of at most 12 and a day of at    *)
(* most 31, unless hours or seconds out of range are typed in the time     *)
(* row, which MS_thread_SetTime brings into range crosswise.               *)
SetsInRange ==
    source # "crosswise" => \A f \in Fields : clock[f] <= Limit[f]
=============================================================================
