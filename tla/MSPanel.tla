------------------------------ MODULE MSPanel -------------------------------
(***************************************************************************)
(* The operator's side of the tester: the state machine MS of main.c, run  *)
(* once per turn of main's loop with the button pressed in that turn.      *)
(*                                                                         *)
(*    0 start      1 choice of the mode      2 settings      3 test        *)
(*    4 test failed      5 test passed      10, 11, 12 radio page          *)
(*                                                                         *)
(* In the settings a cursor (choose_number) walks over three rows of       *)
(* digits: 0.. the MSID of the mode, 10.. the MSV, 20.. the time; 30 means *)
(* "accepted, waiting for the start contact".  The MSIDs also live in      *)
(* /MS_MSID.txt, and a passed test moves its mode on to the next MSID.     *)
(*                                                                         *)
(* An MSID is a number below IdMax here; the time row is reduced to        *)
(* where its digits come from: the clock, or the operator (a time of day   *)
(* or not one), who has set the clock from them or has not.                *)
(* On the page, a digit outside its row lands in the next array            *)
(* (zf_list8, zf_list9), which holds the time row or a text.               *)
(***************************************************************************)
EXTENDS Integers

CONSTANTS
    IdMax,      \* number of MSIDs: 10^6, or 10^8 in mode 1
    DoneTurns,  \* turns of the loop a passed test is shown for: 60
    MaxCuts     \* bound: power failures

ASSUME PanelAssumption ==
    /\ IdMax \in Nat /\ IdMax > 2
    /\ DoneTurns \in Nat \ {0}
    /\ MaxCuts \in Nat

Ids == 0..(IdMax - 1)
Modes == 0..2
NoId == -1

Digit == "digit"      \* any of the buttons 0..9
None == "none"        \* button_number 16
Arrows == {"UP", "DOWN", "LEFT", "RIGHT"}
Buttons == Arrows \cup {Digit, None, "RETURN", "OK"}

VARIABLES
    MS, choose, choose_number,
    setting_time,    \* static variable of MS_thread_SettingMs
    id,              \* the MSIDs in zf_list6, one per mode
    msidfile,        \* the MSIDs in /MS_MSID.txt
    timeRow,         \* zf_list8: "clock", or typed and the clock not set from
                     \* it: "typed", or typed and no time of day: "bad"
    due,             \* thread_time was set to 9: the next turn shows the rows
    thread_time,     \* turns since the test passed
    MS_error,        \* whether a failure has not been shown yet
    cuts,            \* power failures so far
    last,            \* history: the MSID last given to a meter, per mode, unless
                     \* typed over or unless the power failed before the next
    overrun          \* history: the cursor has stood outside a row's digits

vars == <<MS, choose, choose_number, setting_time, id, msidfile, timeRow,
          due, thread_time, MS_error, cuts, last, overrun>>

(* The static initial values, and an MSID file as get_MSID leaves it. *)
Init ==
    /\ MS = 0 /\ choose = 0 /\ choose_number = 0 /\ setting_time = 0
    /\ id = [m \in Modes |-> 0] /\ msidfile \in [Modes -> {1}]
    /\ timeRow = "clock" /\ due = FALSE /\ thread_time = 0 /\ MS_error = FALSE /\ cuts = 0
    /\ last = [m \in Modes |-> NoId] /\ overrun = FALSE

-----------------------------------------------------------------------------
(* MS_thread_init: get_MSID, and the list of modes. *)
MS_thread_init ==
    /\ MS = 0 /\ MS' = 1
    /\ choose' = 0
    /\ id' = msidfile
    /\ UNCHANGED <<choose_number, setting_time, msidfile, timeRow, due,
                   thread_time, MS_error, cuts, last, overrun>>

MS_thread_SelectMode(b) ==
    /\ MS = 1
    /\ choose' = CASE b = "UP"   -> IF choose > 0 THEN choose - 1 ELSE 3
                   [] b = "DOWN" -> (choose + 1) % 4
                   [] OTHER      -> choose
    /\ IF b = "OK"
       THEN /\ MS' = IF choose = 3 THEN 10 ELSE 2
            /\ choose_number' = 0
            /\ timeRow' = IF choose = 3 THEN timeRow ELSE "clock"  \* GetTime
       ELSE UNCHANGED <<MS, choose_number, timeRow>>
    /\ due' = (b \in {"UP", "DOWN"})
    /\ UNCHANGED <<setting_time, id, msidfile, thread_time, MS_error, cuts,
                   last, overrun>>

-----------------------------------------------------------------------------
(* MS_thread_SettingMs *)

Row(c) == c \div 10
Col(c) == c % 10

(* The digits of a row: eight for the MSID of mode 1, six otherwise. *)
InField(c) == Col(c) < IF choose = 1 /\ Row(c) = 0 THEN 8 ELSE 6

AfterDigit(c) ==
    IF choose = 1
    THEN IF Col(c + 1) >= 8 /\ c + 1 < 10 THEN 0 ELSE c + 1
    ELSE IF Col(c + 1) >= 6 THEN Row(c + 1) * 10 ELSE c + 1

AfterArrow(c, b) ==
    CASE b = "UP"   -> LET d == IF Col(c) > 5 THEN Row(c) * 10 + 5 ELSE c
                       IN  IF d >= 10 THEN d - 10 ELSE d + 20
      [] b = "DOWN" -> ((IF Col(c) > 5 THEN 5 ELSE c) + 10) % 30
      [] b = "LEFT" -> IF Col(c) > 0 THEN c - 1
                       ELSE IF c < 10 /\ choose = 1 THEN 7 ELSE Row(c) * 10 + 5
      [] b = "RIGHT" -> Row(c + 1) * 10 +
                          (Col(c + 1) % (IF c + 1 < 10 /\ choose = 1 THEN 8 ELSE 6))

(* Planted defect: the rows are shown while the time is being set, too. *)
Refreshed_Always ==
    IF due /\ Row(choose_number) # 2 THEN {"clock"} ELSE {timeRow, "clock"}

(* Every tenth turn the rows are shown, the time row from the clock        *)
(* (MS_thread_GetTime) unless it is being set or blinks.                   *)
Refreshed ==
    IF setting_time = 1 THEN {timeRow}
    ELSE IF due /\ Row(choose_number) # 2 THEN {"clock"}
    ELSE {timeRow, "clock"}

(* The time row after MS_thread_SetTime, which brings the digits into range *)
(* on their way to the clock but not in the row.                            *)
SetTime == IF timeRow = "bad" THEN "bad" ELSE "clock"

(* The start contact, once the settings are accepted. *)
Start(c) == IF c = 30 THEN {2, 3} ELSE {2}

TypeDigit ==
    /\ choose_number < 30
    /\ choose_number' = AfterDigit(choose_number)
    /\ IF choose_number < 10
       THEN \E n \in Ids : id' = [id EXCEPT ![choose] = n]
       ELSE UNCHANGED id
    /\ last' = IF choose_number < 10 THEN [last EXCEPT ![choose] = NoId] ELSE last
    /\ timeRow' \in IF choose_number >= 20 \/ ~InField(choose_number)
                     THEN {"typed", "bad"} ELSE Refreshed
    /\ due' = TRUE
    /\ overrun' = (overrun \/ (choose_number' < 30 /\ ~InField(choose_number')))
    /\ MS' \in Start(choose_number')
    /\ UNCHANGED <<choose, setting_time, msidfile>>

MoveCursor(b) ==
    /\ b \in Arrows
    /\ choose_number' = AfterArrow(choose_number, b)
    /\ LET inTime == choose_number' \in 20..25
       IN  /\ setting_time' = IF inTime THEN 1 ELSE 0
           /\ IF setting_time = 1 /\ ~inTime
              THEN timeRow' = SetTime
              ELSE timeRow' \in Refreshed
    /\ due' = TRUE
    /\ MS' \in Start(choose_number')
    /\ UNCHANGED <<choose, id, msidfile, last, overrun>>

ReturnButtonAs(soon) ==
    /\ \/ /\ choose_number = 30 \/ setting_time = 1
          /\ choose_number' = 0
          /\ setting_time' = IF choose_number = 30 THEN setting_time ELSE 0
          /\ due' = soon
          /\ UNCHANGED <<MS, choose>>
       \/ /\ choose_number # 30 /\ setting_time = 0
          /\ MS' = 1 /\ choose' = 0 /\ due' = FALSE
          /\ UNCHANGED <<choose_number, setting_time>>
    /\ timeRow' \in Refreshed
    /\ UNCHANGED <<id, msidfile, last, overrun>>

(* Planted defect: the rows are not shown again in the next turn. *)
ReturnButton_Later == ReturnButtonAs(FALSE)

ReturnButton == ReturnButtonAs(TRUE)

(* Planted defect: the accepted MSIDs are not written to the file. *)
OkButton_NotSaved ==
    /\ choose_number < 30
    /\ setting_time' = 0 /\ choose_number' = 30
    /\ timeRow' \in IF setting_time = 1 THEN {SetTime} ELSE Refreshed
    /\ due' = FALSE
    /\ MS' \in Start(choose_number')
    /\ UNCHANGED <<choose, id, msidfile, last, overrun>>

(* set_MSID, and MS_thread_SetTime if the time was being set. *)
OkButton ==
    /\ choose_number < 30
    /\ msidfile' = id
    /\ setting_time' = 0
    /\ choose_number' = 30
    /\ timeRow' \in IF setting_time = 1 THEN {SetTime} ELSE Refreshed
    /\ due' = FALSE
    /\ MS' \in Start(choose_number')
    /\ UNCHANGED <<choose, id, last, overrun>>

(* No button, or one without effect here. *)
NoEffect(b) ==
    /\ b = None \/ (b \in {Digit, "OK"} /\ choose_number >= 30)
    /\ timeRow' \in Refreshed
    /\ due' = FALSE
    /\ MS' \in Start(choose_number)
    /\ UNCHANGED <<choose, choose_number, setting_time, id, msidfile, last,
                   overrun>>

MS_thread_SettingMs(b) ==
    /\ MS = 2
    /\ \/ b = Digit /\ TypeDigit
       \/ MoveCursor(b)
       \/ b = "RETURN" /\ ReturnButton
       \/ b = "OK" /\ OkButton
       \/ NoEffect(b)
    /\ UNCHANGED <<thread_time, MS_error, cuts>>

-----------------------------------------------------------------------------
(* MS_thread_test, with test0 or test1: the meter gets the MSID and passes, *)
(* or the test stops with an error (main is away from its loop meanwhile).  *)
MS_thread_test ==
    /\ MS = 3
    /\ \/ MS' = 5 /\ MS_error' = FALSE
          /\ last' = [last EXCEPT ![choose] = id[choose]]
       \/ MS' = 4 /\ MS_error' = TRUE
          /\ UNCHANGED last
    /\ thread_time' = 0 /\ due' = FALSE
    /\ UNCHANGED <<choose, choose_number, setting_time, id, msidfile,
                   timeRow, cuts, overrun>>

(* The failure is shown once; then a contact or a button leads back. *)
MS_thread_ERROR(b) ==
    /\ MS = 4
    /\ MS_error' = FALSE
    /\ \/ /\ MS' = 2 /\ choose_number' = 30
          /\ timeRow' = "clock"                          \* MS_thread_GetTime
       \/ /\ b \notin {"OK", "RETURN"}
          /\ UNCHANGED <<MS, choose_number, timeRow>>
    /\ due' = FALSE
    /\ UNCHANGED <<choose, setting_time, id, msidfile, thread_time, cuts, last,
                   overrun>>

ShowPassed ==
    /\ MS = 5 /\ thread_time < DoneTurns
    /\ thread_time' = thread_time + 1
    /\ UNCHANGED <<MS, choose, choose_number, setting_time, id, msidfile,
                   timeRow, due, MS_error, cuts, last, overrun>>

(* The next MSID is made, written to the file and offered. *)
ReturnWith(next) ==
    /\ MS = 5 /\ thread_time >= DoneTurns
    /\ id' = [id EXCEPT ![choose] = next]
    /\ msidfile' = id'
    /\ MS' = 2 /\ choose_number' = 30 /\ thread_time' = 0
    /\ timeRow' = "clock" /\ due' = FALSE                \* MS_thread_GetTime
    /\ UNCHANGED <<choose, setting_time, MS_error, cuts, last, overrun>>

(* Planted defect: the MSID is not moved on. *)
MS_thread_return_Same == ReturnWith(id[choose])

MS_thread_return == ReturnWith((id[choose] + 1) % IdMax)

-----------------------------------------------------------------------------
(* The radio page: MS_thread_ax_start, MS_thread_ax, a report taken over   *)
(* by the radio thread (set_thread_MS) and MS_thread_ax_refresh.           *)
RadioPage ==
    /\ \/ MS = 10 /\ MS' = 11 /\ UNCHANGED choose
       \/ MS = 11 /\ MS' = 12 /\ UNCHANGED choose
       \/ MS = 12 /\ MS' = 11 /\ UNCHANGED choose
       \/ MS = 11 /\ MS' = 1 /\ choose' = 0
    /\ UNCHANGED <<choose_number, setting_time, id, msidfile, timeRow, due,
                   thread_time, MS_error, cuts, last, overrun>>

(* The power fails and comes back (external). *)
PowerCut ==
    /\ cuts < MaxCuts /\ cuts' = cuts + 1
    /\ MS' = 0 /\ choose' = 0 /\ choose_number' = 0 /\ setting_time' = 0
    /\ id' = [m \in Modes |-> 0]
    /\ timeRow' = "clock" /\ due' = FALSE /\ thread_time' = 0 /\ MS_error' = FALSE
    /\ last' = IF MS = 5 THEN [last EXCEPT ![choose] = NoId] ELSE last
    /\ UNCHANGED <<msidfile, overrun>>

(* One turn of main's loop. *)
MS_thread ==
    \/ MS_thread_init
    \/ \E b \in Buttons : \/ MS_thread_SelectMode(b)
                          \/ MS_thread_SettingMs(b)
                          \/ MS_thread_ERROR(b)
    \/ MS_thread_test
    \/ ShowPassed
    \/ MS_thread_return
    \/ RadioPage

Next == MS_thread \/ PowerCut

Spec == Init /\ [][Next]_vars

-----------------------------------------------------------------------------
(* Type invariant of the panel. *)
TypeOK ==
    /\ MS \in {0, 1, 2, 3, 4, 5, 10, 11, 12}
    /\ choose \in 0..3 /\ (MS \in {2, 3, 4, 5} => choose # 3)
    /\ choose_number \in 0..35
    /\ setting_time \in 0..1
    /\ id \in [Modes -> Ids] /\ msidfile \in [Modes -> Ids]
    /\ timeRow \in {"clock", "typed", "bad"} /\ due \in BOOLEAN
    /\ thread_time \in 0..DoneTurns
    /\ MS_error \in BOOLEAN
    /\ cuts \in 0..MaxCuts
    /\ last \in [Modes -> Ids \cup {NoId}]
    /\ overrun \in BOOLEAN

(* A test never starts with MSIDs that are not in the file: what the meter *)
(* is given survives a power failure.                                      *)
TestedIsSaved == MS \in {3, 4, 5} /\ ~overrun => id = msidfile

(* A meter gets the MSID after the one of the last meter that passed in    *)
(* the mode, through failed tests, changes of mode and power failures,     *)
(* unless the operator typed another or the power failed while the last    *)
(* pass was still being shown.                                             *)
NextIdTested ==
    MS = 3 /\ last[choose] # NoId =>
        id[choose] = (last[choose] + 1) % IdMax

(* A meter is never given a time of day the operator typed and then gave   *)
(* up or did not accept: when the test starts, the time row shows the      *)
(* clock, though RETURN leaves the typed digits there and OK does not read *)
(* the clock again.                                                        *)
TimeOfClockTested == MS = 3 /\ ~overrun => timeRow # "typed"

(* Typed digits stay in the time row until the clock is set from them or   *)
(* the operator leaves the row, however often the rows are shown again.    *)
TypedTimeKept ==
    [][timeRow # "clock" /\ setting_time = 1 /\ setting_time' = 1 /\ ~overrun
       => timeRow' # "clock"]_vars

(* zf_list7 holds six digits and zf_list8 six digits and three unit marks  *)
(* (main.c:82-83): the cursor never stands behind the digits of its row.   *)
CursorInField == MS = 2 /\ choose_number < 30 => InField(choose_number)
=============================================================================
