--------------------------- MODULE MSPanelProofs ---------------------------
(***************************************************************************)
(* What holds of the operator's side of the tester for every number of     *)
(* MSIDs and whatever buttons are pressed: a test runs with the MSIDs of   *)
(* the file, with the MSID that follows the last one given away, and not   *)
(* with a time that was typed and given up.                                *)
(*                                                                         *)
(* Three of the four results exclude behaviours in which the cursor has    *)
(* left the digits of its row (overrun; the run "cursor" shows that it     *)
(* can).  As long as it has not, its place tells how far the operator is:  *)
(* in the time row exactly while the time is being set, beyond the rows    *)
(* only after OK has saved the MSIDs.                                      *)
(*                                                                         *)
(* And of the keypad in front of it, for every set of rows and columns: a  *)
(* key that is reported is down, and is reported once until all keys have  *)
(* been let go.                                                            *)
(***************************************************************************)
EXTENDS MSPanel, MSKeypad, TLAPS

(* The type invariant in two parts, numbers and truth values. *)
NumOK ==
    /\ MS \in {0, 1, 2, 3, 4, 5, 10, 11, 12}
    /\ choose \in 0..3 /\ (MS \in {2, 3, 4, 5} => choose # 3)
    /\ choose_number \in 0..35
    /\ setting_time \in 0..1
    /\ id \in [Modes -> Ids] /\ msidfile \in [Modes -> Ids]
    /\ timeRow \in {"clock", "typed", "bad"}
    /\ thread_time \in 0..DoneTurns
    /\ cuts \in 0..MaxCuts
    /\ last \in [Modes -> Ids \cup {NoId}]

BoolOK == due \in BOOLEAN /\ MS_error \in BOOLEAN /\ overrun \in BOOLEAN

(* The cursor stands on a digit, and in the time row while that is set. *)
CursorInv ==
    ~overrun =>
        /\ MS = 2 /\ choose_number < 30 => InField(choose_number)
        /\ setting_time = 1 <=> MS = 2 /\ choose_number \in 20..25

(* Once the settings are accepted the MSIDs are those of the file. *)
SavedInv ==
    ~overrun /\ ((MS = 2 /\ choose_number >= 30) \/ MS \in {3, 4, 5}) => id = msidfile

(* Digits that were typed stand in the time row only while it is set, or   *)
(* for one turn after the operator gave them up.                           *)
RowInv ==
    ~overrun =>
        /\ MS = 2 /\ timeRow = "typed" => setting_time = 1 \/ (choose_number = 0 /\ due)
        /\ MS = 3 => timeRow # "typed"

(* The MSID offered next in a mode follows the one last given away. *)
Follows(n, m) == n[m] = (last[m] + 1) % IdMax

IdInv ==
    \A m \in Modes : last[m] # NoId =>
        IF MS = 5 /\ m = choose THEN id[m] = last[m]
        ELSE Follows(msidfile, m) /\ (MS # 0 => Follows(id, m))

PanelInv == NumOK /\ CursorInv /\ SavedInv /\ RowInv /\ IdInv

-----------------------------------------------------------------------------
(* The cursor *)

(* An arrow moves the cursor from a digit to a digit, or within 30..35 and  *)
(* from there to a digit; it never leads beyond the rows.                   *)
LEMMA ArrowCursor ==
    ASSUME NumOK, NEW b \in Arrows
    PROVE  LET d == AfterArrow(choose_number, b)
           IN  /\ d \in 0..35
               /\ choose_number >= 30 \/ InField(choose_number) =>
                     /\ d < 30 => InField(d)
                     /\ d >= 30 => choose_number >= 30
<1> DEFINE c == choose_number
           d == AfterArrow(c, b)
<1>0. c \in 0..35
  BY DEF NumOK
<1>1. CASE b = "UP"
  <2>1. d = LET e == IF Col(c) > 5 THEN Row(c) * 10 + 5 ELSE c
            IN  IF e >= 10 THEN e - 10 ELSE e + 20
    BY <1>1 DEF AfterArrow
  <2> QED
    BY <1>0, <2>1 DEF InField, Row, Col
<1>2. CASE b = "DOWN"
  <2>1. d = ((IF Col(c) > 5 THEN 5 ELSE c) + 10) % 30
    BY <1>2 DEF AfterArrow
  <2> QED
    BY <1>0, <2>1 DEF InField, Row, Col
<1>3. CASE b = "LEFT"
  <2>1. d = IF Col(c) > 0 THEN c - 1
            ELSE IF c < 10 /\ choose = 1 THEN 7 ELSE Row(c) * 10 + 5
    BY <1>3 DEF AfterArrow
  <2> QED
    BY <1>0, <2>1 DEF InField, Row, Col
<1>4. CASE b = "RIGHT"
  <2>1. d = Row(c + 1) * 10 +
              (Col(c + 1) % (IF c + 1 < 10 /\ choose = 1 THEN 8 ELSE 6))
    BY <1>4 DEF AfterArrow
  <2> QED
    BY <1>0, <2>1 DEF InField, Row, Col
<1> QED
  BY <1>1, <1>2, <1>3, <1>4 DEF Arrows

(* A digit moves the cursor on in its row, or behind the row's digits. *)
LEMMA DigitCursor ==
    ASSUME NumOK, choose_number < 30
    PROVE  LET d == AfterDigit(choose_number)
           IN  /\ d \in 0..30
               /\ InField(choose_number) /\ (d < 30 => InField(d)) =>
                     /\ d < 30
                     /\ d \in 20..25 <=> choose_number \in 20..25
<1> DEFINE c == choose_number
           d == AfterDigit(c)
<1>0. c \in 0..29
  BY DEF NumOK
<1>1. CASE choose = 1
  <2>1. d = IF Col(c + 1) >= 8 /\ c + 1 < 10 THEN 0 ELSE c + 1
    BY <1>1 DEF AfterDigit
  <2> QED
    BY <1>0, <1>1, <2>1 DEF InField, Row, Col
<1>2. CASE choose # 1
  <2>1. d = IF Col(c + 1) >= 6 THEN Row(c + 1) * 10 ELSE c + 1
    BY <1>2 DEF AfterDigit
  <2> QED
    BY <1>0, <1>2, <2>1 DEF InField, Row, Col
<1> QED
  BY <1>1, <1>2

-----------------------------------------------------------------------------
(* The settings, button by button.  What none of the buttons touches: *)
Settings == MS = 2 /\ UNCHANGED <<thread_time, MS_error, cuts>>

(* The start contact leads to a test only from 30. *)
LEMMA StartContact ==
    ASSUME NEW c \in 0..35, MS' \in Start(c)
    PROVE  MS' \in {2, 3} /\ (MS' = 3 => c = 30)
  BY DEF Start

(* The time row is one of three; it is not typed over by the clock while   *)
(* it is set, and shows the clock if it is due.                            *)
LEMMA RefreshedRow ==
    ASSUME NumOK, NEW r \in Refreshed
    PROVE  /\ r \in {timeRow, "clock"}
           /\ setting_time = 1 => r = timeRow
           /\ setting_time = 0 /\ due /\ choose_number = 0 => r = "clock"
  BY DEF Refreshed, NumOK, Row

(* A typed digit changes one MSID, or the time row, and moves the cursor:  *)
(* to a digit of the row, or the row is overrun.                           *)
LEMMA DigitInv == ASSUME PanelInv, Settings, TypeDigit PROVE PanelInv'
<1> USE DEF PanelInv, Settings
<1> DEFINE c == choose_number
<1>1. /\ c < 30 /\ choose_number' = AfterDigit(c) /\ MS = 2
      /\ UNCHANGED <<choose, setting_time, msidfile, thread_time, MS_error, cuts>>
      /\ due' = TRUE
  BY DEF TypeDigit
<1>2. choose \in Modes /\ choose # 3 /\ c \in 0..29
  BY <1>1 DEF NumOK, Modes
<1>3. ~overrun' => /\ ~overrun
                   /\ choose_number' < 30 => InField(choose_number')
  BY Zenon DEF TypeDigit
<1>4. /\ choose_number' \in 0..30
      /\ ~overrun' => /\ choose_number' < 30 /\ InField(c)
                      /\ choose_number' \in 20..25 <=> c \in 20..25
  BY <1>1, <1>2, <1>3, DigitCursor DEF CursorInv
<1>5. MS' \in {2, 3} /\ (MS' = 3 => choose_number' = 30)
  BY <1>4, StartContact DEF TypeDigit
<1>6. /\ id' \in [Modes -> Ids] /\ last' \in [Modes -> Ids \cup {NoId}]
      /\ \A m \in Modes : \/ last'[m] = NoId
                          \/ last'[m] = last[m] /\ id'[m] = id[m]
  <2>1. CASE c < 10
    <3>1. PICK n \in Ids : id' = [id EXCEPT ![choose] = n]
      BY <2>1 DEF TypeDigit
    <3>2. last' = [last EXCEPT ![choose] = NoId]
      BY <2>1 DEF TypeDigit
    <3>3. id' \in [Modes -> Ids] /\ last' \in [Modes -> Ids \cup {NoId}]
      BY <3>1, <3>2 DEF NumOK
    <3>4. /\ last'[choose] = NoId
          /\ \A m \in Modes : m # choose => last'[m] = last[m] /\ id'[m] = id[m]
      BY <1>2, <3>1, <3>2 DEF NumOK
    <3> QED
      BY <1>2, <3>3, <3>4
  <2>2. CASE ~(c < 10)
    BY <2>2 DEF TypeDigit, NumOK
  <2> QED
    BY <2>1, <2>2
<1>7. /\ timeRow' \in {"clock", "typed", "bad"}
      /\ ~overrun' => (timeRow' = "typed" => setting_time = 1)
  <2>1. CASE c >= 20 \/ ~InField(c)
    <3>1. timeRow' \in {"typed", "bad"}
      BY <2>1 DEF TypeDigit
    <3>2. ~overrun' => setting_time = 1
      BY <1>1, <1>2, <1>3, <1>4, <2>1 DEF CursorInv, InField, Row, Col
    <3> QED
      BY <3>1, <3>2
  <2>2. CASE ~(c >= 20 \/ ~InField(c))
    <3>1. timeRow' \in Refreshed
      BY <2>2 DEF TypeDigit
    <3>2. setting_time \in {0, 1}
      BY DEF NumOK
    <3> QED
      BY <1>1, <1>3, <3>1, <3>2, RefreshedRow DEF RowInv, NumOK
  <2> QED
    BY <2>1, <2>2
<1>8. NumOK'
  BY <1>1, <1>2, <1>4, <1>5, <1>6, <1>7, PanelAssumption DEF NumOK
<1>9. CursorInv'
  <2>1. InField(choose_number)' <=> InField(choose_number')
    BY <1>1 DEF InField
  <2> QED
    BY <1>1, <1>3, <1>4, <1>5, <2>1 DEF CursorInv
<1>10. SavedInv' /\ RowInv'
  BY <1>1, <1>4, <1>5, <1>7 DEF SavedInv, RowInv
<1>11. IdInv'
  BY <1>1, <1>5, <1>6 DEF IdInv, Follows
<1> QED
  BY <1>8, <1>9, <1>10, <1>11

(* An arrow moves the cursor and with it begins or ends the setting of the *)
(* time; the MSIDs stay.                                                   *)
LEMMA MoveInv ==
    ASSUME PanelInv, Settings, NEW b \in Arrows, MoveCursor(b)
    PROVE  PanelInv'
<1> USE DEF PanelInv, Settings
<1> DEFINE c == choose_number
<1>1. /\ choose_number' = AfterArrow(c, b) /\ MS = 2 /\ due' = TRUE
      /\ setting_time' = IF choose_number' \in 20..25 THEN 1 ELSE 0
      /\ UNCHANGED <<choose, id, msidfile, last, overrun, thread_time, MS_error, cuts>>
  BY DEF MoveCursor
<1>2. /\ choose_number' \in 0..35
      /\ ~overrun => /\ choose_number' < 30 => InField(choose_number')
                     /\ choose_number' >= 30 => c >= 30
  BY <1>1, ArrowCursor DEF CursorInv, NumOK
<1>3. MS' \in {2, 3} /\ (MS' = 3 => choose_number' = 30)
  BY <1>2, StartContact DEF MoveCursor
<1>4. setting_time \in {0, 1} /\ timeRow \in {"clock", "typed", "bad"}
  BY DEF NumOK
<1>5. /\ timeRow' \in {"clock", "typed", "bad"}
      /\ ~overrun => (timeRow' = "typed" => setting_time' = 1)
  <2>1. CASE setting_time = 1 /\ choose_number' \notin 20..25
    BY <1>1, <2>1 DEF MoveCursor, SetTime
  <2>2. CASE ~(setting_time = 1 /\ choose_number' \notin 20..25)
    <3>1. timeRow' \in Refreshed
      BY <2>2 DEF MoveCursor
    <3> QED
      BY <1>1, <1>4, <2>2, <3>1, RefreshedRow DEF RowInv
  <2> QED
    BY <2>1, <2>2
<1>6. NumOK'
  BY <1>1, <1>2, <1>3, <1>5, PanelAssumption DEF NumOK
<1>7. CursorInv'
  <2>1. InField(choose_number)' <=> InField(choose_number')
    BY <1>1 DEF InField
  <2> QED
    BY <1>1, <1>2, <1>3, <2>1 DEF CursorInv
<1>8. SavedInv' /\ RowInv'
  BY <1>1, <1>2, <1>3, <1>5 DEF SavedInv, RowInv
<1>9. IdInv'
  BY <1>1, <1>3 DEF IdInv, Follows
<1> QED
  BY <1>6, <1>7, <1>8, <1>9

(* RETURN gives up what was typed, or leaves the settings. *)
LEMMA ReturnInv == ASSUME PanelInv, Settings, ReturnButton PROVE PanelInv'
<1> USE DEF PanelInv, Settings
<1>1. /\ UNCHANGED <<id, msidfile, last, overrun, thread_time, cuts>>
      /\ timeRow' \in Refreshed /\ MS = 2
  BY DEF ReturnButton, ReturnButtonAs
<1>2. /\ setting_time \in {0, 1} /\ timeRow \in {"clock", "typed", "bad"}
      /\ timeRow' \in {timeRow, "clock"}
  BY <1>1, RefreshedRow DEF NumOK
<1>3. CASE choose_number = 30 \/ setting_time = 1
  <2>1. /\ choose_number' = 0 /\ due' = TRUE /\ UNCHANGED <<MS, choose>>
        /\ setting_time' = IF choose_number = 30 THEN setting_time ELSE 0
    BY <1>2, <1>3 DEF ReturnButton, ReturnButtonAs
  <2>2. ~overrun => setting_time' = 0
    BY <1>1, <1>2, <1>3, <2>1 DEF CursorInv
  <2>3. NumOK'
    BY <1>1, <1>2, <2>1 DEF NumOK
  <2>4. CursorInv'
    BY <1>1, <2>1, <2>2 DEF CursorInv, InField, Row, Col
  <2>5. SavedInv' /\ RowInv' /\ IdInv'
    BY <1>1, <2>1 DEF SavedInv, RowInv, IdInv, Follows
  <2> QED
    BY <2>3, <2>4, <2>5
<1>4. CASE ~(choose_number = 30 \/ setting_time = 1)
  <2>1. MS' = 1 /\ choose' = 0 /\ UNCHANGED <<choose_number, setting_time>>
    BY <1>4 DEF ReturnButton, ReturnButtonAs
  <2>2. NumOK'
    BY <1>1, <1>2, <2>1 DEF NumOK
  <2>3. CursorInv' /\ SavedInv' /\ RowInv'
    BY <1>1, <1>2, <1>4, <2>1 DEF CursorInv, SavedInv, RowInv
  <2>4. IdInv'
    BY <1>1, <2>1 DEF IdInv, Follows
  <2> QED
    BY <2>2, <2>3, <2>4
<1> QED
  BY <1>3, <1>4

(* OK saves the MSIDs and puts the cursor beyond the rows; with a meter in *)
(* place the test starts at once, with the MSIDs just saved.               *)
LEMMA OkInv == ASSUME PanelInv, Settings, OkButton PROVE PanelInv'
<1> USE DEF PanelInv, Settings
<1>1. /\ MS = 2 /\ msidfile' = id /\ setting_time' = 0 /\ choose_number' = 30
      /\ choose_number < 30
      /\ UNCHANGED <<choose, id, last, overrun, thread_time, cuts>>
  BY DEF OkButton
<1>2. MS' \in {2, 3}
  BY <1>1, StartContact DEF OkButton
<1>3. /\ timeRow' \in {"clock", "typed", "bad"}
      /\ ~overrun => timeRow' # "typed"
  <2>1. timeRow \in {"clock", "typed", "bad"} /\ setting_time \in {0, 1}
    BY DEF NumOK
  <2>2. CASE setting_time = 1
    BY <2>1, <2>2 DEF OkButton, SetTime
  <2>3. CASE setting_time # 1
    <3>1. timeRow' \in Refreshed
      BY <2>3 DEF OkButton
    <3> QED
      BY <1>1, <2>1, <2>3, <3>1, RefreshedRow DEF RowInv
  <2> QED
    BY <2>2, <2>3
<1>4. NumOK'
  BY <1>1, <1>2, <1>3 DEF NumOK
<1>5. CursorInv' /\ SavedInv' /\ RowInv'
  BY <1>1, <1>2, <1>3 DEF CursorInv, SavedInv, RowInv
<1>6. IdInv'
  BY <1>1, <1>2 DEF IdInv, Follows
<1> QED
  BY <1>4, <1>5, <1>6

(* A turn without a button shows the rows again when they are due, and     *)
(* then the time row is the clock's unless it is being set.                *)
LEMMA NoEffectInv == ASSUME PanelInv, Settings, NEW b, NoEffect(b) PROVE PanelInv'
<1> USE DEF PanelInv, Settings
<1>1. /\ MS = 2 /\ timeRow' \in Refreshed /\ due' = FALSE
      /\ UNCHANGED <<choose, choose_number, setting_time, id, msidfile, last, overrun,
                     thread_time, cuts>>
  BY DEF NoEffect
<1>2. choose_number \in 0..35 /\ MS' \in Start(choose_number)
  BY DEF NoEffect, NumOK
<1>3. MS' \in {2, 3} /\ (MS' = 3 => choose_number = 30)
  BY <1>2, StartContact
<1>4. /\ timeRow' \in {"clock", "typed", "bad"}
      /\ ~overrun => (timeRow' = "typed" => setting_time = 1)
  <2>1. timeRow \in {"clock", "typed", "bad"} /\ setting_time \in {0, 1}
    BY DEF NumOK
  <2> QED
    BY <1>1, <2>1, RefreshedRow DEF RowInv
<1>5. NumOK'
  BY <1>1, <1>3, <1>4 DEF NumOK
<1>6. CursorInv'
  BY <1>1, <1>3 DEF CursorInv, InField
<1>7. SavedInv' /\ RowInv'
  BY <1>1, <1>3, <1>4 DEF SavedInv, RowInv, CursorInv
<1>8. IdInv'
  BY <1>1, <1>3 DEF IdInv, Follows
<1> QED
  BY <1>5, <1>6, <1>7, <1>8

(* A turn of the settings. *)
LEMMA SettingInv ==
    ASSUME PanelInv, NEW b \in Buttons, MS_thread_SettingMs(b)
    PROVE  PanelInv'
<1>1. Settings
  BY DEF MS_thread_SettingMs, Settings
<1>2. MoveCursor(b) => b \in Arrows
  BY DEF MoveCursor
<1> QED
  BY <1>1, <1>2, DigitInv, MoveInv, ReturnInv, OkInv, NoEffectInv
     DEF MS_thread_SettingMs

-----------------------------------------------------------------------------
(* The other pages. *)

(* The start, the choice of the mode and the radio page. *)
LEMMA PageInv ==
    ASSUME PanelInv,
           MS_thread_init \/ (\E b \in Buttons : MS_thread_SelectMode(b)) \/ RadioPage
    PROVE  PanelInv'
<1> USE DEF PanelInv
<1>1. CASE MS_thread_init
  <2>1. /\ MS = 0 /\ MS' = 1 /\ choose' = 0 /\ id' = msidfile
        /\ UNCHANGED <<choose_number, setting_time, msidfile, timeRow, thread_time,
                       cuts, last, overrun>>
    BY <1>1 DEF MS_thread_init
  <2>2. NumOK'
    BY <2>1 DEF NumOK
  <2>3. CursorInv' /\ SavedInv' /\ RowInv'
    BY <2>1 DEF CursorInv, SavedInv, RowInv
  <2>4. IdInv'
    BY <2>1 DEF IdInv, Follows
  <2> QED
    BY <2>2, <2>3, <2>4
<1>2. ASSUME NEW b \in Buttons, MS_thread_SelectMode(b)
      PROVE  PanelInv'
  <2>1. MS = 1 /\ UNCHANGED <<setting_time, id, msidfile, thread_time, cuts, last, overrun>>
    BY <1>2 DEF MS_thread_SelectMode
  <2>2. CASE b = "OK"
    <3>1. /\ MS' = IF choose = 3 THEN 10 ELSE 2
          /\ choose_number' = 0 /\ UNCHANGED choose
          /\ timeRow' = IF choose = 3 THEN timeRow ELSE "clock"
      BY <1>2, <2>2 DEF MS_thread_SelectMode
    <3>2. NumOK'
      BY <2>1, <3>1 DEF NumOK
    <3>3. CursorInv'
      BY <2>1, <3>1 DEF CursorInv, InField, Row, Col
    <3>4. SavedInv' /\ RowInv'
      BY <2>1, <3>1 DEF SavedInv, RowInv
    <3>5. IdInv'
      BY <2>1, <3>1 DEF IdInv, Follows
    <3> QED
      BY <3>2, <3>3, <3>4, <3>5
  <2>3. CASE b # "OK"
    <3>1. UNCHANGED <<MS, choose_number, timeRow>>
      BY <1>2, <2>3 DEF MS_thread_SelectMode
    <3>2. choose' \in 0..3
      <4>1. choose \in 0..3
        BY DEF NumOK
      <4>2. CASE b = "UP"
        BY <1>2, <4>1, <4>2 DEF MS_thread_SelectMode
      <4>3. CASE b = "DOWN"
        BY <1>2, <4>1, <4>3 DEF MS_thread_SelectMode
      <4>4. CASE b \notin {"UP", "DOWN"}
        <5>1. choose' = choose
          BY <1>2, <4>4 DEF MS_thread_SelectMode
        <5> QED
          BY <4>1, <5>1
      <4> QED
        BY <4>2, <4>3, <4>4
    <3>3. NumOK'
      BY <2>1, <3>1, <3>2 DEF NumOK
    <3>4. CursorInv' /\ SavedInv' /\ RowInv'
      BY <2>1, <3>1 DEF CursorInv, SavedInv, RowInv
    <3>5. IdInv'
      BY <2>1, <3>1 DEF IdInv, Follows
    <3> QED
      BY <3>3, <3>4, <3>5
  <2> QED
    BY <2>2, <2>3
<1>3. CASE RadioPage
  <2>1. /\ MS \in {10, 11, 12} /\ MS' \in {1, 11, 12} /\ choose' \in {0, choose}
        /\ UNCHANGED <<choose_number, setting_time, id, msidfile, timeRow, thread_time,
                       cuts, last, overrun>>
    BY <1>3 DEF RadioPage
  <2>2. NumOK'
    BY <2>1 DEF NumOK
  <2>3. CursorInv' /\ SavedInv' /\ RowInv'
    BY <2>1 DEF CursorInv, SavedInv, RowInv
  <2>4. IdInv'
    BY <2>1 DEF IdInv, Follows
  <2> QED
    BY <2>2, <2>3, <2>4
<1> QED
  BY <1>1, <1>2, <1>3

(* A test passes or fails; what is shown of it. *)
LEMMA TestedInv ==
    ASSUME PanelInv,
           MS_thread_test \/ (\E b \in Buttons : MS_thread_ERROR(b)) \/ ShowPassed
    PROVE  PanelInv'
<1> USE DEF PanelInv
<1>1. CASE MS_thread_test
  <2>1. /\ MS = 3 /\ thread_time' = 0
        /\ UNCHANGED <<choose, choose_number, setting_time, id, msidfile, timeRow,
                       cuts, overrun>>
        /\ \/ MS' = 5 /\ last' = [last EXCEPT ![choose] = id[choose]]
           \/ MS' = 4 /\ last' = last
    BY <1>1 DEF MS_thread_test
  <2>2. choose \in Modes /\ id[choose] \in Ids
    BY <2>1 DEF NumOK, Modes
  <2>3. NumOK'
    <3>1. last' \in [Modes -> Ids \cup {NoId}]
      BY <2>1, <2>2 DEF NumOK
    <3> QED
      BY <2>1, <3>1, PanelAssumption DEF NumOK
  <2>4. CursorInv' /\ SavedInv' /\ RowInv'
    BY <2>1 DEF CursorInv, SavedInv, RowInv
  <2>5. IdInv'
    BY <2>1, <2>2 DEF IdInv, Follows, NumOK
  <2> QED
    BY <2>3, <2>4, <2>5
<1>2. ASSUME NEW b \in Buttons, MS_thread_ERROR(b)
      PROVE  PanelInv'
  <2>1. /\ MS = 4
        /\ \/ MS' = 2 /\ choose_number' = 30 /\ timeRow' = "clock"
           \/ UNCHANGED <<MS, choose_number, timeRow>>
        /\ UNCHANGED <<choose, setting_time, id, msidfile, thread_time, cuts, last, overrun>>
    BY <1>2 DEF MS_thread_ERROR
  <2>2. NumOK'
    BY <2>1 DEF NumOK
  <2>3. CursorInv' /\ SavedInv' /\ RowInv'
    BY <2>1 DEF CursorInv, SavedInv, RowInv
  <2>4. IdInv'
    BY <2>1 DEF IdInv, Follows
  <2> QED
    BY <2>2, <2>3, <2>4
<1>3. CASE ShowPassed
  <2>1. /\ MS = 5 /\ thread_time < DoneTurns /\ thread_time' = thread_time + 1
        /\ UNCHANGED <<MS, choose, choose_number, setting_time, id, msidfile, timeRow,
                       cuts, last, overrun>>
    BY <1>3 DEF ShowPassed
  <2>2. NumOK'
    BY <2>1, PanelAssumption DEF NumOK
  <2>3. CursorInv' /\ SavedInv' /\ RowInv' /\ IdInv'
    BY <2>1 DEF CursorInv, SavedInv, RowInv, IdInv, Follows, InField
  <2> QED
    BY <2>2, <2>3
<1> QED
  BY <1>1, <1>2, <1>3

(* The next MSID is offered and saved. *)
LEMMA NextIdInv == ASSUME PanelInv, MS_thread_return PROVE PanelInv'
<1> USE DEF PanelInv
<1> DEFINE next == (id[choose] + 1) % IdMax
<1>1. /\ MS = 5 /\ id' = [id EXCEPT ![choose] = next] /\ msidfile' = id'
      /\ MS' = 2 /\ choose_number' = 30 /\ thread_time' = 0 /\ timeRow' = "clock"
      /\ UNCHANGED <<choose, setting_time, cuts, last, overrun>>
  BY DEF MS_thread_return, ReturnWith
<1>2. choose \in Modes /\ id[choose] \in Ids
  BY <1>1 DEF NumOK, Modes
<1>3. next \in Ids
  BY <1>2, PanelAssumption DEF Ids
<1> HIDE DEF next
<1>4. NumOK'
  <2>1. id' \in [Modes -> Ids]
    BY <1>1, <1>3 DEF NumOK
  <2> QED
    BY <1>1, <2>1, PanelAssumption DEF NumOK
<1>5. CursorInv' /\ SavedInv' /\ RowInv'
  BY <1>1 DEF CursorInv, SavedInv, RowInv
<1>6. IdInv'
  <2> SUFFICES ASSUME NEW m \in Modes, last[m] # NoId
               PROVE  id'[m] = (last[m] + 1) % IdMax
    BY <1>1 DEF IdInv, Follows
  <2>1. CASE m = choose
    BY <1>1, <1>2, <2>1 DEF IdInv, NumOK, next
  <2>2. CASE m # choose
    BY <1>1, <2>2 DEF IdInv, NumOK, Follows
  <2> QED
    BY <2>1, <2>2
<1> QED
  BY <1>4, <1>5, <1>6

(* A power failure: the file keeps what the panel forgets. *)
LEMMA CutInv == ASSUME PanelInv, PowerCut PROVE PanelInv'
<1> USE DEF PanelInv
<1>1. /\ cuts < MaxCuts /\ cuts' = cuts + 1
      /\ MS' = 0 /\ choose' = 0 /\ choose_number' = 0 /\ setting_time' = 0
      /\ id' = [m \in Modes |-> 0] /\ timeRow' = "clock" /\ thread_time' = 0
      /\ last' = IF MS = 5 THEN [last EXCEPT ![choose] = NoId] ELSE last
      /\ UNCHANGED <<msidfile, overrun>>
  BY DEF PowerCut
<1>2. 0 \in Ids
  BY PanelAssumption DEF Ids
<1>3. NumOK'
  <2>1. id' \in [Modes -> Ids]
    BY <1>1, <1>2
  <2>2. last' \in [Modes -> Ids \cup {NoId}]
    BY <1>1 DEF NumOK
  <2> QED
    BY <1>1, <2>1, <2>2, PanelAssumption DEF NumOK
<1>4. CursorInv' /\ SavedInv' /\ RowInv'
  BY <1>1 DEF CursorInv, SavedInv, RowInv
<1>5. IdInv'
  <2> SUFFICES ASSUME NEW m \in Modes, last'[m] # NoId
               PROVE  msidfile[m] = (last'[m] + 1) % IdMax
    BY <1>1 DEF IdInv, Follows
  <2>1. CASE MS = 5
    <3>1. m # choose /\ last'[m] = last[m]
      BY <1>1, <2>1 DEF NumOK
    <3> QED
      BY <3>1 DEF IdInv, Follows
  <2>2. CASE MS # 5
    BY <1>1, <2>2 DEF IdInv, Follows
  <2> QED
    BY <2>1, <2>2
<1> QED
  BY <1>3, <1>4, <1>5

(* Truth values stay truth values. *)
LEMMA TruthValues == BoolOK /\ [Next]_vars => BoolOK'
<1> SUFFICES ASSUME BoolOK, [Next]_vars PROVE BoolOK'
  OBVIOUS
<1> USE DEF BoolOK
<1>1. ASSUME NEW b \in Buttons, MS_thread_SettingMs(b) PROVE BoolOK'
  <2>1. CASE TypeDigit
    BY <1>1, <2>1, Zenon DEF TypeDigit, MS_thread_SettingMs
  <2>2. CASE MoveCursor(b)
    BY <1>1, <2>2, Zenon DEF MoveCursor, MS_thread_SettingMs
  <2>3. CASE ReturnButton
    BY <1>1, <2>3, Zenon DEF ReturnButton, ReturnButtonAs, MS_thread_SettingMs
  <2>4. CASE OkButton
    BY <1>1, <2>4, Zenon DEF OkButton, MS_thread_SettingMs
  <2>5. CASE NoEffect(b)
    BY <1>1, <2>5, Zenon DEF NoEffect, MS_thread_SettingMs
  <2> QED
    BY <1>1, <2>1, <2>2, <2>3, <2>4, <2>5 DEF MS_thread_SettingMs
<1>2. ASSUME NEW b \in Buttons, MS_thread_SelectMode(b) PROVE BoolOK'
  <2>1. due' = (b \in {"UP", "DOWN"}) /\ UNCHANGED <<MS_error, overrun>>
    BY <1>2 DEF MS_thread_SelectMode
  <2>2. CASE b \in {"UP", "DOWN"}
    BY <2>1, <2>2
  <2>3. CASE b \notin {"UP", "DOWN"}
    BY <2>1, <2>3
  <2> QED
    BY <2>2, <2>3
<1>3. ASSUME NEW b \in Buttons, MS_thread_ERROR(b) PROVE BoolOK'
  BY <1>3, Zenon DEF MS_thread_ERROR
<1>4. CASE MS_thread_init \/ MS_thread_test \/ ShowPassed \/ MS_thread_return
  BY <1>4, Zenon DEF MS_thread_init, MS_thread_test, ShowPassed, MS_thread_return, ReturnWith
<1>5. CASE RadioPage \/ PowerCut
  BY <1>5, Zenon DEF RadioPage, PowerCut
<1>6. CASE UNCHANGED vars
  BY <1>6, Zenon DEF vars
<1> QED
  BY <1>1, <1>2, <1>3, <1>4, <1>5, <1>6 DEF Next, MS_thread

-----------------------------------------------------------------------------
(* The initial state satisfies the invariant. *)
LEMMA PanelInit == Init => PanelInv /\ BoolOK
<1> SUFFICES ASSUME Init PROVE PanelInv /\ BoolOK
  OBVIOUS
<1>1. 0 \in Ids /\ 1 \in Ids
  BY PanelAssumption DEF Ids
<1>2. NumOK
  <2>1. id \in [Modes -> Ids] /\ msidfile \in [Modes -> Ids]
    BY <1>1 DEF Init
  <2>2. last \in [Modes -> Ids \cup {NoId}]
    BY DEF Init
  <2> QED
    BY <2>1, <2>2, PanelAssumption DEF Init, NumOK
<1>3. CursorInv /\ SavedInv /\ RowInv
  BY DEF Init, CursorInv, SavedInv, RowInv
<1>4. IdInv
  BY DEF Init, IdInv
<1>5. BoolOK
  BY Zenon DEF Init, BoolOK
<1> QED
  BY <1>2, <1>3, <1>4, <1>5 DEF PanelInv

(* The panel keeps its invariant in every reachable state. *)
THEOREM PanelInvariance == Spec => [](PanelInv /\ BoolOK)
<1>1. PanelInv /\ [Next]_vars => PanelInv'
  <2>1. PanelInv /\ Next => PanelInv'
    BY SettingInv, PageInv, TestedInv, NextIdInv, CutInv DEF Next, MS_thread
  <2>2. PanelInv /\ UNCHANGED vars => PanelInv'
    BY DEF vars, PanelInv, NumOK, CursorInv, SavedInv, RowInv, IdInv, Follows, InField
  <2> QED
    BY <2>1, <2>2
<1> QED
  BY PanelInit, <1>1, TruthValues, PTL DEF Spec

(* The variables of the panel keep their types; so does the cursor, which  *)
(* never leaves 0..35, whichever buttons are pressed.                      *)
THEOREM PanelTypeOK == Spec => []TypeOK
<1>1. PanelInv /\ BoolOK => TypeOK
  BY Zenon DEF PanelInv, NumOK, BoolOK, TypeOK
<1> QED
  BY PanelInvariance, <1>1, PTL

(* MS_thread_SettingMs reaches a test only with the MSIDs that set_MSID    *)
(* has written: RETURN, the arrows and digits lead away from 30 before an  *)
(* MSID can change.                                                        *)
THEOREM TestsSavedIds == Spec => []TestedIsSaved
<1>1. PanelInv => TestedIsSaved
  BY DEF PanelInv, SavedInv, TestedIsSaved
<1> QED
  BY PanelInvariance, <1>1, PTL

(* The meters of a mode get one MSID after the other, for every number of  *)
(* MSIDs, with the wrap to 0 after the last.                               *)
THEOREM TestsNextId == Spec => []NextIdTested
<1>1. PanelInv => NextIdTested
  <2> SUFFICES ASSUME PanelInv, MS = 3, last[choose] # NoId
               PROVE  id[choose] = (last[choose] + 1) % IdMax
    BY DEF NextIdTested
  <2>1. choose \in Modes
    BY DEF PanelInv, NumOK, Modes
  <2> QED
    BY <2>1 DEF PanelInv, IdInv, Follows
<1> QED
  BY PanelInvariance, <1>1, PTL

(* No meter is given a time of day that was typed and not set. *)
THEOREM TestsTimeOfClock == Spec => []TimeOfClockTested
<1>1. PanelInv => TimeOfClockTested
  BY DEF PanelInv, RowInv, TimeOfClockTested
<1> QED
  BY PanelInvariance, <1>1, PTL

(* While the time is set, showing the rows again does not put the clock    *)
(* over the typed digits.                                                  *)
THEOREM KeepsTypedTime == Spec => TypedTimeKept
<1> DEFINE Kept == timeRow # "clock" /\ setting_time = 1 /\ setting_time' = 1 /\ ~overrun
                     => timeRow' # "clock"
<1>1. PanelInv /\ [Next]_vars => [Kept]_vars
  <2> SUFFICES ASSUME PanelInv, Next, timeRow # "clock", setting_time = 1,
                      setting_time' = 1, ~overrun
               PROVE  timeRow' # "clock"
    OBVIOUS
  <2>1. MS = 2 /\ choose_number \in 20..25
    BY DEF PanelInv, CursorInv
  <2>2. PICK b \in Buttons : MS_thread_SettingMs(b)
    BY <2>1 DEF Next, MS_thread, MS_thread_init, MS_thread_SelectMode, MS_thread_ERROR,
       MS_thread_test, ShowPassed, MS_thread_return, ReturnWith, RadioPage, PowerCut
  <2>3. Refreshed = {timeRow}
    BY DEF Refreshed
  <2>4. CASE TypeDigit
    BY <2>1, <2>4 DEF TypeDigit
  <2>5. CASE MoveCursor(b)
    BY <2>3, <2>5 DEF MoveCursor
  <2>6. CASE ReturnButton
    BY <2>1, <2>6 DEF ReturnButton, ReturnButtonAs
  <2>7. CASE OkButton
    BY <2>7 DEF OkButton
  <2>8. CASE NoEffect(b)
    BY <2>3, <2>8 DEF NoEffect
  <2> QED
    BY <2>2, <2>4, <2>5, <2>6, <2>7, <2>8 DEF MS_thread_SettingMs
<1> QED
  BY PanelInvariance, <1>1, PTL DEF Spec, TypedTimeKept

-----------------------------------------------------------------------------
(* The keypad (MSKeypad)                                                    *)
(*                                                                          *)
(* A key that is down and not fresh was down when the last key was          *)
(* returned.  Unless two keys of a column disturb the reading, a scan       *)
(* cannot pass it: while there is such a key the lock is closed.            *)

KeyTypes ==
    /\ down \subseteq Keys /\ fresh \subseteq Keys
    /\ i \in 0..Rows /\ j \in 0..Cols
    /\ pc \in {"main", "row", "column"}

(* The row left high by the last scan is low again before one is read. *)
ScanInv ==
    /\ pc = "row" => high = {}
    /\ pc = "column" => high = {i} /\ i < Rows

(* The scan has still to come to key k, and the lock is closed. *)
Ahead(k) ==
    /\ button_lock # NoButton
    /\ pc = "row" => k[1] >= i
    /\ pc = "column" => k[1] > i \/ (k[1] = i /\ k[2] >= j)

HeldInv == ~clash => ~Clash(down) /\ \A k \in down \ fresh : Ahead(k)

KeypadInv == KeyTypes /\ ScanInv /\ HeldInv

(* Only a key of the driven row makes a column high ... *)
LEMMA HighColumn ==
    ASSUME KeyTypes, ScanInv, pc = "column", TRUE \in Levels(j)
    PROVE  <<i, j>> \in down
<1>1. PICK r : r \in {k[1] : k \in {q \in down : q[2] = j}} \cap high
  BY DEF Levels
<1>2. PICK k \in down : k[2] = j /\ k[1] = r
  BY <1>1
<1>3. r = i
  BY <1>1 DEF ScanInv
<1>4. k = <<k[1], k[2]>>
  BY <1>2 DEF KeyTypes, Keys
<1> QED
  BY <1>2, <1>3, <1>4

(* ... and a column with a key of the driven row is read as low only if a   *)
(* key of another row disturbs it.                                          *)
LEMMA LowColumn ==
    ASSUME ScanInv, pc = "column", FALSE \in Levels(j),
           NEW k \in down, k[1] = i, k[2] = j
    PROVE  Clash(down)
<1> DEFINE on == {q[1] : q \in {q \in down : q[2] = j}}
<1>1. i \in on
  OBVIOUS
<1>2. on = {} \/ on \ high # {}
  BY DEF Levels
<1>3. PICK q \in down : q[2] = j /\ q[1] \notin high
  BY <1>1, <1>2
<1> QED
  BY <1>3 DEF ScanInv, Clash

(* A place of the matrix has an entry in button_data ...                   *)
LEMMA PlaceInTable ==
    ASSUME NEW a \in Nat, NEW b \in Nat, a < Rows, b < Cols
    PROVE  b + a * Cols \in 0..(Rows * Cols - 1)
<1>0. Rows \in Nat /\ Cols \in Nat
  BY KeypadAssumption
<1> DEFINE d == Rows - a - 1
<1>1. d \in Nat /\ Rows = a + 1 + d
  BY <1>0
<1> HIDE DEF d
<1>2. d * Cols \in Nat /\ a * Cols \in Nat
  BY <1>0, <1>1
<1>3. Rows * Cols = a * Cols + Cols + d * Cols
  BY <1>0, <1>1
<1> QED
  BY <1>0, <1>2, <1>3

(* ... and no two places have the same.                                    *)
LEMMA PlacesDiffer ==
    ASSUME NEW a \in Nat, NEW b \in Nat, NEW c \in Nat, NEW d \in Nat,
           b < Cols, d < Cols, b + a * Cols = d + c * Cols
    PROVE  a = c /\ b = d
<1>0. Cols \in Nat
  BY KeypadAssumption
<1>1. ASSUME NEW p \in Nat, NEW q \in Nat, NEW r \in Nat, NEW s \in Nat,
             q < Cols, s < Cols, q + p * Cols = s + r * Cols, p < r
      PROVE  FALSE
  <2> DEFINE e == r - p - 1
  <2>1. e \in Nat /\ r = p + 1 + e
    BY <1>1
  <2> HIDE DEF e
  <2>2. e * Cols \in Nat /\ p * Cols \in Nat
    BY <1>0, <2>1
  <2>3. r * Cols = p * Cols + Cols + e * Cols
    BY <1>0, <1>1, <2>1
  <2> QED
    BY <1>0, <1>1, <2>2, <2>3
<1>2. ~(a < c) /\ ~(c < a)
  BY <1>1
<1>3. a = c
  BY <1>2
<1> QED
  BY <1>0, <1>3

(* No two keys have the same number, and none has that of no button. *)
LEMMA NumbersDiffer ==
    ASSUME NEW k \in Keys
    PROVE  /\ NumberOf(k) # NoButton
           /\ \A q \in Keys : NumberOf(k) = NumberOf(q) => k = q
<1>0. Rows \in Nat /\ Cols \in Nat
  BY KeypadAssumption
<1>1. ASSUME NEW q \in Keys
      PROVE  /\ q[1] \in Nat /\ q[2] \in Nat /\ q[1] < Rows /\ q[2] < Cols
             /\ q = <<q[1], q[2]>>
  BY <1>0 DEF Keys
<1>2. ASSUME NEW q \in Keys
      PROVE  q[2] + q[1] * Cols \in DOMAIN button_data
  <2>1. q[2] + q[1] * Cols \in 0..(Rows * Cols - 1)
    BY <1>1, PlaceInTable
  <2>2. DOMAIN button_data = 0..(Rows * Cols - 1)
    BY KeypadAssumption
  <2> QED
    BY <2>1, <2>2
<1>3. NumberOf(k) # NoButton
  <2>1. DOMAIN button_data = 0..(Rows * Cols - 1)
    BY KeypadAssumption
  <2> DEFINE p == k[2] + k[1] * Cols
  <2>2. p \in 0..(Rows * Cols - 1)
    BY <1>2, <2>1
  <2> HIDE DEF p
  <2>3. button_data[p] \in Nat \ {NoButton}
    BY <2>2, KeypadAssumption
  <2> USE DEF p
  <2> QED
    BY <2>3 DEF NumberOf
<1>4. ASSUME NEW q \in Keys, NumberOf(k) = NumberOf(q)
      PROVE  k = q
  <2>1. k[2] + k[1] * Cols = q[2] + q[1] * Cols
    BY <1>2, <1>4, KeypadAssumption DEF NumberOf
  <2>2. k[1] = q[1] /\ k[2] = q[2]
    BY <1>1, <2>1, PlacesDiffer
  <2> QED
    BY <1>1, <2>2
<1> QED
  BY <1>3, <1>4

(* A key that is returned is down, with the number of its place. *)
LEMMA ReportsKey ==
    ASSUME KeypadInv, Report
    PROVE  /\ <<i, j>> \in down /\ <<i, j>> \in Keys
           /\ button' = NumberOf(<<i, j>>) /\ button_lock' = NumberOf(<<i, j>>)
<1>1. <<i, j>> \in down
  BY HighColumn DEF KeypadInv, Report, Found
<1> QED
  BY <1>1 DEF KeypadInv, KeyTypes, Report, Number, NumberOf

-----------------------------------------------------------------------------
(* Every step keeps the invariant *)

LEMMA KeypadInitInv == KeypadInit => KeypadInv
<1> SUFFICES ASSUME KeypadInit PROVE KeypadInv
  OBVIOUS
<1>1. KeyTypes /\ ScanInv
  BY KeypadAssumption DEF KeypadInit, KeyTypes, ScanInv
<1>2. ~Clash(down) /\ \A k \in down \ fresh : Ahead(k)
  BY DEF KeypadInit, Clash
<1> QED
  BY <1>1, <1>2 DEF KeypadInv, HeldInv

(* A press: the key is fresh. *)
LEMMA PressInv ==
    ASSUME KeypadInv, NEW k \in Keys, Press(k)
    PROVE  KeypadInv'
<1>1. /\ down' = down \cup {k} /\ fresh' = fresh \cup {k}
      /\ <<high, i, j, pc, button, button_lock>>' = <<high, i, j, pc, button, button_lock>>
  BY DEF Press
<1>2. KeyTypes' /\ ScanInv'
  BY <1>1 DEF KeypadInv, KeyTypes, ScanInv
<1>3. ~clash' => ~clash /\ ~Clash(down')
  BY Zenon DEF Press
<1>4. \A q \in down' \ fresh' : q \in down \ fresh
  BY <1>1
<1>5. \A q : Ahead(q) => Ahead(q)'
  BY <1>1 DEF Ahead
<1>6. Clash(down)' <=> Clash(down')
  BY DEF Clash
<1>7. HeldInv'
  BY <1>3, <1>4, <1>5, <1>6, Zenon DEF KeypadInv, HeldInv
<1> QED
  BY <1>2, <1>7 DEF KeypadInv

(* A release. *)
LEMMA ReleaseInv ==
    ASSUME KeypadInv, NEW k \in Keys, Release(k)
    PROVE  KeypadInv'
<1>1. /\ down' \subseteq down
      /\ <<high, i, j, pc, button, button_lock, fresh, clash>>' =
             <<high, i, j, pc, button, button_lock, fresh, clash>>
  BY DEF Release
<1>2. KeyTypes' /\ ScanInv'
  BY <1>1 DEF KeypadInv, KeyTypes, ScanInv
<1>3. Clash(down)' => Clash(down)
  BY <1>1 DEF Clash
<1>4. \A q \in down' \ fresh' : q \in down \ fresh
  BY <1>1
<1>5. \A q : Ahead(q) => Ahead(q)'
  BY <1>1 DEF Ahead
<1>6. clash' = clash
  BY <1>1
<1>7. HeldInv'
  BY <1>3, <1>4, <1>5, <1>6, Zenon DEF KeypadInv, HeldInv
<1> QED
  BY <1>2, <1>7 DEF KeypadInv

(* A step of the scan that returns no key: it is enough that what lies     *)
(* ahead of it still does.                                                 *)
LEMMA ScanStepInv ==
    ASSUME HeldInv, UNCHANGED <<down, fresh, clash>>,
           ~clash /\ ~Clash(down) => \A k \in down \ fresh : Ahead(k) => Ahead(k)'
    PROVE  HeldInv'
<1>1. Clash(down)' <=> Clash(down)
  BY DEF Clash
<1>2. down' = down /\ fresh' = fresh /\ clash' = clash
  OBVIOUS
<1>3. ASSUME ~clash PROVE ~Clash(down) /\ \A k \in down \ fresh : Ahead(k) /\ Ahead(k)'
  <2>1. ~Clash(down) /\ \A k \in down \ fresh : Ahead(k)
    BY <1>3, Zenon DEF HeldInv
  <2> QED
    BY <1>3, <2>1, Zenon
<1>4. ASSUME ~clash' PROVE ~Clash(down)' /\ \A k \in down' \ fresh' : Ahead(k)'
  <2>1. ~clash
    BY <1>2, <1>4
  <2> QED
    BY <1>1, <1>2, <1>3, <2>1, Zenon
<1> QED
  BY <1>4, Zenon DEF HeldInv

(* get_button_number.  The scan begins with the first row; ... *)
LEMMA BeginInv == ASSUME KeypadInv, Begin PROVE KeypadInv'
<1>1. /\ pc' = "row" /\ i' = 0 /\ high' = {}
      /\ UNCHANGED <<down, j, button_lock, fresh, clash>>
  BY DEF Begin
<1>2. KeyTypes' /\ ScanInv'
  BY <1>1, KeypadAssumption DEF KeypadInv, KeyTypes, ScanInv
<1>3. \A k \in down \ fresh : Ahead(k) => Ahead(k)'
  BY <1>1, KeypadAssumption DEF KeypadInv, KeyTypes, Keys, Ahead
<1>4. HeldInv'
  BY <1>1, <1>3, ScanStepInv DEF KeypadInv
<1> QED
  BY <1>2, <1>4 DEF KeypadInv

(* ... it drives a row, the only one that is high; ... *)
LEMMA DriveInv == ASSUME KeypadInv, Drive PROVE KeypadInv'
<1>1. /\ pc = "row" /\ i # Rows /\ high' = high \cup {i} /\ j' = 0 /\ pc' = "column"
      /\ UNCHANGED <<down, i, button_lock, fresh, clash>>
  BY DEF Drive, RowsScanned
<1>2. KeyTypes' /\ ScanInv'
  BY <1>1, KeypadAssumption DEF KeypadInv, KeyTypes, ScanInv
<1>3. \A k \in down \ fresh : Ahead(k) => Ahead(k)'
  BY <1>1, KeypadAssumption DEF KeypadInv, KeyTypes, Keys, Ahead
<1>4. HeldInv'
  BY <1>1, <1>3, ScanStepInv DEF KeypadInv
<1> QED
  BY <1>2, <1>4 DEF KeypadInv

(* ... it does not pass a key that is held; ... *)
LEMMA ReadLowInv == ASSUME KeypadInv, ReadLow PROVE KeypadInv'
<1>1. /\ pc = "column" /\ j < Cols /\ FALSE \in Levels(j) /\ j' = j + 1
      /\ UNCHANGED <<down, high, i, pc, button_lock, fresh, clash>>
  BY DEF ReadLow
<1>2. KeyTypes' /\ ScanInv'
  BY <1>1, KeypadAssumption DEF KeypadInv, KeyTypes, ScanInv
<1>3. ASSUME ~Clash(down), NEW k \in down \ fresh, Ahead(k)
      PROVE  Ahead(k)'
  <2>1. ~(k[1] = i /\ k[2] = j)
    BY <1>1, <1>3, LowColumn DEF KeypadInv
  <2> QED
    BY <1>1, <1>3, <2>1, KeypadAssumption DEF KeypadInv, KeyTypes, Keys, Ahead
<1>4. HeldInv'
  BY <1>1, <1>3, ScanStepInv DEF KeypadInv
<1> QED
  BY <1>2, <1>4 DEF KeypadInv

(* ... it makes the row low before it goes on to the next. *)
LEMMA NextRowInv == ASSUME KeypadInv, NextRow PROVE KeypadInv'
<1>1. /\ pc = "column" /\ j = Cols /\ high' = high \ {i} /\ i' = i + 1 /\ pc' = "row"
      /\ UNCHANGED <<down, j, button_lock, fresh, clash>>
  BY DEF NextRow, Leave
<1>2. KeyTypes' /\ ScanInv'
  BY <1>1, KeypadAssumption DEF KeypadInv, KeyTypes, ScanInv
<1>3. \A k \in down \ fresh : Ahead(k) => Ahead(k)'
  BY <1>1, KeypadAssumption DEF KeypadInv, KeyTypes, Keys, Ahead
<1>4. HeldInv'
  BY <1>1, <1>3, ScanStepInv DEF KeypadInv
<1> QED
  BY <1>2, <1>4 DEF KeypadInv

(* A key is returned: the lock closes and no key is fresh any more. *)
LEMMA ReportInv == ASSUME KeypadInv, Report PROVE KeypadInv'
<1>1. /\ pc' = "main" /\ fresh' = {} /\ UNCHANGED <<down, high, i, j, clash>>
  BY DEF Report, Found
<1>2. KeyTypes' /\ ScanInv'
  BY <1>1 DEF KeypadInv, KeyTypes, ScanInv
<1>3. button_lock' # NoButton
  BY ReportsKey, NumbersDiffer
<1>4. \A k : Ahead(k)'
  BY <1>1, <1>3 DEF Ahead
<1>5. ~clash' => ~Clash(down)'
  <2>1. clash' = clash /\ (Clash(down)' <=> Clash(down))
    BY <1>1 DEF Clash
  <2> QED
    BY <2>1, Zenon DEF KeypadInv, HeldInv
<1>6. HeldInv'
  BY <1>4, <1>5, Zenon DEF HeldInv
<1> QED
  BY <1>2, <1>6 DEF KeypadInv

(* A key was returned before. *)
LEMMA LockedInv == ASSUME KeypadInv, Locked PROVE KeypadInv'
<1>1. pc' = "main" /\ UNCHANGED <<down, high, i, j, button_lock, fresh, clash>>
  BY DEF Locked, Found
<1>2. KeyTypes' /\ ScanInv'
  BY <1>1 DEF KeypadInv, KeyTypes, ScanInv
<1>3. \A k \in down \ fresh : Ahead(k) => Ahead(k)'
  BY <1>1 DEF Ahead
<1>4. HeldInv'
  BY <1>1, <1>3, ScanStepInv DEF KeypadInv
<1> QED
  BY <1>2, <1>4 DEF KeypadInv

(* The lock opens only when no key is held that was down at the last       *)
(* report.                                                                 *)
LEMMA NothingFoundInv == ASSUME KeypadInv, NothingFound PROVE KeypadInv'
<1>1. /\ pc = "row" /\ i = Rows /\ pc' = "main"
      /\ UNCHANGED <<down, high, i, j, fresh, clash>>
  BY DEF NothingFound, RowsScanned
<1>2. KeyTypes' /\ ScanInv'
  BY <1>1 DEF KeypadInv, KeyTypes, ScanInv
<1>3. \A k \in down \ fresh : ~Ahead(k)
  BY <1>1, KeypadAssumption DEF KeypadInv, KeyTypes, Keys, Ahead
<1>4. HeldInv'
  BY <1>1, <1>3, ScanStepInv DEF KeypadInv
<1> QED
  BY <1>2, <1>4 DEF KeypadInv

(* A step that changes nothing. *)
LEMMA KeypadStutter == ASSUME KeypadInv, UNCHANGED keypadVars PROVE KeypadInv'
<1>1. UNCHANGED <<down, high, i, j, pc, button_lock, fresh, clash>>
  BY DEF keypadVars
<1>2. KeyTypes' /\ ScanInv'
  BY <1>1 DEF KeypadInv, KeyTypes, ScanInv
<1>3. \A k \in down \ fresh : Ahead(k) => Ahead(k)'
  BY <1>1 DEF Ahead
<1>4. HeldInv'
  BY <1>1, <1>3, ScanStepInv DEF KeypadInv
<1> QED
  BY <1>2, <1>4 DEF KeypadInv

(* The invariant of the scan, for every matrix. *)
THEOREM KeypadInvariance == KeypadSpec => []KeypadInv
<1>1. KeypadInv /\ [KeypadNext]_keypadVars => KeypadInv'
  BY PressInv, ReleaseInv, BeginInv, DriveInv, ReadLowInv, NextRowInv, ReportInv,
     LockedInv, NothingFoundInv, KeypadStutter DEF KeypadNext, get_button_number
<1> QED
  BY KeypadInitInv, <1>1, PTL DEF KeypadSpec

(* A step that returns the number of key k is the report of k. *)
LEMMA OnlyReportReturns ==
    ASSUME KeypadInv, [KeypadNext]_keypadVars, NEW k \in Keys, Reports(k)
    PROVE  Report /\ k = <<i, j>>
<1>1. button' # NoButton /\ button' # button
  BY NumbersDiffer DEF Reports
<1>2. Report
  BY <1>1 DEF KeypadNext, get_button_number, keypadVars, Press, Release, Begin, Drive,
     ReadLow, NextRow, Locked, NothingFound
<1> QED
  BY <1>2, ReportsKey, NumbersDiffer DEF Reports

(* The number that get_button_number returns is that of a key that is      *)
(* down, for every matrix and whatever fingers do during the scan: of the  *)
(* row that an earlier call left high nothing is read.                     *)
THEOREM ReturnsPressedKey == KeypadSpec => ReportedIsDown
<1>1. ASSUME KeypadInv, [KeypadNext]_keypadVars
      PROVE  [\A k \in Keys : Reports(k) => k \in down]_keypadVars
  BY <1>1, OnlyReportReturns, ReportsKey
<1> QED
  BY KeypadInvariance, <1>1, PTL DEF KeypadSpec, ReportedIsDown

(* A key is returned once per press unless two keys of a column disturbed  *)
(* the reading: while a key is held that was down at the last report, the  *)
(* lock stays closed.                                                      *)
THEOREM ReturnsOncePerPress == KeypadSpec => NoRepeat
<1>1. ASSUME KeypadInv, [KeypadNext]_keypadVars
      PROVE  [\A k \in Keys : Reports(k) /\ ~clash => k \in fresh]_keypadVars
  <2>1. ASSUME NEW k \in Keys, Reports(k), ~clash
        PROVE  k \in fresh
    <3>1. Report /\ k = <<i, j>>
      BY <1>1, <2>1, OnlyReportReturns
    <3>2. k \in down
      BY <1>1, <3>1, ReportsKey
    <3>3. button_lock = NoButton
      BY <3>1 DEF Report, Found, Free
    <3>4. \A q \in down \ fresh : button_lock # NoButton
      BY <1>1, <2>1, Zenon DEF KeypadInv, HeldInv, Ahead
    <3> QED
      BY <3>2, <3>3, <3>4
  <2> QED
    BY <2>1, Zenon
<1> QED
  BY KeypadInvariance, <1>1, PTL DEF KeypadSpec, NoRepeat

(* The values of the keypad stay in their ranges: get_button_number returns *)
(* a number of button_data or NoButton and drives no row beyond the matrix. *)
THEOREM KeypadTypes == KeypadSpec => []KeypadTypeOK
<1> DEFINE Numbers == {button_data[p] : p \in DOMAIN button_data} \cup {NoButton}
           Nums == high \subseteq 0..(Rows - 1) /\ button \in Numbers /\ button_lock \in Numbers
           Bool == clash \in BOOLEAN
<1>1. KeypadInit => Nums
  BY DEF KeypadInit
<1>2. KeypadInit => Bool
  BY DEF KeypadInit
<1>3. ASSUME KeypadInv, Nums, [KeypadNext]_keypadVars PROVE Nums'
  <2>1. CASE Report
    <3>1. j + i * Cols \in DOMAIN button_data
      <4>1. i \in Nat /\ j \in Nat /\ i < Rows /\ j < Cols
        BY <1>3, <2>1, KeypadAssumption DEF KeypadInv, KeyTypes, ScanInv, Report, Found
      <4>2. j + i * Cols \in 0..(Rows * Cols - 1)
        BY <4>1, PlaceInTable
      <4>3. DOMAIN button_data = 0..(Rows * Cols - 1)
        BY KeypadAssumption
      <4> QED
        BY <4>2, <4>3
    <3>2. Number \in Numbers
      BY <3>1 DEF Number
    <3> QED
      BY <1>3, <2>1, <3>2 DEF Report
  <2>2. CASE ~Report
    <3>1. \/ high' = high \/ high' = {} \/ high' = high \ {i}
          \/ high' = high \cup {i} /\ i # Rows
      BY <1>3, <2>2 DEF KeypadNext, get_button_number, keypadVars, Press, Release, Begin,
         Drive, ReadLow, NextRow, Leave, Locked, NothingFound, RowsScanned
    <3>3. i # Rows => i \in 0..(Rows - 1)
      BY <1>3, KeypadAssumption DEF KeypadInv, KeyTypes
    <3>5. high \subseteq 0..(Rows - 1)
      BY <1>3
    <3>4. high' \subseteq 0..(Rows - 1)
      <4>1. \A r \in high' : r \in high \/ (r = i /\ i # Rows)
        BY <3>1
      <4> QED
        BY <3>3, <3>5, <4>1
    <3>2. button' \in {button, NoButton} /\ button_lock' \in {button_lock, NoButton}
      BY <1>3, <2>2 DEF KeypadNext, get_button_number, keypadVars, Press, Release, Begin,
         Drive, ReadLow, NextRow, Locked, NothingFound, Unlock
    <3> QED
      BY <1>3, <3>2, <3>4
  <2> QED
    BY <2>1, <2>2
<1>4. ASSUME Bool, [KeypadNext]_keypadVars PROVE Bool'
  <2>1. clash' = clash \/ clash' = (clash \/ Clash(down'))
    BY <1>4, Zenon DEF KeypadNext, get_button_number, keypadVars, Press, Release, Begin, Drive,
       ReadLow, NextRow, Report, Locked, NothingFound
  <2> QED
    BY <1>4, <2>1, Zenon
<1>5. KeypadInv /\ Nums /\ Bool => KeypadTypeOK
  BY DEF KeypadInv, KeyTypes, KeypadTypeOK
<1> QED
  BY KeypadInvariance, <1>1, <1>2, <1>3, <1>4, <1>5, PTL DEF KeypadSpec
=============================================================================
