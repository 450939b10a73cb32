------------------------------- MODULE MSTest -------------------------------
(***************************************************************************)
(* The test of one meter: MS_thread_test0 (mode 0, a meter without a       *)
(* valve) and MS_thread_test1 (modes 1 and 2, a meter with one).  The      *)
(* tester writes MSID, MSV and time, turns the meter's wheel, watches the  *)
(* valve through an infrared sensor, reads everything back and stops at    *)
(* the first thing that is wrong.                                          *)
(*                                                                         *)
(* A request over the link is one step here, with what MSUart shows of it: *)
(* READ_OK means that the meter has got the request and said what main     *)
(* reads; any other verdict means nothing, the meter may have got it or    *)
(* not.  The meter is external; it has defects, a set of                   *)
(*    Forgets    acknowledges the MSID but does not keep it                *)
(*    Counts     counts the turns of its wheel wrongly                     *)
(*    Stuck      has a valve that does not move                            *)
(*    0..9       raises the alarm of that bit of the alarm word, or, for   *)
(*               bit 5 (too much gas drawn) and bit 6 (valve closed), does *)
(*               not raise it when it should.                              *)
(* Between two steps of the tester its valve may move.                     *)
(***************************************************************************)
EXTENDS Integers, Sequences, FiniteSets

CONSTANTS
    Defects,    \* the sets of defects a meter may have
    Rows,       \* the MSVs the operator may have typed
    MaxTests    \* bound: tests of one behaviour

Forgets == 10
Counts == 11
Stuck == 12
AllDefects == 0..12

ASSUME DefectsAssumption == Defects \subseteq SUBSET AllDefects
ASSUME TestAssumption == Rows \subseteq Nat /\ MaxTests \in Nat

None == "none"

(* Pulses the wheel gives in a test: low_speed or high_speed. *)
Pulses(choose) == IF choose = 0 THEN 3 ELSE 7

VARIABLES
    MS,          \* 2: settings accepted, 3: test, 4: failed, 5: passed
    choose,      \* the mode
    pc,          \* where the test is
    MS_error,
    IR_DET,      \* whether the infrared detector is switched on
    tries,       \* ms_open_valve requests of this phase, or looks for closing
    zf_list7,    \* the MSV the operator has typed
    meter,       \* external: the meter under test
    tests,       \* counter: tests so far
    badLink,     \* history: a request of this test was not READ_OK
    slow         \* history: the tester looked at a valve under way

testVars == <<MS, choose, pc, MS_error, IR_DET, tries, zf_list7>>
vars == <<testVars, meter, tests, badLink, slow>>

Positions == {"open", "closed"}
Meters == [id : BOOLEAN, msv : Nat, valve : Positions, target : Positions,
           drawn : BOOLEAN, defects : SUBSET AllDefects]

(* A meter as it is put on the tester. *)
NewMeters ==
    {[id |-> FALSE, msv |-> 99, valve |-> v, target |-> v, drawn |-> FALSE,
      defects |-> d] : v \in Positions, d \in Defects}

Init ==
    /\ MS = 2 /\ choose = 0 /\ pc = "end" /\ MS_error = None
    /\ IR_DET = FALSE /\ tries = 0 /\ zf_list7 = 0
    /\ meter \in NewMeters
    /\ tests = 0 /\ badLink = FALSE /\ slow = FALSE

-----------------------------------------------------------------------------
(* How a step of the test ends. *)

Goto(next) ==
    /\ pc' = next
    /\ UNCHANGED <<MS, choose, MS_error, zf_list7, tests>>

Fail(error) ==
    /\ MS' = 4 /\ MS_error' = error /\ pc' = "end"
    /\ UNCHANGED <<choose, zf_list7, tests>>

Pass ==
    /\ MS' = 5 /\ pc' = "end"
    /\ UNCHANGED <<choose, MS_error, zf_list7, tests>>

(* A write to the meter: my_uart_SetData or ms_open_valve, get_uart_flag.  *)
(* stored is the meter that has got it.                                    *)
Write(stored, next, error) ==
    \/ meter' = stored /\ Goto(next) /\ UNCHANGED badLink
    \/ meter' \in {meter, stored} /\ Fail(error) /\ badLink' = TRUE

(* A read: my_uart_GetData, get_uart_flag and the comparison. *)
Read(good, next, error) ==
    /\ \/ good /\ Goto(next) /\ UNCHANGED badLink
       \/ ~good /\ Fail(error) /\ UNCHANGED badLink
       \/ Fail("READ_ERROR") /\ badLink' = TRUE
    /\ UNCHANGED <<meter, IR_DET, tries, slow>>

-----------------------------------------------------------------------------
(* MS_thread_test: a new test, of the same meter or of another. *)
MS_thread_test ==
    /\ MS \in {2, 4, 5} /\ MS' = 3
    /\ tests < MaxTests /\ tests' = tests + 1
    /\ choose' \in 0..2 /\ zf_list7' \in Rows
    /\ pc' = "setId" /\ MS_error' = None /\ tries' = 0
    /\ meter' \in NewMeters \cup {meter}
    /\ badLink' = FALSE /\ slow' = FALSE
    /\ UNCHANGED IR_DET

SetId ==
    /\ pc = "setId"
    /\ Write([meter EXCEPT !.id = Forgets \notin meter.defects], "setMsv",
             "WRITE_ERROR")
    /\ UNCHANGED <<IR_DET, tries, slow>>

SetMsv ==
    /\ pc = "setMsv"
    /\ Write([meter EXCEPT !.msv = zf_list7], "setTime", "WRITE_ERROR")
    /\ UNCHANGED <<IR_DET, tries, slow>>

SetTime ==
    /\ pc = "setTime"
    /\ Write(meter, IF choose = 0 THEN "turn" ELSE "detect", "WRITE_ERROR")
    /\ UNCHANGED <<IR_DET, tries, slow>>

(* The detector is switched on before the first look at the valve. *)
Detect ==
    /\ pc = "detect" /\ Goto("look")
    /\ IR_DET' = TRUE
    /\ UNCHANGED <<tries, meter, badLink, slow>>

(* rt_pin_read(IR_LED): what the sensor says, if the detector is on. *)
Seen == IF IR_DET THEN {meter.valve} ELSE Positions

UnderWay == meter.valve # meter.target /\ Stuck \notin meter.defects

(* A look at a valve that should be open: if it is not, it is opened, at   *)
(* most twice.                                                             *)
LookAt(at, open, error, limit) ==
    /\ pc = at
    /\ slow' = (slow \/ UnderWay)
    /\ \E seen \in Seen :
          \/ /\ seen = "open"
             /\ IF at = "look" THEN Goto("turn") /\ IR_DET' = FALSE
                ELSE Pass /\ UNCHANGED IR_DET
          \/ /\ seen = "closed" /\ tries < limit
             /\ Goto(open) /\ IR_DET' = FALSE
          \/ /\ seen = "closed" /\ tries >= limit
             /\ Fail(error) /\ IR_DET' = FALSE
    /\ UNCHANGED <<tries, meter, badLink>>

Look == LookAt("look", "open", "VALVE_ERROR", 2)
LookAgain == LookAt("lookAgain", "openAgain", "VALVE_ERROR1", 2)

(* ms_open_valve, and the detector switched on for the next look. *)
Open(at, next, error, count) ==
    /\ pc = at
    /\ Write([meter EXCEPT !.target = "open"], next, error)
    /\ tries' = count
    /\ IR_DET' = (pc' # "end")
    /\ UNCHANGED slow

(* Planted defect: the requests are not counted. *)
ms_open_valve_Forever == Open("open", "look", "WRITE_ERROR2", tries)

ms_open_valve == Open("open", "look", "WRITE_ERROR2", tries + 1)
OpenAgain == Open("openAgain", "lookAgain", "WRITE_ERROR1", tries + 1)

(* low_speed or high_speed and wait_pwm_finish.  A meter with a valve      *)
(* closes it when so much gas is drawn.                                    *)
Turn ==
    /\ pc = "turn"
    /\ \E n \in IF Counts \in meter.defects THEN {0, Pulses(choose) - 1}
                ELSE {Pulses(choose)} :
          meter' = [meter EXCEPT !.msv = @ + n,
                                 !.target = IF choose = 0 THEN @ ELSE "closed",
                                 !.drawn = IF choose = 0 THEN @ ELSE TRUE]
    /\ Goto(IF choose = 0 THEN "getId" ELSE "closing")
    /\ IR_DET' = (IR_DET \/ choose # 0)
    /\ tries' = 0
    /\ UNCHANGED <<badLink, slow>>

WaitFor(polls) ==
    /\ pc = "closing"
    /\ \E seen \in Seen :
          /\ Goto(IF seen = "closed" \/ tries + 1 = polls THEN "closed"
                  ELSE "closing")
          /\ tries' = IF seen = "closed" THEN tries ELSE tries + 1
    /\ UNCHANGED <<IR_DET, meter, badLink, slow>>

(* The loop that waits up to four seconds for the valve to close. *)
WaitClosed == WaitFor(4)

(* Planted defect: the look after the loop is forgotten. *)
LookClosed_Not ==
    /\ pc = "closed" /\ Goto("getId")
    /\ IR_DET' = FALSE
    /\ UNCHANGED <<tries, meter, badLink, slow>>

(* The look after the loop, which decides. *)
LookClosed ==
    /\ pc = "closed"
    /\ slow' = (slow \/ UnderWay)
    /\ \E seen \in Seen : IF seen = "closed" THEN Goto("getId")
                          ELSE Fail("VALVE_ERROR")
    /\ IR_DET' = FALSE
    /\ UNCHANGED <<tries, meter, badLink>>

GetId ==
    /\ pc = "getId"
    /\ Read(meter.id, "getMsv", "MSID_ERROR")

GetMsv_Unchecked ==                 \* planted defect: any value is taken
    pc = "getMsv" /\ Read(TRUE, "getAlarms", "MSV_ERROR")
GetMsv ==
    /\ pc = "getMsv"
    /\ Read(meter.msv = Pulses(choose), "getAlarms", "MSV_ERROR")

(* The alarm word of the meter, as the set of its bits (external). *)
AlarmWord ==
    {b \in 0..9 : CASE b = 5 -> meter.drawn /\ 5 \notin meter.defects
                    [] b = 6 -> meter.valve = "closed" /\ 6 \notin meter.defects
                    [] OTHER -> b \in meter.defects}

(* What is tested of it, in order: the bit, whether it is an error that it *)
(* is set or that it is not, and the error.                                *)
AlarmTests ==
    IF choose = 0
    THEN << <<1, TRUE, "MSV_INTERFERENCE">>, <<0, TRUE, "LOW_POWER">> >>
    ELSE << <<1, TRUE, "TAMPER">>, <<0, TRUE, "LOW_POWER">>,
            <<2, TRUE, "CRITICAL_LOW_BATTERY">>,
            <<6, FALSE, "VALVE_STATUS_ERROR">>, <<5, FALSE, "CRITICAL_ESCAPE">>,
            <<4, TRUE, "MINOR_ESCAPE_ERROR">>, <<3, TRUE, "INSPECT_ERROR">>,
            <<7, TRUE, "VALVE_CONNECTION_ERROR">>,
            <<8, TRUE, "VALVE_ERROR_ALARM">>,
            <<9, TRUE, "VALVE_TIGHTNESS_ERROR">> >>

Wrong(word, test) == test[2] <=> test[1] \in word

GetAlarms ==
    /\ pc = "getAlarms"
    /\ LET wrong == {i \in DOMAIN AlarmTests : Wrong(AlarmWord, AlarmTests[i])}
       IN  \/ wrong = {} /\ Read(TRUE, "clearMsv", None)
           \/ \E i \in wrong :
                 /\ \A j \in wrong : i <= j
                 /\ Read(FALSE, "clearMsv", AlarmTests[i][3])

(* Planted defect: a write that fails does not stop the test. *)
ClearMsv_Unchecked ==
    /\ pc = "clearMsv"
    /\ meter' \in {meter, [meter EXCEPT !.msv = zf_list7]} /\ UNCHANGED badLink
    /\ IF choose = 0 THEN Pass ELSE Goto("openAgain")
    /\ tries' = 0
    /\ UNCHANGED <<IR_DET, slow>>

(* The MSV is written again; this ends the test of a meter without valve. *)
ClearMsv ==
    /\ pc = "clearMsv"
    /\ LET stored == [meter EXCEPT !.msv = zf_list7]
       IN  \/ meter' = stored /\ UNCHANGED badLink
              /\ IF choose = 0 THEN Pass ELSE Goto("openAgain")
           \/ meter' \in {meter, stored} /\ badLink' = TRUE
              /\ Fail("WRITE_ERROR1")
    /\ tries' = 0
    /\ UNCHANGED <<IR_DET, slow>>

(* The valve of the meter reaches the position it is told (external). *)
MoveValve ==
    /\ UnderWay
    /\ meter' = [meter EXCEPT !.valve = meter.target]
    /\ UNCHANGED <<testVars, tests, badLink, slow>>

MS_thread_test0 == SetId \/ SetMsv \/ SetTime \/ Turn \/ GetId \/ GetMsv
                     \/ GetAlarms \/ ClearMsv
MS_thread_test1 == Detect \/ Look \/ ms_open_valve \/ WaitClosed \/ LookClosed
                     \/ OpenAgain \/ LookAgain

Next == MS_thread_test \/ MS_thread_test0 \/ MS_thread_test1 \/ MoveValve

Spec == Init /\ [][Next]_vars

(* main goes on with a test it has begun: every wait in it ends. *)
FairSpec == Spec /\ WF_vars(MS_thread_test0 \/ MS_thread_test1)

-----------------------------------------------------------------------------
(* Properties *)

(* Type invariant of the test: where it is ... *)
CtlOK ==
    /\ MS \in 2..5
    /\ choose \in 0..2
    /\ pc \in {"end", "setId", "setMsv", "setTime", "detect", "look", "open",
               "turn", "closing", "closed", "getId", "getMsv", "getAlarms",
               "clearMsv", "openAgain", "lookAgain"}
    /\ MS = 3 <=> pc # "end"
    /\ MS_error = None <=> MS # 4

(* ... and the rest. *)
DataOK ==
    /\ IR_DET \in BOOLEAN
    /\ tries \in 0..4
    /\ zf_list7 \in Nat
    /\ meter \in Meters
    /\ tests \in 0..MaxTests
    /\ badLink \in BOOLEAN /\ slow \in BOOLEAN

(* Type invariant of the test. *)
TypeOK == CtlOK /\ DataOK

(* The defects that a test is there to find. *)
Tested == IF choose = 0 THEN {Forgets, Counts, 0, 1} ELSE AllDefects

(* No meter passes with a defect its test is there to find, whichever      *)
(* requests get lost, however often it was tested before, and whenever its *)
(* valve moves.  (If the operator has typed an MSV other than 0, a wheel   *)
(* that is counted wrongly may go unnoticed.)                              *)
FaultyMeterFails ==
    MS = 5 => meter.defects \cap Tested \subseteq
                  IF zf_list7 = 0 THEN {} ELSE {Counts}

(* A meter that passes has the MSID, the MSV on the panel and, if it has   *)
(* one, an open valve.                                                     *)
PassedMeter ==
    MS = 5 => /\ meter.id
              /\ meter.msv = zf_list7
              /\ choose # 0 => meter.valve = "open"

(* A meter that fails fails for a reason, and the error that is shown and  *)
(* filed names it: a request that was not answered well, a defect, an MSV  *)
(* other than 0, or a valve that was looked at too early.                  *)
ErrorNamesCause ==
    MS = 4 =>
        \/ /\ MS_error \in {"WRITE_ERROR", "WRITE_ERROR1", "WRITE_ERROR2",
                            "READ_ERROR"}
           /\ badLink
        \/ MS_error = "MSID_ERROR" /\ Forgets \in meter.defects
        \/ /\ MS_error = "MSV_ERROR"
           /\ Counts \in meter.defects \/ zf_list7 # 0
        \/ /\ MS_error \in {"VALVE_ERROR", "VALVE_ERROR1"}
           /\ Stuck \in meter.defects \/ slow
        \/ \E i \in DOMAIN AlarmTests :
              /\ MS_error = AlarmTests[i][3]
              /\ AlarmTests[i][1] \in meter.defects

(* Every test ends, with a valve that never moves and a link that never    *)
(* answers, too.                                                           *)
TestEnds == MS = 3 ~> MS # 3
=============================================================================
