---------------------------- MODULE MSTestProofs ----------------------------
(***************************************************************************)
(* Proofs about the test procedure: a meter passes only if it was written, *)
(* counted, closed and opened its valve as it should.  The invariant says  *)
(* what has been established of the meter when the test stands at pc.      *)
(***************************************************************************)
EXTENDS MSTest, TLAPS

(* From getMsv on the MSID has been read back, from getAlarms on the MSV,  *)
(* from clearMsv on the alarms.                                            *)
AfterGetAlarms == pc \in {"clearMsv", "openAgain", "lookAgain"} \/ MS = 5
AfterGetMsv == pc = "getAlarms" \/ AfterGetAlarms
AfterGetId == pc = "getMsv" \/ AfterGetMsv

(* A meter that has the MSID does not forget it, and has it once it was    *)
(* read back.                                                              *)
IdKept == (meter.id => Forgets \notin meter.defects) /\ (AfterGetId => meter.id)

(* Until the wheel turns the MSV is the one written; from then on a wrong  *)
(* count shows if 0 was written, until it is compared.                     *)
MsvKept ==
    /\ pc \in {"setTime", "detect", "look", "open", "turn"} =>
          meter.msv = zf_list7
    /\ pc \in {"closing", "closed", "getId", "getMsv"} /\ zf_list7 = 0
          /\ Counts \in meter.defects => meter.msv # Pulses(choose)
    /\ AfterGetMsv /\ zf_list7 = 0 => Counts \notin meter.defects
    /\ pc \in {"openAgain", "lookAgain"} \/ MS = 5 => meter.msv = zf_list7

(* The alarms that have been looked at are not defects of the meter. *)
AlarmsKept ==
    AfterGetAlarms =>
        \A b \in 0..9 : b < 2 \/ choose # 0 => b \notin meter.defects

(* The valve was closed when the alarms were read; if it can be seen open  *)
(* after that, it is not stuck, and it has been told to stay open.         *)
ValveKept ==
    /\ pc \in {"detect", "look", "open", "closing", "closed", "openAgain",
               "lookAgain"} => choose # 0
    /\ choose # 0 /\ Stuck \in meter.defects
         /\ pc \in {"getId", "getMsv", "getAlarms", "clearMsv", "openAgain",
                    "lookAgain"} => meter.valve = "closed"
    /\ pc = "lookAgain" => meter.target = "open"
    /\ choose # 0 /\ MS = 5 =>
          /\ meter.valve = "open" /\ meter.target = "open"
          /\ Stuck \notin meter.defects

(* The detector is on whenever the tester looks at the valve. *)
DetectorOn == pc \in {"look", "closing", "closed", "lookAgain"} => IR_DET

(* What bounds the loops of the test. *)
TriesKept ==
    /\ pc \in {"open", "openAgain"} => tries < 2
    /\ pc = "closing" => tries < 4

TestInv == /\ TypeOK /\ IdKept /\ MsvKept /\ AlarmsKept /\ ValveKept
           /\ DetectorOn /\ TriesKept

-----------------------------------------------------------------------------
(* A meter as it is put on the tester has its type and no MSID. *)
LEMMA NewMeterType == \A m \in NewMeters : m \in Meters /\ ~m.id
<1> SUFFICES ASSUME NEW v \in Positions, NEW d \in Defects
             PROVE  LET m == [id |-> FALSE, msv |-> 99, valve |-> v, target |-> v,
                              drawn |-> FALSE, defects |-> d]
                    IN  m \in Meters /\ ~m.id
  BY DEF NewMeters
<1> QED
  BY DefectsAssumption DEF Meters, Positions

(* The invariant holds before the first test. *)
LEMMA TestInit == Init => TestInv
<1> SUFFICES ASSUME Init PROVE TestInv
  OBVIOUS
<1>1. meter \in Meters
  BY NewMeterType DEF Init
<1>2. ~meter.id
  BY NewMeterType DEF Init
<1>3. CtlOK
  BY DEF Init, CtlOK, None
<1>4. tests \in 0..MaxTests
  BY TestAssumption DEF Init
<1>a. IR_DET \in BOOLEAN /\ badLink \in BOOLEAN /\ slow \in BOOLEAN
  BY DEF Init
<1>b. tries \in 0..4 /\ zf_list7 \in Nat
  BY DEF Init
<1>5. DataOK
  BY <1>1, <1>4, <1>a, <1>b DEF DataOK
<1>6. IdKept /\ MsvKept /\ AlarmsKept /\ ValveKept /\ DetectorOn /\ TriesKept
  BY <1>2 DEF Init, IdKept, MsvKept, AlarmsKept, ValveKept,
     DetectorOn, TriesKept, AfterGetId, AfterGetMsv, AfterGetAlarms
<1> QED
  BY <1>3, <1>5, <1>6 DEF TestInv, TypeOK

(* It holds when a test begins, of a new meter or of the old one. *)
LEMMA StartInv == TestInv /\ MS_thread_test => TestInv'
<1> SUFFICES ASSUME TestInv, MS_thread_test PROVE TestInv'
  OBVIOUS
<1>1. meter' \in Meters
  BY NewMeterType DEF MS_thread_test, TestInv, TypeOK, DataOK
<1>2. meter'.id => Forgets \notin meter'.defects
  BY NewMeterType DEF MS_thread_test, TestInv, IdKept
<1>3. CtlOK'
  BY DEF MS_thread_test, TestInv, TypeOK, CtlOK, None
<1>4. tests' \in 0..MaxTests
  BY TestAssumption DEF MS_thread_test, TestInv, TypeOK, DataOK
<1>5. zf_list7' \in Nat
  BY TestAssumption DEF MS_thread_test
<1>a. (IR_DET \in BOOLEAN /\ badLink \in BOOLEAN /\ slow \in BOOLEAN)'
  BY DEF MS_thread_test, TestInv, TypeOK, DataOK
<1>b. tries' \in 0..4
  BY DEF MS_thread_test
<1>6. DataOK'
  BY <1>1, <1>4, <1>5, <1>a, <1>b DEF DataOK
<1>7. (IdKept /\ MsvKept /\ AlarmsKept /\ ValveKept /\ DetectorOn /\ TriesKept)'
  BY <1>2 DEF MS_thread_test, IdKept, MsvKept, AlarmsKept, ValveKept,
     DetectorOn, TriesKept, AfterGetId, AfterGetMsv, AfterGetAlarms
<1> QED
  BY <1>3, <1>6, <1>7 DEF TestInv, TypeOK

(* The MSID is written: a meter that has it afterwards keeps it. *)
LEMMA SetIdInv == TestInv /\ SetId => TestInv'
<1> SUFFICES ASSUME TestInv, SetId PROVE TestInv'
  OBVIOUS
<1> USE DEF SetId, Write, Goto, Fail, TestInv, TypeOK
<1>1. /\ meter' \in Meters /\ meter'.defects = meter.defects
      /\ meter'.id => meter.id \/ Forgets \notin meter.defects
  BY DEF DataOK, Meters
<1>2. CtlOK'
  BY DEF CtlOK, None
<1>3. DataOK'
  <2>1. tries' \in 0..4 /\ zf_list7' \in Nat /\ tests' \in 0..MaxTests
    BY DEF DataOK, TriesKept
  <2>2. (IR_DET \in BOOLEAN /\ badLink \in BOOLEAN /\ slow \in BOOLEAN)'
    BY DEF DataOK
  <2> QED
    BY <1>1, <2>1, <2>2 DEF DataOK
<1>4. IdKept'
  BY <1>1 DEF IdKept, AfterGetId, AfterGetMsv, AfterGetAlarms, CtlOK
<1>5. MsvKept'
  BY <1>1 DEF MsvKept, AfterGetMsv, AfterGetAlarms, CtlOK
<1>6. AlarmsKept'
  BY <1>1 DEF AlarmsKept, AfterGetAlarms, CtlOK
<1>7. ValveKept'
  BY <1>1 DEF ValveKept, DetectorOn, CtlOK
<1>8. TriesKept'
  BY DEF TriesKept, DataOK
<1>9. DetectorOn'
  BY DEF DetectorOn
<1> QED
  BY <1>2, <1>3, <1>4, <1>5, <1>6, <1>7, <1>8, <1>9

(* The MSV is written. *)
LEMMA SetMsvInv == TestInv /\ SetMsv => TestInv'
<1> SUFFICES ASSUME TestInv, SetMsv PROVE TestInv'
  OBVIOUS
<1> USE DEF SetMsv, Write, Goto, Fail, TestInv, TypeOK
<1>1. /\ meter' \in Meters /\ meter'.defects = meter.defects
      /\ meter'.id = meter.id
      /\ pc' # "end" => meter'.msv = zf_list7
  BY DEF DataOK, Meters
<1>2. CtlOK'
  BY DEF CtlOK, None
<1>3. DataOK'
  <2>1. tries' \in 0..4 /\ zf_list7' \in Nat /\ tests' \in 0..MaxTests
    BY DEF DataOK, TriesKept
  <2>2. (IR_DET \in BOOLEAN /\ badLink \in BOOLEAN /\ slow \in BOOLEAN)'
    BY DEF DataOK
  <2> QED
    BY <1>1, <2>1, <2>2 DEF DataOK
<1>4. IdKept'
  BY <1>1 DEF IdKept, AfterGetId, AfterGetMsv, AfterGetAlarms, CtlOK
<1>5. MsvKept'
  BY <1>1 DEF MsvKept, AfterGetMsv, AfterGetAlarms, CtlOK
<1>6. AlarmsKept'
  BY <1>1 DEF AlarmsKept, AfterGetAlarms, CtlOK
<1>7. ValveKept'
  BY <1>1 DEF ValveKept, DetectorOn, CtlOK
<1>8. TriesKept'
  BY DEF TriesKept, DataOK
<1>9. DetectorOn'
  BY DEF DetectorOn
<1> QED
  BY <1>2, <1>3, <1>4, <1>5, <1>6, <1>7, <1>8, <1>9

(* The time is written. *)
LEMMA SetTimeInv == TestInv /\ SetTime => TestInv'
<1> SUFFICES ASSUME TestInv, SetTime PROVE TestInv'
  OBVIOUS
<1> USE DEF SetTime, Write, Goto, Fail, TestInv, TypeOK
<1>1. meter' = meter /\ meter' \in Meters
  BY DEF DataOK
<1>2. CtlOK'
  BY DEF CtlOK, None
<1>3. DataOK'
  <2>1. tries' \in 0..4 /\ zf_list7' \in Nat /\ tests' \in 0..MaxTests
    BY DEF DataOK, TriesKept
  <2>2. (IR_DET \in BOOLEAN /\ badLink \in BOOLEAN /\ slow \in BOOLEAN)'
    BY DEF DataOK
  <2> QED
    BY <1>1, <2>1, <2>2 DEF DataOK
<1>4. IdKept'
  BY <1>1 DEF IdKept, AfterGetId, AfterGetMsv, AfterGetAlarms, CtlOK
<1>5. MsvKept'
  BY <1>1 DEF MsvKept, AfterGetMsv, AfterGetAlarms, CtlOK
<1>6. AlarmsKept'
  BY <1>1 DEF AlarmsKept, AfterGetAlarms, CtlOK
<1>7. ValveKept'
  BY <1>1 DEF ValveKept, DetectorOn, CtlOK
<1>8. TriesKept'
  BY DEF TriesKept, DataOK
<1>9. DetectorOn'
  BY DEF DetectorOn
<1> QED
  BY <1>2, <1>3, <1>4, <1>5, <1>6, <1>7, <1>8, <1>9

(* The detector is switched on. *)
LEMMA DetectInv == TestInv /\ Detect => TestInv'
<1> SUFFICES ASSUME TestInv, Detect PROVE TestInv'
  OBVIOUS
<1> USE DEF Detect, Goto, TestInv, TypeOK
<1>1. meter' = meter /\ meter' \in Meters
  BY DEF DataOK
<1>2. CtlOK'
  BY DEF CtlOK, None
<1>3. DataOK'
  <2>1. tries' \in 0..4 /\ zf_list7' \in Nat /\ tests' \in 0..MaxTests
    BY DEF DataOK, TriesKept
  <2>2. (IR_DET \in BOOLEAN /\ badLink \in BOOLEAN /\ slow \in BOOLEAN)'
    BY DEF DataOK
  <2> QED
    BY <1>1, <2>1, <2>2 DEF DataOK
<1>4. IdKept'
  BY <1>1 DEF IdKept, AfterGetId, AfterGetMsv, AfterGetAlarms, CtlOK
<1>5. MsvKept'
  BY <1>1 DEF MsvKept, AfterGetMsv, AfterGetAlarms, CtlOK
<1>6. AlarmsKept'
  BY <1>1 DEF AlarmsKept, AfterGetAlarms, CtlOK
<1>7. ValveKept'
  BY <1>1 DEF ValveKept, DetectorOn, CtlOK
<1>8. TriesKept'
  BY DEF TriesKept, DataOK
<1>9. DetectorOn'
  BY DEF DetectorOn
<1> QED
  BY <1>2, <1>3, <1>4, <1>5, <1>6, <1>7, <1>8, <1>9

(* The first looks at the valve. *)
LEMMA LookInv == TestInv /\ Look => TestInv'
<1> SUFFICES ASSUME TestInv, Look PROVE TestInv'
  OBVIOUS
<1> USE DEF Look, LookAt, Goto, Fail, Pass, Seen, TestInv, TypeOK
<1>1. meter' = meter /\ meter' \in Meters
  BY DEF DataOK
<1>2. CtlOK'
  BY DEF CtlOK, None
<1>3. DataOK'
  <2>1. tries' \in 0..4 /\ zf_list7' \in Nat /\ tests' \in 0..MaxTests
    BY DEF DataOK, TriesKept
  <2>2. (IR_DET \in BOOLEAN /\ badLink \in BOOLEAN /\ slow \in BOOLEAN)'
    BY DEF DataOK
  <2> QED
    BY <1>1, <2>1, <2>2 DEF DataOK
<1>4. IdKept'
  BY <1>1 DEF IdKept, AfterGetId, AfterGetMsv, AfterGetAlarms, CtlOK
<1>5. MsvKept'
  BY <1>1 DEF MsvKept, AfterGetMsv, AfterGetAlarms, CtlOK
<1>6. AlarmsKept'
  BY <1>1 DEF AlarmsKept, AfterGetAlarms, CtlOK
<1>7. ValveKept'
  BY <1>1 DEF ValveKept, DetectorOn, CtlOK
<1>8. TriesKept'
  BY DEF TriesKept, DataOK
<1>9. DetectorOn'
  BY DEF DetectorOn
<1> QED
  BY <1>2, <1>3, <1>4, <1>5, <1>6, <1>7, <1>8, <1>9

(* The valve is told to open, at most twice. *)
LEMMA OpenInv == TestInv /\ ms_open_valve => TestInv'
<1> SUFFICES ASSUME TestInv, ms_open_valve PROVE TestInv'
  OBVIOUS
<1> USE DEF ms_open_valve, Open, Write, Goto, Fail, TestInv, TypeOK
<1>1. /\ meter' \in Meters /\ meter'.defects = meter.defects
      /\ meter'.id = meter.id /\ meter'.msv = meter.msv
      /\ meter'.valve = meter.valve
  BY DEF DataOK, Meters, Positions
<1>2. CtlOK'
  BY DEF CtlOK, None
<1>3. DataOK'
  <2>1. tries' \in 0..4 /\ zf_list7' \in Nat /\ tests' \in 0..MaxTests
    BY DEF DataOK, TriesKept
  <2>2. (IR_DET \in BOOLEAN /\ badLink \in BOOLEAN /\ slow \in BOOLEAN)'
    BY DEF DataOK
  <2> QED
    BY <1>1, <2>1, <2>2 DEF DataOK
<1>4. IdKept'
  BY <1>1 DEF IdKept, AfterGetId, AfterGetMsv, AfterGetAlarms, CtlOK
<1>5. MsvKept'
  BY <1>1 DEF MsvKept, AfterGetMsv, AfterGetAlarms, CtlOK
<1>6. AlarmsKept'
  BY <1>1 DEF AlarmsKept, AfterGetAlarms, CtlOK
<1>7. ValveKept'
  BY <1>1 DEF ValveKept, DetectorOn, CtlOK
<1>8. TriesKept'
  BY DEF TriesKept, DataOK
<1>9. DetectorOn'
  BY DEF DetectorOn
<1> QED
  BY <1>2, <1>3, <1>4, <1>5, <1>6, <1>7, <1>8, <1>9

(* The wheel turns; a wrong count shows in an MSV that began at 0. *)
LEMMA TurnInv == TestInv /\ Turn => TestInv'
<1> SUFFICES ASSUME TestInv, Turn PROVE TestInv'
  OBVIOUS
<1> USE DEF Turn, Goto, TestInv, TypeOK
<1>a. Pulses(choose) \in Nat /\ Pulses(choose) - 1 \in Nat /\ Pulses(choose) # 0
  BY DEF Pulses
<1>b. PICK n \in Nat :
        /\ meter' = [meter EXCEPT !.msv = @ + n,
                                 !.target = IF choose = 0 THEN @ ELSE "closed",
                                 !.drawn = IF choose = 0 THEN @ ELSE TRUE]
        /\ Counts \in meter.defects => n # Pulses(choose)
  <2>1. CASE Counts \in meter.defects
    <3> DEFINE k == Pulses(choose)
    <3>1. PICK n \in {0, k - 1} :
             meter' = [meter EXCEPT !.msv = @ + n,
                                 !.target = IF choose = 0 THEN @ ELSE "closed",
                                 !.drawn = IF choose = 0 THEN @ ELSE TRUE]
      BY <2>1
    <3>2. n \in Nat /\ n # k
      BY <1>a
    <3> QED
      BY <3>1, <3>2
  <2>2. CASE Counts \notin meter.defects
    BY <1>a, <2>2
  <2> QED
    BY <2>1, <2>2
<1>1. /\ meter' \in Meters /\ meter'.defects = meter.defects
      /\ meter'.id = meter.id
      /\ zf_list7 = 0 /\ Counts \in meter.defects => meter'.msv # Pulses(choose)
  <2>1. /\ meter'.defects = meter.defects /\ meter'.id = meter.id
        /\ meter'.msv = meter.msv + n
    BY <1>b DEF DataOK, Meters
  <2>2. meter' \in Meters
    <3>1. meter.msv + n \in Nat
      BY DEF DataOK, Meters
    <3>2. CASE choose = 0
      BY <1>b, <3>1, <3>2 DEF DataOK, Meters
    <3>3. CASE choose # 0
      BY <1>b, <3>1, <3>3 DEF DataOK, Meters, Positions
    <3> QED
      BY <3>2, <3>3
  <2>3. meter.msv = zf_list7
    BY DEF MsvKept
  <2> QED
    BY <1>b, <2>1, <2>2, <2>3
<1>2. CtlOK'
  BY DEF CtlOK, None
<1>3. DataOK'
  <2>1. tries' \in 0..4 /\ zf_list7' \in Nat /\ tests' \in 0..MaxTests
    BY DEF DataOK, TriesKept
  <2>2. (IR_DET \in BOOLEAN /\ badLink \in BOOLEAN /\ slow \in BOOLEAN)'
    BY DEF DataOK
  <2> QED
    BY <1>1, <2>1, <2>2 DEF DataOK
<1>4. IdKept'
  BY <1>1 DEF IdKept, AfterGetId, AfterGetMsv, AfterGetAlarms, CtlOK
<1>5. MsvKept'
  BY <1>1 DEF MsvKept, AfterGetMsv, AfterGetAlarms, CtlOK
<1>6. AlarmsKept'
  BY <1>1 DEF AlarmsKept, AfterGetAlarms, CtlOK
<1>7. ValveKept'
  BY <1>1 DEF ValveKept, DetectorOn, CtlOK
<1>8. TriesKept'
  BY DEF TriesKept, DataOK
<1>9. DetectorOn'
  BY DEF DetectorOn
<1> QED
  BY <1>2, <1>3, <1>4, <1>5, <1>6, <1>7, <1>8, <1>9

(* The wait for the valve to close. *)
LEMMA WaitInv == TestInv /\ WaitClosed => TestInv'
<1> SUFFICES ASSUME TestInv, WaitClosed PROVE TestInv'
  OBVIOUS
<1> USE DEF WaitClosed, WaitFor, Goto, Seen, TestInv, TypeOK
<1>1. meter' = meter /\ meter' \in Meters
  BY DEF DataOK
<1>2. CtlOK'
  BY DEF CtlOK, None
<1>3. DataOK'
  <2>1. tries' \in 0..4 /\ zf_list7' \in Nat /\ tests' \in 0..MaxTests
    BY DEF DataOK, TriesKept
  <2>2. (IR_DET \in BOOLEAN /\ badLink \in BOOLEAN /\ slow \in BOOLEAN)'
    BY DEF DataOK
  <2> QED
    BY <1>1, <2>1, <2>2 DEF DataOK
<1>4. IdKept'
  BY <1>1 DEF IdKept, AfterGetId, AfterGetMsv, AfterGetAlarms, CtlOK
<1>5. MsvKept'
  BY <1>1 DEF MsvKept, AfterGetMsv, AfterGetAlarms, CtlOK
<1>6. AlarmsKept'
  BY <1>1 DEF AlarmsKept, AfterGetAlarms, CtlOK
<1>7. ValveKept'
  BY <1>1 DEF ValveKept, DetectorOn, CtlOK
<1>8. TriesKept'
  BY DEF TriesKept, DataOK
<1>9. DetectorOn'
  BY DEF DetectorOn
<1> QED
  BY <1>2, <1>3, <1>4, <1>5, <1>6, <1>7, <1>8, <1>9

(* The look that decides: a valve that is stuck is closed from here on. *)
LEMMA LookClosedInv == TestInv /\ LookClosed => TestInv'
<1> SUFFICES ASSUME TestInv, LookClosed PROVE TestInv'
  OBVIOUS
<1> USE DEF LookClosed, Goto, Fail, Seen, TestInv, TypeOK
<1>1. meter' = meter /\ meter' \in Meters
  BY DEF DataOK
<1>2. CtlOK'
  BY DEF CtlOK, None
<1>3. DataOK'
  <2>1. tries' \in 0..4 /\ zf_list7' \in Nat /\ tests' \in 0..MaxTests
    BY DEF DataOK, TriesKept
  <2>2. (IR_DET \in BOOLEAN /\ badLink \in BOOLEAN /\ slow \in BOOLEAN)'
    BY DEF DataOK
  <2> QED
    BY <1>1, <2>1, <2>2 DEF DataOK
<1>4. IdKept'
  BY <1>1 DEF IdKept, AfterGetId, AfterGetMsv, AfterGetAlarms, CtlOK
<1>5. MsvKept'
  BY <1>1 DEF MsvKept, AfterGetMsv, AfterGetAlarms, CtlOK
<1>6. AlarmsKept'
  BY <1>1 DEF AlarmsKept, AfterGetAlarms, CtlOK
<1>7. ValveKept'
  BY <1>1 DEF ValveKept, DetectorOn, CtlOK
<1>8. TriesKept'
  BY DEF TriesKept, DataOK
<1>9. DetectorOn'
  BY DEF DetectorOn
<1> QED
  BY <1>2, <1>3, <1>4, <1>5, <1>6, <1>7, <1>8, <1>9

(* The MSID is read back. *)
LEMMA GetIdInv == TestInv /\ GetId => TestInv'
<1> SUFFICES ASSUME TestInv, GetId PROVE TestInv'
  OBVIOUS
<1> USE DEF GetId, Read, Goto, Fail, TestInv, TypeOK
<1>1. meter' = meter /\ meter' \in Meters
  BY DEF DataOK
<1>2. CtlOK'
  BY DEF CtlOK, None
<1>3. DataOK'
  <2>1. tries' \in 0..4 /\ zf_list7' \in Nat /\ tests' \in 0..MaxTests
    BY DEF DataOK, TriesKept
  <2>2. (IR_DET \in BOOLEAN /\ badLink \in BOOLEAN /\ slow \in BOOLEAN)'
    BY DEF DataOK
  <2> QED
    BY <1>1, <2>1, <2>2 DEF DataOK
<1>4. IdKept'
  BY <1>1 DEF IdKept, AfterGetId, AfterGetMsv, AfterGetAlarms, CtlOK
<1>5. MsvKept'
  BY <1>1 DEF MsvKept, AfterGetMsv, AfterGetAlarms, CtlOK
<1>6. AlarmsKept'
  BY <1>1 DEF AlarmsKept, AfterGetAlarms, CtlOK
<1>7. ValveKept'
  BY <1>1 DEF ValveKept, DetectorOn, CtlOK
<1>8. TriesKept'
  BY DEF TriesKept, DataOK
<1>9. DetectorOn'
  BY DEF DetectorOn
<1> QED
  BY <1>2, <1>3, <1>4, <1>5, <1>6, <1>7, <1>8, <1>9

(* The MSV is read back. *)
LEMMA GetMsvInv == TestInv /\ GetMsv => TestInv'
<1> SUFFICES ASSUME TestInv, GetMsv PROVE TestInv'
  OBVIOUS
<1> USE DEF GetMsv, Read, Goto, Fail, TestInv, TypeOK
<1>1. meter' = meter /\ meter' \in Meters
  BY DEF DataOK
<1>2. CtlOK'
  BY DEF CtlOK, None
<1>3. DataOK'
  <2>1. tries' \in 0..4 /\ zf_list7' \in Nat /\ tests' \in 0..MaxTests
    BY DEF DataOK, TriesKept
  <2>2. (IR_DET \in BOOLEAN /\ badLink \in BOOLEAN /\ slow \in BOOLEAN)'
    BY DEF DataOK
  <2> QED
    BY <1>1, <2>1, <2>2 DEF DataOK
<1>4. IdKept'
  BY <1>1 DEF IdKept, AfterGetId, AfterGetMsv, AfterGetAlarms, CtlOK
<1>5. MsvKept'
  BY <1>1 DEF MsvKept, AfterGetMsv, AfterGetAlarms, CtlOK
<1>6. AlarmsKept'
  BY <1>1 DEF AlarmsKept, AfterGetAlarms, CtlOK
<1>7. ValveKept'
  BY <1>1 DEF ValveKept, DetectorOn, CtlOK
<1>8. TriesKept'
  BY DEF TriesKept, DataOK
<1>9. DetectorOn'
  BY DEF DetectorOn
<1> QED
  BY <1>2, <1>3, <1>4, <1>5, <1>6, <1>7, <1>8, <1>9

(* The errors of the alarms are errors. *)
LEMMA AlarmError == \A i \in DOMAIN AlarmTests : AlarmTests[i][3] # None
<1>1. CASE choose = 0
  BY <1>1 DEF AlarmTests, None
<1>2. CASE choose # 0
  BY <1>2 DEF AlarmTests, None
<1> QED
  BY <1>1, <1>2

(* A meter in whose alarm word nothing is wrong has none of the defects    *)
(* that the word shows.                                                    *)
LEMMA NothingWrong ==
    ASSUME \A i \in DOMAIN AlarmTests : ~Wrong(AlarmWord, AlarmTests[i])
    PROVE  \A b \in 0..9 : b < 2 \/ choose # 0 => b \notin meter.defects
<1>1. CASE choose = 0
  <2>1. 1 \in DOMAIN AlarmTests /\ AlarmTests[1][1] = 1 /\ AlarmTests[1][2] = TRUE
    BY <1>1 DEF AlarmTests
  <2>2. 2 \in DOMAIN AlarmTests /\ AlarmTests[2][1] = 0 /\ AlarmTests[2][2] = TRUE
    BY <1>1 DEF AlarmTests
  <2>3. 0 \notin AlarmWord /\ 1 \notin AlarmWord
    BY <2>1, <2>2 DEF Wrong
  <2> QED
    BY <1>1, <2>3 DEF AlarmWord
<1>2. CASE choose # 0
  <2>1. /\ DOMAIN AlarmTests = 1..10
        /\ AlarmTests[1][1] = 1 /\ AlarmTests[1][2] = TRUE
        /\ AlarmTests[2][1] = 0 /\ AlarmTests[2][2] = TRUE
        /\ AlarmTests[3][1] = 2 /\ AlarmTests[3][2] = TRUE
        /\ AlarmTests[4][1] = 6 /\ AlarmTests[4][2] = FALSE
        /\ AlarmTests[5][1] = 5 /\ AlarmTests[5][2] = FALSE
    BY <1>2 DEF AlarmTests
  <2>2. /\ AlarmTests[6][1] = 4 /\ AlarmTests[6][2] = TRUE
        /\ AlarmTests[7][1] = 3 /\ AlarmTests[7][2] = TRUE
        /\ AlarmTests[8][1] = 7 /\ AlarmTests[8][2] = TRUE
        /\ AlarmTests[9][1] = 8 /\ AlarmTests[9][2] = TRUE
        /\ AlarmTests[10][1] = 9 /\ AlarmTests[10][2] = TRUE
    BY <1>2 DEF AlarmTests
  <2> DEFINE Right(i) == ~Wrong(AlarmWord, AlarmTests[i])
  <2>3. /\ Right(1) /\ Right(2) /\ Right(3) /\ Right(4) /\ Right(5)
        /\ Right(6) /\ Right(7) /\ Right(8) /\ Right(9) /\ Right(10)
    <3>1. \A i \in 1..10 : Right(i)
      BY <2>1
    <3> HIDE DEF Right
    <3> QED
      BY <3>1
  <2>4. 5 \in AlarmWord /\ 6 \in AlarmWord
    BY <2>1, <2>3 DEF Wrong
  <2>5. 0 \notin AlarmWord /\ 1 \notin AlarmWord /\ 2 \notin AlarmWord
    BY <2>1, <2>3 DEF Wrong
  <2>6. /\ 3 \notin AlarmWord /\ 4 \notin AlarmWord /\ 7 \notin AlarmWord
        /\ 8 \notin AlarmWord /\ 9 \notin AlarmWord
    BY <2>2, <2>3 DEF Wrong
  <2>7. 5 \notin meter.defects /\ 6 \notin meter.defects
    BY <2>4 DEF AlarmWord
  <2>8. \A b \in 0..9 : b # 5 /\ b # 6 => b \notin meter.defects
    BY <2>5, <2>6 DEF AlarmWord
  <2> QED
    BY <2>7, <2>8
<1> QED
  BY <1>1, <1>2

(* The alarm word is read. *)
LEMMA GetAlarmsInv == TestInv /\ GetAlarms => TestInv'
<1> SUFFICES ASSUME TestInv, GetAlarms PROVE TestInv'
  OBVIOUS
<1> USE DEF TestInv, TypeOK
<1>1. /\ meter' = meter /\ meter' \in Meters /\ choose' = choose
      /\ UNCHANGED <<IR_DET, tries, slow, zf_list7, tests>>
  BY DEF GetAlarms, Read, Goto, Fail, DataOK
<1>2. pc = "getAlarms" /\ MS = 3
  BY DEF GetAlarms, CtlOK
<1>3. badLink' \in BOOLEAN
  BY DEF GetAlarms, Read, Goto, Fail, DataOK
<1>4. \/ /\ pc' = "end" /\ MS' = 4 /\ MS_error' # None
      \/ /\ pc' = "clearMsv" /\ UNCHANGED <<MS, MS_error>>
         /\ \A i \in DOMAIN AlarmTests : ~Wrong(AlarmWord, AlarmTests[i])
  BY AlarmError DEF GetAlarms, Read, Goto, Fail, None
<1>5. CtlOK'
  BY <1>1, <1>2, <1>4 DEF CtlOK
<1>6. DataOK'
  <2>1. tries' \in 0..4 /\ zf_list7' \in Nat /\ tests' \in 0..MaxTests
    BY <1>1 DEF DataOK
  <2>2. (IR_DET \in BOOLEAN /\ badLink \in BOOLEAN /\ slow \in BOOLEAN)'
    BY <1>1, <1>3 DEF DataOK
  <2> QED
    BY <1>1, <2>1, <2>2 DEF DataOK
<1>7. IdKept'
  BY <1>1, <1>2, <1>4 DEF IdKept, AfterGetId, AfterGetMsv, AfterGetAlarms
<1>8. MsvKept'
  BY <1>1, <1>2, <1>4 DEF MsvKept, AfterGetMsv, AfterGetAlarms
<1>9. AlarmsKept'
  BY <1>1, <1>2, <1>4, NothingWrong DEF AlarmsKept, AfterGetAlarms
<1>10. ValveKept'
  BY <1>1, <1>2, <1>4 DEF ValveKept
<1>11. DetectorOn' /\ TriesKept'
  BY <1>4 DEF DetectorOn, TriesKept
<1> QED
  BY <1>5, <1>6, <1>7, <1>8, <1>9, <1>10, <1>11

(* The MSV is written again. *)
LEMMA ClearMsvInv == TestInv /\ ClearMsv => TestInv'
<1> SUFFICES ASSUME TestInv, ClearMsv PROVE TestInv'
  OBVIOUS
<1> USE DEF ClearMsv, Goto, Fail, Pass, TestInv, TypeOK
<1>1. /\ meter' \in Meters /\ meter'.defects = meter.defects
      /\ meter'.id = meter.id /\ meter'.valve = meter.valve
      /\ MS' # 4 => meter'.msv = zf_list7
  BY DEF DataOK, Meters
<1>2. CtlOK'
  BY DEF CtlOK, None
<1>3. DataOK'
  <2>1. tries' \in 0..4 /\ zf_list7' \in Nat /\ tests' \in 0..MaxTests
    BY DEF DataOK, TriesKept
  <2>2. (IR_DET \in BOOLEAN /\ badLink \in BOOLEAN /\ slow \in BOOLEAN)'
    BY DEF DataOK
  <2> QED
    BY <1>1, <2>1, <2>2 DEF DataOK
<1>4. IdKept'
  BY <1>1 DEF IdKept, AfterGetId, AfterGetMsv, AfterGetAlarms, CtlOK
<1>5. MsvKept'
  BY <1>1 DEF MsvKept, AfterGetMsv, AfterGetAlarms, CtlOK
<1>6. AlarmsKept'
  BY <1>1 DEF AlarmsKept, AfterGetAlarms, CtlOK
<1>7. ValveKept'
  BY <1>1 DEF ValveKept, DetectorOn, CtlOK
<1>8. TriesKept'
  BY DEF TriesKept, DataOK
<1>9. DetectorOn'
  BY DEF DetectorOn
<1> QED
  BY <1>2, <1>3, <1>4, <1>5, <1>6, <1>7, <1>8, <1>9

(* The valve is told to open after the measurement. *)
LEMMA OpenAgainInv == TestInv /\ OpenAgain => TestInv'
<1> SUFFICES ASSUME TestInv, OpenAgain PROVE TestInv'
  OBVIOUS
<1> USE DEF OpenAgain, Open, Write, Goto, Fail, TestInv, TypeOK
<1>1. /\ meter' \in Meters /\ meter'.defects = meter.defects
      /\ meter'.id = meter.id /\ meter'.msv = meter.msv
      /\ meter'.valve = meter.valve
      /\ pc' # "end" => meter'.target = "open"
  BY DEF DataOK, Meters, Positions
<1>2. CtlOK'
  BY DEF CtlOK, None
<1>3. DataOK'
  <2>1. tries' \in 0..4 /\ zf_list7' \in Nat /\ tests' \in 0..MaxTests
    BY DEF DataOK, TriesKept
  <2>2. (IR_DET \in BOOLEAN /\ badLink \in BOOLEAN /\ slow \in BOOLEAN)'
    BY DEF DataOK
  <2> QED
    BY <1>1, <2>1, <2>2 DEF DataOK
<1>4. IdKept'
  BY <1>1 DEF IdKept, AfterGetId, AfterGetMsv, AfterGetAlarms, CtlOK
<1>5. MsvKept'
  BY <1>1 DEF MsvKept, AfterGetMsv, AfterGetAlarms, CtlOK
<1>6. AlarmsKept'
  BY <1>1 DEF AlarmsKept, AfterGetAlarms, CtlOK
<1>7. ValveKept'
  BY <1>1 DEF ValveKept, DetectorOn, CtlOK
<1>8. TriesKept'
  BY DEF TriesKept, DataOK
<1>9. DetectorOn'
  BY DEF DetectorOn
<1> QED
  BY <1>2, <1>3, <1>4, <1>5, <1>6, <1>7, <1>8, <1>9

(* The last look: a valve seen open here has moved. *)
LEMMA LookAgainInv == TestInv /\ LookAgain => TestInv'
<1> SUFFICES ASSUME TestInv, LookAgain PROVE TestInv'
  OBVIOUS
<1> USE DEF LookAgain, LookAt, Goto, Fail, Pass, Seen, TestInv, TypeOK
<1>1. meter' = meter /\ meter' \in Meters
  BY DEF DataOK
<1>2. CtlOK'
  BY DEF CtlOK, None
<1>3. DataOK'
  <2>1. tries' \in 0..4 /\ zf_list7' \in Nat /\ tests' \in 0..MaxTests
    BY DEF DataOK, TriesKept
  <2>2. (IR_DET \in BOOLEAN /\ badLink \in BOOLEAN /\ slow \in BOOLEAN)'
    BY DEF DataOK
  <2> QED
    BY <1>1, <2>1, <2>2 DEF DataOK
<1>4. IdKept'
  BY <1>1 DEF IdKept, AfterGetId, AfterGetMsv, AfterGetAlarms, CtlOK
<1>5. MsvKept'
  BY <1>1 DEF MsvKept, AfterGetMsv, AfterGetAlarms, CtlOK
<1>6. AlarmsKept'
  BY <1>1 DEF AlarmsKept, AfterGetAlarms, CtlOK
<1>7. ValveKept'
  <2>1. IR_DET
    BY DEF DetectorOn
  <2>2. Seen = {meter.valve}
    BY <2>1
  <2>3. pc' \in {"openAgain", "end"} /\ choose' = choose
    BY <2>2
  <2>4. MS' = 5 => meter.valve = "open"
    BY <2>2 DEF CtlOK
  <2>5. pc' = "openAgain" => meter.valve = "closed"
    BY <2>2
  <2> QED
    BY <1>1, <2>3, <2>4, <2>5 DEF ValveKept
<1>8. TriesKept'
  BY DEF TriesKept, DataOK
<1>9. DetectorOn'
  BY DEF DetectorOn
<1> QED
  BY <1>2, <1>3, <1>4, <1>5, <1>6, <1>7, <1>8, <1>9

(* The valve moves by itself, while the tester does nothing. *)
LEMMA MoveInv == TestInv /\ MoveValve => TestInv'
<1> SUFFICES ASSUME TestInv, MoveValve PROVE TestInv'
  OBVIOUS
<1> USE DEF MoveValve, testVars, TestInv, TypeOK
<1>1. /\ meter' \in Meters /\ meter'.defects = meter.defects
      /\ meter'.id = meter.id /\ meter'.msv = meter.msv
      /\ meter'.target = meter.target /\ meter'.valve = meter.target
      /\ Stuck \notin meter.defects
  BY DEF DataOK, Meters, UnderWay
<1>2. CtlOK'
  BY DEF CtlOK, None
<1>3. DataOK'
  <2>1. tries' \in 0..4 /\ zf_list7' \in Nat /\ tests' \in 0..MaxTests
    BY DEF DataOK, TriesKept
  <2>2. (IR_DET \in BOOLEAN /\ badLink \in BOOLEAN /\ slow \in BOOLEAN)'
    BY DEF DataOK
  <2> QED
    BY <1>1, <2>1, <2>2 DEF DataOK
<1>4. IdKept'
  BY <1>1 DEF IdKept, AfterGetId, AfterGetMsv, AfterGetAlarms, CtlOK
<1>5. MsvKept'
  BY <1>1 DEF MsvKept, AfterGetMsv, AfterGetAlarms, CtlOK
<1>6. AlarmsKept'
  BY <1>1 DEF AlarmsKept, AfterGetAlarms, CtlOK
<1>7. ValveKept'
  <2>1. choose' = choose /\ MS' = MS /\ pc' = pc
    OBVIOUS
  <2>2. /\ pc = "lookAgain" => meter.target = "open"
        /\ choose # 0 /\ MS = 5 => meter.target = "open"
        /\ pc \in {"detect", "look", "open", "closing", "closed", "openAgain",
                   "lookAgain"} => choose # 0
    BY DEF ValveKept
  <2> HIDE DEF MoveValve
  <2> QED
    BY <1>1, <2>1, <2>2 DEF ValveKept
<1>8. TriesKept'
  BY DEF TriesKept, DataOK
<1>9. DetectorOn'
  BY DEF DetectorOn
<1> QED
  BY <1>2, <1>3, <1>4, <1>5, <1>6, <1>7, <1>8, <1>9

(* Nothing happens. *)
LEMMA StutterInv == TestInv /\ UNCHANGED vars => TestInv'
<1> SUFFICES ASSUME TestInv, UNCHANGED vars PROVE TestInv'
  OBVIOUS
<1> USE DEF vars, testVars, TestInv, TypeOK
<1>1. CtlOK' /\ DataOK'
  BY DEF CtlOK, DataOK
<1>2. IdKept' /\ MsvKept'
  BY DEF IdKept, MsvKept, AfterGetId, AfterGetMsv, AfterGetAlarms
<1>3. AlarmsKept' /\ ValveKept'
  BY DEF AlarmsKept, ValveKept, AfterGetAlarms
<1>4. DetectorOn' /\ TriesKept'
  BY DEF DetectorOn, TriesKept
<1> QED
  BY <1>1, <1>2, <1>3, <1>4

-----------------------------------------------------------------------------
(* The invariant holds in every state of every test. *)
THEOREM TestCorrect == Spec => []TestInv
<1>1. TestInv /\ [Next]_vars => TestInv'
  <2> SUFFICES ASSUME TestInv, [Next]_vars PROVE TestInv'
    OBVIOUS
  <2>1. CASE MS_thread_test
    BY <2>1, StartInv
  <2>2. CASE MS_thread_test0
    BY <2>2, SetIdInv, SetMsvInv, SetTimeInv, TurnInv, GetIdInv, GetMsvInv,
       GetAlarmsInv, ClearMsvInv DEF MS_thread_test0
  <2>3. CASE MS_thread_test1
    BY <2>3, DetectInv, LookInv, OpenInv, WaitInv, LookClosedInv, OpenAgainInv,
       LookAgainInv DEF MS_thread_test1
  <2>4. CASE MoveValve
    BY <2>4, MoveInv
  <2>5. CASE UNCHANGED vars
    BY <2>5, StutterInv
  <2> QED
    BY <2>1, <2>2, <2>3, <2>4, <2>5 DEF Next
<1> QED
  BY <1>1, TestInit, PTL DEF Spec

(* The state of the test keeps its types, for every set of meters and MSVs *)
(* and any number of tests; in particular no loop of it runs over its      *)
(* bound.                                                                  *)
THEOREM TestTypeOK == Spec => []TypeOK
<1>1. TestInv => TypeOK
  BY DEF TestInv
<1> QED
  BY <1>1, TestCorrect, PTL

(* No meter passes with a defect that its test is there to find, whatever  *)
(* combination of defects it has: MS_thread_test0 and MS_thread_test1 come *)
(* to MS = 5 only behind all their comparisons.                            *)
THEOREM NoFaultyMeterPasses == Spec => []FaultyMeterFails
<1>1. TestInv => FaultyMeterFails
  <2> SUFFICES ASSUME TestInv, MS = 5,
                      NEW d \in meter.defects, d \in Tested,
                      ~(zf_list7 # 0 /\ d = Counts)
               PROVE  FALSE
    BY DEF FaultyMeterFails
  <2>1. d # Forgets
    BY DEF TestInv, IdKept, AfterGetId, AfterGetMsv, AfterGetAlarms
  <2>2. d # Counts
    BY DEF TestInv, MsvKept, AfterGetMsv, AfterGetAlarms
  <2>3. d \in 0..9 => ~(d < 2 \/ choose # 0)
    BY DEF TestInv, AlarmsKept, AfterGetAlarms
  <2>4. choose # 0 => d # Stuck
    BY DEF TestInv, ValveKept
  <2> QED
    BY <2>1, <2>2, <2>3, <2>4 DEF Tested, AllDefects, Forgets, Counts, Stuck
<1> QED
  BY <1>1, TestCorrect, PTL

(* What a pass of MS_thread_test0 or MS_thread_test1 says of the meter: it *)
(* has the MSID, the MSV on the panel, and an open valve if it has one.    *)
THEOREM PassedMeterIsReady == Spec => []PassedMeter
<1>1. TestInv => PassedMeter
  BY DEF TestInv, PassedMeter, IdKept, MsvKept, ValveKept, AfterGetId,
     AfterGetMsv, AfterGetAlarms
<1> QED
  BY <1>1, TestCorrect, PTL

-----------------------------------------------------------------------------
(* Every failure has its cause.  What a failing comparison tells of the    *)
(* meter rests on what the tester has done to it before: the MSID it       *)
(* wrote, the turns of the wheel, and the position the valve was told.     *)

(* A meter that does not forget has the MSID once it was written. *)
IdWritten ==
    pc \notin {"end", "setId"} /\ Forgets \notin meter.defects => meter.id

(* A meter that counts well and was set to 0 has the MSV that is expected. *)
MsvCounted ==
    pc \in {"closing", "closed", "getId", "getMsv"} /\ zf_list7 = 0
      /\ Counts \notin meter.defects => meter.msv = Pulses(choose)

(* The valve has been told to open when it is looked at a second time, and *)
(* to close after the wheel has turned, when the meter has noticed that    *)
(* gas was drawn; the valve was seen closed before the alarms are read.    *)
ValveTold ==
    /\ pc \in {"setId", "setMsv", "setTime", "detect"} => tries = 0
    /\ pc = "look" /\ tries > 0 => meter.target = "open"
    /\ pc \in {"closing", "closed"} => meter.target = "closed" /\ meter.drawn
    /\ choose # 0 /\ pc \in {"getId", "getMsv", "getAlarms"} =>
          meter.valve = "closed" /\ meter.target = "closed" /\ meter.drawn

CauseInv == IdWritten /\ MsvCounted /\ ValveTold /\ ErrorNamesCause

(* A failure of the link is named by one of four errors. *)
LEMMA LinkCause ==
    ASSUME badLink',
           MS_error' \in {"WRITE_ERROR", "WRITE_ERROR1", "WRITE_ERROR2", "READ_ERROR"}
    PROVE  ErrorNamesCause'
  BY DEF ErrorNamesCause

(* A test that goes on, or ends well, names no error. *)
LEMMA NoCause == MS' # 4 => ErrorNamesCause'
  BY DEF ErrorNamesCause

(* The MSID is written. *)
LEMMA SetIdCause == TestInv /\ CauseInv /\ SetId => CauseInv'
<1> SUFFICES ASSUME TestInv, CauseInv, SetId PROVE CauseInv'
  OBVIOUS
<1> USE DEF SetId, Write, Goto, Fail, TestInv, TypeOK, CauseInv
<1>1. /\ meter'.defects = meter.defects
      /\ pc' = "setMsv" /\ Forgets \notin meter.defects => meter'.id
  <2>1. pc' = "setMsv" => meter' = [meter EXCEPT !.id = Forgets \notin meter.defects]
    OBVIOUS
  <2>2. meter'.defects = meter.defects
    BY DEF DataOK, Meters
  <2> QED
    BY <2>1, <2>2 DEF DataOK, Meters
<1>2. IdWritten'
  BY <1>1 DEF IdWritten
<1>3. MsvCounted'
  BY <1>1 DEF MsvCounted, MsvKept
<1>4. ValveTold'
  BY <1>1 DEF ValveTold, ValveKept, DetectorOn, DataOK
<1>5. ErrorNamesCause'
  <2>1. \/ /\ badLink'
           /\ MS_error' \in {"WRITE_ERROR", "WRITE_ERROR1", "WRITE_ERROR2", "READ_ERROR"}
        \/ MS' # 4
    BY DEF CtlOK
  <2> QED
    BY <2>1, LinkCause, NoCause
<1> QED
  BY <1>2, <1>3, <1>4, <1>5

(* The MSV is written. *)
LEMMA SetMsvCause == TestInv /\ CauseInv /\ SetMsv => CauseInv'
<1> SUFFICES ASSUME TestInv, CauseInv, SetMsv PROVE CauseInv'
  OBVIOUS
<1> USE DEF SetMsv, Write, Goto, Fail, TestInv, TypeOK, CauseInv
<1>1. /\ meter'.defects = meter.defects
      /\ meter'.id = meter.id
  BY DEF DataOK, Meters, Positions
<1>2. IdWritten'
  BY <1>1 DEF IdWritten
<1>3. MsvCounted'
  BY <1>1 DEF MsvCounted, MsvKept
<1>4. ValveTold'
  BY <1>1 DEF ValveTold, ValveKept, DetectorOn, DataOK
<1>5. ErrorNamesCause'
  <2>1. \/ /\ badLink'
           /\ MS_error' \in {"WRITE_ERROR", "WRITE_ERROR1", "WRITE_ERROR2", "READ_ERROR"}
        \/ MS' # 4
    BY DEF CtlOK
  <2> QED
    BY <2>1, LinkCause, NoCause
<1> QED
  BY <1>2, <1>3, <1>4, <1>5

(* The time is written. *)
LEMMA SetTimeCause == TestInv /\ CauseInv /\ SetTime => CauseInv'
<1> SUFFICES ASSUME TestInv, CauseInv, SetTime PROVE CauseInv'
  OBVIOUS
<1> USE DEF SetTime, Write, Goto, Fail, TestInv, TypeOK, CauseInv
<1>1. meter' = meter /\ meter \in Meters
  BY DEF DataOK
<1>2. IdWritten'
  BY <1>1 DEF IdWritten
<1>3. MsvCounted'
  BY <1>1 DEF MsvCounted, MsvKept
<1>4. ValveTold'
  BY <1>1 DEF ValveTold, ValveKept, DetectorOn, DataOK
<1>5. ErrorNamesCause'
  <2>1. \/ /\ badLink'
           /\ MS_error' \in {"WRITE_ERROR", "WRITE_ERROR1", "WRITE_ERROR2", "READ_ERROR"}
        \/ MS' # 4
    BY DEF CtlOK
  <2> QED
    BY <2>1, LinkCause, NoCause
<1> QED
  BY <1>2, <1>3, <1>4, <1>5

(* The detector is switched on. *)
LEMMA DetectCause == TestInv /\ CauseInv /\ Detect => CauseInv'
<1> SUFFICES ASSUME TestInv, CauseInv, Detect PROVE CauseInv'
  OBVIOUS
<1> USE DEF Detect, Goto, TestInv, TypeOK, CauseInv
<1>1. meter' = meter /\ meter \in Meters
  BY DEF DataOK
<1>2. IdWritten'
  BY <1>1 DEF IdWritten
<1>3. MsvCounted'
  BY <1>1 DEF MsvCounted, MsvKept
<1>4. ValveTold'
  BY <1>1 DEF ValveTold, ValveKept, DetectorOn, DataOK
<1>5. ErrorNamesCause'
  <2>1. MS' # 4
    BY DEF CtlOK
  <2> QED
    BY <2>1, NoCause
<1> QED
  BY <1>2, <1>3, <1>4, <1>5

(* A valve that was opened twice and is seen closed is stuck or slow. *)
LEMMA LookCause == TestInv /\ CauseInv /\ Look => CauseInv'
<1> SUFFICES ASSUME TestInv, CauseInv, Look PROVE CauseInv'
  OBVIOUS
<1> USE DEF Look, LookAt, Goto, Fail, Seen, TestInv, TypeOK, CauseInv
<1>1. meter' = meter /\ meter \in Meters
  BY DEF DataOK
<1>2. IdWritten'
  BY <1>1 DEF IdWritten
<1>3. MsvCounted'
  BY <1>1 DEF MsvCounted, MsvKept
<1>4. ValveTold'
  BY <1>1 DEF ValveTold, ValveKept, DetectorOn, DataOK
<1>5. ErrorNamesCause'
  <2>1. CASE MS' = 4
    <3>1. meter.valve = "closed" /\ meter.target = "open"
      BY <2>1 DEF CtlOK, DetectorOn, ValveTold, ValveKept, DataOK
    <3>2. MS_error' \in {"VALVE_ERROR", "VALVE_ERROR1"}
      BY <2>1 DEF CtlOK
    <3>3. Stuck \in meter.defects \/ UnderWay
      BY <3>1 DEF UnderWay
    <3>4. UnderWay => slow'
      BY Zenon
    <3> QED
      BY <1>1, <3>2, <3>3, <3>4 DEF ErrorNamesCause
  <2>2. CASE MS' # 4
    BY <2>2, NoCause
  <2> QED
    BY <2>1, <2>2
<1> QED
  BY <1>2, <1>3, <1>4, <1>5

(* The same at the end of the test. *)
LEMMA LookAgainCause == TestInv /\ CauseInv /\ LookAgain => CauseInv'
<1> SUFFICES ASSUME TestInv, CauseInv, LookAgain PROVE CauseInv'
  OBVIOUS
<1> USE DEF LookAgain, LookAt, Goto, Fail, Pass, Seen, TestInv, TypeOK, CauseInv
<1>1. meter' = meter /\ meter \in Meters
  BY DEF DataOK
<1>2. IdWritten'
  BY <1>1 DEF IdWritten
<1>3. MsvCounted'
  BY <1>1 DEF MsvCounted, MsvKept
<1>4. ValveTold'
  BY <1>1 DEF ValveTold, ValveKept, DetectorOn, DataOK
<1>5. ErrorNamesCause'
  <2>1. CASE MS' = 4
    <3>1. meter.valve = "closed" /\ meter.target = "open"
      BY <2>1 DEF CtlOK, DetectorOn, ValveTold, ValveKept
    <3>2. MS_error' \in {"VALVE_ERROR", "VALVE_ERROR1"}
      BY <2>1 DEF CtlOK
    <3>3. Stuck \in meter.defects \/ UnderWay
      BY <3>1 DEF UnderWay
    <3>4. UnderWay => slow'
      BY Zenon
    <3> QED
      BY <1>1, <3>2, <3>3, <3>4 DEF ErrorNamesCause
  <2>2. CASE MS' # 4
    BY <2>2, NoCause
  <2> QED
    BY <2>1, <2>2
<1> QED
  BY <1>2, <1>3, <1>4, <1>5

(* The valve is told to open. *)
LEMMA OpenCause == TestInv /\ CauseInv /\ ms_open_valve => CauseInv'
<1> SUFFICES ASSUME TestInv, CauseInv, ms_open_valve PROVE CauseInv'
  OBVIOUS
<1> USE DEF ms_open_valve, Open, Write, Goto, Fail, TestInv, TypeOK, CauseInv
<1>1. /\ meter'.defects = meter.defects /\ meter'.id = meter.id
      /\ pc' # "end" => meter'.target = "open"
  BY DEF DataOK, Meters
<1>2. IdWritten'
  BY <1>1 DEF IdWritten
<1>3. MsvCounted'
  BY <1>1 DEF MsvCounted, MsvKept
<1>4. ValveTold'
  BY <1>1 DEF ValveTold, ValveKept, DetectorOn, DataOK
<1>5. ErrorNamesCause'
  <2>1. \/ /\ badLink'
           /\ MS_error' \in {"WRITE_ERROR", "WRITE_ERROR1", "WRITE_ERROR2", "READ_ERROR"}
        \/ MS' # 4
    BY DEF CtlOK
  <2> QED
    BY <2>1, LinkCause, NoCause
<1> QED
  BY <1>2, <1>3, <1>4, <1>5

(* The valve is told to open at the end of the test. *)
LEMMA OpenAgainCause == TestInv /\ CauseInv /\ OpenAgain => CauseInv'
<1> SUFFICES ASSUME TestInv, CauseInv, OpenAgain PROVE CauseInv'
  OBVIOUS
<1> USE DEF OpenAgain, Open, Write, Goto, Fail, TestInv, TypeOK, CauseInv
<1>1. /\ meter'.defects = meter.defects /\ meter'.id = meter.id
      /\ pc' # "end" => meter'.target = "open"
  BY DEF DataOK, Meters
<1>2. IdWritten'
  BY <1>1 DEF IdWritten
<1>3. MsvCounted'
  BY <1>1 DEF MsvCounted, MsvKept
<1>4. ValveTold'
  BY <1>1 DEF ValveTold, ValveKept, DetectorOn, DataOK
<1>5. ErrorNamesCause'
  <2>1. \/ /\ badLink'
           /\ MS_error' \in {"WRITE_ERROR", "WRITE_ERROR1", "WRITE_ERROR2", "READ_ERROR"}
        \/ MS' # 4
    BY DEF CtlOK
  <2> QED
    BY <2>1, LinkCause, NoCause
<1> QED
  BY <1>2, <1>3, <1>4, <1>5

(* The tester waits for the valve to close. *)
LEMMA WaitCause == TestInv /\ CauseInv /\ WaitClosed => CauseInv'
<1> SUFFICES ASSUME TestInv, CauseInv, WaitClosed PROVE CauseInv'
  OBVIOUS
<1> USE DEF WaitClosed, WaitFor, Goto, TestInv, TypeOK, CauseInv
<1>1. meter' = meter /\ meter \in Meters
  BY DEF DataOK
<1>2. IdWritten'
  BY <1>1 DEF IdWritten
<1>3. MsvCounted'
  BY <1>1 DEF MsvCounted, MsvKept
<1>4. ValveTold'
  BY <1>1 DEF ValveTold, ValveKept, DetectorOn, DataOK
<1>5. ErrorNamesCause'
  <2>1. MS' # 4
    BY DEF CtlOK
  <2> QED
    BY <2>1, NoCause
<1> QED
  BY <1>2, <1>3, <1>4, <1>5

(* A valve that is not seen closed is stuck or slow. *)
LEMMA LookClosedCause == TestInv /\ CauseInv /\ LookClosed => CauseInv'
<1> SUFFICES ASSUME TestInv, CauseInv, LookClosed PROVE CauseInv'
  OBVIOUS
<1> USE DEF LookClosed, Goto, Fail, Seen, TestInv, TypeOK, CauseInv
<1>1. meter' = meter /\ meter \in Meters
  BY DEF DataOK
<1>2. IdWritten'
  BY <1>1 DEF IdWritten
<1>3. MsvCounted'
  BY <1>1 DEF MsvCounted, MsvKept
<1>4. ValveTold'
  BY <1>1 DEF ValveTold, ValveKept, DetectorOn, DataOK
<1>5. ErrorNamesCause'
  <2>1. CASE MS' = 4
    <3>1. meter.valve = "open" /\ meter.target = "closed"
      BY <2>1 DEF CtlOK, DetectorOn, ValveTold, DataOK, Meters, Positions
    <3>2. MS_error' \in {"VALVE_ERROR", "VALVE_ERROR1"}
      BY <2>1 DEF CtlOK
    <3>3. Stuck \in meter.defects \/ UnderWay
      BY <3>1 DEF UnderWay
    <3>4. UnderWay => slow'
      BY Zenon
    <3> QED
      BY <1>1, <3>2, <3>3, <3>4 DEF ErrorNamesCause
  <2>2. CASE MS' # 4
    BY <2>2, NoCause
  <2> QED
    BY <2>1, <2>2
<1> QED
  BY <1>2, <1>3, <1>4, <1>5

(* An MSID that was not kept has been forgotten. *)
LEMMA GetIdCause == TestInv /\ CauseInv /\ GetId => CauseInv'
<1> SUFFICES ASSUME TestInv, CauseInv, GetId PROVE CauseInv'
  OBVIOUS
<1> USE DEF GetId, Read, Goto, Fail, TestInv, TypeOK, CauseInv
<1>1. meter' = meter /\ meter \in Meters
  BY DEF DataOK
<1>2. IdWritten'
  BY <1>1 DEF IdWritten
<1>3. MsvCounted'
  BY <1>1 DEF MsvCounted, MsvKept
<1>4. ValveTold'
  BY <1>1 DEF ValveTold, ValveKept, DetectorOn, DataOK
<1>5. ErrorNamesCause'
  <2>1. \/ /\ badLink' /\ MS_error' = "READ_ERROR"
        \/ MS' # 4
        \/ MS_error' = "MSID_ERROR" /\ ~meter.id
    BY DEF CtlOK
  <2>2. ~meter.id => Forgets \in meter.defects
    BY DEF IdWritten
  <2>3. CASE MS_error' = "MSID_ERROR" /\ ~meter.id
    BY <1>1, <2>2, <2>3 DEF ErrorNamesCause
  <2> QED
    BY <2>1, <2>3, LinkCause, NoCause
<1> QED
  BY <1>2, <1>3, <1>4, <1>5

(* A wrong MSV was counted wrongly, or did not begin at 0. *)
LEMMA GetMsvCause == TestInv /\ CauseInv /\ GetMsv => CauseInv'
<1> SUFFICES ASSUME TestInv, CauseInv, GetMsv PROVE CauseInv'
  OBVIOUS
<1> USE DEF GetMsv, Read, Goto, Fail, TestInv, TypeOK, CauseInv
<1>1. meter' = meter /\ meter \in Meters
  BY DEF DataOK
<1>2. IdWritten'
  BY <1>1 DEF IdWritten
<1>3. MsvCounted'
  BY <1>1 DEF MsvCounted, MsvKept
<1>4. ValveTold'
  BY <1>1 DEF ValveTold, ValveKept, DetectorOn, DataOK
<1>5. ErrorNamesCause'
  <2>1. \/ /\ badLink' /\ MS_error' = "READ_ERROR"
        \/ MS' # 4
        \/ MS_error' = "MSV_ERROR" /\ meter.msv # Pulses(choose)
    BY DEF CtlOK
  <2>2. meter.msv # Pulses(choose) => Counts \in meter.defects \/ zf_list7 # 0
    BY DEF MsvCounted
  <2>3. CASE MS_error' = "MSV_ERROR" /\ meter.msv # Pulses(choose)
    BY <1>1, <2>2, <2>3 DEF ErrorNamesCause
  <2> QED
    BY <2>1, <2>3, LinkCause, NoCause
<1> QED
  BY <1>2, <1>3, <1>4, <1>5

(* The MSV is written again. *)
LEMMA ClearMsvCause == TestInv /\ CauseInv /\ ClearMsv => CauseInv'
<1> SUFFICES ASSUME TestInv, CauseInv, ClearMsv PROVE CauseInv'
  OBVIOUS
<1> USE DEF ClearMsv, Goto, Fail, Pass, TestInv, TypeOK, CauseInv
<1>1. /\ meter'.defects = meter.defects
      /\ meter'.id = meter.id
  BY DEF DataOK, Meters, Positions
<1>2. IdWritten'
  BY <1>1 DEF IdWritten
<1>3. MsvCounted'
  BY <1>1 DEF MsvCounted, MsvKept
<1>4. ValveTold'
  BY <1>1 DEF ValveTold, ValveKept, DetectorOn, DataOK
<1>5. ErrorNamesCause'
  <2>1. \/ /\ badLink'
           /\ MS_error' \in {"WRITE_ERROR", "WRITE_ERROR1", "WRITE_ERROR2", "READ_ERROR"}
        \/ MS' # 4
    BY DEF CtlOK
  <2> QED
    BY <2>1, LinkCause, NoCause
<1> QED
  BY <1>2, <1>3, <1>4, <1>5

(* The wheel turns. *)
LEMMA TurnCause == TestInv /\ CauseInv /\ Turn => CauseInv'
<1> SUFFICES ASSUME TestInv, CauseInv, Turn PROVE CauseInv'
  OBVIOUS
<1> USE DEF Turn, Goto, TestInv, TypeOK, CauseInv
<1>1. PICK n \in IF Counts \in meter.defects THEN {0, Pulses(choose) - 1}
                 ELSE {Pulses(choose)} :
         meter' = [meter EXCEPT !.msv = @ + n,
                                !.target = IF choose = 0 THEN @ ELSE "closed",
                                !.drawn = IF choose = 0 THEN @ ELSE TRUE]
  OBVIOUS
<1>2. /\ meter'.defects = meter.defects /\ meter'.id = meter.id
      /\ meter'.msv = meter.msv + n
      /\ choose # 0 => meter'.target = "closed" /\ meter'.drawn
  BY <1>1 DEF DataOK, Meters
<1>3. Counts \notin meter.defects /\ zf_list7 = 0 => meter'.msv = Pulses(choose)
  <2> SUFFICES ASSUME Counts \notin meter.defects, zf_list7 = 0
               PROVE  meter'.msv = Pulses(choose)
    OBVIOUS
  <2>1. n = Pulses(choose) /\ meter.msv = 0
    BY <1>1 DEF MsvKept
  <2> QED
    BY <1>2, <2>1 DEF Pulses
<1>4. /\ pc = "turn" /\ choose' = choose /\ zf_list7' = zf_list7 /\ MS' = MS
      /\ pc' = IF choose = 0 THEN "getId" ELSE "closing"
  OBVIOUS
<1>5. IdWritten'
  BY <1>2, <1>4 DEF IdWritten
<1>6. MsvCounted'
  BY <1>2, <1>3, <1>4 DEF MsvCounted
<1>7. ValveTold'
  BY <1>2, <1>4 DEF ValveTold
<1>8. ErrorNamesCause'
  BY <1>4, NoCause DEF CtlOK
<1> QED
  BY <1>5, <1>6, <1>7, <1>8

(* What is wrong in the alarm word of a meter whose valve is closed and    *)
(* that has noticed the gas is a defect of the meter.                      *)
LEMMA WrongAlarm ==
    ASSUME choose # 0 => meter.valve = "closed" /\ meter.drawn,
           NEW k \in DOMAIN AlarmTests, Wrong(AlarmWord, AlarmTests[k])
    PROVE  AlarmTests[k][1] \in meter.defects
<1>1. CASE choose = 0
  <2>1. /\ DOMAIN AlarmTests = 1..2
        /\ AlarmTests[1][1] = 1 /\ AlarmTests[1][2] = TRUE
        /\ AlarmTests[2][1] = 0 /\ AlarmTests[2][2] = TRUE
    BY <1>1 DEF AlarmTests
  <2>2. k = 1 \/ k = 2
    BY <2>1
  <2>3. AlarmTests[k][1] \in {0, 1} /\ AlarmTests[k][1] \in AlarmWord
    BY <2>1, <2>2 DEF Wrong
  <2> QED
    BY <2>3 DEF AlarmWord
<1>2. CASE choose # 0
  <2>1. /\ DOMAIN AlarmTests = 1..10
        /\ AlarmTests[1][1] = 1 /\ AlarmTests[1][2] = TRUE
        /\ AlarmTests[2][1] = 0 /\ AlarmTests[2][2] = TRUE
        /\ AlarmTests[3][1] = 2 /\ AlarmTests[3][2] = TRUE
        /\ AlarmTests[4][1] = 6 /\ AlarmTests[4][2] = FALSE
        /\ AlarmTests[5][1] = 5 /\ AlarmTests[5][2] = FALSE
    BY <1>2 DEF AlarmTests
  <2>2. /\ AlarmTests[6][1] = 4 /\ AlarmTests[6][2] = TRUE
        /\ AlarmTests[7][1] = 3 /\ AlarmTests[7][2] = TRUE
        /\ AlarmTests[8][1] = 7 /\ AlarmTests[8][2] = TRUE
        /\ AlarmTests[9][1] = 8 /\ AlarmTests[9][2] = TRUE
        /\ AlarmTests[10][1] = 9 /\ AlarmTests[10][2] = TRUE
    BY <1>2 DEF AlarmTests
  <2>3. CASE k = 4 \/ k = 5
    <3>1. AlarmTests[k][1] \in {5, 6} /\ AlarmTests[k][1] \notin AlarmWord
      BY <2>1, <2>3 DEF Wrong
    <3> QED
      BY <1>2, <3>1 DEF AlarmWord
  <2>4. CASE k \in 1..3 \cup 6..10
    <3>1. AlarmTests[k][1] \in 0..4 \cup 7..9 /\ AlarmTests[k][2] = TRUE
      BY <2>1, <2>2, <2>4
    <3>2. AlarmTests[k][1] \in AlarmWord
      BY <3>1 DEF Wrong
    <3> QED
      BY <3>1, <3>2 DEF AlarmWord
  <2> QED
    BY <2>1, <2>3, <2>4
<1> QED
  BY <1>1, <1>2

(* The alarm word is read: the error that is shown is that of a defect. *)
LEMMA GetAlarmsCause == TestInv /\ CauseInv /\ GetAlarms => CauseInv'
<1> SUFFICES ASSUME TestInv, CauseInv, GetAlarms PROVE CauseInv'
  OBVIOUS
<1> USE DEF TestInv, TypeOK, CauseInv
<1>1. /\ meter' = meter /\ choose' = choose /\ zf_list7' = zf_list7
      /\ pc = "getAlarms" /\ MS = 3
  BY DEF GetAlarms, Read, Goto, Fail, CtlOK
<1>2. pc' \in {"end", "clearMsv"}
  BY DEF GetAlarms, Read, Goto, Fail
<1>3. IdWritten' /\ MsvCounted' /\ ValveTold'
  BY <1>1, <1>2 DEF IdWritten, MsvCounted, ValveTold
<1>4. ErrorNamesCause'
  <2>1. \/ /\ badLink' /\ MS_error' = "READ_ERROR"
        \/ MS' # 4
        \/ \E k \in DOMAIN AlarmTests : /\ Wrong(AlarmWord, AlarmTests[k])
                                        /\ MS_error' = AlarmTests[k][3]
    BY <1>1 DEF GetAlarms, Read, Goto, Fail
  <2>2. ASSUME NEW k \in DOMAIN AlarmTests, Wrong(AlarmWord, AlarmTests[k]),
               MS_error' = AlarmTests[k][3]
        PROVE  ErrorNamesCause'
    <3>1. AlarmTests[k][1] \in meter.defects
      BY <1>1, <2>2, WrongAlarm DEF ValveTold
    <3>2. AlarmTests' = AlarmTests
      BY <1>1 DEF AlarmTests
    <3> QED
      BY <1>1, <2>2, <3>1, <3>2 DEF ErrorNamesCause
  <2> QED
    BY <2>1, <2>2, LinkCause, NoCause
<1> QED
  BY <1>3, <1>4

(* A new test, and a valve that moves between two steps of the tester. *)
LEMMA OtherCause == TestInv /\ CauseInv /\ (MS_thread_test \/ MoveValve) => CauseInv'
<1> SUFFICES ASSUME TestInv, CauseInv, MS_thread_test \/ MoveValve PROVE CauseInv'
  OBVIOUS
<1> USE DEF TestInv, TypeOK, CauseInv
<1>1. CASE MS_thread_test
  <2>1. pc' = "setId" /\ tries' = 0 /\ MS' = 3
    BY <1>1 DEF MS_thread_test
  <2> QED
    BY <2>1, NoCause DEF IdWritten, MsvCounted, ValveTold
<1>2. CASE MoveValve
  <2>1. /\ meter'.defects = meter.defects /\ meter'.id = meter.id
        /\ meter'.msv = meter.msv /\ meter'.drawn = meter.drawn
        /\ meter'.target = meter.target /\ meter'.valve = meter.target
        /\ meter.valve # meter.target
    BY <1>2 DEF MoveValve, UnderWay, DataOK, Meters
  <2>2. /\ MS' = MS /\ choose' = choose /\ pc' = pc /\ MS_error' = MS_error
        /\ tries' = tries /\ zf_list7' = zf_list7 /\ badLink' = badLink /\ slow' = slow
    BY <1>2 DEF MoveValve, testVars
  <2>3. IdWritten' /\ MsvCounted' /\ ValveTold'
    BY <2>1, <2>2 DEF IdWritten, MsvCounted, ValveTold
  <2>4. AlarmTests' = AlarmTests
    BY <2>2 DEF AlarmTests
  <2>5. ErrorNamesCause'
    BY <2>1, <2>2, <2>4 DEF ErrorNamesCause
  <2> QED
    BY <2>3, <2>5
<1> QED
  BY <1>1, <1>2

(* A meter that fails fails for the reason that is shown and filed,        *)
(* whatever defects it has, whichever requests get lost and whenever its   *)
(* valve moves: each error of MS_thread_test0 and MS_thread_test1 names a  *)
(* failed request, a defect, an MSV other than 0 or a valve looked at too  *)
(* early.                                                                  *)
THEOREM FailureHasCause == Spec => []ErrorNamesCause
<1>1. Init => CauseInv
  BY DEF Init, CauseInv, IdWritten, MsvCounted, ValveTold, ErrorNamesCause
<1>2. TestInv /\ CauseInv /\ [Next]_vars => CauseInv'
  <2> SUFFICES ASSUME TestInv, CauseInv, [Next]_vars PROVE CauseInv'
    OBVIOUS
  <2>1. CASE MS_thread_test \/ MoveValve
    BY <2>1, OtherCause
  <2>2. CASE MS_thread_test0
    BY <2>2, SetIdCause, SetMsvCause, SetTimeCause, TurnCause, GetIdCause,
       GetMsvCause, GetAlarmsCause, ClearMsvCause DEF MS_thread_test0
  <2>3. CASE MS_thread_test1
    BY <2>3, DetectCause, LookCause, OpenCause, WaitCause, LookClosedCause,
       OpenAgainCause, LookAgainCause DEF MS_thread_test1
  <2>4. CASE UNCHANGED vars
    <3>1. AlarmTests' = AlarmTests
      BY <2>4 DEF vars, testVars, AlarmTests
    <3> QED
      BY <2>4, <3>1 DEF vars, testVars, CauseInv, IdWritten, MsvCounted, ValveTold,
         ErrorNamesCause
  <2> QED
    BY <2>1, <2>2, <2>3, <2>4 DEF Next
<1>3. CauseInv => ErrorNamesCause
  BY DEF CauseInv
<1> QED
  BY <1>1, <1>2, <1>3, TestCorrect, PTL DEF Spec
=============================================================================
