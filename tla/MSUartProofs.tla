---------------------------- MODULE MSUartProofs ----------------------------
(***************************************************************************)
(* What holds of the meter link for every choice of commands, deadlines,   *)
(* payloads and disturbances.  The argument is one inductive invariant,    *)
(* LinkInv: from the moment serial has stored a byte until the parser's    *)
(* last statement uart_timeot is not zero, because timeout_uart cannot run *)
(* while serial does and every other writer stores a positive deadline;    *)
(* and once a verdict is given data_len is past data_end.                  *)
(***************************************************************************)
EXTENDS MSUart, TLAPS

(* The verdict of the parser is one of the four values of uart_flag. *)
LEMMA FlagOfType ==
    ASSUME NEW f, NEW n, NEW flag \in 0..3
    PROVE  FlagOf(f, n, flag) \in 0..3
  <1>1. CASE ~FrameOK(f, n)
    BY <1>1 DEF FlagOf, UART_ERROR_DATA
  <1>2. CASE FrameOK(f, n) /\ f[2] \in {chA, chE, chG}
    BY <1>2 DEF FlagOf, UART_ERROR_DATA, UART_READ_OK, chA, chE, chG
  <1>3. CASE FrameOK(f, n) /\ f[2] \in {chB, chF, chI, chR}
    BY <1>3 DEF FlagOf, UART_READ_OK, chA, chE, chG, chB, chF, chI, chR
  <1>4. CASE FrameOK(f, n) /\ f[2] \notin {chA, chE, chG, chB, chF, chI, chR}
    BY <1>4 DEF FlagOf
  <1> QED
    BY <1>1, <1>2, <1>3, <1>4

(* Every request expects one of the six frame lengths. *)
LEMMA GetEndType ==
    ASSUME NEW flag \in 0..2, NEW choose
    PROVE  GetEnd(flag, choose) \in {8, 11, 12, 14}
  BY DEF GetEnd

(* Every deadline is positive and fits in uart_timeot. *)
LEMMA TicksPositive ==
    ASSUME NEW n \in {SetTicks, GetTicks, ValveTicks, ByteTicks}
    PROVE  n \in Nat /\ n # 0 /\ n \in 0..(TimeWrap - 1)
  <1>1. TimeWrap \in Nat /\ n \in Nat /\ 0 < n /\ n < TimeWrap
    BY TickAssumption
  <1> QED
    BY <1>1

(* The initial state satisfies the invariant. *)
LEMMA LinkInit == Init => LinkInv
  <1> SUFFICES ASSUME Init PROVE LinkInv
    OBVIOUS
  <1>1. TimeWrap - 1 \in Nat /\ DataMax \in Nat
    BY TickAssumption, LinkAssumption
  <1>2. CtlTypeOK
    <2>1. torn \in BOOLEAN /\ rx_sem \in BOOLEAN /\ alone \in BOOLEAN
              /\ raced \in BOOLEAN
      BY Zenon DEF Init
    <2>2. 0 \in 0..(TimeWrap - 1) /\ 0 \in 0..DataMax /\ 0 \in 0..3
      BY <1>1
    <2> QED
      BY <2>1, <2>2 DEF Init, CtlTypeOK, UART_WAIT
  <1>3. ParseGuard /\ CompareGuard
    BY DEF Init, ParseGuard, CompareGuard
  <1>4. VerdictGuard
    BY DEF Init, VerdictGuard, UART_WAIT, UART_READ_OK, UART_ERROR_DATA
  <1> QED
    BY <1>2, <1>3, <1>4 DEF LinkInv

(* A request preserves the invariant: the deadline it sets is positive, it *)
(* empties the buffer and takes back the verdict.                          *)
LEMMA RequestInv ==
    ASSUME LinkInv,
           NEW cmd,
           NEW end \in {7, 8, 11, 12, 14, 33},
           NEW ticks \in {SetTicks, GetTicks, ValveTicks},
           Request(cmd, end, ticks)
    PROVE  LinkInv'
  <1> USE DEF LinkInv, timeoutVars, driverVars
  <1>0. ticks # 0 /\ ticks \in 0..(TimeWrap - 1)
    BY TicksPositive
  <1>1. CtlTypeOK'
    BY <1>0, LinkAssumption, TickAssumption DEF Request, RequestFrom, CtlTypeOK, UART_WAIT
  <1>2. ParseGuard' /\ CompareGuard'
    BY <1>0 DEF Request, RequestFrom, ParseGuard, CompareGuard
  <1>3. VerdictGuard'
    <2>1. raced' = (spc \in {"store", "parse"}) /\ spc' = spc
      BY DEF Request, RequestFrom
    <2>2. uart_flag' \notin {UART_READ_OK, UART_ERROR_DATA}
      BY DEF Request, RequestFrom, UART_WAIT, UART_READ_OK, UART_ERROR_DATA
    <2> QED
      BY <2>1, <2>2 DEF VerdictGuard
  <1> QED
    BY <1>1, <1>2, <1>3

(* main preserves the invariant. *)
LEMMA MainInv == LinkInv /\ Main => LinkInv'
  <1> SUFFICES ASSUME LinkInv, Main PROVE LinkInv'
    OBVIOUS
  <1>1. CASE \E flag \in SetFlags : my_uart_SetData(flag)
    BY <1>1, RequestInv DEF my_uart_SetData
  <1>2. CASE \E flag \in GetFlags, choose \in Chooses : my_uart_GetData(flag, choose)
    <2>1. PICK flag \in GetFlags, choose \in Chooses : my_uart_GetData(flag, choose)
      BY <1>2
    <2>2. GetEnd(flag, choose) \in {7, 8, 11, 12, 14, 33}
      BY GetEndType, LinkAssumption
    <2> QED
      BY <2>1, <2>2, RequestInv DEF my_uart_GetData
  <1>3. CASE ms_open_valve
    BY <1>3, RequestInv DEF ms_open_valve
  <1>4. CASE get_uart_flag
    BY <1>4 DEF get_uart_flag, LinkInv, CtlTypeOK, ParseGuard, CompareGuard,
                VerdictGuard, frameVars, regVars, timeoutVars, driverVars,
                historyVars
  <1> QED
    BY <1>1, <1>2, <1>3, <1>4 DEF Main

(* serial preserves the invariant. *)
LEMMA SerialInv == LinkInv /\ Serial => LinkInv'
  <1> SUFFICES ASSUME LinkInv, Serial PROVE LinkInv'
    OBVIOUS
  <1> USE LinkAssumption, TickAssumption
      DEF LinkInv, SerialGo, mainVars, timeoutVars, historyVars, driverVars,
          frameVars, regVars
  <1>1. CASE ReadNone
    BY <1>1 DEF ReadNone, CtlTypeOK, ParseGuard, CompareGuard, VerdictGuard
  <1>2. CASE ResetSem
    BY <1>2 DEF ResetSem, CtlTypeOK, ParseGuard, CompareGuard, VerdictGuard
  <1>3. CASE TakeSem
    BY <1>3 DEF TakeSem, CtlTypeOK, ParseGuard, CompareGuard, VerdictGuard
  <1>4. CASE ReadByte
    <2>1. CtlTypeOK'
      BY <1>4 DEF ReadByte, CtlTypeOK
    <2>2. ~Acceptable(Head(fifo)) => data_len < 3
      BY DEF Acceptable, CtlTypeOK
    <2>3. ParseGuard' /\ CompareGuard'
      BY <1>4, <2>2 DEF ReadByte, ParseGuard, CompareGuard
    <2>4. VerdictGuard'
      BY <1>4, <2>2 DEF ReadByte, CtlTypeOK, VerdictGuard
    <2> QED
      BY <2>1, <2>3, <2>4
  <1>5. CASE StoreByte
    <2>1. data_len' = idx + 1 /\ idx + 1 \in 0..DataMax
      BY <1>5 DEF StoreByte, CtlTypeOK
    <2>2. CtlTypeOK'
      BY <1>5, <2>1 DEF StoreByte, CtlTypeOK
    <2>3. ParseGuard' /\ CompareGuard'
      BY <1>5 DEF StoreByte, ParseGuard, CompareGuard
    <2>4. VerdictGuard'
      BY <1>5, <2>1 DEF StoreByte, CtlTypeOK, VerdictGuard
    <2> QED
      BY <2>2, <2>3, <2>4
  <1>6. CASE ArmByteTimeout
    <2>1. CtlTypeOK'
      <3>1. ByteTicks \in 0..(TimeWrap - 1)
        BY TicksPositive
      <3> QED
        BY <1>6, <3>1 DEF ArmByteTimeout, ArmTo, CtlTypeOK
    <2>2. ParseGuard' /\ CompareGuard'
      BY <1>6 DEF ArmByteTimeout, ArmTo, ParseGuard, CompareGuard
    <2>3. VerdictGuard'
      BY <1>6 DEF ArmByteTimeout, ArmTo, VerdictGuard
    <2> QED
      BY <2>1, <2>2, <2>3
  <1>7. CASE CompareLen
    <2>1. CtlTypeOK'
      BY <1>7 DEF CompareLen, CompareBy, CtlTypeOK
    <2>2. data_len = data_end => uart_timeot # 0
      BY <1>7 DEF CompareLen, CompareBy, CtlTypeOK, CompareGuard
    <2>3. ParseGuard' /\ CompareGuard'
      BY <1>7, <2>2 DEF CompareLen, CompareBy, ParseGuard, CompareGuard
    <2>4. VerdictGuard'
      BY <1>7 DEF CompareLen, CompareBy, CtlTypeOK, VerdictGuard
    <2> QED
      BY <2>1, <2>3, <2>4
  <1>8. CASE Parse
    <2>1. uart_flag' \in 0..3
      BY <1>8, FlagOfType
         DEF Parse, ParseLeaving, CtlTypeOK, UART_ERROR_DATA, UART_READ_OK
    <2>2. CtlTypeOK'
      BY <1>8, <2>1 DEF Parse, ParseLeaving, CtlTypeOK
    <2>3. ParseGuard' /\ CompareGuard'
      BY <1>8 DEF Parse, ParseLeaving, ParseGuard, CompareGuard
    <2>4. VerdictGuard'
      BY <1>8 DEF Parse, ParseLeaving, CtlTypeOK, VerdictGuard
    <2> QED
      BY <2>2, <2>3, <2>4
  <1>9. CASE ClearTimeout
    BY <1>9 DEF ClearTimeout, CtlTypeOK, ParseGuard, CompareGuard, VerdictGuard
  <1> QED
    BY <1>1, <1>2, <1>3, <1>4, <1>5, <1>6, <1>7, <1>8, <1>9 DEF Serial

(* timeout_uart preserves the invariant: it runs only while serial waits.  *)
LEMMA TimeoutInv == LinkInv /\ Timeout => LinkInv'
  <1> SUFFICES ASSUME LinkInv, Timeout PROVE LinkInv'
    OBVIOUS
  <1> USE LinkAssumption, TickAssumption
      DEF LinkInv, TimeoutGo, mainVars, frameVars, regVars, historyVars, driverVars
  <1>1. CASE TestTimeout
    BY <1>1 DEF TestTimeout, CtlTypeOK, ParseGuard, CompareGuard, VerdictGuard
  <1>2. CASE LoadTimeout
    BY <1>2 DEF LoadTimeout, CtlTypeOK, ParseGuard, CompareGuard, VerdictGuard
  <1>3. CASE SaveTimeout
    <2>1. (reg - 1) % TimeWrap \in 0..(TimeWrap - 1)
      BY DEF CtlTypeOK
    <2> QED
      BY <1>3, <2>1
         DEF SaveTimeout, SaveAs, CtlTypeOK, ParseGuard, CompareGuard, VerdictGuard
  <1>4. CASE TestFlag
    BY <1>4 DEF TestFlag, CtlTypeOK, ParseGuard, CompareGuard, VerdictGuard
  <1>5. CASE TestZero
    BY <1>5 DEF TestZero, CtlTypeOK, ParseGuard, CompareGuard, VerdictGuard
  <1>6. CASE Expire
    BY <1>6 DEF Expire, CtlTypeOK, ParseGuard, CompareGuard, VerdictGuard,
                UART_ERROR_TIMEOUT, UART_READ_OK, UART_ERROR_DATA
  <1> QED
    BY <1>1, <1>2, <1>3, <1>4, <1>5, <1>6 DEF Timeout

(* The meter, the line and the shell change none of the variables that the *)
(* invariant is about, but alone and the semaphore.                        *)
LEMMA OutsideInv == LinkInv /\ (Meter \/ Line \/ Shell) => LinkInv'
  <1> SUFFICES ASSUME LinkInv, Meter \/ Line \/ Shell PROVE LinkInv'
    OBVIOUS
  <1> USE DEF LinkInv, LineStep, frameVars, mainVars, regVars, timeoutVars,
              historyVars, driverVars, CtlTypeOK, ParseGuard, CompareGuard,
              VerdictGuard
  <1>1. CASE Meter
    BY <1>1 DEF Meter, Answer
  <1>2. CASE uart_rx_ind
    BY <1>2 DEF uart_rx_ind, Deliver
  <1>3. CASE DisturbByte
    BY <1>3 DEF DisturbByte, Fault, Deliver
  <1>4. CASE LoseByte
    BY <1>4 DEF LoseByte
  <1>5. CASE Shell
    BY <1>5 DEF Shell, ms_uart_fs
  <1> QED
    BY <1>1, <1>2, <1>3, <1>4, <1>5 DEF Line

(* The link keeps its invariant in every reachable state. *)
THEOREM LinkInvariance == Spec => []LinkInv
  <1>1. LinkInv /\ [Next]_vars => LinkInv'
    <2>1. LinkInv /\ Next => LinkInv'
      BY MainInv, SerialInv, TimeoutInv, OutsideInv DEF Next
    <2>2. LinkInv /\ UNCHANGED vars => LinkInv'
      BY DEF vars, frameVars, mainVars, regVars, timeoutVars, driverVars,
             lineVars, historyVars, LinkInv, CtlTypeOK, ParseGuard,
             CompareGuard, VerdictGuard
    <2> QED
      BY <2>1, <2>2
  <1> QED
    BY LinkInit, <1>1, PTL DEF Spec

(* However main, serial, timeout_uart and the interrupt interleave, main   *)
(* never leaves get_uart_flag while my_data_parsing has begun to publish a *)
(* verdict and has not finished: at that time uart_timeot is not zero.     *)
THEOREM WholeVerdicts == Spec => ReturnsWholeVerdict
  <1>1. LinkInv /\ [Next]_vars =>
            [mpc = "wait" /\ mpc' = "idle" => spc \notin {"parse", "clear"}]_vars
    <2> SUFFICES ASSUME LinkInv, Next, mpc = "wait", mpc' = "idle"
                 PROVE  spc \notin {"parse", "clear"}
      OBVIOUS
    <2>1. CASE Main
      <3>1. get_uart_flag
        BY <2>1 DEF Main, my_uart_SetData, my_uart_GetData, ms_open_valve,
                    Request, RequestFrom
      <3> QED
        BY <3>1 DEF get_uart_flag, LinkInv, ParseGuard
    <2>2. CASE Serial
      BY <2>2 DEF Serial, ReadNone, ResetSem, TakeSem, ReadByte, StoreByte,
                  ArmByteTimeout, ArmTo, CompareLen, CompareBy, Parse,
                  ParseLeaving, ClearTimeout, SerialGo,
                  mainVars
    <2>3. CASE Timeout
      BY <2>3 DEF Timeout, TestTimeout, LoadTimeout, SaveTimeout, SaveAs, TestFlag,
                  TestZero, Expire, TimeoutGo, mainVars
    <2>4. CASE Meter \/ Line \/ Shell
      BY <2>4 DEF Meter, Answer, Line, uart_rx_ind, DisturbByte, Deliver, LoseByte,
                  Shell, ms_uart_fs, LineStep, mainVars
    <2> QED
      BY <2>1, <2>2, <2>3, <2>4 DEF Next
  <1> QED
    BY LinkInvariance, <1>1, PTL DEF Spec, ReturnsWholeVerdict

(* As long as no request preempts serial inside the handling of a late     *)
(* byte, my_data_parsing judges a request at most once: what follows the   *)
(* frame on the line never overturns READ_OK or ERROR_DATA.                *)
THEOREM OneVerdict == Spec => JudgedOnce
  <1> DEFINE Judged == uart_flag \in {UART_READ_OK, UART_ERROR_DATA}
             Once == ~NewRequest /\ ~raced /\ Judged /\ uart_flag' # uart_flag
                        => uart_flag' = UART_ERROR_TIMEOUT
  <1>1. LinkInv /\ [Next]_vars => [Once]_vars
    <2> SUFFICES ASSUME LinkInv, Next, ~NewRequest, ~raced, Judged,
                        uart_flag' # uart_flag
                 PROVE  uart_flag' = UART_ERROR_TIMEOUT
      OBVIOUS
    <2>1. CASE Main
      <3>1. CASE get_uart_flag
        BY <3>1 DEF get_uart_flag, frameVars
      <3>2. CASE \E cmd, end, ticks : Request(cmd, end, ticks)
        BY <3>2 DEF Request, RequestFrom, NewRequest
      <3> QED
        BY <2>1, <3>1, <3>2
           DEF Main, my_uart_SetData, my_uart_GetData, ms_open_valve
    <2>2. CASE Serial
      <3>1. ~Parse
        BY DEF Parse, ParseLeaving, SerialGo, LinkInv, VerdictGuard
      <3> QED
        BY <2>2, <3>1
           DEF Serial, ReadNone, ResetSem, TakeSem, ReadByte, StoreByte,
               ArmByteTimeout, ArmTo, CompareLen, CompareBy, ClearTimeout,
               frameVars
    <2>3. CASE Timeout
      BY <2>3 DEF Timeout, TestTimeout, LoadTimeout, SaveTimeout, SaveAs, TestFlag,
                  TestZero, Expire
    <2>4. CASE Meter \/ Line \/ Shell
      BY <2>4 DEF Meter, Answer, Line, uart_rx_ind, DisturbByte, Deliver, LoseByte,
                  Shell, ms_uart_fs, LineStep, frameVars
    <2> QED
      BY <2>1, <2>2, <2>3, <2>4 DEF Next
  <1> QED
    BY LinkInvariance, <1>1, PTL DEF Spec, JudgedOnce
=============================================================================
