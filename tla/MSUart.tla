------------------------------- MODULE MSUart -------------------------------
(***************************************************************************)
(* The infrared link of the tester to the gas meter (MS_Uart.c): one       *)
(* request at a time, sent by the main thread, answered by the meter with  *)
(* one frame                                                               *)
(*                                                                         *)
(*      @ A <command> <payload> <checksum: 2 hex digits> *                 *)
(*                                                                         *)
(* Four parties share the variables of MS_Uart.c without any lock:         *)
(*   - the receive interrupt (uart_rx_ind), above every thread;            *)
(*   - main (priority 10): my_uart_SetData, my_uart_GetData,               *)
(*     ms_open_valve and get_uart_flag;                                    *)
(*   - serial (priority 11): data_parsing, one byte after the other;       *)
(*   - timeout_uart (priority 12): data_timeout_parsing, every 50 ms.      *)
(* The scheduler is strictly by priority: a thread moves only while the    *)
(* threads above it sleep, and it may be preempted between any two of its  *)
(* accesses to memory.  So main's functions are atomic here, serial is cut *)
(* where main or the interrupt can see a difference, and timeout_uart is   *)
(* cut at every load and store (the image is built without optimisation).  *)
(***************************************************************************)
EXTENDS Integers, Sequences

CONSTANTS
    SetFlags,    \* which of the three set commands main issues (0..2)
    GetFlags,    \* which of the three get commands main issues (0..2)
    Chooses,     \* the tester modes main issues them in (0..2)
    ValveUsed,   \* whether main issues ms_open_valve
    ShellGets,   \* get commands typed in the shell (ms_uart_fs, fs1, fs2)
    Payloads,    \* the payloads the meter may answer with
    Noise,       \* bytes a disturbed byte may turn into
    SetTicks,    \* deadline of a set request, in 50 ms ticks: 40
    GetTicks,    \* deadline of a get request: 80
    ValveTicks,  \* deadline of ms_open_valve: 120
    ByteTicks,   \* deadline after a received byte: 10
    TimeWrap,    \* number of values of uart_timeot, a uint8_t: 256
    LenWrap,     \* number of values of data_len, a uint8_t: 256
    DataMax,     \* ONE_DATA_MAXLEN, the size of data[]: 100
    MaxRequests, \* bound: requests of one behaviour, the shell's included
    MaxShell,    \* bound: those of them typed in the shell
    MaxFaults,   \* bound: bytes lost or disturbed on the line
    RxDepth      \* bound: bytes waiting in the driver's receive buffer

(* Values of uart_flag. *)
UART_WAIT == 0
UART_ERROR_TIMEOUT == 1
UART_ERROR_DATA == 2
UART_READ_OK == 3

Byte == 0..255

(* Characters the code names. *)
chAt == 64
chA == 65
chB == 66
chE == 69
chF == 70
chG == 71
chI == 73
chR == 82
chStar == 42
ch0 == 48
chCR == 13

MS_Set_Command == <<chA, chE, chG>>
MS_Get_Command == <<chB, chF, chI>>
Commands == {chA, chE, chG, chB, chF, chI, chR}

(* What uart_get_data holds once hex_number has been given a byte that is *)
(* no hex digit: the function then returns no value.                      *)
Junk == -1

ASSUME LinkAssumption ==
    /\ SetFlags \subseteq 0..2
    /\ GetFlags \subseteq 0..2
    /\ Chooses \subseteq 0..2
    /\ ShellGets \subseteq 0..2
    /\ ValveUsed \in BOOLEAN
    /\ Payloads \subseteq Seq(Byte)
    /\ Noise \subseteq Byte
    /\ DataMax \in Nat /\ DataMax >= 33

ASSUME TickAssumption ==
    /\ TimeWrap \in Nat
    /\ LenWrap \in Nat /\ DataMax < LenWrap
    /\ \A n \in {SetTicks, GetTicks, ValveTicks, ByteTicks} :
          n \in Nat /\ 0 < n /\ n < TimeWrap

ASSUME BoundAssumption ==
    /\ MaxRequests \in Nat /\ MaxFaults \in Nat
    /\ MaxShell \in Nat /\ RxDepth \in Nat \ {0}

-----------------------------------------------------------------------------
(* Conversions and the frame format. *)

number_hex(n) == IF n >= 10 THEN n - 10 + chA ELSE n + ch0

HexDigit(b) == b \in 48..57 \/ b \in 65..70 \/ b \in 97..102

hex_number(b) ==
    CASE b \in 65..70 -> b - 55 [] b \in 97..102 -> b - 87 [] b \in 48..57 -> b - 48

(* The sum, modulo 256, of the bytes i..j of f. *)
CheckSum(f, i, j) ==
    LET sum[n \in (i - 1)..j] == IF n < i THEN 0 ELSE (sum[n - 1] + f[n]) % 256
    IN  sum[j]

(* The meter's answer to a command (external). *)
Frame(cmd, p) ==
    LET body == <<chAt, chA, cmd>> \o p
        sum == CheckSum(body, 2, Len(body))
    IN  body \o <<number_hex(sum \div 16), number_hex(sum % 16), chStar, chCR>>

(* The hex number in the bytes i..j of f, most significant digit first. *)
HexNumber(f, i, j) ==
    LET val[n \in (i - 1)..j] ==
            IF n < i THEN 0 ELSE 16 * val[n - 1] + hex_number(f[n])
    IN  IF \A n \in i..j : HexDigit(f[n]) THEN val[j] ELSE Junk

Bit(n, k) == (n \div 2^k) % 2

(* The alarms of an 'I' frame: where[k] names the byte and the bit that    *)
(* bit k - 1 of the result is taken from.                                  *)
AlarmBits(f, where) ==
    LET bits[k \in 0..Len(where)] ==
            IF k = 0 THEN 0
            ELSE bits[k - 1]
                   + 2^(k - 1) * Bit(hex_number(f[where[k][1]]), where[k][2])
    IN  IF \A k \in 1..Len(where) : HexDigit(f[where[k][1]])
        THEN bits[Len(where)] ELSE Junk

ShortAlarms == << <<4, 0>>, <<4, 1>> >>
LongAlarms == ShortAlarms \o << <<5, 0>>, <<6, 0>>, <<6, 1>>, <<6, 2>>,
                                <<6, 3>>, <<7, 0>>, <<7, 1>>, <<7, 2>> >>

(* Planted defect: the checksum digits are not compared. *)
FrameOK_NoCheckSum(f, n) == f[n - 1] = chStar

(* What my_data_parsing tests before it looks at the command: f is the     *)
(* array data, n is data_len.                                              *)
FrameOK(f, n) ==
    LET sum == CheckSum(f, 1, n - 4)
    IN  /\ f[n - 1] = chStar
        /\ f[n - 3] = number_hex(sum \div 16)
        /\ f[n - 2] = number_hex(sum % 16)

(* The values it leaves in uart_flag and uart_get_data, given the old ones. *)
FlagOf(f, n, flag) ==
    CASE ~FrameOK(f, n) -> UART_ERROR_DATA
      [] FrameOK(f, n) /\ f[2] \in {chA, chE, chG} ->
            IF f[3] = ch0 THEN UART_READ_OK ELSE UART_ERROR_DATA
      [] FrameOK(f, n) /\ f[2] \in {chB, chF, chI, chR} -> UART_READ_OK
      [] OTHER -> flag

(* Planted defect: the eight byte alarm frame is not decoded. *)
DataOf_NoShortAlarms(f, n, old) ==
    IF FrameOK(f, n) /\ f[2] = chI /\ n = 11 THEN AlarmBits(f, LongAlarms) ELSE old

DataOf(f, n, old) ==
    CASE ~FrameOK(f, n)                        -> old
      [] FrameOK(f, n) /\ f[2] \in {chB, chF}  -> HexNumber(f, 3, n - 4)
      [] FrameOK(f, n) /\ f[2] = chI /\ n = 8  -> AlarmBits(f, ShortAlarms)
      [] FrameOK(f, n) /\ f[2] = chI /\ n = 11 -> AlarmBits(f, LongAlarms)
      [] FrameOK(f, n) /\ f[2] = chR           -> f[n - 4]
      [] OTHER                                 -> old

-----------------------------------------------------------------------------
VARIABLES
    \* static variables of MS_Uart.c
    data_end, data_len, uart_timeot, uart_flag, uart_commend, data,
    uart_get_data,
    \* main: where it is, what get_uart_flag and get_UartData last returned
    mpc, result, value,
    \* serial: where it is, the byte in hand, the index it has loaded, and
    \* whether main has preempted it inside my_data_parsing (a register or
    \* local variable that is no longer needed is set back to 0)
    spc, ch, idx, torn,
    \* timeout_uart: where it is and the register it decrements
    tpc, reg,
    \* the driver: received bytes, and whether the value of the semaphore
    \* released for them is above zero (no more of it is ever looked at, as
    \* serial clears the semaphore every time before it waits)
    fifo, rx_sem,
    \* the line: bytes under way, the requests made and the meter's answers,
    \* commands typed in the shell, bytes lost or disturbed
    line, answers, typed, faults,
    \* history: the index of the current request, whether the line has been
    \* silent but for its answer, and whether the request preempted serial
    \* inside the handling of a late byte
    mine, alone, raced

frameVars == <<data_end, data_len, uart_commend, data>>
mainVars == <<mpc, result, value>>
regVars == <<ch, idx, torn>>
timeoutVars == <<tpc, reg>>
driverVars == <<fifo, rx_sem>>
lineVars == <<line, answers, typed, faults>>
historyVars == <<mine, alone, raced>>
vars == <<frameVars, uart_timeot, uart_flag, uart_get_data, mainVars, spc,
          regVars, timeoutVars, driverVars, lineVars, historyVars>>

(* uart_data_sample has created the threads, and data_parsing has cleared *)
(* data_end: every byte is dropped until the first request.               *)
Init ==
    /\ data_end = 0 /\ data_len = 0 /\ uart_timeot = 0
    /\ uart_flag = UART_WAIT /\ uart_commend = 0 /\ uart_get_data = 0
    /\ data = [i \in 0..(DataMax - 1) |-> 0]
    /\ mpc = "idle" /\ result = UART_WAIT /\ value = 0
    /\ spc = "read" /\ ch = 0 /\ idx = 0 /\ torn = FALSE
    /\ tpc = "test" /\ reg = 0
    /\ fifo = <<>> /\ rx_sem = FALSE
    /\ line = <<>> /\ answers = <<>> /\ typed = 0 /\ faults = 0
    /\ mine = 0 /\ alone = TRUE /\ raced = FALSE

-----------------------------------------------------------------------------
(* main *)

(* What every request does besides encoding and sending its frame: it      *)
(* rewinds the parser and starts the deadline.  Bytes that arrive while    *)
(* the frame is being sent wait in fifo, as serial cannot run then.        *)
RequestFrom(flag, cmd, end, ticks) ==
    /\ mpc = "idle" /\ mpc' = "wait"
    /\ Len(answers) < MaxRequests
    /\ uart_commend' = cmd
    /\ data_end' = end /\ data_len' = 0
    /\ uart_flag' = flag
    /\ uart_timeot' = ticks
    /\ torn' = (torn \/ spc = "parse")
    /\ answers' = Append(answers, [by |-> "main", cmd |-> cmd, end |-> end,
                                   p |-> <<>>])
    /\ mine' = Len(answers) + 1
    /\ alone' = (line = <<>> /\ fifo = <<>> /\ spc \in {"read", "reset", "take"})
    /\ raced' = (spc \in {"store", "parse"})
    /\ UNCHANGED <<data, uart_get_data, result, value, spc, ch, idx,
                   timeoutVars, driverVars, line, typed, faults>>

(* Planted defect: a request does not take back the verdict of the last. *)
Request_KeepsVerdict(cmd, end, ticks) == RequestFrom(uart_flag, cmd, end, ticks)

Request(cmd, end, ticks) == RequestFrom(UART_WAIT, cmd, end, ticks)

my_uart_SetData(flag) == Request(MS_Set_Command[flag + 1], 7, SetTicks)

GetEnd(flag, choose) ==
    CASE flag = 0 -> IF choose = 0 THEN 12 ELSE 14
      [] flag = 1 -> 12
      [] flag = 2 -> IF choose = 0 THEN 8 ELSE 11

my_uart_GetData(flag, choose) ==
    Request(MS_Get_Command[flag + 1], GetEnd(flag, choose), GetTicks)

ms_open_valve == Request(chR, 33, ValveTicks)

(* get_uart_flag leaves its loop and the caller fetches the value: main    *)
(* does not sleep between the last look at uart_timeot and get_UartData.   *)
get_uart_flag ==
    /\ mpc = "wait" /\ mpc' = "idle"
    /\ uart_timeot = 0
    /\ result' = uart_flag
    /\ value' = uart_get_data
    /\ UNCHANGED <<frameVars, uart_timeot, uart_flag, uart_get_data, spc,
                   regVars, timeoutVars, driverVars, lineVars, historyVars>>

-----------------------------------------------------------------------------
(* serial *)

SerialGo(from, to) ==
    /\ spc = from /\ spc' = to
    /\ UNCHANGED <<mainVars, timeoutVars, lineVars, historyVars>>

(* uart_sample_get_char finds no byte: it clears the semaphore and waits.  *)
ReadNone ==
    /\ fifo = <<>>
    /\ SerialGo("read", "reset")
    /\ UNCHANGED <<frameVars, uart_timeot, uart_flag, uart_get_data, regVars,
                   driverVars>>

ResetSem ==
    /\ SerialGo("reset", "take")
    /\ rx_sem' = FALSE
    /\ UNCHANGED <<frameVars, uart_timeot, uart_flag, uart_get_data, regVars,
                   fifo>>

TakeSem ==
    /\ rx_sem /\ rx_sem' = FALSE
    /\ SerialGo("take", "read")
    /\ UNCHANGED <<frameVars, uart_timeot, uart_flag, uart_get_data, regVars,
                   fifo>>

Acceptable(b) ==
    \/ data_len = 0 /\ b = chAt
    \/ data_len = 1 /\ b = chA
    \/ data_len = 2 /\ b = uart_commend
    \/ data_len >= 3

(* It finds a byte, to which data_parsing applies its conditions; data_len *)
(* is loaded as the index.                                                 *)
ReadByte ==
    /\ fifo # <<>> /\ fifo' = Tail(fifo)
    /\ \/ data_end = 0 /\ SerialGo("read", "read") /\ UNCHANGED <<ch, idx>>
       \/ /\ data_end # 0 /\ Acceptable(Head(fifo))
          /\ SerialGo("read", "store")
          /\ ch' = Head(fifo) /\ idx' = data_len
       \/ /\ data_end # 0 /\ ~Acceptable(Head(fifo))
          /\ SerialGo("read", "compare")
          /\ UNCHANGED <<ch, idx>>
    /\ UNCHANGED <<frameVars, uart_timeot, uart_flag, uart_get_data, torn,
                   rx_sem>>

(* data[data_len++] = ch, with data_len incremented in a register.  The    *)
(* guard is a bound of the model, DataMax: the code has no such test.      *)
StoreByte ==
    /\ SerialGo("store", "arm")
    /\ idx < DataMax
    /\ data_len' = (idx + 1) % LenWrap
    /\ data' = [data EXCEPT ![idx] = ch]
    /\ ch' = 0 /\ idx' = 0
    /\ UNCHANGED <<data_end, uart_timeot, uart_flag, uart_commend,
                   uart_get_data, torn, driverVars>>

ArmTo(ticks) ==
    /\ SerialGo("arm", "compare")
    /\ uart_timeot' = ticks
    /\ UNCHANGED <<frameVars, uart_flag, uart_get_data, regVars, driverVars>>

(* Planted defect: a received byte does not extend the deadline. *)
ArmByteTimeout_Forgotten == ArmTo(uart_timeot)

ArmByteTimeout == ArmTo(ByteTicks)

CompareBy(complete) ==
    /\ SerialGo("compare", IF complete THEN "parse" ELSE "read")
    /\ torn' = FALSE
    /\ UNCHANGED <<frameVars, uart_timeot, uart_flag, uart_get_data, ch, idx,
                   driverVars>>

(* Planted defect: every byte after the frame parses the buffer again. *)
CompareLen_AtLeast == CompareBy(data_len >= data_end)

CompareLen == CompareBy(data_len = data_end)

(* my_data_parsing up to its last statement.  If main has started another  *)
(* request meanwhile, data_len has changed under the parser's feet: it     *)
(* reads the frame at the wrong places and may come to any verdict.        *)
ParseLeaving(ticks) ==
    /\ SerialGo("parse", "clear")
    /\ \/ /\ ~torn
          /\ uart_flag' = FlagOf(data, data_len, uart_flag)
          /\ uart_get_data' = DataOf(data, data_len, uart_get_data)
       \/ /\ torn
          /\ uart_flag' \in {uart_flag, UART_ERROR_DATA, UART_READ_OK}
          /\ uart_get_data' \in {uart_get_data, Junk}
    /\ torn' = FALSE
    /\ uart_timeot' = ticks
    /\ UNCHANGED <<frameVars, ch, idx, driverVars>>

(* Planted defect: the parser stops the deadline before its verdict. *)
Parse_ClearsFirst == ParseLeaving(0)

Parse == ParseLeaving(uart_timeot)

(* Its last statement. *)
ClearTimeout ==
    /\ SerialGo("clear", "read")
    /\ uart_timeot' = 0
    /\ UNCHANGED <<frameVars, uart_flag, uart_get_data, regVars, driverVars>>

Serial ==
    \/ ReadNone \/ ResetSem \/ TakeSem \/ ReadByte \/ StoreByte
    \/ ArmByteTimeout \/ CompareLen \/ Parse \/ ClearTimeout

-----------------------------------------------------------------------------
(* timeout_uart: runs only while serial waits for the semaphore. *)

TimeoutGo(from, to) ==
    /\ spc = "take" /\ rx_sem = FALSE
    /\ tpc = from /\ tpc' = to
    /\ UNCHANGED <<frameVars, uart_get_data, mainVars, spc, regVars,
                   driverVars, lineVars, historyVars>>

(* Planted defect: the deadline only runs while no verdict is given. *)
TestTimeout_OnlyWaiting ==
    /\ TimeoutGo("test", IF uart_timeot # 0 /\ uart_flag = UART_WAIT
                         THEN "load" ELSE "flag")
    /\ UNCHANGED <<uart_timeot, uart_flag, reg>>

(* Awake after 50 ms: if(uart_timeot). *)
TestTimeout ==
    /\ TimeoutGo("test", IF uart_timeot # 0 THEN "load" ELSE "flag")
    /\ UNCHANGED <<uart_timeot, uart_flag, reg>>

(* uart_timeot--: a load, a subtraction and a store. *)
LoadTimeout ==
    /\ TimeoutGo("load", "save")
    /\ reg' = uart_timeot
    /\ UNCHANGED <<uart_timeot, uart_flag>>

SaveAs(ticks) ==
    /\ TimeoutGo("save", "flag")
    /\ uart_timeot' = ticks /\ reg' = 0
    /\ UNCHANGED uart_flag

SaveTimeout == SaveAs((reg - 1) % TimeWrap)

(* if(uart_flag == UART_WAIT && uart_timeot == 0), two loads. *)
TestFlag ==
    /\ TimeoutGo("flag", IF uart_flag = UART_WAIT THEN "zero" ELSE "test")
    /\ UNCHANGED <<uart_timeot, uart_flag, reg>>

TestZero ==
    /\ TimeoutGo("zero", IF uart_timeot = 0 THEN "expire" ELSE "test")
    /\ UNCHANGED <<uart_timeot, uart_flag, reg>>

Expire ==
    /\ TimeoutGo("expire", "test")
    /\ uart_flag' = UART_ERROR_TIMEOUT
    /\ UNCHANGED <<uart_timeot, reg>>

Timeout ==
    \/ TestTimeout \/ LoadTimeout \/ SaveTimeout
    \/ TestFlag \/ TestZero \/ Expire

-----------------------------------------------------------------------------
(* The interrupt, the line and the meter. *)

LineStep == UNCHANGED <<frameVars, uart_timeot, uart_flag, uart_get_data,
                        mainVars, spc, regVars, timeoutVars, mine, raced>>

(* The receive interrupt: the driver stores the byte, uart_rx_ind releases *)
(* the semaphore.                                                          *)
Deliver(b) ==
    /\ line # <<>> /\ line' = Tail(line)
    /\ Len(fifo) < RxDepth
    /\ fifo' = Append(fifo, b)
    /\ rx_sem' = TRUE
    /\ LineStep
    /\ UNCHANGED <<answers, typed, alone>>

uart_rx_ind == Deliver(Head(line)) /\ UNCHANGED faults

(* A byte disturbed or lost on the infrared line (external). *)
Fault == faults < MaxFaults /\ faults' = faults + 1

DisturbByte == Fault /\ \E b \in Noise : Deliver(b)

LoseByte ==
    /\ Fault
    /\ line # <<>> /\ line' = Tail(line)
    /\ LineStep
    /\ UNCHANGED <<answers, typed, driverVars, alone>>

(* The meter answers a request, in the order of the requests, at any time  *)
(* after it was made, or not at all (external).                            *)
Answer(i) ==
    /\ \A j \in i..Len(answers) : answers[j].p = <<>>
    /\ \E p \in Payloads :
          /\ Len(p) = answers[i].end - 6
          /\ answers' = [answers EXCEPT ![i].p = p]
          /\ line' = line \o Frame(answers[i].cmd, p)
    /\ alone' = (alone /\ i = mine)
    /\ LineStep
    /\ UNCHANGED <<driverVars, typed, faults>>

(* ms_uart_fs, ms_uart_fs1 and ms_uart_fs2: the shell sends a get command  *)
(* and leaves the parser as it is.                                         *)
ms_uart_fs(flag) ==
    /\ spc = "take" /\ rx_sem = FALSE
    /\ Len(answers) < MaxRequests
    /\ typed < MaxShell /\ typed' = typed + 1
    /\ \E choose \in Chooses :
          answers' = Append(answers,
              [by |-> "shell", cmd |-> MS_Get_Command[flag + 1],
               end |-> GetEnd(flag, choose), p |-> <<>>])
    /\ LineStep
    /\ UNCHANGED <<driverVars, line, faults, alone>>

Main ==
    \/ \E flag \in SetFlags : my_uart_SetData(flag)
    \/ \E flag \in GetFlags, choose \in Chooses : my_uart_GetData(flag, choose)
    \/ ValveUsed /\ ms_open_valve
    \/ get_uart_flag
Meter == \E i \in DOMAIN answers : Answer(i)
Line == uart_rx_ind \/ DisturbByte \/ LoseByte
Shell == \E flag \in ShellGets : ms_uart_fs(flag)

Next == Main \/ Serial \/ Timeout \/ Meter \/ Line \/ Shell

Spec == Init /\ [][Next]_vars

(* main, serial and timeout_uart are started and never ended, and whoever  *)
(* is above them sleeps again and again: each of them goes on eventually.  *)
(* Nothing is assumed of the meter, the line and the shell.                *)
FairSpec == Spec /\ WF_vars(get_uart_flag) /\ WF_vars(Serial) /\ WF_vars(Timeout)

-----------------------------------------------------------------------------
(* Properties *)

(* Type invariant of the link: the part the control depends on ... *)
CtlTypeOK ==
    /\ data_end \in {0, 7, 8, 11, 12, 14, 33}
    /\ data_len \in 0..DataMax
    /\ uart_timeot \in 0..(TimeWrap - 1)
    /\ uart_flag \in 0..3
    /\ mpc \in {"idle", "wait"}
    /\ result \in 0..3
    /\ spc \in {"read", "reset", "take", "store", "arm", "compare", "parse",
               "clear"}
    /\ idx \in 0..DataMax
    /\ torn \in BOOLEAN
    /\ tpc \in {"test", "load", "save", "flag", "zero", "expire"}
    /\ reg \in 0..(TimeWrap - 1)
    /\ rx_sem \in BOOLEAN
    /\ alone \in BOOLEAN
    /\ raced \in BOOLEAN

(* ... and the bytes. *)
TypeOK ==
    /\ CtlTypeOK
    /\ uart_commend \in Commands \cup {0}
    /\ data \in [0..(DataMax - 1) -> Byte]
    /\ uart_get_data \in Int
    /\ value \in Int
    /\ ch \in Byte
    /\ fifo \in Seq(Byte)
    /\ line \in Seq(Byte)
    /\ answers \in Seq([by : {"main", "shell"}, cmd : Commands,
                        end : {7, 8, 11, 12, 14, 33}, p : Seq(Byte)])
    /\ typed \in 0..MaxShell
    /\ faults \in 0..MaxFaults
    /\ mine \in 0..Len(answers)

(* While my_data_parsing is at work the deadline is running, however main  *)
(* preempts it: it is the last statement of the parser that stops it.      *)
ParseGuard == spc \in {"parse", "clear"} => uart_timeot # 0

(* serial reaches the comparison of data_len and data_end with the         *)
(* deadline running, or with less than three bytes stored.                 *)
CompareGuard ==
    /\ spc \in {"store", "arm", "compare", "parse", "clear"} => data_end # 0
    /\ spc = "compare" => uart_timeot # 0 \/ data_len < 3

(* How far serial is, seen from the verdict: the parser runs on a frame of *)
(* exactly data_end bytes, and after it the buffer only grows.             *)
VerdictGuard ==
    ~raced =>
        /\ spc = "parse" => data_len = data_end
        /\ uart_flag \in {UART_READ_OK, UART_ERROR_DATA} =>
              /\ spc # "parse"
              /\ data_len >= data_end
              /\ spc = "store" => idx >= data_end
              /\ spc \in {"arm", "compare"} => data_len > data_end

(* The inductive invariant of the link. *)
LinkInv == CtlTypeOK /\ ParseGuard /\ CompareGuard /\ VerdictGuard

(* get_uart_flag never returns in the middle of my_data_parsing, when      *)
(* uart_flag already says READ_OK and uart_get_data is half computed.      *)
ReturnsWholeVerdict ==
    [][mpc = "wait" /\ mpc' = "idle" => spc \notin {"parse", "clear"}]_vars

(* What the meter said: the payload p of an answer to cmd, read as a       *)
(* number v.                                                               *)
Says(cmd, p, v) ==
    LET where == IF Len(p) = 2 THEN ShortAlarms ELSE LongAlarms
    IN  CASE cmd \in {chA, chE, chG} -> p[1] = ch0
          [] cmd \in {chB, chF} ->
                /\ v >= 0 /\ v \div 16^(Len(p) - 1) < 16
                /\ \A k \in 1..Len(p) :
                      (v \div 16^(Len(p) - k)) % 16 = hex_number(p[k])
          [] cmd = chI ->
                /\ v \in 0..(2^Len(where) - 1)
                /\ \A k \in 1..Len(where) :
                      Bit(v, k - 1) = Bit(hex_number(p[where[k][1] - 2]),
                                          where[k][2])
          [] cmd = chR -> v = p[Len(p)]

(* A request made on a silent line that returns READ_OK has been answered  *)
(* by the meter, and main gets what the meter said in this answer: a byte  *)
(* lost or disturbed on the way is always noticed, by the filter on the    *)
(* first three bytes, the checksum or the final '*'.                       *)
ValueSound ==
    mpc = "idle" /\ result = UART_READ_OK /\ alone /\ faults <= 1 =>
        /\ answers[mine].p # <<>>
        /\ Says(answers[mine].cmd, answers[mine].p, value)

(* Even when late bytes of earlier answers or answers to shell commands    *)
(* are under way, READ_OK is backed by an answer to the same command       *)
(* (perhaps an old one: frames carry no number), unless the request came   *)
(* just between serial's load and store of data_len or inside the parser.  *)
AnswerOfSameCommand ==
    mpc = "idle" /\ result = UART_READ_OK /\ ~raced /\ faults <= 1 =>
        \E i \in 1..Len(answers) :
            /\ answers[i].cmd = uart_commend
            /\ answers[i].p # <<>>
            /\ Says(answers[i].cmd, answers[i].p, value)

(* The step in which main makes a request. *)
NewRequest == mpc = "idle" /\ mpc' = "wait"

(* A request is judged once: bytes that follow the frame (the final CR,    *)
(* noise) never make the parser run again, so a verdict is replaced only   *)
(* by the next request or by a timeout that was already being declared.    *)
JudgedOnce ==
    [][/\ ~NewRequest /\ ~raced
       /\ uart_flag \in {UART_READ_OK, UART_ERROR_DATA}
       /\ uart_flag' # uart_flag
       => uart_flag' = UART_ERROR_TIMEOUT]_vars

(* get_uart_flag returns, whatever the meter does and whichever way the    *)
(* threads race for uart_timeot (a lost decrement, a wrap below zero, a    *)
(* semaphore reset that swallows a byte's release), as long as the number  *)
(* of bytes on the line is finite.                                         *)
Returns == (mpc = "wait") ~> (mpc = "idle")
=============================================================================
