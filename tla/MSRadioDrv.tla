----------------------------- MODULE MSRadioDrv -----------------------------
(***************************************************************************)
(* The driver of the AX5043 radio chip (Radio_4068.c, Radio_Common.c).     *)
(*                                                                         *)
(* The chip's interrupt line rises when an unmasked condition comes true;  *)
(* the edge, and only the edge, releases IRQ2_Sem.  rf_4068_task (priority *)
(* 8) takes it and acts by ubRFState.  The radio is set up by main (10) at *)
(* the start of the program and again by the shell's sendlow (20), which   *)
(* also sends a packet; both wait for the task to change ubRFState.        *)
(*                                                                         *)
(* Code is a sequence of operations: transfers to the chip, and stores to  *)
(* ubRFState.  The task runs whenever the semaphore lets it, except that a *)
(* transfer of the lower thread that has begun is finished first (the SPI  *)
(* bus has a lock).  Registers that do not influence the control are left  *)
(* out, and so are the states that no code sets (pll_settling, the         *)
(* preamble states between two interrupts) and the send timer, which is    *)
(* made but never started.                                                 *)
(***************************************************************************)
EXTENDS Integers, Sequences

CONSTANTS
    Tunings,        \* ranging attempts of simple_autorange_pll: 29
    MaxPackets,     \* bound: packets on the air
    MaxSends        \* bound: sendlow commands

ASSUME DriverAssumption ==
    Tunings \in Nat \ {0} /\ MaxPackets \in Nat /\ MaxSends \in Nat

VARIABLES
    chip,               \* the AX5043 (external)
    ubRFState, RXBuff, RxLen, ubRssi,
    IRQ2_Sem,
    task,               \* what rf_4068_task has still to do; <<>>: it waits
    setup,              \* what main or the shell has still to do
    late,               \* it has finished the transfer the interrupt met
    packets, sends,     \* counters
    air,                \* the packet whose signal strength is still to come
    handed, burst,      \* history: the last packet given to the decoder, and
                        \* whose chunks ReceiveData took this time
    crossed             \* history: an interrupt met Normal_send

rxVars == <<RXBuff, RxLen, ubRssi>>
history == <<handed, burst, crossed>>
vars == <<chip, ubRFState, rxVars, IRQ2_Sem, task, setup, late, packets, sends, air,
          history>>

-----------------------------------------------------------------------------
(* The chip (external) *)

ResetChip == [pwr |-> "down", mask0 |-> "none", mask1 |-> "none", xtal |-> FALSE,
              range |-> "idle", fifo |-> <<>>, done |-> FALSE, sending |-> FALSE]

(* The level of its interrupt line. *)
Level(c) ==
    \/ c.mask0 = "fifo" /\ c.fifo # <<>>
    \/ c.mask0 = "free" /\ c.pwr # "down"
    \/ c.mask0 = "radio" /\ c.done
    \/ c.mask1 = "xtal" /\ c.xtal
    \/ c.mask1 = "range" /\ c.range = "done"

(* A transfer: a register gets a value. *)
Write(c, op) ==
    CASE op[1] = "pwr"   -> IF op[2] = "down"
                            THEN [c EXCEPT !.pwr = "down", !.xtal = FALSE, !.fifo = <<>>,
                                           !.sending = FALSE]
                            ELSE [c EXCEPT !.pwr = op[2], !.sending = (op[2] = "tx")]
      [] op[1] = "mask0" -> [c EXCEPT !.mask0 = op[2]]
      [] op[1] = "mask1" -> [c EXCEPT !.mask1 = op[2]]
      [] op[1] = "reset" -> ResetChip
      [] op[1] = "range" -> [c EXCEPT !.range = "busy"]
      [] op[1] = "clear" -> [c EXCEPT !.fifo = <<>>]
      [] op[1] = "event" -> [c EXCEPT !.done = FALSE]

Writes == {"pwr", "mask0", "mask1", "reset", "range", "clear", "event"}

(* IRQ2_ISR: the semaphore is released when the line rises. *)
SemAfter(sem) == IF ~Level(chip) /\ Level(chip') THEN sem + 1 ELSE sem

ChipVars == <<ubRFState, rxVars, task, setup, late, sends, history>>

XtalReady ==
    /\ chip.pwr # "down" /\ ~chip.xtal
    /\ chip' = [chip EXCEPT !.xtal = TRUE] /\ IRQ2_Sem' = SemAfter(IRQ2_Sem)
    /\ UNCHANGED <<ChipVars, packets, air>>

RangingDone ==
    /\ chip.range = "busy"
    /\ chip' = [chip EXCEPT !.range = "done"] /\ IRQ2_Sem' = SemAfter(IRQ2_Sem)
    /\ UNCHANGED <<ChipVars, packets, air>>

(* A packet is received, or only the start of one; then its strength.  A   *)
(* transmission ends.                                                      *)
Chunk(k) ==
    /\ chip.pwr = "rx"
    /\ \/ k \in {"data", "other"} /\ air = 0
          /\ packets < MaxPackets /\ packets' = packets + 1
          /\ air' = IF k = "data" THEN packets' ELSE 0
       \/ k = "rssi" /\ air # 0 /\ air' = 0 /\ UNCHANGED packets
    /\ chip' = [chip EXCEPT !.fifo =
                  Append(@, <<k, IF k = "rssi" THEN air ELSE packets'>>)]
    /\ IRQ2_Sem' = SemAfter(IRQ2_Sem)
    /\ UNCHANGED ChipVars

SignalGone ==
    /\ chip.pwr # "rx" /\ air # 0 /\ air' = 0
    /\ UNCHANGED <<chip, IRQ2_Sem, ChipVars, packets>>

SendDone ==
    /\ chip.sending
    /\ chip' = [chip EXCEPT !.sending = FALSE, !.done = TRUE]
    /\ IRQ2_Sem' = SemAfter(IRQ2_Sem)
    /\ UNCHANGED <<ChipVars, packets, air>>

Chip == XtalReady \/ RangingDone \/ (\E k \in {"data", "other", "rssi"} : Chunk(k))
          \/ SignalGone \/ SendDone

-----------------------------------------------------------------------------
(* The code: sequences of operations.  <<"while", s>> waits as long as     *)
(* ubRFState is s, <<"poll", r>> until the chip reports r.                 *)

Ax5043_OFF == << <<"mask0", "none">>, <<"mask1", "none">>, <<"pwr", "xtal">>,
                 <<"state", "off">>, <<"pwr", "down">> >>

(* Ax5043_Reset, InitAx5043REG, Ax5043SetRegisters_TX: nothing else.       *)
Ax5043_Reset == << <<"reset", "">> >>

RadioXtalON_MaskFirst == << <<"mask1", "xtal">>, <<"pwr", "xtal">>,     \* planted defect
                            <<"state", "wait_xtal">>, <<"while", "wait_xtal">> >>

RadioXtalON == << <<"state", "wait_xtal">>, <<"mask1", "xtal">>, <<"pwr", "xtal">>,
                  <<"while", "wait_xtal">> >>

rf_startup ==
    Ax5043_OFF \o Ax5043_Reset \o << <<"pwr", "xtal">> >> \o RadioXtalON \o
    << <<"state", "pll_ranging">>, <<"mask1", "range">>, <<"range", "">>,
       <<"while", "pll_ranging">>, <<"state", "off">>, <<"mask1", "none">>,
       <<"pwr", "down">>, <<"state", "rx">> >>

PLLRang_wait_for_xtal == << <<"mask1", "xtal">>, <<"poll", "xtal">>, <<"mask1", "none">> >>

TryTuning == << <<"mask1", "none">>, <<"mask1", "range">>, <<"range", "">>,
                <<"poll", "range">>, <<"mask1", "none">> >>

(* TryTuning, n times. *)
Times(n) == [m \in 1..(n * Len(TryTuning)) |-> TryTuning[1 + ((m - 1) % Len(TryTuning))]]

simple_autorange_pll ==
    << <<"pwr", "xtal">> >> \o PLLRang_wait_for_xtal \o Times(Tunings) \o
    Tail(TryTuning) \o << <<"pwr", "synth">> >>

(* Planted defect: the interrupt is left masked. *)
Ax5043ReceiverON_Masked ==
    << <<"clear", "">>, <<"pwr", "rx">>, <<"state", "rx">>, <<"mask1", "none">> >>

Ax5043ReceiverON == << <<"clear", "">>, <<"pwr", "rx">>, <<"state", "rx">>,
                       <<"mask0", "fifo">>, <<"mask1", "none">> >>

rf_4068_Init == rf_startup \o simple_autorange_pll \o rf_startup \o Ax5043ReceiverON

(* Planted defect: the crystal's interrupt is not enabled. *)
Normal_send_Masked == << <<"pwr", "xtal">>, <<"pwr", "fifo">>, <<"state", "tx_xtalwait">>,
                         <<"mask0", "none">> >>

(* transmit_packet_task. *)
Normal_send == << <<"pwr", "xtal">>, <<"pwr", "fifo">>, <<"state", "tx_xtalwait">>,
                  <<"mask0", "none">>, <<"mask1", "xtal">> >>

rf_restart == Ax5043_OFF \o Ax5043_Reset \o << <<"state", "rx">> >>

Ax5043Receiver_Continuous ==
    << <<"mask0", "fifo">>, <<"clear", "">>, <<"pwr", "rx">>, <<"state", "rx">>,
       <<"mask1", "none">> >>

(* TransmitData fills the empty FIFO and goes to tx_waitdone at once. *)
TransmitData == << <<"state", "tx_waitdone">>, <<"mask0", "radio">> >>

-----------------------------------------------------------------------------
(* rf_4068_task_callback *)

(* Planted defects: the length, and the signal strength, of the last       *)
(* packet is kept.                                                         *)
ReceiveData_KeepsLen == << <<"begin", "rssi">>, <<"drain", "">> >>
ReceiveData_KeepsRssi == << <<"begin", "len">>, <<"drain", "">> >>

ReceiveData == << <<"begin", "all">>, <<"drain", "">> >>

(* tx_xtalwait: the crystal runs, the FIFO is filled. *)
XtalWait_KeepsMask == << <<"event", "">>, <<"clear", "">>, <<"mask0", "free">> >> \o
                      TransmitData \o << <<"pwr", "tx">> >>        \* planted defect

XtalWait == << <<"event", "">>, <<"clear", "">>, <<"mask1", "none">>,
               <<"mask0", "free">> >> \o TransmitData \o << <<"pwr", "tx">> >>

Handler(s) ==
    CASE s = "rx" -> ReceiveData \o Ax5043Receiver_Continuous \o << <<"hand", "">> >>
      [] s = "wait_xtal" -> << <<"mask1", "none">>, <<"state", "xtal_ready">> >>
      [] s = "pll_ranging" -> << <<"mask1", "none">>, <<"state", "pll_ranging_done">> >>
      [] s = "tx_xtalwait" -> XtalWait
      [] s = "tx_waitdone" -> << <<"event", "">>, <<"sent", "">> >>
      [] OTHER -> << <<"mask1", "none">>, <<"mask0", "none">> >>

TakeSem ==
    /\ task = <<>> /\ IRQ2_Sem > 0
    /\ IRQ2_Sem' = IRQ2_Sem - 1 /\ task' = Handler(ubRFState)
    /\ late' = FALSE
    /\ crossed' = (crossed \/ (setup # <<>> /\ Len(setup) < Len(Normal_send)
                               /\ sends > 0))
    /\ UNCHANGED <<chip, ubRFState, rxVars, setup, packets, sends, air, handed, burst>>

Op == Head(task)

(* A transfer or a store. *)
TaskWrite ==
    /\ task # <<>> /\ Op[1] \in Writes
    /\ chip' = Write(chip, Op) /\ IRQ2_Sem' = SemAfter(IRQ2_Sem)
    /\ task' = Tail(task)
    /\ UNCHANGED <<ubRFState, rxVars, setup, late, packets, sends, air, history>>

TaskStore ==
    /\ task # <<>> /\ Op[1] = "state"
    /\ ubRFState' = Op[2] /\ task' = Tail(task)
    /\ UNCHANGED <<chip, rxVars, IRQ2_Sem, setup, late, packets, sends, air, history>>

(* ReceiveData forgets the last packet ... *)
BeginReceive ==
    /\ task # <<>> /\ Op[1] = "begin" /\ task' = Tail(task)
    /\ ubRssi' = IF Op[2] \in {"all", "rssi"} THEN 0 ELSE ubRssi
    /\ RxLen' = IF Op[2] \in {"all", "len"} THEN 0 ELSE RxLen
    /\ RXBuff' = IF Op[2] \in {"all", "len"} THEN 0 ELSE RXBuff
    /\ chip' = [chip EXCEPT !.done = FALSE]
    /\ burst' = {}
    /\ UNCHANGED <<ubRFState, IRQ2_Sem, setup, late, packets, sends, air, handed,
                   crossed>>

(* ... and takes one chunk after the other until the FIFO is empty. *)
Drain ==
    /\ task # <<>> /\ Op[1] = "drain" /\ chip.fifo # <<>>
    /\ LET x == Head(chip.fifo)
       IN  /\ chip' = [chip EXCEPT !.fifo = Tail(@),
                                   !.mask0 = IF x[1] = "data" /\ @ = "fifo" THEN "none"
                                             ELSE @]
           /\ RXBuff' = IF x[1] = "data" THEN x[2] ELSE RXBuff
           /\ RxLen' = IF x[1] = "data" THEN 1 ELSE RxLen
           /\ ubRssi' = IF x[1] = "rssi" THEN x[2] ELSE ubRssi
           /\ burst' = burst \cup {x[2]}
    /\ IRQ2_Sem' = SemAfter(IRQ2_Sem)
    /\ UNCHANGED <<ubRFState, task, setup, late, packets, sends, air, handed, crossed>>

Drained ==
    /\ task # <<>> /\ Op[1] = "drain" /\ chip.fifo = <<>> /\ task' = Tail(task)
    /\ UNCHANGED <<chip, ubRFState, rxVars, IRQ2_Sem, setup, late, packets, sends, air,
                   history>>

(* rf4068_rx_callback, if there was a packet. *)
Hand ==
    /\ task # <<>> /\ Op[1] = "hand" /\ task' = Tail(task)
    /\ handed' = IF RxLen # 0 THEN RXBuff ELSE handed
    /\ UNCHANGED <<chip, ubRFState, rxVars, IRQ2_Sem, setup, late, packets, sends, air,
                   burst, crossed>>

(* tx_waitdone: when the chip has come to rest the radio is restarted. *)
Sent ==
    /\ task # <<>> /\ Op[1] = "sent"
    /\ task' = IF chip.sending THEN <<>> ELSE rf_restart
    /\ UNCHANGED <<chip, ubRFState, rxVars, IRQ2_Sem, setup, late, packets, sends, air,
                   history>>

rf_4068_task_callback ==
    TakeSem \/ TaskWrite \/ TaskStore \/ BeginReceive \/ Drain \/ Drained \/ Hand
      \/ Sent

-----------------------------------------------------------------------------
(* main and the shell *)

SetupOp == Head(setup)

SetupWrite ==
    /\ setup # <<>> /\ task = <<>> /\ SetupOp[1] \in Writes
    /\ IRQ2_Sem = 0 \/ ~late
    /\ chip' = Write(chip, SetupOp) /\ IRQ2_Sem' = SemAfter(IRQ2_Sem)
    /\ late' = (IRQ2_Sem' > 0)
    /\ setup' = Tail(setup)
    /\ UNCHANGED <<ubRFState, rxVars, task, packets, sends, air, history>>

SetupStep ==
    /\ setup # <<>> /\ task = <<>> /\ IRQ2_Sem = 0
    /\ CASE SetupOp[1] = "state" -> ubRFState' = SetupOp[2]
         [] SetupOp[1] = "while" -> ubRFState # SetupOp[2] /\ UNCHANGED ubRFState
         [] SetupOp[1] = "poll"  -> /\ \/ SetupOp[2] = "xtal" /\ chip.xtal
                                       \/ SetupOp[2] = "range" /\ chip.range = "done"
                                    /\ UNCHANGED ubRFState
         [] OTHER -> FALSE
    /\ setup' = Tail(setup)
    /\ UNCHANGED <<chip, rxVars, IRQ2_Sem, task, late, packets, sends, air, history>>

sendlow ==
    /\ setup = <<>> /\ task = <<>> /\ IRQ2_Sem = 0
    /\ sends < MaxSends /\ sends' = sends + 1
    /\ setup' = rf_4068_Init \o Normal_send
    /\ UNCHANGED <<chip, ubRFState, rxVars, IRQ2_Sem, task, late, packets, air, history>>

Setup == SetupWrite \/ SetupStep

(* rf_4068_start: the task waits, main sets up the radio. *)
Init ==
    /\ chip = ResetChip /\ ubRFState = "off"
    /\ RXBuff = 0 /\ RxLen = 0 /\ ubRssi = 0
    /\ IRQ2_Sem = 0 /\ task = <<>> /\ setup = rf_4068_Init /\ late = FALSE
    /\ packets = 0 /\ sends = 0 /\ air = 0
    /\ handed = 0 /\ burst = {} /\ crossed = FALSE

Next == Chip \/ rf_4068_task_callback \/ Setup \/ sendlow

Spec == Init /\ [][Next]_vars

(* The threads run when those above them sleep; a crystal starts, a ranging *)
(* and a transmission end.  Nothing is assumed of what is received.         *)
FairSpec ==
    /\ Spec
    /\ WF_vars(rf_4068_task_callback) /\ WF_vars(Setup)
    /\ WF_vars(XtalReady) /\ WF_vars(RangingDone) /\ WF_vars(SendDone)

-----------------------------------------------------------------------------
States == {"off", "rx", "wait_xtal", "xtal_ready", "pll_ranging", "pll_ranging_done",
           "tx_xtalwait", "tx_waitdone"}

(* Type invariant of the driver. *)
TypeOK ==
    /\ chip.pwr \in {"down", "xtal", "fifo", "rx", "synth", "tx"}
    /\ chip.mask0 \in {"none", "fifo", "free", "radio"}
    /\ chip.mask1 \in {"none", "xtal", "range"}
    /\ ubRFState \in States
    /\ RXBuff \in 0..MaxPackets /\ RxLen \in 0..1 /\ ubRssi \in 0..MaxPackets
    /\ IRQ2_Sem \in Nat /\ late \in BOOLEAN
    /\ air \in 0..MaxPackets /\ handed \in 0..MaxPackets

(* Once main has set up the radio, the receiver is on and its interrupt    *)
(* enabled whenever the task waits, whatever came in and however the       *)
(* interrupts met the set-up, as long as nothing was sent.                 *)
ReceiverOn ==
    setup = <<>> /\ sends = 0 /\ task = <<>> =>
        /\ ubRFState = "rx" /\ chip.pwr = "rx"
        /\ chip.mask0 = "fifo" /\ chip.mask1 = "none"

(* The line is never left high without an interrupt to be handled: then no *)
(* edge would come any more, and the task would wait for ever.  (During    *)
(* the set-up it can be: the next step of the set-up takes it back.)       *)
NoLostWakeup ==
    setup = <<>> /\ task = <<>> /\ IRQ2_Sem = 0 /\ ~crossed => ~Level(chip)

(* A packet is given to the decoder at most once, in the order of arrival, *)
(* though the task is also woken with an empty FIFO.                       *)
HandedOnce ==
    [][task # <<>> /\ Op[1] = "hand" /\ RxLen # 0 => RXBuff > handed]_vars

(* The signal strength given with a packet is the packet's own, or 0 if it *)
(* had not come yet, unless chunks of two packets were in the FIFO: it is  *)
(* never left over from an earlier interrupt.                              *)
RssiOfPacket ==
    [][task # <<>> /\ Op[1] = "hand" /\ burst = {RXBuff} => ubRssi \in {0, RXBuff}]_vars

(* The set-up ends: what main or the shell waits for is always brought     *)
(* about by the task, which sees the interrupt in the right state.         *)
SetupEnds == setup # <<>> ~> setup = <<>>

(* A transmission ends with a restart of the radio, unless an interrupt    *)
(* came inside Normal_send.                                                *)
SendEnds == ubRFState \in {"tx_xtalwait", "tx_waitdone"} ~>
                (ubRFState \notin {"tx_xtalwait", "tx_waitdone"} \/ crossed)
=============================================================================
