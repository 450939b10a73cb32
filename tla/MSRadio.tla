------------------------------ MODULE MSRadio ------------------------------
(***************************************************************************)
(* The radio page: rf4068_rx_callback in the radio thread decodes packets  *)
(* of meters and hands a report to main by setting MS to 12; main files it *)
(* and sets MS back to 11.  The operator browses the filed reports, edits  *)
(* the clock and leaves the page; the shell may delete the reports.        *)
(*                                                                         *)
(* The radio thread (priority 8) is above main (10) and does not sleep in  *)
(* the callback: a packet is one step, which may come between any two      *)
(* accesses of main to the decoder's variables.  The shell (20) is below   *)
(* main and moves only while main sleeps.                                  *)
(*                                                                         *)
(* Meters without a valve send "plain" packets (version 1 to 3) with MSID, *)
(* MSV and two alarms; meters with a valve send a "data" packet with MSID  *)
(* and MSV and a "state" packet with MSID and ten alarms (version 0).  The *)
(* alarms are one value.  A packet that fails the Manchester or parity     *)
(* checks leaves these variables alone.                                    *)
(***************************************************************************)
EXTENDS Integers

CONSTANTS
    Ids, Msvs, Flags,   \* what meters say
    AX5043_MAX,         \* slots of the report file
    AddrWrap,           \* show_ax_addr wraps here (65536)
    MaxPackets,         \* bound: packets of one behaviour
    MaxDeletes          \* bound: shell commands

ASSUME RadioAssumption ==
    /\ Ids \subseteq Nat /\ Msvs \subseteq Nat /\ Flags \subseteq Nat
    /\ AX5043_MAX \in Nat \ {0} /\ AddrWrap \in Nat /\ AddrWrap > AX5043_MAX
    /\ MaxPackets \in Nat /\ MaxDeletes \in Nat

(* A version has two bits. *)
NoReport == [v |-> 9, msid |-> 0, msv |-> 0, flag |-> 0]
NoFile == -1

Packets == [kind : {"data"}, id : Ids, msv : Msvs] \cup
           [kind : {"state"}, id : Ids, flag : Flags] \cup
           [kind : {"plain"}, id : Ids, msv : Msvs, flag : Flags]

Fields == {"v", "msid", "msv", "flag"}

VARIABLES
    MS,             \* 1: menu, 10: page opens, 11: page, 12: report to file
    dec,            \* the decoder's static variables v, msid, msv, flag
    mpc,            \* where main is: "idle" or inside a handler
    copy, todo,     \* what MS_thread_ax_refresh has read of dec, and has not
    editing,        \* time_number # 20: the clock is being edited
    ax5043_len,     \* the length that is kept of the report file
    slots,          \* stat_sample: reports in the file, or NoFile
    show_ax_addr,   \* the report that is shown next
    spc,            \* where the shell is
    last, count,    \* the last report filed and their number
    packets,        \* counter: packets so far
    deletes,        \* counter: commands so far
    sent,           \* history: the MSIDs and MSVs that came together
    shown,          \* history: the slot shown last and the slots at that time
    upset           \* history: a report was filed inside AX_delete

pageVars == <<editing, show_ax_addr, shown>>
fileVars == <<ax5043_len, slots, last, count>>
shellVars == <<spc, deletes, upset>>
airVars == <<dec, packets, sent>>
vars == <<MS, mpc, copy, todo, pageVars, fileVars, shellVars, airVars>>

NotShown == <<0, 1>>

Init ==
    /\ MS = 1 /\ mpc = "idle" /\ copy = NoReport /\ todo = {}
    /\ dec = [v |-> 0, msid |-> 0, msv |-> 0, flag |-> 0]
    /\ editing = FALSE /\ show_ax_addr = 0 /\ shown = NotShown
    /\ ax5043_len = 0 /\ slots = NoFile /\ last = NoReport /\ count = 0
    /\ spc = "idle" /\ deletes = 0 /\ upset = FALSE
    /\ packets = 0 /\ sent = {}

-----------------------------------------------------------------------------
(* The radio thread *)

(* What a packet makes of the decoder's variables.  A state packet of      *)
(* another meter than the last one is kept with another MSV.               *)
DecodedWith(p, other) ==
    CASE p.kind = "data"  -> [dec EXCEPT !.v = 0, !.msid = p.id, !.msv = p.msv]
      [] p.kind = "state" -> [v |-> 0, msid |-> p.id, flag |-> p.flag,
                              msv |-> IF dec.msid = p.id THEN dec.msv ELSE other]
      [] p.kind = "plain" -> [v |-> 1, msid |-> p.id, msv |-> p.msv,
                              flag |-> p.flag]

Decoded_KeepsMsv(p) == DecodedWith(p, dec.msv)      \* planted defect
Decoded(p) == DecodedWith(p, 0)

(* Plain packets and state packets of the last meter make a report. *)
Complete(p) == p.kind = "plain" \/ (p.kind = "state" /\ dec.msid = p.id)

Receive(p, states) ==
    /\ packets < MaxPackets /\ packets' = packets + 1
    /\ sent' = IF p.kind = "state" THEN sent ELSE sent \cup {<<p.id, p.msv>>}
    /\ IF MS \in states
       THEN dec' = Decoded(p) /\ MS' = IF Complete(p) THEN 12 ELSE MS
       ELSE UNCHANGED <<dec, MS>>
    /\ UNCHANGED <<mpc, copy, todo, pageVars, fileVars, shellVars>>

rf4068_rx_callback_Always(p) == Receive(p, {11, 12})    \* planted defect
rf4068_rx_callback(p) == Receive(p, {11})

-----------------------------------------------------------------------------
(* main.  A step is a turn of its loop, or a part of one where the radio   *)
(* thread or the shell can make a difference.                              *)

(* stat_sample returns no value if there is no file. *)
stat_sample == IF slots = NoFile THEN 0..AX5043_MAX ELSE {slots}

(* show_ax_record, which makes an empty file if there is none. *)
show_ax_record(addr) ==
    /\ slots' = IF slots = NoFile THEN 0 ELSE slots
    /\ shown' = <<addr, slots>>

(* MS_thread_SelectMode: the radio page is chosen. *)
SelectRadio ==
    /\ mpc = "idle" /\ MS = 1 /\ MS' = 10
    /\ UNCHANGED <<mpc, copy, todo, pageVars, fileVars, shellVars, airVars>>

MS_thread_ax_start ==
    /\ mpc = "idle" /\ MS = 10 /\ MS' = 11
    /\ show_ax_addr' = ax5043_len
    /\ IF ax5043_len > 0 THEN show_ax_record(ax5043_len - 1)
       ELSE UNCHANGED <<slots, shown>>
    /\ editing' = FALSE
    /\ UNCHANGED <<mpc, copy, todo, ax5043_len, last, count, shellVars, airVars>>

(* The arrow buttons, unless the clock is edited. *)
Browse(Addrs) ==
    /\ mpc = "idle" /\ MS = 11 /\ ~editing /\ ax5043_len > 0
    /\ show_ax_addr' \in Addrs
    /\ show_ax_record(show_ax_addr')
    /\ UNCHANGED <<MS, mpc, copy, todo, editing, ax5043_len, last, count,
                   shellVars, airVars>>

BrowseUp == Browse(IF show_ax_addr > 0 THEN {show_ax_addr - 1}
                   ELSE {(s - 1) % AddrWrap : s \in stat_sample})

(* x % 0 is x on this processor. *)
After(s) == LET x == (show_ax_addr + 1) % AddrWrap
            IN  IF s = 0 THEN x ELSE x % s

(* Planted defect: one more than there are. *)
BrowseDown_OneMore == Browse({After(s + 1) : s \in stat_sample})
BrowseDown == Browse({After(s) : s \in stat_sample})

(* OK opens the clock's digits and sets the clock, RETURN gives them up. *)
EditClock ==
    /\ mpc = "idle" /\ MS = 11
    /\ editing' = ~editing
    /\ UNCHANGED <<MS, mpc, copy, todo, show_ax_addr, shown, fileVars, shellVars,
                   airVars>>

(* RETURN leaves the page.  The radio thread may run before MS is set. *)
ReturnButton ==
    /\ mpc = "idle" /\ MS = 11 /\ ~editing
    /\ mpc' = "return"
    /\ UNCHANGED <<MS, copy, todo, pageVars, fileVars, shellVars, airVars>>

Leave ==
    /\ mpc = "return" /\ mpc' = "idle"
    /\ MS' = 1
    /\ UNCHANGED <<copy, todo, pageVars, fileVars, shellVars, airVars>>

(* MS_thread_ax_refresh reads the alarms, then the rest in an order that C *)
(* leaves open ...                                                         *)
Begin ==
    /\ mpc = "idle" /\ MS = 12 /\ mpc' = "read"
    /\ copy' = [copy EXCEPT !.flag = dec.flag] /\ todo' = Fields \ {"flag"}
    /\ UNCHANGED <<MS, pageVars, fileVars, shellVars, airVars>>

(* Planted defect: it returns at once while the clock is edited. *)
GetFlag_NotEditing == mpc = "idle" /\ MS = 12 /\ IF editing THEN UNCHANGED vars
                                                ELSE Begin
GetFlag == Begin

GetField(f) ==
    /\ mpc = "read" /\ f \in todo
    /\ copy' = [copy EXCEPT ![f] = dec[f]] /\ todo' = todo \ {f}
    /\ UNCHANGED <<MS, mpc, pageVars, fileVars, shellVars, airVars>>

(* ... files the report, set_ax_record and set_Record_txt ... *)
FileAs(len) ==
    /\ mpc = "read" /\ todo = {} /\ mpc' = "filed"
    /\ LET slot == ax5043_len % AX5043_MAX
       IN  slots' = IF slots > slot THEN slots ELSE slot + 1
    /\ ax5043_len' = len /\ show_ax_addr' = len
    /\ last' = copy /\ count' = count + 1 /\ copy' = NoReport
    /\ upset' = (upset \/ spc = "unlink")
    /\ UNCHANGED <<MS, todo, editing, shown, spc, deletes, airVars>>

FileReport == FileAs((ax5043_len + 1) % (AX5043_MAX + 1))

(* ... sounds the buzzer and waits for the next. *)
Resume ==
    /\ mpc = "filed" /\ mpc' = "idle"
    /\ MS' = 11
    /\ UNCHANGED <<copy, todo, pageVars, fileVars, shellVars, airVars>>

MS_thread_ax_refresh == GetFlag \/ (\E f \in Fields : GetField(f)) \/ FileReport
                          \/ Resume

-----------------------------------------------------------------------------
(* The shell's AX_delete, while main sleeps: the length, then the file. *)
DeleteLen ==
    /\ mpc \in {"idle", "filed"} /\ spc = "idle" /\ deletes < MaxDeletes
    /\ spc' = "unlink" /\ deletes' = deletes + 1
    /\ ax5043_len' = 0
    /\ UNCHANGED <<MS, mpc, copy, todo, pageVars, slots, last, count, upset,
                   airVars>>

Unlink ==
    /\ mpc \in {"idle", "filed"} /\ spc = "unlink" /\ spc' = "idle"
    /\ slots' = NoFile
    /\ UNCHANGED <<MS, mpc, copy, todo, pageVars, ax5043_len, last, count, deletes,
                   upset, airVars>>

MS_thread == SelectRadio \/ MS_thread_ax_start \/ BrowseUp \/ BrowseDown
               \/ EditClock \/ ReturnButton \/ Leave \/ MS_thread_ax_refresh

Next == (\E p \in Packets : rf4068_rx_callback(p)) \/ MS_thread \/ DeleteLen
          \/ Unlink

Spec == Init /\ [][Next]_vars

(* main runs on whenever the radio thread sleeps. *)
FairSpec == Spec /\ WF_vars(MS_thread_ax_refresh \/ Leave)

-----------------------------------------------------------------------------
(* Properties *)

Reports == [v : 0..1, msid : Ids \cup {0}, msv : Msvs \cup {0},
            flag : Flags \cup {0}]

Copies == [v : {0, 1, 9}, msid : Ids \cup {0}, msv : Msvs \cup {0},
           flag : Flags \cup {0}]

(* Type invariant. *)
TypeOK ==
    /\ MS \in {1, 10, 11, 12}
    /\ mpc \in {"idle", "return", "read", "filed"}
    /\ dec \in Reports
    /\ copy \in Copies
    /\ todo \subseteq Fields
    /\ editing \in BOOLEAN
    /\ ax5043_len \in 0..AX5043_MAX
    /\ slots \in NoFile..AX5043_MAX
    /\ show_ax_addr \in 0..(AddrWrap - 1)
    /\ spc \in {"idle", "unlink"}
    /\ upset \in BOOLEAN

(* The report that main has to file. *)
Pending == IF MS = 12 /\ mpc # "filed" THEN dec ELSE NoReport

Abstract == INSTANCE MSReports WITH
    None <- NoReport, open <- MS \in {11, 12}, heard <- packets,
    pending <- Pending

(* The page files each report once, as it was complete in the decoder,     *)
(* though the radio thread goes on receiving while main reads it in pieces *)
(* and files it; it drops one only if the operator leaves at that moment.  *)
FilesReports == Abstract!Spec

(* No report waits for ever: main files it, whatever page the operator has *)
(* in front of him, or he leaves.                                          *)
NoneWaits == Pending # NoReport ~> Pending = NoReport

(* The MSV in a filed report comes from a packet with the MSID of the      *)
(* report, whatever meters sent in between, or is 0 (no such packet yet).  *)
MsvOfMeter == last.msv # 0 => <<last.msid, last.msv>> \in sent

(* What is shown is in the file: show_ax_addr, the length in memory and    *)
(* the size of the file stay in step through wraps and deletions, unless a *)
(* report was filed between the two steps of a deletion.                   *)
ShownExists == ~upset => shown[1] < shown[2]
=============================================================================
