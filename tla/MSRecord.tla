------------------------------ MODULE MSRecord ------------------------------
(***************************************************************************)
(* The records of the tester on its flash file system (my_dfs.c): test     *)
(* results in /MS_record.txt, 20 bytes each, radio reports in              *)
(* /AX_record.txt, 60 bytes each, and /Record_len.txt with the next        *)
(* position in both and a format version.                                  *)
(*                                                                         *)
(* main saves a record in two steps, the record and then its length, and   *)
(* the power may fail between any two accesses to the file system.  The    *)
(* shell commands AX_delete and MS_delete run in a thread below main and   *)
(* share the buffer and the lengths in memory with it.                     *)
(***************************************************************************)
EXTENDS Integers, Sequences

CONSTANTS
    RECORD_MAX,  \* slots of /MS_record.txt: 50000
    AX5043_MAX,  \* slots of /AX_record.txt: 50000
    MaxSaves,    \* bound: records of each kind
    MaxCuts,     \* bound: power failures
    MaxCmds,     \* bound: shell commands
    MaxFails     \* bound: open() calls that fail

ASSUME SizeAssumption ==
    /\ RECORD_MAX \in Nat /\ RECORD_MAX > 1
    /\ AX5043_MAX \in Nat /\ AX5043_MAX > 1
ASSUME BoundAssumption ==
    /\ MaxSaves \in Nat /\ MaxCuts \in Nat /\ MaxCmds \in Nat /\ MaxFails \in Nat

CodeVersion == 1                      \* static uint8_t version = 1
NoLen == [r |-> -1, a |-> -1, v |-> -1]  \* a length file of less than 5 bytes
Other == [r |-> -2, a |-> -2, v |-> -2]  \* a buffer that holds something else

Lens(r, a, v) == [r |-> r, a |-> a, v |-> v]
LensSet == [r : 0..(RECORD_MAX - 1), a : 0..AX5043_MAX, v : 0..1]

MsSlots == 0..(RECORD_MAX - 1)
AxSlots == 0..(AX5043_MAX - 1)
Empty(slots) == [i \in slots |-> 0]

VARIABLES
    lenfile, msfile, axfile,          \* the files; 0: nothing in a slot
    record_len, ax5043_len, version,  \* the lengths and the version in memory
    buffer,                           \* what the shared buffer begins with
    mpc,                              \* main: where it is
    cpc, carg, ccmd,                  \* shell: where it is, the arguments and
                                      \* the command
    saved, cuts, cmds, fails,         \* counters: records, failures, commands
    msLog, axLog,                     \* history: the records that are counted
    stored,                           \* history: the record just written
    wiped,                            \* history: how often get_Record_len threw
                                      \* counted test results away
    upset                             \* history: main came between two steps of
                                      \* a shell command, or the lengths could
                                      \* not be read at a start

memVars == <<record_len, ax5043_len, version>>
shellVars == <<cpc, carg, ccmd>>
boundVars == <<saved, cuts, cmds, fails>>
logVars == <<msLog, axLog, stored, wiped>>
vars == <<lenfile, msfile, axfile, memVars, buffer, mpc, shellVars, boundVars,
          logVars, upset>>

(* The static initial values; the file system is empty. *)
Init ==
    /\ lenfile = NoLen
    /\ msfile = Empty(MsSlots) /\ axfile = Empty(AxSlots)
    /\ record_len = 0 /\ ax5043_len = 0 /\ version = CodeVersion
    /\ buffer = Other
    /\ mpc = "boot"
    /\ cpc = "idle" /\ carg = NoLen /\ ccmd = "none"
    /\ saved = 0 /\ cuts = 0 /\ cmds = 0 /\ fails = 0
    /\ msLog = <<>> /\ axLog = <<>> /\ stored = 0 /\ wiped = 0
    /\ upset = FALSE

OpenFails == fails < MaxFails /\ fails' = fails + 1

(* The lengths and the version set_Record_txt writes. *)
Wrapped(r, a, v) == Lens(r % RECORD_MAX, a % (AX5043_MAX + 1), v)

(* set_Record_txt: the file and then the lengths in memory. *)
set_Record_txt_Partly(r, a, v) == \* planted defect: ax5043_len is left out
    /\ buffer' = Wrapped(r, a, v) /\ lenfile' = Wrapped(r, a, v)
    /\ record_len' = Wrapped(r, a, v).r /\ UNCHANGED ax5043_len
set_Record_txt(r, a, v) ==
    /\ buffer' = Wrapped(r, a, v)
    /\ lenfile' = Wrapped(r, a, v)
    /\ record_len' = Wrapped(r, a, v).r
    /\ ax5043_len' = Wrapped(r, a, v).a

-----------------------------------------------------------------------------
(* get_Record_len, at every start *)

BootStep == UNCHANGED <<shellVars, saved, cuts, cmds, stored>>

BootOpenFails ==
    /\ mpc = "boot" /\ mpc' = "idle"
    /\ OpenFails
    /\ upset' = (upset \/ lenfile # NoLen)
    /\ BootStep
    /\ UNCHANGED <<lenfile, msfile, axfile, memVars, buffer, msLog, axLog, wiped>>

BootRead ==
    /\ mpc = "boot"
    /\ IF lenfile = NoLen
       THEN /\ record_len' = 0 /\ ax5043_len' = 0 /\ version' = 0
            /\ mpc' = "idle"
            /\ UNCHANGED buffer
       ELSE /\ record_len' = lenfile.r /\ ax5043_len' = lenfile.a
            /\ mpc' = IF version # lenfile.v THEN "wipeMS" ELSE "idle"
            /\ buffer' = lenfile
            /\ UNCHANGED version
    /\ BootStep
    /\ UNCHANGED <<lenfile, msfile, axfile, fails, msLog, axLog, wiped, upset>>

WipeMS ==
    /\ mpc = "wipeMS" /\ mpc' = "wipeAX"
    /\ msfile' = Empty(MsSlots)
    /\ msLog' = <<>>
    /\ wiped' = IF msLog # <<>> THEN wiped + 1 ELSE wiped
    /\ BootStep
    /\ UNCHANGED <<lenfile, axfile, memVars, buffer, fails, axLog, upset>>

WipeAX ==
    /\ mpc = "wipeAX" /\ mpc' = "wipeLen"
    /\ axfile' = Empty(AxSlots)
    /\ axLog' = <<>>
    /\ BootStep
    /\ UNCHANGED <<lenfile, msfile, memVars, buffer, fails, msLog, wiped, upset>>

WipeLen ==
    /\ mpc = "wipeLen" /\ mpc' = "idle"
    /\ \/ set_Record_txt(0, 0, version) /\ UNCHANGED fails
       \/ /\ OpenFails
          /\ record_len' = 0 /\ ax5043_len' = 0
          /\ UNCHANGED <<lenfile, buffer>>
    /\ BootStep
    /\ UNCHANGED <<msfile, axfile, version, msLog, axLog, wiped, upset>>

Boot == BootOpenFails \/ BootRead \/ WipeMS \/ WipeAX \/ WipeLen

-----------------------------------------------------------------------------
(* main.  It runs a save to its end before the shell goes on. *)

MainStep ==
    /\ upset' = (upset \/ cpc # "idle")
    /\ UNCHANGED <<shellVars, cuts, cmds, wiped, version>>

(* MS_thread_test: set_record ... *)
WriteResult(slot) ==
    /\ mpc = "idle" /\ mpc' = "msLen"
    /\ saved < MaxSaves /\ saved' = saved + 1
    /\ \/ /\ msfile' = [msfile EXCEPT ![slot] = saved + 1]
          /\ stored' = saved + 1
          /\ UNCHANGED fails
       \/ OpenFails /\ stored' = 0 /\ UNCHANGED msfile
    /\ buffer' = Other
    /\ MainStep
    /\ UNCHANGED <<lenfile, axfile, record_len, ax5043_len, msLog, axLog>>

set_record_NextSlot ==            \* planted defect: one slot too far
    WriteResult((record_len + 1) % RECORD_MAX)
set_record == WriteResult(record_len)

(* ... then set_Record_txt(get_recordled_data() + 1, ...). *)
CountTestAs(v) ==
    /\ mpc = "msLen" /\ mpc' = "idle"
    /\ \/ /\ set_Record_txt(record_len + 1, ax5043_len, v)
          /\ msLog' = Append(msLog, stored)
          /\ UNCHANGED fails
       \/ /\ OpenFails
          /\ UNCHANGED <<lenfile, buffer, record_len, ax5043_len, msLog>>
    /\ MainStep
    /\ UNCHANGED <<msfile, axfile, saved, axLog, stored>>

CountTest_OtherVersion == CountTestAs(0)  \* planted defect
CountTest == CountTestAs(version)

(* MS_thread_ax_refresh: set_ax_record ... *)
WriteReport(slot) ==
    /\ mpc = "idle" /\ mpc' = "axLen"
    /\ saved < MaxSaves /\ saved' = saved + 1
    /\ \/ /\ axfile' = [axfile EXCEPT ![slot] = saved + 1]
          /\ stored' = saved + 1
          /\ UNCHANGED fails
       \/ OpenFails /\ stored' = 0 /\ UNCHANGED axfile
    /\ buffer' = Other
    /\ MainStep
    /\ UNCHANGED <<lenfile, msfile, record_len, ax5043_len, msLog, axLog>>

set_ax_record_WrongLength ==      \* planted defect: the other length
    WriteReport(record_len % AX5043_MAX)
set_ax_record == WriteReport(ax5043_len % AX5043_MAX)

(* ... then set_Record_txt(..., get_ax5045len_data() + 1, ...). *)
CountAx ==
    /\ mpc = "axLen" /\ mpc' = "idle"
    /\ \/ /\ set_Record_txt(record_len, ax5043_len + 1, version)
          /\ axLog' = IF ax5043_len' = 0 THEN <<>> ELSE Append(axLog, stored)
          /\ UNCHANGED fails
       \/ /\ OpenFails
          /\ UNCHANGED <<lenfile, buffer, record_len, ax5043_len, axLog>>
    /\ MainStep
    /\ UNCHANGED <<msfile, axfile, saved, msLog, stored>>

(* get_MSID, set_MSID and get_ax_Record fill the same buffer. *)
UseBuffer ==
    /\ mpc = "idle" /\ buffer # Other
    /\ buffer' = Other
    /\ MainStep
    /\ UNCHANGED <<lenfile, msfile, axfile, record_len, ax5043_len, mpc, saved,
                   fails, msLog, axLog, stored>>

Main == set_record \/ CountTest \/ set_ax_record \/ CountAx \/ UseBuffer

-----------------------------------------------------------------------------
(* The shell, below main: AX_delete and MS_delete call set_Record_txt and  *)
(* then remove the file, unlink_record only removes the file.              *)

ShellGo(from, to) ==
    /\ mpc = "idle"
    /\ cpc = from /\ cpc' = to
    /\ UNCHANGED <<version, mpc, saved, cuts, stored, wiped, upset>>

(* The call: the arguments are read from memory. *)
StartDelete(cmd) ==
    /\ ShellGo("idle", "fill")
    /\ cmds < MaxCmds /\ cmds' = cmds + 1
    /\ ccmd' = cmd
    /\ carg' = IF cmd = "AX_delete" THEN Lens(record_len, 0, version)
               ELSE Lens(0, ax5043_len, version)
    /\ UNCHANGED <<lenfile, msfile, axfile, record_len, ax5043_len, buffer,
                   fails, msLog, axLog>>

FillBuffer ==
    /\ \/ ShellGo("fill", "write") /\ buffer' = carg /\ UNCHANGED fails
       \/ ShellGo("fill", "unlink") /\ OpenFails /\ UNCHANGED buffer
    /\ UNCHANGED <<lenfile, msfile, axfile, record_len, ax5043_len, carg, ccmd,
                   cmds, msLog, axLog>>

(* The write takes what is in the buffer now; what main may have left there *)
(* instead reads back as lengths within bounds and some version.            *)
WriteBuffer ==
    /\ ShellGo("write", "memory")
    /\ IF buffer = Other THEN lenfile' \in LensSet ELSE lenfile' = buffer
    /\ msLog' = IF ccmd = "MS_delete" THEN <<>> ELSE msLog
    /\ axLog' = IF ccmd = "AX_delete" THEN <<>> ELSE axLog
    /\ UNCHANGED <<msfile, axfile, record_len, ax5043_len, buffer, carg, ccmd,
                   cmds, fails>>

KeepLengths ==
    /\ ShellGo("memory", "unlink")
    /\ record_len' = carg.r /\ ax5043_len' = carg.a
    /\ UNCHANGED <<lenfile, msfile, axfile, buffer, carg, ccmd, cmds, fails,
                   msLog, axLog>>

Forgotten(log) == [i \in DOMAIN log |-> 0]

UnlinkFile ==
    /\ ShellGo("unlink", "idle")
    /\ IF ccmd = "AX_delete"
       THEN /\ axfile' = Empty(AxSlots) /\ axLog' = Forgotten(axLog)
            /\ UNCHANGED <<msfile, msLog>>
       ELSE /\ msfile' = Empty(MsSlots) /\ msLog' = Forgotten(msLog)
            /\ UNCHANGED <<axfile, axLog>>
    /\ carg' = NoLen /\ ccmd' = "none"
    /\ UNCHANGED <<lenfile, record_len, ax5043_len, buffer, cmds, fails>>

unlink_record ==
    /\ ShellGo("idle", "unlink")
    /\ cmds < MaxCmds /\ cmds' = cmds + 1
    /\ ccmd' = "unlink_record"
    /\ UNCHANGED <<lenfile, msfile, axfile, record_len, ax5043_len, buffer,
                   carg, fails, msLog, axLog>>

AX_delete == StartDelete("AX_delete")
MS_delete == StartDelete("MS_delete")

Shell ==
    \/ AX_delete \/ MS_delete \/ unlink_record
    \/ FillBuffer \/ WriteBuffer \/ KeepLengths \/ UnlinkFile

(* The power fails, and comes back (external): only the files are left. *)
PowerCut ==
    /\ cuts < MaxCuts /\ cuts' = cuts + 1
    /\ mpc' = "boot"
    /\ record_len' = 0 /\ ax5043_len' = 0 /\ version' = CodeVersion
    /\ buffer' = Other /\ stored' = 0
    /\ cpc' = "idle" /\ carg' = NoLen /\ ccmd' = "none"
    /\ UNCHANGED <<lenfile, msfile, axfile, saved, cmds, fails, msLog, axLog,
                   wiped, upset>>

Next == Boot \/ Main \/ Shell \/ PowerCut

Spec == Init /\ [][Next]_vars

-----------------------------------------------------------------------------
(* Type invariant of the record store. *)
TypeOK ==
    /\ lenfile \in LensSet \cup {NoLen}
    /\ msfile \in [MsSlots -> Nat] /\ axfile \in [AxSlots -> Nat]
    /\ record_len \in MsSlots /\ ax5043_len \in 0..AX5043_MAX
    /\ version \in 0..1
    /\ buffer \in LensSet \cup {Other}
    /\ mpc \in {"boot", "wipeMS", "wipeAX", "wipeLen", "idle", "msLen", "axLen"}
    /\ cpc \in {"idle", "fill", "write", "memory", "unlink"}
    /\ carg \in LensSet \cup {NoLen}
    /\ ccmd \in {"none", "AX_delete", "MS_delete", "unlink_record"}
    /\ saved \in 0..MaxSaves /\ cuts \in 0..MaxCuts
    /\ cmds \in 0..MaxCmds /\ fails \in 0..MaxFails
    /\ msLog \in Seq(Nat) /\ axLog \in Seq(Nat) /\ stored \in Nat
    /\ wiped \in Nat /\ upset \in BOOLEAN

(* Whenever the power fails, the last RECORD_MAX - 1 counted test results  *)
(* are in the slots before the counted length: neither a save cut short    *)
(* between record and length nor the wrap of the length overwrites them.   *)
(* (Log entry 0: the open of that save failed, or the file was removed.)   *)
ResultsKept ==
    ~upset /\ lenfile # NoLen =>
        \A j \in 1..Len(msLog) :
            LET id == msLog[Len(msLog) + 1 - j]
            IN  j < RECORD_MAX /\ id # 0 =>
                    msfile[(lenfile.r - j) % RECORD_MAX] = id

(* The same for the radio reports counted since the length was last zero:  *)
(* report j of the round is in slot j - 1.  Only slot 0 of a full round    *)
(* may hold a newer, uncounted report.                                     *)
ReportsKept ==
    ~upset /\ lenfile # NoLen =>
        \A j \in 1..Len(axLog) :
            (j > 1 \/ lenfile.a < AX5043_MAX) /\ axLog[j] # 0 =>
                axfile[j - 1] = axLog[j]

(* When nobody is at work the lengths in memory are those in the file, if  *)
(* the file has the version in memory.                                     *)
MemoryMatchesFile ==
    ~upset /\ mpc = "idle" /\ cpc = "idle" /\ lenfile.v = version =>
        lenfile = Lens(record_len, ax5043_len, version)

(* In the life of a tester the version check of get_Record_len throws      *)
(* counted test results away at most once: those of its first session,     *)
(* which are saved under version 0 since there is no length file yet.      *)
WipedOnce == ~upset => wiped <= 1
=============================================================================
