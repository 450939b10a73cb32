--------------------------- MODULE MSRadioProofs ---------------------------
(***************************************************************************)
(* The radio page implements MSReports: each report is filed once and as   *)
(* it was accepted, although main reads it field by field below a thread   *)
(* that receives packets all the time.                                     *)
(***************************************************************************)
EXTENDS MSRadio, TLAPS

(* While main reads, MS is 12, so that the decoder's variables stand still *)
(* and what has been read of them is still there.                          *)
HandInv ==
    /\ MS \in {1, 10, 11, 12}
    /\ mpc \in {"idle", "return", "read", "filed"}
    /\ dec \in Reports /\ copy \in Copies /\ todo \subseteq Fields
    /\ mpc \in {"read", "filed"} => MS = 12
    /\ mpc = "return" => MS \in {11, 12}
    /\ mpc = "read" => \A f \in Fields \ todo : copy[f] = dec[f]

(* What main reads of a report, together, is of this type. *)
LEMMA ReportType == Reports \subseteq Copies
  BY DEF Reports, Copies

(* The initial state of the page is one of the abstract page. *)
LEMMA HandInit == Init => HandInv /\ Abstract!Init
<1> SUFFICES ASSUME Init PROVE HandInv /\ Abstract!Init
  OBVIOUS
<1>1. dec \in Reports /\ copy \in Copies
  BY DEF Init, Reports, Copies, NoReport
<1>2. HandInv
  BY <1>1 DEF Init, HandInv
<1>3. Abstract!Init
  BY DEF Init, Abstract!Init, Pending
<1> QED
  BY <1>2, <1>3

(* A packet: it makes a report only on the page, and never while one waits. *)
LEMMA ReceiveStep ==
    ASSUME HandInv, NEW p \in Packets, rf4068_rx_callback(p)
    PROVE  HandInv' /\ [Abstract!Next]_(Abstract!vars)
<1>1. CASE MS # 11
  <2>1. /\ packets' = packets + 1
        /\ UNCHANGED <<MS, dec, mpc, copy, todo, last, count>>
    BY <1>1 DEF rf4068_rx_callback, Receive, fileVars
  <2>2. HandInv'
    BY <2>1 DEF HandInv
  <2>3. Abstract!Ignore
    BY <2>1 DEF Abstract!Ignore, Pending
  <2> QED
    BY <2>2, <2>3 DEF Abstract!Next
<1>2. CASE MS = 11
  <2>1. dec' = Decoded(p) /\ MS' = (IF Complete(p) THEN 12 ELSE 11)
        /\ UNCHANGED <<mpc, copy, todo, last, count>> /\ packets' = packets + 1
    BY <1>2 DEF rf4068_rx_callback, Receive, fileVars
  <2>2. Decoded(p) \in Reports
    <3>1. CASE p \in [kind : {"data"}, id : Ids, msv : Msvs]
      <4>1. Decoded(p) = [dec EXCEPT !.v = 0, !.msid = p.id, !.msv = p.msv]
        BY <3>1 DEF Decoded, DecodedWith
      <4>2. p.id \in Ids /\ p.msv \in Msvs
        BY <3>1
      <4>3. dec \in Reports
        BY DEF HandInv
      <4>4. Decoded(p) = [v |-> 0, msid |-> p.id, msv |-> p.msv, flag |-> dec.flag]
        BY <4>1, <4>3 DEF Reports
      <4>5. dec.flag \in Flags \cup {0}
        BY <4>3 DEF Reports
      <4> QED
        BY <4>2, <4>4, <4>5 DEF Reports
    <3>2. CASE p \in [kind : {"state"}, id : Ids, flag : Flags]
      BY <3>2 DEF Decoded, DecodedWith, Reports, HandInv
    <3>3. CASE p \in [kind : {"plain"}, id : Ids, msv : Msvs, flag : Flags]
      BY <3>3 DEF Decoded, DecodedWith, Reports
    <3> QED
      BY <3>1, <3>2, <3>3 DEF Packets
  <2>3. mpc \in {"idle", "return"}
    BY <1>2 DEF HandInv
  <2>4. HandInv'
    BY <1>2, <2>1, <2>2, <2>3 DEF HandInv
  <2>5. Pending = NoReport
    BY <1>2 DEF Pending
  <2>6. CASE Complete(p)
    <3>1. Pending' = Decoded(p)
      BY <2>1, <2>3, <2>6 DEF Pending
    <3>2. Abstract!Accept
      BY <1>2, <2>1, <2>2, <2>5, <2>6, <3>1 DEF Abstract!Accept
    <3> QED
      BY <2>4, <3>2 DEF Abstract!Next
  <2>7. CASE ~Complete(p)
    <3>1. Pending' = NoReport
      BY <2>1, <2>7 DEF Pending
    <3>2. Abstract!Ignore
      BY <1>2, <2>1, <2>5, <2>7, <3>1 DEF Abstract!Ignore
    <3> QED
      BY <2>4, <3>2 DEF Abstract!Next
  <2> QED
    BY <2>6, <2>7
<1> QED
  BY <1>1, <1>2

(* What main and the shell do without touching a report. *)
LEMMA QuietStep ==
    ASSUME HandInv,
           BrowseUp \/ BrowseDown \/ EditClock \/ ReturnButton \/ DeleteLen \/ Unlink
             \/ UNCHANGED vars
    PROVE  HandInv' /\ [Abstract!Next]_(Abstract!vars)
<1>1. /\ UNCHANGED <<MS, packets, dec, copy, todo, last, count>>
      /\ \/ UNCHANGED mpc
         \/ mpc = "idle" /\ MS = 11 /\ mpc' = "return"
  BY DEF BrowseUp, BrowseDown, Browse, EditClock, ReturnButton, DeleteLen, Unlink,
     vars, pageVars, fileVars, shellVars, airVars
<1>2. HandInv'
  BY <1>1 DEF HandInv
<1>3. UNCHANGED Abstract!vars
  BY <1>1 DEF Abstract!vars, Pending
<1> QED
  BY <1>2, <1>3

(* The page opens, and closes. *)
LEMMA OpenStep ==
    ASSUME HandInv, SelectRadio \/ MS_thread_ax_start \/ Leave
    PROVE  HandInv' /\ [Abstract!Next]_(Abstract!vars)
<1>1. UNCHANGED <<packets, dec, copy, todo, last, count>>
  BY DEF SelectRadio, MS_thread_ax_start, Leave, fileVars, airVars
<1>2. CASE SelectRadio
  BY <1>1, <1>2 DEF SelectRadio, HandInv, Abstract!vars, Pending
<1>3. CASE MS_thread_ax_start
  <2>1. mpc = "idle" /\ mpc' = "idle" /\ MS = 10 /\ MS' = 11
    BY <1>3 DEF MS_thread_ax_start
  <2>2. HandInv'
    BY <1>1, <2>1 DEF HandInv
  <2>3. Abstract!Open
    BY <1>1, <2>1 DEF Abstract!Open, Pending
  <2> QED
    BY <2>2, <2>3 DEF Abstract!Next
<1>4. CASE Leave
  <2>1. mpc = "return" /\ mpc' = "idle" /\ MS \in {11, 12} /\ MS' = 1
    BY <1>4 DEF Leave, HandInv
  <2>2. HandInv'
    BY <1>1, <2>1 DEF HandInv
  <2>3. Abstract!Close
    BY <1>1, <2>1 DEF Abstract!Close, Pending
  <2> QED
    BY <2>2, <2>3 DEF Abstract!Next
<1> QED
  BY <1>2, <1>3, <1>4

(* A report is read, filed and left behind. *)
LEMMA RefreshStep ==
    ASSUME HandInv, MS_thread_ax_refresh
    PROVE  HandInv' /\ [Abstract!Next]_(Abstract!vars)
<1>1. CASE GetFlag
  <2>1. /\ mpc = "idle" /\ MS = 12 /\ mpc' = "read" /\ todo' = Fields \ {"flag"}
        /\ copy' = [copy EXCEPT !.flag = dec.flag]
        /\ UNCHANGED <<MS, packets, dec, last, count>>
    BY <1>1 DEF GetFlag, Begin, fileVars, airVars
  <2>2. copy' \in Copies /\ copy'["flag"] = dec["flag"]
    BY <2>1 DEF HandInv, Copies, Reports
  <2>3. HandInv'
    BY <2>1, <2>2 DEF HandInv, Fields
  <2>4. UNCHANGED Abstract!vars
    BY <2>1 DEF Abstract!vars, Pending
  <2> QED
    BY <2>3, <2>4
<1>2. ASSUME NEW f \in Fields, GetField(f)
      PROVE  HandInv' /\ [Abstract!Next]_(Abstract!vars)
  <2>1. /\ mpc = "read" /\ mpc' = "read" /\ todo' = todo \ {f}
        /\ copy' = [copy EXCEPT ![f] = dec[f]]
        /\ UNCHANGED <<MS, packets, dec, last, count>>
    BY <1>2 DEF GetField, fileVars, airVars
  <2>2. copy' \in Copies /\ copy'[f] = dec[f]
        /\ \A g \in Fields \ {f} : copy'[g] = copy[g]
    <3>1. dec \in Copies /\ copy \in Copies
      BY ReportType DEF HandInv
    <3>2. copy' \in Copies
      BY <2>1, <3>1 DEF Copies, Fields
    <3>3. copy'[f] = dec[f]
      BY <2>1, <3>1 DEF Copies, Fields
    <3>4. \A g \in Fields \ {f} : copy'[g] = copy[g]
      BY <2>1, <3>1 DEF Copies, Fields
    <3> QED
      BY <3>2, <3>3, <3>4
  <2>3. HandInv'
    BY <2>1, <2>2 DEF HandInv
  <2>4. UNCHANGED Abstract!vars
    BY <2>1 DEF Abstract!vars, Pending
  <2> QED
    BY <2>3, <2>4
<1>3. CASE FileReport
  <2>1. /\ mpc = "read" /\ todo = {} /\ mpc' = "filed" /\ copy' = NoReport
        /\ UNCHANGED <<MS, packets, dec, todo>> /\ last' = copy /\ count' = count + 1
    BY <1>3 DEF FileReport, FileAs, airVars
  <2>2. MS = 12 /\ \A f \in Fields : copy[f] = dec[f]
    BY <2>1 DEF HandInv
  <2>3. copy = dec
    BY <2>2 DEF HandInv, Copies, Reports, Fields
  <2>4. HandInv'
    BY <2>1, <2>2 DEF HandInv, Copies, NoReport
  <2>5. dec # NoReport
    BY DEF HandInv, Reports, NoReport
  <2>6. Abstract!File
    BY <2>1, <2>2, <2>3, <2>5 DEF Abstract!File, Pending
  <2> QED
    BY <2>4, <2>6 DEF Abstract!Next
<1>4. CASE Resume
  <2>1. /\ mpc = "filed" /\ MS = 12 /\ mpc' = "idle" /\ MS' = 11
        /\ UNCHANGED <<packets, dec, copy, todo, last, count>>
    BY <1>4 DEF Resume, HandInv, fileVars, airVars
  <2>2. HandInv'
    BY <2>1 DEF HandInv
  <2>3. UNCHANGED Abstract!vars
    BY <2>1 DEF Abstract!vars, Pending
  <2> QED
    BY <2>2, <2>3
<1> QED
  BY <1>1, <1>2, <1>3, <1>4 DEF MS_thread_ax_refresh

-----------------------------------------------------------------------------
(* Each step of the page is one of the abstract page, or none. *)
LEMMA HandStep ==
    HandInv /\ [Next]_vars => HandInv' /\ [Abstract!Next]_(Abstract!vars)
<1> SUFFICES ASSUME HandInv, [Next]_vars
             PROVE  HandInv' /\ [Abstract!Next]_(Abstract!vars)
  OBVIOUS
<1>1. CASE \E p \in Packets : rf4068_rx_callback(p)
  BY <1>1, ReceiveStep
<1>2. CASE MS_thread_ax_refresh
  BY <1>2, RefreshStep
<1>3. CASE SelectRadio \/ MS_thread_ax_start \/ Leave
  BY <1>3, OpenStep
<1>4. CASE BrowseUp \/ BrowseDown \/ EditClock \/ ReturnButton \/ DeleteLen \/ Unlink
             \/ UNCHANGED vars
  BY <1>4, QuietStep
<1> QED
  BY <1>1, <1>2, <1>3, <1>4 DEF Next, MS_thread

(* The radio page of main.c and Radio_Decoder.c implements the abstract    *)
(* page: it files each accepted report once and whole, and drops one only  *)
(* when the operator leaves.                                               *)
THEOREM PageImplementsReports == Spec => FilesReports
<1>1. Init => HandInv /\ Abstract!Init
  BY HandInit
<1>2. HandInv /\ [Next]_vars => HandInv' /\ [Abstract!Next]_(Abstract!vars)
  BY HandStep
<1> QED
  BY <1>1, <1>2, PTL DEF Spec, FilesReports, Abstract!Spec

-----------------------------------------------------------------------------
(* What the decoder and the filed report say came together in a packet. *)
Heard(r) == r.msv # 0 => <<r.msid, r.msv>> \in sent

MsvInv == Heard(dec) /\ Heard(last)

(* The decoder never joins the MSV of one meter to the MSID of another: a  *)
(* state packet keeps the MSV only of its own meter.                       *)
LEMMA DecodedHeard ==
    ASSUME HandInv, MsvInv, NEW p \in Packets, rf4068_rx_callback(p)
    PROVE  MsvInv'
<1>1. /\ sent' = IF p.kind = "state" THEN sent ELSE sent \cup {<<p.id, p.msv>>}
      /\ last' = last
      /\ MS = 11 => dec' = Decoded(p)
      /\ MS # 11 => dec' = dec
  BY DEF rf4068_rx_callback, Receive, fileVars
<1>2. Heard(last)'
  BY <1>1 DEF MsvInv, Heard
<1>3. Heard(dec)'
  <2>1. CASE MS # 11
    BY <1>1, <2>1 DEF MsvInv, Heard
  <2>2. CASE MS = 11 /\ p \in [kind : {"data"}, id : Ids, msv : Msvs]
    <3>1. dec' = [dec EXCEPT !.v = 0, !.msid = p.id, !.msv = p.msv]
          /\ p.kind = "data"
      BY <1>1, <2>2 DEF Decoded, DecodedWith
    <3>2. dec'.msid = p.id /\ dec'.msv = p.msv
      BY <3>1 DEF HandInv, Reports
    <3> QED
      BY <1>1, <3>1, <3>2 DEF Heard
  <2>3. CASE MS = 11 /\ p \in [kind : {"state"}, id : Ids, flag : Flags]
    <3>1. dec' = [v |-> 0, msid |-> p.id, flag |-> p.flag,
                  msv |-> IF dec.msid = p.id THEN dec.msv ELSE 0]
          /\ p.kind = "state"
      BY <1>1, <2>3 DEF Decoded, DecodedWith
    <3> QED
      BY <1>1, <3>1 DEF Heard, MsvInv
  <2>4. CASE MS = 11 /\ p \in [kind : {"plain"}, id : Ids, msv : Msvs, flag : Flags]
    <3>1. dec' = [v |-> 1, msid |-> p.id, msv |-> p.msv, flag |-> p.flag]
          /\ p.kind = "plain"
      BY <1>1, <2>4 DEF Decoded, DecodedWith
    <3> QED
      BY <1>1, <3>1 DEF Heard
  <2> QED
    BY <2>1, <2>2, <2>3, <2>4 DEF Packets
<1> QED
  BY <1>2, <1>3 DEF MsvInv

(* A report that is filed is what the decoder holds. *)
LEMMA FiledIsDecoded ==
    ASSUME HandInv, FileReport
    PROVE  last' = dec
<1>1. mpc = "read" /\ todo = {} /\ last' = copy
  BY DEF FileReport, FileAs
<1>2. \A f \in Fields : copy[f] = dec[f]
  BY <1>1 DEF HandInv
<1>3. copy = dec
  BY <1>2 DEF HandInv, Copies, Reports, Fields
<1> QED
  BY <1>1, <1>3

(* Every step keeps MSID and MSV together. *)
LEMMA MsvStep == HandInv /\ MsvInv /\ [Next]_vars => MsvInv'
<1> SUFFICES ASSUME HandInv, MsvInv, [Next]_vars PROVE MsvInv'
  OBVIOUS
<1> USE DEF pageVars, fileVars, shellVars, airVars
<1>1. CASE \E p \in Packets : rf4068_rx_callback(p)
  BY <1>1, DecodedHeard
<1>2. CASE FileReport
  <2>1. last' = dec /\ UNCHANGED <<dec, sent>>
    BY <1>2, FiledIsDecoded DEF FileReport, FileAs
  <2> QED
    BY <2>1 DEF MsvInv, Heard
<1>3. CASE SelectRadio \/ MS_thread_ax_start \/ BrowseUp \/ BrowseDown \/ EditClock
             \/ ReturnButton \/ Leave \/ GetFlag \/ Resume \/ DeleteLen \/ Unlink
             \/ (\E f \in Fields : GetField(f)) \/ UNCHANGED vars
  <2>1. UNCHANGED <<dec, last, sent>>
    BY <1>3 DEF SelectRadio, MS_thread_ax_start, BrowseUp, BrowseDown, Browse,
       EditClock, ReturnButton, Leave, GetFlag, Begin, GetField, Resume, DeleteLen,
       Unlink, vars
  <2> QED
    BY <2>1 DEF MsvInv, Heard
<1> QED
  BY <1>1, <1>2, <1>3 DEF Next, MS_thread, MS_thread_ax_refresh

(* Whatever meters send in between, the MSV in a filed report was sent by  *)
(* the meter of the report, or is 0.                                       *)
THEOREM MsvIsOfMeter == Spec => []MsvOfMeter
<1>1. Init => HandInv /\ MsvInv
  <2>1. Init => MsvInv
    BY DEF Init, MsvInv, Heard, NoReport
  <2> QED
    BY <2>1, HandInit
<1>2. HandInv /\ MsvInv /\ [Next]_vars => HandInv' /\ MsvInv'
  BY HandStep, MsvStep
<1>3. MsvInv => MsvOfMeter
  BY DEF MsvInv, Heard, MsvOfMeter
<1> QED
  BY <1>1, <1>2, <1>3, PTL DEF Spec

-----------------------------------------------------------------------------
(* While there is a length, the file has at least as many reports, and the *)
(* next one to be shown is not beyond its end; a deletion under way has    *)
(* left no length.                                                         *)
FileType ==
    /\ ax5043_len \in 0..AX5043_MAX
    /\ slots \in NoFile..AX5043_MAX
    /\ show_ax_addr \in Nat

FileInv ==
    ~upset =>
        /\ spc = "unlink" => ax5043_len = 0
        /\ ax5043_len > 0 => ax5043_len <= slots /\ show_ax_addr <= slots

PageInv == FileType /\ FileInv /\ ShownExists

(* A remainder is below the divisor. *)
LEMMA ModBelow ==
    ASSUME NEW a \in Int, NEW b \in Nat, b > 0
    PROVE  a % b \in 0..(b - 1)
  OBVIOUS

(* A number below the divisor is its own remainder. *)
LEMMA ModSmall ==
    ASSUME NEW a \in Nat, NEW b \in Nat, a < b
    PROVE  a % b = a
  OBVIOUS

(* Browsing shows a report of the file: up from the first one is the last, *)
(* down from the last one the first.                                       *)
LEMMA BrowseStep ==
    ASSUME PageInv, BrowseUp \/ BrowseDown
    PROVE  PageInv'
<1> USE RadioAssumption DEF FileType, NoFile
<1>1. /\ ax5043_len > 0 /\ shown' = <<show_ax_addr', slots>>
      /\ slots' = IF slots = NoFile THEN 0 ELSE slots
      /\ UNCHANGED <<ax5043_len, spc, upset>>
  BY DEF BrowseUp, BrowseDown, Browse, show_ax_record, shellVars
<1>2. CASE upset
  <2>1. show_ax_addr' \in Nat
    <3>1. CASE BrowseUp
      <4>1. PICK s \in stat_sample :
              show_ax_addr' = IF show_ax_addr > 0 THEN show_ax_addr - 1
                              ELSE (s - 1) % AddrWrap
        BY <3>1 DEF BrowseUp, Browse, stat_sample, PageInv
      <4>2. s \in Int
        BY DEF stat_sample, PageInv
      <4>3. (s - 1) % AddrWrap \in Nat
        BY <4>2, ModBelow
      <4> QED
        BY <4>1, <4>3 DEF PageInv
    <3>2. CASE BrowseDown
      <4>1. PICK s \in stat_sample : show_ax_addr' = After(s)
        BY <3>2 DEF BrowseDown, Browse
      <4>2. s \in Int /\ s >= NoFile
        BY DEF stat_sample, PageInv
      <4>3. (show_ax_addr + 1) % AddrWrap \in Nat
        BY ModBelow DEF PageInv
      <4>4. s > 0 => ((show_ax_addr + 1) % AddrWrap) % s \in Nat
        BY <4>2, <4>3, ModBelow
      <4>5. s # -1
        BY DEF stat_sample, PageInv
      <4> QED
        BY <4>1, <4>2, <4>3, <4>4, <4>5 DEF After
    <3> QED
      BY <3>1, <3>2
  <2> QED
    BY <1>1, <1>2, <2>1 DEF PageInv, FileInv, ShownExists
<1>3. CASE ~upset
  <2>1. slots > 0 /\ stat_sample = {slots} /\ slots \in Nat /\ show_ax_addr <= slots
    BY <1>1, <1>3 DEF PageInv, FileInv, stat_sample
  <2>2. show_ax_addr' \in Nat /\ show_ax_addr' < slots
    <3>1. CASE BrowseUp /\ show_ax_addr > 0
      BY <2>1, <3>1 DEF BrowseUp, Browse, PageInv
    <3>2. CASE BrowseUp /\ show_ax_addr = 0
      <4>1. show_ax_addr' = (slots - 1) % AddrWrap
        BY <2>1, <3>2 DEF BrowseUp, Browse
      <4>2. (slots - 1) % AddrWrap = slots - 1
        BY <2>1, ModSmall DEF PageInv
      <4> QED
        BY <2>1, <4>1, <4>2
    <3>3. CASE BrowseDown
      <4>1. show_ax_addr' = ((show_ax_addr + 1) % AddrWrap) % slots
        BY <2>1, <3>3 DEF BrowseDown, Browse, After
      <4>2. (show_ax_addr + 1) % AddrWrap \in Nat
        BY ModBelow DEF PageInv
      <4> QED
        BY <2>1, <4>1, <4>2, ModBelow
    <3> QED
      BY <3>1, <3>2, <3>3 DEF PageInv
  <2> QED
    BY <1>1, <1>3, <2>1, <2>2 DEF PageInv, FileInv, ShownExists
<1> QED
  BY <1>2, <1>3 DEF PageInv

(* The page opens on the last report. *)
LEMMA StartStep == ASSUME PageInv, MS_thread_ax_start PROVE PageInv'
<1> USE RadioAssumption DEF FileType, NoFile
<1>1. /\ show_ax_addr' = ax5043_len /\ UNCHANGED <<ax5043_len, spc, upset>>
      /\ IF ax5043_len > 0
         THEN /\ slots' = IF slots = NoFile THEN 0 ELSE slots
              /\ shown' = <<ax5043_len - 1, slots>>
         ELSE UNCHANGED <<slots, shown>>
  BY DEF MS_thread_ax_start, show_ax_record, shellVars
<1> QED
  BY <1>1 DEF PageInv, FileInv, ShownExists

(* A report that is filed makes the file at least as long as the length,   *)
(* which wraps to 0 after the last slot.                                   *)
LEMMA FileStep == ASSUME PageInv, FileReport PROVE PageInv'
<1> USE RadioAssumption DEF FileType, NoFile
<1> DEFINE slot == ax5043_len % AX5043_MAX
           len == (ax5043_len + 1) % (AX5043_MAX + 1)
<1>1. /\ slots' = IF slots > slot THEN slots ELSE slot + 1
      /\ ax5043_len' = len /\ show_ax_addr' = len
      /\ UNCHANGED <<shown, spc>>
  BY DEF FileReport, FileAs
<1>2. ~upset' => ~upset /\ spc # "unlink"
  BY Zenon DEF FileReport, FileAs
<1>3. slot \in 0..(AX5043_MAX - 1) /\ len \in 0..AX5043_MAX
  BY ModBelow DEF PageInv
<1>4. CASE ax5043_len = AX5043_MAX
  <2>1. len = 0
    BY <1>4
  <2> HIDE DEF slot, len
  <2> QED
    BY <1>1, <1>2, <1>3, <2>1 DEF PageInv, FileInv, ShownExists
<1>5. CASE ax5043_len # AX5043_MAX
  <2>1. slot = ax5043_len /\ len = ax5043_len + 1
    BY <1>5, ModSmall DEF PageInv
  <2> HIDE DEF slot, len
  <2> QED
    BY <1>1, <1>2, <1>3, <2>1 DEF PageInv, FileInv, ShownExists
<1> QED
  BY <1>4, <1>5

(* A deletion: first no length, then no file. *)
LEMMA DeleteStep == ASSUME PageInv, DeleteLen \/ Unlink PROVE PageInv'
<1> USE RadioAssumption DEF FileType, NoFile
<1>1. CASE DeleteLen
  BY <1>1 DEF DeleteLen, PageInv, FileInv, ShownExists, pageVars
<1>2. CASE Unlink
  BY <1>2 DEF Unlink, PageInv, FileInv, ShownExists, pageVars
<1> QED
  BY <1>1, <1>2

(* Every step keeps what is shown inside the file. *)
LEMMA PageStep == PageInv /\ [Next]_vars => PageInv'
<1> SUFFICES ASSUME PageInv, [Next]_vars PROVE PageInv'
  OBVIOUS
<1>1. CASE BrowseUp \/ BrowseDown
  BY <1>1, BrowseStep
<1>2. CASE MS_thread_ax_start
  BY <1>2, StartStep
<1>3. CASE FileReport
  BY <1>3, FileStep
<1>4. CASE DeleteLen \/ Unlink
  BY <1>4, DeleteStep
<1>5. CASE SelectRadio \/ EditClock \/ ReturnButton \/ Leave \/ GetFlag \/ Resume
             \/ (\E f \in Fields : GetField(f)) \/ UNCHANGED vars
             \/ (\E p \in Packets : rf4068_rx_callback(p))
  <2>1. UNCHANGED <<ax5043_len, slots, show_ax_addr, shown, spc, upset>>
    BY <1>5 DEF SelectRadio, EditClock, ReturnButton, Leave, GetFlag, Begin, Resume,
       GetField, rf4068_rx_callback, Receive, vars, pageVars, fileVars, shellVars
  <2> QED
    BY <2>1 DEF PageInv, FileType, FileInv, ShownExists
<1> QED
  BY <1>1, <1>2, <1>3, <1>4, <1>5 DEF Next, MS_thread, MS_thread_ax_refresh

(* The report that is shown is one of the file, for every size of the file *)
(* and however the length wraps, unless one was filed inside a deletion.   *)
THEOREM ShownIsInFile == Spec => []ShownExists
<1>1. Init => PageInv
  <2> SUFFICES ASSUME Init PROVE PageInv
    OBVIOUS
  <2>1. shown[1] = 0 /\ shown[2] = 1
    BY DEF Init, NotShown
  <2> QED
    BY <2>1, RadioAssumption DEF Init, PageInv, FileType, FileInv, ShownExists, NoFile
<1>2. PageInv => ShownExists
  BY DEF PageInv
<1> QED
  BY <1>1, <1>2, PageStep, PTL DEF Spec
=============================================================================
