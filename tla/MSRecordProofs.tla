--------------------------- MODULE MSRecordProofs ---------------------------
(***************************************************************************)
(* What holds of the records for every size of the files, any number of    *)
(* saves and power failures, and any interleaving with the shell: as long  *)
(* as main does not come between two steps of a shell command, and the     *)
(* lengths can be read at a start, counted results and reports stay where  *)
(* the length file says.                                                   *)
(*                                                                         *)
(* The properties speak of the files, the code computes with the lengths   *)
(* in memory.  The invariant says how far the two agree: in a session they *)
(* do if the file has the version in memory, and if it has another one     *)
(* nothing has been counted since it was wiped.                            *)
(***************************************************************************)
EXTENDS MSRecord, SequenceTheorems, TLAPS

(* The type invariant but for the truth value, and the shell's arguments   *)
(* while it uses them.                                                     *)
NumOK ==
    /\ lenfile \in LensSet \cup {NoLen}
    /\ msfile \in [MsSlots -> Nat] /\ axfile \in [AxSlots -> Nat]
    /\ record_len \in MsSlots /\ ax5043_len \in 0..AX5043_MAX
    /\ version \in 0..1
    /\ buffer \in LensSet \cup {Other}
    /\ mpc \in {"boot", "wipeMS", "wipeAX", "wipeLen", "idle", "msLen", "axLen"}
    /\ cpc \in {"idle", "fill", "write", "memory", "unlink"}
    /\ carg \in LensSet \cup {NoLen}
    /\ cpc \in {"fill", "write", "memory"} => carg \in LensSet
    /\ ccmd \in {"none", "AX_delete", "MS_delete", "unlink_record"}
    /\ msLog \in Seq(Nat) /\ axLog \in Seq(Nat) /\ stored \in Nat
    /\ wiped \in Nat

CountersOK == /\ saved \in 0..MaxSaves /\ cuts \in 0..MaxCuts
              /\ cmds \in 0..MaxCmds /\ fails \in 0..MaxFails

(* get_Record_len is through. *)
Session == mpc \in {"idle", "msLen", "axLen"}

Wiping == mpc \in {"wipeMS", "wipeAX", "wipeLen"}

(* What is known while get_Record_len runs: the static values, and that a  *)
(* file is wiped for its version 0.                                        *)
BootInv ==
    /\ ~Session => version = CodeVersion /\ cpc = "idle"
    /\ mpc = "boot" => record_len = 0 /\ ax5043_len = 0
    /\ Wiping => lenfile.v = 0
    /\ mpc \in {"wipeAX", "wipeLen"} => msLog = <<>>
    /\ mpc = "wipeLen" => axLog = <<>>

(* In a session the lengths in memory are those of the file, or the file   *)
(* is one of another version, or none, and nothing has been counted.       *)
LengthInv ==
    /\ lenfile = NoLen => msLog = <<>> /\ axLog = <<>>
    /\ Session /\ lenfile.v # version => msLog = <<>> /\ axLog = <<>>
    /\ Session /\ lenfile.v = version /\ cpc # "memory" =>
          lenfile.r = record_len /\ lenfile.a = ax5043_len
    /\ Session => Len(axLog) = IF cpc = "memory" THEN carg.a ELSE ax5043_len
    /\ lenfile.v = CodeVersion => Len(axLog) = lenfile.a

(* A shell command that is under way has the lengths it was started with.  *)
ShellInv ==
    /\ cpc # "idle" => mpc = "idle"
    /\ cpc \in {"fill", "write", "memory"} =>
          /\ ccmd \in {"AX_delete", "MS_delete"} /\ carg.v = version
          /\ ccmd = "AX_delete" => carg.r = record_len /\ carg.a = 0
          /\ ccmd = "MS_delete" => carg.r = 0 /\ carg.a = ax5043_len
    /\ cpc = "write" => buffer = carg
    /\ cpc = "memory" => lenfile = carg

(* The record that was written and is not counted yet. *)
StoredInv ==
    /\ mpc = "msLen" /\ stored # 0 => msfile[record_len] = stored
    /\ mpc = "axLen" /\ stored # 0 => axfile[ax5043_len % AX5043_MAX] = stored

(* Counted results that were wiped had been counted under version 0. *)
WipeInv ==
    /\ wiped <= 1
    /\ wiped = 1 => /\ lenfile # NoLen /\ version = CodeVersion
                    /\ lenfile.v = CodeVersion \/ msLog = <<>>

CalmInv == BootInv /\ LengthInv /\ ShellInv /\ StoredInv /\ WipeInv

StoreInv == NumOK /\ (~upset => CalmInv /\ ResultsKept /\ ReportsKept)

-----------------------------------------------------------------------------
(* A number below the divisor is its own remainder ... *)
LEMMA ModSmall ==
    ASSUME NEW a \in Nat, NEW b \in Nat, a < b
    PROVE  a % b = a
  OBVIOUS

(* ... and one just below zero is counted from the divisor down. *)
LEMMA ModBelowZero ==
    ASSUME NEW a \in Int, NEW b \in Nat, a < 0, -b <= a
    PROVE  a % b = a + b
  OBVIOUS

(* The divisor itself leaves nothing. *)
LEMMA ModSelf ==
    ASSUME NEW b \in Nat, b > 0
    PROVE  b % b = 0
  OBVIOUS

(* The slot of the result j places back: within the file, not the next one *)
(* to be written, and the one j + 1 places back of the next length.        *)
LEMMA SlotsBack ==
    ASSUME NEW r \in MsSlots, NEW j \in 1..(RECORD_MAX - 1)
    PROVE  /\ (r - j) % RECORD_MAX \in MsSlots
           /\ (r - j) % RECORD_MAX # r
           /\ (((r + 1) % RECORD_MAX) - 1) % RECORD_MAX = r
           /\ j > 1 => (((r + 1) % RECORD_MAX) - j) % RECORD_MAX = (r - (j - 1)) % RECORD_MAX
  <1> DEFINE R == RECORD_MAX
  <1>1. R \in Nat /\ R > 1 /\ r \in Nat /\ r < R /\ j \in Nat /\ j >= 1 /\ j < R
    BY SizeAssumption DEF MsSlots
  <1>m. MsSlots = 0..(R - 1)
    BY DEF MsSlots
  <1> HIDE DEF R
  <1>2. \A k \in 0..(R - 1) : (r - k) % R = IF r >= k THEN r - k ELSE r - k + R
    <2> TAKE k \in 0..(R - 1)
    <2>1. CASE r >= k
      <3>1. r - k \in Nat /\ r - k < R
        BY <1>1, <2>1
      <3>2. QED  BY <1>1, <2>1, <3>1, ModSmall
    <2>2. CASE ~(r >= k)
      <3>1. r - k \in Int /\ r - k < 0 /\ -R <= r - k
        BY <1>1, <2>2
      <3>2. QED  BY <1>1, <2>2, <3>1, ModBelowZero
    <2>3. QED  BY <2>1, <2>2
  <1>j. (r - j) % R = IF r >= j THEN r - j ELSE r - j + R
    <2>1. j \in 0..(R - 1)
      BY <1>1
    <2>2. QED  BY <1>2, <2>1
  <1>b. (r - j) % R \in 0..(R - 1) /\ (r - j) % R # r
    <2>1. CASE r >= j
      BY <1>1, <1>j, <2>1
    <2>2. CASE ~(r >= j)
      <3>1. (r - j) % R = r - j + R
        BY <1>j, <2>2
      <3>2. r - j + R \in 0..(R - 1) /\ r - j + R # r
        BY <1>1, <2>2
      <3>3. QED  BY <3>1, <3>2
    <2>3. QED  BY <2>1, <2>2
  <1>3. CASE r + 1 < R
    <2>1. (r + 1) % R = r + 1
      BY <1>1, <1>3, ModSmall
    <2>2. ((r + 1) - 1) % R = r /\ (r + 1) - j = r - (j - 1)
      BY <1>1, ModSmall
    <2>4. QED  BY <1>m, <1>b, <2>1, <2>2 DEF R
  <1>4. CASE r + 1 = R
    <2>1. (r + 1) % R = 0
      BY <1>1, <1>4, ModSelf
    <2>2. (0 - 1) % R = -1 + R /\ (0 - j) % R = -j + R
      BY <1>1, ModBelowZero
    <2>4. j > 1 => (r - (j - 1)) % R = r - (j - 1)
      BY <1>1, <1>2, <1>4
    <2>5. QED
      <3>1. -1 + R = r /\ -j + R = r - (j - 1)
        BY <1>1, <1>4
      <3>2. QED  BY <1>m, <1>b, <2>1, <2>2, <2>4, <3>1 DEF R
  <1>5. QED  BY <1>1, <1>3, <1>4

(* The lengths set_Record_txt writes are within the files, and those that  *)
(* are below the bounds are written as they are.                           *)
LEMMA WrappedType ==
    ASSUME NEW r \in Nat, NEW a \in Nat, NEW v \in 0..1
    PROVE  /\ Wrapped(r, a, v) \in LensSet
           /\ Wrapped(r, a, v).v = v
           /\ r < RECORD_MAX => Wrapped(r, a, v).r = r
           /\ a <= AX5043_MAX => Wrapped(r, a, v).a = a
           /\ Wrapped(r, a, v).r = r % RECORD_MAX
           /\ Wrapped(r, a, v).a = a % (AX5043_MAX + 1)
  <1>1. r % RECORD_MAX \in 0..(RECORD_MAX - 1) /\ a % (AX5043_MAX + 1) \in 0..AX5043_MAX
    BY SizeAssumption
  <1>2. r < RECORD_MAX => r % RECORD_MAX = r
    BY SizeAssumption, ModSmall
  <1>3. a <= AX5043_MAX => a % (AX5043_MAX + 1) = a
    BY SizeAssumption, ModSmall
  <1>4. QED  BY <1>1, <1>2, <1>3 DEF Wrapped, Lens, LensSet

(* A removed file leaves the length of its log and none of its entries. *)
LEMMA ForgottenLog ==
    ASSUME NEW log \in Seq(Nat)
    PROVE  /\ Forgotten(log) \in Seq(Nat) /\ Len(Forgotten(log)) = Len(log)
           /\ \A k \in 1..Len(log) : Forgotten(log)[k] = 0
           /\ log = <<>> => Forgotten(log) = <<>>
  <1>1. Len(log) \in Nat /\ DOMAIN log = 1..Len(log)
    BY LenProperties
  <1>2. Forgotten(log) = [k \in 1..Len(log) |-> 0]
    BY <1>1 DEF Forgotten
  <1>3. Forgotten(log) \in Seq(Nat) /\ Len(Forgotten(log)) = Len(log)
    BY <1>1, <1>2
  <1>4. \A k \in 1..Len(log) : Forgotten(log)[k] = 0
    BY <1>2
  <1>5. log = <<>> => Forgotten(log) = <<>>
    BY <1>3
  <1>6. QED  BY <1>3, <1>4, <1>5

(* What there is in a log with one entry more. *)
LEMMA LongerLog ==
    ASSUME NEW log \in Seq(Nat), NEW x \in Nat
    PROVE  /\ Append(log, x) \in Seq(Nat) /\ Len(Append(log, x)) = Len(log) + 1
           /\ \A k \in 1..Len(log) : Append(log, x)[k] = log[k]
           /\ Append(log, x)[Len(log) + 1] = x
  BY AppendProperties, LenProperties

(* What a length file holds. *)
LEMMA LenFile ==
    ASSUME NumOK
    PROVE  /\ lenfile = NoLen => lenfile.v = -1
           /\ lenfile # NoLen => /\ lenfile \in LensSet /\ lenfile.r \in MsSlots
                                 /\ lenfile.a \in 0..AX5043_MAX /\ lenfile.v \in 0..1
  BY DEF NumOK, NoLen, LensSet, MsSlots

(* Results stay counted where they are when their file, their log and      *)
(* their length do ...                                                     *)
LEMMA ResultsSame ==
    ASSUME ~upset, ResultsKept, lenfile # NoLen, lenfile'.r = lenfile.r,
           msfile' = msfile, msLog' = msLog
    PROVE  ResultsKept'
  BY DEF ResultsKept

(* ... reports too ... *)
LEMMA ReportsSame ==
    ASSUME ~upset, ReportsKept, lenfile # NoLen, lenfile'.a = lenfile.a,
           axfile' = axfile, axLog' = axLog
    PROVE  ReportsKept'
  BY DEF ReportsKept

(* ... and both if no file is touched. *)
LEMMA FilesSame ==
    ASSUME ~upset, ResultsKept, ReportsKept, UNCHANGED <<lenfile, msfile, axfile, msLog, axLog>>
    PROVE  ResultsKept' /\ ReportsKept'
  BY DEF ResultsKept, ReportsKept

(* An empty log of results claims nothing ... *)
LEMMA NoResults == msLog' = <<>> => ResultsKept'
  BY DEF ResultsKept

(* ... nor does one of reports. *)
LEMMA NoReports == axLog' = <<>> => ReportsKept'
  BY DEF ReportsKept

-----------------------------------------------------------------------------
(* get_Record_len keeps the invariant: the length file cannot be opened    *)
(* ...                                                                     *)
LEMMA BootOpenFailsInv ==
    ASSUME StoreInv, BootOpenFails
    PROVE  StoreInv'
  <1>1. /\ mpc = "boot" /\ mpc' = "idle"
        /\ UNCHANGED <<lenfile, msfile, axfile, record_len, ax5043_len, version, buffer,
                       cpc, carg, ccmd, msLog, axLog, stored, wiped>>
    BY DEF BootOpenFails, BootStep, memVars, shellVars
  <1>2. ~upset' => ~upset /\ lenfile = NoLen
    BY Zenon DEF BootOpenFails
  <1>3. NumOK'
    BY <1>1 DEF StoreInv, NumOK
  <1>4. ASSUME ~upset' PROVE CalmInv' /\ ResultsKept' /\ ReportsKept'
    <2>1. ~upset /\ lenfile = NoLen /\ CalmInv /\ ResultsKept /\ ReportsKept
      BY <1>2, <1>4 DEF StoreInv
    <2>2. lenfile.v = -1
      BY <2>1, LenFile DEF StoreInv
    <2>3. cpc = "idle" /\ ax5043_len = 0 /\ msLog = <<>> /\ axLog = <<>>
      BY <1>1, <2>1 DEF CalmInv, BootInv, LengthInv, Session
    <2>4. BootInv' /\ ShellInv' /\ StoredInv'
      BY <1>1, <2>3 DEF BootInv, ShellInv, StoredInv, Session, Wiping
    <2>5. LengthInv'
      BY <1>1, <2>1, <2>2, <2>3 DEF StoreInv, NumOK, LengthInv, CodeVersion
    <2>6. WipeInv'
      BY <1>1, <2>1 DEF CalmInv, WipeInv
    <2>7. QED  BY <1>1, <2>1, <2>4, <2>5, <2>6, FilesSame DEF CalmInv
  <1>5. QED  BY <1>3, <1>4 DEF StoreInv

(* ... or is read ...                                                      *)
LEMMA BootReadInv ==
    ASSUME StoreInv, BootRead
    PROVE  StoreInv'
  <1>1. /\ mpc = "boot"
        /\ UNCHANGED <<lenfile, msfile, axfile, cpc, carg, ccmd, msLog, axLog, stored, wiped>>
        /\ upset' = upset
    BY DEF BootRead, BootStep, shellVars
  <1>2. CASE lenfile = NoLen
    <2>1. /\ record_len' = 0 /\ ax5043_len' = 0 /\ version' = 0 /\ mpc' = "idle"
          /\ buffer' = buffer
      BY <1>2 DEF BootRead
    <2>2. NumOK'
      <3>1. 0 \in MsSlots /\ 0 \in 0..AX5043_MAX
        BY SizeAssumption DEF MsSlots
      <3>2. QED  BY <1>1, <2>1, <3>1 DEF StoreInv, NumOK
    <2>3. ASSUME ~upset' PROVE CalmInv' /\ ResultsKept' /\ ReportsKept'
      <3>1. ~upset /\ CalmInv /\ ResultsKept /\ ReportsKept
        BY <1>1, <2>3 DEF StoreInv
      <3>2. lenfile.v = -1
        BY <1>2, LenFile DEF StoreInv
      <3>3. cpc = "idle" /\ msLog = <<>> /\ axLog = <<>> /\ wiped # 1
        BY <1>1, <1>2, <3>1 DEF CalmInv, BootInv, LengthInv, WipeInv, Session
      <3>4. BootInv' /\ ShellInv' /\ StoredInv'
        BY <1>1, <2>1, <3>3 DEF BootInv, ShellInv, StoredInv, Session, Wiping
      <3>5. LengthInv'
        BY <1>1, <2>1, <3>1, <3>2, <3>3 DEF LengthInv, CodeVersion
      <3>6. WipeInv'
        BY <1>1, <3>1, <3>3 DEF CalmInv, WipeInv
      <3>7. QED  BY <1>1, <3>1, <3>4, <3>5, <3>6, FilesSame DEF CalmInv
    <2>4. QED  BY <2>2, <2>3 DEF StoreInv
  <1>3. CASE lenfile # NoLen
    <2>1. /\ record_len' = lenfile.r /\ ax5043_len' = lenfile.a /\ version' = version
          /\ mpc' = IF version # lenfile.v THEN "wipeMS" ELSE "idle"
          /\ buffer' = lenfile
      BY <1>3 DEF BootRead
    <2>2. NumOK'
      <3>1. /\ lenfile.r \in MsSlots /\ lenfile.a \in 0..AX5043_MAX
            /\ lenfile \in LensSet
        BY <1>3, LenFile DEF StoreInv
      <3>2. QED  BY <1>1, <2>1, <3>1 DEF StoreInv, NumOK
    <2>3. ASSUME ~upset' PROVE CalmInv' /\ ResultsKept' /\ ReportsKept'
      <3>1. ~upset /\ CalmInv /\ ResultsKept /\ ReportsKept
        BY <1>1, <2>3 DEF StoreInv
      <3>2. lenfile.v \in 0..1
        BY <1>3, LenFile DEF StoreInv
      <3>3. cpc = "idle" /\ version = 1
        BY <1>1, <3>1 DEF CalmInv, BootInv, Session, CodeVersion
      <3>4. BootInv'
        BY <1>1, <2>1, <3>2, <3>3 DEF BootInv, Session, Wiping, CodeVersion
      <3>5. ShellInv' /\ StoredInv'
        BY <1>1, <2>1, <3>3 DEF ShellInv, StoredInv
      <3>6. LengthInv'
        BY <1>1, <1>3, <2>1, <3>1, <3>3 DEF CalmInv, LengthInv, CodeVersion, Session
      <3>7. WipeInv'
        BY <1>1, <2>1, <3>1 DEF CalmInv, WipeInv
      <3>8. QED  BY <1>1, <3>1, <3>4, <3>5, <3>6, <3>7, FilesSame DEF CalmInv
    <2>4. QED  BY <2>2, <2>3 DEF StoreInv
  <1>4. QED  BY <1>2, <1>3

(* ... and the files of another version are thrown away: the results,      *)
(* which are counted at most once among all starts ...                     *)
LEMMA WipeMSInv ==
    ASSUME StoreInv, WipeMS
    PROVE  StoreInv'
  <1>1. /\ mpc = "wipeMS" /\ mpc' = "wipeAX"
        /\ msfile' = Empty(MsSlots) /\ msLog' = <<>>
        /\ wiped' = IF msLog # <<>> THEN wiped + 1 ELSE wiped
        /\ UNCHANGED <<lenfile, axfile, record_len, ax5043_len, version, buffer,
                       cpc, carg, ccmd, axLog, stored>>
        /\ upset' = upset
    BY DEF WipeMS, BootStep, shellVars, memVars
  <1>2. NumOK'
    BY <1>1 DEF StoreInv, NumOK, Empty
  <1>3. ASSUME ~upset' PROVE CalmInv' /\ ResultsKept' /\ ReportsKept'
    <2>1. ~upset /\ CalmInv /\ ReportsKept
      BY <1>1, <1>3 DEF StoreInv
    <2>2. lenfile.v = 0 /\ lenfile # NoLen /\ version = 1 /\ cpc = "idle"
      BY <1>1, <2>1 DEF CalmInv, BootInv, Session, Wiping, CodeVersion, NoLen
    <2>3. BootInv' /\ ShellInv' /\ StoredInv'
      BY <1>1, <2>2 DEF BootInv, ShellInv, StoredInv, Session, Wiping, CodeVersion
    <2>4. LengthInv'
      BY <1>1, <2>2 DEF LengthInv, Session, CodeVersion
    <2>5. WipeInv'
      BY <1>1, <2>1, <2>2 DEF CalmInv, WipeInv, CodeVersion, StoreInv, NumOK
    <2>6. ReportsKept'
      BY <1>1, <2>1, <2>2, ReportsSame
    <2>7. QED  BY <1>1, <2>3, <2>4, <2>5, <2>6, NoResults DEF CalmInv
  <1>4. QED  BY <1>2, <1>3 DEF StoreInv

(* ... the reports ...                                                     *)
LEMMA WipeAXInv ==
    ASSUME StoreInv, WipeAX
    PROVE  StoreInv'
  <1>1. /\ mpc = "wipeAX" /\ mpc' = "wipeLen"
        /\ axfile' = Empty(AxSlots) /\ axLog' = <<>>
        /\ UNCHANGED <<lenfile, msfile, record_len, ax5043_len, version, buffer,
                       cpc, carg, ccmd, msLog, stored, wiped>>
        /\ upset' = upset
    BY DEF WipeAX, BootStep, shellVars, memVars
  <1>2. NumOK'
    BY <1>1 DEF StoreInv, NumOK, Empty
  <1>3. ASSUME ~upset' PROVE CalmInv' /\ ResultsKept' /\ ReportsKept'
    <2>1. ~upset /\ CalmInv
      BY <1>1, <1>3 DEF StoreInv
    <2>2. /\ lenfile.v = 0 /\ lenfile # NoLen /\ version = 1 /\ cpc = "idle"
          /\ msLog = <<>>
      BY <1>1, <2>1 DEF CalmInv, BootInv, Session, Wiping, CodeVersion, NoLen
    <2>3. BootInv' /\ ShellInv' /\ StoredInv'
      BY <1>1, <2>2 DEF BootInv, ShellInv, StoredInv, Session, Wiping, CodeVersion
    <2>4. LengthInv'
      BY <1>1, <2>2 DEF LengthInv, Session, CodeVersion
    <2>5. WipeInv'
      BY <1>1, <2>1 DEF CalmInv, WipeInv
    <2>6. QED  BY <1>1, <2>2, <2>3, <2>4, <2>5, NoResults, NoReports DEF CalmInv
  <1>4. QED  BY <1>2, <1>3 DEF StoreInv

(* ... and the lengths, in memory if not in the file.                      *)
LEMMA WipeLenInv ==
    ASSUME StoreInv, WipeLen
    PROVE  StoreInv'
  <1>1. /\ mpc = "wipeLen" /\ mpc' = "idle"
        /\ UNCHANGED <<msfile, axfile, version, cpc, carg, ccmd, msLog, axLog, stored, wiped>>
        /\ upset' = upset
    BY DEF WipeLen, BootStep, shellVars
  <1>2. version \in 0..1
    BY DEF StoreInv, NumOK
  <1>3. /\ Wrapped(0, 0, version) \in LensSet /\ Wrapped(0, 0, version).v = version
        /\ Wrapped(0, 0, version).r = 0 /\ Wrapped(0, 0, version).a = 0
    <2>1. 0 \in Nat /\ 0 < RECORD_MAX /\ 0 <= AX5043_MAX
      BY SizeAssumption
    <2>2. QED  BY <1>2, <2>1, WrappedType, Zenon
  <1>4. /\ record_len' = 0 /\ ax5043_len' = 0
        /\ \/ lenfile' = Wrapped(0, 0, version) /\ buffer' = Wrapped(0, 0, version)
           \/ UNCHANGED <<lenfile, buffer>>
    BY <1>3 DEF WipeLen, set_Record_txt
  <1>5. NumOK'
    <2>1. 0 \in MsSlots /\ 0 \in 0..AX5043_MAX
      BY SizeAssumption DEF MsSlots
    <2>2. lenfile' \in LensSet \cup {NoLen} /\ buffer' \in LensSet \cup {Other}
      BY <1>3, <1>4 DEF StoreInv, NumOK
    <2>3. QED  BY <1>1, <1>4, <2>1, <2>2 DEF StoreInv, NumOK
  <1>6. ASSUME ~upset' PROVE CalmInv' /\ ResultsKept' /\ ReportsKept'
    <2>1. ~upset /\ CalmInv
      BY <1>1, <1>6 DEF StoreInv
    <2>2. /\ lenfile.v = 0 /\ lenfile # NoLen /\ version = 1 /\ cpc = "idle"
          /\ msLog = <<>> /\ axLog = <<>>
      BY <1>1, <2>1 DEF CalmInv, BootInv, Session, Wiping, CodeVersion, NoLen
    <2>3. BootInv' /\ ShellInv' /\ StoredInv'
      BY <1>1, <2>2 DEF BootInv, ShellInv, StoredInv, Session, Wiping, CodeVersion
    <2>4. LengthInv'
      BY <1>1, <1>3, <1>4, <2>2 DEF LengthInv, Session, CodeVersion
    <2>5. WipeInv'
      BY <1>1, <1>3, <1>4, <2>1, <2>2 DEF CalmInv, WipeInv, LensSet, NoLen
    <2>6. QED  BY <1>1, <2>2, <2>3, <2>4, <2>5, NoResults, NoReports DEF CalmInv
  <1>7. QED  BY <1>5, <1>6 DEF StoreInv

-----------------------------------------------------------------------------
(* main's steps leave a calm state only if no shell command is under way.  *)
LEMMA MainCalm ==
    ASSUME StoreInv, MainStep, ~upset'
    PROVE  ~upset /\ cpc = "idle" /\ CalmInv /\ ResultsKept /\ ReportsKept
  <1>1. ~upset /\ cpc = "idle"
    BY Zenon DEF MainStep
  <1>2. QED  BY <1>1 DEF StoreInv

(* A result is written to the slot after the counted ones ...              *)
LEMMA SetRecordInv ==
    ASSUME StoreInv, CountersOK, set_record
    PROVE  StoreInv'
  <1>1. /\ mpc = "idle" /\ mpc' = "msLen" /\ MainStep /\ buffer' = Other
        /\ UNCHANGED <<lenfile, axfile, record_len, ax5043_len, msLog, axLog>>
        /\ UNCHANGED <<cpc, carg, ccmd, wiped, version>>
    BY DEF set_record, WriteResult, MainStep, shellVars
  <1>2. /\ stored' \in Nat
        /\ \/ msfile' = [msfile EXCEPT ![record_len] = stored']
           \/ msfile' = msfile /\ stored' = 0
    BY BoundAssumption DEF set_record, WriteResult, CountersOK
  <1>3. NumOK'
    <2>1. msfile' \in [MsSlots -> Nat]
      BY <1>2 DEF StoreInv, NumOK
    <2>2. QED  BY <1>1, <1>2, <2>1 DEF StoreInv, NumOK
  <1>4. ASSUME ~upset' PROVE CalmInv' /\ ResultsKept' /\ ReportsKept'
    <2>1. ~upset /\ cpc = "idle" /\ CalmInv /\ ResultsKept /\ ReportsKept
      BY <1>1, <1>4, MainCalm
    <2>2. BootInv' /\ ShellInv'
      BY <1>1, <2>1 DEF BootInv, ShellInv, Session, Wiping
    <2>3. LengthInv' /\ WipeInv'
      BY <1>1, <2>1 DEF CalmInv, LengthInv, WipeInv, Session
    <2>4. StoredInv'
      BY <1>1, <1>2 DEF StoredInv, StoreInv, NumOK
    <2>5. ReportsKept'
      BY <1>1, <2>1 DEF ReportsKept
    <2>6. ResultsKept'
      <3> SUFFICES ASSUME msLog # <<>>, lenfile # NoLen, NEW j \in 1..Len(msLog),
                          j < RECORD_MAX, msLog[Len(msLog) + 1 - j] # 0
                   PROVE  msfile'[(lenfile.r - j) % RECORD_MAX] = msLog[Len(msLog) + 1 - j]
        BY <1>1, NoResults DEF ResultsKept
      <3>1. lenfile.r = record_len /\ record_len \in MsSlots
        BY <1>1, <2>1 DEF CalmInv, LengthInv, Session, StoreInv, NumOK
      <3>2. j \in 1..(RECORD_MAX - 1)
        BY SizeAssumption
      <3>3. /\ (record_len - j) % RECORD_MAX \in MsSlots
            /\ (record_len - j) % RECORD_MAX # record_len
        BY <3>1, <3>2, SlotsBack
      <3>4. msfile'[(record_len - j) % RECORD_MAX] = msfile[(record_len - j) % RECORD_MAX]
        <4> DEFINE k == (record_len - j) % RECORD_MAX
        <4>1. k \in MsSlots /\ k # record_len
          BY <3>3
        <4> HIDE DEF k
        <4>2. msfile'[k] = msfile[k]
          BY <1>2, <4>1 DEF StoreInv, NumOK
        <4>3. QED  BY <4>2 DEF k
      <3>5. QED  BY <2>1, <3>1, <3>4 DEF ResultsKept
    <2>7. QED  BY <2>2, <2>3, <2>4, <2>5, <2>6 DEF CalmInv
  <1>5. QED  BY <1>3, <1>4 DEF StoreInv

(* ... and then counted.                                                   *)
LEMMA CountTestInv ==
    ASSUME StoreInv, CountTest
    PROVE  StoreInv'
  <1>1. /\ mpc = "msLen" /\ mpc' = "idle" /\ MainStep
        /\ UNCHANGED <<msfile, axfile, axLog, stored>>
        /\ UNCHANGED <<cpc, carg, ccmd, wiped, version>>
    BY DEF CountTest, CountTestAs, MainStep, shellVars
  <1>2. CASE UNCHANGED <<lenfile, buffer, record_len, ax5043_len, msLog>>
    <2>1. NumOK'
      BY <1>1, <1>2 DEF StoreInv, NumOK
    <2>2. ASSUME ~upset' PROVE CalmInv' /\ ResultsKept' /\ ReportsKept'
      <3>1. ~upset /\ cpc = "idle" /\ CalmInv /\ ResultsKept /\ ReportsKept
        BY <1>1, <2>2, MainCalm
      <3>2. BootInv' /\ ShellInv' /\ StoredInv'
        BY <1>1, <3>1 DEF BootInv, ShellInv, StoredInv, Session, Wiping
      <3>3. LengthInv' /\ WipeInv'
        BY <1>1, <1>2, <3>1 DEF CalmInv, LengthInv, WipeInv, Session
      <3>4. QED  BY <1>1, <1>2, <3>1, <3>2, <3>3, FilesSame DEF CalmInv
    <2>3. QED  BY <2>1, <2>2 DEF StoreInv
  <1>3. CASE /\ set_Record_txt(record_len + 1, ax5043_len, version)
             /\ msLog' = Append(msLog, stored)
    <2> DEFINE w == Wrapped(record_len + 1, ax5043_len, version)
    <2>1. /\ w \in LensSet /\ w.v = version /\ w.a = ax5043_len
          /\ w.r = (record_len + 1) % RECORD_MAX
      <3>1. /\ record_len + 1 \in Nat /\ ax5043_len \in Nat /\ ax5043_len <= AX5043_MAX
            /\ version \in 0..1
        BY SizeAssumption DEF StoreInv, NumOK, MsSlots
      <3>2. QED  BY <3>1, WrappedType, Zenon
    <2>2. lenfile' = w /\ buffer' = w /\ record_len' = w.r /\ ax5043_len' = w.a
      BY <1>3 DEF set_Record_txt
    <2> HIDE DEF w
    <2>3. w.r \in MsSlots /\ w.a \in 0..AX5043_MAX /\ w # NoLen /\ w.v \in 0..1
      BY <2>1 DEF LensSet, NoLen, MsSlots
    <2>4. /\ msLog' \in Seq(Nat) /\ Len(msLog') = Len(msLog) + 1
          /\ \A k \in 1..Len(msLog) : msLog'[k] = msLog[k]
          /\ msLog'[Len(msLog) + 1] = stored
      BY <1>3, LongerLog DEF StoreInv, NumOK
    <2>5. NumOK'
      BY <1>1, <2>1, <2>2, <2>3, <2>4 DEF StoreInv, NumOK
    <2>6. ASSUME ~upset' PROVE CalmInv' /\ ResultsKept' /\ ReportsKept'
      <3>1. ~upset /\ cpc = "idle" /\ CalmInv /\ ResultsKept /\ ReportsKept
        BY <1>1, <2>6, MainCalm
      <3>2. BootInv' /\ ShellInv' /\ StoredInv'
        BY <1>1, <3>1 DEF BootInv, ShellInv, StoredInv, Session, Wiping
      <3>3. LengthInv'
        <4>1. Len(axLog) = ax5043_len
          BY <1>1, <3>1 DEF CalmInv, LengthInv, Session
        <4>2. QED  BY <1>1, <2>1, <2>2, <2>3, <3>1, <4>1 DEF LengthInv
      <3>4. WipeInv'
        BY <1>1, <2>1, <2>2, <2>3, <3>1 DEF CalmInv, WipeInv
      <3>5. ReportsKept'
        <4>1. CASE lenfile.v = version
          <5>1. lenfile # NoLen /\ lenfile.a = ax5043_len
            BY <1>1, <3>1, <4>1 DEF CalmInv, LengthInv, Session, NoLen, StoreInv, NumOK
          <5>2. QED  BY <1>1, <2>1, <2>2, <3>1, <5>1, ReportsSame
        <4>2. CASE lenfile.v # version
          BY <1>1, <3>1, <4>2, NoReports DEF CalmInv, LengthInv, Session
        <4>3. QED  BY <4>1, <4>2
      <3>6. ResultsKept'
        <4> SUFFICES ASSUME NEW j \in 1..Len(msLog'), j < RECORD_MAX,
                            msLog'[Len(msLog') + 1 - j] # 0
                     PROVE  msfile'[(w.r - j) % RECORD_MAX] = msLog'[Len(msLog') + 1 - j]
          BY <2>2 DEF ResultsKept
        <4>1. Len(msLog) \in Nat
          BY LenProperties DEF StoreInv, NumOK
        <4>2. j \in 1..(RECORD_MAX - 1) /\ record_len \in MsSlots
          BY <2>4, <4>1, SizeAssumption DEF StoreInv, NumOK
        <4>3. CASE j = 1
          <5>1. msLog'[Len(msLog') + 1 - j] = stored
            BY <2>4, <4>1, <4>3
          <5>2. (w.r - j) % RECORD_MAX = record_len
            BY <2>1, <4>2, <4>3, SlotsBack
          <5>3. msfile[record_len] = stored
            BY <1>1, <3>1, <5>1 DEF CalmInv, StoredInv
          <5>4. QED  BY <1>1, <5>1, <5>2, <5>3
        <4>4. CASE j # 1
          <5>1. j - 1 \in 1..Len(msLog) /\ j - 1 < RECORD_MAX /\ j > 1
            BY <2>4, <4>1, <4>2, <4>4, SizeAssumption
          <5>2. msLog'[Len(msLog') + 1 - j] = msLog[Len(msLog) + 1 - (j - 1)]
            <6>1. Len(msLog') + 1 - j = Len(msLog) + 1 - (j - 1)
              BY <2>4, <4>1
            <6>2. Len(msLog) + 1 - (j - 1) \in 1..Len(msLog)
              BY <4>1, <5>1
            <6>3. QED  BY <2>4, <6>1, <6>2
          <5>3. (w.r - j) % RECORD_MAX = (record_len - (j - 1)) % RECORD_MAX
            BY <2>1, <4>2, <5>1, SlotsBack
          <5>4. msLog # <<>>
            BY <5>1
          <5>5. lenfile # NoLen /\ lenfile.r = record_len
            BY <1>1, <3>1, <5>4 DEF CalmInv, LengthInv, Session
          <5>6. msfile[(record_len - (j - 1)) % RECORD_MAX] = msLog[Len(msLog) + 1 - (j - 1)]
            BY <3>1, <5>1, <5>2, <5>5 DEF ResultsKept
          <5>7. QED  BY <1>1, <5>2, <5>3, <5>6
        <4>5. QED  BY <4>3, <4>4
      <3>7. QED  BY <3>2, <3>3, <3>4, <3>5, <3>6 DEF CalmInv
    <2>7. QED  BY <2>5, <2>6 DEF StoreInv
  <1>4. QED  BY <1>2, <1>3 DEF CountTest, CountTestAs

(* A report is written to the slot after the counted ones, or to slot 0    *)
(* after a full round ...                                                  *)
LEMMA SetAxRecordInv ==
    ASSUME StoreInv, CountersOK, set_ax_record
    PROVE  StoreInv'
  <1> DEFINE slot == ax5043_len % AX5043_MAX
  <1>1. /\ mpc = "idle" /\ mpc' = "axLen" /\ MainStep /\ buffer' = Other
        /\ UNCHANGED <<lenfile, msfile, record_len, ax5043_len, msLog, axLog>>
        /\ UNCHANGED <<cpc, carg, ccmd, wiped, version>>
    BY DEF set_ax_record, WriteReport, MainStep, shellVars
  <1>2. /\ stored' \in Nat
        /\ \/ axfile' = [axfile EXCEPT ![slot] = stored']
           \/ axfile' = axfile /\ stored' = 0
    BY BoundAssumption DEF set_ax_record, WriteReport, CountersOK
  <1>3. /\ slot \in AxSlots /\ slot' = slot
        /\ ax5043_len < AX5043_MAX => slot = ax5043_len
        /\ ax5043_len = AX5043_MAX => slot = 0
    <2>1. ax5043_len \in Nat /\ ax5043_len <= AX5043_MAX
      BY SizeAssumption DEF StoreInv, NumOK
    <2>2. ax5043_len < AX5043_MAX => slot = ax5043_len
      BY <2>1, SizeAssumption, ModSmall
    <2>3. ax5043_len = AX5043_MAX => slot = 0
      BY <2>1, SizeAssumption, ModSelf
    <2>4. QED  BY <1>1, <2>1, <2>2, <2>3, SizeAssumption DEF AxSlots
  <1> HIDE DEF slot
  <1>4. NumOK'
    <2>1. axfile' \in [AxSlots -> Nat]
      BY <1>2, <1>3 DEF StoreInv, NumOK
    <2>2. QED  BY <1>1, <1>2, <2>1 DEF StoreInv, NumOK
  <1>5. ASSUME ~upset' PROVE CalmInv' /\ ResultsKept' /\ ReportsKept'
    <2>1. ~upset /\ cpc = "idle" /\ CalmInv /\ ResultsKept /\ ReportsKept
      BY <1>1, <1>5, MainCalm
    <2>2. BootInv' /\ ShellInv'
      BY <1>1, <2>1 DEF BootInv, ShellInv, Session, Wiping
    <2>3. LengthInv' /\ WipeInv'
      BY <1>1, <2>1 DEF CalmInv, LengthInv, WipeInv, Session
    <2>4. StoredInv'
      <3>1. stored' # 0 => axfile'[slot'] = stored'
        BY <1>2, <1>3 DEF StoreInv, NumOK
      <3>2. QED  BY <1>1, <3>1 DEF StoredInv, slot
    <2>5. ResultsKept'
      BY <1>1, <2>1 DEF ResultsKept
    <2>6. ReportsKept'
      <3> SUFFICES ASSUME lenfile # NoLen, NEW j \in 1..Len(axLog),
                          j > 1 \/ lenfile.a < AX5043_MAX, axLog[j] # 0
                   PROVE  axfile'[j - 1] = axLog[j]
        BY <1>1 DEF ReportsKept
      <3>1. axLog # <<>> /\ Len(axLog) = ax5043_len
        BY <1>1, <2>1 DEF CalmInv, LengthInv, Session
      <3>2. lenfile.a = ax5043_len
        BY <1>1, <2>1, <3>1 DEF CalmInv, LengthInv, Session
      <3>3. j - 1 # slot /\ j - 1 \in AxSlots
        BY <1>3, <3>1, <3>2, SizeAssumption DEF StoreInv, NumOK, AxSlots
      <3>4. axfile'[j - 1] = axfile[j - 1]
        BY <1>2, <1>3, <3>3 DEF StoreInv, NumOK
      <3>5. QED  BY <2>1, <3>4 DEF ReportsKept
    <2>7. QED  BY <2>2, <2>3, <2>4, <2>5, <2>6 DEF CalmInv
  <1>6. QED  BY <1>4, <1>5 DEF StoreInv

(* ... and then counted; a full round is forgotten by its first successor. *)
LEMMA CountAxInv ==
    ASSUME StoreInv, CountAx
    PROVE  StoreInv'
  <1>1. /\ mpc = "axLen" /\ mpc' = "idle" /\ MainStep
        /\ UNCHANGED <<msfile, axfile, msLog, stored>>
        /\ UNCHANGED <<cpc, carg, ccmd, wiped, version>>
    BY DEF CountAx, MainStep, shellVars
  <1>2. CASE UNCHANGED <<lenfile, buffer, record_len, ax5043_len, axLog>>
    <2>1. NumOK'
      BY <1>1, <1>2 DEF StoreInv, NumOK
    <2>2. ASSUME ~upset' PROVE CalmInv' /\ ResultsKept' /\ ReportsKept'
      <3>1. ~upset /\ cpc = "idle" /\ CalmInv /\ ResultsKept /\ ReportsKept
        BY <1>1, <2>2, MainCalm
      <3>2. BootInv' /\ ShellInv' /\ StoredInv'
        BY <1>1, <3>1 DEF BootInv, ShellInv, StoredInv, Session, Wiping
      <3>3. LengthInv' /\ WipeInv'
        BY <1>1, <1>2, <3>1 DEF CalmInv, LengthInv, WipeInv, Session
      <3>4. QED  BY <1>1, <1>2, <3>1, <3>2, <3>3, FilesSame DEF CalmInv
    <2>3. QED  BY <2>1, <2>2 DEF StoreInv
  <1>3. CASE /\ set_Record_txt(record_len, ax5043_len + 1, version)
             /\ axLog' = IF ax5043_len' = 0 THEN <<>> ELSE Append(axLog, stored)
    <2> DEFINE w == Wrapped(record_len, ax5043_len + 1, version)
    <2>0. ax5043_len \in Nat /\ ax5043_len <= AX5043_MAX /\ record_len \in Nat
      BY SizeAssumption DEF StoreInv, NumOK, MsSlots
    <2>1. /\ w \in LensSet /\ w.v = version /\ w.r = record_len
          /\ w.a = IF ax5043_len = AX5043_MAX THEN 0 ELSE ax5043_len + 1
      <3>1. /\ ax5043_len + 1 \in Nat /\ record_len \in Nat /\ record_len < RECORD_MAX
            /\ version \in 0..1
        BY SizeAssumption DEF StoreInv, NumOK, MsSlots
      <3>2. /\ w \in LensSet /\ w.v = version /\ w.r = record_len
            /\ w.a = (ax5043_len + 1) % (AX5043_MAX + 1)
        BY <3>1, WrappedType, Zenon
      <3>3. CASE ax5043_len = AX5043_MAX
        BY <2>0, <3>2, <3>3, SizeAssumption, ModSelf
      <3>4. CASE ax5043_len # AX5043_MAX
        <4>1. ax5043_len + 1 < AX5043_MAX + 1 /\ AX5043_MAX + 1 \in Nat
          BY <2>0, <3>4, SizeAssumption
        <4>2. QED  BY <3>1, <3>2, <3>4, <4>1, ModSmall
      <3>5. QED  BY <3>3, <3>4
    <2>2. lenfile' = w /\ buffer' = w /\ record_len' = w.r /\ ax5043_len' = w.a
      BY <1>3 DEF set_Record_txt
    <2> HIDE DEF w
    <2>3. w.r \in MsSlots /\ w.a \in 0..AX5043_MAX /\ w # NoLen /\ w.v \in 0..1
      BY <2>1 DEF LensSet, NoLen, MsSlots
    <2>4. /\ axLog' \in Seq(Nat)
          /\ ax5043_len = AX5043_MAX => axLog' = <<>> /\ Len(axLog') = 0
          /\ ax5043_len # AX5043_MAX =>
                /\ Len(axLog') = Len(axLog) + 1
                /\ \A k \in 1..Len(axLog) : axLog'[k] = axLog[k]
                /\ axLog'[Len(axLog) + 1] = stored
      <3>1. CASE ax5043_len = AX5043_MAX
        BY <1>3, <2>1, <2>2, <3>1
      <3>2. CASE ax5043_len # AX5043_MAX
        <4>1. axLog' = Append(axLog, stored)
          BY <1>3, <2>0, <2>1, <2>2, <3>2
        <4>2. QED  BY <3>2, <4>1, LongerLog DEF StoreInv, NumOK
      <3>3. QED  BY <3>1, <3>2
    <2>5. NumOK'
      BY <1>1, <2>1, <2>2, <2>3, <2>4 DEF StoreInv, NumOK
    <2>6. ASSUME ~upset' PROVE CalmInv' /\ ResultsKept' /\ ReportsKept'
      <3>1. ~upset /\ cpc = "idle" /\ CalmInv /\ ResultsKept /\ ReportsKept
        BY <1>1, <2>6, MainCalm
      <3>2. BootInv' /\ ShellInv' /\ StoredInv'
        BY <1>1, <3>1 DEF BootInv, ShellInv, StoredInv, Session, Wiping
      <3>3. Len(axLog) = ax5043_len
        BY <1>1, <3>1 DEF CalmInv, LengthInv, Session
      <3>4. LengthInv'
        BY <1>1, <2>1, <2>2, <2>3, <2>4, <3>1, <3>3 DEF LengthInv
      <3>5. WipeInv'
        BY <1>1, <2>1, <2>2, <2>3, <3>1 DEF CalmInv, WipeInv
      <3>6. CASE lenfile.v = version
        <4>1. lenfile # NoLen /\ lenfile.r = record_len /\ lenfile.a = ax5043_len
          BY <1>1, <3>1, <3>6 DEF CalmInv, LengthInv, Session, NoLen, StoreInv, NumOK
        <4>2. ResultsKept'
          BY <1>1, <2>1, <2>2, <3>1, <4>1, ResultsSame
        <4>3. ReportsKept'
          <5>1. CASE ax5043_len = AX5043_MAX
            BY <2>4, <5>1, NoReports
          <5>2. CASE ax5043_len # AX5043_MAX
            <6> SUFFICES ASSUME NEW j \in 1..Len(axLog'), axLog'[j] # 0
                         PROVE  axfile[j - 1] = axLog'[j]
              BY <1>1 DEF ReportsKept
            <6>1. CASE j \in 1..Len(axLog)
              <7>1. lenfile.a < AX5043_MAX /\ axLog'[j] = axLog[j]
                BY <2>0, <2>4, <4>1, <5>2, <6>1, SizeAssumption
              <7>2. QED  BY <3>1, <4>1, <6>1, <7>1 DEF ReportsKept
            <6>2. CASE j \notin 1..Len(axLog)
              <7>1. j = ax5043_len + 1 /\ axLog'[j] = stored
                BY <2>0, <2>4, <3>3, <5>2, <6>2
              <7>2. ax5043_len % AX5043_MAX = ax5043_len
                BY <2>0, <5>2, SizeAssumption, ModSmall
              <7>3. axfile[ax5043_len] = stored
                BY <1>1, <3>1, <7>1, <7>2 DEF CalmInv, StoredInv
              <7>4. QED  BY <2>0, <7>1, <7>3
            <6>3. QED  BY <6>1, <6>2
          <5>3. QED  BY <5>1, <5>2
        <4>4. QED  BY <3>2, <3>4, <3>5, <4>2, <4>3 DEF CalmInv
      <3>7. CASE lenfile.v # version
        <4>1. msLog = <<>> /\ axLog = <<>> /\ ax5043_len = 0
          BY <1>1, <3>1, <3>3, <3>7 DEF CalmInv, LengthInv, Session
        <4>2. ReportsKept'
          <5> SUFFICES ASSUME NEW j \in 1..Len(axLog'), axLog'[j] # 0
                       PROVE  axfile[j - 1] = axLog'[j]
            BY <1>1 DEF ReportsKept
          <5>1. j = 1 /\ axLog'[j] = stored
            <6>1. ax5043_len # AX5043_MAX /\ Len(axLog) = 0
              BY <3>3, <4>1, SizeAssumption
            <6>2. Len(axLog') = 0 + 1 /\ axLog'[0 + 1] = stored
              BY <2>4, <6>1
            <6>3. QED  BY <6>2
          <5>2. 0 % AX5043_MAX = 0
            BY SizeAssumption, ModSmall
          <5>3. axfile[0] = stored
            BY <1>1, <3>1, <4>1, <5>1, <5>2 DEF CalmInv, StoredInv
          <5>4. QED  BY <5>1, <5>3
        <4>3. ResultsKept'
          BY <1>1, <4>1, NoResults
        <4>4. QED  BY <3>2, <3>4, <3>5, <4>2, <4>3 DEF CalmInv
      <3>8. QED  BY <3>6, <3>7
    <2>7. QED  BY <2>5, <2>6 DEF StoreInv
  <1>4. QED  BY <1>2, <1>3 DEF CountAx

(* Other uses of the buffer. *)
LEMMA UseBufferInv ==
    ASSUME StoreInv, UseBuffer
    PROVE  StoreInv'
  <1>1. /\ mpc = "idle" /\ mpc' = mpc /\ buffer' = Other /\ MainStep
        /\ UNCHANGED <<lenfile, msfile, axfile, record_len, ax5043_len, version, cpc, carg,
                       ccmd, msLog, axLog, stored, wiped>>
    BY DEF UseBuffer, MainStep, shellVars
  <1>2. NumOK'
    BY <1>1 DEF StoreInv, NumOK
  <1>3. ASSUME ~upset' PROVE CalmInv' /\ ResultsKept' /\ ReportsKept'
    <2>1. ~upset /\ cpc = "idle" /\ CalmInv /\ ResultsKept /\ ReportsKept
      BY <1>1, <1>3, MainCalm
    <2>2. BootInv' /\ ShellInv' /\ StoredInv'
      BY <1>1, <2>1 DEF BootInv, ShellInv, StoredInv, Session, Wiping
    <2>3. LengthInv' /\ WipeInv'
      BY <1>1, <2>1 DEF CalmInv, LengthInv, WipeInv, Session
    <2>4. QED  BY <1>1, <2>1, <2>2, <2>3, FilesSame DEF CalmInv
  <1>4. QED  BY <1>2, <1>3 DEF StoreInv

-----------------------------------------------------------------------------
(* A shell command begins: its arguments are the lengths in memory.        *)
LEMMA StartDeleteInv ==
    ASSUME StoreInv, NEW cmd \in {"AX_delete", "MS_delete"}, StartDelete(cmd)
    PROVE  StoreInv'
  <1>1. /\ mpc = "idle" /\ mpc' = mpc /\ cpc = "idle" /\ cpc' = "fill" /\ ccmd' = cmd
        /\ carg' = IF cmd = "AX_delete" THEN Lens(record_len, 0, version)
                   ELSE Lens(0, ax5043_len, version)
        /\ UNCHANGED <<lenfile, msfile, axfile, record_len, ax5043_len, version, buffer,
                       msLog, axLog, stored, wiped>>
        /\ upset' = upset
    BY DEF StartDelete, ShellGo
  <1>2. /\ carg' \in LensSet /\ carg'.v = version
        /\ cmd = "AX_delete" => carg'.r = record_len /\ carg'.a = 0
        /\ cmd = "MS_delete" => carg'.r = 0 /\ carg'.a = ax5043_len
    BY <1>1, SizeAssumption DEF StoreInv, NumOK, Lens, LensSet, MsSlots
  <1>3. NumOK'
    BY <1>1, <1>2 DEF StoreInv, NumOK
  <1>4. ASSUME ~upset' PROVE CalmInv' /\ ResultsKept' /\ ReportsKept'
    <2>1. ~upset /\ CalmInv /\ ResultsKept /\ ReportsKept
      BY <1>1, <1>4 DEF StoreInv
    <2>2. BootInv' /\ StoredInv' /\ ShellInv'
      BY <1>1, <1>2 DEF BootInv, StoredInv, ShellInv, Session, Wiping
    <2>3. LengthInv' /\ WipeInv'
      BY <1>1, <2>1 DEF CalmInv, LengthInv, WipeInv, Session
    <2>4. QED  BY <1>1, <2>1, <2>2, <2>3, FilesSame DEF CalmInv
  <1>5. QED  BY <1>3, <1>4 DEF StoreInv

(* The arguments are put into the buffer, or the open fails; or            *)
(* unlink_record begins.                                                   *)
LEMMA FillBufferInv ==
    ASSUME StoreInv, FillBuffer \/ unlink_record
    PROVE  StoreInv'
  <1>1. /\ mpc = "idle" /\ mpc' = mpc
        /\ \/ cpc = "fill" /\ cpc' = "write" /\ buffer' = carg /\ ccmd' = ccmd
           \/ cpc = "fill" /\ cpc' = "unlink" /\ buffer' = buffer /\ ccmd' = ccmd
           \/ /\ cpc = "idle" /\ cpc' = "unlink" /\ buffer' = buffer
              /\ ccmd' = "unlink_record"
        /\ UNCHANGED <<lenfile, msfile, axfile, record_len, ax5043_len, version, carg,
                       msLog, axLog, stored, wiped>>
        /\ upset' = upset
    BY DEF FillBuffer, unlink_record, ShellGo
  <1>2. NumOK'
    BY <1>1 DEF StoreInv, NumOK
  <1>3. ASSUME ~upset' PROVE CalmInv' /\ ResultsKept' /\ ReportsKept'
    <2>1. ~upset /\ CalmInv /\ ResultsKept /\ ReportsKept
      BY <1>1, <1>3 DEF StoreInv
    <2>2. BootInv' /\ StoredInv' /\ ShellInv'
      BY <1>1, <2>1 DEF CalmInv, BootInv, StoredInv, ShellInv, Session, Wiping
    <2>3. LengthInv' /\ WipeInv'
      BY <1>1, <2>1 DEF CalmInv, LengthInv, WipeInv, Session
    <2>4. QED  BY <1>1, <2>1, <2>2, <2>3, FilesSame DEF CalmInv
  <1>4. QED  BY <1>2, <1>3 DEF StoreInv

(* The buffer is written: it still holds the arguments, so that the file   *)
(* loses one length and keeps the other.                                   *)
LEMMA WriteBufferInv ==
    ASSUME StoreInv, WriteBuffer
    PROVE  StoreInv'
  <1>1. /\ mpc = "idle" /\ mpc' = mpc /\ cpc = "write" /\ cpc' = "memory"
        /\ msLog' = IF ccmd = "MS_delete" THEN <<>> ELSE msLog
        /\ axLog' = IF ccmd = "AX_delete" THEN <<>> ELSE axLog
        /\ UNCHANGED <<msfile, axfile, record_len, ax5043_len, version, buffer, carg, ccmd,
                       stored, wiped>>
        /\ upset' = upset
    BY DEF WriteBuffer, ShellGo
  <1>2. lenfile' \in LensSet /\ (buffer # Other => lenfile' = buffer)
    BY DEF WriteBuffer, StoreInv, NumOK
  <1>3. NumOK'
    <2>1. msLog' \in Seq(Nat) /\ axLog' \in Seq(Nat)
      BY <1>1 DEF StoreInv, NumOK
    <2>2. QED  BY <1>1, <1>2, <2>1 DEF StoreInv, NumOK
  <1>4. ASSUME ~upset' PROVE CalmInv' /\ ResultsKept' /\ ReportsKept'
    <2>1. ~upset /\ CalmInv /\ ResultsKept /\ ReportsKept
      BY <1>1, <1>4 DEF StoreInv
    <2>2. /\ ccmd \in {"AX_delete", "MS_delete"} /\ carg.v = version /\ buffer = carg
          /\ ccmd = "AX_delete" => carg.r = record_len /\ carg.a = 0
          /\ ccmd = "MS_delete" => carg.r = 0 /\ carg.a = ax5043_len
      BY <1>1, <2>1 DEF CalmInv, ShellInv
    <2>3. carg \in LensSet /\ carg # Other /\ carg # NoLen /\ version \in 0..1
      BY <1>1 DEF StoreInv, NumOK, LensSet, Other, NoLen
    <2>4. lenfile' = carg
      BY <1>2, <2>2, <2>3
    <2>5. BootInv' /\ StoredInv' /\ ShellInv'
      BY <1>1, <2>2, <2>4 DEF BootInv, StoredInv, ShellInv, Session, Wiping
    <2>6. Len(axLog') = carg.a
      <3>1. CASE ccmd = "AX_delete"
        BY <1>1, <2>2, <3>1
      <3>2. CASE ccmd = "MS_delete"
        BY <1>1, <2>1, <2>2, <3>2 DEF CalmInv, LengthInv, Session
      <3>3. QED  BY <2>2, <3>1, <3>2
    <2>7. LengthInv'
      BY <1>1, <2>2, <2>3, <2>4, <2>6 DEF LengthInv, Session
    <2>8. WipeInv'
      BY <1>1, <2>1, <2>2, <2>3, <2>4 DEF CalmInv, WipeInv
    <2>9. CASE lenfile.v = version
      <3>1. lenfile # NoLen /\ lenfile.r = record_len /\ lenfile.a = ax5043_len
        BY <1>1, <2>1, <2>3, <2>9 DEF CalmInv, LengthInv, Session, NoLen
      <3>2. CASE ccmd = "AX_delete"
        BY <1>1, <2>1, <2>2, <2>4, <2>5, <2>7, <2>8, <3>1, <3>2, NoReports, ResultsSame
           DEF CalmInv
      <3>3. CASE ccmd = "MS_delete"
        BY <1>1, <2>1, <2>2, <2>4, <2>5, <2>7, <2>8, <3>1, <3>3, NoResults, ReportsSame
           DEF CalmInv
      <3>4. QED  BY <2>2, <3>2, <3>3
    <2>10. CASE lenfile.v # version
      <3>1. msLog' = <<>> /\ axLog' = <<>>
        BY <1>1, <2>1, <2>10 DEF CalmInv, LengthInv, Session
      <3>2. QED  BY <2>5, <2>7, <2>8, <3>1, NoResults, NoReports DEF CalmInv
    <2>11. QED  BY <2>9, <2>10
  <1>5. QED  BY <1>3, <1>4 DEF StoreInv

(* The lengths in memory follow.                                           *)
LEMMA KeepLengthsInv ==
    ASSUME StoreInv, KeepLengths
    PROVE  StoreInv'
  <1>1. /\ mpc = "idle" /\ mpc' = mpc /\ cpc = "memory" /\ cpc' = "unlink"
        /\ record_len' = carg.r /\ ax5043_len' = carg.a
        /\ UNCHANGED <<lenfile, msfile, axfile, version, buffer, carg, ccmd, msLog, axLog,
                       stored, wiped>>
        /\ upset' = upset
    BY DEF KeepLengths, ShellGo
  <1>2. NumOK'
    <2>1. carg.r \in MsSlots /\ carg.a \in 0..AX5043_MAX
      BY <1>1 DEF StoreInv, NumOK, LensSet, MsSlots
    <2>2. QED  BY <1>1, <2>1 DEF StoreInv, NumOK
  <1>3. ASSUME ~upset' PROVE CalmInv' /\ ResultsKept' /\ ReportsKept'
    <2>1. ~upset /\ CalmInv /\ ResultsKept /\ ReportsKept
      BY <1>1, <1>3 DEF StoreInv
    <2>2. lenfile = carg
      BY <1>1, <2>1 DEF CalmInv, ShellInv
    <2>3. BootInv' /\ StoredInv' /\ ShellInv'
      BY <1>1 DEF BootInv, StoredInv, ShellInv, Session, Wiping
    <2>4. LengthInv' /\ WipeInv'
      BY <1>1, <2>1, <2>2 DEF CalmInv, LengthInv, WipeInv, Session
    <2>5. QED  BY <1>1, <2>1, <2>3, <2>4, FilesSame DEF CalmInv
  <1>4. QED  BY <1>2, <1>3 DEF StoreInv

(* The file is removed, and with it what its log claims.                   *)
LEMMA UnlinkFileInv ==
    ASSUME StoreInv, UnlinkFile
    PROVE  StoreInv'
  <1>1. /\ mpc = "idle" /\ mpc' = mpc /\ cpc = "unlink" /\ cpc' = "idle"
        /\ carg' = NoLen /\ ccmd' = "none"
        /\ \/ /\ axfile' = Empty(AxSlots) /\ axLog' = Forgotten(axLog)
              /\ UNCHANGED <<msfile, msLog>>
           \/ /\ msfile' = Empty(MsSlots) /\ msLog' = Forgotten(msLog)
              /\ UNCHANGED <<axfile, axLog>>
        /\ UNCHANGED <<lenfile, record_len, ax5043_len, version, buffer, stored, wiped>>
        /\ upset' = upset
    BY DEF UnlinkFile, ShellGo
  <1>2. /\ msLog' \in Seq(Nat) /\ axLog' \in Seq(Nat) /\ Len(axLog') = Len(axLog)
        /\ msLog = <<>> => msLog' = <<>>
        /\ axLog = <<>> => axLog' = <<>>
    BY <1>1, ForgottenLog DEF StoreInv, NumOK
  <1>3. NumOK'
    <2>1. msfile' \in [MsSlots -> Nat] /\ axfile' \in [AxSlots -> Nat]
      BY <1>1 DEF StoreInv, NumOK, Empty
    <2>2. QED  BY <1>1, <1>2, <2>1 DEF StoreInv, NumOK
  <1>4. ASSUME ~upset' PROVE CalmInv' /\ ResultsKept' /\ ReportsKept'
    <2>1. ~upset /\ CalmInv /\ ResultsKept /\ ReportsKept
      BY <1>1, <1>4 DEF StoreInv
    <2>2. BootInv' /\ StoredInv' /\ ShellInv'
      BY <1>1 DEF BootInv, StoredInv, ShellInv, Session, Wiping
    <2>3. LengthInv'
      BY <1>1, <1>2, <2>1 DEF CalmInv, LengthInv, Session
    <2>4. WipeInv'
      BY <1>1, <1>2, <2>1 DEF CalmInv, WipeInv
    <2>5. ResultsKept' /\ ReportsKept'
      <3>1. CASE axLog' = Forgotten(axLog) /\ UNCHANGED <<msfile, msLog>>
        <4>1. \A k \in 1..Len(axLog) : axLog'[k] = 0
          BY <3>1, ForgottenLog DEF StoreInv, NumOK
        <4>2. ReportsKept'
          BY <1>2, <4>1 DEF ReportsKept
        <4>3. ResultsKept'
          BY <1>1, <2>1, <3>1 DEF ResultsKept
        <4>4. QED  BY <4>2, <4>3
      <3>2. CASE msLog' = Forgotten(msLog) /\ UNCHANGED <<axfile, axLog>>
        <4>1. /\ \A k \in 1..Len(msLog) : msLog'[k] = 0
              /\ Len(msLog') = Len(msLog) /\ Len(msLog) \in Nat
          BY <3>2, ForgottenLog, LenProperties DEF StoreInv, NumOK
        <4>2. \A j \in 1..Len(msLog') : msLog'[Len(msLog') + 1 - j] = 0
          BY <4>1
        <4>3. ResultsKept'
          BY <4>2 DEF ResultsKept
        <4>4. ReportsKept'
          BY <1>1, <2>1, <3>2 DEF ReportsKept
        <4>5. QED  BY <4>3, <4>4
      <3>3. QED  BY <1>1, <3>1, <3>2
    <2>6. QED  BY <2>2, <2>3, <2>4, <2>5 DEF CalmInv
  <1>5. QED  BY <1>3, <1>4 DEF StoreInv

-----------------------------------------------------------------------------
(* The power fails between any two steps: the files alone keep the records *)
(* and the agreement of the report length with its log.                    *)
LEMMA PowerCutInv ==
    ASSUME StoreInv, PowerCut
    PROVE  StoreInv'
  <1>1. /\ mpc' = "boot" /\ record_len' = 0 /\ ax5043_len' = 0 /\ version' = CodeVersion
        /\ buffer' = Other /\ stored' = 0 /\ cpc' = "idle" /\ carg' = NoLen /\ ccmd' = "none"
        /\ UNCHANGED <<lenfile, msfile, axfile, msLog, axLog, wiped>>
        /\ upset' = upset
    BY DEF PowerCut
  <1>2. NumOK'
    <2>1. 0 \in MsSlots /\ 0 \in 0..AX5043_MAX
      BY SizeAssumption DEF MsSlots
    <2>2. QED  BY <1>1, <2>1 DEF StoreInv, NumOK, CodeVersion
  <1>3. ASSUME ~upset' PROVE CalmInv' /\ ResultsKept' /\ ReportsKept'
    <2>1. ~upset /\ CalmInv /\ ResultsKept /\ ReportsKept
      BY <1>1, <1>3 DEF StoreInv
    <2>2. BootInv' /\ StoredInv' /\ ShellInv'
      BY <1>1 DEF BootInv, StoredInv, ShellInv, Session, Wiping
    <2>3. LengthInv' /\ WipeInv'
      BY <1>1, <2>1 DEF CalmInv, LengthInv, WipeInv, Session
    <2>4. QED  BY <1>1, <2>1, <2>2, <2>3, FilesSame DEF CalmInv
  <1>4. QED  BY <1>2, <1>3 DEF StoreInv

(* A step that changes nothing. *)
LEMMA StutterInv ==
    ASSUME StoreInv, UNCHANGED vars
    PROVE  StoreInv'
  <1> USE DEF vars, memVars, shellVars, logVars
  <1>1. NumOK'
    BY DEF StoreInv, NumOK
  <1>2. CalmInv => CalmInv'
    BY DEF CalmInv, BootInv, LengthInv, ShellInv, StoredInv, WipeInv, Session, Wiping
  <1>3. ResultsKept => ResultsKept'
    BY DEF ResultsKept
  <1>4. ReportsKept => ReportsKept'
    BY DEF ReportsKept
  <1>5. upset' = upset
    OBVIOUS
  <1>6. QED  BY <1>1, <1>2, <1>3, <1>4, <1>5 DEF StoreInv

(* The bounds of the counters are kept. *)
LEMMA CountersInv == CountersOK /\ [Next]_vars => CountersOK'
  <1> SUFFICES ASSUME CountersOK, [Next]_vars PROVE CountersOK'
    OBVIOUS
  <1> USE BoundAssumption DEF CountersOK, OpenFails
  <1>1. CASE Boot
    BY <1>1 DEF Boot, BootOpenFails, BootRead, WipeMS, WipeAX, WipeLen, BootStep
  <1>2. CASE set_record \/ set_ax_record
    BY <1>2 DEF set_record, WriteResult, set_ax_record, WriteReport, MainStep
  <1>3. CASE CountTest \/ CountAx \/ UseBuffer
    BY <1>3 DEF CountTest, CountTestAs, CountAx, UseBuffer, MainStep
  <1>4. CASE AX_delete \/ MS_delete \/ unlink_record
    BY <1>4 DEF AX_delete, MS_delete, StartDelete, unlink_record, ShellGo
  <1>5. CASE FillBuffer \/ WriteBuffer \/ KeepLengths \/ UnlinkFile
    BY <1>5 DEF FillBuffer, WriteBuffer, KeepLengths, UnlinkFile, ShellGo
  <1>6. CASE PowerCut
    BY <1>6 DEF PowerCut
  <1>7. CASE UNCHANGED vars
    BY <1>7 DEF vars, boundVars
  <1>8. QED
    BY <1>1, <1>2, <1>3, <1>4, <1>5, <1>6, <1>7 DEF Next, Main, Shell

(* The tester starts with an empty file system. *)
LEMMA StoreInit == Init => StoreInv /\ CountersOK
  <1> SUFFICES ASSUME Init PROVE StoreInv /\ CountersOK
    OBVIOUS
  <1>1. NumOK
    <2>1. 0 \in MsSlots /\ 0 \in 0..AX5043_MAX
      BY SizeAssumption DEF MsSlots
    <2>2. msfile \in [MsSlots -> Nat] /\ axfile \in [AxSlots -> Nat]
      BY DEF Init, Empty
    <2>3. QED  BY <2>1, <2>2 DEF Init, NumOK, CodeVersion
  <1>2. CountersOK
    BY BoundAssumption DEF Init, CountersOK
  <1>3. lenfile.v = -1 /\ lenfile = NoLen
    BY DEF Init, NoLen
  <1>4. CalmInv
    BY <1>3 DEF Init, CalmInv, BootInv, LengthInv, ShellInv, StoredInv, WipeInv, Session,
                Wiping, CodeVersion
  <1>5. ResultsKept /\ ReportsKept
    BY <1>3 DEF ResultsKept, ReportsKept
  <1>6. QED  BY <1>1, <1>2, <1>4, <1>5 DEF StoreInv

(* The invariant holds in every state, whenever the power fails and        *)
(* whatever the shell does.                                                *)
THEOREM StoreInvariance == Spec => [](StoreInv /\ CountersOK)
  <1>1. StoreInv /\ CountersOK /\ [Next]_vars => StoreInv'
    <2> SUFFICES ASSUME StoreInv, CountersOK, [Next]_vars PROVE StoreInv'
      OBVIOUS
    <2>1. CASE Boot
      BY <2>1, BootOpenFailsInv, BootReadInv, WipeMSInv, WipeAXInv, WipeLenInv DEF Boot
    <2>2. CASE Main
      BY <2>2, SetRecordInv, CountTestInv, SetAxRecordInv, CountAxInv, UseBufferInv DEF Main
    <2>3. CASE Shell
      BY <2>3, StartDeleteInv, FillBufferInv, WriteBufferInv, KeepLengthsInv, UnlinkFileInv
         DEF Shell, AX_delete, MS_delete
    <2>4. CASE PowerCut
      BY <2>4, PowerCutInv
    <2>5. CASE UNCHANGED vars
      BY <2>5, StutterInv
    <2>6. QED  BY <2>1, <2>2, <2>3, <2>4, <2>5 DEF Next
  <1>2. QED  BY <1>1, StoreInit, CountersInv, PTL DEF Spec

(* The last RECORD_MAX - 1 counted test results are in the slots before    *)
(* the counted length, whenever the power fails.                           *)
THEOREM KeepsResults == Spec => []ResultsKept
  <1>1. StoreInv => ResultsKept
    BY DEF StoreInv, ResultsKept
  <1>2. QED  BY <1>1, StoreInvariance, PTL

(* The reports counted in a round are in their slots, whenever the power   *)
(* fails.                                                                  *)
THEOREM KeepsReports == Spec => []ReportsKept
  <1>1. StoreInv => ReportsKept
    BY DEF StoreInv, ReportsKept
  <1>2. QED  BY <1>1, StoreInvariance, PTL

(* When nobody is at work the lengths in memory are those in the file, if  *)
(* it has the version in memory.                                           *)
THEOREM MemoryFollowsFile == Spec => []MemoryMatchesFile
  <1>1. StoreInv => MemoryMatchesFile
    <2> SUFFICES ASSUME StoreInv, ~upset, mpc = "idle", cpc = "idle", lenfile.v = version
                 PROVE  lenfile = Lens(record_len, ax5043_len, version)
      BY DEF MemoryMatchesFile
    <2>1. lenfile.r = record_len /\ lenfile.a = ax5043_len
      BY DEF StoreInv, CalmInv, LengthInv, Session
    <2>2. lenfile \in LensSet
      BY DEF StoreInv, NumOK, NoLen
    <2>3. QED  BY <2>1, <2>2 DEF LensSet, Lens
  <1>2. QED  BY <1>1, StoreInvariance, PTL

(* The version check throws counted test results away at most once.        *)
THEOREM WipesOnce == Spec => []WipedOnce
  <1>1. StoreInv => WipedOnce
    BY DEF StoreInv, CalmInv, WipeInv, WipedOnce
  <1>2. QED  BY <1>1, StoreInvariance, PTL

(* The type invariant of the record store. *)
THEOREM StoreTypeOK == Spec => []TypeOK
  <1> DEFINE U == upset \in BOOLEAN
  <1>1. Init => U
    <2>1. ASSUME Init PROVE upset = FALSE
      BY <2>1 DEF Init
    <2>2. QED  BY <2>1
  <1>2. U /\ [Next]_vars => U'
    <2> SUFFICES ASSUME upset \in BOOLEAN, [Next]_vars PROVE upset' \in BOOLEAN
      OBVIOUS
    <2>1. CASE BootOpenFails
      BY <2>1, Zenon DEF BootOpenFails
    <2>2. CASE MainStep
      BY <2>2, Zenon DEF MainStep
    <2>3. BootRead \/ WipeMS \/ WipeAX \/ WipeLen \/ Shell \/ PowerCut \/ UNCHANGED vars
             => upset' = upset
      BY DEF BootRead, WipeMS, WipeAX, WipeLen, Shell, AX_delete, MS_delete, StartDelete,
             unlink_record, FillBuffer, WriteBuffer, KeepLengths, UnlinkFile, ShellGo,
             PowerCut, vars
    <2>4. Main => MainStep
      BY DEF Main, set_record, WriteResult, CountTest, CountTestAs, set_ax_record,
             WriteReport, CountAx, UseBuffer
    <2>5. QED  BY <2>1, <2>2, <2>3, <2>4 DEF Next, Boot
  <1>3. StoreInv /\ CountersOK /\ U => TypeOK
    BY Zenon DEF StoreInv, NumOK, CountersOK, TypeOK
  <1>4. QED  BY <1>1, <1>2, <1>3, StoreInvariance, PTL DEF Spec
=============================================================================
