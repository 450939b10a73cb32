-------------------------- MODULE MSReceiverProofs --------------------------
(***************************************************************************)
(* Two parts of the way of a packet, for every value of the constants.     *)
(*                                                                         *)
(* The decoder's checks miss no error of fewer than eight chips, for       *)
(* blocks of every size.  Two blocks with even rows and columns that       *)
(* differ, differ in four bits at least; and where a coded packet differs  *)
(* from the block sent, both chips of the bit were disturbed.              *)
(*                                                                         *)
(* The driver gives each packet to the decoder once, with its own signal   *)
(* strength; the receiver is on after the set-up; and the task never waits *)
(* with the line high.  The invariants say, for every place of the task    *)
(* (At) and of the set-up (SetupAt), what the chip, the state and the      *)
(* semaphore are there (Stage).                                            *)
(***************************************************************************)
EXTENDS MSRadioDrv, MSDecode, FiniteSetTheorems, TLAPS

Diff(S, T) == (S \ T) \cup (T \ S)

-----------------------------------------------------------------------------
(* Finite sets of even size *)

(* The validity counters of two blocks differ by an even number where the  *)
(* blocks differ: sets of even size have a symmetric difference of even    *)
(* size.                                                                   *)
LEMMA EvenDiff ==
    ASSUME NEW S, NEW T, IsFiniteSet(S), IsFiniteSet(T), Even(S), Even(T)
    PROVE  IsFiniteSet(Diff(S, T)) /\ Even(Diff(S, T))
<1> DEFINE A == S \ T  B == T \ S
<1>1. /\ IsFiniteSet(A) /\ Cardinality(A) = Cardinality(S) - Cardinality(S \cap T)
      /\ IsFiniteSet(B) /\ Cardinality(B) = Cardinality(T) - Cardinality(T \cap S)
  BY FS_Difference
<1>2. A \cap B = {} /\ T \cap S = S \cap T
  OBVIOUS
<1>3. /\ IsFiniteSet(A \cup B)
      /\ Cardinality(A \cup B) = Cardinality(A) + Cardinality(B) - Cardinality(A \cap B)
  BY <1>1, FS_Union
<1>4. Cardinality({}) = 0
  BY FS_EmptySet
<1>5. IsFiniteSet(S \cap T)
  BY FS_Intersection
<1>6. /\ Cardinality(S) \in Nat /\ Cardinality(T) \in Nat
      /\ Cardinality(S \cap T) \in Nat
  BY <1>5, FS_CardinalityType
<1>7. Cardinality(A \cup B) = Cardinality(S) + Cardinality(T) - 2 * Cardinality(S \cap T)
  <2> HIDE DEF A, B
  <2>1. Cardinality(A \cup B) = Cardinality(A) + Cardinality(B) - 0
    BY <1>2, <1>3, <1>4
  <2>2. Cardinality(B) = Cardinality(T) - Cardinality(S \cap T)
    BY <1>1, <1>2
  <2>3. Cardinality(A) = Cardinality(S) - Cardinality(S \cap T)
    BY <1>1
  <2> QED
    BY <2>1, <2>2, <2>3, <1>6
<1>8. Cardinality(A \cup B) % 2 = 0
  <2> HIDE DEF A, B
  <2> QED
    BY <1>6, <1>7 DEF Even
<1> QED
  BY <1>3, <1>8 DEF Diff, Even

(* A validity counter that is even and not zero is two at least: a set of  *)
(* even size with a member has another one.                                *)
LEMMA EvenOther ==
    ASSUME NEW S, IsFiniteSet(S), Even(S), NEW x \in S
    PROVE  \E y \in S : y # x
<1> SUFFICES ASSUME \A y \in S : y = x
             PROVE  FALSE
  OBVIOUS
<1>1. S = {x}
  OBVIOUS
<1>2. Cardinality(S) = 1
  BY <1>1, FS_Singleton
<1> QED
  BY <1>2 DEF Even

(* A bit has two chips. *)
LEMMA TwoChips == IsFiniteSet({1, 2}) /\ Cardinality({1, 2}) = 2
<1>1. IsFiniteSet({1}) /\ Cardinality({1}) = 1
  BY FS_Singleton
<1>2. IsFiniteSet({1} \cup {2}) /\ Cardinality({1} \cup {2}) = 2
  BY <1>1, FS_AddElement
<1>3. {1} \cup {2} = {1, 2}
  OBVIOUS
<1> QED
  BY <1>2, <1>3

Four(w, x, y, z) == {w, x, y, z}

(* Four different cells have eight chips. *)
LEMMA FourCells ==
    ASSUME NEW w, NEW x, NEW y, NEW z,
           w # x, w # y, w # z, x # y, x # z, y # z
    PROVE  Cardinality(Four(w, x, y, z) \X {1, 2}) = 8
<1> DEFINE S == Four(w, x, y, z)
<1>1. IsFiniteSet({x}) /\ Cardinality({x}) = 1
  BY FS_Singleton
<1>2. IsFiniteSet({x} \cup {y}) /\ Cardinality({x} \cup {y}) = 2
  BY <1>1, FS_AddElement
<1>3. IsFiniteSet({x} \cup {y} \cup {z}) /\ Cardinality({x} \cup {y} \cup {z}) = 3
  BY <1>2, FS_AddElement
<1>4. /\ IsFiniteSet({x} \cup {y} \cup {z} \cup {w})
      /\ Cardinality({x} \cup {y} \cup {z} \cup {w}) = 4
  BY <1>3, FS_AddElement
<1>5. {x} \cup {y} \cup {z} \cup {w} = S
  BY DEF Four
<1>6. IsFiniteSet(S) /\ Cardinality(S) = 4
  BY <1>4, <1>5
<1>7. Cardinality(S \X {1, 2}) = Cardinality(S) * Cardinality({1, 2})
  BY <1>6, TwoChips, FS_Product
<1> QED
  BY <1>6, <1>7, TwoChips

-----------------------------------------------------------------------------
(* Blocks *)

(* Two different blocks with even rows and columns differ in four bits, as *)
(* the validity check needs.                                               *)
LEMMA MinimumDistance ==
    ASSUME NEW a \in Blocks, NEW b \in Blocks, a # b
    PROVE  \E w, x, y, z \in Diff(a, b) :
              w # x /\ w # y /\ w # z /\ x # y /\ x # z /\ y # z
<1> DEFINE D == Diff(a, b)
<1>1. a \subseteq Cells /\ b \subseteq Cells /\ D \subseteq Cells
  BY DEF Blocks, Diff
<1>2. \A i \in Bytes : IsFiniteSet(Row(D, i)) /\ Even(Row(D, i))
  <2> TAKE i \in Bytes
  <2>1. IsFiniteSet(Row(a, i)) /\ IsFiniteSet(Row(b, i))
    <3>1. Row(a, i) \subseteq Bits /\ Row(b, i) \subseteq Bits
      BY DEF Row
    <3> QED
      BY <3>1, DecodeAssumption, FS_Subset
  <2>2. Even(Row(a, i)) /\ Even(Row(b, i))
    BY DEF Blocks
  <2>3. Row(D, i) = Diff(Row(a, i), Row(b, i))
    BY DEF Row, Diff
  <2> QED
    BY <2>1, <2>2, <2>3, EvenDiff
<1>3. \A j \in Bits : IsFiniteSet(Column(D, j)) /\ Even(Column(D, j))
  <2> TAKE j \in Bits
  <2>1. IsFiniteSet(Column(a, j)) /\ IsFiniteSet(Column(b, j))
    <3>1. Column(a, j) \subseteq Bytes /\ Column(b, j) \subseteq Bytes
      BY DEF Column
    <3> QED
      BY <3>1, DecodeAssumption, FS_Subset
  <2>2. Even(Column(a, j)) /\ Even(Column(b, j))
    BY DEF Blocks
  <2>3. Column(D, j) = Diff(Column(a, j), Column(b, j))
    BY DEF Column, Diff
  <2> QED
    BY <2>1, <2>2, <2>3, EvenDiff
<1>4. PICK i \in Bytes, j \in Bits : <<i, j>> \in D
  BY <1>1 DEF Diff, Cells
<1>5. PICK k \in Bits : k # j /\ <<i, k>> \in D
  <2>1. j \in Row(D, i)
    BY <1>4 DEF Row
  <2>2. \E k \in Row(D, i) : k # j
    BY <2>1, <1>2, EvenOther
  <2> QED
    BY <2>2 DEF Row
<1>6. PICK m \in Bytes : m # i /\ <<m, j>> \in D
  <2>1. i \in Column(D, j)
    BY <1>4 DEF Column
  <2>2. \E m \in Column(D, j) : m # i
    BY <2>1, <1>3, EvenOther
  <2> QED
    BY <2>2 DEF Column
<1>7. PICK n \in Bytes : n # i /\ <<n, k>> \in D
  <2>1. i \in Column(D, k)
    BY <1>5 DEF Column
  <2>2. \E n \in Column(D, k) : n # i
    BY <2>1, <1>3, EvenOther
  <2> QED
    BY <2>2 DEF Column
<1>8. /\ <<i, j>> # <<i, k>> /\ <<i, j>> # <<m, j>> /\ <<i, j>> # <<n, k>>
      /\ <<i, k>> # <<m, j>> /\ <<i, k>> # <<n, k>> /\ <<m, j>> # <<n, k>>
  BY <1>5, <1>6, <1>7
<1> HIDE DEF D
<1> QED
  BY <1>4, <1>5, <1>6, <1>7, <1>8 DEF D

(* In a packet without equal chips that passes the coding check, a wrong   *)
(* bit has two disturbed chips.                                            *)
LEMMA BothChips ==
    ASSUME NEW s \in SUBSET Cells, NEW rx \in SUBSET Chips, Coded(rx),
           NEW c \in Diff(Decode(rx), s)
    PROVE  <<c, 1>> \in Diff(Encode(s), rx) /\ <<c, 2>> \in Diff(Encode(s), rx)
<1>1. c \in Cells /\ ((c \in Decode(rx)) # (c \in s))
  BY DEF Diff, Decode
<1>2. (<<c, 2>> \in Encode(s)) <=> c \in s
  BY DEF Encode
<1>3. (<<c, 1>> \in Encode(s)) <=> c \notin s
  BY <1>1 DEF Encode
<1>4. (<<c, 1>> \in rx) # (<<c, 2>> \in rx)
  BY <1>1 DEF Coded
<1>5. (c \in Decode(rx)) <=> (<<c, 1>> \notin rx /\ <<c, 2>> \in rx)
  BY <1>1 DEF Decode
<1> QED
  BY <1>1, <1>2, <1>3, <1>4, <1>5 DEF Diff

(* Decoding undoes the meter's coding, and a packet that decodes to what   *)
(* was sent was not disturbed.                                             *)
LEMMA Undisturbed ==
    ASSUME NEW s \in SUBSET Cells, NEW rx \in SUBSET Chips
    PROVE  Diff(Encode(s), rx) = {} <=> Coded(rx) /\ Decode(rx) = s
<1>1. ASSUME Diff(Encode(s), rx) = {}
      PROVE  Coded(rx) /\ Decode(rx) = s
  <2>1. rx = Encode(s)
    BY <1>1 DEF Diff
  <2>2. \A c \in Cells : /\ (<<c, 2>> \in rx) <=> c \in s
                         /\ (<<c, 1>> \in rx) <=> c \notin s
    BY <2>1 DEF Encode
  <2> QED
    BY <2>2 DEF Coded, Decode
<1>2. ASSUME Coded(rx), Decode(rx) = s
      PROVE  Diff(Encode(s), rx) = {}
  <2>1. \A c \in Cells : /\ (<<c, 2>> \in rx) <=> c \in s
                         /\ (<<c, 1>> \in rx) <=> c \notin s
    <3> TAKE c \in Cells
    <3>1. (<<c, 1>> \in rx) # (<<c, 2>> \in rx)
      BY <1>2 DEF Coded
    <3>2. c \in s <=> (<<c, 1>> \notin rx /\ <<c, 2>> \in rx)
      BY <1>2 DEF Decode
    <3> QED
      BY <3>1, <3>2
  <2>2. \A c \in Cells : /\ (<<c, 2>> \in Encode(s)) <=> c \in s
                         /\ (<<c, 1>> \in Encode(s)) <=> c \notin s
    BY DEF Encode
  <2>3. Encode(s) \subseteq Chips
    BY DEF Encode, Chips
  <2>4. \A p \in Chips : p \in Encode(s) <=> p \in rx
    <3> TAKE p \in Chips
    <3>1. PICK c \in Cells, h \in {1, 2} : p = <<c, h>>
      BY DEF Chips
    <3>2. CASE h = 1
      BY <3>1, <3>2, <2>1, <2>2
    <3>3. CASE h = 2
      BY <3>1, <3>3, <2>1, <2>2
    <3> QED
      BY <3>2, <3>3
  <2> QED
    BY <2>3, <2>4 DEF Diff
<1> QED
  BY <1>1, <1>2

(* The number of disturbed chips is a number. *)
LEMMA DisturbedCount ==
    ASSUME NEW s \in SUBSET Cells, NEW rx \in SUBSET Chips
    PROVE  /\ IsFiniteSet(Diff(Encode(s), rx))
           /\ Cardinality(Diff(Encode(s), rx)) \in Nat
<1>1. IsFiniteSet(Cells)
  BY DecodeAssumption, FS_Product DEF Cells
<1>2. IsFiniteSet(Chips)
  BY <1>1, TwoChips, FS_Product DEF Chips
<1>3. Diff(Encode(s), rx) \subseteq Chips
  BY DEF Diff, Encode, Chips
<1>4. IsFiniteSet(Diff(Encode(s), rx))
  BY <1>2, <1>3, FS_Subset
<1> QED
  BY <1>4, FS_CardinalityType

(* An accepted packet that does not decode to what was sent has eight      *)
(* disturbed chips.                                                        *)
LEMMA EightChips ==
    ASSUME NEW s \in Blocks, NEW rx \in SUBSET Chips, Coded(rx), Valid(Decode(rx)),
           Decode(rx) # s
    PROVE  Cardinality(Diff(Encode(s), rx)) >= 8
<1> DEFINE B == Diff(Encode(s), rx)
<1>1. s \in SUBSET Cells /\ Decode(rx) \in Blocks
  BY DEF Blocks, Valid, Decode
<1>2. PICK w, x, y, z \in Diff(Decode(rx), s) :
         w # x /\ w # y /\ w # z /\ x # y /\ x # z /\ y # z
  BY <1>1, MinimumDistance
<1> DEFINE S == Four(w, x, y, z)
<1>3. S \X {1, 2} \subseteq B
  <2>1. \A c \in S : <<c, 1>> \in B /\ <<c, 2>> \in B
    BY <1>1, <1>2, BothChips DEF Four
  <2> HIDE DEF B, S
  <2>2. ASSUME NEW p \in S \X {1, 2}
        PROVE  p \in B
    <3>1. PICK c \in S, h \in {1, 2} : p = <<c, h>>
      OBVIOUS
    <3> QED
      BY <2>1, <3>1
  <2> QED
    BY <2>2
<1>4. IsFiniteSet(B) /\ Cardinality(B) \in Nat
  BY <1>1, DisturbedCount
<1>5. Cardinality(S \X {1, 2}) <= Cardinality(B)
  BY <1>3, <1>4, FS_Subset
<1>6. Cardinality(S \X {1, 2}) = 8
  BY <1>2, FourCells
<1> HIDE DEF B, S
<1> QED
  BY <1>4, <1>5, <1>6 DEF B
-----------------------------------------------------------------------------
(* The specification *)

(* What the verdict says of the packet. *)
Judged ==
    /\ verdict = "coding" => ~Coded(rx_buffer)
    /\ verdict \in {"validity", "ok"} => Coded(rx_buffer) /\ data_buffer = Decode(rx_buffer)
    /\ verdict = "validity" => ~Valid(data_buffer)
    /\ verdict = "ok" => Valid(data_buffer)

(* The decoder's variables have their types in every reachable state. *)
THEOREM TypeCorrect == DecodeSpec => []DecodeTypeOK
<1>1. DecodeInit => DecodeTypeOK
  <2>1. ASSUME NEW b \in Blocks
        PROVE  Encode(b) \subseteq Chips
    BY DEF Blocks, Encode, Chips
  <2> QED
    BY <2>1 DEF DecodeInit, DecodeTypeOK
<1>2. DecodeTypeOK /\ [DecodeNext]_decodeVars => DecodeTypeOK'
  <2> SUFFICES ASSUME DecodeTypeOK, [DecodeNext]_decodeVars PROVE DecodeTypeOK'
    OBVIOUS
  <2>1. ASSUME NEW c \in Chips, Disturb(c) PROVE DecodeTypeOK'
    BY <2>1 DEF DecodeTypeOK, Disturb
  <2>2. CASE Ignore \/ RefuseCoding
    BY <2>2 DEF DecodeTypeOK, Ignore, RefuseCoding
  <2>3. CASE CheckValidity
    <3>1. Decode(rx_buffer) \subseteq Cells
      BY DEF Decode
    <3> QED
      BY <2>3, <3>1 DEF DecodeTypeOK, CheckValidity
  <2>4. CASE UNCHANGED decodeVars
    BY <2>4 DEF DecodeTypeOK, decodeVars
  <2> QED
    BY <2>1, <2>2, <2>3, <2>4 DEF DecodeNext, rf4068_rx_callback
<1> QED
  BY <1>1, <1>2, PTL DEF DecodeSpec

(* The verdict of rf4068_rx_callback is the one its checks justify. *)
THEOREM JudgedRight == DecodeSpec => []Judged
<1>1. DecodeInit => Judged
  BY DEF DecodeInit, Judged
<1>2. Judged /\ [DecodeNext]_decodeVars => Judged'
  <2> SUFFICES ASSUME Judged, [DecodeNext]_decodeVars PROVE Judged'
    OBVIOUS
  <2>1. ASSUME NEW c \in Chips, Disturb(c) PROVE Judged'
    BY <2>1 DEF Judged, Disturb
  <2>2. CASE Ignore \/ RefuseCoding
    BY <2>2 DEF Judged, Ignore, RefuseCoding
  <2>3. CASE CheckValidity
    BY <2>3 DEF Judged, CheckValidity
  <2>4. CASE UNCHANGED decodeVars
    BY <2>4 DEF Judged, decodeVars
  <2> QED
    BY <2>1, <2>2, <2>3, <2>4 DEF DecodeNext, rf4068_rx_callback
<1> QED
  BY <1>1, <1>2, PTL DEF DecodeSpec

(* Data that rf4068_rx_callback accepts are what the meter sent unless     *)
(* eight chips or more were disturbed, for blocks of every size.           *)
THEOREM IntactData == DecodeSpec => []DataIntact
<1>1. DecodeTypeOK /\ Judged => DataIntact
  <2> SUFFICES ASSUME DecodeTypeOK, Judged, verdict = "ok", data_buffer # sent
               PROVE  ~(Cardinality(Disturbed) < 8)
    BY DEF DataIntact
  <2>1. sent \in Blocks /\ rx_buffer \in SUBSET Chips
    BY DEF DecodeTypeOK
  <2>2. Coded(rx_buffer) /\ Valid(Decode(rx_buffer)) /\ Decode(rx_buffer) # sent
    BY DEF Judged
  <2>3. Cardinality(Diff(Encode(sent), rx_buffer)) >= 8
    BY <2>1, <2>2, EightChips
  <2>4. Disturbed = Diff(Encode(sent), rx_buffer)
    BY DEF Disturbed, Diff
  <2> QED
    <3>1. sent \in SUBSET Cells
      BY <2>1 DEF Blocks
    <3>2. Cardinality(Disturbed) \in Nat
      BY <2>1, <2>4, <3>1, DisturbedCount
    <3> QED
      BY <2>3, <2>4, <3>2
<1> QED
  BY <1>1, TypeCorrect, JudgedRight, PTL

(* A packet with one to seven disturbed chips is refused and a good one is *)
(* accepted, for blocks of every size.                                     *)
THEOREM RefusedExactly == DecodeSpec => []RefusedIfDisturbed
<1>1. DecodeTypeOK /\ Judged /\ DataIntact => RefusedIfDisturbed
  <2> SUFFICES ASSUME DecodeTypeOK, Judged, DataIntact, Cardinality(Disturbed) < 8,
                      verdict \in {"coding", "validity", "ok"}
               PROVE  verdict = "ok" <=> Disturbed = {}
    BY DEF RefusedIfDisturbed
  <2>1. /\ sent \in SUBSET Cells /\ rx_buffer \in SUBSET Chips /\ Valid(sent)
    BY DEF DecodeTypeOK, Blocks, Valid
  <2>2. Disturbed = {} <=> Coded(rx_buffer) /\ Decode(rx_buffer) = sent
    <3>1. Disturbed = Diff(Encode(sent), rx_buffer)
      BY DEF Disturbed, Diff
    <3> QED
      BY <2>1, <3>1, Undisturbed
  <2>3. CASE verdict = "ok"
    BY <2>2, <2>3 DEF Judged, DataIntact
  <2>4. CASE verdict = "coding"
    BY <2>2, <2>4 DEF Judged
  <2>5. CASE verdict = "validity"
    BY <2>1, <2>2, <2>5 DEF Judged
  <2> QED
    BY <2>3, <2>4, <2>5
<1> QED
  BY <1>1, TypeCorrect, JudgedRight, IntactData, PTL

-----------------------------------------------------------------------------
(* The driver: its code and the places in it *)

(* What rf_4068_task can be doing.  "other": it was woken in a state that   *)
(* waits for no interrupt.                                                  *)
Kinds == {"idle", "rx", "wait_xtal", "pll_ranging", "tx_xtalwait", "tx_waitdone",
          "other", "restart"}

Code(s) ==
    CASE s = "idle" -> <<>>
      [] s = "restart" -> rf_restart
      [] OTHER -> Handler(s)

(* The task has come to the k-th operation of s. *)
At(s, k) ==
    /\ s \in Kinds /\ k \in 1..8
    /\ s = "idle" => k = 1
    /\ s # "idle" => k <= Len(Code(s))
    /\ task = SubSeq(Code(s), k, Len(Code(s)))

-----------------------------------------------------------------------------
(* Packets *)

Chunks == {"data", "other", "rssi"} \X Nat

(* The packets in the FIFO f come in the order of arrival, up to the n-th,  *)
(* after the one in RXBuff and those given to the decoder.                  *)
InOrder(f, n, inbuf, given) ==
    /\ n \in Nat /\ inbuf \in 0..n /\ given \in 0..n
    /\ f \in Seq(Chunks)
    /\ \A m \in 1..Len(f) : f[m][1] = "data" => f[m][2] > inbuf /\ f[m][2] > given
                                                /\ f[m][2] <= n
    /\ \A l, m \in 1..Len(f) :
           l < m /\ f[l][1] = "data" /\ f[m][1] = "data" => f[l][2] < f[m][2]

(* What ReceiveData has taken since it began is new to the decoder. *)
Taken(s, k) == s = "rx" /\ k >= 2 /\ RxLen # 0 => RXBuff > handed

ChipFields == {"pwr", "mask0", "mask1", "xtal", "range", "fifo", "done", "sending"}

PacketInv ==
    /\ DOMAIN chip = ChipFields /\ air \in Nat
    /\ InOrder(chip.fifo, packets, RXBuff, handed)
    /\ ubRssi \in {0} \cup burst
    /\ \E s \in Kinds, k \in 1..8 : At(s, k) /\ Taken(s, k)

-----------------------------------------------------------------------------
(* The set-up *)

(* What sendlow does; main does the first part of it. *)
Plan == rf_4068_Init \o Normal_send

(* The last set-up of the plan begins after Before operations. *)
Before == Len(rf_startup \o simple_autorange_pll)
End == IF sends = 0 THEN 24 ELSE 29

(* The set-up has come to the j-th operation of the last part. *)
SetupAt(j) ==
    /\ j \in (1 - Before)..(End + 1)
    /\ setup = SubSeq(Plan, Before + j, Before + End)

NoMask == chip.mask0 = "none" /\ chip.mask1 = "none"

(* The task waits, or receives. *)
Listening(s, k) ==
    /\ s \in {"idle", "rx"} /\ ubRFState = "rx"
    /\ chip.mask1 = "none" /\ chip.mask0 \in {"none", "fifo"}
    /\ (s = "idle" \/ k >= 5) /\ chip.mask0 = "fifo" => chip.fifo = <<>> \/ IRQ2_Sem > 0

(* From Ax5043_OFF to RadioXtalON. *)
OffStage(j, s) ==
    /\ s \in {"idle", "other"} /\ ubRFState = "off"
    /\ j >= 7 => NoMask /\ chip.range = "idle"

Quiet(s, st) == s = "idle" /\ IRQ2_Sem = 0 /\ ubRFState = st

(* RadioXtalON waits for the crystal. *)
XtalStage(s, k) ==
    /\ chip.mask0 = "none" /\ chip.range = "idle"
    /\ \/ /\ s = "idle" /\ ubRFState = "wait_xtal" /\ chip.mask1 = "xtal"
          /\ (chip.xtal /\ IRQ2_Sem = 1) \/ (~chip.xtal /\ IRQ2_Sem = 0)
       \/ s = "wait_xtal" /\ k = 1 /\ IRQ2_Sem = 0 /\ chip.mask1 = "xtal" /\ chip.xtal
       \/ s = "wait_xtal" /\ k = 2 /\ IRQ2_Sem = 0 /\ chip.mask1 = "none"
       \/ Quiet(s, "xtal_ready") /\ chip.mask1 = "none"

(* rf_startup waits for the end of the ranging. *)
RangeStage(s, k) ==
    /\ chip.mask0 = "none"
    /\ \/ /\ s = "idle" /\ ubRFState = "pll_ranging" /\ chip.mask1 = "range"
          /\ \/ chip.range = "busy" /\ IRQ2_Sem = 0
             \/ chip.range = "done" /\ IRQ2_Sem = 1
       \/ /\ s = "pll_ranging" /\ k = 1 /\ IRQ2_Sem = 0 /\ chip.mask1 = "range"
          /\ chip.range = "done"
       \/ s = "pll_ranging" /\ k = 2 /\ IRQ2_Sem = 0 /\ chip.mask1 = "none"
       \/ Quiet(s, "pll_ranging_done") /\ chip.mask1 = "none"

(* The receiver has been switched on. *)
OnStage(s, k) ==
    /\ Listening(s, k) /\ chip.pwr = "rx"
    /\ (s = "idle" \/ k >= 4) => chip.mask0 = "fifo"

(* Normal_send, as long as no interrupt meets it. *)
SendStage(j, s) ==
    /\ s = "idle" /\ chip.pwr # "rx" /\ ~chip.sending /\ chip.mask1 = "none"
    /\ j \in 26..27 => /\ ubRFState = "rx" /\ chip.mask0 = "fifo"
                       /\ chip.fifo = <<>> \/ IRQ2_Sem > 0
    /\ j = 28 => /\ ubRFState = "tx_xtalwait" /\ IRQ2_Sem = 0
                 /\ chip.mask0 = "fifo" /\ chip.fifo = <<>>
    /\ j = 29 => ubRFState = "tx_xtalwait" /\ IRQ2_Sem = 0 /\ chip.mask0 = "none"

(* The transmission and the restart after it. *)
WaitsXtal(s) ==
    /\ s = "idle" /\ ubRFState = "tx_xtalwait" /\ chip.mask0 = "none" /\ chip.mask1 = "xtal"
    /\ chip.xtal => IRQ2_Sem > 0
    /\ chip.pwr # "rx" /\ ~chip.sending

Fills(s, k) ==
    /\ s = "tx_xtalwait" /\ ~chip.sending
    /\ k <= 4 => chip.mask0 = "none"
    /\ k >= 4 => chip.mask1 = "none"
    /\ k >= 2 => ~chip.done
    /\ k >= 6 => ubRFState = "tx_waitdone"
    /\ k = 7 => chip.mask0 = "radio"

Transmits(s, k) ==
    /\ s \in {"idle", "tx_waitdone"} /\ ubRFState = "tx_waitdone"
    /\ chip.mask0 = "radio" /\ chip.mask1 = "none"
    /\ (s = "idle" \/ k = 2) => (chip.done => IRQ2_Sem > 0)

Restarts(s, k) ==
    s = "restart" /\ chip.mask1 = "none" /\ (k >= 2 => chip.mask0 = "none")

SentStage(s, k) ==
    WaitsXtal(s) \/ Fills(s, k) \/ Transmits(s, k) \/ Restarts(s, k) \/ Listening(s, k)

(* What holds when the set-up has come to the j-th operation of its last    *)
(* part.                                                                    *)
Stage(j, s, k) ==
    /\ j \in 5..8 => OffStage(j, s)
    /\ j = 9 => Quiet(s, "wait_xtal") /\ NoMask /\ chip.range = "idle"
    /\ j \in 10..11 => XtalStage(s, k)
    /\ j = 12 => Quiet(s, "xtal_ready") /\ NoMask /\ chip.range = "idle"
    /\ j = 13 => Quiet(s, "pll_ranging") /\ NoMask /\ chip.range = "idle"
    /\ j = 14 => /\ Quiet(s, "pll_ranging") /\ chip.range = "idle"
                 /\ chip.mask0 = "none" /\ chip.mask1 = "range"
    /\ j = 15 => RangeStage(s, k)
    /\ j \in 16..23 => /\ s = "idle" /\ IRQ2_Sem = 0 /\ NoMask
                       /\ j >= 22 => chip.pwr = "rx"
                       /\ j = 23 => ubRFState = "rx"
    /\ j \in 24..25 => OnStage(s, k)
    /\ j \in 26..29 /\ ~crossed => SendStage(j, s)
    /\ j = 30 /\ ~crossed => SentStage(s, k)

DriverInv ==
    /\ DOMAIN chip = ChipFields /\ IRQ2_Sem \in Nat /\ sends \in Nat
    /\ \E s \in Kinds, k \in 1..8, j \in (1 - Before)..30 :
           At(s, k) /\ SetupAt(j) /\ Stage(j, s, k)

-----------------------------------------------------------------------------
(* Sequences of operations *)

Commands == {"pwr", "mask0", "mask1", "reset", "range", "clear", "event", "state", "while",
             "poll", "begin", "drain", "hand", "sent"}
Arguments == {"", "none", "xtal", "range", "fifo", "free", "radio", "rx", "tx", "down",
              "synth", "off", "wait_xtal", "xtal_ready", "pll_ranging",
              "pll_ranging_done", "tx_xtalwait", "tx_waitdone", "all"}
Ops == Commands \X Arguments

(* An operation is a command and its argument. *)
LEMMA OpsAre == \A x \in Commands, y \in Arguments : <<x, y>> \in Ops
  BY DEF Ops

(* Short sequences of operations. *)
LEMMA OpSeqs ==
    /\ \A a \in Ops :
           <<a>> \in Seq(Ops) /\ Len(<<a>>) = 1
    /\ \A a, b \in Ops :
           <<a, b>> \in Seq(Ops) /\ Len(<<a, b>>) = 2
    /\ \A a, b, c \in Ops :
           <<a, b, c>> \in Seq(Ops) /\ Len(<<a, b, c>>) = 3
    /\ \A a, b, c, d \in Ops :
           <<a, b, c, d>> \in Seq(Ops) /\ Len(<<a, b, c, d>>) = 4
    /\ \A a, b, c, d, e \in Ops :
           <<a, b, c, d, e>> \in Seq(Ops) /\ Len(<<a, b, c, d, e>>) = 5
    /\ \A a, b, c, d, e, f, g, h \in Ops :
           <<a, b, c, d, e, f, g, h>> \in Seq(Ops) /\ Len(<<a, b, c, d, e, f, g, h>>) = 8
  OBVIOUS

(* d is made of u and v. *)
Parts(d, u, v) ==
    /\ Len(d) = Len(u) + Len(v)
    /\ \A k \in 1..Len(u) : d[k] = u[k]
    /\ \A k \in (Len(u) + 1)..(Len(u) + Len(v)) : d[k] = v[k - Len(u)]

(* What a concatenation of pieces of code holds. *)
LEMMA Joined ==
    ASSUME NEW u, NEW v, u \in Seq(Ops), v \in Seq(Ops)
    PROVE  u \o v \in Seq(Ops) /\ Parts(u \o v, u, v)
  BY DEF Parts

(* The rest of a piece of code: its head is the next operation. *)
LEMMA RestOfCode ==
    ASSUME NEW c \in Seq(Ops), NEW e \in 0..Len(c), NEW k \in 1..e
    PROVE  /\ SubSeq(c, k, e) # <<>> /\ Len(SubSeq(c, k, e)) = e - k + 1
           /\ Head(SubSeq(c, k, e)) = c[k]
           /\ Tail(SubSeq(c, k, e)) = SubSeq(c, k + 1, e)
<1>1. SubSeq(c, k, e) \in Seq(Ops) /\ Len(SubSeq(c, k, e)) = e - k + 1
  OBVIOUS
<1>2. SubSeq(c, k, e) # <<>>
  BY <1>1
<1>3. Head(SubSeq(c, k, e)) = c[k]
  BY <1>1
<1>4. Tail(SubSeq(c, k, e)) = SubSeq(c, k + 1, e)
  BY <1>1
<1> QED
  BY <1>1, <1>2, <1>3, <1>4

(* Nothing is left after the last operation. *)
LEMMA EndOfCode ==
    ASSUME NEW c \in Seq(Ops), NEW e \in 0..Len(c)
    PROVE  SubSeq(c, e + 1, e) = <<>>
  OBVIOUS

(* The code of each interrupt, as one sequence: rx, ... *)
LEMMA RxCode ==
    /\ Code("rx") \in Seq(Ops) /\ Len(Code("rx")) = 8
    /\ Code("rx")[1] = <<"begin", "all">> /\ Code("rx")[2] = <<"drain", "">>
    /\ Code("rx")[3] = <<"mask0", "fifo">> /\ Code("rx")[4] = <<"clear", "">>
    /\ Code("rx")[5] = <<"pwr", "rx">> /\ Code("rx")[6] = <<"state", "rx">>
    /\ Code("rx")[7] = <<"mask1", "none">> /\ Code("rx")[8] = <<"hand", "">>
<1> DEFINE a == ReceiveData
           b == Ax5043Receiver_Continuous
           c == << <<"hand", "">> >>
           d2 == a \o b
           d3 == d2 \o c
<1>1. Code("rx") = d3
  BY Zenon DEF Code, Handler
<1>2. /\ a \in Seq(Ops) /\ Len(a) = 2
      /\ b \in Seq(Ops) /\ Len(b) = 5
      /\ c \in Seq(Ops) /\ Len(c) = 1
  BY OpsAre, OpSeqs, Zenon DEF ReceiveData, Ax5043Receiver_Continuous, Commands, Arguments
<1>3. /\ a[1] = <<"begin", "all">> /\ a[2] = <<"drain", "">>
      /\ b[1] = <<"mask0", "fifo">> /\ b[2] = <<"clear", "">> /\ b[3] = <<"pwr", "rx">>
      /\ b[4] = <<"state", "rx">> /\ b[5] = <<"mask1", "none">>
      /\ c[1] = <<"hand", "">>
  BY DEF ReceiveData, Ax5043Receiver_Continuous
<1> HIDE DEF a, b, c
<1>4. d2 \in Seq(Ops) /\ Parts(d2, a, b)
  BY <1>2, Joined, Zenon
<1> HIDE DEF d2
<1>5. Len(d2) = 7
  BY <1>2, <1>4 DEF Parts
<1>6. /\ d2[1] = a[1] /\ d2[2] = a[2] /\ d2[3] = b[1] /\ d2[4] = b[2]
      /\ d2[5] = b[3] /\ d2[6] = b[4] /\ d2[7] = b[5]
  BY <1>2, <1>4 DEF Parts
<1>7. d3 \in Seq(Ops) /\ Parts(d3, d2, c)
  BY <1>2, <1>4, Joined, Zenon
<1> HIDE DEF d3
<1>8. Len(d3) = 8
  BY <1>2, <1>7, <1>5 DEF Parts
<1>9. /\ d3[1] = d2[1] /\ d3[2] = d2[2] /\ d3[3] = d2[3] /\ d3[4] = d2[4]
      /\ d3[5] = d2[5] /\ d3[6] = d2[6] /\ d3[7] = d2[7] /\ d3[8] = c[1]
  BY <1>2, <1>7, <1>5 DEF Parts
<1> QED
  BY <1>1, <1>3, <1>6, <1>9, <1>7, <1>8, Zenon

(* ... tx_xtalwait, ... *)
LEMMA XtalWaitCode ==
    /\ Code("tx_xtalwait") \in Seq(Ops) /\ Len(Code("tx_xtalwait")) = 7
    /\ Code("tx_xtalwait")[1] = <<"event", "">> /\ Code("tx_xtalwait")[2] = <<"clear", "">>
    /\ Code("tx_xtalwait")[3] = <<"mask1", "none">>
    /\ Code("tx_xtalwait")[4] = <<"mask0", "free">>
    /\ Code("tx_xtalwait")[5] = <<"state", "tx_waitdone">>
    /\ Code("tx_xtalwait")[6] = <<"mask0", "radio">>
    /\ Code("tx_xtalwait")[7] = <<"pwr", "tx">>
<1> DEFINE a == << <<"event", "">>, <<"clear", "">>,
                   <<"mask1", "none">>, <<"mask0", "free">> >>
           b == TransmitData
           c == << <<"pwr", "tx">> >>
           d2 == a \o b
           d3 == d2 \o c
<1>1. Code("tx_xtalwait") = d3
  BY Zenon DEF Code, Handler, XtalWait
<1>2. /\ a \in Seq(Ops) /\ Len(a) = 4
      /\ b \in Seq(Ops) /\ Len(b) = 2
      /\ c \in Seq(Ops) /\ Len(c) = 1
  BY OpsAre, OpSeqs, Zenon DEF TransmitData, Commands, Arguments
<1>3. /\ a[1] = <<"event", "">> /\ a[2] = <<"clear", "">> /\ a[3] = <<"mask1", "none">>
      /\ a[4] = <<"mask0", "free">>
      /\ b[1] = <<"state", "tx_waitdone">> /\ b[2] = <<"mask0", "radio">>
      /\ c[1] = <<"pwr", "tx">>
  BY DEF TransmitData
<1> HIDE DEF a, b, c
<1>4. d2 \in Seq(Ops) /\ Parts(d2, a, b)
  BY <1>2, Joined, Zenon
<1> HIDE DEF d2
<1>5. Len(d2) = 6
  BY <1>2, <1>4 DEF Parts
<1>6. /\ d2[1] = a[1] /\ d2[2] = a[2] /\ d2[3] = a[3] /\ d2[4] = a[4]
      /\ d2[5] = b[1] /\ d2[6] = b[2]
  BY <1>2, <1>4 DEF Parts
<1>7. d3 \in Seq(Ops) /\ Parts(d3, d2, c)
  BY <1>2, <1>4, Joined, Zenon
<1> HIDE DEF d3
<1>8. Len(d3) = 7
  BY <1>2, <1>7, <1>5 DEF Parts
<1>9. /\ d3[1] = d2[1] /\ d3[2] = d2[2] /\ d3[3] = d2[3] /\ d3[4] = d2[4]
      /\ d3[5] = d2[5] /\ d3[6] = d2[6] /\ d3[7] = c[1]
  BY <1>2, <1>7, <1>5 DEF Parts
<1> QED
  BY <1>1, <1>3, <1>6, <1>9, <1>7, <1>8, Zenon

(* ... and the restart of the radio. *)
LEMMA RestartCode ==
    /\ Code("restart") \in Seq(Ops) /\ Len(Code("restart")) = 7
    /\ Code("restart")[1] = <<"mask0", "none">> /\ Code("restart")[2] = <<"mask1", "none">>
    /\ Code("restart")[3] = <<"pwr", "xtal">> /\ Code("restart")[4] = <<"state", "off">>
    /\ Code("restart")[5] = <<"pwr", "down">> /\ Code("restart")[6] = <<"reset", "">>
    /\ Code("restart")[7] = <<"state", "rx">>
<1> DEFINE a == Ax5043_OFF
           b == Ax5043_Reset
           c == << <<"state", "rx">> >>
           d2 == a \o b
           d3 == d2 \o c
<1>1. Code("restart") = d3
  BY Zenon DEF Code, rf_restart
<1>2. /\ a \in Seq(Ops) /\ Len(a) = 5
      /\ b \in Seq(Ops) /\ Len(b) = 1
      /\ c \in Seq(Ops) /\ Len(c) = 1
  BY OpsAre, OpSeqs, Zenon DEF Ax5043_OFF, Ax5043_Reset, Commands, Arguments
<1>3. /\ a[1] = <<"mask0", "none">> /\ a[2] = <<"mask1", "none">>
      /\ a[3] = <<"pwr", "xtal">> /\ a[4] = <<"state", "off">> /\ a[5] = <<"pwr", "down">>
      /\ b[1] = <<"reset", "">>
      /\ c[1] = <<"state", "rx">>
  BY DEF Ax5043_OFF, Ax5043_Reset
<1> HIDE DEF a, b, c
<1>4. d2 \in Seq(Ops) /\ Parts(d2, a, b)
  BY <1>2, Joined, Zenon
<1> HIDE DEF d2
<1>5. Len(d2) = 6
  BY <1>2, <1>4 DEF Parts
<1>6. /\ d2[1] = a[1] /\ d2[2] = a[2] /\ d2[3] = a[3] /\ d2[4] = a[4]
      /\ d2[5] = a[5] /\ d2[6] = b[1]
  BY <1>2, <1>4 DEF Parts
<1>7. d3 \in Seq(Ops) /\ Parts(d3, d2, c)
  BY <1>2, <1>4, Joined, Zenon
<1> HIDE DEF d3
<1>8. Len(d3) = 7
  BY <1>2, <1>7, <1>5 DEF Parts
<1>9. /\ d3[1] = d2[1] /\ d3[2] = d2[2] /\ d3[3] = d2[3] /\ d3[4] = d2[4]
      /\ d3[5] = d2[5] /\ d3[6] = d2[6] /\ d3[7] = c[1]
  BY <1>2, <1>7, <1>5 DEF Parts
<1> QED
  BY <1>1, <1>3, <1>6, <1>9, <1>7, <1>8, Zenon

(* rf_startup, as one sequence. *)
LEMMA StartupCode ==
    /\ rf_startup \in Seq(Ops) /\ Len(rf_startup) = 19
    /\ rf_startup[1] = <<"mask0", "none">> /\ rf_startup[2] = <<"mask1", "none">>
    /\ rf_startup[3] = <<"pwr", "xtal">> /\ rf_startup[4] = <<"state", "off">>
    /\ rf_startup[5] = <<"pwr", "down">> /\ rf_startup[6] = <<"reset", "">>
    /\ rf_startup[7] = <<"pwr", "xtal">> /\ rf_startup[8] = <<"state", "wait_xtal">>
    /\ rf_startup[9] = <<"mask1", "xtal">> /\ rf_startup[10] = <<"pwr", "xtal">>
    /\ rf_startup[11] = <<"while", "wait_xtal">> /\ rf_startup[12] = <<"state", "pll_ranging">>
    /\ rf_startup[13] = <<"mask1", "range">> /\ rf_startup[14] = <<"range", "">>
    /\ rf_startup[15] = <<"while", "pll_ranging">> /\ rf_startup[16] = <<"state", "off">>
    /\ rf_startup[17] = <<"mask1", "none">> /\ rf_startup[18] = <<"pwr", "down">>
    /\ rf_startup[19] = <<"state", "rx">>
<1> DEFINE a == Ax5043_OFF
           b == Ax5043_Reset
           c == << <<"pwr", "xtal">> >>
           d == RadioXtalON
           e == << <<"state", "pll_ranging">>, <<"mask1", "range">>, <<"range", "">>,
                   <<"while", "pll_ranging">>, <<"state", "off">>, <<"mask1", "none">>,
                   <<"pwr", "down">>, <<"state", "rx">> >>
           d2 == a \o b
           d3 == d2 \o c
           d4 == d3 \o d
           d5 == d4 \o e
<1>1. rf_startup = d5
  BY Zenon DEF rf_startup
<1>2. /\ a \in Seq(Ops) /\ Len(a) = 5
      /\ b \in Seq(Ops) /\ Len(b) = 1
      /\ c \in Seq(Ops) /\ Len(c) = 1
      /\ d \in Seq(Ops) /\ Len(d) = 4
      /\ e \in Seq(Ops) /\ Len(e) = 8
  BY OpsAre, OpSeqs, Zenon DEF Ax5043_OFF, Ax5043_Reset, RadioXtalON, Commands, Arguments
<1>3. /\ a[1] = <<"mask0", "none">> /\ a[2] = <<"mask1", "none">>
      /\ a[3] = <<"pwr", "xtal">> /\ a[4] = <<"state", "off">> /\ a[5] = <<"pwr", "down">>
      /\ b[1] = <<"reset", "">>
      /\ c[1] = <<"pwr", "xtal">>
      /\ d[1] = <<"state", "wait_xtal">> /\ d[2] = <<"mask1", "xtal">>
      /\ d[3] = <<"pwr", "xtal">> /\ d[4] = <<"while", "wait_xtal">>
      /\ e[1] = <<"state", "pll_ranging">> /\ e[2] = <<"mask1", "range">>
      /\ e[3] = <<"range", "">> /\ e[4] = <<"while", "pll_ranging">>
      /\ e[5] = <<"state", "off">> /\ e[6] = <<"mask1", "none">> /\ e[7] = <<"pwr", "down">>
      /\ e[8] = <<"state", "rx">>
  BY DEF Ax5043_OFF, Ax5043_Reset, RadioXtalON
<1> HIDE DEF a, b, c, d, e
<1>4. d2 \in Seq(Ops) /\ Parts(d2, a, b)
  BY <1>2, Joined, Zenon
<1> HIDE DEF d2
<1>5. Len(d2) = 6
  BY <1>2, <1>4 DEF Parts
<1>6. /\ d2[1] = a[1] /\ d2[2] = a[2] /\ d2[3] = a[3] /\ d2[4] = a[4]
      /\ d2[5] = a[5] /\ d2[6] = b[1]
  BY <1>2, <1>4 DEF Parts
<1>7. d3 \in Seq(Ops) /\ Parts(d3, d2, c)
  BY <1>2, <1>4, Joined, Zenon
<1> HIDE DEF d3
<1>8. Len(d3) = 7
  BY <1>2, <1>7, <1>5 DEF Parts
<1>9. /\ d3[1] = d2[1] /\ d3[2] = d2[2] /\ d3[3] = d2[3] /\ d3[4] = d2[4]
      /\ d3[5] = d2[5] /\ d3[6] = d2[6] /\ d3[7] = c[1]
  BY <1>2, <1>7, <1>5 DEF Parts
<1>10. d4 \in Seq(Ops) /\ Parts(d4, d3, d)
  BY <1>2, <1>7, Joined, Zenon
<1> HIDE DEF d4
<1>11. Len(d4) = 11
  BY <1>2, <1>10, <1>8 DEF Parts
<1>12. /\ d4[1] = d3[1] /\ d4[2] = d3[2] /\ d4[3] = d3[3] /\ d4[4] = d3[4]
      /\ d4[5] = d3[5] /\ d4[6] = d3[6] /\ d4[7] = d3[7] /\ d4[8] = d[1]
      /\ d4[9] = d[2] /\ d4[10] = d[3] /\ d4[11] = d[4]
  BY <1>2, <1>10, <1>8 DEF Parts
<1>13. d5 \in Seq(Ops) /\ Parts(d5, d4, e)
  BY <1>2, <1>10, Joined, Zenon
<1> HIDE DEF d5
<1>14. Len(d5) = 19
  BY <1>2, <1>13, <1>11 DEF Parts
<1>15. /\ d5[1] = d4[1] /\ d5[2] = d4[2] /\ d5[3] = d4[3] /\ d5[4] = d4[4]
      /\ d5[5] = d4[5] /\ d5[6] = d4[6] /\ d5[7] = d4[7] /\ d5[8] = d4[8]
      /\ d5[9] = d4[9] /\ d5[10] = d4[10] /\ d5[11] = d4[11] /\ d5[12] = e[1]
      /\ d5[13] = e[2] /\ d5[14] = e[3] /\ d5[15] = e[4] /\ d5[16] = e[5]
      /\ d5[17] = e[6] /\ d5[18] = e[7] /\ d5[19] = e[8]
  BY <1>2, <1>13, <1>11 DEF Parts
<1> QED
  BY <1>1, <1>3, <1>6, <1>9, <1>12, <1>15, <1>13, <1>14, Zenon

(* The short ones: wait_xtal, ... *)
LEMMA WaitXtalCode ==
    /\ Code("wait_xtal") \in Seq(Ops) /\ Len(Code("wait_xtal")) = 2
    /\ Code("wait_xtal")[1] = <<"mask1", "none">>
    /\ Code("wait_xtal")[2] = <<"state", "xtal_ready">>
<1> DEFINE a == << <<"mask1", "none">>, <<"state", "xtal_ready">> >>
<1>1. Code("wait_xtal") = a
  BY Zenon DEF Code, Handler
<1>2. a \in Seq(Ops) /\ Len(a) = 2
  BY OpsAre, OpSeqs, Zenon DEF Commands, Arguments
<1>3. a[1] = <<"mask1", "none">> /\ a[2] = <<"state", "xtal_ready">>
  OBVIOUS
<1> HIDE DEF a
<1> QED
  BY <1>1, <1>2, <1>3, Zenon

(* ... pll_ranging, ... *)
LEMMA RangingCode ==
    /\ Code("pll_ranging") \in Seq(Ops) /\ Len(Code("pll_ranging")) = 2
    /\ Code("pll_ranging")[1] = <<"mask1", "none">>
    /\ Code("pll_ranging")[2] = <<"state", "pll_ranging_done">>
<1> DEFINE a == << <<"mask1", "none">>, <<"state", "pll_ranging_done">> >>
<1>1. Code("pll_ranging") = a
  BY Zenon DEF Code, Handler
<1>2. a \in Seq(Ops) /\ Len(a) = 2
  BY OpsAre, OpSeqs, Zenon DEF Commands, Arguments
<1>3. a[1] = <<"mask1", "none">> /\ a[2] = <<"state", "pll_ranging_done">>
  OBVIOUS
<1> HIDE DEF a
<1> QED
  BY <1>1, <1>2, <1>3, Zenon

(* ... tx_waitdone, ... *)
LEMMA WaitDoneCode ==
    /\ Code("tx_waitdone") \in Seq(Ops) /\ Len(Code("tx_waitdone")) = 2
    /\ Code("tx_waitdone")[1] = <<"event", "">> /\ Code("tx_waitdone")[2] = <<"sent", "">>
<1> DEFINE a == << <<"event", "">>, <<"sent", "">> >>
<1>1. Code("tx_waitdone") = a
  BY Zenon DEF Code, Handler
<1>2. a \in Seq(Ops) /\ Len(a) = 2
  BY OpsAre, OpSeqs, Zenon DEF Commands, Arguments
<1>3. a[1] = <<"event", "">> /\ a[2] = <<"sent", "">>
  OBVIOUS
<1> HIDE DEF a
<1> QED
  BY <1>1, <1>2, <1>3, Zenon

(* ... and all others. *)
LEMMA OtherCode ==
    /\ Code("other") \in Seq(Ops) /\ Len(Code("other")) = 2
    /\ Code("other")[1] = <<"mask1", "none">> /\ Code("other")[2] = <<"mask0", "none">>
<1> DEFINE a == << <<"mask1", "none">>, <<"mask0", "none">> >>
<1>1. Code("other") = a
  BY Zenon DEF Code, Handler
<1>2. a \in Seq(Ops) /\ Len(a) = 2
  BY OpsAre, OpSeqs, Zenon DEF Commands, Arguments
<1>3. a[1] = <<"mask1", "none">> /\ a[2] = <<"mask0", "none">>
  OBVIOUS
<1> HIDE DEF a
<1> QED
  BY <1>1, <1>2, <1>3, Zenon

-----------------------------------------------------------------------------
(* Where the task is *)

(* Each piece of the task's code is a sequence of operations. *)
LEMMA CodeIsSeq ==
    ASSUME NEW s \in Kinds
    PROVE  /\ Code(s) \in Seq(Ops) /\ Len(Code(s)) \in 0..8
           /\ s # "idle" => Len(Code(s)) >= 1
           /\ s = "idle" => Code(s) = <<>>
<1>1. Code("idle") = <<>>
  BY Zenon DEF Code
<1>2. <<>> \in Seq(Ops) /\ Len(<<>>) = 0
  OBVIOUS
<1>3. CASE s = "idle"
  <2>1. Code(s) \in Seq(Ops) /\ Code(s) = <<>> /\ Len(Code(s)) = 0
    BY <1>1, <1>2, <1>3, Zenon
  <2>2. Len(Code(s)) \in 0..8
    BY <2>1
  <2> QED
    BY <1>3, <2>1, <2>2, Zenon
<1>4. CASE s = "rx"
  <2>1. Code(s) \in Seq(Ops) /\ Len(Code(s)) = 8
    BY <1>4, RxCode, Zenon
  <2>2. Len(Code(s)) \in 0..8 /\ Len(Code(s)) >= 1
    BY <2>1
  <2> QED
    BY <1>4, <2>1, <2>2
<1>5. CASE s = "tx_xtalwait"
  <2>1. Code(s) \in Seq(Ops) /\ Len(Code(s)) = 7
    BY <1>5, XtalWaitCode, Zenon
  <2>2. Len(Code(s)) \in 0..8 /\ Len(Code(s)) >= 1
    BY <2>1
  <2> QED
    BY <1>5, <2>1, <2>2
<1>6. CASE s = "restart"
  <2>1. Code(s) \in Seq(Ops) /\ Len(Code(s)) = 7
    BY <1>6, RestartCode, Zenon
  <2>2. Len(Code(s)) \in 0..8 /\ Len(Code(s)) >= 1
    BY <2>1
  <2> QED
    BY <1>6, <2>1, <2>2
<1>7. CASE s = "wait_xtal"
  <2>1. Code(s) \in Seq(Ops) /\ Len(Code(s)) = 2
    BY <1>7, WaitXtalCode, Zenon
  <2>2. Len(Code(s)) \in 0..8 /\ Len(Code(s)) >= 1
    BY <2>1
  <2> QED
    BY <1>7, <2>1, <2>2
<1>8. CASE s = "pll_ranging"
  <2>1. Code(s) \in Seq(Ops) /\ Len(Code(s)) = 2
    BY <1>8, RangingCode, Zenon
  <2>2. Len(Code(s)) \in 0..8 /\ Len(Code(s)) >= 1
    BY <2>1
  <2> QED
    BY <1>8, <2>1, <2>2
<1>9. CASE s = "tx_waitdone"
  <2>1. Code(s) \in Seq(Ops) /\ Len(Code(s)) = 2
    BY <1>9, WaitDoneCode, Zenon
  <2>2. Len(Code(s)) \in 0..8 /\ Len(Code(s)) >= 1
    BY <2>1
  <2> QED
    BY <1>9, <2>1, <2>2
<1>10. CASE s = "other"
  <2>1. Code(s) \in Seq(Ops) /\ Len(Code(s)) = 2
    BY <1>10, OtherCode, Zenon
  <2>2. Len(Code(s)) \in 0..8 /\ Len(Code(s)) >= 1
    BY <2>1
  <2> QED
    BY <1>10, <2>1, <2>2
<1> QED
  BY <1>3, <1>4, <1>5, <1>6, <1>7, <1>8, <1>9, <1>10 DEF Kinds

(* The task waits exactly when it is idle. *)
LEMMA TaskIdle ==
    ASSUME NEW s, NEW k, At(s, k)
    PROVE  task = <<>> <=> s = "idle"
<1>0. s \in Kinds /\ k \in 1..8 /\ task = SubSeq(Code(s), k, Len(Code(s)))
  BY DEF At
<1>1. CASE s = "idle"
  <2>1. task = SubSeq(<<>>, 1, 0)
    BY <1>0, <1>1, CodeIsSeq DEF At
  <2>2. SubSeq(<<>>, 1, 0) = <<>>
    OBVIOUS
  <2> QED
    BY <1>1, <2>1, <2>2
<1>2. CASE s # "idle"
  <2>1. Code(s) \in Seq(Ops) /\ Len(Code(s)) \in 0..Len(Code(s)) /\ k \in 1..Len(Code(s))
    BY <1>0, <1>2, CodeIsSeq DEF At
  <2> QED
    BY <1>0, <1>2, <2>1, RestOfCode
<1> QED
  BY <1>1, <1>2

(* Otherwise it is at an operation of its code, ... *)
LEMMA TaskAt ==
    ASSUME NEW s, NEW k, At(s, k), s # "idle"
    PROVE  Op = Code(s)[k] /\ Tail(task) = SubSeq(Code(s), k + 1, Len(Code(s)))
<1>0. s \in Kinds /\ k \in 1..8 /\ task = SubSeq(Code(s), k, Len(Code(s)))
  BY DEF At
<1>1. Code(s) \in Seq(Ops) /\ Len(Code(s)) \in 0..Len(Code(s)) /\ k \in 1..Len(Code(s))
  BY <1>0, CodeIsSeq DEF At
<1> QED
  BY <1>0, <1>1, RestOfCode DEF Op

(* ... goes on to the next one, ... *)
LEMMA TaskOn ==
    ASSUME NEW s, NEW k, At(s, k), s # "idle", task' = Tail(task)
    PROVE  /\ k < Len(Code(s)) => At(s, k + 1)'
           /\ k >= Len(Code(s)) => At("idle", 1)'
<1>0. /\ s \in Kinds /\ k \in 1..8 /\ k <= Len(Code(s))
      /\ task' = SubSeq(Code(s), k + 1, Len(Code(s)))
  BY TaskAt DEF At
<1>1. Code(s) \in Seq(Ops) /\ Len(Code(s)) \in 0..8
  BY <1>0, CodeIsSeq
<1>2. ASSUME k < Len(Code(s)) PROVE At(s, k + 1)'
  <2>1. k + 1 \in 1..8 /\ k + 1 <= Len(Code(s))
    BY <1>0, <1>1, <1>2
  <2> QED
    BY <1>0, <2>1, Zenon DEF At
<1>3. ASSUME k >= Len(Code(s)) PROVE At("idle", 1)'
  <2>1. k = Len(Code(s)) /\ Len(Code(s)) \in 0..Len(Code(s))
    BY <1>0, <1>1, <1>3
  <2>2. task' = <<>>
    BY <1>0, <1>1, <2>1, EndOfCode
  <2>3. "idle" \in Kinds /\ Code("idle") = <<>>
    BY CodeIsSeq DEF Kinds
  <2>4. SubSeq(<<>>, 1, 0) = <<>> /\ Len(<<>>) = 0
    OBVIOUS
  <2> QED
    BY <2>2, <2>3, <2>4, 1 \in 1..8, Zenon DEF At
<1> QED
  BY <1>2, <1>3

(* Where the task begins when it is woken in state st. *)
KindOf(st) ==
    IF st \in {"rx", "wait_xtal", "pll_ranging", "tx_xtalwait", "tx_waitdone"} THEN st
    ELSE "other"

(* ... and begins with the first one of the state it is woken in. *)
LEMMA TaskWoken ==
    ASSUME task' = Handler(ubRFState)
    PROVE  \E s \in Kinds \ {"idle", "restart"} : s = KindOf(ubRFState) /\ At(s, 1)'
<1>0. PICK s : s = KindOf(ubRFState)
  OBVIOUS
<1>1. s \in Kinds /\ s # "idle" /\ s # "restart"
  BY <1>0 DEF KindOf, Kinds
<1>2. Handler(ubRFState) = Code(s)
  BY <1>0, Zenon DEF KindOf, Code, Handler
<1>3. Code(s) \in Seq(Ops) /\ Len(Code(s)) \in 0..8 /\ Len(Code(s)) >= 1
  BY <1>1, CodeIsSeq
<1>4. task' = SubSeq(Code(s), 1, Len(Code(s)))
  BY <1>2, <1>3
<1>5. At(s, 1)'
  BY <1>1, <1>3, <1>4 DEF At
<1> QED
  BY <1>0, <1>1, <1>5

(* The operations of the task, by place. *)
OpTable(s, k) ==
    /\ s = "rx" => /\ Len(Code(s)) = 8
                   /\ \/ k = 1 /\ Op[1] = "begin" /\ Op[2] = "all"
                      \/ k = 2 /\ Op[1] = "drain" /\ Op[2] = ""
                      \/ k = 3 /\ Op[1] = "mask0" /\ Op[2] = "fifo"
                      \/ k = 4 /\ Op[1] = "clear" /\ Op[2] = ""
                      \/ k = 5 /\ Op[1] = "pwr" /\ Op[2] = "rx"
                      \/ k = 6 /\ Op[1] = "state" /\ Op[2] = "rx"
                      \/ k = 7 /\ Op[1] = "mask1" /\ Op[2] = "none"
                      \/ k = 8 /\ Op[1] = "hand" /\ Op[2] = ""
    /\ s = "tx_xtalwait" => /\ Len(Code(s)) = 7
                   /\ \/ k = 1 /\ Op[1] = "event" /\ Op[2] = ""
                      \/ k = 2 /\ Op[1] = "clear" /\ Op[2] = ""
                      \/ k = 3 /\ Op[1] = "mask1" /\ Op[2] = "none"
                      \/ k = 4 /\ Op[1] = "mask0" /\ Op[2] = "free"
                      \/ k = 5 /\ Op[1] = "state" /\ Op[2] = "tx_waitdone"
                      \/ k = 6 /\ Op[1] = "mask0" /\ Op[2] = "radio"
                      \/ k = 7 /\ Op[1] = "pwr" /\ Op[2] = "tx"
    /\ s = "restart" => /\ Len(Code(s)) = 7
                   /\ \/ k = 1 /\ Op[1] = "mask0" /\ Op[2] = "none"
                      \/ k = 2 /\ Op[1] = "mask1" /\ Op[2] = "none"
                      \/ k = 3 /\ Op[1] = "pwr" /\ Op[2] = "xtal"
                      \/ k = 4 /\ Op[1] = "state" /\ Op[2] = "off"
                      \/ k = 5 /\ Op[1] = "pwr" /\ Op[2] = "down"
                      \/ k = 6 /\ Op[1] = "reset" /\ Op[2] = ""
                      \/ k = 7 /\ Op[1] = "state" /\ Op[2] = "rx"
    /\ s = "wait_xtal" => /\ Len(Code(s)) = 2
                   /\ \/ k = 1 /\ Op[1] = "mask1" /\ Op[2] = "none"
                      \/ k = 2 /\ Op[1] = "state" /\ Op[2] = "xtal_ready"
    /\ s = "pll_ranging" => /\ Len(Code(s)) = 2
                   /\ \/ k = 1 /\ Op[1] = "mask1" /\ Op[2] = "none"
                      \/ k = 2 /\ Op[1] = "state" /\ Op[2] = "pll_ranging_done"
    /\ s = "tx_waitdone" => /\ Len(Code(s)) = 2
                   /\ \/ k = 1 /\ Op[1] = "event" /\ Op[2] = ""
                      \/ k = 2 /\ Op[1] = "sent" /\ Op[2] = ""
    /\ s = "other" => /\ Len(Code(s)) = 2
                   /\ \/ k = 1 /\ Op[1] = "mask1" /\ Op[2] = "none"
                      \/ k = 2 /\ Op[1] = "mask0" /\ Op[2] = "none"

(* The task's next operation is the one of its place. *)
LEMMA TaskOps ==
    ASSUME NEW s, NEW k, At(s, k), s # "idle"
    PROVE  OpTable(s, k)
<1>0. Op = Code(s)[k] /\ k \in 1..8 /\ k <= Len(Code(s)) /\ s \in Kinds
  BY TaskAt DEF At
<1>1. ASSUME s = "rx"
      PROVE  /\ Len(Code(s)) = 8
             /\ \/ k = 1 /\ Op[1] = "begin" /\ Op[2] = "all"
                \/ k = 2 /\ Op[1] = "drain" /\ Op[2] = ""
                \/ k = 3 /\ Op[1] = "mask0" /\ Op[2] = "fifo"
                \/ k = 4 /\ Op[1] = "clear" /\ Op[2] = ""
                \/ k = 5 /\ Op[1] = "pwr" /\ Op[2] = "rx"
                \/ k = 6 /\ Op[1] = "state" /\ Op[2] = "rx"
                \/ k = 7 /\ Op[1] = "mask1" /\ Op[2] = "none"
                \/ k = 8 /\ Op[1] = "hand" /\ Op[2] = ""
  <2>1. Len(Code(s)) = 8
    BY <1>1, RxCode, Zenon
  <2>2. k \in 1..8
    BY <1>0, <2>1
  <2>3. ASSUME k = 1 PROVE Op[1] = "begin" /\ Op[2] = "all"
    <3>1. Op = <<"begin", "all">>
      BY <1>0, <1>1, <2>3, RxCode, Zenon
    <3> QED
      BY <3>1
  <2>4. ASSUME k = 2 PROVE Op[1] = "drain" /\ Op[2] = ""
    <3>1. Op = <<"drain", "">>
      BY <1>0, <1>1, <2>4, RxCode, Zenon
    <3> QED
      BY <3>1
  <2>5. ASSUME k = 3 PROVE Op[1] = "mask0" /\ Op[2] = "fifo"
    <3>1. Op = <<"mask0", "fifo">>
      BY <1>0, <1>1, <2>5, RxCode, Zenon
    <3> QED
      BY <3>1
  <2>6. ASSUME k = 4 PROVE Op[1] = "clear" /\ Op[2] = ""
    <3>1. Op = <<"clear", "">>
      BY <1>0, <1>1, <2>6, RxCode, Zenon
    <3> QED
      BY <3>1
  <2>7. ASSUME k = 5 PROVE Op[1] = "pwr" /\ Op[2] = "rx"
    <3>1. Op = <<"pwr", "rx">>
      BY <1>0, <1>1, <2>7, RxCode, Zenon
    <3> QED
      BY <3>1
  <2>8. ASSUME k = 6 PROVE Op[1] = "state" /\ Op[2] = "rx"
    <3>1. Op = <<"state", "rx">>
      BY <1>0, <1>1, <2>8, RxCode, Zenon
    <3> QED
      BY <3>1
  <2>9. ASSUME k = 7 PROVE Op[1] = "mask1" /\ Op[2] = "none"
    <3>1. Op = <<"mask1", "none">>
      BY <1>0, <1>1, <2>9, RxCode, Zenon
    <3> QED
      BY <3>1
  <2>10. ASSUME k = 8 PROVE Op[1] = "hand" /\ Op[2] = ""
    <3>1. Op = <<"hand", "">>
      BY <1>0, <1>1, <2>10, RxCode, Zenon
    <3> QED
      BY <3>1
  <2>20. k = 1 \/ k = 2 \/ k = 3 \/ k = 4 \/ k = 5 \/ k = 6 \/ k = 7 \/ k = 8
    BY <2>2
  <2> QED
    BY <2>1, <2>20, <2>3, <2>4, <2>5, <2>6, <2>7, <2>8, <2>9, <2>10, Zenon
<1>2. ASSUME s = "tx_xtalwait"
      PROVE  /\ Len(Code(s)) = 7
             /\ \/ k = 1 /\ Op[1] = "event" /\ Op[2] = ""
                \/ k = 2 /\ Op[1] = "clear" /\ Op[2] = ""
                \/ k = 3 /\ Op[1] = "mask1" /\ Op[2] = "none"
                \/ k = 4 /\ Op[1] = "mask0" /\ Op[2] = "free"
                \/ k = 5 /\ Op[1] = "state" /\ Op[2] = "tx_waitdone"
                \/ k = 6 /\ Op[1] = "mask0" /\ Op[2] = "radio"
                \/ k = 7 /\ Op[1] = "pwr" /\ Op[2] = "tx"
  <2>1. Len(Code(s)) = 7
    BY <1>2, XtalWaitCode, Zenon
  <2>2. k \in 1..7
    BY <1>0, <2>1
  <2>3. ASSUME k = 1 PROVE Op[1] = "event" /\ Op[2] = ""
    <3>1. Op = <<"event", "">>
      BY <1>0, <1>2, <2>3, XtalWaitCode, Zenon
    <3> QED
      BY <3>1
  <2>4. ASSUME k = 2 PROVE Op[1] = "clear" /\ Op[2] = ""
    <3>1. Op = <<"clear", "">>
      BY <1>0, <1>2, <2>4, XtalWaitCode, Zenon
    <3> QED
      BY <3>1
  <2>5. ASSUME k = 3 PROVE Op[1] = "mask1" /\ Op[2] = "none"
    <3>1. Op = <<"mask1", "none">>
      BY <1>0, <1>2, <2>5, XtalWaitCode, Zenon
    <3> QED
      BY <3>1
  <2>6. ASSUME k = 4 PROVE Op[1] = "mask0" /\ Op[2] = "free"
    <3>1. Op = <<"mask0", "free">>
      BY <1>0, <1>2, <2>6, XtalWaitCode, Zenon
    <3> QED
      BY <3>1
  <2>7. ASSUME k = 5 PROVE Op[1] = "state" /\ Op[2] = "tx_waitdone"
    <3>1. Op = <<"state", "tx_waitdone">>
      BY <1>0, <1>2, <2>7, XtalWaitCode, Zenon
    <3> QED
      BY <3>1
  <2>8. ASSUME k = 6 PROVE Op[1] = "mask0" /\ Op[2] = "radio"
    <3>1. Op = <<"mask0", "radio">>
      BY <1>0, <1>2, <2>8, XtalWaitCode, Zenon
    <3> QED
      BY <3>1
  <2>9. ASSUME k = 7 PROVE Op[1] = "pwr" /\ Op[2] = "tx"
    <3>1. Op = <<"pwr", "tx">>
      BY <1>0, <1>2, <2>9, XtalWaitCode, Zenon
    <3> QED
      BY <3>1
  <2>20. k = 1 \/ k = 2 \/ k = 3 \/ k = 4 \/ k = 5 \/ k = 6 \/ k = 7
    BY <2>2
  <2> QED
    BY <2>1, <2>20, <2>3, <2>4, <2>5, <2>6, <2>7, <2>8, <2>9, Zenon
<1>3. ASSUME s = "restart"
      PROVE  /\ Len(Code(s)) = 7
             /\ \/ k = 1 /\ Op[1] = "mask0" /\ Op[2] = "none"
                \/ k = 2 /\ Op[1] = "mask1" /\ Op[2] = "none"
                \/ k = 3 /\ Op[1] = "pwr" /\ Op[2] = "xtal"
                \/ k = 4 /\ Op[1] = "state" /\ Op[2] = "off"
                \/ k = 5 /\ Op[1] = "pwr" /\ Op[2] = "down"
                \/ k = 6 /\ Op[1] = "reset" /\ Op[2] = ""
                \/ k = 7 /\ Op[1] = "state" /\ Op[2] = "rx"
  <2>1. Len(Code(s)) = 7
    BY <1>3, RestartCode, Zenon
  <2>2. k \in 1..7
    BY <1>0, <2>1
  <2>3. ASSUME k = 1 PROVE Op[1] = "mask0" /\ Op[2] = "none"
    <3>1. Op = <<"mask0", "none">>
      BY <1>0, <1>3, <2>3, RestartCode, Zenon
    <3> QED
      BY <3>1
  <2>4. ASSUME k = 2 PROVE Op[1] = "mask1" /\ Op[2] = "none"
    <3>1. Op = <<"mask1", "none">>
      BY <1>0, <1>3, <2>4, RestartCode, Zenon
    <3> QED
      BY <3>1
  <2>5. ASSUME k = 3 PROVE Op[1] = "pwr" /\ Op[2] = "xtal"
    <3>1. Op = <<"pwr", "xtal">>
      BY <1>0, <1>3, <2>5, RestartCode, Zenon
    <3> QED
      BY <3>1
  <2>6. ASSUME k = 4 PROVE Op[1] = "state" /\ Op[2] = "off"
    <3>1. Op = <<"state", "off">>
      BY <1>0, <1>3, <2>6, RestartCode, Zenon
    <3> QED
      BY <3>1
  <2>7. ASSUME k = 5 PROVE Op[1] = "pwr" /\ Op[2] = "down"
    <3>1. Op = <<"pwr", "down">>
      BY <1>0, <1>3, <2>7, RestartCode, Zenon
    <3> QED
      BY <3>1
  <2>8. ASSUME k = 6 PROVE Op[1] = "reset" /\ Op[2] = ""
    <3>1. Op = <<"reset", "">>
      BY <1>0, <1>3, <2>8, RestartCode, Zenon
    <3> QED
      BY <3>1
  <2>9. ASSUME k = 7 PROVE Op[1] = "state" /\ Op[2] = "rx"
    <3>1. Op = <<"state", "rx">>
      BY <1>0, <1>3, <2>9, RestartCode, Zenon
    <3> QED
      BY <3>1
  <2>20. k = 1 \/ k = 2 \/ k = 3 \/ k = 4 \/ k = 5 \/ k = 6 \/ k = 7
    BY <2>2
  <2> QED
    BY <2>1, <2>20, <2>3, <2>4, <2>5, <2>6, <2>7, <2>8, <2>9, Zenon
<1>4. ASSUME s = "wait_xtal"
      PROVE  /\ Len(Code(s)) = 2
             /\ \/ k = 1 /\ Op[1] = "mask1" /\ Op[2] = "none"
                \/ k = 2 /\ Op[1] = "state" /\ Op[2] = "xtal_ready"
  <2>1. Len(Code(s)) = 2
    BY <1>4, WaitXtalCode, Zenon
  <2>2. k \in 1..2
    BY <1>0, <2>1
  <2>3. ASSUME k = 1 PROVE Op[1] = "mask1" /\ Op[2] = "none"
    <3>1. Op = <<"mask1", "none">>
      BY <1>0, <1>4, <2>3, WaitXtalCode, Zenon
    <3> QED
      BY <3>1
  <2>4. ASSUME k = 2 PROVE Op[1] = "state" /\ Op[2] = "xtal_ready"
    <3>1. Op = <<"state", "xtal_ready">>
      BY <1>0, <1>4, <2>4, WaitXtalCode, Zenon
    <3> QED
      BY <3>1
  <2>20. k = 1 \/ k = 2
    BY <2>2
  <2> QED
    BY <2>1, <2>20, <2>3, <2>4, Zenon
<1>5. ASSUME s = "pll_ranging"
      PROVE  /\ Len(Code(s)) = 2
             /\ \/ k = 1 /\ Op[1] = "mask1" /\ Op[2] = "none"
                \/ k = 2 /\ Op[1] = "state" /\ Op[2] = "pll_ranging_done"
  <2>1. Len(Code(s)) = 2
    BY <1>5, RangingCode, Zenon
  <2>2. k \in 1..2
    BY <1>0, <2>1
  <2>3. ASSUME k = 1 PROVE Op[1] = "mask1" /\ Op[2] = "none"
    <3>1. Op = <<"mask1", "none">>
      BY <1>0, <1>5, <2>3, RangingCode, Zenon
    <3> QED
      BY <3>1
  <2>4. ASSUME k = 2 PROVE Op[1] = "state" /\ Op[2] = "pll_ranging_done"
    <3>1. Op = <<"state", "pll_ranging_done">>
      BY <1>0, <1>5, <2>4, RangingCode, Zenon
    <3> QED
      BY <3>1
  <2>20. k = 1 \/ k = 2
    BY <2>2
  <2> QED
    BY <2>1, <2>20, <2>3, <2>4, Zenon
<1>6. ASSUME s = "tx_waitdone"
      PROVE  /\ Len(Code(s)) = 2
             /\ \/ k = 1 /\ Op[1] = "event" /\ Op[2] = ""
                \/ k = 2 /\ Op[1] = "sent" /\ Op[2] = ""
  <2>1. Len(Code(s)) = 2
    BY <1>6, WaitDoneCode, Zenon
  <2>2. k \in 1..2
    BY <1>0, <2>1
  <2>3. ASSUME k = 1 PROVE Op[1] = "event" /\ Op[2] = ""
    <3>1. Op = <<"event", "">>
      BY <1>0, <1>6, <2>3, WaitDoneCode, Zenon
    <3> QED
      BY <3>1
  <2>4. ASSUME k = 2 PROVE Op[1] = "sent" /\ Op[2] = ""
    <3>1. Op = <<"sent", "">>
      BY <1>0, <1>6, <2>4, WaitDoneCode, Zenon
    <3> QED
      BY <3>1
  <2>20. k = 1 \/ k = 2
    BY <2>2
  <2> QED
    BY <2>1, <2>20, <2>3, <2>4, Zenon
<1>7. ASSUME s = "other"
      PROVE  /\ Len(Code(s)) = 2
             /\ \/ k = 1 /\ Op[1] = "mask1" /\ Op[2] = "none"
                \/ k = 2 /\ Op[1] = "mask0" /\ Op[2] = "none"
  <2>1. Len(Code(s)) = 2
    BY <1>7, OtherCode, Zenon
  <2>2. k \in 1..2
    BY <1>0, <2>1
  <2>3. ASSUME k = 1 PROVE Op[1] = "mask1" /\ Op[2] = "none"
    <3>1. Op = <<"mask1", "none">>
      BY <1>0, <1>7, <2>3, OtherCode, Zenon
    <3> QED
      BY <3>1
  <2>4. ASSUME k = 2 PROVE Op[1] = "mask0" /\ Op[2] = "none"
    <3>1. Op = <<"mask0", "none">>
      BY <1>0, <1>7, <2>4, OtherCode, Zenon
    <3> QED
      BY <3>1
  <2>20. k = 1 \/ k = 2
    BY <2>2
  <2> QED
    BY <2>1, <2>20, <2>3, <2>4, Zenon
<1> QED
  BY <1>0, <1>1, <1>2, <1>3, <1>4, <1>5, <1>6, <1>7 DEF Kinds, OpTable

-----------------------------------------------------------------------------
(* What a transfer does to the chip *)

(* PWRMODE = down: the crystal stops and the FIFO is emptied. *)
LEMMA WritePwrDown ==
    ASSUME NEW c, NEW op, NEW d, DOMAIN c = ChipFields, d = Write(c, op), op[1] = "pwr",
           op[2] = "down"
    PROVE  /\ DOMAIN d = ChipFields
           /\ d.pwr = "down" /\ ~d.xtal /\ d.fifo = <<>> /\ ~d.sending
           /\ d.mask0 = c.mask0 /\ d.mask1 = c.mask1 /\ d.range = c.range /\ d.done = c.done
<1>1. d = [c EXCEPT !.pwr = "down", !.xtal = FALSE, !.fifo = <<>>, !.sending = FALSE]
  BY Zenon DEF Write
<1> QED
  BY <1>1 DEF ChipFields

(* Another power mode. *)
LEMMA WritePwrUp ==
    ASSUME NEW c, NEW op, NEW d, DOMAIN c = ChipFields, d = Write(c, op), op[1] = "pwr",
           op[2] # "down"
    PROVE  /\ DOMAIN d = ChipFields
           /\ d.pwr = op[2] /\ (d.sending => op[2] = "tx")
           /\ d.mask0 = c.mask0 /\ d.mask1 = c.mask1 /\ d.xtal = c.xtal /\ d.range = c.range
           /\ d.fifo = c.fifo /\ d.done = c.done
<1>1. d = [c EXCEPT !.pwr = op[2], !.sending = (op[2] = "tx")]
  BY Zenon DEF Write
<1> QED
  BY <1>1 DEF ChipFields

(* IRQMASK0. *)
LEMMA WriteMask0 ==
    ASSUME NEW c, NEW op, NEW d, DOMAIN c = ChipFields, d = Write(c, op), op[1] = "mask0"
    PROVE  /\ DOMAIN d = ChipFields
           /\ d.mask0 = op[2]
           /\ d.pwr = c.pwr /\ d.mask1 = c.mask1 /\ d.xtal = c.xtal /\ d.range = c.range
           /\ d.fifo = c.fifo /\ d.done = c.done /\ d.sending = c.sending
<1>1. d = [c EXCEPT !.mask0 = op[2]]
  BY Zenon DEF Write
<1> QED
  BY <1>1 DEF ChipFields

(* IRQMASK1. *)
LEMMA WriteMask1 ==
    ASSUME NEW c, NEW op, NEW d, DOMAIN c = ChipFields, d = Write(c, op), op[1] = "mask1"
    PROVE  /\ DOMAIN d = ChipFields
           /\ d.mask1 = op[2]
           /\ d.pwr = c.pwr /\ d.mask0 = c.mask0 /\ d.xtal = c.xtal /\ d.range = c.range
           /\ d.fifo = c.fifo /\ d.done = c.done /\ d.sending = c.sending
<1>1. d = [c EXCEPT !.mask1 = op[2]]
  BY Zenon DEF Write
<1> QED
  BY <1>1 DEF ChipFields

(* Ax5043_Reset. *)
LEMMA WriteReset ==
    ASSUME NEW c, NEW op, NEW d, DOMAIN c = ChipFields, d = Write(c, op), op[1] = "reset"
    PROVE  /\ DOMAIN d = ChipFields
           /\ d.pwr = "down" /\ d.mask0 = "none" /\ d.mask1 = "none" /\ ~d.xtal
           /\ d.range = "idle" /\ d.fifo = <<>> /\ ~d.done /\ ~d.sending
<1>1. d = ResetChip
  BY Zenon DEF Write
<1> QED
  BY <1>1 DEF ChipFields, ResetChip

(* PLLRANGING: a ranging begins. *)
LEMMA WriteRange ==
    ASSUME NEW c, NEW op, NEW d, DOMAIN c = ChipFields, d = Write(c, op), op[1] = "range"
    PROVE  /\ DOMAIN d = ChipFields
           /\ d.range = "busy"
           /\ d.pwr = c.pwr /\ d.mask0 = c.mask0 /\ d.mask1 = c.mask1 /\ d.xtal = c.xtal
           /\ d.fifo = c.fifo /\ d.done = c.done /\ d.sending = c.sending
<1>1. d = [c EXCEPT !.range = "busy"]
  BY Zenon DEF Write
<1> QED
  BY <1>1 DEF ChipFields

(* FIFOSTAT: the FIFO is emptied. *)
LEMMA WriteClear ==
    ASSUME NEW c, NEW op, NEW d, DOMAIN c = ChipFields, d = Write(c, op), op[1] = "clear"
    PROVE  /\ DOMAIN d = ChipFields
           /\ d.fifo = <<>>
           /\ d.pwr = c.pwr /\ d.mask0 = c.mask0 /\ d.mask1 = c.mask1 /\ d.xtal = c.xtal
           /\ d.range = c.range /\ d.done = c.done /\ d.sending = c.sending
<1>1. d = [c EXCEPT !.fifo = <<>>]
  BY Zenon DEF Write
<1> QED
  BY <1>1 DEF ChipFields

(* RADIOEVENTREQ is read: the event is taken back. *)
LEMMA WriteEvent ==
    ASSUME NEW c, NEW op, NEW d, DOMAIN c = ChipFields, d = Write(c, op), op[1] = "event"
    PROVE  /\ DOMAIN d = ChipFields
           /\ ~d.done
           /\ d.pwr = c.pwr /\ d.mask0 = c.mask0 /\ d.mask1 = c.mask1 /\ d.xtal = c.xtal
           /\ d.range = c.range /\ d.fifo = c.fifo /\ d.sending = c.sending
<1>1. d = [c EXCEPT !.done = FALSE]
  BY Zenon DEF Write
<1> QED
  BY <1>1 DEF ChipFields

-----------------------------------------------------------------------------
(* The FIFO *)

(* It is emptied. *)
LEMMA FifoCleared ==
    ASSUME NEW f, NEW n, NEW r, NEW h, InOrder(f, n, r, h)
    PROVE  InOrder(<<>>, n, r, h)
  BY DEF InOrder

(* A packet or the strength of its signal comes in. *)
LEMMA FifoFilled ==
    ASSUME NEW f, NEW n, NEW r, NEW h, NEW x \in Chunks, NEW n2, InOrder(f, n, r, h),
           \/ x[1] # "data" /\ n2 \in Nat /\ n2 >= n
           \/ x[2] = n + 1 /\ n2 = n + 1
    PROVE  InOrder(Append(f, x), n2, r, h)
<1>1. /\ n \in Nat /\ r \in 0..n /\ h \in 0..n /\ n2 \in Nat /\ n2 >= n
      /\ x[1] = "data" => x[2] = n + 1 /\ n2 = n + 1
  BY DEF InOrder
<1> DEFINE g == Append(f, x)
<1>2. f \in Seq(Chunks)
  BY DEF InOrder
<1>3. /\ g \in Seq(Chunks) /\ Len(g) = Len(f) + 1 /\ Len(f) \in Nat
      /\ \A m \in 1..Len(f) : g[m] = f[m]
      /\ g[Len(f) + 1] = x
  BY <1>2
<1> HIDE DEF g
<1>4. /\ \A m \in 1..Len(f) : f[m][1] = "data" => f[m][2] > r /\ f[m][2] > h /\ f[m][2] <= n
      /\ \A l, m \in 1..Len(f) :
           l < m /\ f[l][1] = "data" /\ f[m][1] = "data" => f[l][2] < f[m][2]
  BY DEF InOrder
<1>5. ASSUME NEW m \in 1..Len(f) PROVE f[m][2] \in Nat
  BY <1>2, <1>5 DEF Chunks
<1>6. ASSUME NEW m \in 1..Len(g), g[m][1] = "data"
      PROVE  g[m][2] > r /\ g[m][2] > h /\ g[m][2] <= n2
  <2>1. CASE m \in 1..Len(f)
    <3>1. g[m] = f[m] /\ f[m][2] \in Nat
      BY <1>3, <1>5, <2>1
    <3>2. f[m][2] > r /\ f[m][2] > h /\ f[m][2] <= n
      BY <1>4, <1>6, <2>1, <3>1
    <3> QED
      BY <1>1, <3>1, <3>2
  <2>2. CASE m = Len(f) + 1
    <3>1. g[m] = x
      BY <1>3, <2>2
    <3>2. x[2] = n + 1 /\ n2 = n + 1
      BY <1>1, <1>6, <3>1
    <3>3. x[2] > r /\ x[2] > h /\ x[2] <= n2
      BY <1>1, <3>2
    <3> QED
      BY <3>1, <3>3
  <2> QED
    BY <1>3, <2>1, <2>2
<1>7. ASSUME NEW l \in 1..Len(g), NEW m \in 1..Len(g), l < m,
             g[l][1] = "data", g[m][1] = "data"
      PROVE  g[l][2] < g[m][2]
  <2>1. l \in 1..Len(f) /\ g[l] = f[l]
    BY <1>3, <1>7
  <2>2. CASE m \in 1..Len(f)
    <3>1. g[m] = f[m]
      BY <1>3, <2>2
    <3> QED
      BY <1>4, <1>7, <2>1, <2>2, <3>1
  <2>3. CASE m = Len(f) + 1
    <3>1. g[m] = x
      BY <1>3, <2>3
    <3>2. x[2] = n + 1
      BY <1>1, <1>7, <3>1
    <3>3. f[l][2] <= n /\ f[l][2] \in Nat
      BY <1>4, <1>5, <1>7, <2>1
    <3>4. f[l][2] < x[2]
      BY <1>1, <3>2, <3>3
    <3> QED
      BY <2>1, <3>1, <3>4
  <2> QED
    BY <1>3, <2>2, <2>3
<1>8. InOrder(g, n2, r, h)
  <2>1. n2 \in Nat /\ r \in 0..n2 /\ h \in 0..n2
    BY <1>1
  <2> QED
    BY <1>3, <1>6, <1>7, <2>1 DEF InOrder
<1> QED
  BY <1>8 DEF g

(* ReceiveData takes a chunk out of it. *)
LEMMA FifoTaken ==
    ASSUME NEW f, NEW n, NEW r, NEW h, InOrder(f, n, r, h), f # <<>>
    PROVE  /\ Head(f)[2] \in Nat
           /\ Head(f)[1] = "data" => Head(f)[2] > h /\ InOrder(Tail(f), n, Head(f)[2], h)
           /\ InOrder(Tail(f), n, r, h)
<1>1. n \in Nat /\ r \in 0..n /\ h \in 0..n /\ f \in Seq(Chunks)
  BY DEF InOrder
<1> DEFINE g == Tail(f)
<1>2. /\ g \in Seq(Chunks) /\ Len(g) = Len(f) - 1 /\ Len(f) \in Nat /\ Len(f) >= 1
      /\ \A m \in 1..Len(g) : g[m] = f[m + 1]
      /\ Head(f) = f[1]
  BY <1>1
<1> HIDE DEF g
<1>3. /\ \A m \in 1..Len(f) : f[m][1] = "data" => f[m][2] > r /\ f[m][2] > h /\ f[m][2] <= n
      /\ \A l, m \in 1..Len(f) :
           l < m /\ f[l][1] = "data" /\ f[m][1] = "data" => f[l][2] < f[m][2]
  BY DEF InOrder
<1>4. ASSUME NEW m \in 1..Len(f) PROVE f[m][2] \in Nat
  BY <1>1, <1>4 DEF Chunks
<1>5. f[1][2] \in Nat /\ 1 \in 1..Len(f)
  BY <1>2, <1>4
<1>6. ASSUME NEW m \in 1..Len(g), g[m][1] = "data"
      PROVE  /\ g[m][2] > r /\ g[m][2] > h /\ g[m][2] <= n
             /\ f[1][1] = "data" => g[m][2] > f[1][2]
  <2>1. g[m] = f[m + 1] /\ m + 1 \in 1..Len(f) /\ 1 < m + 1
    BY <1>2
  <2>2. f[m + 1][2] \in Nat
    BY <1>4, <2>1
  <2>3. f[1][1] = "data" => f[1][2] < f[m + 1][2]
    BY <1>3, <1>5, <1>6, <2>1
  <2>4. f[m + 1][2] > r /\ f[m + 1][2] > h /\ f[m + 1][2] <= n
    BY <1>3, <1>6, <2>1
  <2>5. f[1][1] = "data" => f[m + 1][2] > f[1][2]
    BY <1>5, <2>2, <2>3
  <2> QED
    BY <2>1, <2>4, <2>5
<1>7. ASSUME NEW l \in 1..Len(g), NEW m \in 1..Len(g), l < m,
             g[l][1] = "data", g[m][1] = "data"
      PROVE  g[l][2] < g[m][2]
  <2>1. /\ g[l] = f[l + 1] /\ l + 1 \in 1..Len(f)
        /\ g[m] = f[m + 1] /\ m + 1 \in 1..Len(f) /\ l + 1 < m + 1
    BY <1>2, <1>7
  <2> QED
    BY <1>3, <1>7, <2>1
<1>8. InOrder(g, n, r, h)
  BY <1>1, <1>2, <1>6, <1>7 DEF InOrder
<1>9. ASSUME f[1][1] = "data" PROVE f[1][2] > h /\ InOrder(g, n, f[1][2], h)
  <2>1. f[1][2] > h /\ f[1][2] <= n
    BY <1>3, <1>5, <1>9
  <2>2. f[1][2] \in 0..n
    BY <1>1, <1>5, <2>1
  <2>3. InOrder(g, n, f[1][2], h)
    BY <1>1, <1>2, <1>6, <1>7, <1>9, <2>2 DEF InOrder
  <2> QED
    BY <2>1, <2>3
<1> QED
  BY <1>2, <1>5, <1>8, <1>9 DEF g

(* ReceiveData begins with an empty buffer; a packet is given away. *)
LEMMA FifoKept ==
    ASSUME NEW f, NEW n, NEW r, NEW h, InOrder(f, n, r, h)
    PROVE  InOrder(f, n, 0, h) /\ InOrder(f, n, r, r)
<1>1. /\ n \in Nat /\ r \in 0..n /\ h \in 0..n /\ f \in Seq(Chunks)
      /\ \A m \in 1..Len(f) : f[m][1] = "data" => f[m][2] > r /\ f[m][2] > h /\ f[m][2] <= n
      /\ \A l, m \in 1..Len(f) :
           l < m /\ f[l][1] = "data" /\ f[m][1] = "data" => f[l][2] < f[m][2]
  BY DEF InOrder
<1>2. ASSUME NEW m \in 1..Len(f) PROVE f[m][2] \in Nat
  BY <1>1, <1>2 DEF Chunks
<1>3. ASSUME NEW m \in 1..Len(f), f[m][1] = "data" PROVE f[m][2] > 0
  BY <1>1, <1>2, <1>3
<1>4. 0 \in 0..n
  BY <1>1
<1> QED
  BY <1>1, <1>3, <1>4 DEF InOrder

-----------------------------------------------------------------------------
(* Every step keeps PacketInv *)

(* A transfer empties the FIFO or leaves it alone. *)
LEMMA WriteFifo ==
    ASSUME NEW c, NEW op, NEW d, DOMAIN c = ChipFields, d = Write(c, op), op[1] \in Writes
    PROVE  DOMAIN d = ChipFields /\ (d.fifo = c.fifo \/ d.fifo = <<>>)
<1>1. CASE op[1] = "pwr"
  BY <1>1, WritePwrDown, WritePwrUp
<1>2. CASE op[1] = "mask0"
  BY <1>2, WriteMask0
<1>3. CASE op[1] = "mask1"
  BY <1>3, WriteMask1
<1>4. CASE op[1] = "reset"
  BY <1>4, WriteReset
<1>5. CASE op[1] = "range"
  BY <1>5, WriteRange
<1>6. CASE op[1] = "clear"
  BY <1>6, WriteClear
<1>7. CASE op[1] = "event"
  BY <1>7, WriteEvent
<1> QED
  BY <1>1, <1>2, <1>3, <1>4, <1>5, <1>6, <1>7 DEF Writes

(* The task goes on, after it has begun. *)
LEMMA TakenOn ==
    ASSUME NEW s, NEW k, At(s, k), Taken(s, k), task # <<>>, task' = Tail(task),
           Op[1] # "begin", UNCHANGED <<RxLen, RXBuff, handed>>
    PROVE  \E t \in Kinds, l \in 1..8 : At(t, l)' /\ Taken(t, l)'
<1>0. s \in Kinds /\ k \in 1..8 /\ s # "idle"
  BY TaskIdle DEF At
<1>1. CASE k < Len(Code(s))
  <2>1. At(s, k + 1)'
    BY <1>0, <1>1, TaskOn
  <2>2. s = "rx" => k >= 2
    <3>1. OpTable(s, k)
      BY <1>0, TaskOps
    <3>2. s = "rx" => \/ k = 2 \/ k = 3 \/ k = 4 \/ k = 5 \/ k = 6 \/ k = 7 \/ k = 8
      BY <3>1, Zenon DEF OpTable
    <3> QED
      BY <3>2
  <2>3. Taken(s, k + 1)'
    BY <1>0, <2>2 DEF Taken
  <2>4. k + 1 \in 1..8
    BY <2>1 DEF At
  <2> QED
    BY <1>0, <2>1, <2>3, <2>4
<1>2. CASE ~(k < Len(Code(s)))
  <2>1. k >= Len(Code(s))
    BY <1>0, <1>2, CodeIsSeq
  <2>2. At("idle", 1)'
    BY <1>0, <2>1, TaskOn
  <2>3. Taken("idle", 1)' /\ "idle" \in Kinds /\ 1 \in 1..8
    BY DEF Taken, Kinds
  <2> QED
    BY <2>2, <2>3
<1> QED
  BY <1>1, <1>2

(* The task and what it has taken stay as they are. *)
LEMMA TakenStays ==
    ASSUME NEW s, NEW k, At(s, k), Taken(s, k), UNCHANGED <<task, RxLen, RXBuff, handed>>
    PROVE  \E t \in Kinds, l \in 1..8 : At(t, l)' /\ Taken(t, l)'
<1>1. s \in Kinds /\ k \in 1..8 /\ At(s, k)' /\ Taken(s, k)'
  BY DEF At, Taken
<1> QED
  BY <1>1

(* The start of the driver. *)
LEMMA PacketInit == Init => PacketInv
<1> SUFFICES ASSUME Init PROVE PacketInv
  OBVIOUS
<1>1. /\ chip = ResetChip /\ packets = 0 /\ RXBuff = 0 /\ handed = 0 /\ air = 0
      /\ ubRssi = 0 /\ task = <<>>
  BY DEF Init
<1>2. DOMAIN chip = ChipFields /\ chip.fifo = <<>>
  BY <1>1 DEF ResetChip, ChipFields
<1>3. InOrder(chip.fifo, packets, RXBuff, handed)
  BY <1>1, <1>2 DEF InOrder
<1>4. "idle" \in Kinds /\ Code("idle") = <<>>
  BY CodeIsSeq DEF Kinds
<1>5. SubSeq(<<>>, 1, 0) = <<>> /\ Len(<<>>) = 0 /\ 1 \in 1..8
  OBVIOUS
<1>6. At("idle", 1)
  BY <1>1, <1>4, <1>5, Zenon DEF At
<1>7. Taken("idle", 1)
  BY DEF Taken
<1>8. ubRssi \in {0} \cup burst /\ air \in Nat
  BY <1>1
<1> QED
  BY <1>2, <1>3, <1>4, <1>5, <1>6, <1>7, <1>8, Zenon DEF PacketInv

(* A packet or a signal strength comes in. *)
LEMMA ChunkPackets ==
    ASSUME PacketInv, NEW k \in {"data", "other", "rssi"}, Chunk(k)
    PROVE  PacketInv'
<1> DEFINE x == <<k, IF k = "rssi" THEN air ELSE packets'>>
<1>0. /\ DOMAIN chip = ChipFields /\ air \in Nat /\ packets \in Nat
      /\ InOrder(chip.fifo, packets, RXBuff, handed)
  BY DEF PacketInv, InOrder
<1>1. /\ chip' = [chip EXCEPT !.fifo = Append(@, x)]
      /\ UNCHANGED <<task, RxLen, RXBuff, ubRssi, handed, burst>>
  BY DEF Chunk, ChipVars, rxVars, history
<1>2. /\ \/ k \in {"data", "other"} /\ packets' = packets + 1
         \/ k = "rssi" /\ packets' = packets
      /\ air' = 0 \/ air' = packets'
  BY DEF Chunk
<1>3. DOMAIN chip' = ChipFields /\ chip'.fifo = Append(chip.fifo, x)
  BY <1>0, <1>1 DEF ChipFields
<1>4. x \in Chunks /\ packets' \in Nat /\ packets' >= packets
  BY <1>0, <1>2 DEF Chunks
<1>5. x[1] # "data" \/ (x[2] = packets + 1 /\ packets' = packets + 1)
  BY <1>2
<1> HIDE DEF x
<1>6. InOrder(Append(chip.fifo, x), packets', RXBuff, handed)
  BY <1>0, <1>4, <1>5, FifoFilled
<1>7. InOrder(chip.fifo, packets, RXBuff, handed)'
  BY <1>1, <1>3, <1>6
<1>8. air' \in Nat
  BY <1>2, <1>4
<1>9. ubRssi' \in {0} \cup burst'
  BY <1>1 DEF PacketInv
<1>10. \E t \in Kinds, l \in 1..8 : At(t, l)' /\ Taken(t, l)'
  <2>1. PICK s \in Kinds, m \in 1..8 : At(s, m) /\ Taken(s, m)
    BY DEF PacketInv
  <2> QED
    BY <1>1, <2>1, TakenStays
<1> QED
  BY <1>3, <1>7, <1>8, <1>9, <1>10, Zenon DEF PacketInv

(* A step that leaves packets alone, up to an emptied FIFO. *)
LEMMA PacketsStay ==
    ASSUME PacketInv, DOMAIN chip' = ChipFields,
           chip'.fifo = chip.fifo \/ chip'.fifo = <<>>,
           UNCHANGED <<packets, RXBuff, RxLen, ubRssi, handed, burst>>,
           air' = air \/ air' = 0,
           \E t \in Kinds, l \in 1..8 : At(t, l)' /\ Taken(t, l)'
    PROVE  PacketInv'
<1>1. InOrder(chip'.fifo, packets, RXBuff, handed)
  BY FifoCleared DEF PacketInv
<1>2. InOrder(chip.fifo, packets, RXBuff, handed)'
  BY <1>1
<1>3. air' \in Nat /\ ubRssi' \in {0} \cup burst'
  BY DEF PacketInv
<1> QED
  BY <1>2, <1>3, Zenon DEF PacketInv

(* The other steps of the chip. *)
LEMMA ChipPackets ==
    ASSUME PacketInv, XtalReady \/ RangingDone \/ SignalGone \/ SendDone
    PROVE  PacketInv'
<1>1. /\ UNCHANGED <<packets, RXBuff, RxLen, ubRssi, handed, burst, task>>
      /\ air' = air \/ air' = 0
      /\ \/ chip' = [chip EXCEPT !.xtal = TRUE]
         \/ chip' = [chip EXCEPT !.range = "done"]
         \/ chip' = [chip EXCEPT !.sending = FALSE, !.done = TRUE]
         \/ chip' = chip
  BY DEF XtalReady, RangingDone, SignalGone, SendDone, ChipVars, rxVars, history
<1>2. DOMAIN chip = ChipFields
  BY DEF PacketInv
<1>3. DOMAIN chip' = ChipFields /\ chip'.fifo = chip.fifo
  BY <1>1, <1>2 DEF ChipFields
<1>4. PICK s \in Kinds, m \in 1..8 : At(s, m) /\ Taken(s, m)
  BY DEF PacketInv
<1>5. \E t \in Kinds, l \in 1..8 : At(t, l)' /\ Taken(t, l)'
  BY <1>1, <1>4, TakenStays
<1> QED
  BY <1>1, <1>3, <1>5, PacketsStay

(* The task is woken. *)
LEMMA TakeSemPackets == ASSUME PacketInv, TakeSem PROVE PacketInv'
<1>1. /\ task' = Handler(ubRFState)
      /\ UNCHANGED <<chip, packets, RXBuff, RxLen, ubRssi, handed, burst, air>>
  BY DEF TakeSem, rxVars
<1>2. PICK s \in Kinds : At(s, 1)'
  BY <1>1, TaskWoken
<1>3. \A t : Taken(t, 1)'
  BY DEF Taken
<1>4. \E t \in Kinds, l \in 1..8 : At(t, l)' /\ Taken(t, l)'
  BY <1>2, <1>3, 1 \in 1..8, Zenon
<1>5. DOMAIN chip' = ChipFields
  BY <1>1 DEF PacketInv
<1> QED
  BY <1>1, <1>4, <1>5, PacketsStay

(* A step of the task after it has begun, without an effect on packets. *)
LEMMA TaskOnPackets ==
    ASSUME PacketInv, task # <<>>, task' = Tail(task), Op[1] # "begin",
           DOMAIN chip' = ChipFields, chip'.fifo = chip.fifo \/ chip'.fifo = <<>>,
           UNCHANGED <<packets, RXBuff, RxLen, ubRssi, handed, burst, air>>
    PROVE  PacketInv'
<1>1. PICK s \in Kinds, k \in 1..8 : At(s, k) /\ Taken(s, k)
  BY DEF PacketInv
<1>2. \E t \in Kinds, l \in 1..8 : At(t, l)' /\ Taken(t, l)'
  BY <1>1, TakenOn
<1> QED
  BY <1>2, PacketsStay

(* The task's transfers and stores. *)
LEMMA TaskPackets == ASSUME PacketInv, TaskWrite \/ TaskStore \/ Drained PROVE PacketInv'
<1>0. DOMAIN chip = ChipFields
  BY DEF PacketInv
<1>1. CASE TaskWrite
  <2>1. /\ task # <<>> /\ Op[1] \in Writes /\ chip' = Write(chip, Op) /\ task' = Tail(task)
        /\ UNCHANGED <<packets, RXBuff, RxLen, ubRssi, handed, burst, air>>
    BY <1>1 DEF TaskWrite, rxVars, history
  <2>2. DOMAIN chip' = ChipFields /\ (chip'.fifo = chip.fifo \/ chip'.fifo = <<>>)
    BY <1>0, <2>1, WriteFifo
  <2>3. Op[1] # "begin"
    BY <2>1 DEF Writes
  <2> QED
    BY <2>1, <2>2, <2>3, TaskOnPackets
<1>2. CASE TaskStore \/ Drained
  <2>1. /\ task # <<>> /\ Op[1] \in {"state", "drain"} /\ chip' = chip /\ task' = Tail(task)
        /\ UNCHANGED <<packets, RXBuff, RxLen, ubRssi, handed, burst, air>>
    BY <1>2 DEF TaskStore, Drained, rxVars, history
  <2>2. DOMAIN chip' = ChipFields /\ chip'.fifo = chip.fifo
    BY <1>0, <2>1
  <2>3. Op[1] # "begin"
    BY <2>1
  <2> QED
    BY <2>1, <2>2, <2>3, TaskOnPackets
<1> QED
  BY <1>1, <1>2

(* ReceiveData forgets the last packet and its strength. *)
LEMMA BeginPackets == ASSUME PacketInv, BeginReceive PROVE PacketInv'
<1>1. PICK s \in Kinds, k \in 1..8 : At(s, k) /\ Taken(s, k)
  BY DEF PacketInv
<1>2. task # <<>> /\ Op[1] = "begin" /\ task' = Tail(task)
  BY DEF BeginReceive
<1>3. s # "idle"
  BY <1>1, <1>2, TaskIdle
<1>4. OpTable(s, k)
  BY <1>1, <1>3, TaskOps
<1>5. s = "rx" /\ k = 1 /\ Op[2] = "all"
  BY <1>2, <1>3, <1>4, Zenon DEF OpTable, Kinds
<1>6. /\ RXBuff' = 0 /\ RxLen' = 0 /\ ubRssi' = 0
      /\ chip' = [chip EXCEPT !.done = FALSE]
      /\ UNCHANGED <<packets, handed, air>>
  BY <1>5 DEF BeginReceive
<1>7. DOMAIN chip' = ChipFields /\ chip'.fifo = chip.fifo
  BY <1>6 DEF PacketInv, ChipFields
<1>8. InOrder(chip.fifo, packets, 0, handed)
  BY FifoKept DEF PacketInv
<1>9. InOrder(chip.fifo, packets, RXBuff, handed)'
  BY <1>6, <1>7, <1>8
<1>10. k < Len(Code(s))
  <2>1. Len(Code(s)) = 8
    BY <1>4, <1>5, Zenon DEF OpTable
  <2>2. k = 1
    BY <1>5
  <2> QED
    BY <2>1, <2>2
<1>11. At("rx", 2)'
  <2>1. At(s, k + 1)'
    BY <1>1, <1>2, <1>3, <1>10, TaskOn
  <2> QED
    BY <1>5, <2>1
<1>12. Taken("rx", 2)'
  BY <1>6 DEF Taken
<1>13. \E t \in Kinds, l \in 1..8 : At(t, l)' /\ Taken(t, l)'
  BY <1>11, <1>12, "rx" \in Kinds, 2 \in 1..8, Zenon DEF Kinds
<1>14. air' \in Nat /\ ubRssi' \in {0} \cup burst'
  BY <1>6 DEF PacketInv
<1> QED
  BY <1>7, <1>9, <1>13, <1>14, Zenon DEF PacketInv

(* It takes a chunk: a packet it finds is new to the decoder. *)
LEMMA DrainPackets == ASSUME PacketInv, Drain PROVE PacketInv'
<1> DEFINE x == Head(chip.fifo)
<1>0. /\ DOMAIN chip = ChipFields /\ air \in Nat /\ handed \in Nat /\ RXBuff \in Nat
      /\ InOrder(chip.fifo, packets, RXBuff, handed)
  BY DEF PacketInv, InOrder
<1>1. /\ task # <<>> /\ Op[1] = "drain" /\ chip.fifo # <<>>
      /\ RXBuff' = IF x[1] = "data" THEN x[2] ELSE RXBuff
      /\ RxLen' = IF x[1] = "data" THEN 1 ELSE RxLen
      /\ ubRssi' = IF x[1] = "rssi" THEN x[2] ELSE ubRssi
      /\ burst' = burst \cup {x[2]}
      /\ UNCHANGED <<task, packets, air, handed>>
  BY DEF Drain
<1>2. chip' = [chip EXCEPT !.fifo = Tail(@),
                           !.mask0 = IF x[1] = "data" /\ @ = "fifo" THEN "none" ELSE @]
  BY DEF Drain
<1>3. DOMAIN chip' = ChipFields /\ chip'.fifo = Tail(chip.fifo)
  BY <1>0, <1>2 DEF ChipFields
<1>4. /\ x[2] \in Nat
      /\ x[1] = "data" => x[2] > handed /\ InOrder(Tail(chip.fifo), packets, x[2], handed)
      /\ InOrder(Tail(chip.fifo), packets, RXBuff, handed)
  BY <1>0, <1>1, FifoTaken
<1> HIDE DEF x
<1>5. InOrder(Tail(chip.fifo), packets, RXBuff', handed)
  BY <1>1, <1>4
<1>6. InOrder(chip.fifo, packets, RXBuff, handed)'
  BY <1>1, <1>3, <1>5
<1>7. ubRssi' \in {0} \cup burst' /\ air' \in Nat
  BY <1>0, <1>1 DEF PacketInv
<1>8. PICK s \in Kinds, k \in 1..8 : At(s, k) /\ Taken(s, k)
  BY DEF PacketInv
<1>9. At(s, k)'
  BY <1>1, <1>8 DEF At
<1>10. s = "rx" => k = 2
  <2>1. s # "idle"
    BY <1>1, <1>8, TaskIdle
  <2>2. OpTable(s, k)
    BY <1>8, <2>1, TaskOps
  <2> QED
    BY <1>1, <2>2, Zenon DEF OpTable
<1>11. Taken(s, k)'
  BY <1>0, <1>1, <1>4, <1>8, <1>10 DEF Taken
<1> QED
  BY <1>3, <1>6, <1>7, <1>8, <1>9, <1>11, Zenon DEF PacketInv

(* At "hand" the task is at the end of rx. *)
LEMMA HandPlace ==
    ASSUME PacketInv, task # <<>>, Op[1] = "hand"
    PROVE  /\ RxLen # 0 => RXBuff > handed
           /\ task' = Tail(task) => At("idle", 1)'
<1>1. PICK s \in Kinds, k \in 1..8 : At(s, k) /\ Taken(s, k)
  BY DEF PacketInv
<1>2. s # "idle"
  BY <1>1, TaskIdle
<1>3. OpTable(s, k)
  BY <1>1, <1>2, TaskOps
<1>4. s = "rx" /\ k = 8
  BY <1>2, <1>3, Zenon DEF OpTable, Kinds
<1>5. k >= Len(Code(s))
  <2>1. Len(Code(s)) = 8
    BY <1>3, <1>4, Zenon DEF OpTable
  <2>2. k = 8
    BY <1>4
  <2> QED
    BY <2>1, <2>2
<1> QED
  BY <1>1, <1>2, <1>4, <1>5, TaskOn DEF Taken

(* rf4068_rx_callback gets the packet. *)
LEMMA HandPackets == ASSUME PacketInv, Hand PROVE PacketInv'
<1>1. /\ task # <<>> /\ Op[1] = "hand" /\ task' = Tail(task)
      /\ handed' = IF RxLen # 0 THEN RXBuff ELSE handed
      /\ UNCHANGED <<chip, packets, RXBuff, RxLen, ubRssi, burst, air>>
  BY DEF Hand, rxVars
<1>2. At("idle", 1)'
  BY <1>1, HandPlace
<1>3. Taken("idle", 1)'
  BY DEF Taken
<1>4. InOrder(chip.fifo, packets, RXBuff, handed')
  BY <1>1, FifoKept DEF PacketInv
<1>5. InOrder(chip.fifo, packets, RXBuff, handed)'
  BY <1>1, <1>4
<1>6. DOMAIN chip' = ChipFields /\ air' \in Nat /\ ubRssi' \in {0} \cup burst'
  BY <1>1 DEF PacketInv
<1>7. "idle" \in Kinds /\ 1 \in 1..8
  BY DEF Kinds
<1> QED
  BY <1>2, <1>3, <1>5, <1>6, <1>7, Zenon DEF PacketInv

(* The radio is restarted after a transmission, or the task waits again. *)
LEMMA SentPlace ==
    ASSUME Sent
    PROVE  \/ chip.sending /\ At("idle", 1)'
           \/ ~chip.sending /\ At("restart", 1)'
<1>0. task' = IF chip.sending THEN <<>> ELSE rf_restart
  BY DEF Sent
<1>1. {"idle", "restart"} \subseteq Kinds /\ 1 \in 1..8
  BY DEF Kinds
<1>2. CASE chip.sending
  <2>1. task' = <<>>
    BY <1>0, <1>2
  <2>2. Code("idle") = <<>>
    BY <1>1, CodeIsSeq
  <2>3. SubSeq(<<>>, 1, 0) = <<>> /\ Len(<<>>) = 0
    OBVIOUS
  <2>4. At("idle", 1)'
    BY <1>1, <2>1, <2>2, <2>3, Zenon DEF At
  <2> QED
    BY <1>2, <2>4
<1>3. CASE ~chip.sending
  <2>1. task' = rf_restart
    BY <1>0, <1>3
  <2>2. Code("restart") = rf_restart
    BY Zenon DEF Code
  <2>3. Code("restart") \in Seq(Ops) /\ Len(Code("restart")) = 7
    BY RestartCode, Zenon
  <2>4. task' = SubSeq(Code("restart"), 1, Len(Code("restart")))
    <3> DEFINE c == Code("restart")
    <3>1. c \in Seq(Ops)
      BY <2>3
    <3> HIDE DEF c
    <3>2. SubSeq(c, 1, Len(c)) = c
      BY <3>1
    <3> QED
      BY <2>1, <2>2, <3>2 DEF c
  <2>5. 1 <= Len(Code("restart")) /\ "restart" # "idle"
    BY <2>3
  <2>6. At("restart", 1)'
    BY <1>1, <2>4, <2>5, Zenon DEF At
  <2> QED
    BY <1>3, <2>6
<1> QED
  BY <1>2, <1>3

(* Neither touches a packet. *)
LEMMA SentPackets == ASSUME PacketInv, Sent PROVE PacketInv'
<1>1. UNCHANGED <<chip, packets, RXBuff, RxLen, ubRssi, handed, burst, air>>
  BY DEF Sent, rxVars, history
<1>2. \E t \in Kinds, l \in 1..8 : At(t, l)' /\ Taken(t, l)'
  <2>1. At("idle", 1)' \/ At("restart", 1)'
    BY SentPlace
  <2>2. Taken("idle", 1)' /\ Taken("restart", 1)'
    BY DEF Taken
  <2>3. {"idle", "restart"} \subseteq Kinds /\ 1 \in 1..8
    BY DEF Kinds
  <2> QED
    BY <2>1, <2>2, <2>3, Zenon
<1>3. DOMAIN chip' = ChipFields
  BY <1>1 DEF PacketInv
<1> QED
  BY <1>1, <1>2, <1>3, PacketsStay

(* main and the shell set up the radio. *)
LEMMA SetupPackets == ASSUME PacketInv, Setup \/ sendlow PROVE PacketInv'
<1>0. DOMAIN chip = ChipFields
  BY DEF PacketInv
<1>1. PICK s \in Kinds, k \in 1..8 : At(s, k) /\ Taken(s, k)
  BY DEF PacketInv
<1>2. UNCHANGED <<task, packets, RXBuff, RxLen, ubRssi, handed, burst, air>>
  BY DEF Setup, SetupWrite, SetupStep, sendlow, rxVars, history
<1>3. \E t \in Kinds, l \in 1..8 : At(t, l)' /\ Taken(t, l)'
  BY <1>1, <1>2, TakenStays
<1>4. DOMAIN chip' = ChipFields /\ (chip'.fifo = chip.fifo \/ chip'.fifo = <<>>)
  <2>1. CASE SetupWrite
    BY <1>0, <2>1, WriteFifo DEF SetupWrite
  <2>2. CASE SetupStep \/ sendlow
    BY <1>0, <2>2 DEF SetupStep, sendlow
  <2> QED
    BY <2>1, <2>2 DEF Setup
<1> QED
  BY <1>2, <1>3, <1>4, PacketsStay

(* The packets of the driver, for every number of tunings, packets and     *)
(* commands.                                                               *)
THEOREM PacketInvariance == Spec => []PacketInv
<1>1. PacketInv /\ [Next]_vars => PacketInv'
  <2> SUFFICES ASSUME PacketInv, [Next]_vars PROVE PacketInv'
    OBVIOUS
  <2>1. CASE Chip
    BY <2>1, ChunkPackets, ChipPackets DEF Chip
  <2>2. CASE rf_4068_task_callback
    BY <2>2, TakeSemPackets, TaskPackets, BeginPackets, DrainPackets, HandPackets,
       SentPackets DEF rf_4068_task_callback
  <2>3. CASE Setup \/ sendlow
    BY <2>3, SetupPackets
  <2>4. CASE UNCHANGED vars
    <3>1. UNCHANGED <<chip, task, packets, RXBuff, RxLen, ubRssi, handed, burst, air>>
      BY <2>4 DEF vars, rxVars, history
    <3>2. PICK s \in Kinds, k \in 1..8 : At(s, k) /\ Taken(s, k)
      BY DEF PacketInv
    <3>3. \E t \in Kinds, l \in 1..8 : At(t, l)' /\ Taken(t, l)'
      BY <3>1, <3>2, TakenStays
    <3>4. DOMAIN chip' = ChipFields
      BY <3>1 DEF PacketInv
    <3> QED
      BY <3>1, <3>3, <3>4, PacketsStay
  <2> QED
    BY <2>1, <2>2, <2>3, <2>4 DEF Next
<1> QED
  BY PacketInit, <1>1, PTL DEF Spec

(* A packet is given to the decoder at most once and in the order of       *)
(* arrival: ReceiveData forgets the last one before it drains the FIFO,    *)
(* and what it finds there is newer.                                       *)
THEOREM HandsOnce == Spec => HandedOnce
<1>1. ASSUME PacketInv
      PROVE  [task # <<>> /\ Op[1] = "hand" /\ RxLen # 0 => RXBuff > handed]_vars
  BY <1>1, HandPlace
<1> QED
  BY PacketInvariance, <1>1, PTL DEF HandedOnce

(* The signal strength given with a packet that came alone is its own or   *)
(* 0: ReceiveData has taken it out of the FIFO in the same interrupt.      *)
THEOREM StrengthOfPacket == Spec => RssiOfPacket
<1>1. ASSUME PacketInv
      PROVE  [task # <<>> /\ Op[1] = "hand" /\ burst = {RXBuff}
                => ubRssi \in {0, RXBuff}]_vars
  BY <1>1 DEF PacketInv
<1> QED
  BY PacketInvariance, <1>1, PTL DEF RssiOfPacket

-----------------------------------------------------------------------------
(* The plan of the set-up *)

(* simple_autorange_pll is a sequence of operations, however often it tunes. *)
LEMMA AutorangeIsSeq == simple_autorange_pll \in Seq(Ops)
<1>1. TryTuning \in Seq(Ops) /\ Len(TryTuning) = 5
  BY OpsAre, OpSeqs, Zenon DEF TryTuning, Commands, Arguments
<1>2. Times(Tunings) \in Seq(Ops)
  <2> DEFINE t == TryTuning
             n == Tunings * 5
  <2>1. n \in Nat
    BY DriverAssumption
  <2>2. Times(Tunings) = [m \in 1..n |-> t[1 + ((m - 1) % 5)]]
    BY <1>1, Zenon DEF Times
  <2>3. t \in Seq(Ops) /\ Len(t) = 5
    BY <1>1
  <2> HIDE DEF t, n
  <2>4. ASSUME NEW m \in 1..n PROVE t[1 + ((m - 1) % 5)] \in Ops
    <3>1. 1 + ((m - 1) % 5) \in 1..5
      BY <2>1
    <3>4. t \in Seq(Ops)
      BY <2>3
    <3>2. \A q \in 1..Len(t) : t[q] \in Ops
      BY <3>4
    <3>3. \A q \in 1..5 : t[q] \in Ops
      BY <2>3, <3>2, Zenon
    <3> QED
      BY <3>1, <3>3, Zenon
  <2>5. [m \in 1..n |-> t[1 + ((m - 1) % 5)]] \in [1..n -> Ops]
    BY <2>4, Zenon
  <2> QED
    BY <2>1, <2>2, <2>5
<1>3. Tail(TryTuning) \in Seq(Ops)
  <2> DEFINE t == TryTuning
  <2>1. t \in Seq(Ops) /\ t # <<>>
    BY <1>1
  <2> HIDE DEF t
  <2>2. Tail(t) \in Seq(Ops)
    BY <2>1
  <2> QED
    BY <2>2 DEF t
<1>4. /\ << <<"pwr", "xtal">> >> \in Seq(Ops) /\ << <<"pwr", "synth">> >> \in Seq(Ops)
      /\ PLLRang_wait_for_xtal \in Seq(Ops)
  BY OpsAre, OpSeqs, Zenon DEF PLLRang_wait_for_xtal, Commands, Arguments
<1> DEFINE a == << <<"pwr", "xtal">> >>
           b == << <<"pwr", "synth">> >>
<1>5. simple_autorange_pll =
         (((a \o PLLRang_wait_for_xtal) \o Times(Tunings)) \o Tail(TryTuning)) \o b
  BY Zenon DEF simple_autorange_pll
<1>6. a \in Seq(Ops) /\ b \in Seq(Ops)
  BY <1>4
<1> HIDE DEF a, b
<1>7. (a \o PLLRang_wait_for_xtal) \in Seq(Ops)
  BY <1>4, <1>6, Joined, Zenon
<1>8. (a \o PLLRang_wait_for_xtal) \o Times(Tunings) \in Seq(Ops)
  BY <1>2, <1>7, Joined, Zenon
<1>9. ((a \o PLLRang_wait_for_xtal) \o Times(Tunings)) \o Tail(TryTuning) \in Seq(Ops)
  BY <1>3, <1>8, Joined, Zenon
<1> QED
  BY <1>5, <1>6, <1>9, Joined, Zenon

(* The operations of the last set-up and of Normal_send, by place. *)
PlanTable(j, op) ==
    /\ (j = 1 => op = <<"mask0", "none">>) /\ (j = 2 => op = <<"mask1", "none">>)
    /\ (j = 3 => op = <<"pwr", "xtal">>) /\ (j = 4 => op = <<"state", "off">>)
    /\ (j = 5 => op = <<"pwr", "down">>) /\ (j = 6 => op = <<"reset", "">>)
    /\ (j = 7 => op = <<"pwr", "xtal">>) /\ (j = 8 => op = <<"state", "wait_xtal">>)
    /\ (j = 9 => op = <<"mask1", "xtal">>) /\ (j = 10 => op = <<"pwr", "xtal">>)
    /\ (j = 11 => op = <<"while", "wait_xtal">>) /\ (j = 12 => op = <<"state", "pll_ranging">>)
    /\ (j = 13 => op = <<"mask1", "range">>) /\ (j = 14 => op = <<"range", "">>)
    /\ (j = 15 => op = <<"while", "pll_ranging">>) /\ (j = 16 => op = <<"state", "off">>)
    /\ (j = 17 => op = <<"mask1", "none">>) /\ (j = 18 => op = <<"pwr", "down">>)
    /\ (j = 19 => op = <<"state", "rx">>) /\ (j = 20 => op = <<"clear", "">>)
    /\ (j = 21 => op = <<"pwr", "rx">>) /\ (j = 22 => op = <<"state", "rx">>)
    /\ (j = 23 => op = <<"mask0", "fifo">>) /\ (j = 24 => op = <<"mask1", "none">>)
    /\ (j = 25 => op = <<"pwr", "xtal">>) /\ (j = 26 => op = <<"pwr", "fifo">>)
    /\ (j = 27 => op = <<"state", "tx_xtalwait">>) /\ (j = 28 => op = <<"mask0", "none">>)
    /\ (j = 29 => op = <<"mask1", "xtal">>)

(* Before the last set-up the plan is any sequence, after it is this one. *)
LEMMA PlanCode ==
    /\ Plan \in Seq(Ops) /\ Before \in Nat /\ Len(Plan) = Before + 29
    /\ rf_4068_Init \in Seq(Ops) /\ Len(rf_4068_Init) = Before + 24
    /\ \A k \in 1..(Before + 24) : Plan[k] = rf_4068_Init[k]
    /\ \A j \in 1..29 : PlanTable(j, Plan[Before + j])
<1> DEFINE a == rf_startup \o simple_autorange_pll
           b == rf_startup
           c == Ax5043ReceiverON
           d == Normal_send
           ab == a \o b
           abc == ab \o c
           abcd == abc \o d
<1>1. rf_4068_Init = abc /\ Plan = abcd /\ Before = Len(a)
  BY Zenon DEF rf_4068_Init, Plan, Before
<1>2. a \in Seq(Ops) /\ b \in Seq(Ops) /\ Len(b) = 19
  BY StartupCode, AutorangeIsSeq, Joined, Zenon
<1>3. c \in Seq(Ops) /\ Len(c) = 5 /\ d \in Seq(Ops) /\ Len(d) = 5
  BY OpsAre, OpSeqs, Zenon DEF Ax5043ReceiverON, Normal_send, Commands, Arguments
<1>4. /\ c[1] = <<"clear", "">> /\ c[2] = <<"pwr", "rx">> /\ c[3] = <<"state", "rx">>
      /\ c[4] = <<"mask0", "fifo">> /\ c[5] = <<"mask1", "none">>
      /\ d[1] = <<"pwr", "xtal">> /\ d[2] = <<"pwr", "fifo">>
      /\ d[3] = <<"state", "tx_xtalwait">>
      /\ d[4] = <<"mask0", "none">> /\ d[5] = <<"mask1", "xtal">>
  BY DEF Ax5043ReceiverON, Normal_send
<1>5. /\ b[1] = <<"mask0", "none">> /\ b[2] = <<"mask1", "none">> /\ b[3] = <<"pwr", "xtal">>
      /\ b[4] = <<"state", "off">> /\ b[5] = <<"pwr", "down">> /\ b[6] = <<"reset", "">>
      /\ b[7] = <<"pwr", "xtal">> /\ b[8] = <<"state", "wait_xtal">>
      /\ b[9] = <<"mask1", "xtal">>
      /\ b[10] = <<"pwr", "xtal">> /\ b[11] = <<"while", "wait_xtal">>
      /\ b[12] = <<"state", "pll_ranging">>
      /\ b[13] = <<"mask1", "range">> /\ b[14] = <<"range", "">>
      /\ b[15] = <<"while", "pll_ranging">>
      /\ b[16] = <<"state", "off">> /\ b[17] = <<"mask1", "none">> /\ b[18] = <<"pwr", "down">>
      /\ b[19] = <<"state", "rx">>
  BY StartupCode, Zenon
<1>6. Len(a) \in Nat
  <2> HIDE DEF a
  <2> QED
    BY <1>2
<1> HIDE DEF a, b, c, d
<1>7. ab \in Seq(Ops) /\ Parts(ab, a, b)
  BY <1>2, Joined, Zenon
<1> HIDE DEF ab
<1>8. abc \in Seq(Ops) /\ Parts(abc, ab, c)
  BY <1>3, <1>7, Joined, Zenon
<1> HIDE DEF abc
<1>9. abcd \in Seq(Ops) /\ Parts(abcd, abc, d)
  BY <1>3, <1>8, Joined, Zenon
<1> HIDE DEF abcd
<1> DEFINE N == Len(a)
<1>10. N \in Nat /\ N = Len(a) /\ Len(b) = 19 /\ Len(c) = 5 /\ Len(d) = 5
  BY <1>2, <1>3, <1>6
<1> HIDE DEF N
<1>11. Len(ab) = N + 19
  BY <1>7, <1>10 DEF Parts
<1>12. Len(abc) = N + 24
  BY <1>8, <1>10, <1>11 DEF Parts
<1>13. Len(abcd) = N + 29
  BY <1>9, <1>10, <1>12 DEF Parts
<1>14. \A k \in 1..(N + 24) : abcd[k] = abc[k]
  BY <1>9, <1>12 DEF Parts
<1>15. \A j \in 25..29 : abcd[N + j] = d[j - 24]
  <2>1. \A k \in (Len(abc) + 1)..(Len(abc) + Len(d)) : abcd[k] = d[k - Len(abc)]
    BY <1>9 DEF Parts
  <2>2. \A k \in (N + 25)..(N + 29) : abcd[k] = d[k - (N + 24)]
    BY <1>10, <1>12, <2>1
  <2>3. ASSUME NEW j \in 25..29 PROVE abcd[N + j] = d[j - 24]
    <3>1. N + j \in (N + 25)..(N + 29) /\ (N + j) - (N + 24) = j - 24
      BY <1>10
    <3> QED
      BY <2>2, <3>1
  <2> QED
    BY <2>3
<1>16. \A j \in 20..24 : abc[N + j] = c[j - 19]
  <2>1. \A k \in (Len(ab) + 1)..(Len(ab) + Len(c)) : abc[k] = c[k - Len(ab)]
    BY <1>8 DEF Parts
  <2>2. \A k \in (N + 20)..(N + 24) : abc[k] = c[k - (N + 19)]
    BY <1>10, <1>11, <2>1
  <2>3. ASSUME NEW j \in 20..24 PROVE abc[N + j] = c[j - 19]
    <3>1. N + j \in (N + 20)..(N + 24) /\ (N + j) - (N + 19) = j - 19
      BY <1>10
    <3> QED
      BY <2>2, <3>1
  <2> QED
    BY <2>3
<1>17. \A j \in 1..19 : abc[N + j] = b[j]
  <2>1. \A k \in (Len(a) + 1)..(Len(a) + Len(b)) : ab[k] = b[k - Len(a)]
    BY <1>7 DEF Parts
  <2>2. \A k \in (N + 1)..(N + 19) : ab[k] = b[k - N]
    BY <1>10, <2>1
  <2>3. \A k \in 1..(N + 19) : abc[k] = ab[k]
    BY <1>8, <1>11 DEF Parts
  <2>4. ASSUME NEW j \in 1..19 PROVE abc[N + j] = b[j]
    <3>1. N + j \in (N + 1)..(N + 19) /\ N + j \in 1..(N + 19) /\ (N + j) - N = j
      BY <1>10
    <3> QED
      BY <2>2, <2>3, <3>1
  <2> QED
    BY <2>4
<1>18. \A j \in 1..24 : abcd[N + j] = abc[N + j]
  BY <1>10, <1>14
<1>19. ASSUME NEW j \in 1..29 PROVE PlanTable(j, abcd[N + j])
  <2>1. CASE j \in 1..19
    <3>1. abcd[N + j] = b[j]
      BY <1>17, <1>18, <2>1
    <3>2. PlanTable(j, b[j])
      <4>1. j # 20 /\ j # 21 /\ j # 22 /\ j # 23 /\ j # 24 /\ j # 25 /\ j # 26 /\ j # 27
            /\ j # 28 /\ j # 29
        BY <2>1
      <4> QED
        BY <1>5, <4>1, Zenon DEF PlanTable
    <3> QED
      BY <3>1, <3>2
  <2>2. CASE j \in 20..24
    <3>1. abcd[N + j] = c[j - 19]
      BY <1>16, <1>18, <2>2
    <3>2. PlanTable(j, c[j - 19])
      <4>1. (j = 20 => c[j - 19] = c[1]) /\ (j = 21 => c[j - 19] = c[2])
            /\ (j = 22 => c[j - 19] = c[3]) /\ (j = 23 => c[j - 19] = c[4])
            /\ (j = 24 => c[j - 19] = c[5])
        OBVIOUS
      <4>2. j # 1 /\ j # 2 /\ j # 3 /\ j # 4 /\ j # 5 /\ j # 6 /\ j # 7 /\ j # 8
            /\ j # 9 /\ j # 10 /\ j # 11 /\ j # 12 /\ j # 13 /\ j # 14 /\ j # 15
            /\ j # 16 /\ j # 17 /\ j # 18 /\ j # 19 /\ j # 25 /\ j # 26 /\ j # 27
            /\ j # 28 /\ j # 29
        BY <2>2
      <4> QED
        BY <1>4, <4>1, <4>2, Zenon DEF PlanTable
    <3> QED
      BY <3>1, <3>2
  <2>3. CASE j \in 25..29
    <3>1. abcd[N + j] = d[j - 24]
      BY <1>15, <2>3
    <3>2. PlanTable(j, d[j - 24])
      <4>1. (j = 25 => d[j - 24] = d[1]) /\ (j = 26 => d[j - 24] = d[2])
            /\ (j = 27 => d[j - 24] = d[3]) /\ (j = 28 => d[j - 24] = d[4])
            /\ (j = 29 => d[j - 24] = d[5])
        OBVIOUS
      <4>2. j # 1 /\ j # 2 /\ j # 3 /\ j # 4 /\ j # 5 /\ j # 6 /\ j # 7 /\ j # 8
            /\ j # 9 /\ j # 10 /\ j # 11 /\ j # 12 /\ j # 13 /\ j # 14 /\ j # 15
            /\ j # 16 /\ j # 17 /\ j # 18 /\ j # 19 /\ j # 20 /\ j # 21 /\ j # 22
            /\ j # 23 /\ j # 24
        BY <2>3
      <4> QED
        BY <1>4, <4>1, <4>2, Zenon DEF PlanTable
    <3> QED
      BY <3>1, <3>2
  <2> QED
    BY <2>1, <2>2, <2>3
<1>20. Before = N
  BY <1>1 DEF N
<1>21. Len(rf_4068_Init) = N + 24 /\ Len(Plan) = N + 29
  BY <1>1, <1>12, <1>13, Zenon
<1> QED
  BY <1>1, <1>8, <1>9, <1>10, <1>14, <1>19, <1>20, <1>21, Zenon

-----------------------------------------------------------------------------
(* Steps of the chip *)

(* The semaphore counts the rising edges. *)
Edge == /\ ~Level(chip) /\ Level(chip') => IRQ2_Sem' = IRQ2_Sem + 1
        /\ Level(chip) \/ ~Level(chip') => IRQ2_Sem' = IRQ2_Sem

(* IRQ2_ISR, in these words. *)
LEMMA SemEdge ==
    ASSUME IRQ2_Sem' = SemAfter(IRQ2_Sem), IRQ2_Sem \in Nat
    PROVE  Edge /\ IRQ2_Sem' \in Nat
<1>1. Edge
  BY DEF SemAfter, Edge
<1>2. IRQ2_Sem' = IRQ2_Sem + 1 \/ IRQ2_Sem' = IRQ2_Sem
  BY DEF SemAfter
<1> QED
  BY <1>1, <1>2

(* The crystal starts: what holds at the stage still holds, IRQ2_Sem being  *)
(* released when the line rises.                                            *)
LEMMA XtalStages ==
    ASSUME NEW s \in Kinds, NEW k \in 1..8, NEW j \in Int, Stage(j, s, k),
           IRQ2_Sem \in Nat, DOMAIN chip = ChipFields, XtalReady
    PROVE  DOMAIN chip' = ChipFields /\ IRQ2_Sem' \in Nat /\ Stage(j, s, k)'
<1>1. /\ chip' = [chip EXCEPT !.xtal = TRUE] /\ ~chip.xtal
      /\ IRQ2_Sem' = SemAfter(IRQ2_Sem)
      /\ ubRFState' = ubRFState /\ crossed' = crossed
  BY DEF XtalReady, ChipVars, history
<1>2. /\ DOMAIN chip' = ChipFields /\ chip'.xtal
      /\ chip'.pwr = chip.pwr /\ chip'.mask0 = chip.mask0 /\ chip'.mask1 = chip.mask1
      /\ chip'.range = chip.range /\ chip'.fifo = chip.fifo /\ chip'.done = chip.done
      /\ chip'.sending = chip.sending
  BY <1>1 DEF ChipFields
<1>3. Edge /\ IRQ2_Sem' \in Nat
  BY <1>1, SemEdge
<1>4. ~chip.xtal
  BY <1>1
<1>5. ubRFState' = ubRFState /\ crossed' = crossed
  BY <1>1
<1>8. Stage(j, s, k)'
  BY <1>2, <1>3, <1>4, <1>5 DEF Stage, OffStage, Quiet, NoMask, XtalStage, RangeStage, OnStage,
     Listening, SendStage, SentStage, WaitsXtal, Fills, Transmits, Restarts,
     Edge, Level
<1> QED
  BY <1>2, <1>3, <1>8

(* So it does when a ranging ends, ... *)
LEMMA RangingStages ==
    ASSUME NEW s \in Kinds, NEW k \in 1..8, NEW j \in Int, Stage(j, s, k),
           IRQ2_Sem \in Nat, DOMAIN chip = ChipFields, RangingDone
    PROVE  DOMAIN chip' = ChipFields /\ IRQ2_Sem' \in Nat /\ Stage(j, s, k)'
<1>1. /\ chip' = [chip EXCEPT !.range = "done"] /\ chip.range = "busy"
      /\ IRQ2_Sem' = SemAfter(IRQ2_Sem)
      /\ ubRFState' = ubRFState /\ crossed' = crossed
  BY DEF RangingDone, ChipVars, history
<1>2. /\ DOMAIN chip' = ChipFields /\ chip'.range = "done"
      /\ chip'.pwr = chip.pwr /\ chip'.mask0 = chip.mask0 /\ chip'.mask1 = chip.mask1
      /\ chip'.xtal = chip.xtal /\ chip'.fifo = chip.fifo /\ chip'.done = chip.done
      /\ chip'.sending = chip.sending
  BY <1>1 DEF ChipFields
<1>3. Edge /\ IRQ2_Sem' \in Nat
  BY <1>1, SemEdge
<1>4. chip.range = "busy"
  BY <1>1
<1>5. ubRFState' = ubRFState /\ crossed' = crossed
  BY <1>1
<1>8. Stage(j, s, k)'
  <2>1. ASSUME j = 15 PROVE RangeStage(s, k)'
    <3>1. RangeStage(s, k)
      BY <2>1 DEF Stage
    <3> QED
      BY <1>2, <1>3, <1>4, <1>5, <3>1 DEF RangeStage, Quiet, Edge, Level
  <2>2. ASSUME j # 15 PROVE Stage(j, s, k)'
    BY <1>2, <1>3, <1>4, <1>5, <2>2 DEF Stage, OffStage, Quiet, NoMask, XtalStage,
       RangeStage, OnStage,
       Listening, SendStage, SentStage, WaitsXtal, Fills, Transmits, Restarts,
       Edge, Level
  <2>3. ASSUME j = 15 PROVE Stage(j, s, k)'
    BY <2>1, <2>3 DEF Stage
  <2> QED
    BY <2>2, <2>3
<1> QED
  BY <1>2, <1>3, <1>8

(* ... when a transmission ends, ... *)
LEMMA SendDoneStages ==
    ASSUME NEW s \in Kinds, NEW k \in 1..8, NEW j \in Int, Stage(j, s, k),
           IRQ2_Sem \in Nat, DOMAIN chip = ChipFields, SendDone
    PROVE  DOMAIN chip' = ChipFields /\ IRQ2_Sem' \in Nat /\ Stage(j, s, k)'
<1>1. /\ chip' = [chip EXCEPT !.sending = FALSE, !.done = TRUE] /\ chip.sending
      /\ IRQ2_Sem' = SemAfter(IRQ2_Sem)
      /\ ubRFState' = ubRFState /\ crossed' = crossed
  BY DEF SendDone, ChipVars, history
<1>2. /\ DOMAIN chip' = ChipFields /\ ~chip'.sending /\ chip'.done
      /\ chip'.pwr = chip.pwr /\ chip'.mask0 = chip.mask0 /\ chip'.mask1 = chip.mask1
      /\ chip'.xtal = chip.xtal /\ chip'.range = chip.range /\ chip'.fifo = chip.fifo
  BY <1>1 DEF ChipFields
<1>3. Edge /\ IRQ2_Sem' \in Nat
  BY <1>1, SemEdge
<1>4. chip.sending
  BY <1>1
<1>5. ubRFState' = ubRFState /\ crossed' = crossed
  BY <1>1
<1>8. Stage(j, s, k)'
  BY <1>2, <1>3, <1>4, <1>5 DEF Stage, OffStage, Quiet, NoMask, XtalStage, RangeStage, OnStage,
     Listening, SendStage, SentStage, WaitsXtal, Fills, Transmits, Restarts,
     Edge, Level
<1> QED
  BY <1>2, <1>3, <1>8

(* ... and when a chunk comes in. *)
LEMMA ChunkStages ==
    ASSUME NEW s \in Kinds, NEW k \in 1..8, NEW j \in Int, Stage(j, s, k),
           IRQ2_Sem \in Nat, DOMAIN chip = ChipFields, PacketInv,
           \E c \in {"data", "other", "rssi"} : Chunk(c)
    PROVE  DOMAIN chip' = ChipFields /\ IRQ2_Sem' \in Nat /\ Stage(j, s, k)'
<1>0. PICK c \in {"data", "other", "rssi"} : Chunk(c)
  OBVIOUS
<1> DEFINE x == <<c, IF c = "rssi" THEN air ELSE packets'>>
<1>1. /\ chip' = [chip EXCEPT !.fifo = Append(@, x)] /\ chip.pwr = "rx"
      /\ IRQ2_Sem' = SemAfter(IRQ2_Sem)
      /\ ubRFState' = ubRFState /\ crossed' = crossed
  BY <1>0 DEF Chunk, ChipVars, history
<1>6. chip.fifo \in Seq(Chunks)
  BY DEF PacketInv, InOrder
<1> HIDE DEF x
<1>7. Append(chip.fifo, x) # <<>>
  BY <1>6
<1>2. /\ DOMAIN chip' = ChipFields /\ chip'.fifo # <<>>
      /\ chip'.pwr = chip.pwr /\ chip'.mask0 = chip.mask0 /\ chip'.mask1 = chip.mask1
      /\ chip'.xtal = chip.xtal /\ chip'.range = chip.range /\ chip'.done = chip.done
      /\ chip'.sending = chip.sending
  BY <1>1, <1>7 DEF ChipFields
<1>3. Edge /\ IRQ2_Sem' \in Nat
  BY <1>1, SemEdge
<1>4. chip.pwr = "rx"
  BY <1>1
<1>5. ubRFState' = ubRFState /\ crossed' = crossed
  BY <1>1
<1>8. Stage(j, s, k)'
  BY <1>2, <1>3, <1>4, <1>5 DEF Stage, OffStage, Quiet, NoMask, XtalStage, RangeStage, OnStage,
     Listening, SendStage, SentStage, WaitsXtal, Fills, Transmits, Restarts,
     Edge, Level
<1> QED
  BY <1>2, <1>3, <1>8

-----------------------------------------------------------------------------
(* Where the set-up is *)

(* Its rest is as long as the plan after its place. *)
LEMMA SetupRest ==
    ASSUME NEW j \in Int, SetupAt(j), sends \in Nat
    PROVE  /\ j <= End + 1 /\ End \in {24, 29} /\ (j >= 26 => sends # 0 /\ End = 29)
           /\ setup = <<>> <=> j = End + 1
           /\ j <= End => Len(setup) = End + 1 - j
           /\ j \in 26..29 => setup # <<>> /\ Len(setup) = 30 - j
<1>1. /\ j \in (1 - Before)..(End + 1) /\ setup = SubSeq(Plan, Before + j, Before + End)
      /\ End \in {24, 29} /\ (j >= 26 => sends # 0 /\ End = 29)
  <2>1. j \in (1 - Before)..(End + 1) /\ setup = SubSeq(Plan, Before + j, Before + End)
    BY DEF SetupAt
  <2>2. End \in {24, 29} /\ (sends = 0 => End = 24) /\ (sends # 0 => End = 29)
    BY DEF End
  <2>3. Before \in Nat
    BY PlanCode
  <2>4. j <= End + 1
    BY <2>1, <2>2, <2>3
  <2> QED
    BY <2>1, <2>2, <2>4
<1>2. Plan \in Seq(Ops) /\ Before \in Nat /\ Len(Plan) = Before + 29
  BY PlanCode
<1> DEFINE e == Before + End
           p == Before + j
<1>3. e \in 0..Len(Plan) /\ e = Before + End /\ p = Before + j /\ p \in 1..(e + 1)
  BY <1>1, <1>2
<1>4. setup = SubSeq(Plan, p, e)
  BY <1>1
<1> HIDE DEF e, p
<1>5. CASE j <= End
  <2>1. p \in 1..e
    BY <1>1, <1>2, <1>3, <1>5
  <2>2. setup # <<>> /\ Len(setup) = e - p + 1
    BY <1>2, <1>3, <1>4, <2>1, RestOfCode
  <2>3. Len(setup) = End + 1 - j
    BY <1>1, <1>2, <1>3, <2>2
  <2>4. j <= End + 1 /\ j # End + 1 /\ (j \in 26..29 => End + 1 - j = 30 - j)
    BY <1>1, <1>5
  <2>5. j \in 26..29 => Len(setup) = 30 - j
    BY <2>3, <2>4
  <2> QED
    BY <1>1, <2>2, <2>3, <2>4, <2>5
<1>6. CASE j = End + 1
  <2>1. p = e + 1
    BY <1>1, <1>2, <1>3, <1>6
  <2>2. setup = <<>>
    BY <1>2, <1>3, <1>4, <2>1, EndOfCode
  <2>3. ~(j <= End) /\ j <= End + 1 /\ j \notin 26..29
    BY <1>1, <1>6
  <2> QED
    BY <1>1, <1>6, <2>2, <2>3
<1>7. j <= End \/ j = End + 1
  BY <1>1
<1> QED
  BY <1>5, <1>6, <1>7

(* Its next operation is that of its place; then it goes on. *)
LEMMA SetupOn ==
    ASSUME NEW j \in Int, SetupAt(j), sends \in Nat, setup # <<>>
    PROVE  /\ j <= End /\ (j >= 1 => PlanTable(j, SetupOp))
           /\ setup' = Tail(setup) /\ sends' = sends => SetupAt(j + 1)'
<1>1. /\ j \in (1 - Before)..(End + 1) /\ setup = SubSeq(Plan, Before + j, Before + End)
      /\ End \in {24, 29} /\ j <= End + 1 /\ j # End + 1
  BY SetupRest DEF SetupAt
<1>2. /\ Plan \in Seq(Ops) /\ Before \in Nat /\ Len(Plan) = Before + 29
      /\ \A q \in 1..29 : PlanTable(q, Plan[Before + q])
  BY PlanCode
<1> DEFINE e == Before + End
           p == Before + j
<1>8. Len(Plan) = Before + 29 /\ Before \in Nat
  BY <1>2
<1>3. e \in 0..Len(Plan) /\ e = Before + End /\ p = Before + j /\ p \in 1..e /\ j <= End
  BY <1>1, <1>8
<1>4. setup = SubSeq(Plan, p, e)
  BY <1>1
<1> HIDE DEF e, p
<1>5. SetupOp = Plan[p] /\ Tail(setup) = SubSeq(Plan, p + 1, e)
  BY <1>2, <1>3, <1>4, RestOfCode DEF SetupOp
<1>6. ASSUME j >= 1 PROVE PlanTable(j, SetupOp)
  <2>1. j \in 1..29
    BY <1>1, <1>3, <1>6
  <2>2. SetupOp = Plan[Before + j]
    BY <1>3, <1>5
  <2> QED
    BY <1>2, <2>1, <2>2
<1>7. ASSUME setup' = Tail(setup), sends' = sends PROVE SetupAt(j + 1)'
  <2>1. End' = End
    BY <1>7 DEF End
  <2>2. p + 1 = Before + (j + 1) /\ j + 1 \in (1 - Before)..(End + 1)
    BY <1>1, <1>2, <1>3
  <2>3. setup' = SubSeq(Plan, Before + (j + 1), Before + End)
    BY <1>3, <1>5, <1>7, <2>2
  <2> QED
    BY <2>1, <2>2, <2>3, Zenon DEF SetupAt
<1> QED
  BY <1>3, <1>6, <1>7

-----------------------------------------------------------------------------
(* Steps of the task *)

LastOf(s) == IF s = "rx" THEN 8 ELSE IF s \in {"tx_xtalwait", "restart"} THEN 7 ELSE 2

(* After an operation the task is at the next one, after the last one it    *)
(* waits.                                                                   *)
LEMMA TaskNext ==
    ASSUME NEW s, NEW k, At(s, k), s # "idle", task' = Tail(task)
    PROVE  /\ s \in Kinds /\ k \in 1..LastOf(s) /\ LastOf(s) \in 2..8
           /\ k # LastOf(s) => At(s, k + 1)'
           /\ k = LastOf(s) => At("idle", 1)'
<1>0. s \in Kinds /\ k \in 1..8 /\ k <= Len(Code(s))
  BY DEF At
<1>1. OpTable(s, k)
  BY TaskOps
<1>2. Len(Code(s)) = LastOf(s)
  <2>1. /\ s = "rx" => Len(Code(s)) = 8
        /\ s \in {"tx_xtalwait", "restart"} => Len(Code(s)) = 7
        /\ s \in {"wait_xtal", "pll_ranging", "tx_waitdone", "other"} => Len(Code(s)) = 2
    BY <1>1, Zenon DEF OpTable
  <2> QED
    BY <1>0, <2>1, Zenon DEF LastOf, Kinds
<1>3. LastOf(s) \in 2..8
  BY DEF LastOf
<1>4. k \in 1..LastOf(s) /\ (k # LastOf(s) => k < Len(Code(s)))
      /\ (k = LastOf(s) => k >= Len(Code(s)))
  BY <1>0, <1>2, <1>3
<1> QED
  BY <1>0, <1>3, <1>4, TaskOn

(* The task is woken, in the state the set-up has put the driver into. *)
LEMMA TakeSemStages ==
    ASSUME NEW j \in Int, Stage(j, "idle", 1), SetupAt(j), IRQ2_Sem \in Nat, sends \in Nat,
           TakeSem
    PROVE  \E t \in Kinds : At(t, 1)' /\ Stage(j, t, 1)' /\ IRQ2_Sem' \in Nat
<1>1. /\ IRQ2_Sem > 0 /\ IRQ2_Sem' = IRQ2_Sem - 1 /\ task' = Handler(ubRFState)
      /\ chip' = chip /\ ubRFState' = ubRFState
  BY DEF TakeSem
<1>2. crossed' = (crossed \/ (setup # <<>> /\ Len(setup) < Len(Normal_send) /\ sends > 0))
  BY DEF TakeSem
<1>3. ~crossed' => ~crossed
  BY <1>2, Zenon
<1>4. ASSUME j \in 26..29 PROVE crossed'
  <2>1. setup # <<>> /\ Len(setup) = 30 - j /\ sends # 0
    BY <1>4, SetupRest
  <2>2. Len(Normal_send) = 5
    BY OpsAre, OpSeqs, Zenon DEF Normal_send, Commands, Arguments
  <2>3. Len(setup) < Len(Normal_send) /\ sends > 0
    BY <1>4, <2>1, <2>2
  <2> QED
    BY <1>2, <2>1, <2>3, Zenon
<1>5. PICK t \in Kinds \ {"idle", "restart"} : t = KindOf(ubRFState) /\ At(t, 1)'
  BY <1>1, TaskWoken
<1>6. Stage(j, t, 1)'
  BY <1>1, <1>3, <1>4, <1>5 DEF KindOf, Stage, OffStage, Quiet, NoMask,
     XtalStage, RangeStage, OnStage, Listening, SendStage, SentStage, WaitsXtal, Fills,
     Transmits, Restarts
<1>7. IRQ2_Sem' \in Nat
  BY <1>1
<1> QED
  BY <1>5, <1>6, <1>7

(* A transfer of the task keeps the stage the set-up has come to. *)
LEMMA TaskWriteStages ==
    ASSUME NEW s \in Kinds, NEW k \in 1..8, NEW j \in Int, At(s, k), Stage(j, s, k),
           IRQ2_Sem \in Nat, DOMAIN chip = ChipFields, TaskWrite
    PROVE  /\ DOMAIN chip' = ChipFields /\ IRQ2_Sem' \in Nat
           /\ \E t \in Kinds, l \in 1..8 : At(t, l)' /\ Stage(j, t, l)'
<1>1. /\ task # <<>> /\ Op[1] \in Writes /\ chip' = Write(chip, Op) /\ task' = Tail(task)
      /\ IRQ2_Sem' = SemAfter(IRQ2_Sem) /\ ubRFState' = ubRFState /\ crossed' = crossed
  BY DEF TaskWrite, history
<1>2. s # "idle"
  BY <1>1, TaskIdle
<1>3. OpTable(s, k)
  BY <1>2, TaskOps
<1>4. Op[1] \in Writes
  BY <1>1
<1>5. Edge /\ IRQ2_Sem' \in Nat
  BY <1>1, SemEdge
<1>6. DOMAIN chip' = ChipFields
  BY <1>1, WriteFifo
<1>7. /\ k # LastOf(s) => At(s, k + 1)'
      /\ k = LastOf(s) => At("idle", 1)'
  BY <1>1, <1>2, TaskNext
<1>8. ubRFState' = ubRFState /\ crossed' = crossed
  BY <1>1
<1>9. \/ s = "rx" /\ k = 3 /\ Op[1] = "mask0" /\ Op[2] = "fifo"
      \/ s = "rx" /\ k = 4 /\ Op[1] = "clear"
      \/ s = "rx" /\ k = 5 /\ Op[1] = "pwr" /\ Op[2] = "rx"
      \/ s = "rx" /\ k = 7 /\ Op[1] = "mask1" /\ Op[2] = "none"
      \/ s = "tx_xtalwait" /\ k = 1 /\ Op[1] = "event"
      \/ s = "tx_xtalwait" /\ k = 2 /\ Op[1] = "clear"
      \/ s = "tx_xtalwait" /\ k = 3 /\ Op[1] = "mask1" /\ Op[2] = "none"
      \/ s = "tx_xtalwait" /\ k = 4 /\ Op[1] = "mask0" /\ Op[2] = "free"
      \/ s = "tx_xtalwait" /\ k = 6 /\ Op[1] = "mask0" /\ Op[2] = "radio"
      \/ s = "tx_xtalwait" /\ k = 7 /\ Op[1] = "pwr" /\ Op[2] = "tx"
      \/ s = "restart" /\ k = 1 /\ Op[1] = "mask0" /\ Op[2] = "none"
      \/ s = "restart" /\ k = 2 /\ Op[1] = "mask1" /\ Op[2] = "none"
      \/ s = "restart" /\ k = 3 /\ Op[1] = "pwr" /\ Op[2] = "xtal"
      \/ s = "restart" /\ k = 5 /\ Op[1] = "pwr" /\ Op[2] = "down"
      \/ s = "restart" /\ k = 6 /\ Op[1] = "reset"
      \/ s = "wait_xtal" /\ k = 1 /\ Op[1] = "mask1" /\ Op[2] = "none"
      \/ s = "pll_ranging" /\ k = 1 /\ Op[1] = "mask1" /\ Op[2] = "none"
      \/ s = "tx_waitdone" /\ k = 1 /\ Op[1] = "event"
      \/ s = "other" /\ k = 1 /\ Op[1] = "mask1" /\ Op[2] = "none"
      \/ s = "other" /\ k = 2 /\ Op[1] = "mask0" /\ Op[2] = "none"
  BY <1>2, <1>3, <1>4, Zenon DEF OpTable, Writes, Kinds
<1> SUFFICES \E t \in Kinds, l \in 1..8 : At(t, l)' /\ Stage(j, t, l)'
  BY <1>5, <1>6
<1>10. CASE s = "rx" /\ k = 3 /\ Op[1] = "mask0" /\ Op[2] = "fifo"
  <2>1. /\ chip'.mask0 = "fifo"
        /\ chip'.pwr = chip.pwr /\ chip'.mask1 = chip.mask1 /\ chip'.xtal = chip.xtal
        /\ chip'.range = chip.range /\ chip'.fifo = chip.fifo /\ chip'.done = chip.done
        /\ chip'.sending = chip.sending
    BY <1>1, <1>10, WriteMask0
  <2>2. s = "rx" /\ k = 3
    BY <1>10
  <2>3. Stage(j, "rx", 4)'
    BY <1>5, <1>8, <2>1, <2>2 DEF Edge, Level, Stage, OffStage, Quiet, NoMask,
       XtalStage, RangeStage, OnStage, Listening, SendStage, SentStage, WaitsXtal, Fills,
       Transmits, Restarts
  <2>4. At("rx", 4)'
    BY <1>7, <2>2 DEF LastOf
  <2> QED
    BY <2>3, <2>4, "rx" \in Kinds, 4 \in 1..8, Zenon DEF Kinds
<1>11. CASE s = "rx" /\ k = 4 /\ Op[1] = "clear"
  <2>1. /\ chip'.fifo = <<>>
        /\ chip'.pwr = chip.pwr /\ chip'.mask0 = chip.mask0 /\ chip'.mask1 = chip.mask1
        /\ chip'.xtal = chip.xtal /\ chip'.range = chip.range /\ chip'.done = chip.done
        /\ chip'.sending = chip.sending
    BY <1>1, <1>11, WriteClear
  <2>2. s = "rx" /\ k = 4
    BY <1>11
  <2>3. Stage(j, "rx", 5)'
    BY <1>5, <1>8, <2>1, <2>2 DEF Edge, Level, Stage, OffStage, Quiet, NoMask,
       XtalStage, RangeStage, OnStage, Listening, SendStage, SentStage, WaitsXtal, Fills,
       Transmits, Restarts
  <2>4. At("rx", 5)'
    BY <1>7, <2>2 DEF LastOf
  <2> QED
    BY <2>3, <2>4, "rx" \in Kinds, 5 \in 1..8, Zenon DEF Kinds
<1>12. CASE s = "rx" /\ k = 5 /\ Op[1] = "pwr" /\ Op[2] = "rx"
  <2>1. /\ chip'.pwr = "rx" /\ ~chip'.sending
        /\ chip'.mask0 = chip.mask0 /\ chip'.mask1 = chip.mask1 /\ chip'.xtal = chip.xtal
        /\ chip'.range = chip.range /\ chip'.fifo = chip.fifo /\ chip'.done = chip.done
    BY <1>1, <1>12, WritePwrUp
  <2>2. s = "rx" /\ k = 5
    BY <1>12
  <2>3. Stage(j, "rx", 6)'
    BY <1>5, <1>8, <2>1, <2>2 DEF Edge, Level, Stage, OffStage, Quiet, NoMask,
       XtalStage, RangeStage, OnStage, Listening, SendStage, SentStage, WaitsXtal, Fills,
       Transmits, Restarts
  <2>4. At("rx", 6)'
    BY <1>7, <2>2 DEF LastOf
  <2> QED
    BY <2>3, <2>4, "rx" \in Kinds, 6 \in 1..8, Zenon DEF Kinds
<1>13. CASE s = "rx" /\ k = 7 /\ Op[1] = "mask1" /\ Op[2] = "none"
  <2>1. /\ chip'.mask1 = "none"
        /\ chip'.pwr = chip.pwr /\ chip'.mask0 = chip.mask0 /\ chip'.xtal = chip.xtal
        /\ chip'.range = chip.range /\ chip'.fifo = chip.fifo /\ chip'.done = chip.done
        /\ chip'.sending = chip.sending
    BY <1>1, <1>13, WriteMask1
  <2>2. s = "rx" /\ k = 7
    BY <1>13
  <2>3. Stage(j, "rx", 8)'
    BY <1>5, <1>8, <2>1, <2>2 DEF Edge, Level, Stage, OffStage, Quiet, NoMask,
       XtalStage, RangeStage, OnStage, Listening, SendStage, SentStage, WaitsXtal, Fills,
       Transmits, Restarts
  <2>4. At("rx", 8)'
    BY <1>7, <2>2 DEF LastOf
  <2> QED
    BY <2>3, <2>4, "rx" \in Kinds, 8 \in 1..8, Zenon DEF Kinds
<1>14. CASE s = "tx_xtalwait" /\ k = 1 /\ Op[1] = "event"
  <2>1. /\ ~chip'.done
        /\ chip'.pwr = chip.pwr /\ chip'.mask0 = chip.mask0 /\ chip'.mask1 = chip.mask1
        /\ chip'.xtal = chip.xtal /\ chip'.range = chip.range /\ chip'.fifo = chip.fifo
        /\ chip'.sending = chip.sending
    BY <1>1, <1>14, WriteEvent
  <2>2. s = "tx_xtalwait" /\ k = 1
    BY <1>14
  <2>3. Stage(j, "tx_xtalwait", 2)'
    BY <1>5, <1>8, <2>1, <2>2 DEF Edge, Level, Stage, OffStage, Quiet, NoMask,
       XtalStage, RangeStage, OnStage, Listening, SendStage, SentStage, WaitsXtal, Fills,
       Transmits, Restarts
  <2>4. At("tx_xtalwait", 2)'
    BY <1>7, <2>2 DEF LastOf
  <2> QED
    BY <2>3, <2>4, "tx_xtalwait" \in Kinds, 2 \in 1..8, Zenon DEF Kinds
<1>15. CASE s = "tx_xtalwait" /\ k = 2 /\ Op[1] = "clear"
  <2>1. /\ chip'.fifo = <<>>
        /\ chip'.pwr = chip.pwr /\ chip'.mask0 = chip.mask0 /\ chip'.mask1 = chip.mask1
        /\ chip'.xtal = chip.xtal /\ chip'.range = chip.range /\ chip'.done = chip.done
        /\ chip'.sending = chip.sending
    BY <1>1, <1>15, WriteClear
  <2>2. s = "tx_xtalwait" /\ k = 2
    BY <1>15
  <2>3. Stage(j, "tx_xtalwait", 3)'
    BY <1>5, <1>8, <2>1, <2>2 DEF Edge, Level, Stage, OffStage, Quiet, NoMask,
       XtalStage, RangeStage, OnStage, Listening, SendStage, SentStage, WaitsXtal, Fills,
       Transmits, Restarts
  <2>4. At("tx_xtalwait", 3)'
    BY <1>7, <2>2 DEF LastOf
  <2> QED
    BY <2>3, <2>4, "tx_xtalwait" \in Kinds, 3 \in 1..8, Zenon DEF Kinds
<1>16. CASE s = "tx_xtalwait" /\ k = 3 /\ Op[1] = "mask1" /\ Op[2] = "none"
  <2>1. /\ chip'.mask1 = "none"
        /\ chip'.pwr = chip.pwr /\ chip'.mask0 = chip.mask0 /\ chip'.xtal = chip.xtal
        /\ chip'.range = chip.range /\ chip'.fifo = chip.fifo /\ chip'.done = chip.done
        /\ chip'.sending = chip.sending
    BY <1>1, <1>16, WriteMask1
  <2>2. s = "tx_xtalwait" /\ k = 3
    BY <1>16
  <2>3. Stage(j, "tx_xtalwait", 4)'
    BY <1>5, <1>8, <2>1, <2>2 DEF Edge, Level, Stage, OffStage, Quiet, NoMask,
       XtalStage, RangeStage, OnStage, Listening, SendStage, SentStage, WaitsXtal, Fills,
       Transmits, Restarts
  <2>4. At("tx_xtalwait", 4)'
    BY <1>7, <2>2 DEF LastOf
  <2> QED
    BY <2>3, <2>4, "tx_xtalwait" \in Kinds, 4 \in 1..8, Zenon DEF Kinds
<1>17. CASE s = "tx_xtalwait" /\ k = 4 /\ Op[1] = "mask0" /\ Op[2] = "free"
  <2>1. /\ chip'.mask0 = "free"
        /\ chip'.pwr = chip.pwr /\ chip'.mask1 = chip.mask1 /\ chip'.xtal = chip.xtal
        /\ chip'.range = chip.range /\ chip'.fifo = chip.fifo /\ chip'.done = chip.done
        /\ chip'.sending = chip.sending
    BY <1>1, <1>17, WriteMask0
  <2>2. s = "tx_xtalwait" /\ k = 4
    BY <1>17
  <2>3. Stage(j, "tx_xtalwait", 5)'
    BY <1>5, <1>8, <2>1, <2>2 DEF Edge, Level, Stage, OffStage, Quiet, NoMask,
       XtalStage, RangeStage, OnStage, Listening, SendStage, SentStage, WaitsXtal, Fills,
       Transmits, Restarts
  <2>4. At("tx_xtalwait", 5)'
    BY <1>7, <2>2 DEF LastOf
  <2> QED
    BY <2>3, <2>4, "tx_xtalwait" \in Kinds, 5 \in 1..8, Zenon DEF Kinds
<1>18. CASE s = "tx_xtalwait" /\ k = 6 /\ Op[1] = "mask0" /\ Op[2] = "radio"
  <2>1. /\ chip'.mask0 = "radio"
        /\ chip'.pwr = chip.pwr /\ chip'.mask1 = chip.mask1 /\ chip'.xtal = chip.xtal
        /\ chip'.range = chip.range /\ chip'.fifo = chip.fifo /\ chip'.done = chip.done
        /\ chip'.sending = chip.sending
    BY <1>1, <1>18, WriteMask0
  <2>2. s = "tx_xtalwait" /\ k = 6
    BY <1>18
  <2>3. Stage(j, "tx_xtalwait", 7)'
    BY <1>5, <1>8, <2>1, <2>2 DEF Edge, Level, Stage, OffStage, Quiet, NoMask,
       XtalStage, RangeStage, OnStage, Listening, SendStage, SentStage, WaitsXtal, Fills,
       Transmits, Restarts
  <2>4. At("tx_xtalwait", 7)'
    BY <1>7, <2>2 DEF LastOf
  <2> QED
    BY <2>3, <2>4, "tx_xtalwait" \in Kinds, 7 \in 1..8, Zenon DEF Kinds
<1>19. CASE s = "tx_xtalwait" /\ k = 7 /\ Op[1] = "pwr" /\ Op[2] = "tx"
  <2>1. /\ chip'.pwr = "tx"
        /\ chip'.mask0 = chip.mask0 /\ chip'.mask1 = chip.mask1 /\ chip'.xtal = chip.xtal
        /\ chip'.range = chip.range /\ chip'.fifo = chip.fifo /\ chip'.done = chip.done
    BY <1>1, <1>19, WritePwrUp
  <2>2. s = "tx_xtalwait" /\ k = 7
    BY <1>19
  <2>3. Stage(j, "idle", 1)'
    BY <1>5, <1>8, <2>1, <2>2 DEF Edge, Level, Stage, OffStage, Quiet, NoMask,
       XtalStage, RangeStage, OnStage, Listening, SendStage, SentStage, WaitsXtal, Fills,
       Transmits, Restarts
  <2>4. At("idle", 1)'
    BY <1>7, <2>2 DEF LastOf
  <2> QED
    BY <2>3, <2>4, "idle" \in Kinds, 1 \in 1..8, Zenon DEF Kinds
<1>20. CASE s = "restart" /\ k = 1 /\ Op[1] = "mask0" /\ Op[2] = "none"
  <2>1. /\ chip'.mask0 = "none"
        /\ chip'.pwr = chip.pwr /\ chip'.mask1 = chip.mask1 /\ chip'.xtal = chip.xtal
        /\ chip'.range = chip.range /\ chip'.fifo = chip.fifo /\ chip'.done = chip.done
        /\ chip'.sending = chip.sending
    BY <1>1, <1>20, WriteMask0
  <2>2. s = "restart" /\ k = 1
    BY <1>20
  <2>3. Stage(j, "restart", 2)'
    BY <1>5, <1>8, <2>1, <2>2 DEF Edge, Level, Stage, OffStage, Quiet, NoMask,
       XtalStage, RangeStage, OnStage, Listening, SendStage, SentStage, WaitsXtal, Fills,
       Transmits, Restarts
  <2>4. At("restart", 2)'
    BY <1>7, <2>2 DEF LastOf
  <2> QED
    BY <2>3, <2>4, "restart" \in Kinds, 2 \in 1..8, Zenon DEF Kinds
<1>21. CASE s = "restart" /\ k = 2 /\ Op[1] = "mask1" /\ Op[2] = "none"
  <2>1. /\ chip'.mask1 = "none"
        /\ chip'.pwr = chip.pwr /\ chip'.mask0 = chip.mask0 /\ chip'.xtal = chip.xtal
        /\ chip'.range = chip.range /\ chip'.fifo = chip.fifo /\ chip'.done = chip.done
        /\ chip'.sending = chip.sending
    BY <1>1, <1>21, WriteMask1
  <2>2. s = "restart" /\ k = 2
    BY <1>21
  <2>3. Stage(j, "restart", 3)'
    BY <1>5, <1>8, <2>1, <2>2 DEF Edge, Level, Stage, OffStage, Quiet, NoMask,
       XtalStage, RangeStage, OnStage, Listening, SendStage, SentStage, WaitsXtal, Fills,
       Transmits, Restarts
  <2>4. At("restart", 3)'
    BY <1>7, <2>2 DEF LastOf
  <2> QED
    BY <2>3, <2>4, "restart" \in Kinds, 3 \in 1..8, Zenon DEF Kinds
<1>22. CASE s = "restart" /\ k = 3 /\ Op[1] = "pwr" /\ Op[2] = "xtal"
  <2>1. /\ chip'.pwr = "xtal" /\ ~chip'.sending
        /\ chip'.mask0 = chip.mask0 /\ chip'.mask1 = chip.mask1 /\ chip'.xtal = chip.xtal
        /\ chip'.range = chip.range /\ chip'.fifo = chip.fifo /\ chip'.done = chip.done
    BY <1>1, <1>22, WritePwrUp
  <2>2. s = "restart" /\ k = 3
    BY <1>22
  <2>3. Stage(j, "restart", 4)'
    BY <1>5, <1>8, <2>1, <2>2 DEF Edge, Level, Stage, OffStage, Quiet, NoMask,
       XtalStage, RangeStage, OnStage, Listening, SendStage, SentStage, WaitsXtal, Fills,
       Transmits, Restarts
  <2>4. At("restart", 4)'
    BY <1>7, <2>2 DEF LastOf
  <2> QED
    BY <2>3, <2>4, "restart" \in Kinds, 4 \in 1..8, Zenon DEF Kinds
<1>23. CASE s = "restart" /\ k = 5 /\ Op[1] = "pwr" /\ Op[2] = "down"
  <2>1. /\ chip'.pwr = "down" /\ ~chip'.xtal /\ chip'.fifo = <<>> /\ ~chip'.sending
        /\ chip'.mask0 = chip.mask0 /\ chip'.mask1 = chip.mask1 /\ chip'.range = chip.range
        /\ chip'.done = chip.done
    BY <1>1, <1>23, WritePwrDown
  <2>2. s = "restart" /\ k = 5
    BY <1>23
  <2>3. Stage(j, "restart", 6)'
    BY <1>5, <1>8, <2>1, <2>2 DEF Edge, Level, Stage, OffStage, Quiet, NoMask,
       XtalStage, RangeStage, OnStage, Listening, SendStage, SentStage, WaitsXtal, Fills,
       Transmits, Restarts
  <2>4. At("restart", 6)'
    BY <1>7, <2>2 DEF LastOf
  <2> QED
    BY <2>3, <2>4, "restart" \in Kinds, 6 \in 1..8, Zenon DEF Kinds
<1>24. CASE s = "restart" /\ k = 6 /\ Op[1] = "reset"
  <2>1. /\ chip'.pwr = "down" /\ chip'.mask0 = "none" /\ chip'.mask1 = "none" /\ ~chip'.xtal
        /\ chip'.range = "idle" /\ chip'.fifo = <<>> /\ ~chip'.done /\ ~chip'.sending
    BY <1>1, <1>24, WriteReset
  <2>2. s = "restart" /\ k = 6
    BY <1>24
  <2>3. Stage(j, "restart", 7)'
    BY <1>5, <1>8, <2>1, <2>2 DEF Edge, Level, Stage, OffStage, Quiet, NoMask,
       XtalStage, RangeStage, OnStage, Listening, SendStage, SentStage, WaitsXtal, Fills,
       Transmits, Restarts
  <2>4. At("restart", 7)'
    BY <1>7, <2>2 DEF LastOf
  <2> QED
    BY <2>3, <2>4, "restart" \in Kinds, 7 \in 1..8, Zenon DEF Kinds
<1>25. CASE s = "wait_xtal" /\ k = 1 /\ Op[1] = "mask1" /\ Op[2] = "none"
  <2>1. /\ chip'.mask1 = "none"
        /\ chip'.pwr = chip.pwr /\ chip'.mask0 = chip.mask0 /\ chip'.xtal = chip.xtal
        /\ chip'.range = chip.range /\ chip'.fifo = chip.fifo /\ chip'.done = chip.done
        /\ chip'.sending = chip.sending
    BY <1>1, <1>25, WriteMask1
  <2>2. s = "wait_xtal" /\ k = 1
    BY <1>25
  <2>3. Stage(j, "wait_xtal", 2)'
    BY <1>5, <1>8, <2>1, <2>2 DEF Edge, Level, Stage, OffStage, Quiet, NoMask,
       XtalStage, RangeStage, OnStage, Listening, SendStage, SentStage, WaitsXtal, Fills,
       Transmits, Restarts
  <2>4. At("wait_xtal", 2)'
    BY <1>7, <2>2 DEF LastOf
  <2> QED
    BY <2>3, <2>4, "wait_xtal" \in Kinds, 2 \in 1..8, Zenon DEF Kinds
<1>26. CASE s = "pll_ranging" /\ k = 1 /\ Op[1] = "mask1" /\ Op[2] = "none"
  <2>1. /\ chip'.mask1 = "none"
        /\ chip'.pwr = chip.pwr /\ chip'.mask0 = chip.mask0 /\ chip'.xtal = chip.xtal
        /\ chip'.range = chip.range /\ chip'.fifo = chip.fifo /\ chip'.done = chip.done
        /\ chip'.sending = chip.sending
    BY <1>1, <1>26, WriteMask1
  <2>2. s = "pll_ranging" /\ k = 1
    BY <1>26
  <2>3. Stage(j, "pll_ranging", 2)'
    BY <1>5, <1>8, <2>1, <2>2 DEF Edge, Level, Stage, OffStage, Quiet, NoMask,
       XtalStage, RangeStage, OnStage, Listening, SendStage, SentStage, WaitsXtal, Fills,
       Transmits, Restarts
  <2>4. At("pll_ranging", 2)'
    BY <1>7, <2>2 DEF LastOf
  <2> QED
    BY <2>3, <2>4, "pll_ranging" \in Kinds, 2 \in 1..8, Zenon DEF Kinds
<1>27. CASE s = "tx_waitdone" /\ k = 1 /\ Op[1] = "event"
  <2>1. /\ ~chip'.done
        /\ chip'.pwr = chip.pwr /\ chip'.mask0 = chip.mask0 /\ chip'.mask1 = chip.mask1
        /\ chip'.xtal = chip.xtal /\ chip'.range = chip.range /\ chip'.fifo = chip.fifo
        /\ chip'.sending = chip.sending
    BY <1>1, <1>27, WriteEvent
  <2>2. s = "tx_waitdone" /\ k = 1
    BY <1>27
  <2>3. Stage(j, "tx_waitdone", 2)'
    BY <1>5, <1>8, <2>1, <2>2 DEF Edge, Level, Stage, OffStage, Quiet, NoMask,
       XtalStage, RangeStage, OnStage, Listening, SendStage, SentStage, WaitsXtal, Fills,
       Transmits, Restarts
  <2>4. At("tx_waitdone", 2)'
    BY <1>7, <2>2 DEF LastOf
  <2> QED
    BY <2>3, <2>4, "tx_waitdone" \in Kinds, 2 \in 1..8, Zenon DEF Kinds
<1>28. CASE s = "other" /\ k = 1 /\ Op[1] = "mask1" /\ Op[2] = "none"
  <2>1. /\ chip'.mask1 = "none"
        /\ chip'.pwr = chip.pwr /\ chip'.mask0 = chip.mask0 /\ chip'.xtal = chip.xtal
        /\ chip'.range = chip.range /\ chip'.fifo = chip.fifo /\ chip'.done = chip.done
        /\ chip'.sending = chip.sending
    BY <1>1, <1>28, WriteMask1
  <2>2. s = "other" /\ k = 1
    BY <1>28
  <2>3. Stage(j, "other", 2)'
    BY <1>5, <1>8, <2>1, <2>2 DEF Edge, Level, Stage, OffStage, Quiet, NoMask,
       XtalStage, RangeStage, OnStage, Listening, SendStage, SentStage, WaitsXtal, Fills,
       Transmits, Restarts
  <2>4. At("other", 2)'
    BY <1>7, <2>2 DEF LastOf
  <2> QED
    BY <2>3, <2>4, "other" \in Kinds, 2 \in 1..8, Zenon DEF Kinds
<1>29. CASE s = "other" /\ k = 2 /\ Op[1] = "mask0" /\ Op[2] = "none"
  <2>1. /\ chip'.mask0 = "none"
        /\ chip'.pwr = chip.pwr /\ chip'.mask1 = chip.mask1 /\ chip'.xtal = chip.xtal
        /\ chip'.range = chip.range /\ chip'.fifo = chip.fifo /\ chip'.done = chip.done
        /\ chip'.sending = chip.sending
    BY <1>1, <1>29, WriteMask0
  <2>2. s = "other" /\ k = 2
    BY <1>29
  <2>3. Stage(j, "idle", 1)'
    BY <1>5, <1>8, <2>1, <2>2 DEF Edge, Level, Stage, OffStage, Quiet, NoMask,
       XtalStage, RangeStage, OnStage, Listening, SendStage, SentStage, WaitsXtal, Fills,
       Transmits, Restarts
  <2>4. At("idle", 1)'
    BY <1>7, <2>2 DEF LastOf
  <2> QED
    BY <2>3, <2>4, "idle" \in Kinds, 1 \in 1..8, Zenon DEF Kinds
<1> QED
  BY <1>9, <1>10, <1>11, <1>12, <1>13, <1>14, <1>15, <1>16, <1>17, <1>18, <1>19, <1>20,
     <1>21, <1>22, <1>23, <1>24, <1>25, <1>26, <1>27, <1>28, <1>29

(* So does a store of ubRFState, ... *)
LEMMA TaskStoreStages ==
    ASSUME NEW s \in Kinds, NEW k \in 1..8, NEW j \in Int, At(s, k), Stage(j, s, k),
           IRQ2_Sem \in Nat, DOMAIN chip = ChipFields, TaskStore
    PROVE  /\ DOMAIN chip' = ChipFields /\ IRQ2_Sem' \in Nat
           /\ \E t \in Kinds, l \in 1..8 : At(t, l)' /\ Stage(j, t, l)'
<1>1. /\ task # <<>> /\ Op[1] = "state" /\ ubRFState' = Op[2] /\ task' = Tail(task)
      /\ chip' = chip /\ IRQ2_Sem' = IRQ2_Sem /\ crossed' = crossed
  BY DEF TaskStore, history
<1>2. s # "idle"
  BY <1>1, TaskIdle
<1>3. OpTable(s, k)
  BY <1>2, TaskOps
<1>4. Op[1] = "state"
  BY <1>1
<1>7. /\ k # LastOf(s) => At(s, k + 1)'
      /\ k = LastOf(s) => At("idle", 1)'
  BY <1>1, <1>2, TaskNext
<1>8. chip' = chip /\ IRQ2_Sem' = IRQ2_Sem /\ crossed' = crossed
  BY <1>1
<1>9. \/ s = "rx" /\ k = 6 /\ Op[2] = "rx"
      \/ s = "tx_xtalwait" /\ k = 5 /\ Op[2] = "tx_waitdone"
      \/ s = "restart" /\ k = 4 /\ Op[2] = "off"
      \/ s = "restart" /\ k = 7 /\ Op[2] = "rx"
      \/ s = "wait_xtal" /\ k = 2 /\ Op[2] = "xtal_ready"
      \/ s = "pll_ranging" /\ k = 2 /\ Op[2] = "pll_ranging_done"
  BY <1>2, <1>3, <1>4, Zenon DEF OpTable, Kinds
<1> SUFFICES \E t \in Kinds, l \in 1..8 : At(t, l)' /\ Stage(j, t, l)'
  BY <1>8
<1>10. CASE s = "rx" /\ k = 6 /\ Op[2] = "rx"
  <2>1. ubRFState' = "rx"
    BY <1>1, <1>10
  <2>2. s = "rx" /\ k = 6
    BY <1>10
  <2>3. Stage(j, "rx", 7)'
    BY <1>8, <2>1, <2>2 DEF Stage, OffStage, Quiet, NoMask,
       XtalStage, RangeStage, OnStage, Listening, SendStage, SentStage, WaitsXtal, Fills,
       Transmits, Restarts
  <2>4. At("rx", 7)'
    BY <1>7, <2>2 DEF LastOf
  <2> QED
    BY <2>3, <2>4, "rx" \in Kinds, 7 \in 1..8, Zenon DEF Kinds
<1>11. CASE s = "tx_xtalwait" /\ k = 5 /\ Op[2] = "tx_waitdone"
  <2>1. ubRFState' = "tx_waitdone"
    BY <1>1, <1>11
  <2>2. s = "tx_xtalwait" /\ k = 5
    BY <1>11
  <2>3. Stage(j, "tx_xtalwait", 6)'
    BY <1>8, <2>1, <2>2 DEF Stage, OffStage, Quiet, NoMask,
       XtalStage, RangeStage, OnStage, Listening, SendStage, SentStage, WaitsXtal, Fills,
       Transmits, Restarts
  <2>4. At("tx_xtalwait", 6)'
    BY <1>7, <2>2 DEF LastOf
  <2> QED
    BY <2>3, <2>4, "tx_xtalwait" \in Kinds, 6 \in 1..8, Zenon DEF Kinds
<1>12. CASE s = "restart" /\ k = 4 /\ Op[2] = "off"
  <2>1. ubRFState' = "off"
    BY <1>1, <1>12
  <2>2. s = "restart" /\ k = 4
    BY <1>12
  <2>3. Stage(j, "restart", 5)'
    BY <1>8, <2>1, <2>2 DEF Stage, OffStage, Quiet, NoMask,
       XtalStage, RangeStage, OnStage, Listening, SendStage, SentStage, WaitsXtal, Fills,
       Transmits, Restarts
  <2>4. At("restart", 5)'
    BY <1>7, <2>2 DEF LastOf
  <2> QED
    BY <2>3, <2>4, "restart" \in Kinds, 5 \in 1..8, Zenon DEF Kinds
<1>13. CASE s = "restart" /\ k = 7 /\ Op[2] = "rx"
  <2>1. ubRFState' = "rx"
    BY <1>1, <1>13
  <2>2. s = "restart" /\ k = 7
    BY <1>13
  <2>3. Stage(j, "idle", 1)'
    BY <1>8, <2>1, <2>2 DEF Stage, OffStage, Quiet, NoMask,
       XtalStage, RangeStage, OnStage, Listening, SendStage, SentStage, WaitsXtal, Fills,
       Transmits, Restarts
  <2>4. At("idle", 1)'
    BY <1>7, <2>2 DEF LastOf
  <2> QED
    BY <2>3, <2>4, "idle" \in Kinds, 1 \in 1..8, Zenon DEF Kinds
<1>14. CASE s = "wait_xtal" /\ k = 2 /\ Op[2] = "xtal_ready"
  <2>1. ubRFState' = "xtal_ready"
    BY <1>1, <1>14
  <2>2. s = "wait_xtal" /\ k = 2
    BY <1>14
  <2>3. Stage(j, "idle", 1)'
    BY <1>8, <2>1, <2>2 DEF Stage, OffStage, Quiet, NoMask,
       XtalStage, RangeStage, OnStage, Listening, SendStage, SentStage, WaitsXtal, Fills,
       Transmits, Restarts
  <2>4. At("idle", 1)'
    BY <1>7, <2>2 DEF LastOf
  <2> QED
    BY <2>3, <2>4, "idle" \in Kinds, 1 \in 1..8, Zenon DEF Kinds
<1>15. CASE s = "pll_ranging" /\ k = 2 /\ Op[2] = "pll_ranging_done"
  <2>1. ubRFState' = "pll_ranging_done"
    BY <1>1, <1>15
  <2>2. s = "pll_ranging" /\ k = 2
    BY <1>15
  <2>3. Stage(j, "idle", 1)'
    BY <1>8, <2>1, <2>2 DEF Stage, OffStage, Quiet, NoMask,
       XtalStage, RangeStage, OnStage, Listening, SendStage, SentStage, WaitsXtal, Fills,
       Transmits, Restarts
  <2>4. At("idle", 1)'
    BY <1>7, <2>2 DEF LastOf
  <2> QED
    BY <2>3, <2>4, "idle" \in Kinds, 1 \in 1..8, Zenon DEF Kinds
<1> QED
  BY <1>9, <1>10, <1>11, <1>12, <1>13, <1>14, <1>15

(* ... ReceiveData when it begins, ... *)
LEMMA BeginStages ==
    ASSUME NEW s \in Kinds, NEW k \in 1..8, NEW j \in Int, At(s, k), Stage(j, s, k),
           IRQ2_Sem \in Nat, DOMAIN chip = ChipFields, BeginReceive
    PROVE  /\ DOMAIN chip' = ChipFields /\ IRQ2_Sem' \in Nat
           /\ \E t \in Kinds, l \in 1..8 : At(t, l)' /\ Stage(j, t, l)'
<1>1. task # <<>> /\ Op[1] = "begin"
  BY DEF BeginReceive
<1>2. s # "idle"
  BY <1>1, TaskIdle
<1>3. OpTable(s, k)
  BY <1>2, TaskOps
<1>4. s = "rx" /\ k = 1
  BY <1>1, <1>2, <1>3, Zenon DEF OpTable, Kinds
<1>5. At("rx", 2)'
  <2>1. task' = Tail(task)
    BY DEF BeginReceive
  <2>2. (k # LastOf(s) => At(s, k + 1)') /\ (k = LastOf(s) => At("idle", 1)')
    BY <1>2, <2>1, TaskNext
  <2> QED
    BY <1>4, <2>2 DEF LastOf
<1>6. chip' = [chip EXCEPT !.done = FALSE] /\ IRQ2_Sem' = IRQ2_Sem
  BY DEF BeginReceive
<1>7. DOMAIN chip' = ChipFields /\ IRQ2_Sem' \in Nat
  BY <1>6 DEF ChipFields
<1>8. Stage(j, "rx", 2)'
  <2>1. /\ chip'.pwr = chip.pwr /\ chip'.mask0 = chip.mask0 /\ chip'.mask1 = chip.mask1
        /\ chip'.fifo = chip.fifo
    BY <1>6 DEF ChipFields
  <2>2. ubRFState' = ubRFState /\ crossed' = crossed
    BY DEF BeginReceive
  <2> QED
    BY <1>4, <1>6, <2>1, <2>2 DEF Stage, OffStage, Quiet, NoMask,
     XtalStage, RangeStage, OnStage, Listening, SendStage, SentStage, WaitsXtal, Fills,
     Transmits, Restarts
<1>9. "rx" \in Kinds /\ 2 \in 1..8
  BY DEF Kinds
<1> QED
  BY <1>5, <1>6, <1>7, <1>8, <1>9

(* ... when it takes a chunk from the FIFO, ... *)
LEMMA DrainStages ==
    ASSUME NEW s \in Kinds, NEW k \in 1..8, NEW j \in Int, At(s, k), Stage(j, s, k),
           IRQ2_Sem \in Nat, DOMAIN chip = ChipFields, Drain
    PROVE  /\ DOMAIN chip' = ChipFields /\ IRQ2_Sem' \in Nat
           /\ \E t \in Kinds, l \in 1..8 : At(t, l)' /\ Stage(j, t, l)'
<1>1. task # <<>> /\ Op[1] = "drain"
  BY DEF Drain
<1>2. s # "idle"
  BY <1>1, TaskIdle
<1>3. OpTable(s, k)
  BY <1>2, TaskOps
<1>4. s = "rx" /\ k = 2
  BY <1>1, <1>2, <1>3, Zenon DEF OpTable, Kinds
<1>5. At("rx", 2)'
  <2>1. task' = task
    BY DEF Drain
  <2> QED
    BY <1>4, <2>1 DEF At
<1> DEFINE x == Head(chip.fifo)
<1>10. /\ chip' = [chip EXCEPT !.fifo = Tail(@),
                     !.mask0 = IF x[1] = "data" /\ @ = "fifo" THEN "none" ELSE @]
       /\ IRQ2_Sem' = SemAfter(IRQ2_Sem)
  BY DEF Drain
<1>11. /\ DOMAIN chip' = ChipFields /\ chip'.pwr = chip.pwr /\ chip'.mask1 = chip.mask1
       /\ chip'.mask0 \in {chip.mask0, "none"}
  BY <1>10 DEF ChipFields
<1>6. IRQ2_Sem' \in Nat
  BY <1>10, SemEdge
<1>7. DOMAIN chip' = ChipFields
  BY <1>11
<1>8. Stage(j, "rx", 2)'
  <2>1. ubRFState' = ubRFState /\ crossed' = crossed
    BY DEF Drain
  <2> QED
    BY <1>4, <1>11, <2>1 DEF Stage, OffStage, Quiet, NoMask,
     XtalStage, RangeStage, OnStage, Listening, SendStage, SentStage, WaitsXtal, Fills,
     Transmits, Restarts
<1>9. "rx" \in Kinds /\ 2 \in 1..8
  BY DEF Kinds
<1> QED
  BY <1>5, <1>6, <1>7, <1>8, <1>9

(* ... and when the FIFO is empty, ... *)
LEMMA DrainedStages ==
    ASSUME NEW s \in Kinds, NEW k \in 1..8, NEW j \in Int, At(s, k), Stage(j, s, k),
           IRQ2_Sem \in Nat, DOMAIN chip = ChipFields, Drained
    PROVE  /\ DOMAIN chip' = ChipFields /\ IRQ2_Sem' \in Nat
           /\ \E t \in Kinds, l \in 1..8 : At(t, l)' /\ Stage(j, t, l)'
<1>1. task # <<>> /\ Op[1] = "drain"
  BY DEF Drained
<1>2. s # "idle"
  BY <1>1, TaskIdle
<1>3. OpTable(s, k)
  BY <1>2, TaskOps
<1>4. s = "rx" /\ k = 2
  BY <1>1, <1>2, <1>3, Zenon DEF OpTable, Kinds
<1>5. At("rx", 3)'
  <2>1. task' = Tail(task)
    BY DEF Drained
  <2>2. (k # LastOf(s) => At(s, k + 1)') /\ (k = LastOf(s) => At("idle", 1)')
    BY <1>2, <2>1, TaskNext
  <2> QED
    BY <1>4, <2>2 DEF LastOf
<1>6. chip' = chip /\ IRQ2_Sem' = IRQ2_Sem /\ ubRFState' = ubRFState /\ crossed' = crossed
  BY DEF Drained, history
<1>7. DOMAIN chip' = ChipFields /\ IRQ2_Sem' \in Nat
  BY <1>6
<1>8. Stage(j, "rx", 3)'
  BY <1>4, <1>6 DEF Stage, OffStage, Quiet, NoMask,
     XtalStage, RangeStage, OnStage, Listening, SendStage, SentStage, WaitsXtal, Fills,
     Transmits, Restarts
<1>9. "rx" \in Kinds /\ 3 \in 1..8
  BY DEF Kinds
<1> QED
  BY <1>5, <1>6, <1>7, <1>8, <1>9

(* ... the packet's way to the decoder, ... *)
LEMMA HandStages ==
    ASSUME NEW s \in Kinds, NEW k \in 1..8, NEW j \in Int, At(s, k), Stage(j, s, k),
           IRQ2_Sem \in Nat, DOMAIN chip = ChipFields, Hand
    PROVE  /\ DOMAIN chip' = ChipFields /\ IRQ2_Sem' \in Nat
           /\ \E t \in Kinds, l \in 1..8 : At(t, l)' /\ Stage(j, t, l)'
<1>1. task # <<>> /\ Op[1] = "hand"
  BY DEF Hand
<1>2. s # "idle"
  BY <1>1, TaskIdle
<1>3. OpTable(s, k)
  BY <1>2, TaskOps
<1>4. s = "rx" /\ k = 8
  BY <1>1, <1>2, <1>3, Zenon DEF OpTable, Kinds
<1>5. At("idle", 1)'
  <2>1. task' = Tail(task)
    BY DEF Hand
  <2>2. (k # LastOf(s) => At(s, k + 1)') /\ (k = LastOf(s) => At("idle", 1)')
    BY <1>2, <2>1, TaskNext
  <2> QED
    BY <1>4, <2>2 DEF LastOf
<1>6. chip' = chip /\ IRQ2_Sem' = IRQ2_Sem /\ ubRFState' = ubRFState /\ crossed' = crossed
  BY DEF Hand, history
<1>7. DOMAIN chip' = ChipFields /\ IRQ2_Sem' \in Nat
  BY <1>6
<1>8. Stage(j, "idle", 1)'
  BY <1>4, <1>6 DEF Stage, OffStage, Quiet, NoMask,
     XtalStage, RangeStage, OnStage, Listening, SendStage, SentStage, WaitsXtal, Fills,
     Transmits, Restarts
<1>9. "idle" \in Kinds /\ 1 \in 1..8
  BY DEF Kinds
<1> QED
  BY <1>5, <1>6, <1>7, <1>8, <1>9

(* ... and the end of a transmission, which begins rf_restart. *)
LEMMA SentStages ==
    ASSUME NEW s \in Kinds, NEW k \in 1..8, NEW j \in Int, At(s, k), Stage(j, s, k),
           IRQ2_Sem \in Nat, DOMAIN chip = ChipFields, Sent
    PROVE  /\ DOMAIN chip' = ChipFields /\ IRQ2_Sem' \in Nat
           /\ \E t \in Kinds, l \in 1..8 : At(t, l)' /\ Stage(j, t, l)'
<1>1. task # <<>> /\ Op[1] = "sent"
  BY DEF Sent
<1>2. s # "idle"
  BY <1>1, TaskIdle
<1>3. OpTable(s, k)
  BY <1>2, TaskOps
<1>4. s = "tx_waitdone" /\ k = 2
  BY <1>1, <1>2, <1>3, Zenon DEF OpTable, Kinds
<1>6. chip' = chip /\ IRQ2_Sem' = IRQ2_Sem /\ ubRFState' = ubRFState /\ crossed' = crossed
  BY DEF Sent, history
<1>7. Stage(j, "idle", 1)' /\ Stage(j, "restart", 1)'
  BY <1>4, <1>6 DEF Stage, OffStage, Quiet, NoMask,
     XtalStage, RangeStage, OnStage, Listening, SendStage, SentStage, WaitsXtal, Fills,
     Transmits, Restarts
<1>8. "idle" \in Kinds /\ "restart" \in Kinds /\ 1 \in 1..8
  BY DEF Kinds
<1>9. At("idle", 1)' \/ At("restart", 1)'
  BY SentPlace
<1>10. DOMAIN chip' = ChipFields /\ IRQ2_Sem' \in Nat
  BY <1>6
<1>11. \E t \in Kinds, l \in 1..8 : At(t, l)' /\ Stage(j, t, l)'
  BY <1>7, <1>8, <1>9, Zenon
<1> QED
  BY <1>10, <1>11

-----------------------------------------------------------------------------
(* Steps of the set-up *)

(* The places of the plan, from Ax5043_OFF's store on, with a transfer. *)
TransferPlaces == {5, 6, 7, 9, 10, 13, 14, 17, 18, 20, 21, 23, 24, 25, 26, 28, 29}
OtherPlaces == {4, 8, 11, 12, 15, 16, 19, 22, 27}

(* The operations at these places are transfers, and stores and loops. *)
LEMMA PlanNames ==
    ASSUME NEW j, NEW op, PlanTable(j, op)
    PROVE  /\ j \in OtherPlaces => op[1] \in {"state", "while"}
           /\ j \in TransferPlaces => op[1] \in Writes
<1>4. ASSUME j = 4 PROVE op[1] = "state"
  <2>1. op = <<"state", "off">>
    BY <1>4, Zenon DEF PlanTable
  <2> QED
    BY <2>1
<1>5. ASSUME j = 5 PROVE op[1] = "pwr"
  <2>1. op = <<"pwr", "down">>
    BY <1>5, Zenon DEF PlanTable
  <2> QED
    BY <2>1
<1>6. ASSUME j = 6 PROVE op[1] = "reset"
  <2>1. op = <<"reset", "">>
    BY <1>6, Zenon DEF PlanTable
  <2> QED
    BY <2>1
<1>7. ASSUME j = 7 PROVE op[1] = "pwr"
  <2>1. op = <<"pwr", "xtal">>
    BY <1>7, Zenon DEF PlanTable
  <2> QED
    BY <2>1
<1>8. ASSUME j = 8 PROVE op[1] = "state"
  <2>1. op = <<"state", "wait_xtal">>
    BY <1>8, Zenon DEF PlanTable
  <2> QED
    BY <2>1
<1>9. ASSUME j = 9 PROVE op[1] = "mask1"
  <2>1. op = <<"mask1", "xtal">>
    BY <1>9, Zenon DEF PlanTable
  <2> QED
    BY <2>1
<1>10. ASSUME j = 10 PROVE op[1] = "pwr"
  <2>1. op = <<"pwr", "xtal">>
    BY <1>10, Zenon DEF PlanTable
  <2> QED
    BY <2>1
<1>11. ASSUME j = 11 PROVE op[1] = "while"
  <2>1. op = <<"while", "wait_xtal">>
    BY <1>11, Zenon DEF PlanTable
  <2> QED
    BY <2>1
<1>12. ASSUME j = 12 PROVE op[1] = "state"
  <2>1. op = <<"state", "pll_ranging">>
    BY <1>12, Zenon DEF PlanTable
  <2> QED
    BY <2>1
<1>13. ASSUME j = 13 PROVE op[1] = "mask1"
  <2>1. op = <<"mask1", "range">>
    BY <1>13, Zenon DEF PlanTable
  <2> QED
    BY <2>1
<1>14. ASSUME j = 14 PROVE op[1] = "range"
  <2>1. op = <<"range", "">>
    BY <1>14, Zenon DEF PlanTable
  <2> QED
    BY <2>1
<1>15. ASSUME j = 15 PROVE op[1] = "while"
  <2>1. op = <<"while", "pll_ranging">>
    BY <1>15, Zenon DEF PlanTable
  <2> QED
    BY <2>1
<1>16. ASSUME j = 16 PROVE op[1] = "state"
  <2>1. op = <<"state", "off">>
    BY <1>16, Zenon DEF PlanTable
  <2> QED
    BY <2>1
<1>17. ASSUME j = 17 PROVE op[1] = "mask1"
  <2>1. op = <<"mask1", "none">>
    BY <1>17, Zenon DEF PlanTable
  <2> QED
    BY <2>1
<1>18. ASSUME j = 18 PROVE op[1] = "pwr"
  <2>1. op = <<"pwr", "down">>
    BY <1>18, Zenon DEF PlanTable
  <2> QED
    BY <2>1
<1>19. ASSUME j = 19 PROVE op[1] = "state"
  <2>1. op = <<"state", "rx">>
    BY <1>19, Zenon DEF PlanTable
  <2> QED
    BY <2>1
<1>20. ASSUME j = 20 PROVE op[1] = "clear"
  <2>1. op = <<"clear", "">>
    BY <1>20, Zenon DEF PlanTable
  <2> QED
    BY <2>1
<1>21. ASSUME j = 21 PROVE op[1] = "pwr"
  <2>1. op = <<"pwr", "rx">>
    BY <1>21, Zenon DEF PlanTable
  <2> QED
    BY <2>1
<1>22. ASSUME j = 22 PROVE op[1] = "state"
  <2>1. op = <<"state", "rx">>
    BY <1>22, Zenon DEF PlanTable
  <2> QED
    BY <2>1
<1>23. ASSUME j = 23 PROVE op[1] = "mask0"
  <2>1. op = <<"mask0", "fifo">>
    BY <1>23, Zenon DEF PlanTable
  <2> QED
    BY <2>1
<1>24. ASSUME j = 24 PROVE op[1] = "mask1"
  <2>1. op = <<"mask1", "none">>
    BY <1>24, Zenon DEF PlanTable
  <2> QED
    BY <2>1
<1>25. ASSUME j = 25 PROVE op[1] = "pwr"
  <2>1. op = <<"pwr", "xtal">>
    BY <1>25, Zenon DEF PlanTable
  <2> QED
    BY <2>1
<1>26. ASSUME j = 26 PROVE op[1] = "pwr"
  <2>1. op = <<"pwr", "fifo">>
    BY <1>26, Zenon DEF PlanTable
  <2> QED
    BY <2>1
<1>27. ASSUME j = 27 PROVE op[1] = "state"
  <2>1. op = <<"state", "tx_xtalwait">>
    BY <1>27, Zenon DEF PlanTable
  <2> QED
    BY <2>1
<1>28. ASSUME j = 28 PROVE op[1] = "mask0"
  <2>1. op = <<"mask0", "none">>
    BY <1>28, Zenon DEF PlanTable
  <2> QED
    BY <2>1
<1>29. ASSUME j = 29 PROVE op[1] = "mask1"
  <2>1. op = <<"mask1", "xtal">>
    BY <1>29, Zenon DEF PlanTable
  <2> QED
    BY <2>1
<1> QED
  BY <1>4, <1>5, <1>6, <1>7, <1>8, <1>9, <1>10, <1>11, <1>12, <1>13, <1>14, <1>15, <1>16,
     <1>17, <1>18, <1>19, <1>20, <1>21, <1>22, <1>23, <1>24, <1>25, <1>26, <1>27, <1>28,
     <1>29 DEF Writes, TransferPlaces, OtherPlaces

(* A transfer of the set-up leads from the stage of its place to the next   *)
(* one, and wakes the task only if that stage lets it be woken.             *)
LEMMA SetupWriteStages ==
    ASSUME NEW j \in Int, SetupAt(j), sends \in Nat, Stage(j, "idle", 1),
           IRQ2_Sem \in Nat, DOMAIN chip = ChipFields, SetupWrite
    PROVE  /\ DOMAIN chip' = ChipFields /\ IRQ2_Sem' \in Nat
           /\ SetupAt(j + 1)' /\ Stage(j + 1, "idle", 1)'
<1>1. /\ setup # <<>> /\ SetupOp[1] \in Writes /\ chip' = Write(chip, SetupOp)
      /\ IRQ2_Sem' = SemAfter(IRQ2_Sem) /\ setup' = Tail(setup)
      /\ ubRFState' = ubRFState /\ crossed' = crossed /\ sends' = sends
  BY DEF SetupWrite, history
<1>2. j <= End /\ (j >= 1 => PlanTable(j, SetupOp)) /\ SetupAt(j + 1)'
  BY <1>1, SetupOn
<1>3. End \in {24, 29}
  BY SetupRest
<1>4. Edge /\ IRQ2_Sem' \in Nat
  BY <1>1, SemEdge
<1>5. DOMAIN chip' = ChipFields
  BY <1>1, WriteFifo
<1>6. ubRFState' = ubRFState /\ crossed' = crossed
  BY <1>1
<1>7. chip' = Write(chip, SetupOp)
  BY <1>1
<1> SUFFICES Stage(j + 1, "idle", 1)'
  BY <1>2, <1>4, <1>5
<1>10. CASE j <= 3
  BY <1>10 DEF Stage
<1>15. CASE j = 5
  <2>1. SetupOp = <<"pwr", "down">>
    <3>1. PlanTable(j, SetupOp)
      BY <1>2, <1>15
    <3> QED
      BY <1>15, <3>1, Zenon DEF PlanTable
  <2>2. SetupOp[1] = "pwr" /\ SetupOp[2] = "down"
    BY <2>1
  <2>3. /\ chip'.pwr = "down" /\ ~chip'.xtal /\ chip'.fifo = <<>> /\ ~chip'.sending
        /\ chip'.mask0 = chip.mask0 /\ chip'.mask1 = chip.mask1 /\ chip'.range = chip.range
        /\ chip'.done = chip.done
    BY <1>7, <2>2, WritePwrDown
  <2> QED
    BY <1>4, <1>6, <1>15, <2>3 DEF Edge, Level, Stage, OffStage, Quiet, NoMask,
       XtalStage, RangeStage, OnStage, Listening, SendStage, SentStage, WaitsXtal, Fills,
       Transmits, Restarts
<1>16. CASE j = 6
  <2>1. SetupOp = <<"reset", "">>
    <3>1. PlanTable(j, SetupOp)
      BY <1>2, <1>16
    <3> QED
      BY <1>16, <3>1, Zenon DEF PlanTable
  <2>2. SetupOp[1] = "reset"
    BY <2>1
  <2>3. /\ chip'.pwr = "down" /\ chip'.mask0 = "none" /\ chip'.mask1 = "none" /\ ~chip'.xtal
        /\ chip'.range = "idle" /\ chip'.fifo = <<>> /\ ~chip'.done /\ ~chip'.sending
    BY <1>7, <2>2, WriteReset
  <2> QED
    BY <1>4, <1>6, <1>16, <2>3 DEF Edge, Level, Stage, OffStage, Quiet, NoMask,
       XtalStage, RangeStage, OnStage, Listening, SendStage, SentStage, WaitsXtal, Fills,
       Transmits, Restarts
<1>17. CASE j = 7
  <2>1. SetupOp = <<"pwr", "xtal">>
    <3>1. PlanTable(j, SetupOp)
      BY <1>2, <1>17
    <3> QED
      BY <1>17, <3>1, Zenon DEF PlanTable
  <2>2. SetupOp[1] = "pwr" /\ SetupOp[2] = "xtal"
    BY <2>1
  <2>3. /\ chip'.pwr = "xtal" /\ ~chip'.sending
        /\ chip'.mask0 = chip.mask0 /\ chip'.mask1 = chip.mask1 /\ chip'.xtal = chip.xtal
        /\ chip'.range = chip.range /\ chip'.fifo = chip.fifo /\ chip'.done = chip.done
    BY <1>7, <2>2, WritePwrUp
  <2> QED
    BY <1>4, <1>6, <1>17, <2>3 DEF Edge, Level, Stage, OffStage, Quiet, NoMask,
       XtalStage, RangeStage, OnStage, Listening, SendStage, SentStage, WaitsXtal, Fills,
       Transmits, Restarts
<1>19. CASE j = 9
  <2>1. SetupOp = <<"mask1", "xtal">>
    <3>1. PlanTable(j, SetupOp)
      BY <1>2, <1>19
    <3> QED
      BY <1>19, <3>1, Zenon DEF PlanTable
  <2>2. SetupOp[1] = "mask1" /\ SetupOp[2] = "xtal"
    BY <2>1
  <2>3. /\ chip'.mask1 = "xtal"
        /\ chip'.pwr = chip.pwr /\ chip'.mask0 = chip.mask0 /\ chip'.xtal = chip.xtal
        /\ chip'.range = chip.range /\ chip'.fifo = chip.fifo /\ chip'.done = chip.done
        /\ chip'.sending = chip.sending
    BY <1>7, <2>2, WriteMask1
  <2> QED
    BY <1>4, <1>6, <1>19, <2>3 DEF Edge, Level, Stage, OffStage, Quiet, NoMask,
       XtalStage, RangeStage, OnStage, Listening, SendStage, SentStage, WaitsXtal, Fills,
       Transmits, Restarts
<1>20. CASE j = 10
  <2>1. SetupOp = <<"pwr", "xtal">>
    <3>1. PlanTable(j, SetupOp)
      BY <1>2, <1>20
    <3> QED
      BY <1>20, <3>1, Zenon DEF PlanTable
  <2>2. SetupOp[1] = "pwr" /\ SetupOp[2] = "xtal"
    BY <2>1
  <2>3. /\ chip'.pwr = "xtal" /\ ~chip'.sending
        /\ chip'.mask0 = chip.mask0 /\ chip'.mask1 = chip.mask1 /\ chip'.xtal = chip.xtal
        /\ chip'.range = chip.range /\ chip'.fifo = chip.fifo /\ chip'.done = chip.done
    BY <1>7, <2>2, WritePwrUp
  <2> QED
    BY <1>4, <1>6, <1>20, <2>3 DEF Edge, Level, Stage, OffStage, Quiet, NoMask,
       XtalStage, RangeStage, OnStage, Listening, SendStage, SentStage, WaitsXtal, Fills,
       Transmits, Restarts
<1>23. CASE j = 13
  <2>1. SetupOp = <<"mask1", "range">>
    <3>1. PlanTable(j, SetupOp)
      BY <1>2, <1>23
    <3> QED
      BY <1>23, <3>1, Zenon DEF PlanTable
  <2>2. SetupOp[1] = "mask1" /\ SetupOp[2] = "range"
    BY <2>1
  <2>3. /\ chip'.mask1 = "range"
        /\ chip'.pwr = chip.pwr /\ chip'.mask0 = chip.mask0 /\ chip'.xtal = chip.xtal
        /\ chip'.range = chip.range /\ chip'.fifo = chip.fifo /\ chip'.done = chip.done
        /\ chip'.sending = chip.sending
    BY <1>7, <2>2, WriteMask1
  <2> QED
    BY <1>4, <1>6, <1>23, <2>3 DEF Edge, Level, Stage, OffStage, Quiet, NoMask,
       XtalStage, RangeStage, OnStage, Listening, SendStage, SentStage, WaitsXtal, Fills,
       Transmits, Restarts
<1>24. CASE j = 14
  <2>1. SetupOp = <<"range", "">>
    <3>1. PlanTable(j, SetupOp)
      BY <1>2, <1>24
    <3> QED
      BY <1>24, <3>1, Zenon DEF PlanTable
  <2>2. SetupOp[1] = "range"
    BY <2>1
  <2>3. /\ chip'.range = "busy"
        /\ chip'.pwr = chip.pwr /\ chip'.mask0 = chip.mask0 /\ chip'.mask1 = chip.mask1
        /\ chip'.xtal = chip.xtal /\ chip'.fifo = chip.fifo /\ chip'.done = chip.done
        /\ chip'.sending = chip.sending
    BY <1>7, <2>2, WriteRange
  <2> QED
    BY <1>4, <1>6, <1>24, <2>3 DEF Edge, Level, Stage, OffStage, Quiet, NoMask,
       XtalStage, RangeStage, OnStage, Listening, SendStage, SentStage, WaitsXtal, Fills,
       Transmits, Restarts
<1>27. CASE j = 17
  <2>1. SetupOp = <<"mask1", "none">>
    <3>1. PlanTable(j, SetupOp)
      BY <1>2, <1>27
    <3> QED
      BY <1>27, <3>1, Zenon DEF PlanTable
  <2>2. SetupOp[1] = "mask1" /\ SetupOp[2] = "none"
    BY <2>1
  <2>3. /\ chip'.mask1 = "none"
        /\ chip'.pwr = chip.pwr /\ chip'.mask0 = chip.mask0 /\ chip'.xtal = chip.xtal
        /\ chip'.range = chip.range /\ chip'.fifo = chip.fifo /\ chip'.done = chip.done
        /\ chip'.sending = chip.sending
    BY <1>7, <2>2, WriteMask1
  <2> QED
    BY <1>4, <1>6, <1>27, <2>3 DEF Edge, Level, Stage, OffStage, Quiet, NoMask,
       XtalStage, RangeStage, OnStage, Listening, SendStage, SentStage, WaitsXtal, Fills,
       Transmits, Restarts
<1>28. CASE j = 18
  <2>1. SetupOp = <<"pwr", "down">>
    <3>1. PlanTable(j, SetupOp)
      BY <1>2, <1>28
    <3> QED
      BY <1>28, <3>1, Zenon DEF PlanTable
  <2>2. SetupOp[1] = "pwr" /\ SetupOp[2] = "down"
    BY <2>1
  <2>3. /\ chip'.pwr = "down" /\ ~chip'.xtal /\ chip'.fifo = <<>> /\ ~chip'.sending
        /\ chip'.mask0 = chip.mask0 /\ chip'.mask1 = chip.mask1 /\ chip'.range = chip.range
        /\ chip'.done = chip.done
    BY <1>7, <2>2, WritePwrDown
  <2> QED
    BY <1>4, <1>6, <1>28, <2>3 DEF Edge, Level, Stage, OffStage, Quiet, NoMask,
       XtalStage, RangeStage, OnStage, Listening, SendStage, SentStage, WaitsXtal, Fills,
       Transmits, Restarts
<1>30. CASE j = 20
  <2>1. SetupOp = <<"clear", "">>
    <3>1. PlanTable(j, SetupOp)
      BY <1>2, <1>30
    <3> QED
      BY <1>30, <3>1, Zenon DEF PlanTable
  <2>2. SetupOp[1] = "clear"
    BY <2>1
  <2>3. /\ chip'.fifo = <<>>
        /\ chip'.pwr = chip.pwr /\ chip'.mask0 = chip.mask0 /\ chip'.mask1 = chip.mask1
        /\ chip'.xtal = chip.xtal /\ chip'.range = chip.range /\ chip'.done = chip.done
        /\ chip'.sending = chip.sending
    BY <1>7, <2>2, WriteClear
  <2> QED
    BY <1>4, <1>6, <1>30, <2>3 DEF Edge, Level, Stage, OffStage, Quiet, NoMask,
       XtalStage, RangeStage, OnStage, Listening, SendStage, SentStage, WaitsXtal, Fills,
       Transmits, Restarts
<1>31. CASE j = 21
  <2>1. SetupOp = <<"pwr", "rx">>
    <3>1. PlanTable(j, SetupOp)
      BY <1>2, <1>31
    <3> QED
      BY <1>31, <3>1, Zenon DEF PlanTable
  <2>2. SetupOp[1] = "pwr" /\ SetupOp[2] = "rx"
    BY <2>1
  <2>3. /\ chip'.pwr = "rx" /\ ~chip'.sending
        /\ chip'.mask0 = chip.mask0 /\ chip'.mask1 = chip.mask1 /\ chip'.xtal = chip.xtal
        /\ chip'.range = chip.range /\ chip'.fifo = chip.fifo /\ chip'.done = chip.done
    BY <1>7, <2>2, WritePwrUp
  <2> QED
    BY <1>4, <1>6, <1>31, <2>3 DEF Edge, Level, Stage, OffStage, Quiet, NoMask,
       XtalStage, RangeStage, OnStage, Listening, SendStage, SentStage, WaitsXtal, Fills,
       Transmits, Restarts
<1>33. CASE j = 23
  <2>1. SetupOp = <<"mask0", "fifo">>
    <3>1. PlanTable(j, SetupOp)
      BY <1>2, <1>33
    <3> QED
      BY <1>33, <3>1, Zenon DEF PlanTable
  <2>2. SetupOp[1] = "mask0" /\ SetupOp[2] = "fifo"
    BY <2>1
  <2>3. /\ chip'.mask0 = "fifo"
        /\ chip'.pwr = chip.pwr /\ chip'.mask1 = chip.mask1 /\ chip'.xtal = chip.xtal
        /\ chip'.range = chip.range /\ chip'.fifo = chip.fifo /\ chip'.done = chip.done
        /\ chip'.sending = chip.sending
    BY <1>7, <2>2, WriteMask0
  <2> QED
    BY <1>4, <1>6, <1>33, <2>3 DEF Edge, Level, Stage, OffStage, Quiet, NoMask,
       XtalStage, RangeStage, OnStage, Listening, SendStage, SentStage, WaitsXtal, Fills,
       Transmits, Restarts
<1>34. CASE j = 24
  <2>1. SetupOp = <<"mask1", "none">>
    <3>1. PlanTable(j, SetupOp)
      BY <1>2, <1>34
    <3> QED
      BY <1>34, <3>1, Zenon DEF PlanTable
  <2>2. SetupOp[1] = "mask1" /\ SetupOp[2] = "none"
    BY <2>1
  <2>3. /\ chip'.mask1 = "none"
        /\ chip'.pwr = chip.pwr /\ chip'.mask0 = chip.mask0 /\ chip'.xtal = chip.xtal
        /\ chip'.range = chip.range /\ chip'.fifo = chip.fifo /\ chip'.done = chip.done
        /\ chip'.sending = chip.sending
    BY <1>7, <2>2, WriteMask1
  <2> QED
    BY <1>4, <1>6, <1>34, <2>3 DEF Edge, Level, Stage, OffStage, Quiet, NoMask,
       XtalStage, RangeStage, OnStage, Listening, SendStage, SentStage, WaitsXtal, Fills,
       Transmits, Restarts
<1>35. CASE j = 25
  <2>1. SetupOp = <<"pwr", "xtal">>
    <3>1. PlanTable(j, SetupOp)
      BY <1>2, <1>35
    <3> QED
      BY <1>35, <3>1, Zenon DEF PlanTable
  <2>2. SetupOp[1] = "pwr" /\ SetupOp[2] = "xtal"
    BY <2>1
  <2>3. /\ chip'.pwr = "xtal" /\ ~chip'.sending
        /\ chip'.mask0 = chip.mask0 /\ chip'.mask1 = chip.mask1 /\ chip'.xtal = chip.xtal
        /\ chip'.range = chip.range /\ chip'.fifo = chip.fifo /\ chip'.done = chip.done
    BY <1>7, <2>2, WritePwrUp
  <2> QED
    BY <1>4, <1>6, <1>35, <2>3 DEF Edge, Level, Stage, OffStage, Quiet, NoMask,
       XtalStage, RangeStage, OnStage, Listening, SendStage, SentStage, WaitsXtal, Fills,
       Transmits, Restarts
<1>36. CASE j = 26
  <2>1. SetupOp = <<"pwr", "fifo">>
    <3>1. PlanTable(j, SetupOp)
      BY <1>2, <1>36
    <3> QED
      BY <1>36, <3>1, Zenon DEF PlanTable
  <2>2. SetupOp[1] = "pwr" /\ SetupOp[2] = "fifo"
    BY <2>1
  <2>3. /\ chip'.pwr = "fifo" /\ ~chip'.sending
        /\ chip'.mask0 = chip.mask0 /\ chip'.mask1 = chip.mask1 /\ chip'.xtal = chip.xtal
        /\ chip'.range = chip.range /\ chip'.fifo = chip.fifo /\ chip'.done = chip.done
    BY <1>7, <2>2, WritePwrUp
  <2> QED
    BY <1>4, <1>6, <1>36, <2>3 DEF Edge, Level, Stage, OffStage, Quiet, NoMask,
       XtalStage, RangeStage, OnStage, Listening, SendStage, SentStage, WaitsXtal, Fills,
       Transmits, Restarts
<1>38. CASE j = 28
  <2>1. SetupOp = <<"mask0", "none">>
    <3>1. PlanTable(j, SetupOp)
      BY <1>2, <1>38
    <3> QED
      BY <1>38, <3>1, Zenon DEF PlanTable
  <2>2. SetupOp[1] = "mask0" /\ SetupOp[2] = "none"
    BY <2>1
  <2>3. /\ chip'.mask0 = "none"
        /\ chip'.pwr = chip.pwr /\ chip'.mask1 = chip.mask1 /\ chip'.xtal = chip.xtal
        /\ chip'.range = chip.range /\ chip'.fifo = chip.fifo /\ chip'.done = chip.done
        /\ chip'.sending = chip.sending
    BY <1>7, <2>2, WriteMask0
  <2> QED
    BY <1>4, <1>6, <1>38, <2>3 DEF Edge, Level, Stage, OffStage, Quiet, NoMask,
       XtalStage, RangeStage, OnStage, Listening, SendStage, SentStage, WaitsXtal, Fills,
       Transmits, Restarts
<1>39. CASE j = 29
  <2>1. SetupOp = <<"mask1", "xtal">>
    <3>1. PlanTable(j, SetupOp)
      BY <1>2, <1>39
    <3> QED
      BY <1>39, <3>1, Zenon DEF PlanTable
  <2>2. SetupOp[1] = "mask1" /\ SetupOp[2] = "xtal"
    BY <2>1
  <2>3. /\ chip'.mask1 = "xtal"
        /\ chip'.pwr = chip.pwr /\ chip'.mask0 = chip.mask0 /\ chip'.xtal = chip.xtal
        /\ chip'.range = chip.range /\ chip'.fifo = chip.fifo /\ chip'.done = chip.done
        /\ chip'.sending = chip.sending
    BY <1>7, <2>2, WriteMask1
  <2> QED
    BY <1>4, <1>6, <1>39, <2>3 DEF Edge, Level, Stage, OffStage, Quiet, NoMask,
       XtalStage, RangeStage, OnStage, Listening, SendStage, SentStage, WaitsXtal, Fills,
       Transmits, Restarts
<1>50. j \notin OtherPlaces
  <2> SUFFICES ASSUME j \in OtherPlaces PROVE SetupOp[1] \in {"state", "while"}
    BY <1>1 DEF Writes
  <2>1. PlanTable(j, SetupOp)
    BY <1>2 DEF OtherPlaces
  <2> QED
    BY <2>1, PlanNames
<1>51. \/ j <= 3 \/ j = 5 \/ j = 6 \/ j = 7 \/ j = 9 \/ j = 10 \/ j = 13 \/ j = 14
       \/ j = 17 \/ j = 18 \/ j = 20 \/ j = 21 \/ j = 23 \/ j = 24 \/ j = 25
       \/ j = 26 \/ j = 28 \/ j = 29
  BY <1>2, <1>3, <1>50 DEF OtherPlaces
<1> QED
  BY <1>10, <1>51, <1>15, <1>16, <1>17, <1>19, <1>20, <1>23, <1>24, <1>27, <1>28, <1>30,
     <1>31, <1>33, <1>34, <1>35, <1>36, <1>38, <1>39

(* So does a store, and a loop that ends: RadioXtalON and rf_startup go on  *)
(* when the task has changed ubRFState.                                     *)
LEMMA SetupStepStages ==
    ASSUME NEW j \in Int, SetupAt(j), sends \in Nat, Stage(j, "idle", 1),
           IRQ2_Sem \in Nat, DOMAIN chip = ChipFields, SetupStep
    PROVE  /\ DOMAIN chip' = ChipFields /\ IRQ2_Sem' \in Nat
           /\ SetupAt(j + 1)' /\ Stage(j + 1, "idle", 1)'
<1>1. /\ setup # <<>> /\ setup' = Tail(setup) /\ IRQ2_Sem = 0
      /\ chip' = chip /\ IRQ2_Sem' = IRQ2_Sem /\ crossed' = crossed /\ sends' = sends
  BY Zenon DEF SetupStep, history
<1>2. j <= End /\ (j >= 1 => PlanTable(j, SetupOp)) /\ SetupAt(j + 1)'
  BY <1>1, SetupOn
<1>3. End \in {24, 29}
  BY SetupRest
<1>4. /\ SetupOp[1] = "state" => ubRFState' = SetupOp[2]
      /\ SetupOp[1] = "while" => ubRFState # SetupOp[2] /\ ubRFState' = ubRFState
      /\ SetupOp[1] \in {"state", "while", "poll"}
  BY Zenon DEF SetupStep
<1>5. chip' = chip /\ IRQ2_Sem = 0 /\ IRQ2_Sem' = IRQ2_Sem /\ crossed' = crossed
  BY <1>1
<1> SUFFICES Stage(j + 1, "idle", 1)'
  BY <1>1, <1>2
<1>10. CASE j <= 3
  BY <1>10 DEF Stage
<1>14. CASE j = 4
  <2>1. SetupOp = <<"state", "off">>
    <3>1. PlanTable(j, SetupOp)
      BY <1>2, <1>14
    <3> QED
      BY <1>14, <3>1, Zenon DEF PlanTable
  <2>2. SetupOp[1] = "state" /\ SetupOp[2] = "off"
    BY <2>1
  <2>3. ubRFState' = "off"
    BY <1>4, <2>2
  <2> QED
    BY <1>5, <1>14, <2>3 DEF Stage, OffStage, Quiet, NoMask,
       XtalStage, RangeStage, OnStage, Listening, SendStage, SentStage, WaitsXtal, Fills,
       Transmits, Restarts
<1>18. CASE j = 8
  <2>1. SetupOp = <<"state", "wait_xtal">>
    <3>1. PlanTable(j, SetupOp)
      BY <1>2, <1>18
    <3> QED
      BY <1>18, <3>1, Zenon DEF PlanTable
  <2>2. SetupOp[1] = "state" /\ SetupOp[2] = "wait_xtal"
    BY <2>1
  <2>3. ubRFState' = "wait_xtal"
    BY <1>4, <2>2
  <2> QED
    BY <1>5, <1>18, <2>3 DEF Stage, OffStage, Quiet, NoMask,
       XtalStage, RangeStage, OnStage, Listening, SendStage, SentStage, WaitsXtal, Fills,
       Transmits, Restarts
<1>21. CASE j = 11
  <2>1. SetupOp = <<"while", "wait_xtal">>
    <3>1. PlanTable(j, SetupOp)
      BY <1>2, <1>21
    <3> QED
      BY <1>21, <3>1, Zenon DEF PlanTable
  <2>2. SetupOp[1] = "while" /\ SetupOp[2] = "wait_xtal"
    BY <2>1
  <2>3. ubRFState # "wait_xtal" /\ ubRFState' = ubRFState
    BY <1>4, <2>2
  <2> QED
    BY <1>5, <1>21, <2>3 DEF Stage, OffStage, Quiet, NoMask,
       XtalStage, RangeStage, OnStage, Listening, SendStage, SentStage, WaitsXtal, Fills,
       Transmits, Restarts
<1>22. CASE j = 12
  <2>1. SetupOp = <<"state", "pll_ranging">>
    <3>1. PlanTable(j, SetupOp)
      BY <1>2, <1>22
    <3> QED
      BY <1>22, <3>1, Zenon DEF PlanTable
  <2>2. SetupOp[1] = "state" /\ SetupOp[2] = "pll_ranging"
    BY <2>1
  <2>3. ubRFState' = "pll_ranging"
    BY <1>4, <2>2
  <2> QED
    BY <1>5, <1>22, <2>3 DEF Stage, OffStage, Quiet, NoMask,
       XtalStage, RangeStage, OnStage, Listening, SendStage, SentStage, WaitsXtal, Fills,
       Transmits, Restarts
<1>25. CASE j = 15
  <2>1. SetupOp = <<"while", "pll_ranging">>
    <3>1. PlanTable(j, SetupOp)
      BY <1>2, <1>25
    <3> QED
      BY <1>25, <3>1, Zenon DEF PlanTable
  <2>2. SetupOp[1] = "while" /\ SetupOp[2] = "pll_ranging"
    BY <2>1
  <2>3. ubRFState # "pll_ranging" /\ ubRFState' = ubRFState
    BY <1>4, <2>2
  <2> QED
    BY <1>5, <1>25, <2>3 DEF Stage, OffStage, Quiet, NoMask,
       XtalStage, RangeStage, OnStage, Listening, SendStage, SentStage, WaitsXtal, Fills,
       Transmits, Restarts
<1>26. CASE j = 16
  <2>1. SetupOp = <<"state", "off">>
    <3>1. PlanTable(j, SetupOp)
      BY <1>2, <1>26
    <3> QED
      BY <1>26, <3>1, Zenon DEF PlanTable
  <2>2. SetupOp[1] = "state" /\ SetupOp[2] = "off"
    BY <2>1
  <2>3. ubRFState' = "off"
    BY <1>4, <2>2
  <2> QED
    BY <1>5, <1>26, <2>3 DEF Stage, OffStage, Quiet, NoMask,
       XtalStage, RangeStage, OnStage, Listening, SendStage, SentStage, WaitsXtal, Fills,
       Transmits, Restarts
<1>29. CASE j = 19
  <2>1. SetupOp = <<"state", "rx">>
    <3>1. PlanTable(j, SetupOp)
      BY <1>2, <1>29
    <3> QED
      BY <1>29, <3>1, Zenon DEF PlanTable
  <2>2. SetupOp[1] = "state" /\ SetupOp[2] = "rx"
    BY <2>1
  <2>3. ubRFState' = "rx"
    BY <1>4, <2>2
  <2> QED
    BY <1>5, <1>29, <2>3 DEF Stage, OffStage, Quiet, NoMask,
       XtalStage, RangeStage, OnStage, Listening, SendStage, SentStage, WaitsXtal, Fills,
       Transmits, Restarts
<1>32. CASE j = 22
  <2>1. SetupOp = <<"state", "rx">>
    <3>1. PlanTable(j, SetupOp)
      BY <1>2, <1>32
    <3> QED
      BY <1>32, <3>1, Zenon DEF PlanTable
  <2>2. SetupOp[1] = "state" /\ SetupOp[2] = "rx"
    BY <2>1
  <2>3. ubRFState' = "rx"
    BY <1>4, <2>2
  <2> QED
    BY <1>5, <1>32, <2>3 DEF Stage, OffStage, Quiet, NoMask,
       XtalStage, RangeStage, OnStage, Listening, SendStage, SentStage, WaitsXtal, Fills,
       Transmits, Restarts
<1>37. CASE j = 27
  <2>1. SetupOp = <<"state", "tx_xtalwait">>
    <3>1. PlanTable(j, SetupOp)
      BY <1>2, <1>37
    <3> QED
      BY <1>37, <3>1, Zenon DEF PlanTable
  <2>2. SetupOp[1] = "state" /\ SetupOp[2] = "tx_xtalwait"
    BY <2>1
  <2>3. ubRFState' = "tx_xtalwait"
    BY <1>4, <2>2
  <2> QED
    BY <1>5, <1>37, <2>3 DEF Stage, OffStage, Quiet, NoMask,
       XtalStage, RangeStage, OnStage, Listening, SendStage, SentStage, WaitsXtal, Fills,
       Transmits, Restarts
<1>50. j \notin TransferPlaces
  <2> SUFFICES ASSUME j \in TransferPlaces PROVE SetupOp[1] \in Writes
    BY <1>4 DEF Writes
  <2>1. PlanTable(j, SetupOp)
    BY <1>2 DEF TransferPlaces
  <2> QED
    BY <2>1, PlanNames
<1>51. \/ j <= 3 \/ j = 4 \/ j = 8 \/ j = 11 \/ j = 12 \/ j = 15 \/ j = 16 \/ j = 19
       \/ j = 22 \/ j = 27
  BY <1>2, <1>3, <1>50 DEF TransferPlaces
<1> QED
  BY <1>10, <1>51, <1>14, <1>18, <1>21, <1>22, <1>25, <1>26, <1>29, <1>32, <1>37

-----------------------------------------------------------------------------
(* The driver's invariant *)

(* rf_4068_Init is the plan without Normal_send. *)
LEMMA InitIsPlan == rf_4068_Init = SubSeq(Plan, 1, Before + 24)
<1> DEFINE a == rf_4068_Init
           p == Plan
           n == Before + 24
<1>1. /\ a \in Seq(Ops) /\ p \in Seq(Ops) /\ Len(a) = n
      /\ \A q \in 1..n : p[q] = a[q]
  BY PlanCode, Zenon
<1>3. n \in Nat /\ n \in 0..Len(p)
  <2>1. Len(p) = Before + 29 /\ Before \in Nat
    BY PlanCode
  <2> HIDE DEF p
  <2> QED
    BY <2>1
<1> HIDE DEF a, p, n
<1>2. a = SubSeq(p, 1, n)
  BY <1>1, <1>3
<1> QED
  BY <1>2 DEF a, p, n

(* Nothing but the places of the task and of the set-up, and what holds     *)
(* there, is to be shown.                                                   *)
LEMMA DriverBack ==
    ASSUME DOMAIN chip' = ChipFields, IRQ2_Sem' \in Nat, sends' \in Nat,
           NEW t \in Kinds, NEW l \in 1..8, NEW q, At(t, l)', SetupAt(q)', Stage(q, t, l)'
    PROVE  DriverInv'
<1>1. q \in (1 - Before)..(End' + 1) /\ Before \in Nat
  BY PlanCode DEF SetupAt
<1>3. PICK e \in {24, 29} : e = End'
  BY DEF End
<1>4. q \in (1 - Before)..(e + 1)
  BY <1>1, <1>3, Zenon
<1>2. q \in (1 - Before)..30
  <2>1. e = 24 \/ e = 29
    OBVIOUS
  <2>2. Before \in Nat
    BY <1>1
  <2> QED
    BY <1>4, <2>1, <2>2
<1> QED
  BY <1>2 DEF DriverInv

(* The start. *)
LEMMA DriverStart == Init => DriverInv
<1> SUFFICES ASSUME Init PROVE DriverInv
  OBVIOUS
<1>1. chip = ResetChip /\ IRQ2_Sem = 0 /\ task = <<>> /\ setup = rf_4068_Init /\ sends = 0
  BY DEF Init
<1>2. DOMAIN chip = ChipFields /\ IRQ2_Sem \in Nat /\ sends \in Nat
  BY <1>1 DEF ResetChip, ChipFields
<1>3. At("idle", 1) /\ "idle" \in Kinds
  <2>1. "idle" \in Kinds /\ Code("idle") = <<>>
    BY CodeIsSeq DEF Kinds
  <2>2. SubSeq(<<>>, 1, 0) = <<>> /\ Len(<<>>) = 0
    OBVIOUS
  <2> QED
    BY <1>1, <2>1, <2>2, 1 \in 1..8, Zenon DEF At
<1>4. PICK j : j = 1 - Before
  OBVIOUS
<1>5. Before \in Nat /\ End = 24
  BY <1>1, PlanCode DEF End
<1>6. j \in (1 - Before)..30 /\ j <= 1 /\ j \in (1 - Before)..(End + 1) /\ Before + j = 1
  BY <1>4, <1>5
<1>7. SetupAt(j)
  BY <1>1, <1>5, <1>6, InitIsPlan DEF SetupAt
<1>8. Stage(j, "idle", 1)
  BY <1>6 DEF Stage
<1> QED
  BY <1>2, <1>3, <1>6, <1>7, <1>8 DEF DriverInv

(* The chip's steps leave the code where it is. *)
LEMMA ChipDriver == ASSUME PacketInv, DriverInv, Chip PROVE DriverInv'
<1>1. PICK s \in Kinds, k \in 1..8, j \in (1 - Before)..30 : At(s, k) /\ SetupAt(j)
      /\ Stage(j, s, k)
  BY DEF DriverInv
<1>2. DOMAIN chip = ChipFields /\ IRQ2_Sem \in Nat /\ sends \in Nat /\ j \in Int
  BY PlanCode DEF DriverInv
<1>3. UNCHANGED <<task, setup, sends, ubRFState, crossed>>
  BY DEF Chip, XtalReady, RangingDone, Chunk, SignalGone, SendDone, ChipVars, history
<1>4. At(s, k)' /\ SetupAt(j)' /\ sends' \in Nat
  BY <1>1, <1>2, <1>3 DEF At, SetupAt, End
<1>5. DOMAIN chip' = ChipFields /\ IRQ2_Sem' \in Nat /\ Stage(j, s, k)'
  <2>1. CASE XtalReady
    BY <1>1, <1>2, <2>1, XtalStages
  <2>2. CASE RangingDone
    BY <1>1, <1>2, <2>2, RangingStages
  <2>3. CASE \E c \in {"data", "other", "rssi"} : Chunk(c)
    BY <1>1, <1>2, <2>3, ChunkStages
  <2>4. CASE SendDone
    BY <1>1, <1>2, <2>4, SendDoneStages
  <2>5. CASE SignalGone
    <3>1. chip' = chip /\ IRQ2_Sem' = IRQ2_Sem
      BY <2>5 DEF SignalGone
    <3>2. Stage(j, s, k)'
      BY <1>1, <1>3, <3>1 DEF Stage, OffStage, Quiet, NoMask, XtalStage, RangeStage, OnStage,
         Listening, SendStage, SentStage, WaitsXtal, Fills, Transmits, Restarts
    <3> QED
      BY <1>2, <3>1, <3>2
  <2> QED
    BY <2>1, <2>2, <2>3, <2>4, <2>5 DEF Chip
<1> QED
  BY <1>4, <1>5, DriverBack

(* The task's steps leave the set-up where it is. *)
LEMMA TaskDriver == ASSUME DriverInv, rf_4068_task_callback PROVE DriverInv'
<1>1. PICK s \in Kinds, k \in 1..8, j \in (1 - Before)..30 : At(s, k) /\ SetupAt(j)
      /\ Stage(j, s, k)
  BY DEF DriverInv
<1>2. DOMAIN chip = ChipFields /\ IRQ2_Sem \in Nat /\ sends \in Nat /\ j \in Int
  BY PlanCode DEF DriverInv
<1>3. UNCHANGED <<setup, sends>>
  BY DEF rf_4068_task_callback, TakeSem, TaskWrite, TaskStore, BeginReceive, Drain, Drained,
     Hand, Sent
<1>4. SetupAt(j)' /\ sends' \in Nat
  BY <1>1, <1>2, <1>3 DEF SetupAt, End
<1>5. /\ DOMAIN chip' = ChipFields /\ IRQ2_Sem' \in Nat
      /\ \E t \in Kinds, l \in 1..8 : At(t, l)' /\ Stage(j, t, l)'
  <2>1. CASE TakeSem
    <3>1. task = <<>> /\ chip' = chip
      BY <2>1 DEF TakeSem
    <3>2. s = "idle" /\ k = 1
      BY <1>1, <3>1, TaskIdle DEF At
    <3>3. Stage(j, "idle", 1)
      BY <1>1, <3>2
    <3>4. \E t \in Kinds : At(t, 1)' /\ Stage(j, t, 1)' /\ IRQ2_Sem' \in Nat
      BY <1>1, <1>2, <2>1, <3>3, TakeSemStages
    <3> QED
      BY <1>2, <3>1, <3>4, 1 \in 1..8
  <2>2. CASE TaskWrite
    BY <1>1, <1>2, <2>2, TaskWriteStages
  <2>3. CASE TaskStore
    BY <1>1, <1>2, <2>3, TaskStoreStages
  <2>4. CASE BeginReceive
    BY <1>1, <1>2, <2>4, BeginStages
  <2>5. CASE Drain
    BY <1>1, <1>2, <2>5, DrainStages
  <2>6. CASE Drained
    BY <1>1, <1>2, <2>6, DrainedStages
  <2>7. CASE Hand
    BY <1>1, <1>2, <2>7, HandStages
  <2>8. CASE Sent
    BY <1>1, <1>2, <2>8, SentStages
  <2> QED
    BY <2>1, <2>2, <2>3, <2>4, <2>5, <2>6, <2>7, <2>8 DEF rf_4068_task_callback
<1> QED
  BY <1>4, <1>5, DriverBack

(* The set-up goes on while the task waits; sendlow begins it again. *)
LEMMA SetupDriver == ASSUME DriverInv, Setup \/ sendlow PROVE DriverInv'
<1>1. PICK s \in Kinds, k \in 1..8, j \in (1 - Before)..30 : At(s, k) /\ SetupAt(j)
      /\ Stage(j, s, k)
  BY DEF DriverInv
<1>2. DOMAIN chip = ChipFields /\ IRQ2_Sem \in Nat /\ sends \in Nat /\ j \in Int
  BY PlanCode DEF DriverInv
<1>3. task = <<>> /\ task' = task
  BY Zenon DEF Setup, SetupWrite, SetupStep, sendlow
<1>4. s = "idle" /\ k = 1
  BY <1>1, <1>3, TaskIdle DEF At
<1>5. At("idle", 1)' /\ Stage(j, "idle", 1) /\ "idle" \in Kinds /\ 1 \in 1..8
  BY <1>1, <1>3, <1>4 DEF At
<1>6. CASE Setup
  <2>1. /\ DOMAIN chip' = ChipFields /\ IRQ2_Sem' \in Nat
        /\ SetupAt(j + 1)' /\ Stage(j + 1, "idle", 1)'
    BY <1>1, <1>2, <1>5, <1>6, SetupWriteStages, SetupStepStages DEF Setup
  <2>2. sends' = sends
    BY <1>6, Zenon DEF Setup, SetupWrite, SetupStep
  <2> QED
    BY <1>2, <1>5, <2>1, <2>2, DriverBack
<1>7. CASE sendlow
  <2>1. chip' = chip /\ IRQ2_Sem' = IRQ2_Sem /\ sends' = sends + 1 /\ setup' = Plan
    BY <1>7 DEF sendlow, Plan
  <2>2. sends' \in Nat /\ End' = 29
    BY <1>2, <2>1 DEF End
  <2>3. Plan = SubSeq(Plan, 1, Before + 29)
    <3> DEFINE p == Plan
               n == Before + 29
    <3>1. p \in Seq(Ops) /\ n = Len(p)
      BY PlanCode
    <3> HIDE DEF p, n
    <3>2. p = SubSeq(p, 1, n)
      BY <3>1
    <3> QED
      BY <3>2 DEF p, n
  <2>4. PICK q : q = 1 - Before
    OBVIOUS
  <2>5. Before \in Nat
    BY PlanCode
  <2>6. q \in (1 - Before)..(29 + 1) /\ q <= 1 /\ Before + q = 1
    BY <2>4, <2>5
  <2>7. SetupAt(q)'
    BY <2>1, <2>2, <2>3, <2>6 DEF SetupAt
  <2>8. Stage(q, "idle", 1)'
    BY <2>6 DEF Stage
  <2> QED
    BY <1>2, <1>5, <2>1, <2>2, <2>7, <2>8, DriverBack
<1> QED
  BY <1>6, <1>7

(* In every state of every behaviour the chip is as the places of the task  *)
(* and of the set-up say: rf_4068_task_callback, rf_4068_Init and           *)
(* Normal_send, the interrupts wherever they come.                          *)
THEOREM DriverInvariance == Spec => []DriverInv
<1>1. PacketInv /\ DriverInv /\ [Next]_vars => DriverInv'
  <2> SUFFICES ASSUME PacketInv, DriverInv, [Next]_vars PROVE DriverInv'
    OBVIOUS
  <2>1. CASE Next
    BY <2>1, ChipDriver, TaskDriver, SetupDriver DEF Next
  <2>2. CASE UNCHANGED vars
    <3>1. UNCHANGED <<task, setup, sends, ubRFState, crossed, chip, IRQ2_Sem>>
      BY <2>2 DEF vars, history
    <3>2. PICK s \in Kinds, k \in 1..8, j \in (1 - Before)..30 :
             At(s, k) /\ SetupAt(j) /\ Stage(j, s, k)
      BY DEF DriverInv
    <3>3. At(s, k)' /\ SetupAt(j)'
      BY <3>1, <3>2 DEF At, SetupAt, End
    <3>4. Stage(j, s, k)'
      BY <3>1, <3>2 DEF Stage, OffStage, Quiet, NoMask, XtalStage, RangeStage, OnStage,
         Listening, SendStage, SentStage, WaitsXtal, Fills, Transmits, Restarts
    <3> QED
      BY <3>1, <3>3, <3>4 DEF DriverInv
  <2> QED
    BY <2>1, <2>2
<1> QED
  BY DriverStart, PacketInvariance, <1>1, PTL DEF Spec

(* ReceiverOn, for any number of tunings and packets: once the set-up has   *)
(* come to its end the receiver is on and its interrupt enabled whenever    *)
(* the task waits.                                                          *)
THEOREM ReceiverIsOn == Spec => []ReceiverOn
<1>1. DriverInv => ReceiverOn
  <2> SUFFICES ASSUME DriverInv, setup = <<>>, sends = 0, task = <<>>
               PROVE  /\ ubRFState = "rx" /\ chip.pwr = "rx"
                      /\ chip.mask0 = "fifo" /\ chip.mask1 = "none"
    BY DEF ReceiverOn
  <2>1. PICK s \in Kinds, k \in 1..8, j \in (1 - Before)..30 :
           At(s, k) /\ SetupAt(j) /\ Stage(j, s, k)
    BY DEF DriverInv
  <2>2. j \in Int /\ End = 24
    BY PlanCode DEF End
  <2>3. j = 25
    BY <2>1, <2>2, SetupRest
  <2>4. s = "idle"
    BY <2>1, TaskIdle
  <2> QED
    BY <2>1, <2>3, <2>4 DEF Stage, OnStage, Listening
<1> QED
  BY DriverInvariance, <1>1, PTL

(* NoLostWakeup, for any number of tunings, packets and transmissions:      *)
(* while the task waits for IRQ2_Sem with nothing to take, the line is low, *)
(* so that the next event raises it.                                        *)
THEOREM NoWakeupIsLost == Spec => []NoLostWakeup
<1>1. DriverInv => NoLostWakeup
  <2> SUFFICES ASSUME DriverInv, setup = <<>>, task = <<>>, IRQ2_Sem = 0, ~crossed
               PROVE  ~Level(chip)
    BY DEF NoLostWakeup
  <2>1. PICK s \in Kinds, k \in 1..8, j \in (1 - Before)..30 :
           At(s, k) /\ SetupAt(j) /\ Stage(j, s, k)
    BY DEF DriverInv
  <2>2. j \in Int /\ sends \in Nat
    BY PlanCode DEF DriverInv
  <2>3. j = 25 \/ j = 30
    BY <2>1, <2>2, SetupRest
  <2>4. s = "idle"
    BY <2>1, TaskIdle
  <2> QED
    BY <2>1, <2>3, <2>4 DEF Stage, OnStage, Listening, SentStage, WaitsXtal, Fills,
       Transmits, Restarts, Level
<1> QED
  BY DriverInvariance, <1>1, PTL
=============================================================================
