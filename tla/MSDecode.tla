----------------------------- MODULE MSDecode -----------------------------
(***************************************************************************)
(* The checks rf4068_rx_callback (Radio_Decoder.c) makes of a packet.      *)
(*                                                                         *)
(* A meter sends a block of eight times eight bits in which every row and  *)
(* every column has an even number of ones; each bit is sent as two chips, *)
(* 01 for a one and 10 for a zero.  The air disturbs chips.  The decoder   *)
(* refuses a packet with a pair of equal chips, or with an odd row or      *)
(* column, and files the data of every other one.                          *)
(*                                                                         *)
(* A block is the set of its ones, and what is received the set of the     *)
(* chips that are high.  The decoder keeps nothing between two packets, so *)
(* one packet is followed.  What the bits of an accepted block mean is in  *)
(* MSRadio.                                                                *)
(***************************************************************************)
EXTENDS Integers, FiniteSets

CONSTANTS
    Bytes, Bits,    \* the rows and the columns of a block: eight each
    MaxBad          \* bound: disturbed chips

ASSUME DecodeAssumption ==
    IsFiniteSet(Bytes) /\ IsFiniteSet(Bits) /\ MaxBad \in Nat

Cells == Bytes \X Bits
Chips == Cells \X {1, 2}    \* the first and the second chip of a bit

Row(b, i) == {j \in Bits : <<i, j>> \in b}
Column(b, j) == {i \in Bytes : <<i, j>> \in b}
Even(S) == Cardinality(S) % 2 = 0

Valid_Rows(b) == \A i \in Bytes : Even(Row(b, i))      \* planted defect

(* validity1 and validity2. *)
Valid(b) == /\ \A i \in Bytes : Even(Row(b, i))
            /\ \A j \in Bits : Even(Column(b, j))

(* What meters send (external). *)
Blocks == {b \in SUBSET Cells : /\ \A i \in Bytes : Even(Row(b, i))
                                /\ \A j \in Bits : Even(Column(b, j))}
Encode(b) == {<<c, 2>> : c \in b} \cup {<<c, 1>> : c \in Cells \ b}

(* Planted defect: a pair of equal chips counts as a zero. *)
Coded_Any(rx) == \A c \in Cells : <<c, 1>> \in rx \/ TRUE

(* No pair of equal chips. *)
Coded(rx) == \A c \in Cells : (<<c, 1>> \in rx) # (<<c, 2>> \in rx)

Decode(rx) == {c \in Cells : <<c, 1>> \notin rx /\ <<c, 2>> \in rx}

VARIABLES
    sent,           \* the block the meter sent
    rx_buffer,      \* the chips that are high
    data_buffer,    \* the decoded bits
    verdict         \* "air": the packet is on its way

decodeVars == <<sent, rx_buffer, data_buffer, verdict>>

(* The chips that are not as they were sent. *)
Disturbed == (Encode(sent) \ rx_buffer) \cup (rx_buffer \ Encode(sent))

DecodeInit ==
    /\ sent \in Blocks /\ rx_buffer = Encode(sent)
    /\ data_buffer = {} /\ verdict = "air"

(* The air (external): a chip is received wrongly. *)
Disturb(c) ==
    /\ verdict = "air" /\ c \notin Disturbed /\ Cardinality(Disturbed) < MaxBad
    /\ rx_buffer' = IF c \in rx_buffer THEN rx_buffer \ {c} ELSE rx_buffer \cup {c}
    /\ UNCHANGED <<sent, data_buffer, verdict>>

(* A packet of another length, or outside the radio page, is passed over.  *)
Ignore ==
    /\ verdict = "air" /\ verdict' = "ignored"
    /\ UNCHANGED <<sent, rx_buffer, data_buffer>>

RefuseCoding ==
    /\ verdict = "air" /\ ~Coded(rx_buffer) /\ verdict' = "coding"
    /\ UNCHANGED <<sent, rx_buffer, data_buffer>>

CheckValidity ==
    /\ verdict = "air" /\ Coded(rx_buffer)
    /\ data_buffer' = Decode(rx_buffer)
    /\ verdict' = IF Valid(data_buffer') THEN "ok" ELSE "validity"
    /\ UNCHANGED <<sent, rx_buffer>>

rf4068_rx_callback == Ignore \/ RefuseCoding \/ CheckValidity

DecodeNext == (\E c \in Chips : Disturb(c)) \/ rf4068_rx_callback

DecodeSpec == DecodeInit /\ [][DecodeNext]_decodeVars

-----------------------------------------------------------------------------
(* Type invariant of the decoder's checks. *)
DecodeTypeOK ==
    /\ sent \in Blocks /\ rx_buffer \subseteq Chips /\ data_buffer \subseteq Cells
    /\ verdict \in {"air", "ignored", "coding", "validity", "ok"}

(* The data of an accepted packet are what the meter sent unless at least  *)
(* eight chips were disturbed: the coding and the two parities of          *)
(* rf4068_rx_callback together leave no smaller error undetected.          *)
DataIntact == verdict = "ok" /\ Cardinality(Disturbed) < 8 => data_buffer = sent

(* No good packet is refused by the checks, and none of the smaller errors *)
(* is repaired: a packet of which one to seven chips were disturbed is     *)
(* refused.                                                                *)
RefusedIfDisturbed ==
    verdict \in {"coding", "validity", "ok"} /\ Cardinality(Disturbed) < 8 =>
        (verdict = "ok" <=> Disturbed = {})
=============================================================================
