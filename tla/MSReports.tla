----------------------------- MODULE MSReports -----------------------------
(***************************************************************************)
(* What the radio page promises: while it is open, packets of meters may   *)
(* complete a report, which is accepted unless another one waits; each     *)
(* report accepted is filed once, as it was accepted.  Only closing the    *)
(* page may drop one.                                                      *)
(***************************************************************************)
EXTENDS Naturals

CONSTANTS
    Reports,    \* the possible reports
    None        \* no report

VARIABLES
    open,       \* whether the page is open
    heard,      \* how many packets have come
    pending,    \* the report that has been accepted and is not filed yet
    last,       \* the report that was filed last
    count       \* how many have been filed

vars == <<open, heard, pending, last, count>>

Init ==
    /\ open = FALSE /\ heard = 0 /\ pending = None
    /\ last = None /\ count = 0

Open == ~open /\ open' = TRUE /\ UNCHANGED <<heard, pending, last, count>>

(* A packet that completes a report, and one that does not. *)
Accept ==
    /\ heard' = heard + 1
    /\ open /\ pending = None /\ pending' \in Reports
    /\ UNCHANGED <<open, last, count>>

Ignore ==
    /\ heard' = heard + 1
    /\ UNCHANGED <<open, pending, last, count>>

File ==
    /\ pending # None
    /\ last' = pending /\ count' = count + 1 /\ pending' = None
    /\ UNCHANGED <<open, heard>>

Close ==
    /\ open /\ open' = FALSE
    /\ pending' = None
    /\ UNCHANGED <<heard, last, count>>

Next == Open \/ Accept \/ Ignore \/ File \/ Close

Spec == Init /\ [][Next]_vars
=============================================================================
