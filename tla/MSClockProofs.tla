---------------------------- MODULE MSClockProofs ----------------------------
(***************************************************************************)
(* What holds of the date and time for all digits the operator may type:   *)
(* the clock stays in range, a report carries a fresh time of the clock,   *)
(* typed digits stay and appear under the mark.                            *)
(*                                                                         *)
(* The freshness of a report's time is a matter of counting turns: while   *)
(* nothing is edited the age of my_time is at most thread_time, since the  *)
(* turn with thread_time = 0 reads the clock, and every way out of an edit *)
(* makes the next turn such a one.                                         *)
(***************************************************************************)
EXTENDS MSClock, TLAPS

(* The fields of the date, which the time row of the settings leaves. *)
DateInRange == \A f \in {4, 5, 6} : clock[f] <= Limit[f]

RangeInv == DateInRange /\ SetsInRange

(* calm is 0 during an edit and in the turn after it, which will read the  *)
(* clock; after that my_time is the clock's and at most as old as the      *)
(* turns since thread_time was 0.                                          *)
StampInv ==
    MS \in {11, 12} =>
        /\ time_number # Browsing => calm = 0
        /\ time_number = Browsing /\ calm = 0 => thread_time = 0
        /\ calm >= 1 => /\ typed = {}
                        /\ age <= IF thread_time = 0 THEN 10 ELSE thread_time

-----------------------------------------------------------------------------
(* AtMost stays among the bytes of two digits and below its limit. *)
LEMMA AtMostRange ==
  ASSUME NEW x \in 0..99, NEW y \in 0..99
  PROVE  /\ AtMost(x, y) \in 0..99
         /\ AtMost(x, y) <= y
  BY DEF AtMost

(* A counted turn keeps age within its bound. *)
LEMMA OlderRange ==
  ASSUME NEW a \in 0..MaxAge
  PROVE  /\ Older(a) \in 0..MaxAge
         /\ Older(a) <= a + 1
  BY DEF Older, AtMost, MaxAge

(* The limits are two digit numbers. *)
LEMMA LimitRange == Limit \in [Fields -> 0..99]
  BY DEF Limit, Fields

(* The turn counter stays a digit, and is 0 after a turn that ends with 9. *)
LEMMA TurnRange ==
  ASSUME NEW t \in 0..9, TurnEnds(t)
  PROVE  /\ thread_time' \in 0..9
         /\ t = 9 => thread_time' = 0
         /\ t # 9 => thread_time' = t + 1
  BY DEF TurnEnds

(* The index computed from the mark is one of my_time. *)
LEMMA AddrRange ==
  ASSUME NEW n \in 0..11
  PROVE  time_addr(n) \in Fields
  BY DEF time_addr, Fields

(* The mark stays on the twelve digits. *)
LEMMA AdvanceRange ==
  ASSUME NEW n \in 0..11
  PROVE  Advance(n) \in 0..11
  BY DEF Advance

(* What a turn of MS_thread_ax works on has the types of the variables. *)
LEMMA TurnTypes ==
  ASSUME TypeOK
  PROVE  /\ Time \in [Fields -> 0..99]
         /\ Typed \subseteq Fields
         /\ AgeNow \in 0..MaxAge
  <1>1. Older(age) \in 0..MaxAge
    BY OlderRange DEF TypeOK
  <1> QED
    BY <1>1 DEF Time, Typed, AgeNow, TypeOK, MaxAge

(* A digit typed into a two digit number leaves one, whichever of the two  *)
(* it replaces.                                                            *)
LEMMA DigitValues ==
  ASSUME NEW x \in 0..99, NEW d \in 0..9
  PROVE  /\ (x \div 10) * 10 + d \in 0..99
         /\ ((x \div 10) * 10 + d) \div 10 = x \div 10
         /\ ((x \div 10) * 10 + d) % 10 = d
         /\ (x % 10) + d * 10 \in 0..99
         /\ ((x % 10) + d * 10) \div 10 = d
         /\ ((x % 10) + d * 10) % 10 = x % 10
  <1>1. PICK q \in 0..9, r \in 0..9 : x = 10 * q + r
    <2>1. x \div 10 \in 0..9 /\ x % 10 \in 0..9 /\ x = 10 * (x \div 10) + (x % 10)
      OBVIOUS
    <2> QED
      BY <2>1
  <1>2. x \div 10 = q /\ x % 10 = r
    BY <1>1
  <1> QED
    BY <1>2

-----------------------------------------------------------------------------
(* The bytes and counters of a turn keep their types, the digits typed     *)
(* included: a field never has more than two digits.                       *)
LEMMA DigitTypes ==
  ASSUME TypeOK, NEW d \in Digits, TypeDigit(d)
  PROVE  TypeOK'
  <1> DEFINE f == time_addr(time_number)
             x == Time[f]
             y == IF time_number % 2 = 1 THEN (x \div 10) * 10 + d
                                         ELSE (x % 10) + d * 10
  <1>1. time_number \in 0..11
    BY DEF TypeOK, TypeDigit, Browsing
  <1>2. f \in Fields
    BY <1>1, AddrRange
  <1>3. x \in 0..99 /\ d \in 0..9
    BY <1>2, TurnTypes, ClockAssumption
  <1>4. y \in 0..99
    BY <1>3, DigitValues
  <1>5. /\ my_time' = [Time EXCEPT ![f] = y] /\ typed' = Typed \cup {f}
        /\ time_number' = Advance(time_number) /\ age' = AgeNow
        /\ keys' = keys + 1 /\ keys < MaxKeys
        /\ UNCHANGED <<MS, clock, calm, source>> /\ TurnEnds(9)
    BY DEF TypeDigit
  <1> HIDE DEF f, x, y
  <1>6. my_time' \in [Fields -> 0..99] /\ typed' \subseteq Fields
    BY <1>2, <1>4, <1>5, TurnTypes
  <1>7. time_number' \in 0..11 /\ age' \in 0..MaxAge /\ thread_time' \in 0..9
    BY <1>1, <1>5, AdvanceRange, TurnTypes, TurnRange
  <1>8. keys' \in 0..MaxKeys
    BY <1>5, ClockAssumption DEF TypeOK
  <1> QED
    BY <1>5, <1>6, <1>7, <1>8 DEF TypeOK

(* The time row of the settings is brought below 100, in either field. *)
LEMMA RowTypes ==
  ASSUME TypeOK, NEW h \in RowValues, NEW m \in RowValues, NEW s \in RowValues,
         MS_thread_SetTime(h, m, s)
  PROVE  TypeOK'
  <1>1. h \in 0..99 /\ m \in 0..99 /\ s \in 0..99
    BY ClockAssumption
  <1>2. AtMost(m, 59) \in 0..99
    BY <1>1 DEF AtMost
  <1>3. my_time' \in [Fields -> 0..99]
    <2> DEFINE s1 == IF h > 23 THEN 23 ELSE s
               h1 == IF s1 > 59 THEN 59 ELSE h
    <2>1. my_time' = [my_time EXCEPT ![2] = h1, ![1] = AtMost(m, 59), ![0] = s1]
      BY DEF MS_thread_SetTime, RowTime
    <2>2. s1 \in 0..99 /\ h1 \in 0..99
      BY <1>1
    <2> QED
      BY <1>2, <2>1, <2>2 DEF TypeOK
  <1>4. clock' = [f \in Fields |-> IF f \in 0..2 THEN my_time'[f] ELSE clock[f]]
    BY DEF MS_thread_SetTime
  <1>5. clock' \in [Fields -> 0..99]
    BY <1>3, <1>4 DEF TypeOK
  <1>6. source' \in {"settings", "crosswise"}
    BY DEF MS_thread_SetTime
  <1> QED
    BY <1>3, <1>5, <1>6 DEF TypeOK, MS_thread_SetTime, editVars

(* What OK of the radio page gives the clock is within the limits. *)
LEMMA AcceptTypes ==
  ASSUME TypeOK, Accept
  PROVE  /\ TypeOK'
         /\ \A f \in Fields : clock'[f] <= Limit[f]
  <1>1. /\ my_time' = [f \in Fields |-> AtMost(Time[f], Limit[f])]
        /\ clock' = my_time' /\ source' = "radio" /\ time_number' = Browsing
        /\ typed' = {} /\ age' = 1 /\ calm' = 0 /\ UNCHANGED <<MS, keys>>
        /\ TurnEnds(9)
    BY DEF Accept, SetFrom
  <1>2. ASSUME NEW f \in Fields
        PROVE  AtMost(Time[f], Limit[f]) \in 0..99 /\ AtMost(Time[f], Limit[f]) <= Limit[f]
    <2>1. Time[f] \in 0..99 /\ Limit[f] \in 0..99
      BY TurnTypes, LimitRange
    <2> QED
      BY <2>1, AtMostRange
  <1>3. my_time' \in [Fields -> 0..99] /\ \A f \in Fields : clock'[f] <= Limit[f]
    BY <1>1, <1>2
  <1>4. thread_time' \in 0..9
    BY <1>1, TurnRange
  <1> QED
    BY <1>1, <1>3, <1>4 DEF TypeOK, MaxAge

(* The other turns of the radio page. *)
LEMMA TurnsTypes ==
  ASSUME TypeOK, Turn \/ Move \/ Open \/ GiveUp \/ Leave
  PROVE  TypeOK'
  <1>1. my_time' = Time /\ typed' = Typed /\ age' = AgeNow
    BY DEF Turn, Move, Open, GiveUp, GiveUpAs, Leave
  <1>2. clock' = clock /\ keys' = keys /\ source' = source
    BY DEF Turn, Move, Open, GiveUp, GiveUpAs, Leave, editVars
  <1>3. MS' \in {1, 11}
    BY DEF Turn, Move, Open, GiveUp, GiveUpAs, Leave
  <1>4. thread_time' \in 0..9
    BY TurnRange DEF Turn, Move, Open, GiveUp, GiveUpAs, Leave, TypeOK
  <1>5. calm' \in 0..2
    BY DEF Turn, Move, Open, GiveUp, GiveUpAs, Leave, TypeOK, AtMost
  <1>6. time_number' \in 0..11 \cup {Browsing}
    <2>1. CASE Move
      <3>1. time_number \in 0..11
        BY <2>1 DEF Move, TypeOK, Browsing
      <3>2. Advance(time_number) \in 0..11
        BY <3>1, AdvanceRange
      <3> QED
        BY <2>1, <3>1, <3>2 DEF Move
    <2> QED
      BY <2>1 DEF Turn, Open, GiveUp, GiveUpAs, Leave, TypeOK, editVars
  <1> QED
    BY <1>1, <1>2, <1>3, <1>4, <1>5, <1>6, TurnTypes DEF TypeOK

(* The steps that are not turns of MS_thread_ax. *)
LEMMA PageTypes ==
  ASSUME TypeOK,
         SelectRadio \/ MS_thread_ax_start \/ Report \/ MS_thread_ax_refresh
  PROVE  TypeOK'
  <1>1. CASE SelectRadio \/ Report
    BY <1>1 DEF SelectRadio, Report, TypeOK, editVars, history
  <1>2. CASE MS_thread_ax_start \/ MS_thread_ax_refresh
    <2>1. my_time' = clock /\ age' = 1 /\ typed' = {} /\ clock' = clock
      BY <1>2 DEF MS_thread_ax_start, MS_thread_ax_refresh, get_date
    <2>2. MS' = 11 /\ keys' = keys /\ source' = source
      BY <1>2 DEF MS_thread_ax_start, MS_thread_ax_refresh, editVars
    <2>3. thread_time' \in 0..9
      BY <1>2, TurnRange DEF MS_thread_ax_start, MS_thread_ax_refresh, TypeOK
    <2>4. time_number' \in 0..11 \cup {Browsing} /\ calm' \in 0..2
      BY <1>2 DEF MS_thread_ax_start, MS_thread_ax_refresh, TypeOK, editVars, AtMost
    <2> QED
      BY <2>1, <2>2, <2>3, <2>4 DEF TypeOK, MaxAge
  <1> QED
    BY <1>1, <1>2

(* The types of the clock's variables, for any digits the operator types   *)
(* and any numbers in the time row.                                        *)
THEOREM ClockTypeOK == Spec => []TypeOK
  <1>1. Init => TypeOK
    BY ClockAssumption DEF Init, TypeOK, MaxAge
  <1>2. TypeOK /\ [Next]_vars => TypeOK'
    <2> SUFFICES ASSUME TypeOK, [Next]_vars PROVE TypeOK'
      OBVIOUS
    <2>1. CASE UNCHANGED vars
      BY <2>1 DEF vars, editVars, history, TypeOK
    <2>2. CASE \E h, m, s \in RowValues : MS_thread_SetTime(h, m, s)
      BY <2>2, RowTypes
    <2>3. CASE SelectRadio \/ MS_thread_ax_start \/ Report \/ MS_thread_ax_refresh
      BY <2>3, PageTypes
    <2>4. CASE MS_thread_ax
      BY <2>4, DigitTypes, AcceptTypes, TurnsTypes DEF MS_thread_ax
    <2> QED
      BY <2>1, <2>2, <2>3, <2>4 DEF Next
  <1> QED
    BY <1>1, <1>2, PTL DEF Spec

-----------------------------------------------------------------------------
(* Only the time row and OK of the radio page set the clock. *)
LEMMA ClockSetters ==
  ASSUME [Next]_vars
  PROVE  \/ \E h, m, s \in RowValues : MS_thread_SetTime(h, m, s)
         \/ Accept
         \/ clock' = clock /\ source' = source
  BY DEF Next, MS_thread_ax, SelectRadio, MS_thread_ax_start, Report,
         MS_thread_ax_refresh, Turn, TypeDigit, Move, Open, GiveUp, GiveUpAs, Leave,
         vars, history

(* A row within its limits gives the clock a time of day and leaves the    *)
(* date.                                                                   *)
LEMMA RowRange ==
  ASSUME TypeOK, RangeInv, NEW h \in RowValues, NEW m \in RowValues,
         NEW s \in RowValues, MS_thread_SetTime(h, m, s)
  PROVE  RangeInv'
  <1>1. h \in 0..99 /\ m \in 0..99 /\ s \in 0..99
    BY ClockAssumption
  <1>2. clock' = [f \in Fields |-> IF f \in 0..2 THEN my_time'[f] ELSE clock[f]]
    BY DEF MS_thread_SetTime
  <1>3. DateInRange'
    <2>1. ASSUME NEW f \in {4, 5, 6} PROVE clock'[f] <= Limit[f]
      BY <1>2 DEF RangeInv, DateInRange, Fields
    <2> QED
      BY <2>1 DEF DateInRange
  <1>4. ASSUME source' # "crosswise", NEW f \in Fields
        PROVE  clock'[f] <= Limit[f]
    <2>1. h <= 23 /\ s <= 59
      BY <1>1, <1>4 DEF MS_thread_SetTime
    <2>2. my_time' = [my_time EXCEPT ![2] = h, ![1] = AtMost(m, 59), ![0] = s]
      <3>1. ~(h > 23) /\ ~(s > 59)
        BY <1>1, <2>1
      <3> QED
        BY <3>1 DEF MS_thread_SetTime, RowTime
    <2>3. AtMost(m, 59) <= 59
      BY <1>1 DEF AtMost
    <2>4. my_time'[2] = h /\ my_time'[1] = AtMost(m, 59) /\ my_time'[0] = s
      BY <2>2 DEF TypeOK, Fields
    <2>5. Limit[2] = 23 /\ Limit[1] = 59 /\ Limit[0] = 59
      BY DEF Limit, Fields
    <2>6. CASE f \in {0, 1, 2}
      BY <1>2, <2>1, <2>3, <2>4, <2>5, <2>6 DEF Fields
    <2>7. CASE f \in {4, 5, 6}
      BY <1>3, <2>7 DEF DateInRange
    <2> QED
      BY <2>6, <2>7 DEF Fields
  <1> QED
    BY <1>3, <1>4 DEF RangeInv, SetsInRange

(* Whatever digits are typed, on whichever of the two pages and in any     *)
(* order, MS_thread_ax and MS_thread_SetTime give the clock a time of day, *)
(* a month of at most 12 and a day of at most 31, unless hours or seconds  *)
(* out of range are typed in the time row.  The row leaves the date, so    *)
(* the date is in range even then.                                         *)
THEOREM ClockInRange == Spec => []SetsInRange
  <1>1. Init => RangeInv
    BY DEF Init, RangeInv, DateInRange, SetsInRange, Limit, Fields
  <1>2. TypeOK /\ RangeInv /\ [Next]_vars => RangeInv'
    <2> SUFFICES ASSUME TypeOK, RangeInv, [Next]_vars PROVE RangeInv'
      OBVIOUS
    <2>1. CASE \E h, m, s \in RowValues : MS_thread_SetTime(h, m, s)
      BY <2>1, RowRange
    <2>2. CASE Accept
      <3>1. \A f \in Fields : clock'[f] <= Limit[f]
        BY <2>2, AcceptTypes
      <3> QED
        BY <3>1 DEF RangeInv, DateInRange, SetsInRange, Fields
    <2>3. CASE clock' = clock /\ source' = source
      BY <2>3 DEF RangeInv, DateInRange, SetsInRange
    <2> QED
      BY <2>1, <2>2, <2>3, ClockSetters
  <1>3. RangeInv => SetsInRange
    BY DEF RangeInv
  <1> QED
    BY ClockTypeOK, <1>1, <1>2, <1>3, PTL DEF Spec

-----------------------------------------------------------------------------
(* StampInv by counting turns: a turn that does not read the clock has     *)
(* thread_time # 0, or is part of an edit, and then calm stays 0.          *)
LEMMA StampStep ==
  ASSUME TypeOK, StampInv, [Next]_vars
  PROVE  StampInv'
  <1>1. CASE UNCHANGED vars
    BY <1>1 DEF vars, editVars, history, StampInv
  <1>2. CASE \E h, m, s \in RowValues : MS_thread_SetTime(h, m, s)
    <2>1. MS' = 1
      BY <1>2 DEF MS_thread_SetTime
    <2> QED
      BY <2>1 DEF StampInv
  <1>3. CASE SelectRadio \/ Leave
    <2>1. MS' \in {1, 10}
      BY <1>3 DEF SelectRadio, Leave
    <2> QED
      BY <2>1 DEF StampInv
  <1>4. CASE Report
    BY <1>4 DEF Report, StampInv, editVars, history
  <1>5. CASE MS_thread_ax_start
    <2>1. /\ time_number' = Browsing /\ calm' = 2 /\ typed' = {} /\ age' = 1
          /\ TurnEnds(thread_time)
      BY <1>5 DEF MS_thread_ax_start, get_date
    <2>2. thread_time' \in 0..9
      BY <2>1, TurnRange DEF TypeOK
    <2> QED
      BY <2>1, <2>2 DEF StampInv
  <1>6. CASE MS_thread_ax_refresh
    <2>1. /\ time_number' = time_number /\ typed' = {} /\ age' = 1 /\ MS = 12
          /\ calm' = IF time_number = Browsing THEN AtMost(calm + 1, 2) ELSE calm
          /\ TurnEnds(thread_time)
      BY <1>6 DEF MS_thread_ax_refresh, get_date, editVars
    <2>2. thread_time' \in 0..9
      BY <2>1, TurnRange DEF TypeOK
    <2> QED
      BY <2>1, <2>2 DEF StampInv, TypeOK, AtMost
  <1>7. CASE Turn
    <2>1. /\ time_number' = time_number /\ typed' = Typed /\ age' = AgeNow /\ MS = 11
          /\ calm' = IF time_number = Browsing THEN AtMost(calm + 1, 2) ELSE calm
          /\ TurnEnds(thread_time)
      BY <1>7 DEF Turn, editVars
    <2>2. CASE time_number # Browsing
      BY <2>1, <2>2 DEF StampInv
    <2>3. CASE time_number = Browsing /\ thread_time = 0
      <3>1. typed' = {} /\ age' = 1
        BY <2>1, <2>3 DEF Typed, AgeNow, ReadNow, ReadIf
      <3>2. calm' >= 1 /\ thread_time' = 1
        BY <2>1, <2>3, TurnRange DEF TypeOK, AtMost
      <3> QED
        BY <2>1, <3>1, <3>2, <2>3 DEF StampInv
    <2>4. CASE time_number = Browsing /\ thread_time # 0
      <3>1. typed' = typed /\ age' = Older(age)
        BY <2>1, <2>4 DEF Typed, AgeNow, ReadNow, ReadIf
      <3>2. calm >= 1 /\ typed = {} /\ age <= thread_time
        BY <2>1, <2>4 DEF StampInv, TypeOK
      <3>3. calm' >= 1
        BY <2>1, <2>4 DEF TypeOK, AtMost
      <3>4. age' <= thread_time + 1
        BY <3>1, <3>2, OlderRange DEF TypeOK, MaxAge, Older, AtMost
      <3>5. age' <= IF thread_time' = 0 THEN 10 ELSE thread_time'
        BY <2>1, <3>4, TurnRange DEF TypeOK
      <3> QED
        BY <2>1, <2>4, <3>1, <3>2, <3>3, <3>5 DEF StampInv
    <2> QED
      BY <2>2, <2>3, <2>4
  <1>8. CASE (\E d \in Digits : TypeDigit(d)) \/ Move
    <2>1. /\ MS = 11 /\ time_number < 12 /\ calm' = calm
          /\ time_number' # Browsing
      BY <1>8 DEF TypeDigit, Move, Advance, TypeOK, Browsing
    <2>2. calm = 0
      BY <2>1 DEF StampInv, TypeOK, Browsing
    <2> QED
      BY <2>1, <2>2 DEF StampInv
  <1>9. CASE Open \/ Accept \/ GiveUp
    <2>1. calm' = 0 /\ TurnEnds(9)
      BY <1>9 DEF Open, Accept, SetFrom, GiveUp, GiveUpAs
    <2>2. thread_time' = 0
      BY <2>1, TurnRange
    <2> QED
      BY <2>1, <2>2 DEF StampInv
  <1> QED
    BY <1>1, <1>2, <1>3, <1>4, <1>5, <1>6, <1>7, <1>8, <1>9 DEF Next, MS_thread_ax

(* Though the turns in which MS_thread_ax would read the clock may go to   *)
(* reports, MS_thread_ax_refresh puts a time on a report that was read     *)
(* from the clock at most ten turns before and has no typed digit in it,   *)
(* unless the operator edits the date or gave it up in the turn before.    *)
THEOREM StampsOfClock == Spec => StampOfClock
  <1>1. Init => StampInv
    BY DEF Init, StampInv
  <1>2. TypeOK /\ StampInv /\ [Next]_vars => StampInv'
    BY StampStep
  <1>3. TypeOK /\ StampInv /\ [Next]_vars =>
            [MS = 12 /\ MS' = 11 /\ calm >= 1 => typed = {} /\ age <= 10]_vars
    BY DEF StampInv, TypeOK
  <1> QED
    BY ClockTypeOK, <1>1, <1>2, <1>3, PTL DEF Spec, StampOfClock

-----------------------------------------------------------------------------
(* While the date is edited a turn works on my_time as it is. *)
LEMMA EditKeepsTime ==
  ASSUME time_number < 12, TypeOK
  PROVE  Time = my_time /\ Typed = typed
  <1>1. time_number # Browsing
    BY DEF TypeOK, Browsing
  <1> QED
    BY <1>1 DEF Time, Typed, ReadNow, ReadIf

(* No turn of the edit takes a typed digit away or changes a field that    *)
(* has none: get_date is not called in an edit, whatever thread_time is.   *)
THEOREM TypedDigitsKept == Spec => TypedKept
  <1> DEFINE Kept == time_number < 12 /\ time_number' < 12 /\ MS = 11 =>
                         typed \subseteq typed' /\ \A f \in Fields : f \notin typed' =>
                                                my_time'[f] = my_time[f]
  <1>1. TypeOK /\ [Next]_vars => [Kept]_vars
    <2> SUFFICES ASSUME TypeOK, Next, time_number < 12, time_number' < 12, MS = 11
                 PROVE  typed \subseteq typed' /\ \A f \in Fields : f \notin typed' =>
                                                my_time'[f] = my_time[f]
      OBVIOUS
    <2>1. Time = my_time /\ Typed = typed
      BY EditKeepsTime
    <2>2. CASE Turn \/ Move \/ Open \/ GiveUp \/ Leave
      BY <2>1, <2>2 DEF Turn, Move, Open, GiveUp, GiveUpAs, Leave
    <2>3. CASE \E d \in Digits : TypeDigit(d)
      <3>1. PICK d \in Digits : TypeDigit(d)
        BY <2>3
      <3> DEFINE f == time_addr(time_number)
      <3>2. typed' = typed \cup {f}
        BY <2>1, <3>1 DEF TypeDigit
      <3>3. \E y : my_time' = [my_time EXCEPT ![f] = y]
        BY <2>1, <3>1 DEF TypeDigit
      <3> HIDE DEF f
      <3> QED
        BY <3>2, <3>3 DEF TypeOK
    <2>4. CASE Accept
      BY <2>4 DEF Accept, SetFrom, Browsing
    <2>5. CASE Report
      BY <2>5 DEF Report, history
    <2>6. ~SelectRadio /\ ~MS_thread_ax_start /\ ~MS_thread_ax_refresh
      BY DEF SelectRadio, MS_thread_ax_start, MS_thread_ax_refresh
    <2>7. ~\E h, m, s \in RowValues : MS_thread_SetTime(h, m, s)
      BY DEF MS_thread_SetTime
    <2> QED
      BY <2>2, <2>3, <2>4, <2>5, <2>6, <2>7 DEF Next, MS_thread_ax
  <1> QED
    BY ClockTypeOK, <1>1, PTL DEF Spec, TypedKept

-----------------------------------------------------------------------------
(* The characters of 20YY-MM-DD hh:mm:ss that show digits of my_time, the  *)
(* field each belongs to, and whether it is the tens.                      *)
Characters == {2, 3, 5, 6, 8, 9, 11, 12, 14, 15, 17, 18}
FieldOf(c) == CASE c \in {2, 3} -> 6 [] c \in {5, 6} -> 5 [] c \in {8, 9} -> 4
                [] c \in {11, 12} -> 2 [] c \in {14, 15} -> 1 [] c \in {17, 18} -> 0
IsTens(c) == c \in {2, 5, 8, 11, 14, 17}

(* ax_time_show, character by character. *)
LEMMA ScreenShows ==
  ASSUME NEW t
  PROVE  Screen(t) = [c \in Characters |-> IF IsTens(c) THEN t[FieldOf(c)] \div 10
                                                        ELSE t[FieldOf(c)] % 10]
  <1> DEFINE At == [c \in {2, 3, 5, 6, 8, 9, 11, 12, 14, 15, 17, 18} |->
                 CASE c \in 2..3   -> <<6, c - 2>> [] c \in 5..6   -> <<5, c - 5>>
                   [] c \in 8..9   -> <<4, c - 8>> [] c \in 11..12 -> <<2, c - 11>>
                   [] c \in 14..15 -> <<1, c - 14>> [] c \in 17..18 -> <<0, c - 17>>]
  <1>1. Screen(t) = [c \in DOMAIN At |-> IF At[c][2] = 0 THEN t[At[c][1]] \div 10
                                                         ELSE t[At[c][1]] % 10]
    BY DEF Screen
  <1>2. DOMAIN At = Characters
    BY DEF Characters
  <1>3. ASSUME NEW c \in Characters
        PROVE  At[c][1] = FieldOf(c) /\ (At[c][2] = 0 <=> IsTens(c))
    <2>1. CASE c = 2
      BY <2>1 DEF FieldOf, IsTens
    <2>2. CASE c = 3
      BY <2>2 DEF FieldOf, IsTens
    <2>3. CASE c = 5
      BY <2>3 DEF FieldOf, IsTens
    <2>4. CASE c = 6
      BY <2>4 DEF FieldOf, IsTens
    <2>5. CASE c = 8
      BY <2>5 DEF FieldOf, IsTens
    <2>6. CASE c = 9
      BY <2>6 DEF FieldOf, IsTens
    <2>7. CASE c = 11
      BY <2>7 DEF FieldOf, IsTens
    <2>8. CASE c = 12
      BY <2>8 DEF FieldOf, IsTens
    <2>9. CASE c = 14
      BY <2>9 DEF FieldOf, IsTens
    <2>10. CASE c = 15
      BY <2>10 DEF FieldOf, IsTens
    <2>11. CASE c = 17
      BY <2>11 DEF FieldOf, IsTens
    <2>12. CASE c = 18
      BY <2>12 DEF FieldOf, IsTens
    <2> QED
      BY <2>1, <2>2, <2>3, <2>4, <2>5, <2>6, <2>7, <2>8, <2>9, <2>10, <2>11, <2>12
         DEF Characters
  <1> HIDE DEF At
  <1> QED
    BY <1>1, <1>2, <1>3

(* The position lcd_show_zf_time marks is the character of the digit that  *)
(* MS_thread_ax changes.                                                   *)
LEMMA MarkAgrees ==
  ASSUME NEW n \in 0..11
  PROVE  /\ Marked(n) \in Characters
         /\ FieldOf(Marked(n)) = time_addr(n)
         /\ IsTens(Marked(n)) <=> n % 2 # 1
  BY DEF Marked, Characters, FieldOf, IsTens, time_addr

(* No two characters show the same digit of the same field. *)
LEMMA CharactersDiffer ==
  ASSUME NEW b \in Characters, NEW c \in Characters, FieldOf(b) = FieldOf(c),
         IsTens(b) <=> IsTens(c)
  PROVE  b = c
  BY DEF Characters, FieldOf, IsTens

(* A digit typed at the mark n changes the character there and no other. *)
LEMMA DigitShown ==
  ASSUME NEW t \in [Fields -> 0..99], NEW n \in 0..11, NEW d \in 0..9, NEW y,
         y = IF n % 2 = 1 THEN (t[time_addr(n)] \div 10) * 10 + d
                          ELSE (t[time_addr(n)] % 10) + d * 10
  PROVE  Screen([t EXCEPT ![time_addr(n)] = y]) = [Screen(t) EXCEPT ![Marked(n)] = d]
  <1> DEFINE f == time_addr(n)
             u == [t EXCEPT ![f] = y]
             Digit(v, c) == IF IsTens(c) THEN v[FieldOf(c)] \div 10
                                         ELSE v[FieldOf(c)] % 10
  <1>1. f \in Fields /\ t[f] \in 0..99
    BY AddrRange
  <1>2. /\ n % 2 = 1 => y \div 10 = t[f] \div 10 /\ y % 10 = d
        /\ n % 2 # 1 => y \div 10 = d /\ y % 10 = t[f] % 10
    BY <1>1, DigitValues
  <1>3. u[f] = y /\ \A g \in Fields : g # f => u[g] = t[g]
    BY <1>1
  <1>4. ASSUME NEW c \in Characters
        PROVE  Digit(u, c) = IF c = Marked(n) THEN d ELSE Digit(t, c)
    <2>1. FieldOf(c) \in Fields
      BY DEF Characters, FieldOf, Fields
    <2>2. CASE FieldOf(c) # f
      <3>1. c # Marked(n)
        BY <2>2, MarkAgrees
      <3>2. u[FieldOf(c)] = t[FieldOf(c)]
        BY <1>3, <2>1, <2>2
      <3> HIDE DEF u, f
      <3> QED
        BY <3>1, <3>2
    <2>3. CASE FieldOf(c) = f /\ (IsTens(c) <=> n % 2 # 1)
      <3>1. c = Marked(n)
        BY <2>3, MarkAgrees, CharactersDiffer
      <3>2. u[FieldOf(c)] = y
        BY <1>3, <2>3
      <3> HIDE DEF u, f
      <3> QED
        BY <1>2, <2>3, <3>1, <3>2
    <2>4. CASE FieldOf(c) = f /\ ~(IsTens(c) <=> n % 2 # 1)
      <3>1. c # Marked(n)
        BY <2>4, MarkAgrees
      <3>2. u[FieldOf(c)] = y
        BY <1>3, <2>4
      <3> HIDE DEF u, f
      <3> QED
        BY <1>2, <2>4, <3>1, <3>2
    <2> QED
      BY <2>2, <2>3, <2>4
  <1>5. Marked(n) \in Characters
    BY MarkAgrees
  <1>6. /\ Screen(u) = [c \in Characters |-> Digit(u, c)]
        /\ Screen(t) = [c \in Characters |-> Digit(t, c)]
    BY ScreenShows
  <1> HIDE DEF Digit, u
  <1>7. Screen(u) = [Screen(t) EXCEPT ![Marked(n)] = d]
    BY <1>4, <1>5, <1>6
  <1> QED
    BY <1>7 DEF u

(* For every digit and every position of the mark: the index MS_thread_ax  *)
(* computes, the order of ax_time_show and the position lcd_show_zf_time   *)
(* inverts agree, so the digit appears under the mark, and nothing else on *)
(* the screen changes (the clock is not read in that turn).                *)
THEOREM DigitsAtMark == Spec => DigitAtMark
  <1> DEFINE AtMark == \A d \in Digits : TypeDigit(d) =>
                 Screen(my_time') = [Screen(my_time) EXCEPT ![Marked(time_number)] = d]
  <1>1. TypeOK /\ [Next]_vars => [AtMark]_vars
    <2> SUFFICES ASSUME TypeOK, NEW d \in Digits, TypeDigit(d)
                 PROVE  Screen(my_time') =
                            [Screen(my_time) EXCEPT ![Marked(time_number)] = d]
      OBVIOUS
    <2> DEFINE f == time_addr(time_number)
               y == IF time_number % 2 = 1 THEN (my_time[f] \div 10) * 10 + d
                                           ELSE (my_time[f] % 10) + d * 10
    <2>1. time_number \in 0..11 /\ d \in 0..9
      BY ClockAssumption DEF TypeDigit, TypeOK, Browsing
    <2>2. Time = my_time
      BY EditKeepsTime DEF TypeDigit
    <2>3. my_time' = [my_time EXCEPT ![f] = y]
      BY <2>2 DEF TypeDigit
    <2>4. my_time \in [Fields -> 0..99]
      BY DEF TypeOK
    <2>5. y = IF time_number % 2 = 1
              THEN (my_time[time_addr(time_number)] \div 10) * 10 + d
              ELSE (my_time[time_addr(time_number)] % 10) + d * 10
      OBVIOUS
    <2> HIDE DEF y
    <2>6. Screen([my_time EXCEPT ![time_addr(time_number)] = y]) =
              [Screen(my_time) EXCEPT ![Marked(time_number)] = d]
      BY <2>1, <2>4, <2>5, DigitShown
    <2> QED
      BY <2>3, <2>6
  <1> QED
    BY ClockTypeOK, <1>1, PTL DEF Spec, DigitAtMark
=============================================================================
