---------------------------- MODULE RefundCalendar ----------------------------
(***************************************************************************)
(* The two refund deadlines as dates (refund-policy.ts): the end of the    *)
(* seventh day after a purchase, and the end of the same day three months  *)
(* later, both by the Korean calendar, with the last day of the month for  *)
(* a day that month does not have.  Refund takes of this only which of the *)
(* deadlines have passed.                                                  *)
(*                                                                         *)
(* Times are counted in units from the first midnight, UTC, of a calendar  *)
(* that is given by the lengths of its months.                             *)
(***************************************************************************)
EXTENDS Integers

CONSTANTS
  DayLength,    \* units in a day
  KstOffset,    \* units by which Korea is ahead of UTC
  MonthLength,  \* days in the n-th month, n >= 1
  LastMonth     \* bound: purchases are made in months 1 .. LastMonth

AutoRefundDays     == 7
ManualRefundMonths == 3

ASSUME CalendarAssumption ==
  /\ DayLength \in Nat \ {0} /\ KstOffset \in 0..(DayLength - 1)
  /\ LastMonth \in Nat \ {0}
  /\ MonthLength \in [1..(LastMonth + ManualRefundMonths) -> 28..31]
  /\ \A n \in 1..(LastMonth + 1) :
       MonthLength[n] + MonthLength[n + 1] + MonthLength[n + 2] \in 89..92

VARIABLE boughtAt  \* Purchase.created_at

\* The first day of each month, counted from day 0.
FirstDay[n \in 1..(LastMonth + ManualRefundMonths)] ==
  IF n = 1 THEN 0 ELSE FirstDay[n - 1] + MonthLength[n - 1]

KstDayIndex(t) == (t + KstOffset) \div DayLength
EndOfKstDay(d) == (d + 1) * DayLength - KstOffset

AutoRefundDeadline(t) == EndOfKstDay(KstDayIndex(t) + AutoRefundDays)

MonthOf(d) == CHOOSE n \in 1..LastMonth : FirstDay[n] <= d /\ d < FirstDay[n] + MonthLength[n]
DateOf(d)  == d - FirstDay[MonthOf(d)] + 1
Smaller(a, b) == IF a < b THEN a ELSE b

\* Mutant: a date the month does not have runs over into the next one.
SameDate(d, n) == FirstDay[n] + DateOf(d) - 1

\* The same date in month n, or the last one it has.
ClampedDate(d, n) == FirstDay[n] + Smaller(DateOf(d), MonthLength[n]) - 1

ManualRefundDeadline(t) ==
  LET d == KstDayIndex(t)
  IN EndOfKstDay(ClampedDate(d, MonthOf(d) + ManualRefundMonths))

\* What the two checks say of a paid purchase without a refund row.
CheckAuto(t, opened, now)   == ~ opened /\ now < AutoRefundDeadline(t)
CheckManual(t, opened, now) == opened /\ now < ManualRefundDeadline(t)

\* A purchase at every hour of every day of the calendar.
CalendarInit == boughtAt \in 0..(DayLength - 1)
CalendarNext ==
  /\ KstDayIndex(boughtAt + DayLength + 1) < FirstDay[LastMonth] + MonthLength[LastMonth]
  /\ boughtAt' = boughtAt + DayLength
CalendarSpec == CalendarInit /\ [][CalendarNext]_boughtAt
-----------------------------------------------------------------------------
(* Properties.                                                              *)

CalendarTypeOK == boughtAt \in Nat

\* The buyer has seven full days and no more than eight, and three months that
\* are not shorter than the shortest three and not longer than the longest;
\* both end at midnight in Korea, whatever the hour of the purchase; while no
\* deadline has passed exactly one way of refund is open, by whether the
\* content was; and who buys later never has to decide earlier, not even over
\* the end of a short month.  Refund's abstract ages rely on it.
DeadlinesAsPromised ==
  LET auto   == AutoRefundDeadline(boughtAt)
      manual == ManualRefundDeadline(boughtAt)
  IN /\ auto - boughtAt > 7 * DayLength /\ auto - boughtAt <= 8 * DayLength
     /\ manual - boughtAt > 89 * DayLength /\ manual - boughtAt <= 93 * DayLength
     /\ \A t \in {auto, manual} : (t + KstOffset) % DayLength = 0
     /\ \A opened \in BOOLEAN, now \in {boughtAt, auto - 1} :
          CheckAuto(boughtAt, opened, now) # CheckManual(boughtAt, opened, now)
     /\ AutoRefundDeadline(boughtAt + 1) >= auto
     /\ ManualRefundDeadline(boughtAt + 1) >= manual
=============================================================================
