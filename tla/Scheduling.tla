----------------------------- MODULE Scheduling -----------------------------
(***************************************************************************)
(* When a message may go out: app/scheduling.py.  Pure operators, no state. *)
(*                                                                         *)
(* A time is a number of hours on the customer's (IST) clock, counted from *)
(* a midnight; day t \div 24 is the date.  MonthStarts holds the days on   *)
(* which a month begins, as far as the instance looks ahead.               *)
(***************************************************************************)
EXTENDS Integers, FiniteSetsExt

CONSTANTS
  MonthStarts,     (* days, as numbers of days since hour 0                *)
  SalaryWindowDay  (* SALARY_WINDOW_DAY                                    *)

ASSUME CalendarAssumption ==
  /\ MonthStarts \subseteq Nat
  /\ 0 \in MonthStarts
  /\ SalaryWindowDay \in 1..28

QuietStartHour == 21
QuietEndHour == 9
SalaryCycleFromDay == 24
SalaryWindowHour == 10

Hour(t) == t % 24
Day(t) == t \div 24

\* The day of the month, 1 for the day a month begins.
DayOfMonth(t) == Day(t) - Max({m \in MonthStarts : m <= Day(t)}) + 1
FirstOfNextMonth(t) == Min({m \in MonthStarts : m > Day(t)})

WithinSalaryWait(t) == DayOfMonth(t) >= SalaryCycleFromDay

\* The month's salary is awaited from the 24th on: the send moves to the
\* window day of the next month.
NextSalaryWindow(t) ==
  IF WithinSalaryWait(t)
  THEN Max({t, 24 * (FirstOfNextMonth(t) + SalaryWindowDay - 1) + SalaryWindowHour})
  ELSE t

WithinQuietHours(t) == Hour(t) >= QuietStartHour \/ Hour(t) < QuietEndHour

\* The next 09:00: this morning's before it, tomorrow's in the evening.
NextAllowedSend(t) ==
  IF ~WithinQuietHours(t) THEN t
  ELSE 24 * (IF Hour(t) >= QuietStartHour THEN Day(t) + 1 ELSE Day(t)) + QuietEndHour

\* The salary window first (INSUFFICIENT_FUNDS only), then the quiet hours.
AdjustSendTime(t, class) ==
  NextAllowedSend(IF class = "INSUFFICIENT_FUNDS" THEN NextSalaryWindow(t) ELSE t)

\* The rows of the last window that count as contacts of a customer.  done
\* gives each row's executed_at; the caller names the rows that share a phone
\* or an email and were sent.
ContactSends(rows, done, now, window) ==
  Cardinality({r \in rows : done[r] > now - window /\ done[r] <= now})
=============================================================================
