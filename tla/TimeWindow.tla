----------------------------- MODULE TimeWindow -----------------------------
(***************************************************************************)
(* Relative time windows (timewindow): a column stores "last week" or      *)
(* "last three months"; every read resolves it to two instants, by the     *)
(* clock and by the company's time zone at that moment.                    *)
(*                                                                         *)
(* An instant is a number of hours since the midnight, UTC, that begins    *)
(* day 0; a zone's clock is a whole number of hours from UTC, and an hour  *)
(* ahead in its summers.                                                   *)
(***************************************************************************)
EXTENDS Integers

CONSTANTS
  FirstYear,    \* day 0 is its January 1st ...
  FirstWeekday, \* ... and this day of the week, 0 a Monday
  LastYear,
  Zones,
  Clocks,       \* zone to its offset from UTC and to its summers, a beginning and an end each
  MaxMonths,
  Months,       \* bound: the month counts looked at
  From, Until,  \* bound: the instants looked at
  Step          \* bound: hours between two reads

WindowAssumption ==
  /\ FirstYear \in Nat /\ LastYear \in Nat /\ FirstWeekday \in 0..6
  /\ DOMAIN Clocks = Zones
  /\ \A z \in Zones : Clocks[z].standard \in -12..14 /\ Clocks[z].summers \subseteq (Nat \X Nat)
  /\ Months \subseteq 1..MaxMonths
  /\ From < Until /\ Step \in 1..24

VARIABLES
  now,   \* the instant of the read
  zone,  \* the company's zone
  prev   \* the instant of the read before, in the same zone, else of this one

windowVars == <<now, zone, prev>>

-----------------------------------------------------------------------------
(* The calendar (Go's time package).                                       *)

Leap(y) == y % 4 = 0 /\ (y % 100 # 0 \/ y % 400 = 0)
Length(y, m) == CASE m \in {4, 6, 9, 11} -> 30
                  [] m = 2 -> IF Leap(y) THEN 29 ELSE 28
                  [] OTHER -> 31

\* Days before January 1st of y, before the first of m in y.
YearStart(y) ==
  LET before(x) == 365 * x + (x + 3) \div 4 - (x + 99) \div 100 + (x + 399) \div 400
  IN before(y) - before(FirstYear)
MonthStart(y, m) ==
  LET days == [n \in 1..12 |-> CASE n = 1 -> 0 [] n = 2 -> 31 [] n = 3 -> 59 [] n = 4 -> 90
                 [] n = 5 -> 120 [] n = 6 -> 151 [] n = 7 -> 181 [] n = 8 -> 212
                 [] n = 9 -> 243 [] n = 10 -> 273 [] n = 11 -> 304 [] n = 12 -> 334]
  IN YearStart(y) + days[m] + (IF m > 2 /\ Leap(y) THEN 1 ELSE 0)

Year(day) == CHOOSE y \in FirstYear..LastYear : YearStart(y) <= day /\ day < YearStart(y + 1)
Month(day) == CHOOSE m \in 1..12 :
  MonthStart(Year(day), m) <= day /\ day < MonthStart(Year(day), m) + Length(Year(day), m)
DayOf(day) == day - MonthStart(Year(day), Month(day)) + 1

\* The offset of a zone from UTC at an instant.
OffsetAt(z, t) ==
  Clocks[z].standard + (IF \E s \in Clocks[z].summers : s[1] <= t /\ t < s[2] THEN 1 ELSE 0)

\* Time.In: the local hours of an instant; time.Date: the instant of local hours, where
\* the offset is looked up twice, as in Go.
Local(t, z) == t + OffsetAt(z, t)
Instant(l, z) == l - OffsetAt(z, l - OffsetAt(z, l))

-----------------------------------------------------------------------------
(* The windows.                                                            *)

Weekday(day) == (day + FirstWeekday) % 7  \* 0 a Monday

Today(t, z) == Local(t, z) \div 24
Hour(t, z) == Local(t, z) % 24

\* startOfDay.  Where clocks go forward at midnight there is none: the instant is an
\* hour off, on either side.
startOfDay(t, z) == Instant(24 * Today(t, z), z)

\* AddDate(0, 0, n), which keeps the hour.
AddDays(t, n, z) == Instant(24 * (Today(t, z) + n) + Hour(t, z), z)

\* StartOfWeek.
StartOfWeek(t, z) == AddDays(startOfDay(t, z), -Weekday(Today(t, z)), z)

\* (broken) AddDate, which lets the 31st of a short month run over into the next.
monthsBeforeOverflowing(t, n, z) ==
  LET day == Today(t, z)
      back == (12 * Year(day) + Month(day)) - 1 - n
  IN Instant(24 * (MonthStart(back \div 12, (back % 12) + 1) + DayOf(day) - 1) + Hour(t, z), z)

\* monthsBefore, daysIn.
monthsBefore(t, n, z) ==
  LET day == Today(t, z)
      back == (12 * Year(day) + Month(day)) - 1 - n
      y == back \div 12
      m == (back % 12) + 1
      d == IF DayOf(day) > Length(y, m) THEN Length(y, m) ELSE DayOf(day)
  IN Instant(24 * (MonthStart(y, m) + d - 1) + Hour(t, z), z)

\* Resolve.
Resolve(kind, n, t, z) ==
  LET day == Today(t, z)
  IN CASE kind = "LAST_WEEK" ->
            [from |-> AddDays(StartOfWeek(t, z), -7, z), to |-> StartOfWeek(t, z)]
       [] kind = "WEEK_TO_DATE" -> [from |-> StartOfWeek(t, z), to |-> t]
       [] kind = "MONTH_TO_DATE" -> [from |-> AddDays(startOfDay(t, z), 1 - DayOf(day), z), to |-> t]
       [] kind = "YEAR_TO_DATE" -> [from |-> Instant(24 * YearStart(Year(day)), z), to |-> t]
       [] kind = "LAST_N_MONTHS" -> [from |-> monthsBefore(t, n, z), to |-> t]

\* Contains.
Contains(range, t) == range.from <= t /\ t < range.to

-----------------------------------------------------------------------------
WindowInit == now = From /\ prev = From /\ zone \in Zones

Read ==
  /\ now + Step <= Until
  /\ now' = now + Step
  /\ prev' = now
  /\ UNCHANGED zone

Configure(z) ==
  /\ zone' = z
  /\ prev' = now
  /\ UNCHANGED now

WindowNext == Read \/ \E z \in Zones \ {zone} : Configure(z)

WindowSpec == WindowInit /\ [][WindowNext]_windowVars

-----------------------------------------------------------------------------
(* Properties.                                                             *)

TypeOK == now \in From..Until /\ prev \in From..now /\ zone \in Zones

\* The day of t begins with a midnight in the zone.
HasMidnight(t) == Hour(startOfDay(t, zone), zone) = 0

\* Weeks tile the time line (StartOfWeek, Resolve): last week ends where this week
\* begins and begins where the week of its own last hour begins, at a local Monday's
\* midnight, also across a change of the clocks.  On a day that has no midnight the
\* bounds are an hour early at most.
WeeksTile ==
  LET last == Resolve("LAST_WEEK", 0, now, zone)
      monday(t) == Weekday(Today(t, zone)) = 0 /\ Hour(t, zone) = 0
      off == IF HasMidnight(now) THEN 0 ELSE 1
  IN /\ \E d \in 0..off : monday(last.from + d) /\ monday(last.to + d)
     /\ HasMidnight(now) /\ HasMidnight(last.to - 1) => StartOfWeek(last.to - 1, zone) = last.from
     /\ Today(last.to + off, zone) - Today(last.from + off, zone) = 7
     /\ Contains([from |-> last.to, to |-> now + 1], now)

\* Last n months (monthsBefore) begins at the hour of the read, in the month n before,
\* on the same day or on that month's last, and an hour early at most when the clocks
\* skip that hour: never in the month after it.
MonthsClamped == \A n \in Months :
  LET day == Today(now, zone)
      t == monthsBefore(now, n, zone)
      then == Today(IF Hour(t, zone) = Hour(now, zone) THEN t ELSE t + 1, zone)
      index(x) == 12 * Year(x) + Month(x)
  IN /\ index(then) = index(day) - n
     /\ DayOf(then) # DayOf(day) =>
          DayOf(then) < DayOf(day) /\ index(then + 1) = index(then) + 1

\* Between two reads a window drops what it had left behind for good (Resolve): its
\* beginning moves back by less than a day (the last days of a long month share the
\* last day of a short one, each from its own hour), and not at all for weeks, months
\* and years to date, but by the missing hour of a day without a midnight.
MovesOn ==
  /\ \A n \in Months : monthsBefore(prev, n, zone) - monthsBefore(now, n, zone) < 24
  /\ \A k \in {"LAST_WEEK", "WEEK_TO_DATE", "MONTH_TO_DATE", "YEAR_TO_DATE"} :
       Resolve(k, 0, prev, zone).from - Resolve(k, 0, now, zone).from
         <= IF HasMidnight(now) THEN 0 ELSE 1

WindowSound == TypeOK /\ WeeksTile /\ MonthsClamped /\ MovesOn
=============================================================================
