------------------------------- MODULE CronTimes -------------------------------
(***************************************************************************)
(* When a schedule fires next: engine/schedule.go. Instants are seconds,   *)
(* on a calendar of UTC with its real months and leap years and with hours *)
(* and minutes as short as the instance wants them. NextRun reads the wall *)
(* clock of the location its `from` is in, which every caller makes UTC.   *)
(***************************************************************************)
EXTENDS Integers, FiniteSetsExt

CONSTANTS
  Seconds,  \* in a minute
  Minutes,  \* in an hour
  Hours     \* in a day

ASSUME ClockAssumption == {Seconds, Minutes, Hours} \subseteq Nat \ {0}

NoTime == -1  \* an error answer
Day == Seconds * Minutes * Hours
YearDays == 366

\* The fourth year of each cycle is a leap year; day 0 is a Sunday, 1 January.
MonthFirst(leap) == LET l == IF leap THEN 1 ELSE 0
  IN <<0, 31, 59+l, 90+l, 120+l, 151+l, 181+l, 212+l, 243+l, 273+l, 304+l, 334+l>>
MonthIn(first, d) == Max({k \in 1..12 : first[k] <= d})
CycleYear(d) == IF d = 1460 THEN 3 ELSE d \div 365
\* The months and days of the month, by the day of the cycle.
Calendar == [d \in 0 .. 1460 |->
  LET year == CycleYear(d)
      month == MonthIn(MonthFirst(year = 3), d - 365 * year)
  IN [month |-> month, dom |-> d - 365 * year - MonthFirst(year = 3)[month] + 1]]
DateOf(n) == [month |-> Calendar[n % 1461].month, dom |-> Calendar[n % 1461].dom, dow |-> n % 7]

DayOf(t) == t \div Day
HourOf(t) == (t % Day) \div (Seconds * Minutes)
MinuteOf(t) == (t \div Seconds) % Minutes
-----------------------------------------------------------------------------
(* A cron field is a set of parts; a part without a range is a star. *)

NoStep == 0
CronPart == [star : BOOLEAN, lo : Nat, hi : Nat, step : Int]
CronExpression == [{"minute", "hour", "dom", "month", "dow"} -> SUBSET CronPart]
Star == [star |-> TRUE, lo |-> 0, hi |-> 0, step |-> NoStep]
FromTo(lo, hi) == [star |-> FALSE, lo |-> lo, hi |-> hi, step |-> NoStep]
Every(part, n) == [part EXCEPT !.step = n]

\* The values a field allows, {} for every error: a step below 1, a value outside
\* min .. max, a range that runs backwards, no part at all.
CronField(field, min, max) ==
  LET lo(p) == IF p.star THEN min ELSE p.lo
      hi(p) == IF p.star THEN max ELSE p.hi
  IN IF \E p \in field : p.step < 0 \/ lo(p) < min \/ hi(p) > max \/ lo(p) > hi(p) THEN {}
     ELSE UNION {{v \in lo(p) .. hi(p) : p.step = NoStep \/ (v - lo(p)) % p.step = 0} : p \in field}

\* The day fields: OR when both are restricted, and only a bare star is not.
DayOkBoth(e, date) == date.dom \in CronField(e.dom, 1, 31) /\ date.dow \in CronField(e.dow, 0, 6)
DayOk(e, date) ==
  LET domMatch == date.dom \in CronField(e.dom, 1, 31)
      dowMatch == date.dow \in CronField(e.dow, 0, 6)
  IN CASE e.dom # {Star} /\ e.dow # {Star} -> domMatch \/ dowMatch
       [] e.dom # {Star} /\ e.dow = {Star} -> domMatch
       [] e.dom = {Star} /\ e.dow # {Star} -> dowMatch
       [] OTHER -> TRUE

\* The scan starts at the next whole minute and gives up after 366 days.
ScanFromThisMinute(from) == Seconds * (from \div Seconds)
ScanFrom(from) == Seconds * (from \div Seconds) + Seconds

NextCron(e, from) ==
  LET minutes == CronField(e.minute, 0, Minutes - 1)
      hours == CronField(e.hour, 0, Hours - 1)
      months == CronField(e.month, 1, 12)
      scan == {ScanFrom(from) + Seconds * i : i \in 0 .. YearDays * Hours * Minutes - 1}
      match == {t \in scan : /\ MinuteOf(t) \in minutes /\ HourOf(t) \in hours
                             /\ DateOf(DayOf(t)).month \in months /\ DayOk(e, DateOf(DayOf(t)))}
  IN IF {} \in {minutes, hours, months, CronField(e.dom, 1, 31), CronField(e.dow, 0, 6)} \/ match = {}
     THEN NoTime ELSE Min(match)

\* A location is the seconds its wall clock is ahead of UTC.
UTC == 0
\* A daily schedule: today's HH:MM in the location, or 24 hours later.
NextDaily(location, hh, mm, from) ==
  LET today == (DayOf(from + location) * Day + (hh * Minutes + mm) * Seconds) - location
  IN IF hh \notin 0 .. Hours - 1 \/ mm \notin 0 .. Minutes - 1 THEN NoTime
     ELSE IF today > from THEN today ELSE today + Day
-----------------------------------------------------------------------------
(* Properties. *)

\* What crontab(5) says of a minute: every field contains it, and a day need satisfy
\* only one of two restricted day fields; a field that starts with a star restricts
\* nothing for that rule.
Allows(field, v, min) ==
  \E p \in field : /\ p.star \/ v \in p.lo .. p.hi
                   /\ p.step = NoStep \/ v \in {(IF p.star THEN min ELSE p.lo) + p.step * k : k \in 0 .. v}
Standard(e, t) ==
  LET date == DateOf(DayOf(t))
      starred(field) == \E p \in field : p.star
      dom == Allows(e.dom, date.dom, 1)
      dow == Allows(e.dow, date.dow, 0)
  IN /\ t % Seconds = 0
     /\ Allows(e.minute, MinuteOf(t), 0) /\ Allows(e.hour, HourOf(t), 0) /\ Allows(e.month, date.month, 1)
     /\ IF starred(e.dom) \/ starred(e.dow) THEN dom /\ dow ELSE dom \/ dow

\* The first minute after `from` that standard cron would fire at, and an error exactly
\* when a year has none (29 February) or a field says nothing sensible: what a user of
\* the expression expects (schedule.go:94 "Standard cron OR semantics"). Two day fields
\* of which one is a star with a step are left out: this code combines them by OR,
\* crontab by AND.
Sensible(field, min, max) ==
  field # {} /\ \A p \in field : p.step >= NoStep /\ (p.star \/ (p.lo <= p.hi /\ {p.lo, p.hi} \subseteq min .. max))
SensibleExpression(e) ==
  /\ Sensible(e.minute, 0, Minutes - 1) /\ Sensible(e.hour, 0, Hours - 1)
  /\ Sensible(e.dom, 1, 31) /\ Sensible(e.month, 1, 12) /\ Sensible(e.dow, 0, 6)
IsNextCron(e, from, t) ==
  LET stepped(field) == field # {Star} /\ \E p \in field : p.star
      agreed == ~((stepped(e.dom) /\ e.dow # {Star}) \/ (stepped(e.dow) /\ e.dom # {Star}))
      until == IF t = NoTime THEN from + YearDays * Day ELSE t - 1
  IN IF ~SensibleExpression(e) THEN t = NoTime
     ELSE agreed => /\ t = NoTime \/ (t > from /\ Standard(e, t))
                    /\ \A u \in from + 1 .. until : ~Standard(e, u)

\* The daily time of today or tomorrow on the clock of a location, whichever is still
\* ahead. schedule.go:17 says local time; the callers ask for the clock of UTC.
IsNextDaily(location, hh, mm, from, t) ==
  LET clock == t + location
  IN IF t = NoTime THEN hh \notin 0 .. Hours - 1 \/ mm \notin 0 .. Minutes - 1
     ELSE t > from /\ t <= from + Day /\ HourOf(clock) = hh /\ MinuteOf(clock) = mm /\ clock % Seconds = 0
=============================================================================
