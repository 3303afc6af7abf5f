---------------------------- MODULE PureCalls_proofs ----------------------------
(***************************************************************************)
(* Theorems about the functions of PureCalls, for every cron expression and *)
(* every length of hours and minutes, for every definition, and for every   *)
(* loop and parallel step with any number of branches, items and steps.     *)
(***************************************************************************)
EXTENDS PureCalls, FiniteSetTheorems, NaturalsInduction, WellFoundedInduction, TLAPS

\* The least of some numbers: what every induction below rests on.
LEMMA LeastNumber ==
  ASSUME NEW T, T \subseteq Nat, T # {}
  PROVE  \E x \in T : \A y \in T : x <= y
<1>1. PICK x \in T : \A y \in T : <<y, x>> \notin OpToRel(<, Nat)
  BY NatLessThanWellFounded, WFMin, Zenon
<1>2. ASSUME NEW y \in T PROVE x <= y
  <2>1. <<y, x>> \notin {ss \in Nat \X Nat : ss[1] < ss[2]}
    BY <1>1, Zenon DEF OpToRel
  <2>2. <<y, x>> \in Nat \X Nat /\ <<y, x>>[1] = y /\ <<y, x>>[2] = x
    OBVIOUS
  <2>3. ~(y < x)
    BY <2>1, <2>2, Zenon
  <2>. QED
    BY <2>3
<1>. QED
  BY <1>2
-----------------------------------------------------------------------------
(* Division. *)

LEMMA Division ==
  ASSUME NEW a \in Int, NEW d \in Nat \ {0}
  PROVE  /\ a \div d \in Int /\ a % d \in 0 .. d - 1
         /\ a = d * (a \div d) + (a % d)
OBVIOUS

LEMMA ProductGrows ==
  ASSUME NEW d \in Nat \ {0}, NEW x \in Int, NEW y \in Int, x < y
  PROVE  d * x + d <= d * y
OBVIOUS

LEMMA Quotient ==
  ASSUME NEW d \in Nat \ {0}, NEW q \in Int, NEW r \in 0 .. d - 1
  PROVE  (d * q + r) \div d = q /\ (d * q + r) % d = r
<1>. DEFINE a == d * q + r
<1>0. d * q \in Int /\ a \in Int
  OBVIOUS
<1>1. /\ a \div d \in Int /\ a % d \in 0 .. d - 1
      /\ a = d * (a \div d) + (a % d)
  BY <1>0, Division
<1>2. ~(a \div d < q)
  <2>1. SUFFICES ASSUME a \div d < q PROVE FALSE
    OBVIOUS
  <2>2. d * (a \div d) + d <= d * q
    BY <2>1, <1>1, ProductGrows
  <2>3. QED
    BY <1>0, <1>1, <2>2
<1>3. ~(q < a \div d)
  <2>1. SUFFICES ASSUME q < a \div d PROVE FALSE
    OBVIOUS
  <2>2. d * q + d <= d * (a \div d)
    BY <2>1, <1>1, ProductGrows
  <2>3. QED
    BY <1>0, <1>1, <2>2
<1>4. QED
  BY <1>0, <1>1, <1>2, <1>3

LEMMA ProductOrder ==
  ASSUME NEW d \in Nat \ {0}, NEW x \in Int, NEW y \in Int
  PROVE  /\ d * x \in Int /\ d * y \in Int
         /\ x <= y <=> d * x <= d * y
         /\ x < y <=> d * x < d * y
<1>1. x < y => d * x + d <= d * y
  BY ProductGrows
<1>2. y < x => d * y + d <= d * x
  BY ProductGrows
<1>3. QED
  BY <1>1, <1>2

LEMMA NatDivision ==
  ASSUME NEW a \in Nat, NEW d \in Nat \ {0}, NEW n \in Nat
  PROVE  /\ a \div d \in Nat
         /\ a < d * n => a \div d < n
<1>. DEFINE q == a \div d
<1>1. q \in Int /\ a % d \in 0 .. d - 1 /\ a = d * q + (a % d)
  BY Division
<1>. HIDE DEF q
<1>2. d * q \in Int /\ d * n \in Int /\ (n <= q <=> d * n <= d * q)
  BY <1>1, ProductOrder
<1>3. q < 0 => d * q + d <= d * 0
  BY <1>1, ProductGrows
<1>4. q \in Nat
  BY <1>1, <1>2, <1>3
<1>5. a < d * n => q < n
  BY <1>1, <1>2
<1>6. QED
  BY <1>4, <1>5 DEF q

LEMMA Whole ==
  ASSUME NEW a \in Nat, NEW d \in Nat \ {0}
  PROVE  /\ a \div d \in Nat /\ a = d * (a \div d) + (a % d) /\ a % d \in 0 .. d - 1
<1>1. a \div d \in Nat
  <2>1. 0 \in Nat
    OBVIOUS
  <2>2. QED
    BY <2>1, NatDivision
<1>2. QED
  BY <1>1, Division

LEMMA Multiple ==
  ASSUME NEW d \in Nat \ {0}, NEW k \in Int
  PROVE  (d * k) % d = 0
<1>1. 0 \in 0 .. d - 1 /\ d * k + 0 = d * k
  OBVIOUS
<1>2. (d * k + 0) % d = 0
  BY <1>1, Quotient
<1>3. QED
  BY <1>1, <1>2

LEMMA ClockTyped ==
  /\ Seconds \in Nat \ {0} /\ Minutes \in Nat \ {0} /\ Hours \in Nat \ {0}
  /\ Seconds * Minutes \in Nat \ {0} /\ Day \in Nat \ {0} /\ Day = (Seconds * Minutes) * Hours
<1>1. Seconds \in Nat \ {0} /\ Minutes \in Nat \ {0} /\ Hours \in Nat \ {0}
  BY ClockAssumption
<1>2. \A x, y \in Nat \ {0} : x * y \in Nat \ {0}
  OBVIOUS
<1>3. Day = (Seconds * Minutes) * Hours
  BY DEF Day
<1>. QED
  BY <1>1, <1>2, <1>3

\* The instant of a day, an hour and a minute.
LEMMA ClockOf ==
  ASSUME NEW d \in Int, NEW h \in 0 .. Hours - 1, NEW m \in 0 .. Minutes - 1,
         NEW t, t = d * Day + (h * Minutes + m) * Seconds
  PROVE  /\ t \in Int /\ t % Seconds = 0
         /\ DayOf(t) = d /\ HourOf(t) = h /\ MinuteOf(t) = m
         /\ (h * Minutes + m) * Seconds \in 0 .. Day - 1
<1>. DEFINE n == h * Minutes + m
            r == n * Seconds
            hour == Seconds * Minutes
<1>. USE ClockTyped
<1>00. h \in Nat /\ m \in Nat /\ h * Minutes \in Nat
  OBVIOUS
<1>0. n \in Nat /\ r \in Nat
  <2>1. n \in Nat
    BY <1>00
  <2>. HIDE DEF n
  <2>2. QED
    BY <2>1
<1>1. n + 1 <= Hours * Minutes
  <2>1. Minutes * h + Minutes <= Minutes * Hours
    BY <1>0, ProductGrows
  <2>2. QED
    BY <1>0, <2>1
<1>2. r \in 0 .. Day - 1
  <2>1. Seconds * n + Seconds <= Seconds * (Hours * Minutes)
    <3>1. n < Hours * Minutes /\ Hours * Minutes \in Int
      BY <1>0, <1>1
    <3>2. QED
      BY <1>0, <3>1, ProductGrows
  <2>2. Seconds * (Hours * Minutes) = Day
    BY <1>0
  <2>3. QED
    BY <1>0, <2>1, <2>2
<1>3. t = Day * d + r
  BY <1>0
<1>4. t \div Day = d /\ t % Day = r
  <2>. HIDE DEF r
  <2>1. QED
    BY <1>2, <1>3, Quotient
<1>5. r = hour * h + Seconds * m /\ Seconds * m \in 0 .. hour - 1
  <2>1. Seconds * m + Seconds <= Seconds * Minutes
    BY <1>0, ProductGrows
  <2>2. QED
    BY <1>0, <2>1
<1>6. r \div hour = h
  BY <1>0, <1>5, Quotient
<1>7. t = Seconds * (Hours * Minutes * d + n) + 0 /\ Hours * Minutes * d + n \in Int
  BY <1>0, <1>3
<1>8. t \div Seconds = Hours * Minutes * d + n /\ t % Seconds = 0
  <2>1. 0 \in 0 .. Seconds - 1
    BY <1>0
  <2>. HIDE DEF n
  <2>2. QED
    BY <1>0, <1>7, <2>1, Quotient
<1>9. Hours * Minutes * d + n = Minutes * (Hours * d + h) + m /\ Hours * d + h \in Int
  BY <1>0
<1>10. (t \div Seconds) % Minutes = m
  <2>. DEFINE q == Hours * d + h
  <2>1. q \in Int /\ t \div Seconds = Minutes * q + m
    BY <1>8, <1>9
  <2>2. (Minutes * q + m) % Minutes = m
    <3>. HIDE DEF q
    <3>1. QED
      BY <2>1, Quotient
  <2>. HIDE DEF q
  <2>3. QED
    BY <2>1, <2>2
<1>11. QED
  BY <1>0, <1>2, <1>3, <1>4, <1>6, <1>8, <1>10 DEF DayOf, HourOf, MinuteOf

\* A daily schedule's next run is the first of its time after now, wherever it is asked.
LEMMA DailyIsNext ==
  ASSUME NEW location \in Int, NEW hh \in Int, NEW mm \in Int, NEW from \in Nat
  PROVE  IsNextDaily(location, hh, mm, from, NextDaily(location, hh, mm, from))
<1>. DEFINE day == DayOf(from + location)
            today == day * Day + (hh * Minutes + mm) * Seconds
            t == NextDaily(location, hh, mm, from)
<1>0. Day \in Nat \ {0} /\ Hours \in Nat /\ Minutes \in Nat /\ Seconds \in Nat
  BY ClockTyped
<1>1. CASE hh \notin 0 .. Hours - 1 \/ mm \notin 0 .. Minutes - 1
  BY <1>1 DEF NextDaily, IsNextDaily
<1>2. CASE hh \in 0 .. Hours - 1 /\ mm \in 0 .. Minutes - 1
  <2>1. day \in Int /\ day * Day <= from + location /\ from + location < day * Day + Day
    BY <1>0, Division DEF DayOf
  <2>2. t = IF today - location > from THEN today - location ELSE today - location + Day
    BY <1>2, Zenon DEF NextDaily
  <2>3. /\ today \in Int /\ today % Seconds = 0 /\ HourOf(today) = hh /\ MinuteOf(today) = mm
        /\ (hh * Minutes + mm) * Seconds \in 0 .. Day - 1
    BY <1>2, <2>1, ClockOf
  <2>4. today + Day = (day + 1) * Day + (hh * Minutes + mm) * Seconds /\ day + 1 \in Int
    BY <1>0, <2>1, <2>3
  <2>5. (today + Day) % Seconds = 0 /\ HourOf(today + Day) = hh /\ MinuteOf(today + Day) = mm
    BY <1>2, <2>4, ClockOf
  <2>6. today >= day * Day /\ today < day * Day + Day
    BY <1>0, <2>1, <2>3
  <2>. HIDE DEF day, today
  <2>7. t > from /\ t <= from + Day /\ t # NoTime
    BY <1>0, <2>1, <2>2, <2>3, <2>6 DEF NoTime
  <2>8. t + location = today \/ t + location = today + Day
    BY <1>0, <2>2, <2>3
  <2>. QED
    BY <2>3, <2>5, <2>7, <2>8 DEF IsNextDaily
<1>3. QED
  BY <1>1, <1>2
-----------------------------------------------------------------------------
(* The calendar. *)

\* The month of a day of the year is the last that starts by then.
LEMMA MonthIsFound ==
  ASSUME NEW leap \in BOOLEAN, NEW d \in 0 .. (IF leap THEN 365 ELSE 364)
  PROVE  /\ MonthIn(MonthFirst(leap), d) \in 1 .. 12
         /\ d - MonthFirst(leap)[MonthIn(MonthFirst(leap), d)] + 1 \in 1 .. 31
<1>. DEFINE l == IF leap THEN 1 ELSE 0
            first == MonthFirst(leap)
<1>1. /\ first[1] = 0 /\ first[2] = 31 /\ first[3] = 59 + l /\ first[4] = 90 + l /\ first[5] = 120 + l
      /\ first[6] = 151 + l /\ first[7] = 181 + l /\ first[8] = 212 + l /\ first[9] = 243 + l
      /\ first[10] = 273 + l /\ first[11] = 304 + l /\ first[12] = 334 + l
  BY DEF MonthFirst
<1>2. l \in 0 .. 1 /\ d \in 0 .. 364 + l
  OBVIOUS
<1>. HIDE DEF first, l
<1>3. \E m \in 1 .. 12 : /\ first[m] <= d /\ d - first[m] <= 30
                         /\ \A k \in 1 .. 12 : first[k] <= d => m >= k
  <2>1. \A k \in 1 .. 12 : k \in {1, 2, 3, 4, 5, 6, 7, 8, 9, 10, 11, 12}
    OBVIOUS
  <2>2. CASE d < 151 + l
    BY <1>1, <1>2, <2>1, <2>2
  <2>3. CASE d >= 151 + l
    BY <1>1, <1>2, <2>1, <2>3
  <2>4. QED
    BY <1>2, <2>2, <2>3
<1>4. PICK m \in {k \in 1..12 : first[k] <= d} : d - first[m] <= 30 /\ \A k \in {j \in 1..12 : first[j] <= d} : m >= k
  BY <1>3
<1>5. Max({k \in 1..12 : first[k] <= d}) \in {k \in 1..12 : first[k] <= d}
      /\ \A k \in {j \in 1..12 : first[j] <= d} : Max({j \in 1..12 : first[j] <= d}) >= k
  BY <1>4, Zenon DEF Max
<1>6. Max({k \in 1..12 : first[k] <= d}) = m
  BY <1>4, <1>5
<1>7. first[m] \in Int /\ first[m] <= d
  <2>1. m \in {1, 2, 3, 4, 5, 6, 7, 8, 9, 10, 11, 12}
    BY <1>4
  <2>2. QED
    BY <1>1, <1>2, <1>4, <2>1
<1>. QED
  BY <1>2, <1>4, <1>6, <1>7 DEF MonthIn, first

LEMMA DatesTyped ==
  ASSUME NEW n \in Int
  PROVE  DateOf(n).month \in 1 .. 12 /\ DateOf(n).dom \in 1 .. 31 /\ DateOf(n).dow \in 0 .. 6
<1>. DEFINE d == n % 1461
            year == CycleYear(d)
            day == d - 365 * year
<1>1. d \in 0 .. 1460 /\ n % 7 \in 0 .. 6
  OBVIOUS
<1>. HIDE DEF d
<1>2. (year = 3) \in BOOLEAN /\ day \in 0 .. (IF year = 3 THEN 365 ELSE 364)
  BY <1>1 DEF CycleYear
<1>. HIDE DEF day, year
<1>3. /\ MonthIn(MonthFirst(year = 3), day) \in 1 .. 12
      /\ day - MonthFirst(year = 3)[MonthIn(MonthFirst(year = 3), day)] + 1 \in 1 .. 31
  BY <1>2, MonthIsFound
<1>4. Calendar[d].month \in 1 .. 12 /\ Calendar[d].dom \in 1 .. 31
  BY <1>1, <1>3 DEF Calendar, day, year
<1>5. QED
  BY <1>1, <1>4 DEF DateOf, d
-----------------------------------------------------------------------------
(* Cron fields. *)

\* A field that makes sense allows just the values of its range that standard cron does.
LEMMA FieldMeans ==
  ASSUME NEW field \in SUBSET CronPart, NEW min \in Nat, NEW max \in Nat, Sensible(field, min, max),
         NEW v \in min .. max
  PROVE  v \in CronField(field, min, max) <=> Allows(field, v, min)
<1>. DEFINE Lo(p) == IF p.star THEN min ELSE p.lo
            Hi(p) == IF p.star THEN max ELSE p.hi
            Part(p) == {u \in Lo(p) .. Hi(p) : p.step = NoStep \/ (u - Lo(p)) % p.step = 0}
            OnStep(p) == p.step = NoStep \/ v \in {Lo(p) + p.step * k : k \in 0 .. v}
<1>1. \A p \in field : /\ p.star \in BOOLEAN /\ p.lo \in Nat /\ p.hi \in Nat /\ p.step \in Nat
                       /\ Lo(p) \in Nat /\ Hi(p) \in Nat /\ Lo(p) >= min /\ Hi(p) <= max
                       /\ p.star \/ Lo(p) <= Hi(p)
  BY DEF Sensible, CronPart, NoStep
<1>2. ~\E p \in field : p.step < 0 \/ Lo(p) < min \/ Hi(p) > max \/ Lo(p) > Hi(p)
  BY <1>1
<1>3. CronField(field, min, max) = UNION {Part(p) : p \in field}
  BY <1>2 DEF CronField
<1>4. ASSUME NEW p \in field
      PROVE  v \in Part(p) <=> (p.star \/ v \in p.lo .. p.hi) /\ OnStep(p)
  <2>. DEFINE lo == Lo(p)
              step == p.step
  <2>1. v \in lo .. Hi(p) <=> (p.star \/ v \in p.lo .. p.hi)
    BY <1>1
  <2>2. ASSUME v \in lo .. Hi(p), step # NoStep
        PROVE  (v - lo) % step = 0 <=> v \in {lo + step * k : k \in 0 .. v}
    <3>1. lo \in Nat /\ step \in Nat \ {0} /\ v - lo \in Nat /\ v \in Nat
      BY <1>1, <2>2 DEF NoStep
    <3>. HIDE DEF lo, step
    <3>2. ASSUME (v - lo) % step = 0 PROVE v \in {lo + step * k : k \in 0 .. v}
      <4>. DEFINE q == (v - lo) \div step
      <4>1. q \in Int /\ v - lo = step * q
        BY <3>1, <3>2, Division
      <4>2. q >= 0
        <5>1. SUFFICES ASSUME q < 0 PROVE FALSE
          BY <4>1
        <5>2. step * q + step <= step * 0
          BY <3>1, <4>1, <5>1, ProductGrows
        <5>3. QED
          BY <3>1, <4>1, <5>2
      <4>3. q <= v - lo
        <5>1. step * q >= q
          BY <3>1, <4>1, <4>2
        <5>2. QED
          BY <4>1, <5>1
      <4>. HIDE DEF q
      <4>4. q \in 0 .. v /\ v = lo + step * q
        BY <3>1, <4>1, <4>2, <4>3
      <4>5. QED
        BY <4>4
    <3>3. ASSUME NEW k \in 0 .. v, v = lo + step * k PROVE (v - lo) % step = 0
      <4>1. v - lo = step * k + 0 /\ 0 \in 0 .. step - 1 /\ k \in Int
        BY <3>1, <3>3
      <4>2. (step * k + 0) % step = 0
        BY <3>1, <4>1, Quotient
      <4>3. QED
        BY <4>1, <4>2
    <3>4. QED
      BY <3>2, <3>3
  <2>3. QED
    BY <2>1, <2>2
<1>5. v \in UNION {Part(p) : p \in field} <=> \E p \in field : v \in Part(p)
  OBVIOUS
<1>6. Allows(field, v, min) <=> \E p \in field : (p.star \/ v \in p.lo .. p.hi) /\ OnStep(p)
  BY DEF Allows
<1>. HIDE DEF Part, OnStep
<1>7. QED
  BY <1>3, <1>4, <1>5, <1>6

\* A field is an error exactly when it makes no sense.
LEMMA FieldMakesSense ==
  ASSUME NEW field \in SUBSET CronPart, NEW min \in Nat, NEW max \in Nat, min <= max
  PROVE  Sensible(field, min, max) <=> CronField(field, min, max) # {}
<1>. DEFINE Lo(p) == IF p.star THEN min ELSE p.lo
            Hi(p) == IF p.star THEN max ELSE p.hi
            Part(p) == {u \in Lo(p) .. Hi(p) : p.step = NoStep \/ (u - Lo(p)) % p.step = 0}
            Wrong == \E p \in field : p.step < 0 \/ Lo(p) < min \/ Hi(p) > max \/ Lo(p) > Hi(p)
<1>1. CronField(field, min, max) = IF Wrong THEN {} ELSE UNION {Part(p) : p \in field}
  BY DEF CronField
<1>2. \A p \in field : p.star \in BOOLEAN /\ p.lo \in Nat /\ p.hi \in Nat /\ p.step \in Int
  BY DEF CronPart
<1>3. Sensible(field, min, max) <=> field # {} /\ ~Wrong
  BY <1>2 DEF Sensible, NoStep
<1>4. ASSUME ~Wrong, NEW p \in field PROVE Lo(p) \in Part(p)
  <2>1. Lo(p) \in Lo(p) .. Hi(p) /\ Lo(p) \in Nat /\ p.step \in Nat
    BY <1>2, <1>4
  <2>2. p.step # 0 => (Lo(p) - Lo(p)) % p.step = 0
    BY <2>1
  <2>3. QED
    BY <2>1, <2>2 DEF NoStep
<1>. HIDE DEF Part, Wrong
<1>5. QED
  BY <1>1, <1>3, <1>4
-----------------------------------------------------------------------------
(* The scan. *)

LEMMA MinIsLeast ==
  ASSUME NEW T, T \subseteq Nat, T # {}
  PROVE  Min(T) \in T /\ \A y \in T : Min(T) <= y
<1>1. \E x \in T : \A y \in T : x <= y
  BY LeastNumber
<1>2. QED
  BY <1>1, Zenon DEF Min

\* The minutes that the scan looks at: those after `from`, for a year.
ScanOf(from) == {ScanFrom(from) + Seconds * i : i \in 0 .. YearDays * Hours * Minutes - 1}

LEMMA ScanIsAhead ==
  ASSUME NEW from \in Nat, NEW t \in ScanOf(from)
  PROVE  t \in Nat /\ t > from /\ t % Seconds = 0
<1>0. Seconds \in Nat \ {0} /\ YearDays * Hours * Minutes \in Nat
  BY ClockTyped DEF YearDays
<1>1. PICK i \in 0 .. YearDays * Hours * Minutes - 1 : t = ScanFrom(from) + Seconds * i
  BY DEF ScanOf
<1>. DEFINE q == from \div Seconds
<1>2. q \in Nat /\ from = Seconds * q + (from % Seconds) /\ from % Seconds \in 0 .. Seconds - 1
  BY <1>0, Whole
<1>3. t = Seconds * (q + 1 + i) /\ q + 1 + i \in Nat
  <2>1. i \in Nat
    BY <1>0
  <2>2. ScanFrom(from) = Seconds * q + Seconds
    BY DEF ScanFrom
  <2>. HIDE DEF q
  <2>3. QED
    BY <1>0, <1>1, <1>2, <2>1, <2>2
<1>. HIDE DEF q
<1>4. Seconds * (q + 1) <= Seconds * (q + 1 + i) /\ Seconds * (q + 1) = Seconds * q + Seconds
  BY <1>0, <1>2, <1>3, ProductOrder
<1>5. t \in Nat /\ t > from
  BY <1>0, <1>2, <1>3, <1>4
<1>6. (Seconds * (q + 1 + i)) % Seconds = 0
  <2>1. q + 1 + i \in Int
    BY <1>3
  <2>2. QED
    BY <1>0, <2>1, Multiple
<1>7. QED
  BY <1>3, <1>5, <1>6

LEMMA ScanCovers ==
  ASSUME NEW from \in Nat, NEW t \in Nat, t > from, t <= from + YearDays * Day, t % Seconds = 0
  PROVE  t \in ScanOf(from)
<1>. DEFINE q == from \div Seconds
            k == t \div Seconds
            n == YearDays * Hours * Minutes
            i == k - q - 1
<1>0. Seconds \in Nat \ {0}
  BY ClockTyped
<1>1. q \in Nat /\ from = Seconds * q + (from % Seconds) /\ from % Seconds \in 0 .. Seconds - 1
  BY <1>0, Whole
<1>2. k \in Nat /\ t = Seconds * k
  <2>1. k \in Nat
    BY <1>0, NatDivision
  <2>2. QED
    BY <1>0, <2>1, Division
<1>3. n \in Nat /\ YearDays * Day = Seconds * n
  BY ClockTyped DEF YearDays
<1>4. ScanFrom(from) = Seconds * q + Seconds
  BY DEF ScanFrom
<1>. HIDE DEF q, k, n
<1>5. k > q
  <2>1. k <= q <=> Seconds * k <= Seconds * q
    BY <1>0, <1>1, <1>2, ProductOrder
  <2>2. QED
    BY <1>0, <1>1, <1>2, <2>1
<1>6. k <= q + n
  <2>1. q + n < k => Seconds * (q + n) + Seconds <= Seconds * k
    BY <1>0, <1>1, <1>2, <1>3, ProductGrows
  <2>2. Seconds * (q + n) = Seconds * q + Seconds * n /\ Seconds * n \in Nat /\ Seconds * q \in Nat
    BY <1>0, <1>1, <1>3
  <2>3. t <= from + Seconds * n
    BY <1>3
  <2>4. t <= Seconds * q + (from % Seconds) + Seconds * n
    BY <1>0, <1>1, <2>2, <2>3
  <2>5. SUFFICES ASSUME q + n < k PROVE FALSE
    BY <1>1, <1>2, <1>3
  <2>6. Seconds * q + Seconds * n + Seconds <= t
    BY <1>2, <2>1, <2>2, <2>5
  <2>7. from % Seconds < Seconds /\ from % Seconds \in Nat
    BY <1>0, <1>1
  <2>8. QED
    BY <1>0, <2>2, <2>4, <2>6, <2>7
<1>7. i \in 0 .. n - 1
  BY <1>1, <1>2, <1>3, <1>5, <1>6
<1>8. t = ScanFrom(from) + Seconds * i
  <2>1. Seconds * (q + 1 + i) = Seconds * q + Seconds + Seconds * i
    BY <1>0, <1>1, <1>2
  <2>2. q + 1 + i = k
    BY <1>1, <1>2
  <2>3. QED
    BY <1>2, <1>4, <2>1, <2>2
<1>9. QED
  BY <1>7, <1>8 DEF ScanOf, n

LEMMA ScanEnds ==
  ASSUME NEW from \in Nat, NEW t \in ScanOf(from)
  PROVE  t <= from + YearDays * Day
<1>. DEFINE q == from \div Seconds
            n == YearDays * Hours * Minutes
<1>0. Seconds \in Nat \ {0} /\ n \in Nat /\ YearDays * Day = Seconds * n
  BY ClockTyped DEF YearDays
<1>1. q \in Nat /\ from = Seconds * q + (from % Seconds) /\ from % Seconds \in 0 .. Seconds - 1
  BY <1>0, Whole
<1>2. PICK i \in 0 .. n - 1 : t = ScanFrom(from) + Seconds * i
  BY DEF ScanOf
<1>3. ScanFrom(from) = Seconds * q + Seconds
  BY DEF ScanFrom
<1>. HIDE DEF q, n
<1>4. i \in Nat /\ i < n
  BY <1>0, <1>2
<1>5. Seconds * i + Seconds <= Seconds * n
  BY <1>0, <1>4, ProductGrows
<1>6. QED
  <2>. DEFINE a == Seconds * q
              b == Seconds * i
              c == Seconds * n
  <2>1. a \in Int /\ b \in Int /\ c \in Int
    BY <1>0, <1>1, <1>4
  <2>. HIDE DEF a, b, c
  <2>2. t = a + Seconds + b
    BY <1>2, <1>3 DEF a, b
  <2>3. b + Seconds <= c /\ YearDays * Day = c
    BY <1>0, <1>5 DEF b, c
  <2>4. from = a + (from % Seconds) /\ from % Seconds \in Nat
    BY <1>0, <1>1 DEF a
  <2>5. QED
    BY <1>0, <2>1, <2>2, <2>3, <2>4

\* What the scan tests of a minute.
Matches(e, t) ==
  /\ MinuteOf(t) \in CronField(e.minute, 0, Minutes - 1) /\ HourOf(t) \in CronField(e.hour, 0, Hours - 1)
  /\ DateOf(DayOf(t)).month \in CronField(e.month, 1, 12) /\ DayOk(e, DateOf(DayOf(t)))
\* No day field that is a star with a step stands beside a restricted one.
Stepped(field) == field # {Star} /\ \E p \in field : p.star
Agreed(e) == ~((Stepped(e.dom) /\ e.dow # {Star}) \/ (Stepped(e.dow) /\ e.dom # {Star}))

LEMMA InstantTyped ==
  ASSUME NEW t \in Nat
  PROVE  DayOf(t) \in Int /\ HourOf(t) \in 0 .. Hours - 1 /\ MinuteOf(t) \in 0 .. Minutes - 1
<1>1. t \div Day \in Int /\ t % Day \in 0 .. Day - 1
  BY ClockTyped, Division
<1>2. t \div Seconds \in Int
  BY ClockTyped, NatDivision
<1>3. (t \div Seconds) % Minutes \in 0 .. Minutes - 1
  BY <1>2, ClockTyped, Division
<1>4. t % Day \in Nat /\ t % Day < (Seconds * Minutes) * Hours
  BY <1>1, ClockTyped
<1>5. (t % Day) \div (Seconds * Minutes) \in Nat /\ (t % Day) \div (Seconds * Minutes) < Hours
  BY <1>4, ClockTyped, NatDivision
<1>6. QED
  BY <1>1, <1>3, <1>5, ClockTyped DEF DayOf, HourOf, MinuteOf

\* The scan's test is what standard cron says of the minute.
LEMMA MatchesStandard ==
  ASSUME NEW e \in CronExpression, SensibleExpression(e), Agreed(e), NEW t \in Nat, t % Seconds = 0
  PROVE  Matches(e, t) <=> Standard(e, t)
<1>. DEFINE date == DateOf(DayOf(t))
            domMatch == date.dom \in CronField(e.dom, 1, 31)
            dowMatch == date.dow \in CronField(e.dow, 0, 6)
            starred(field) == \E p \in field : p.star
<1>1. /\ e.minute \in SUBSET CronPart /\ e.hour \in SUBSET CronPart /\ e.dom \in SUBSET CronPart
      /\ e.month \in SUBSET CronPart /\ e.dow \in SUBSET CronPart
  BY DEF CronExpression
<1>2. /\ MinuteOf(t) \in 0 .. Minutes - 1 /\ HourOf(t) \in 0 .. Hours - 1
      /\ date.month \in 1 .. 12 /\ date.dom \in 1 .. 31 /\ date.dow \in 0 .. 6
  BY InstantTyped, DatesTyped
<1>3. MinuteOf(t) \in CronField(e.minute, 0, Minutes - 1) <=> Allows(e.minute, MinuteOf(t), 0)
  <2>1. Minutes - 1 \in Nat
    BY ClockTyped
  <2>2. QED
    BY <1>1, <1>2, <2>1, FieldMeans DEF SensibleExpression
<1>4. HourOf(t) \in CronField(e.hour, 0, Hours - 1) <=> Allows(e.hour, HourOf(t), 0)
  <2>1. Hours - 1 \in Nat
    BY ClockTyped
  <2>2. QED
    BY <1>1, <1>2, <2>1, FieldMeans DEF SensibleExpression
<1>5. date.month \in CronField(e.month, 1, 12) <=> Allows(e.month, date.month, 1)
  BY <1>1, <1>2, FieldMeans DEF SensibleExpression
<1>6. domMatch <=> Allows(e.dom, date.dom, 1)
  BY <1>1, <1>2, FieldMeans DEF SensibleExpression
<1>7. dowMatch <=> Allows(e.dow, date.dow, 0)
  BY <1>1, <1>2, FieldMeans DEF SensibleExpression
<1>8. e.dom = {Star} => starred(e.dom) /\ domMatch
  <2>1. Star.star = TRUE /\ Star.step = NoStep
    BY DEF Star
  <2>2. e.dom = {Star} => Allows(e.dom, date.dom, 1)
    BY <2>1 DEF Allows
  <2>3. QED
    BY <1>6, <2>1, <2>2
<1>9. e.dow = {Star} => starred(e.dow) /\ dowMatch
  <2>1. Star.star = TRUE /\ Star.step = NoStep
    BY DEF Star
  <2>2. e.dow = {Star} => Allows(e.dow, date.dow, 0)
    BY <2>1 DEF Allows
  <2>3. QED
    BY <1>7, <2>1, <2>2
<1>10. DayOk(e, date) <=> (IF starred(e.dom) \/ starred(e.dow) THEN domMatch /\ dowMatch ELSE domMatch \/ dowMatch)
  <2>1. DayOk(e, date) <=> CASE e.dom # {Star} /\ e.dow # {Star} -> domMatch \/ dowMatch
                             [] e.dom # {Star} /\ e.dow = {Star} -> domMatch
                             [] e.dom = {Star} /\ e.dow # {Star} -> dowMatch
                             [] OTHER -> TRUE
    BY DEF DayOk
  <2>2. e.dom # {Star} /\ e.dow # {Star} => ~starred(e.dom) /\ ~starred(e.dow)
    BY DEF Agreed, Stepped
  <2>. HIDE DEF domMatch, dowMatch, starred
  <2>3. CASE e.dom # {Star} /\ e.dow # {Star}
    BY <2>1, <2>2, <2>3
  <2>4. CASE e.dom # {Star} /\ e.dow = {Star}
    BY <2>1, <2>4, <1>9
  <2>5. CASE e.dom = {Star} /\ e.dow # {Star}
    BY <2>1, <2>5, <1>8
  <2>6. CASE e.dom = {Star} /\ e.dow = {Star}
    BY <2>1, <2>6, <1>8, <1>9
  <2>7. QED
    BY <2>3, <2>4, <2>5, <2>6
<1>. HIDE DEF domMatch, dowMatch
<1>11. Standard(e, t) <=>
         /\ Allows(e.minute, MinuteOf(t), 0) /\ Allows(e.hour, HourOf(t), 0) /\ Allows(e.month, date.month, 1)
         /\ IF starred(e.dom) \/ starred(e.dow) THEN domMatch /\ dowMatch ELSE domMatch \/ dowMatch
  BY <1>6, <1>7 DEF Standard, domMatch, dowMatch
<1>12. QED
  BY <1>3, <1>4, <1>5, <1>10, <1>11 DEF Matches

\* Whatever it is asked, the scan answers with the first minute that standard cron names.
LEMMA CronIsNext ==
  ASSUME NEW e \in CronExpression, NEW from \in Nat
  PROVE  IsNextCron(e, from, NextCron(e, from))
<1>. DEFINE t == NextCron(e, from)
            fields == {CronField(e.minute, 0, Minutes - 1), CronField(e.hour, 0, Hours - 1), CronField(e.month, 1, 12),
                       CronField(e.dom, 1, 31), CronField(e.dow, 0, 6)}
            match == {u \in ScanOf(from) : Matches(e, u)}
<1>1. t = IF {} \in fields \/ match = {} THEN NoTime ELSE Min(match)
  BY DEF NextCron, ScanOf, Matches
<1>2. SensibleExpression(e) <=> {} \notin fields
  <2>1. Minutes - 1 \in Nat /\ Hours - 1 \in Nat
    BY ClockTyped
  <2>2. /\ e.minute \in SUBSET CronPart /\ e.hour \in SUBSET CronPart /\ e.dom \in SUBSET CronPart
        /\ e.month \in SUBSET CronPart /\ e.dow \in SUBSET CronPart
    BY DEF CronExpression
  <2>3. Sensible(e.minute, 0, Minutes - 1) <=> CronField(e.minute, 0, Minutes - 1) # {}
    BY <2>1, <2>2, FieldMakesSense
  <2>4. Sensible(e.hour, 0, Hours - 1) <=> CronField(e.hour, 0, Hours - 1) # {}
    BY <2>1, <2>2, FieldMakesSense
  <2>5. Sensible(e.month, 1, 12) <=> CronField(e.month, 1, 12) # {}
    BY <2>2, FieldMakesSense
  <2>6. Sensible(e.dom, 1, 31) <=> CronField(e.dom, 1, 31) # {}
    BY <2>2, FieldMakesSense
  <2>7. Sensible(e.dow, 0, 6) <=> CronField(e.dow, 0, 6) # {}
    BY <2>2, FieldMakesSense
  <2>8. QED
    BY <2>3, <2>4, <2>5, <2>6, <2>7 DEF SensibleExpression
<1>3. \A u \in ScanOf(from) : u \in Nat /\ u > from /\ u % Seconds = 0
  BY ScanIsAhead
<1>4. \A u : Standard(e, u) => u % Seconds = 0
  BY DEF Standard
<1>. HIDE DEF fields
<1>5. CASE ~SensibleExpression(e)
  BY <1>1, <1>2, <1>5 DEF IsNextCron
<1>6. CASE SensibleExpression(e) /\ ~Agreed(e)
  BY <1>6 DEF IsNextCron, Agreed, Stepped
<1>7. CASE SensibleExpression(e) /\ Agreed(e)
  <2>1. \A u \in ScanOf(from) : Matches(e, u) <=> Standard(e, u)
    BY <1>3, <1>7, MatchesStandard
  <2>2. \A u \in from + 1 .. from + YearDays * Day : Standard(e, u) => u \in match
    <3>1. SUFFICES ASSUME NEW u \in from + 1 .. from + YearDays * Day, Standard(e, u) PROVE u \in ScanOf(from)
      BY <2>1
    <3>2. u \in Nat /\ u > from /\ u <= from + YearDays * Day
      <4>1. YearDays * Day \in Nat
        BY ClockTyped DEF YearDays
      <4>2. QED
        BY <3>1, <4>1
    <3>3. QED
      BY <1>4, <3>1, <3>2, ScanCovers
  <2>3. CASE match = {}
    <3>1. t = NoTime
      BY <1>1, <2>3
    <3>2. \A u \in from + 1 .. from + YearDays * Day : ~Standard(e, u)
      BY <2>2, <2>3
    <3>3. QED
      BY <1>7, <3>1, <3>2 DEF IsNextCron
  <2>4. CASE match # {}
    <3>1. match \subseteq Nat
      BY <1>3
    <3>2. t = Min(match)
      BY <1>1, <1>2, <1>7, <2>4
    <3>. HIDE DEF match, t
    <3>3. t \in match /\ \A u \in match : t <= u
      BY <2>4, <3>1, <3>2, MinIsLeast
    <3>4. t \in ScanOf(from) /\ Standard(e, t)
      BY <2>1, <3>3 DEF match
    <3>5. t \in Nat /\ t > from
      BY <1>3, <3>4
    <3>6. t <= from + YearDays * Day
      BY <3>4, ScanEnds
    <3>7. \A u \in from + 1 .. t - 1 : ~Standard(e, u)
      <4>1. YearDays * Day \in Nat
        BY ClockTyped DEF YearDays
      <4>2. SUFFICES ASSUME NEW u \in from + 1 .. t - 1, Standard(e, u) PROVE FALSE
        OBVIOUS
      <4>3. u \in from + 1 .. from + YearDays * Day
        BY <3>5, <3>6, <4>1, <4>2
      <4>4. u \in match
        BY <2>2, <4>2, <4>3
      <4>5. t <= u
        BY <3>3, <4>4
      <4>6. QED
        BY <3>5, <4>2, <4>5
    <3>8. t # NoTime
      BY <3>5 DEF NoTime
    <3>9. IsNextCron(e, from, t)
      BY <1>7, <3>4, <3>5, <3>7, <3>8 DEF IsNextCron
    <3>10. QED
      BY <3>9 DEF t
  <2>5. QED
    BY <2>3, <2>4
<1>8. QED
  BY <1>5, <1>6, <1>7
-----------------------------------------------------------------------------
(* Validation. *)

\* Where the engine may send a run is among what the author can refer to.
LEMMA RoutesAreReferences ==
  ASSUME NEW s
  PROVE  EngineRoutes(s) \subseteq References(s)
<1>. USE DEF References, ReferencesWithoutMaps
<1>1. CASE s.kind = "condition"
  BY <1>1 DEF EngineRoutes, ForwardRoutes
<1>2. CASE s.kind = "ai_decision"
  BY <1>2 DEF EngineRoutes, ForwardRoutes
<1>3. CASE s.kind = "human_task"
  BY <1>3 DEF EngineRoutes, ForwardRoutes
<1>4. CASE s.kind = "filter"
  BY <1>4 DEF EngineRoutes, ForwardRoutes
<1>5. CASE s.kind = "parallel"
  BY <1>5 DEF EngineRoutes, ForwardRoutes
<1>6. CASE s.kind = "loop"
  BY <1>6 DEF EngineRoutes, ForwardRoutes
<1>7. CASE s.kind \in {"end", "stop_error"}
  BY <1>7 DEF EngineRoutes, ForwardRoutes
<1>8. CASE s.kind \notin {"condition", "ai_decision", "human_task", "filter", "parallel", "loop", "end", "stop_error"}
  BY <1>8 DEF EngineRoutes, ForwardRoutes
<1>9. QED
  BY <1>1, <1>2, <1>3, <1>4, <1>5, <1>6, <1>7, <1>8

\* The run stays where the validation has walked.
LEMMA RunIsReached ==
  ASSUME NEW def
  PROVE  Reached(def, EngineRoutes) \subseteq Reachable(def)
<1>1. ASSUME NEW S \in SUBSET StepsOf(def), Closed(def, S, References) PROVE Closed(def, S, EngineRoutes)
  BY <1>1, RoutesAreReferences DEF Closed
<1>2. QED
  BY <1>1 DEF Reached, Reachable

\* Ids are unique among the steps that are read.
LEMMA IdsAreUnique ==
  ASSUME NEW T, NEW def \in Seq(T), NEW s \in StepsOf(def), NEW u \in StepsOf(def), s.id = u.id
  PROVE  s = u
<1>1. DOMAIN def = 1 .. Len(def) /\ Len(def) \in Nat
  OBVIOUS
<1>2. PICK i \in 1 .. Len(def) : FirstWithId(def, i) /\ s = def[i]
  BY <1>1 DEF StepsOf
<1>3. PICK j \in 1 .. Len(def) : FirstWithId(def, j) /\ u = def[j]
  BY <1>1 DEF StepsOf
<1>4. ~(i < j) /\ ~(j < i)
  <2>1. i < j => i \in 1 .. j - 1
    BY <1>1
  <2>2. j < i => j \in 1 .. i - 1
    BY <1>1
  <2>3. QED
    BY <1>2, <1>3, <2>1, <2>2, Zenon DEF FirstWithId
<1>5. QED
  BY <1>1, <1>2, <1>3, <1>4

\* A shape without errors has one step that is a trigger, and every step is read.
LEMMA OneTrigger ==
  ASSUME NEW T, NEW def \in Seq(T), ShapeErrors(def) = {}
  PROVE  /\ Cardinality({i \in DOMAIN def : def[i].kind = "trigger"}) = 1
         /\ \A s \in StepsOf(def) : s.kind \in NodeTypes
<1>. DEFINE triggers == {s \in StepsOf(def) : s.kind = "trigger"}
            places == {i \in DOMAIN def : def[i].kind = "trigger"}
<1>1. /\ {i \in DOMAIN def : def[i].id = ""} = {}
      /\ {i \in DOMAIN def : def[i].id # "" /\ ~FirstWithId(def, i)} = {}
      /\ {u \in StepsOf(def) : u.kind \notin NodeTypes} = {}
      /\ triggers # {} /\ ~(Cardinality(triggers) > 1)
  <2>. DEFINE e1 == {<<"", IF def[i] = NotAStep THEN "not an object" ELSE "no id", "">> : i \in {k \in DOMAIN def : def[k].id = ""}}
              e2 == {<<def[i].id, "shared id", "">> : i \in {k \in DOMAIN def : def[k].id # "" /\ ~FirstWithId(def, k)}}
              e3 == {<<s.id, "cannot run", s.kind>> : s \in {u \in StepsOf(def) : u.kind \notin NodeTypes}}
              e4 == IF triggers = {} THEN {<<"", "no trigger", "">>} ELSE {}
              e5 == IF Cardinality(triggers) > 1 THEN {<<"", "more than one trigger", "">>} ELSE {}
  <2>1. e1 \cup e2 \cup e3 \cup e4 \cup e5 = {}
    BY DEF ShapeErrors
  <2>. HIDE DEF e1, e2, e3, e4, e5
  <2>2. e1 = {} /\ e2 = {} /\ e3 = {} /\ e4 = {} /\ e5 = {}
    BY <2>1
  <2>3. {i \in DOMAIN def : def[i].id = ""} = {}
    BY <2>2 DEF e1
  <2>4. {i \in DOMAIN def : def[i].id # "" /\ ~FirstWithId(def, i)} = {}
    BY <2>2 DEF e2
  <2>5. {u \in StepsOf(def) : u.kind \notin NodeTypes} = {}
    BY <2>2 DEF e3
  <2>6. triggers # {}
    BY <2>2 DEF e4
  <2>7. ~(Cardinality(triggers) > 1)
    BY <2>2 DEF e5
  <2>8. QED
    BY <2>3, <2>4, <2>5, <2>6, <2>7
<1>2. DOMAIN def = 1 .. Len(def) /\ Len(def) \in Nat
  OBVIOUS
<1>3. \A i \in 1 .. Len(def) : FirstWithId(def, i)
  BY <1>1, <1>2
<1>4. StepsOf(def) = {def[i] : i \in 1 .. Len(def)}
  BY <1>2, <1>3 DEF StepsOf
<1>5. IsFiniteSet(triggers)
  <2>1. IsFiniteSet(1 .. Len(def))
    BY <1>2, FS_Interval
  <2>2. IsFiniteSet(StepsOf(def))
    <3>1. [i \in 1 .. Len(def) |-> def[i]] \in Surjection(1 .. Len(def), StepsOf(def))
      BY <1>4 DEF Surjection
    <3>2. QED
      BY <2>1, <3>1, FS_Surjection
  <2>3. triggers \subseteq StepsOf(def)
    OBVIOUS
  <2>4. QED
    BY <2>2, <2>3, FS_Subset
<1>6. PICK t : triggers = {t}
  <2>1. Cardinality(triggers) \in Nat /\ Cardinality(triggers) # 0
    BY <1>1, <1>5, FS_CardinalityType, FS_EmptySet
  <2>2. Cardinality(triggers) = 1
    <3>. DEFINE n == Cardinality(triggers)
    <3>1. n \in Nat /\ n # 0 /\ ~(n > 1)
      BY <1>1, <2>1, Zenon
    <3>. HIDE DEF n
    <3>2. n = 1
      BY <3>1
    <3>3. QED
      BY <3>2 DEF n
  <2>3. QED
    BY <1>5, <2>2, FS_Singleton
<1>7. PICK p \in 1 .. Len(def) : t = def[p] /\ def[p].kind = "trigger"
  BY <1>4, <1>6
<1>8. places = {p}
  <2>1. ASSUME NEW i \in 1 .. Len(def), def[i].kind = "trigger" PROVE i = p
    <3>1. def[i] \in triggers
      BY <1>4, <2>1
    <3>2. def[i] = def[p]
      BY <1>6, <1>7, <3>1
    <3>3. ~(i < p) /\ ~(p < i)
      <4>1. (i < p => i \in 1 .. p - 1) /\ (p < i => p \in 1 .. i - 1)
        BY <1>2
      <4>2. QED
        BY <1>3, <3>2, <4>1, Zenon DEF FirstWithId
    <3>4. QED
      BY <1>2, <3>3
  <2>2. QED
    BY <1>2, <1>7, <2>1
<1>9. Cardinality(places) = 1
  BY <1>8, FS_Singleton
<1>10. QED
  BY <1>1, <1>9

\* The engine refuses no step that the validation finds complete, but for what the
\* validation does not look at.
LEMMA NothingElseIsRefused ==
  ASSUME NEW def, NEW s, s.kind \in NodeTypes, ConfigErrors(s) = {}
  PROVE  Refusals(def, s) \subseteq NotLookedAt(s)
<1>1. Required(s) \subseteq s.set
  BY DEF ConfigErrors
<1>2. s.kind \in EngineTypes /\ s.kind # "workflow"
  BY DEF EngineTypes, NodeTypes
<1>3. EngineNeeds(s) \ s.set \subseteq NotLookedAt(s)
  <2>1. CASE s.kind \in {"ai_decision", "agent_call", "sub_workflow", "llm"}
    BY <1>1, <1>2, <2>1 DEF EngineNeeds, Required
  <2>2. CASE s.kind = "list"
    BY <1>1, <2>2 DEF EngineNeeds, Required, Sees, NotLookedAt
  <2>3. CASE s.kind = "crypto"
    BY <1>1, <2>3 DEF EngineNeeds, Required, Sees, NotLookedAt
  <2>4. CASE s.kind \notin {"ai_decision", "agent_call", "sub_workflow", "llm", "list", "crypto"}
    BY <1>2, <2>4 DEF EngineNeeds
  <2>. QED
    BY <2>1, <2>2, <2>3, <2>4
<1>4. Mistaken(s) \subseteq NotLookedAt(s)
  BY DEF Mistaken, NotLookedAt
<1>5. (IF PausesInside(def, s) THEN {"pauses inside"} ELSE {}) \subseteq NotLookedAt(s)
  BY DEF NotLookedAt
<1>. QED
  BY <1>2, <1>3, <1>4, <1>5 DEF Refusals

\* What the warnings of the two kinds are about.
LEMMA WarningsMean ==
  ASSUME NEW def, NEW id
  PROVE  /\ <<id, "never runs", "">> \in Validate(def).warnings => \E s \in Orphans(def) : s.id = id
         /\ <<id, "nothing after it", "">> \in Validate(def).warnings => \E s \in DeadEnds(def) : s.id = id
<1>. DEFINE never == <<id, "never runs", "">>
            nothing == <<id, "nothing after it", "">>
            w1 == {<<s.id, "never runs", "">> : s \in Orphans(def)}
            w2 == {<<s.id, "nothing after it", "">> : s \in DeadEnds(def)}
            w3 == UNION {ConfigWarnings(s) : s \in StepsOf(def)}
            w4 == IF \E s \in StepsOf(def) : s.kind = "end" THEN {} ELSE {<<"", "no end", "">>}
<1>1. Validate(def).warnings = IF def = <<>> THEN {} ELSE w1 \cup w2 \cup w3 \cup w4
  BY DEF Validate
<1>2. never \notin w2 \cup w4 /\ nothing \notin w1 \cup w4
  OBVIOUS
<1>3. never \notin w3 /\ nothing \notin w3
  <2>1. ASSUME NEW s PROVE never \notin ConfigWarnings(s) /\ nothing \notin ConfigWarnings(s)
    BY DEF ConfigWarnings
  <2>2. QED
    BY <2>1
<1>4. (never \in w1 => \E s \in Orphans(def) : s.id = id) /\ (nothing \in w2 => \E s \in DeadEnds(def) : s.id = id)
  OBVIOUS
<1>. HIDE DEF w1, w2, w3, w4, never, nothing
<1>5. (never \in Validate(def).warnings => never \in w1) /\ (nothing \in Validate(def).warnings => nothing \in w2)
  BY <1>1, <1>2, <1>3
<1>6. QED
  BY <1>4, <1>5 DEF never, nothing

LEMMA ValidateVouches ==
  ASSUME NEW T, NEW def \in Seq(T)
  PROVE  Vouches(def, Validate(def))
<1>. DEFINE found == Validate(def)
            run == Reached(def, EngineRoutes)
<1>1. run \subseteq StepsOf(def) /\ run \subseteq Reachable(def)
  BY RunIsReached DEF Reached
<1>. HIDE DEF run
<1>2. ASSUME found.errors = {}
      PROVE  /\ Cardinality({i \in DOMAIN def : def[i].kind = "trigger"}) = 1
             /\ \A s \in run : EngineRoutes(s) \subseteq Ids(def) \cup {""} /\ Refusals(def, s) \subseteq NotLookedAt(s)
  <2>. DEFINE e2 == DeadReferences(def)
              e3 == UNION {ConfigErrors(s) : s \in StepsOf(def)}
  <2>1. found.errors = IF def = <<>> THEN {<<"", "no steps", "">>} ELSE ShapeErrors(def) \cup e2 \cup e3
    BY DEF Validate
  <2>2. ShapeErrors(def) = {} /\ e2 = {} /\ e3 = {}
    <3>. HIDE DEF found, e2, e3
    <3>1. QED
      BY <1>2, <2>1
  <2>3. /\ Cardinality({i \in DOMAIN def : def[i].kind = "trigger"}) = 1
        /\ \A s \in StepsOf(def) : s.kind \in NodeTypes
    BY <2>2, OneTrigger
  <2>4. \A s \in StepsOf(def) : ConfigErrors(s) = {}
    BY <2>2
  <2>5. \A s \in StepsOf(def) : References(s) \subseteq Ids(def) \cup {""}
    <3>1. SUFFICES ASSUME NEW s \in StepsOf(def), NEW r \in References(s) \ (Ids(def) \cup {""}) PROVE FALSE
      OBVIOUS
    <3>. DEFINE Dead(u) == {<<u.id, "points at nothing", t>> : t \in References(u) \ (Ids(def) \cup {""})}
    <3>2. <<s.id, "points at nothing", r>> \in DeadReferences(def)
      <4>1. <<s.id, "points at nothing", r>> \in Dead(s)
        OBVIOUS
      <4>2. DeadReferences(def) = UNION {Dead(u) : u \in StepsOf(def)}
        BY DEF DeadReferences
      <4>. HIDE DEF Dead
      <4>3. QED
        BY <4>1, <4>2
    <3>3. QED
      BY <2>2, <3>2
  <2>6. ASSUME NEW s \in run PROVE EngineRoutes(s) \subseteq Ids(def) \cup {""} /\ Refusals(def, s) \subseteq NotLookedAt(s)
    <3>1. s \in StepsOf(def)
      BY <1>1
    <3>2. Refusals(def, s) \subseteq NotLookedAt(s)
      BY <2>3, <2>4, <3>1, NothingElseIsRefused
    <3>3. EngineRoutes(s) \subseteq References(s)
      BY RoutesAreReferences
    <3>4. QED
      BY <2>5, <3>1, <3>2, <3>3
  <2>7. QED
    BY <2>3, <2>6
<1>3. ASSUME NEW s \in run
      PROVE  /\ <<s.id, "never runs", "">> \notin found.warnings
             /\ <<s.id, "nothing after it", "">> \in found.warnings => EngineRoutes(s) \subseteq {""}
  <2>1. s \in StepsOf(def) /\ s \in Reachable(def)
    BY <1>1
  <2>2. <<s.id, "never runs", "">> \notin found.warnings
    <3>1. SUFFICES ASSUME NEW u \in Orphans(def), u.id = s.id PROVE FALSE
      BY WarningsMean
    <3>2. u \in StepsOf(def) /\ u \notin Reachable(def)
      BY DEF Orphans
    <3>3. QED
      BY <2>1, <3>1, <3>2, IdsAreUnique
  <2>3. ASSUME <<s.id, "nothing after it", "">> \in found.warnings PROVE EngineRoutes(s) \subseteq {""}
    <3>1. PICK u \in DeadEnds(def) : u.id = s.id
      BY <2>3, WarningsMean
    <3>2. u \in StepsOf(def) /\ References(u) \subseteq {""}
      BY DEF DeadEnds, Reachable, Reached
    <3>3. u = s
      BY <2>1, <3>1, <3>2, IdsAreUnique
    <3>4. QED
      BY <3>2, <3>3, RoutesAreReferences
  <2>4. QED
    BY <2>2, <2>3
<1>. HIDE DEF found
<1>4. QED
  BY <1>2, <1>3 DEF Vouches, run, found
-----------------------------------------------------------------------------
(* Walks. *)

\* A walk goes on from where it was, step by step.
LEMMA PathUnfolds ==
  ASSUME NEW def, NEW w, NEW stops, NEW home, NEW limit \in Nat
  PROVE  Path(def, w, stops, home, limit) =
           [n \in 0 .. limit + 1 |-> IF n = 0 THEN w
              ELSE Onward(def, Path(def, w, stops, home, limit)[n - 1], stops, home, limit)]
<1>. DEFINE Next(u) == Onward(def, u, stops, home, limit)
            Unfolds(f, m) == f = [n \in 0 .. m |-> IF n = 0 THEN w ELSE Next(f[n - 1])]
<1>. HIDE DEF Next
<1>1. Unfolds([n \in 0 .. 0 |-> w], 0)
  OBVIOUS
<1>2. ASSUME NEW m \in Nat, NEW f, Unfolds(f, m) PROVE \E g : Unfolds(g, m + 1)
  <2>. DEFINE g == [n \in 0 .. m + 1 |-> IF n = m + 1 THEN Next(f[m]) ELSE f[n]]
  <2>1. ASSUME NEW n \in 0 .. m + 1 PROVE g[n] = IF n = 0 THEN w ELSE Next(g[n - 1])
    <3>1. CASE n = m + 1
      BY <3>1
    <3>2. CASE n # m + 1
      <4>1. n \in 0 .. m /\ (n # 0 => n - 1 \in 0 .. m)
        BY <3>2
      <4>2. f[n] = IF n = 0 THEN w ELSE Next(f[n - 1])
        BY <1>2, <4>1
      <4>3. QED
        BY <4>1, <4>2
    <3>3. QED
      BY <3>1, <3>2
  <2>2. Unfolds(g, m + 1)
    BY <2>1
  <2>. QED
    BY <2>2
<1>. HIDE DEF Unfolds
<1>3. \A m \in Nat : \E f : Unfolds(f, m)
  <2>. DEFINE Bad == {m \in Nat : ~\E f : Unfolds(f, m)}
  <2>1. SUFFICES ASSUME Bad # {} PROVE FALSE
    OBVIOUS
  <2>2. PICK m \in Bad : \A k \in Bad : m <= k
    BY <2>1, LeastNumber
  <2>3. m # 0
    BY <1>1
  <2>4. m - 1 \in Nat /\ m - 1 \notin Bad /\ (m - 1) + 1 = m
    BY <2>2, <2>3
  <2>5. QED
    BY <1>2, <2>4
<1>4. Path(def, w, stops, home, limit) = CHOOSE f : Unfolds(f, limit + 1)
  BY DEF Path, Unfolds, Next
<1>5. Unfolds(Path(def, w, stops, home, limit), limit + 1)
  BY <1>3, <1>4
<1>. QED
  BY <1>5 DEF Unfolds, Next

WalkFields == {"at", "guard", "ctx", "updates", "item", "out", "done", "err", "foreign"}
IsWalk(w) == DOMAIN w = WalkFields /\ w.guard \in Nat /\ {w.done, w.err} \subseteq BOOLEAN

LEMMA WalkStarts ==
  ASSUME NEW start, NEW ctx, NEW item
  PROVE  IsWalk(Walk(start, ctx, item)) /\ Walk(start, ctx, item).guard = 0
BY DEF IsWalk, Walk, WalkFields

\* A step counts against the guard, or ends the walk; at its guard a walk ends.
LEMMA StepCounts ==
  ASSUME NEW def, NEW w, NEW stops, NEW home, NEW limit \in Nat, IsWalk(w),
         NEW v, v = StepOn(def, w, stops, home, limit)
  PROVE  IsWalk(v) /\ (v.done \/ (v.guard = w.guard + 1 /\ w.guard # limit))
<1>. DEFINE over == w.at \notin DOMAIN def \ {Nowhere} \/ w.at = home \/ w.guard = limit
            step == def[w.at]
<1>1. IsWalk(Ran(def, w)) /\ Ran(def, w).guard = w.guard + 1
  <2>1. DOMAIN Ran(def, w) = DOMAIN w
    BY DEF Ran
  <2>2. Ran(def, w).guard = w.guard + 1 /\ Ran(def, w).done = w.done /\ Ran(def, w).err = w.err
    BY DEF Ran, IsWalk, WalkFields
  <2>3. QED
    BY <2>1, <2>2 DEF IsWalk
<1>2. v = CASE over -> [w EXCEPT !.done = TRUE]
            [] ~over /\ step.type \in stops -> [w EXCEPT !.done = TRUE]
            [] ~over /\ step.type = "stop_error" -> [w EXCEPT !.done = TRUE, !.out = <<w.at>>]
            [] ~over /\ w.item \in step.fails -> [w EXCEPT !.done = TRUE, !.err = TRUE]
            [] ~over /\ step.type = "wait" -> [Ran(def, w) EXCEPT !.done = TRUE, !.err = TRUE]
            [] OTHER -> [Ran(def, w) EXCEPT !.at = step.next[w.item]]
  BY DEF StepOn
<1>3. over \/ w.guard # limit
  OBVIOUS
<1>. HIDE DEF over, step
<1>4. \/ v = [w EXCEPT !.done = TRUE]
      \/ v = [w EXCEPT !.done = TRUE, !.out = <<w.at>>]
      \/ v = [w EXCEPT !.done = TRUE, !.err = TRUE]
      \/ v = [Ran(def, w) EXCEPT !.done = TRUE, !.err = TRUE]
      \/ v = [Ran(def, w) EXCEPT !.at = step.next[w.item]] /\ w.guard # limit
  <2>. DEFINE ran == Ran(def, w)
              A == step.type \in stops
              B == step.type = "stop_error"
              C == w.item \in step.fails
              D == step.type = "wait"
              next == step.next[w.item]
  <2>1. v = CASE over -> [w EXCEPT !.done = TRUE]
            [] ~over /\ A -> [w EXCEPT !.done = TRUE]
            [] ~over /\ B -> [w EXCEPT !.done = TRUE, !.out = <<w.at>>]
            [] ~over /\ C -> [w EXCEPT !.done = TRUE, !.err = TRUE]
            [] ~over /\ D -> [ran EXCEPT !.done = TRUE, !.err = TRUE]
            [] OTHER -> [ran EXCEPT !.at = next]
    BY <1>2
  <2>. HIDE DEF A, B, C, D, ran, next
  <2>2. \/ v = [w EXCEPT !.done = TRUE]
        \/ v = [w EXCEPT !.done = TRUE, !.out = <<w.at>>]
        \/ v = [w EXCEPT !.done = TRUE, !.err = TRUE]
        \/ v = [ran EXCEPT !.done = TRUE, !.err = TRUE]
        \/ v = [ran EXCEPT !.at = next] /\ w.guard # limit
    BY <1>3, <2>1
  <2>3. QED
    BY <2>2 DEF ran, next
<1>5. CASE \/ v = [w EXCEPT !.done = TRUE]
           \/ v = [w EXCEPT !.done = TRUE, !.out = <<w.at>>]
           \/ v = [w EXCEPT !.done = TRUE, !.err = TRUE]
  BY <1>5 DEF IsWalk, WalkFields
<1>. DEFINE ran == Ran(def, w)
            next == step.next[w.item]
<1>6. CASE v = [ran EXCEPT !.done = TRUE, !.err = TRUE]
  <2>. HIDE DEF ran
  <2>1. IsWalk(ran)
    BY <1>1 DEF ran
  <2>2. IsWalk(v) /\ v.done
    BY <1>6, <2>1 DEF IsWalk, WalkFields
  <2>3. QED
    BY <2>2
<1>7. CASE v = [ran EXCEPT !.at = next] /\ w.guard # limit
  <2>. HIDE DEF ran, next
  <2>1. IsWalk(ran) /\ ran.guard = w.guard + 1
    BY <1>1 DEF ran
  <2>2. IsWalk(v) /\ v.guard = w.guard + 1 /\ w.guard # limit
    BY <1>7, <2>1 DEF IsWalk, WalkFields
  <2>3. QED
    BY <2>2
<1>. QED
  BY <1>4, <1>5, <1>6, <1>7

\* So the walk is over in time, and stays as it ended.
LEMMA PathEnds ==
  ASSUME NEW def, NEW w, NEW stops, NEW home, NEW limit \in Nat, IsWalk(w), w.guard = 0
  PROVE  LET path == Path(def, w, stops, home, limit)
         IN /\ path[0] = w
            /\ \A n \in 0 .. limit + 1 : IsWalk(path[n])
            /\ \A n \in 0 .. limit : path[n + 1] = Onward(def, path[n], stops, home, limit)
            /\ path[limit + 1].done
            /\ \A n \in 0 .. limit + 1 : path[n].done => path[n] = path[limit + 1]
<1>. DEFINE path == Path(def, w, stops, home, limit)
            Fine(n) == IsWalk(path[n]) /\ (path[n].done \/ (path[n].guard = n /\ n # limit + 1))
<1>1. path[0] = w /\ \A n \in 0 .. limit : path[n + 1] = Onward(def, path[n], stops, home, limit)
  BY PathUnfolds
<1>. HIDE DEF path
<1>2. ASSUME NEW n \in 0 .. limit, Fine(n) PROVE Fine(n + 1)
  <2>1. CASE path[n].done
    <3>1. path[n + 1] = path[n]
      BY <1>1, <2>1 DEF Onward
    <3>2. QED
      BY <1>2, <2>1, <3>1
  <2>2. CASE ~path[n].done
    <3>1. path[n + 1] = StepOn(def, path[n], stops, home, limit)
      BY <1>1, <2>2 DEF Onward
    <3>2. IsWalk(path[n + 1]) /\ (path[n + 1].done \/ (path[n + 1].guard = path[n].guard + 1 /\ path[n].guard # limit))
      BY <1>2, <3>1, StepCounts
    <3>3. QED
      BY <1>2, <2>2, <3>2
  <2>3. QED
    BY <2>1, <2>2
<1>3. \A n \in 0 .. limit + 1 : Fine(n)
  <2>. DEFINE Bad == {n \in 0 .. limit + 1 : ~Fine(n)}
  <2>1. Fine(0)
    BY <1>1
  <2>. HIDE DEF Fine
  <2>2. SUFFICES ASSUME Bad # {} PROVE FALSE
    OBVIOUS
  <2>3. PICK m \in Bad : \A k \in Bad : m <= k
    <3>1. Bad \subseteq Nat
      OBVIOUS
    <3>. HIDE DEF Bad
    <3>2. QED
      BY <2>2, <3>1, LeastNumber
  <2>4. m - 1 \in 0 .. limit /\ m - 1 \notin Bad /\ (m - 1) + 1 = m
    BY <2>1, <2>3
  <2>5. QED
    BY <1>2, <2>4
<1>4. path[limit + 1].done
  BY <1>3
<1>5. \A n \in 0 .. limit + 1 : path[n].done => path[n] = path[limit + 1]
  <2>. DEFINE Bad == {n \in 0 .. limit + 1 : path[(limit + 1) - n].done /\ path[(limit + 1) - n] # path[limit + 1]}
  <2>1. ASSUME Bad # {} PROVE FALSE
    <3>1. PICK m \in Bad : \A k \in Bad : m <= k
      <4>1. Bad \subseteq Nat
        OBVIOUS
      <4>. HIDE DEF Bad
      <4>2. QED
        BY <2>1, <4>1, LeastNumber
    <3>2. m # 0
      BY <3>1
    <3>. DEFINE n == (limit + 1) - m
    <3>3. n \in 0 .. limit /\ path[n].done /\ path[n] # path[limit + 1]
      BY <3>1, <3>2
    <3>4. path[n + 1] = path[n]
      BY <1>1, <3>3 DEF Onward
    <3>5. m - 1 \in 0 .. limit + 1 /\ (limit + 1) - (m - 1) = n + 1
      BY <3>1, <3>2
    <3>6. m - 1 \in Bad
      BY <3>3, <3>4, <3>5
    <3>7. QED
      BY <3>1, <3>6
  <2>2. ASSUME NEW n \in 0 .. limit + 1, path[n].done PROVE path[n] = path[limit + 1]
    <3>1. (limit + 1) - n \in 0 .. limit + 1 /\ (limit + 1) - ((limit + 1) - n) = n
      OBVIOUS
    <3>2. (limit + 1) - n \notin Bad
      BY <2>1
    <3>3. QED
      BY <2>2, <3>1, <3>2
  <2>3. QED
    BY <2>2
<1>6. QED
  BY <1>1, <1>3, <1>4, <1>5 DEF path
-----------------------------------------------------------------------------
(* Parallel branches. *)

\* The walk of a branch that has the step to itself.
BranchPath(p, b) == Path(p.def, Walk(p.starts[b], p.ctx, NoItem), {"end", "parallel"}, Nowhere, BranchGuard)
\* However they interleave, each branch is somewhere on its own walk.
BranchesOnPath(p, forked) ==
  /\ DOMAIN forked = {"branches", "finished"}
  /\ forked.branches = [b \in DOMAIN p.starts |-> forked.branches[b]]
  /\ \A b \in DOMAIN p.starts : \E n \in 0 .. BranchGuard + 1 : forked.branches[b] = BranchPath(p, b)[n]

LEMMA BranchPaths ==
  ASSUME NEW p, NEW b
  PROVE  /\ BranchGuard \in Nat
         /\ BranchPath(p, b)[0] = Walk(p.starts[b], p.ctx, NoItem)
         /\ \A n \in 0 .. BranchGuard : BranchPath(p, b)[n + 1] =
              Onward(p.def, BranchPath(p, b)[n], {"end", "parallel"}, Nowhere, BranchGuard)
         /\ BranchPath(p, b)[BranchGuard + 1].done
         /\ \A n \in 0 .. BranchGuard + 1 : BranchPath(p, b)[n].done => BranchPath(p, b)[n] = BranchPath(p, b)[BranchGuard + 1]
<1>1. BranchGuard \in Nat
  BY LimitsAssumption
<1>2. QED
  BY <1>1, WalkStarts, PathEnds DEF BranchPath

LEMMA BranchesStart ==
  ASSUME NEW p, NEW forked, forked = Fork(p.starts, p.ctx)
  PROVE  BranchesOnPath(p, forked)
<1>1. DOMAIN forked = {"branches", "finished"} /\ forked.branches = [b \in DOMAIN p.starts |-> Walk(p.starts[b], p.ctx, NoItem)]
  BY DEF Fork
<1>2. ASSUME NEW b \in DOMAIN p.starts PROVE \E n \in 0 .. BranchGuard + 1 : forked.branches[b] = BranchPath(p, b)[n]
  <2>1. forked.branches[b] = BranchPath(p, b)[0] /\ 0 \in 0 .. BranchGuard + 1
    BY <1>1, BranchPaths
  <2>2. QED
    BY <2>1
<1>3. QED
  BY <1>1, <1>2 DEF BranchesOnPath

LEMMA BranchesGoOn ==
  ASSUME NEW p, NEW forked, BranchesOnPath(p, forked), NEW b \in DOMAIN forked.branches, ~forked.branches[b].done,
         NEW next, next = BranchStep(p.def, forked, b)
  PROVE  BranchesOnPath(p, next)
<1>. DEFINE w == StepOn(p.def, forked.branches[b], {"end", "parallel"}, Nowhere, BranchGuard)
<1>1. DOMAIN forked.branches = DOMAIN p.starts
  BY DEF BranchesOnPath
<1>2. DOMAIN next = {"branches", "finished"} /\ next.branches = [forked.branches EXCEPT ![b] = w]
  BY DEF BranchStep, BranchesOnPath
<1>3. PICK n \in 0 .. BranchGuard + 1 : forked.branches[b] = BranchPath(p, b)[n]
  BY <1>1 DEF BranchesOnPath
<1>4. n \in 0 .. BranchGuard
  BY <1>3, BranchPaths
<1>5. w = BranchPath(p, b)[n + 1] /\ n + 1 \in 0 .. BranchGuard + 1
  BY <1>3, <1>4, BranchPaths DEF Onward
<1>. HIDE DEF w
<1>6. ASSUME NEW c \in DOMAIN p.starts PROVE \E m \in 0 .. BranchGuard + 1 : next.branches[c] = BranchPath(p, c)[m]
  <2>1. CASE c = b
    <3>1. next.branches[c] = w
      BY <1>1, <1>2, <2>1
    <3>2. QED
      BY <1>5, <2>1, <3>1
  <2>2. CASE c # b
    <3>1. next.branches[c] = forked.branches[c]
      BY <1>1, <1>2, <2>2
    <3>2. QED
      BY <3>1 DEF BranchesOnPath
  <2>3. QED
    BY <2>1, <2>2
<1>7. next.branches = [c \in DOMAIN p.starts |-> next.branches[c]]
  BY <1>1, <1>2
<1>8. QED
  BY <1>2, <1>6, <1>7 DEF BranchesOnPath

LEMMA BranchesEnd ==
  ASSUME NEW p, NEW forked, BranchesOnPath(p, forked), \A b \in DOMAIN forked.branches : forked.branches[b].done
  PROVE  AsIfInOrder(p.def, p.starts, p.ctx, p.tolerant, FanIn(forked, p.ctx, p.tolerant))
<1>. DEFINE alone == [b \in DOMAIN p.starts |->
              WalkThrough(p.def, Walk(p.starts[b], p.ctx, NoItem), {"end", "parallel"}, Nowhere, BranchGuard)]
            inOrder == [branches |-> alone, finished |-> [b \in DOMAIN p.starts |-> b]]
<1>1. DOMAIN forked.branches = DOMAIN p.starts
  BY DEF BranchesOnPath
<1>2. \A b \in DOMAIN p.starts : alone[b] = BranchPath(p, b)[BranchGuard + 1]
  BY DEF WalkThrough, BranchPath
<1>. HIDE DEF alone
<1>3. \A b \in DOMAIN p.starts : forked.branches[b] = BranchPath(p, b)[BranchGuard + 1]
  <2>1. SUFFICES ASSUME NEW b \in DOMAIN p.starts
                 PROVE  forked.branches[b] = BranchPath(p, b)[BranchGuard + 1]
    OBVIOUS
  <2>2. PICK n \in 0 .. BranchGuard + 1 : forked.branches[b] = BranchPath(p, b)[n]
    BY DEF BranchesOnPath
  <2>3. BranchPath(p, b)[n].done
    BY <1>1, <2>2
  <2>4. QED
    BY <2>2, <2>3, BranchPaths
<1>4. alone = [b \in DOMAIN p.starts |-> alone[b]] /\ forked.branches = [b \in DOMAIN p.starts |-> forked.branches[b]]
  BY DEF alone, BranchesOnPath
<1>5. forked.branches = alone
  BY <1>2, <1>3, <1>4
<1>6. inOrder.branches = alone
  OBVIOUS
<1>7. MergeOrder(forked) = MergeOrder(inOrder)
  BY <1>5, <1>6 DEF MergeOrder
<1>. HIDE DEF inOrder
<1>8. FanIn(forked, p.ctx, p.tolerant) = FanIn(inOrder, p.ctx, p.tolerant)
  BY <1>5, <1>6, <1>7, Zenon DEF FanIn
<1>9. QED
  BY <1>8, Zenon DEF AsIfInOrder, inOrder, alone
-----------------------------------------------------------------------------
(* Loops. *)

\* Two walks over one body for one item have done the same, whatever context each was
\* given; and unless they read what they had not written, they have put out the same.
Alike(u, v) ==
  /\ IsWalk(u) /\ IsWalk(v) /\ v.foreign \in BOOLEAN
  /\ u.at = v.at /\ u.guard = v.guard /\ u.item = v.item /\ u.done = v.done /\ u.err = v.err
  /\ u.updates = v.updates /\ u.foreign = v.foreign
  /\ Nowhere \notin DOMAIN u.ctx /\ Nowhere \notin DOMAIN v.ctx
  /\ ~v.foreign => /\ u.out = v.out
                   /\ \A s \in v.updates : s \in DOMAIN u.ctx /\ s \in DOMAIN v.ctx /\ u.ctx[s] = v.ctx[s]

LEMMA RanFields ==
  ASSUME NEW def, NEW w, IsWalk(w), NEW ran, ran = Ran(def, w)
  PROVE  /\ IsWalk(ran) /\ ran.at = w.at /\ ran.guard = w.guard + 1 /\ ran.item = w.item
         /\ ran.done = w.done /\ ran.err = w.err
         /\ ran.updates = w.updates \cup {w.at} /\ ran.out = Output(def, w)
         /\ ran.ctx = Put(w.ctx, w.at, Output(def, w))
         /\ ran.foreign = (w.foreign \/ def[w.at].reads \notin w.updates \cup {Nowhere})
<1>. DEFINE out == Output(def, w)
            ctx == Put(w.ctx, w.at, out)
            foreign == w.foreign \/ def[w.at].reads \notin w.updates \cup {Nowhere}
<1>1. ran = [w EXCEPT !.guard = @ + 1, !.ctx = ctx, !.updates = @ \cup {w.at}, !.out = out, !.foreign = foreign]
  BY DEF Ran
<1>. HIDE DEF out, ctx, foreign
<1>2. DOMAIN w = WalkFields /\ w.guard \in Nat /\ {w.done, w.err} \subseteq BOOLEAN
  BY DEF IsWalk
<1>3. DOMAIN ran = WalkFields /\ ran.at = w.at /\ ran.guard = w.guard + 1 /\ ran.item = w.item
      /\ ran.done = w.done /\ ran.err = w.err /\ ran.updates = w.updates \cup {w.at} /\ ran.out = out
      /\ ran.ctx = ctx /\ ran.foreign = foreign
  BY <1>1, <1>2 DEF WalkFields
<1>4. QED
  BY <1>2, <1>3 DEF IsWalk, out, ctx, foreign

LEMMA RanAlike ==
  ASSUME NEW def, NEW u, NEW v, Alike(u, v), v.at # Nowhere,
         NEW uran, uran = Ran(def, u), NEW vran, vran = Ran(def, v)
  PROVE  Alike(uran, vran)
<1>. DEFINE reads == def[v.at].reads
            uout == Output(def, u)
            vout == Output(def, v)
<1>1. /\ IsWalk(u) /\ IsWalk(v) /\ v.foreign \in BOOLEAN
      /\ u.at = v.at /\ u.guard = v.guard /\ u.item = v.item /\ u.done = v.done /\ u.err = v.err
      /\ u.updates = v.updates /\ u.foreign = v.foreign
      /\ Nowhere \notin DOMAIN u.ctx /\ Nowhere \notin DOMAIN v.ctx
  BY DEF Alike
<1>2. /\ IsWalk(uran) /\ uran.at = u.at /\ uran.guard = u.guard + 1 /\ uran.item = u.item
      /\ uran.done = u.done /\ uran.err = u.err
      /\ uran.updates = u.updates \cup {u.at} /\ uran.out = uout
      /\ uran.ctx = Put(u.ctx, u.at, uout)
      /\ uran.foreign = (u.foreign \/ def[u.at].reads \notin u.updates \cup {Nowhere})
  BY <1>1, RanFields
<1>3. /\ IsWalk(vran) /\ vran.at = v.at /\ vran.guard = v.guard + 1 /\ vran.item = v.item
      /\ vran.done = v.done /\ vran.err = v.err
      /\ vran.updates = v.updates \cup {v.at} /\ vran.out = vout
      /\ vran.ctx = Put(v.ctx, v.at, vout)
      /\ vran.foreign = (v.foreign \/ reads \notin v.updates \cup {Nowhere})
  BY <1>1, RanFields
<1>4. uran.foreign = vran.foreign /\ vran.foreign \in BOOLEAN
  BY <1>1, <1>2, <1>3
<1>5. Nowhere \notin DOMAIN uran.ctx /\ Nowhere \notin DOMAIN vran.ctx
  BY <1>1, <1>2, <1>3 DEF Put
<1>6. ASSUME ~vran.foreign
      PROVE  /\ uran.out = vran.out
             /\ \A s \in vran.updates : s \in DOMAIN uran.ctx /\ s \in DOMAIN vran.ctx /\ uran.ctx[s] = vran.ctx[s]
  <2>1. ~v.foreign /\ reads \in v.updates \cup {Nowhere}
    BY <1>1, <1>3, <1>6
  <2>2. \A s \in v.updates : s \in DOMAIN u.ctx /\ s \in DOMAIN v.ctx /\ u.ctx[s] = v.ctx[s]
    BY <2>1 DEF Alike
  <2>3. uout = vout
    <3>. DEFINE own == IF v.item = NoItem THEN <<v.at>> ELSE <<v.item>>
    <3>1. /\ uout = IF reads \in DOMAIN u.ctx THEN u.ctx[reads] \o own ELSE own
          /\ vout = IF reads \in DOMAIN v.ctx THEN v.ctx[reads] \o own ELSE own
      BY <1>1 DEF Output
    <3>. HIDE DEF own, uout, vout, reads
    <3>2. CASE reads = Nowhere
      BY <1>1, <3>1, <3>2
    <3>3. CASE reads \in v.updates
      BY <2>2, <3>1, <3>3
    <3>4. QED
      BY <2>1, <3>2, <3>3
  <2>. HIDE DEF uout, vout
  <2>4. ASSUME NEW s \in vran.updates PROVE s \in DOMAIN uran.ctx /\ s \in DOMAIN vran.ctx /\ uran.ctx[s] = vran.ctx[s]
    <3>1. s \in v.updates \/ s = v.at
      BY <1>3
    <3>2. CASE s = v.at
      BY <1>1, <1>2, <1>3, <2>3, <3>2 DEF Put
    <3>3. CASE s \in v.updates /\ s # v.at
      BY <1>1, <1>2, <1>3, <2>2, <3>3 DEF Put
    <3>4. QED
      BY <3>1, <3>2, <3>3
  <2>5. QED
    BY <1>2, <1>3, <2>3, <2>4
<1>. HIDE DEF uout, vout, reads
<1>7. /\ uran.at = vran.at /\ uran.guard = vran.guard /\ uran.item = vran.item /\ uran.done = vran.done
      /\ uran.err = vran.err /\ uran.updates = vran.updates
  BY <1>1, <1>2, <1>3
<1>8. QED
  BY <1>2, <1>3, <1>4, <1>5, <1>6, <1>7 DEF Alike

\* Walks that are alike stay so when both are moved, ended or given one output.
LEMMA AlikeKept ==
  ASSUME NEW u, NEW v, Alike(u, v), NEW unext, NEW vnext,
         DOMAIN unext = WalkFields, DOMAIN vnext = WalkFields,
         unext.guard = u.guard, unext.item = u.item, unext.updates = u.updates,
         unext.foreign = u.foreign, unext.ctx = u.ctx,
         vnext.guard = v.guard, vnext.item = v.item, vnext.updates = v.updates,
         vnext.foreign = v.foreign, vnext.ctx = v.ctx,
         unext.at = vnext.at, unext.done = vnext.done, unext.err = vnext.err,
         vnext.done \in BOOLEAN, vnext.err \in BOOLEAN, ~v.foreign => unext.out = vnext.out
  PROVE  Alike(unext, vnext)
<1>1. IsWalk(unext) /\ IsWalk(vnext)
  BY DEF Alike, IsWalk
<1>2. QED
  BY <1>1 DEF Alike

LEMMA StepAlike ==
  ASSUME NEW def, NEW u, NEW v, Alike(u, v), NEW stops, NEW home, NEW limit \in Nat,
         NEW unext, unext = StepOn(def, u, stops, home, limit), NEW vnext, vnext = StepOn(def, v, stops, home, limit)
  PROVE  Alike(unext, vnext)
<1>. DEFINE over == v.at \notin DOMAIN def \ {Nowhere} \/ v.at = home \/ v.guard = limit
            step == def[v.at]
            A == step.type \in stops
            B == step.type = "stop_error"
            C == v.item \in step.fails
            D == step.type = "wait"
            next == step.next[v.item]
            here == v.at
            uran == Ran(def, u)
            vran == Ran(def, v)
<1>1. u.at = v.at /\ u.guard = v.guard /\ u.item = v.item
  BY DEF Alike
<1>2. vnext = CASE over -> [v EXCEPT !.done = TRUE]
            [] ~over /\ A -> [v EXCEPT !.done = TRUE]
            [] ~over /\ B -> [v EXCEPT !.done = TRUE, !.out = <<here>>]
            [] ~over /\ C -> [v EXCEPT !.done = TRUE, !.err = TRUE]
            [] ~over /\ D -> [vran EXCEPT !.done = TRUE, !.err = TRUE]
            [] OTHER -> [vran EXCEPT !.at = next]
  BY DEF StepOn
<1>3. unext = CASE over -> [u EXCEPT !.done = TRUE]
            [] ~over /\ A -> [u EXCEPT !.done = TRUE]
            [] ~over /\ B -> [u EXCEPT !.done = TRUE, !.out = <<here>>]
            [] ~over /\ C -> [u EXCEPT !.done = TRUE, !.err = TRUE]
            [] ~over /\ D -> [uran EXCEPT !.done = TRUE, !.err = TRUE]
            [] OTHER -> [uran EXCEPT !.at = next]
  BY <1>1 DEF StepOn
<1>4. ~over => Alike(uran, vran)
  BY RanAlike
<1>. HIDE DEF over, A, B, C, D, next, here, uran, vran
<1>5. \/ unext = [u EXCEPT !.done = TRUE] /\ vnext = [v EXCEPT !.done = TRUE]
      \/ unext = [u EXCEPT !.done = TRUE, !.out = <<here>>] /\ vnext = [v EXCEPT !.done = TRUE, !.out = <<here>>]
      \/ unext = [u EXCEPT !.done = TRUE, !.err = TRUE] /\ vnext = [v EXCEPT !.done = TRUE, !.err = TRUE]
      \/ ~over /\ unext = [uran EXCEPT !.done = TRUE, !.err = TRUE] /\ vnext = [vran EXCEPT !.done = TRUE, !.err = TRUE]
      \/ ~over /\ unext = [uran EXCEPT !.at = next] /\ vnext = [vran EXCEPT !.at = next]
  <2>1. CASE over
    BY <1>2, <1>3, <2>1
  <2>2. CASE ~over /\ A
    BY <1>2, <1>3, <2>2
  <2>3. CASE ~over /\ ~A /\ B
    BY <1>2, <1>3, <2>3
  <2>4. CASE ~over /\ ~A /\ ~B /\ C
    BY <1>2, <1>3, <2>4
  <2>5. CASE ~over /\ ~A /\ ~B /\ ~C /\ D
    BY <1>2, <1>3, <2>5
  <2>6. CASE ~over /\ ~A /\ ~B /\ ~C /\ ~D
    BY <1>2, <1>3, <2>6
  <2>7. QED
    BY <2>1, <2>2, <2>3, <2>4, <2>5, <2>6
<1>6. CASE unext = [u EXCEPT !.done = TRUE] /\ vnext = [v EXCEPT !.done = TRUE]
  <2>1. DOMAIN u = WalkFields /\ DOMAIN v = WalkFields /\ Alike(u, v)
        /\ u.at = v.at /\ u.done = v.done /\ u.err = v.err /\ (~v.foreign => u.out = v.out)
        /\ {v.done, v.err} \subseteq BOOLEAN
    BY <1>6 DEF Alike, IsWalk
  <2>2. DOMAIN unext = WalkFields /\ DOMAIN vnext = WalkFields
    BY <1>6, <2>1
  <2>3. /\ unext.guard = u.guard /\ unext.item = u.item /\ unext.updates = u.updates /\ unext.foreign = u.foreign /\ unext.ctx = u.ctx
        /\ unext.at = u.at /\ unext.done = TRUE /\ unext.err = u.err /\ unext.out = u.out
    BY <1>6, <2>1 DEF WalkFields
  <2>4. /\ vnext.guard = v.guard /\ vnext.item = v.item /\ vnext.updates = v.updates /\ vnext.foreign = v.foreign /\ vnext.ctx = v.ctx
        /\ vnext.at = v.at /\ vnext.done = TRUE /\ vnext.err = v.err /\ vnext.out = v.out
    BY <1>6, <2>1 DEF WalkFields
  <2>5. unext.at = vnext.at /\ unext.done = vnext.done /\ unext.err = vnext.err
        /\ vnext.done \in BOOLEAN /\ vnext.err \in BOOLEAN /\ (~v.foreign => unext.out = vnext.out)
    BY <2>1, <2>3, <2>4
  <2>6. Alike(u, v)
    BY <2>1
  <2>. QED
    BY <2>2, <2>3, <2>4, <2>5, <2>6, AlikeKept
<1>7. CASE unext = [u EXCEPT !.done = TRUE, !.out = <<here>>] /\ vnext = [v EXCEPT !.done = TRUE, !.out = <<here>>]
  <2>1. DOMAIN u = WalkFields /\ DOMAIN v = WalkFields /\ Alike(u, v)
        /\ u.at = v.at /\ u.done = v.done /\ u.err = v.err /\ (~v.foreign => u.out = v.out)
        /\ {v.done, v.err} \subseteq BOOLEAN
    BY <1>7 DEF Alike, IsWalk
  <2>2. DOMAIN unext = WalkFields /\ DOMAIN vnext = WalkFields
    BY <1>7, <2>1
  <2>3. /\ unext.guard = u.guard /\ unext.item = u.item /\ unext.updates = u.updates /\ unext.foreign = u.foreign /\ unext.ctx = u.ctx
        /\ unext.at = u.at /\ unext.done = TRUE /\ unext.err = u.err /\ unext.out = <<here>>
    BY <1>7, <2>1 DEF WalkFields
  <2>4. /\ vnext.guard = v.guard /\ vnext.item = v.item /\ vnext.updates = v.updates /\ vnext.foreign = v.foreign /\ vnext.ctx = v.ctx
        /\ vnext.at = v.at /\ vnext.done = TRUE /\ vnext.err = v.err /\ vnext.out = <<here>>
    BY <1>7, <2>1 DEF WalkFields
  <2>5. unext.at = vnext.at /\ unext.done = vnext.done /\ unext.err = vnext.err
        /\ vnext.done \in BOOLEAN /\ vnext.err \in BOOLEAN /\ (~v.foreign => unext.out = vnext.out)
    BY <2>1, <2>3, <2>4
  <2>6. Alike(u, v)
    BY <2>1
  <2>. QED
    BY <2>2, <2>3, <2>4, <2>5, <2>6, AlikeKept
<1>8. CASE unext = [u EXCEPT !.done = TRUE, !.err = TRUE] /\ vnext = [v EXCEPT !.done = TRUE, !.err = TRUE]
  <2>1. DOMAIN u = WalkFields /\ DOMAIN v = WalkFields /\ Alike(u, v)
        /\ u.at = v.at /\ u.done = v.done /\ u.err = v.err /\ (~v.foreign => u.out = v.out)
        /\ {v.done, v.err} \subseteq BOOLEAN
    BY <1>8 DEF Alike, IsWalk
  <2>2. DOMAIN unext = WalkFields /\ DOMAIN vnext = WalkFields
    BY <1>8, <2>1
  <2>3. /\ unext.guard = u.guard /\ unext.item = u.item /\ unext.updates = u.updates /\ unext.foreign = u.foreign /\ unext.ctx = u.ctx
        /\ unext.at = u.at /\ unext.done = TRUE /\ unext.err = TRUE /\ unext.out = u.out
    BY <1>8, <2>1 DEF WalkFields
  <2>4. /\ vnext.guard = v.guard /\ vnext.item = v.item /\ vnext.updates = v.updates /\ vnext.foreign = v.foreign /\ vnext.ctx = v.ctx
        /\ vnext.at = v.at /\ vnext.done = TRUE /\ vnext.err = TRUE /\ vnext.out = v.out
    BY <1>8, <2>1 DEF WalkFields
  <2>5. unext.at = vnext.at /\ unext.done = vnext.done /\ unext.err = vnext.err
        /\ vnext.done \in BOOLEAN /\ vnext.err \in BOOLEAN /\ (~v.foreign => unext.out = vnext.out)
    BY <2>1, <2>3, <2>4
  <2>6. Alike(u, v)
    BY <2>1
  <2>. QED
    BY <2>2, <2>3, <2>4, <2>5, <2>6, AlikeKept
<1>9. CASE ~over /\ unext = [uran EXCEPT !.done = TRUE, !.err = TRUE] /\ vnext = [vran EXCEPT !.done = TRUE, !.err = TRUE]
  <2>1. DOMAIN uran = WalkFields /\ DOMAIN vran = WalkFields /\ Alike(uran, vran)
        /\ uran.at = vran.at /\ uran.done = vran.done /\ uran.err = vran.err /\ (~vran.foreign => uran.out = vran.out)
        /\ {vran.done, vran.err} \subseteq BOOLEAN
    BY <1>4, <1>9 DEF Alike, IsWalk
  <2>2. DOMAIN unext = WalkFields /\ DOMAIN vnext = WalkFields
    BY <1>9, <2>1
  <2>3. /\ unext.guard = uran.guard /\ unext.item = uran.item /\ unext.updates = uran.updates /\ unext.foreign = uran.foreign /\ unext.ctx = uran.ctx
        /\ unext.at = uran.at /\ unext.done = TRUE /\ unext.err = TRUE /\ unext.out = uran.out
    BY <1>9, <2>1 DEF WalkFields
  <2>4. /\ vnext.guard = vran.guard /\ vnext.item = vran.item /\ vnext.updates = vran.updates /\ vnext.foreign = vran.foreign /\ vnext.ctx = vran.ctx
        /\ vnext.at = vran.at /\ vnext.done = TRUE /\ vnext.err = TRUE /\ vnext.out = vran.out
    BY <1>9, <2>1 DEF WalkFields
  <2>5. unext.at = vnext.at /\ unext.done = vnext.done /\ unext.err = vnext.err
        /\ vnext.done \in BOOLEAN /\ vnext.err \in BOOLEAN /\ (~vran.foreign => unext.out = vnext.out)
    BY <2>1, <2>3, <2>4
  <2>6. Alike(uran, vran)
    BY <2>1
  <2>. QED
    BY <2>2, <2>3, <2>4, <2>5, <2>6, AlikeKept
<1>10. CASE ~over /\ unext = [uran EXCEPT !.at = next] /\ vnext = [vran EXCEPT !.at = next]
  <2>1. DOMAIN uran = WalkFields /\ DOMAIN vran = WalkFields /\ Alike(uran, vran)
        /\ uran.at = vran.at /\ uran.done = vran.done /\ uran.err = vran.err /\ (~vran.foreign => uran.out = vran.out)
        /\ {vran.done, vran.err} \subseteq BOOLEAN
    BY <1>4, <1>10 DEF Alike, IsWalk
  <2>2. DOMAIN unext = WalkFields /\ DOMAIN vnext = WalkFields
    BY <1>10, <2>1
  <2>3. /\ unext.guard = uran.guard /\ unext.item = uran.item /\ unext.updates = uran.updates /\ unext.foreign = uran.foreign /\ unext.ctx = uran.ctx
        /\ unext.at = next /\ unext.done = uran.done /\ unext.err = uran.err /\ unext.out = uran.out
    BY <1>10, <2>1 DEF WalkFields
  <2>4. /\ vnext.guard = vran.guard /\ vnext.item = vran.item /\ vnext.updates = vran.updates /\ vnext.foreign = vran.foreign /\ vnext.ctx = vran.ctx
        /\ vnext.at = next /\ vnext.done = vran.done /\ vnext.err = vran.err /\ vnext.out = vran.out
    BY <1>10, <2>1 DEF WalkFields
  <2>5. unext.at = vnext.at /\ unext.done = vnext.done /\ unext.err = vnext.err
        /\ vnext.done \in BOOLEAN /\ vnext.err \in BOOLEAN /\ (~vran.foreign => unext.out = vnext.out)
    BY <2>1, <2>3, <2>4
  <2>6. Alike(uran, vran)
    BY <2>1
  <2>. QED
    BY <2>2, <2>3, <2>4, <2>5, <2>6, AlikeKept
<1>11. QED
  BY <1>5, <1>6, <1>7, <1>8, <1>9, <1>10

\* The body of a loop for an item, on any two contexts.
LEMMA BodyAlike ==
  ASSUME NEW cfg, NEW item, NEW c, Nowhere \notin DOMAIN c, NEW d, Nowhere \notin DOMAIN d,
         NEW u, u = WalkThrough(cfg.def, Walk(cfg.body, c, item), {"end", "loop"}, cfg.loop, BodyGuard),
         NEW v, v = WalkThrough(cfg.def, Walk(cfg.body, d, item), {"end", "loop"}, cfg.loop, BodyGuard)
  PROVE  Alike(u, v)
<1>. DEFINE ustart == Walk(cfg.body, c, item)
            vstart == Walk(cfg.body, d, item)
            upath == Path(cfg.def, ustart, {"end", "loop"}, cfg.loop, BodyGuard)
            vpath == Path(cfg.def, vstart, {"end", "loop"}, cfg.loop, BodyGuard)
<1>1. BodyGuard \in Nat
  BY LimitsAssumption
<1>2. /\ IsWalk(ustart) /\ ustart.guard = 0 /\ IsWalk(vstart) /\ vstart.guard = 0
  BY WalkStarts
<1>3. Alike(ustart, vstart)
  <2>1. ustart = [at |-> cfg.body, guard |-> 0, ctx |-> c, updates |-> {}, item |-> item, out |-> <<>>,
                  done |-> FALSE, err |-> FALSE, foreign |-> FALSE]
    BY DEF Walk
  <2>2. vstart = [at |-> cfg.body, guard |-> 0, ctx |-> d, updates |-> {}, item |-> item, out |-> <<>>,
                  done |-> FALSE, err |-> FALSE, foreign |-> FALSE]
    BY DEF Walk
  <2>. HIDE DEF ustart, vstart
  <2>3. QED
    BY <1>2, <2>1, <2>2 DEF Alike
<1>4. /\ upath[0] = ustart /\ vpath[0] = vstart
      /\ \A n \in 0 .. BodyGuard : upath[n + 1] = Onward(cfg.def, upath[n], {"end", "loop"}, cfg.loop, BodyGuard)
      /\ \A n \in 0 .. BodyGuard : vpath[n + 1] = Onward(cfg.def, vpath[n], {"end", "loop"}, cfg.loop, BodyGuard)
  <2>. HIDE DEF ustart, vstart
  <2>1. QED
    BY <1>1, <1>2, PathEnds
<1>. HIDE DEF ustart, vstart, upath, vpath
<1>5. ASSUME NEW n \in 0 .. BodyGuard, Alike(upath[n], vpath[n]) PROVE Alike(upath[n + 1], vpath[n + 1])
  <2>1. upath[n].done = vpath[n].done
    BY <1>5 DEF Alike
  <2>2. CASE vpath[n].done
    BY <1>4, <1>5, <2>1, <2>2 DEF Onward
  <2>3. CASE ~vpath[n].done
    <3>1. /\ upath[n + 1] = StepOn(cfg.def, upath[n], {"end", "loop"}, cfg.loop, BodyGuard)
          /\ vpath[n + 1] = StepOn(cfg.def, vpath[n], {"end", "loop"}, cfg.loop, BodyGuard)
      BY <1>4, <2>1, <2>3 DEF Onward
    <3>2. QED
      BY <1>1, <1>5, <3>1, StepAlike
  <2>4. QED
    BY <2>2, <2>3
<1>6. \A n \in 0 .. BodyGuard + 1 : Alike(upath[n], vpath[n])
  <2>. DEFINE Bad == {n \in 0 .. BodyGuard + 1 : ~Alike(upath[n], vpath[n])}
  <2>1. SUFFICES ASSUME Bad # {} PROVE FALSE
    OBVIOUS
  <2>2. PICK m \in Bad : \A k \in Bad : m <= k
    <3>1. Bad \subseteq Nat
      OBVIOUS
    <3>. HIDE DEF Bad
    <3>2. QED
      BY <2>1, <3>1, LeastNumber
  <2>3. m # 0
    BY <1>3, <1>4, <2>2
  <2>4. m - 1 \in 0 .. BodyGuard /\ (m - 1) + 1 = m
    BY <1>1, <2>2, <2>3
  <2>5. m - 1 \notin Bad
    BY <2>2, <2>4
  <2>6. Alike(upath[m - 1], vpath[m - 1])
    BY <1>1, <2>4, <2>5
  <2>7. QED
    BY <1>5, <2>2, <2>4, <2>6
<1>7. u = upath[BodyGuard + 1] /\ v = vpath[BodyGuard + 1]
  BY DEF WalkThrough, upath, vpath, ustart, vstart
<1>8. QED
  BY <1>1, <1>6, <1>7

LEMMA LapsUnfold ==
  ASSUME NEW cfg, NEW items, NEW ctx, Taken(items) \in Nat
  PROVE  Laps(cfg, items, ctx) = [i \in 0 .. Taken(items) |-> IF i = 0 THEN LoopStart(ctx)
                                    ELSE LoopBody(cfg, Laps(cfg, items, ctx)[i - 1], items[i])]
<1>. DEFINE Next(acc, i) == LoopBody(cfg, acc, items[i])
            start == LoopStart(ctx)
            Unfolds(f, m) == f = [i \in 0 .. m |-> IF i = 0 THEN start ELSE Next(f[i - 1], i)]
<1>. HIDE DEF Next, start
<1>1. Unfolds([i \in 0 .. 0 |-> start], 0)
  OBVIOUS
<1>2. ASSUME NEW m \in Nat, NEW f, Unfolds(f, m) PROVE \E g : Unfolds(g, m + 1)
  <2>. DEFINE g == [i \in 0 .. m + 1 |-> IF i = m + 1 THEN Next(f[m], m + 1) ELSE f[i]]
  <2>1. ASSUME NEW i \in 0 .. m + 1 PROVE g[i] = IF i = 0 THEN start ELSE Next(g[i - 1], i)
    <3>1. CASE i = m + 1
      BY <3>1
    <3>2. CASE i # m + 1
      <4>1. i \in 0 .. m /\ (i # 0 => i - 1 \in 0 .. m)
        BY <3>2
      <4>2. f[i] = IF i = 0 THEN start ELSE Next(f[i - 1], i)
        BY <1>2, <4>1
      <4>3. QED
        BY <4>1, <4>2
    <3>3. QED
      BY <3>1, <3>2
  <2>2. Unfolds(g, m + 1)
    BY <2>1
  <2>. QED
    BY <2>2
<1>. HIDE DEF Unfolds
<1>3. \A m \in Nat : \E f : Unfolds(f, m)
  <2>. DEFINE Bad == {m \in Nat : ~\E f : Unfolds(f, m)}
  <2>1. SUFFICES ASSUME Bad # {} PROVE FALSE
    OBVIOUS
  <2>2. PICK m \in Bad : \A k \in Bad : m <= k
    BY <2>1, LeastNumber
  <2>3. m # 0
    BY <1>1
  <2>4. m - 1 \in Nat /\ m - 1 \notin Bad /\ (m - 1) + 1 = m
    BY <2>2, <2>3
  <2>5. QED
    BY <1>2, <2>4
<1>4. Laps(cfg, items, ctx) = CHOOSE f : Unfolds(f, Taken(items))
  BY DEF Laps, Unfolds, Next, start
<1>5. Unfolds(Laps(cfg, items, ctx), Taken(items))
  BY <1>3, <1>4
<1>. QED
  BY <1>5 DEF Unfolds, Next, start

\* One more entry in a sequence, and how many of its entries are errors.
Listed(s) == \E S : s \in Seq(S)
Errors(s) == {j \in 1 .. Len(s) : s[j].error}
LEMMA OneMoreEntry ==
  ASSUME NEW s, Listed(s), NEW e, {e.error} \subseteq BOOLEAN
  PROVE  LET r == Append(s, e) IN
         /\ Listed(r) /\ Len(s) \in Nat /\ Len(r) = Len(s) + 1
         /\ \A j \in 1 .. Len(s) : r[j] = s[j]
         /\ r[Len(s) + 1] = e
         /\ Cardinality(Errors(s)) \in Nat
         /\ e.error = TRUE => Cardinality(Errors(r)) = Cardinality(Errors(s)) + 1
         /\ e.error = FALSE => Cardinality(Errors(r)) = Cardinality(Errors(s))
<1>. DEFINE r == Append(s, e)
<1>0. PICK S : s \in Seq(S)
  BY DEF Listed
<1>1. /\ r \in Seq(S \cup {e}) /\ Len(s) \in Nat /\ Len(r) = Len(s) + 1
      /\ \A j \in 1 .. Len(s) : r[j] = s[j]
      /\ r[Len(s) + 1] = e
  <2>1. s \in Seq(S \cup {e}) /\ e \in S \cup {e} /\ Len(s) \in Nat
    BY <1>0
  <2>2. QED
    BY <1>0, <2>1
<1>2. IsFiniteSet(Errors(s))
  <2>1. IsFiniteSet(1 .. Len(s))
    BY <1>1, FS_Interval
  <2>2. Errors(s) \in SUBSET (1 .. Len(s))
    BY DEF Errors
  <2>3. QED
    BY <2>1, <2>2, FS_Subset
<1>3. Errors(r) = IF e.error THEN Errors(s) \cup {Len(s) + 1} ELSE Errors(s)
  <2>1. 1 .. Len(r) = (1 .. Len(s)) \cup {Len(s) + 1}
    BY <1>1
  <2>2. ASSUME NEW j PROVE j \in Errors(r) <=> j \in IF e.error THEN Errors(s) \cup {Len(s) + 1} ELSE Errors(s)
    BY <1>1, <2>1 DEF Errors
  <2>3. QED
    BY <2>2
<1>4. Len(s) + 1 \notin Errors(s)
  BY <1>1 DEF Errors
<1>5. Listed(r)
  BY <1>1 DEF Listed
<1>6. Cardinality(Errors(s)) \in Nat
  BY <1>2, FS_CardinalityType
<1>7. Cardinality(Errors(s) \cup {Len(s) + 1}) = Cardinality(Errors(s)) + 1
  BY <1>2, <1>4, FS_AddElement
<1>. HIDE DEF r
<1>8. QED
  BY <1>1, <1>3, <1>5, <1>6, <1>7 DEF r

\* What the body does for an item on the context that the loop was given.
AloneOf(cfg, items, ctx, i) == WalkThrough(cfg.def, Walk(cfg.body, ctx, items[i]), {"end", "loop"}, cfg.loop, BodyGuard)
\* The loop after i of its items.
Kept(cfg, items, ctx, i, acc) ==
  /\ DOMAIN acc = {"ctx", "results", "errored", "item", "end"} /\ Nowhere \notin DOMAIN acc.ctx
  /\ Listed(acc.results)
  /\ \A j \in 1 .. Len(acc.results) :
       LET alone == AloneOf(cfg, items, ctx, j)  entry == acc.results[j]
       IN entry.item = items[j] /\ entry.error = alone.err /\ (~alone.foreign /\ ~alone.err => entry.out = alone.out)
  /\ acc.errored = Cardinality(Errors(acc.results)) /\ acc.errored \in Nat
  /\ cfg.continueOnError \/ acc.errored = 0
  /\ IF acc.end = "next" THEN Len(acc.results) = i
     ELSE Len(acc.results) < i /\ AloneOf(cfg, items, ctx, Len(acc.results) + 1).err /\ ~cfg.continueOnError

LEMMA LoopStarts ==
  ASSUME NEW cfg, NEW items, NEW ctx, Nowhere \notin DOMAIN ctx, NEW acc, acc = LoopStart(ctx)
  PROVE  Kept(cfg, items, ctx, 0, acc)
<1>1. DOMAIN acc = {"ctx", "results", "errored", "item", "end"} /\ acc.ctx = ctx /\ acc.results = <<>>
      /\ acc.errored = 0 /\ acc.end = "next"
  BY DEF LoopStart
<1>2. Listed(acc.results) /\ Len(acc.results) = 0
  <2>1. acc.results \in Seq({}) /\ Len(acc.results) = 0
    BY <1>1
  <2>2. QED
    BY <2>1 DEF Listed
<1>3. Errors(acc.results) = {}
  BY <1>2 DEF Errors
<1>4. Cardinality(Errors(acc.results)) = 0
  BY <1>3, FS_EmptySet
<1>5. QED
  BY <1>1, <1>2, <1>4 DEF Kept

\* One more result in the answer.
LEMMA ResultKept ==
  ASSUME NEW cfg, NEW items, NEW ctx, NEW i \in Nat, NEW acc, Kept(cfg, items, ctx, i, acc), acc.end = "next",
         NEW body, Alike(body, AloneOf(cfg, items, ctx, i + 1)), cfg.continueOnError \/ ~body.err,
         NEW e, e.item = items[i + 1], e.error = body.err, ~body.err => e.out = body.out,
         NEW next, DOMAIN next = DOMAIN acc, next.ctx = body.ctx, next.end = acc.end,
         next.results = Append(acc.results, e),
         next.errored = IF body.err THEN acc.errored + 1 ELSE acc.errored
  PROVE  Kept(cfg, items, ctx, i + 1, next)
<1>. DEFINE alone(j) == AloneOf(cfg, items, ctx, j)
<1>1. /\ DOMAIN next = {"ctx", "results", "errored", "item", "end"} /\ acc.errored = Cardinality(Errors(acc.results))
      /\ Len(acc.results) = i /\ acc.errored \in Nat /\ (cfg.continueOnError \/ acc.errored = 0)
  BY DEF Kept
<1>2. Listed(acc.results)
  BY DEF Kept
<1>3. /\ Nowhere \notin DOMAIN next.ctx /\ body.err \in BOOLEAN /\ body.err = alone(i + 1).err
      /\ body.foreign = alone(i + 1).foreign /\ (~alone(i + 1).foreign => body.out = alone(i + 1).out)
  BY DEF Alike, IsWalk
<1>. HIDE DEF alone
<1>4. e.item = items[i + 1] /\ e.error = body.err /\ (~body.err => e.out = body.out)
  OBVIOUS
<1>5. /\ Listed(next.results) /\ Len(next.results) = i + 1
      /\ \A j \in 1 .. i : next.results[j] = acc.results[j]
      /\ next.results[i + 1] = e
      /\ Cardinality(Errors(next.results)) = IF body.err THEN acc.errored + 1 ELSE acc.errored
  <2>1. {e.error} \subseteq BOOLEAN
    BY <1>3, <1>4
  <2>2. /\ Listed(next.results) /\ Len(next.results) = Len(acc.results) + 1
        /\ \A j \in 1 .. Len(acc.results) : next.results[j] = acc.results[j]
        /\ next.results[Len(acc.results) + 1] = e
        /\ e.error = TRUE => Cardinality(Errors(next.results)) = Cardinality(Errors(acc.results)) + 1
        /\ e.error = FALSE => Cardinality(Errors(next.results)) = Cardinality(Errors(acc.results))
    <3>. DEFINE s == acc.results
                r == next.results
    <3>1. Listed(s) /\ r = Append(s, e)
      BY <1>2
    <3>. HIDE DEF s, r, Errors
    <3>2. Listed(r) /\ Len(r) = Len(s) + 1
      BY <2>1, <3>1, OneMoreEntry
    <3>3. \A j \in 1 .. Len(s) : r[j] = s[j]
      BY <2>1, <3>1, OneMoreEntry
    <3>4. r[Len(s) + 1] = e
      BY <2>1, <3>1, OneMoreEntry
    <3>5. e.error = TRUE => Cardinality(Errors(r)) = Cardinality(Errors(s)) + 1
      BY <2>1, <3>1, OneMoreEntry
    <3>6. e.error = FALSE => Cardinality(Errors(r)) = Cardinality(Errors(s))
      BY <2>1, <3>1, OneMoreEntry
    <3>7. QED
      BY <3>2, <3>3, <3>4, <3>5, <3>6 DEF r, s
  <2>3. QED
    BY <1>1, <1>4, <2>2
<1>6. ASSUME NEW j \in 1 .. i + 1
      PROVE  /\ next.results[j].item = items[j] /\ next.results[j].error = alone(j).err
             /\ ~alone(j).foreign /\ ~alone(j).err => next.results[j].out = alone(j).out
  <2>1. CASE j = i + 1
    BY <1>3, <1>4, <1>5, <2>1
  <2>2. CASE j # i + 1
    <3>1. j \in 1 .. i
      BY <2>2
    <3>2. QED
      BY <1>1, <1>5, <3>1 DEF Kept, alone
  <2>3. QED
    BY <2>1, <2>2
<1>7. next.errored = Cardinality(Errors(next.results)) /\ next.errored \in Nat /\ (cfg.continueOnError \/ next.errored = 0)
  BY <1>1, <1>3, <1>5
<1>8. QED
  BY <1>1, <1>3, <1>5, <1>6, <1>7 DEF Kept, alone

LEMMA LapKept ==
  ASSUME NEW cfg, NEW items, NEW ctx, Nowhere \notin DOMAIN ctx, cfg.continueOnError \in BOOLEAN,
         NEW i \in Nat, NEW acc, Kept(cfg, items, ctx, i, acc), NEW next, next = LoopBody(cfg, acc, items[i + 1])
  PROVE  Kept(cfg, items, ctx, i + 1, next)
<1>. DEFINE item == items[i + 1]
            body == WalkThrough(cfg.def, Walk(cfg.body, acc.ctx, item), {"end", "loop"}, cfg.loop, BodyGuard)
            after == [acc EXCEPT !.ctx = body.ctx, !.item = item]
            entry(err) == [item |-> item, error |-> err, out |-> IF err THEN <<>> ELSE body.out]
            stops == StopsAtError(cfg)
<1>1. DOMAIN acc = {"ctx", "results", "errored", "item", "end"} /\ Nowhere \notin DOMAIN acc.ctx /\ acc.errored \in Nat
      /\ Listed(acc.results)
  BY DEF Kept
<1>2. Alike(body, AloneOf(cfg, items, ctx, i + 1))
  BY <1>1, BodyAlike DEF AloneOf
<1>3. next = CASE acc.end # "next" -> acc
             [] acc.end = "next" /\ ~body.err -> [after EXCEPT !.results = Append(@, entry(FALSE))]
             [] acc.end = "next" /\ body.err /\ stops ->
                  [after EXCEPT !.end = IF cfg.onError THEN "routed" ELSE "failed"]
             [] OTHER -> [after EXCEPT !.results = Append(@, entry(TRUE)), !.errored = @ + 1]
  BY DEF LoopBody
<1>4. body.err \in BOOLEAN /\ body.err = AloneOf(cfg, items, ctx, i + 1).err /\ Nowhere \notin DOMAIN body.ctx
  BY <1>2 DEF Alike, IsWalk
<1>5. stops <=> ~cfg.continueOnError
  BY DEF StopsAtError
<1>. HIDE DEF stops, body
<1>6. DOMAIN after = DOMAIN acc /\ after.ctx = body.ctx /\ after.item = item /\ after.results = acc.results
      /\ after.errored = acc.errored /\ after.end = acc.end
  BY <1>1
<1>. HIDE DEF after
<1>7. CASE acc.end # "next"
  <2>1. next = acc
    BY <1>3, <1>7
  <2>2. Len(acc.results) < i + 1
    BY <1>1, <1>7 DEF Kept
  <2>3. QED
    BY <1>7, <2>1, <2>2 DEF Kept
<1>8. CASE acc.end = "next" /\ ~body.err
  <2>1. next = [after EXCEPT !.results = Append(@, entry(FALSE))]
    BY <1>3, <1>8
  <2>2. entry(FALSE) = entry(body.err)
    BY <1>4, <1>8
  <2>3. DOMAIN next = DOMAIN acc /\ next.ctx = body.ctx /\ next.end = acc.end /\ next.errored = acc.errored
        /\ next.results = Append(acc.results, entry(body.err))
    <3>. HIDE DEF entry
    <3>1. QED
      BY <1>1, <1>6, <2>1, <2>2
  <2>4. QED
    BY <1>2, <1>8, <2>3, ResultKept
<1>9. CASE acc.end = "next" /\ body.err /\ stops
  <2>1. next = [after EXCEPT !.end = IF cfg.onError THEN "routed" ELSE "failed"]
    BY <1>3, <1>9
  <2>2. DOMAIN next = DOMAIN acc /\ next.ctx = body.ctx /\ next.results = acc.results /\ next.errored = acc.errored
        /\ next.end # "next"
    BY <1>1, <1>6, <2>1
  <2>3. Len(acc.results) = i
    BY <1>9 DEF Kept
  <2>4. QED
    BY <1>1, <1>4, <1>5, <1>9, <2>2, <2>3 DEF Kept
<1>10. CASE acc.end = "next" /\ body.err /\ ~stops
  <2>1. next = [after EXCEPT !.results = Append(@, entry(TRUE)), !.errored = @ + 1]
    BY <1>3, <1>10
  <2>2. entry(TRUE) = entry(body.err)
    BY <1>4, <1>10
  <2>3. DOMAIN next = DOMAIN acc /\ next.ctx = body.ctx /\ next.end = acc.end /\ next.errored = acc.errored + 1
        /\ next.results = Append(acc.results, entry(body.err))
    <3>. HIDE DEF entry
    <3>1. QED
      BY <1>1, <1>6, <2>1, <2>2
  <2>4. QED
    BY <1>2, <1>5, <1>10, <2>3, ResultKept
<1>11. QED
  BY <1>4, <1>7, <1>8, <1>9, <1>10

\* The whole loop.
LEMMA LoopAnswersForItems ==
  ASSUME NEW cfg, NEW T, NEW items \in Seq(T), NEW ctx, Nowhere \notin DOMAIN ctx, cfg.continueOnError \in BOOLEAN
  PROVE  ItemByItem(cfg, items, ctx, LoopNode(cfg, items, ctx))
<1>. DEFINE n == Taken(items)
            laps == Laps(cfg, items, ctx)
            acc == laps[n]
            answer == LoopNode(cfg, items, ctx)
            results == answer.results
            alone(j) == AloneOf(cfg, items, ctx, j)
<1>1. n \in Nat /\ n <= Len(items) /\ Len(items) \in Nat
  BY LimitsAssumption DEF Taken
<1>2. laps[0] = LoopStart(ctx) /\ \A i \in 1 .. n : laps[i] = LoopBody(cfg, laps[i - 1], items[i])
  BY <1>1, LapsUnfold
<1>. HIDE DEF n, laps
<1>3. \A i \in 0 .. n : Kept(cfg, items, ctx, i, laps[i])
  <2>. DEFINE Bad == {i \in 0 .. n : ~Kept(cfg, items, ctx, i, laps[i])}
  <2>1. SUFFICES ASSUME Bad # {} PROVE FALSE
    OBVIOUS
  <2>2. PICK m \in Bad : \A k \in Bad : m <= k
    <3>1. Bad \subseteq Nat
      OBVIOUS
    <3>. HIDE DEF Bad
    <3>2. QED
      BY <2>1, <3>1, LeastNumber
  <2>3. m # 0
    BY <1>2, <2>2, LoopStarts
  <2>4. m \in 1 .. n /\ m - 1 \in 0 .. n /\ m - 1 \in Nat /\ (m - 1) + 1 = m
    BY <1>1, <2>2, <2>3
  <2>5. m - 1 \notin Bad
    BY <2>2, <2>4
  <2>6. Kept(cfg, items, ctx, m - 1, laps[m - 1])
    BY <2>4, <2>5
  <2>7. laps[m] = LoopBody(cfg, laps[m - 1], items[(m - 1) + 1])
    BY <1>2, <2>4
  <2>8. Kept(cfg, items, ctx, (m - 1) + 1, laps[m])
    BY <2>4, <2>6, <2>7, LapKept
  <2>9. QED
    BY <2>2, <2>4, <2>8
<1>4. Kept(cfg, items, ctx, n, acc)
  BY <1>1, <1>3
<1>5. answer = IF acc.end = "next" THEN [acc EXCEPT !.item = NoItem] ELSE acc
  BY DEF LoopNode, n, laps
<1>. HIDE DEF acc, answer
<1>6. results = acc.results /\ answer.errored = acc.errored /\ answer.end = acc.end
  BY <1>4, <1>5 DEF Kept
<1>7. Len(results) \in Nat
  BY <1>4, <1>6 DEF Kept, Listed
<1>8. \A j \in 1 .. Len(results) : /\ results[j].item = items[j] /\ results[j].error = alone(j).err
                                   /\ (~alone(j).foreign /\ ~alone(j).err => results[j].out = alone(j).out)
  BY <1>4, <1>6 DEF Kept
<1>9. answer.errored = Quantify(1 .. Len(results), LAMBDA j : results[j].error)
  BY <1>4, <1>6 DEF Kept, Errors, Quantify
<1>10. IF answer.end = "next" THEN Len(results) = n /\ (cfg.continueOnError \/ answer.errored = 0)
       ELSE Len(results) < Len(items) /\ alone(Len(results) + 1).err /\ answer.errored = 0 /\ ~cfg.continueOnError
  <2>1. IF acc.end = "next" THEN Len(acc.results) = n
        ELSE Len(acc.results) < n /\ alone(Len(acc.results) + 1).err /\ ~cfg.continueOnError
    BY <1>4 DEF Kept
  <2>2. cfg.continueOnError \/ acc.errored = 0
    BY <1>4 DEF Kept
  <2>. HIDE DEF alone
  <2>3. QED
    BY <1>1, <1>6, <1>7, <2>1, <2>2
<1>11. Len(results) <= n
  BY <1>4, <1>6, <1>7, <1>1 DEF Kept
<1>12. ASSUME \A j \in 1 .. n : ~alone(j).foreign
       PROVE  \A j \in 1 .. Len(results) : /\ results[j].error = alone(j).err
                                           /\ ~alone(j).err => results[j].out = alone(j).out
  <2>1. \A j \in 1 .. Len(results) : j \in 1 .. n
    BY <1>1, <1>7, <1>11
  <2>. HIDE DEF alone, results
  <2>2. ASSUME NEW j \in 1 .. Len(results)
        PROVE  results[j].error = alone(j).err /\ (~alone(j).err => results[j].out = alone(j).out)
    <3>1. ~alone(j).foreign
      BY <1>12, <2>1
    <3>2. QED
      BY <1>8, <3>1 DEF alone, results
  <2>3. QED
    BY <2>2
<1>. HIDE DEF results, alone
<1>13. ItemByItem(cfg, items, ctx, answer) <=>
         /\ \A i \in 1 .. Len(results) : results[i].item = items[i]
         /\ answer.errored = Quantify(1 .. Len(results), LAMBDA i : results[i].error)
         /\ IF answer.end = "next" THEN Len(results) = n /\ (cfg.continueOnError \/ answer.errored = 0)
            ELSE Len(results) < Len(items) /\ alone(Len(results) + 1).err /\ answer.errored = 0 /\ ~cfg.continueOnError
         /\ (\A i \in 1 .. n : ~alone(i).foreign) =>
              \A i \in 1 .. Len(results) : /\ results[i].error = alone(i).err
                                           /\ ~alone(i).err => results[i].out = alone(i).out
  BY Zenon DEF ItemByItem, AloneOf, n, results, alone
<1>14. ItemByItem(cfg, items, ctx, answer)
  <2>1. \A j \in 1 .. Len(results) : results[j].item = items[j]
    BY <1>8, Zenon
  <2>2. QED
    BY <2>1, <1>9, <1>10, <1>12, <1>13, Zenon
<1>15. QED
  BY <1>14 DEF answer
-----------------------------------------------------------------------------
(* The calls. *)

\* A call has no answer yet, or its function's.
AnswerIs(v) == result \in {<<>>, <<v>>}
PureInv ==
  \/ \E e \in CronExpressions, from \in Froms : call = <<"cron", e, from>> /\ AnswerIs(NextCron(e, from))
  \/ \E clock \in Clocks, from \in Froms : call = <<"daily", clock, from>> /\ AnswerIs(NextDaily(UTC, clock[1], clock[2], from))
  \/ \E l \in LoopSteps : call = <<"loop", l>> /\ AnswerIs(LoopNode(l.cfg, l.items, l.ctx))
  \/ \E def \in Definitions : call = <<"validate", def>> /\ AnswerIs(Validate(def))
  \/ \E p \in ParallelSteps :
       /\ call = <<"parallel", p>> /\ BranchesOnPath(p, par)
       /\ result = <<>> \/ \E v : result = <<v>> /\ AsIfInOrder(p.def, p.starts, p.ctx, p.tolerant, v)

LEMMA PureInit == PureCallsInit => PureInv
<1>1. ASSUME NEW p \in ParallelSteps, par = Fork(p.starts, p.ctx) PROVE BranchesOnPath(p, par)
  <2>1. PICK forked : forked = par
    OBVIOUS
  <2>2. BranchesOnPath(p, forked)
    BY <1>1, <2>1, BranchesStart
  <2>3. QED
    BY <2>1, <2>2
<1>2. QED
  BY <1>1 DEF PureCallsInit, PureInv, AnswerIs

LEMMA PureNext == PureInv /\ [PureCallsNext]_pureVars => PureInv'
<1>. SUFFICES ASSUME PureInv, [PureCallsNext]_pureVars PROVE PureInv'
  OBVIOUS
<1>1. CASE UNCHANGED pureVars
  BY <1>1 DEF PureInv, AnswerIs, pureVars
<1>2. CASE NextCronAnswers
  <2>1. PICK e \in CronExpressions, from \in Froms : call = <<"cron", e, from>>
    BY <1>2 DEF NextCronAnswers, Asked, PureInv
  <2>2. call' = call /\ result' = <<NextCron(e, from)>>
    BY <1>2, <2>1 DEF NextCronAnswers, Answer
  <2>3. QED
    BY <2>1, <2>2 DEF PureInv, AnswerIs
<1>3. CASE NextDailyAnswers
  <2>1. PICK clock \in Clocks, from \in Froms : call = <<"daily", clock, from>>
    BY <1>3 DEF NextDailyAnswers, Asked, PureInv
  <2>2. call' = call /\ result' = <<NextDaily(UTC, clock[1], clock[2], from)>>
    BY <1>3, <2>1 DEF NextDailyAnswers, Answer
  <2>3. QED
    BY <2>1, <2>2 DEF PureInv, AnswerIs
<1>4. CASE BranchGoesOn
  <2>1. PICK p \in ParallelSteps : call = <<"parallel", p>> /\ BranchesOnPath(p, par)
    BY <1>4 DEF BranchGoesOn, Asked, PureInv
  <2>2. PICK b \in DOMAIN par.branches : ~par.branches[b].done /\ par' = BranchStep(p.def, par, b)
    BY <1>4, <2>1 DEF BranchGoesOn
  <2>3. call' = call /\ result' = <<>>
    BY <1>4 DEF BranchGoesOn, Asked
  <2>4. PICK next : next = BranchStep(p.def, par, b)
    OBVIOUS
  <2>5. BranchesOnPath(p, next)
    BY <2>1, <2>2, <2>4, BranchesGoOn
  <2>6. BranchesOnPath(p, par)'
    BY <2>2, <2>4, <2>5 DEF BranchesOnPath
  <2>7. QED
    BY <2>1, <2>3, <2>6 DEF PureInv
<1>5. CASE FanInAnswers
  <2>1. PICK p \in ParallelSteps : call = <<"parallel", p>> /\ BranchesOnPath(p, par)
    BY <1>5 DEF FanInAnswers, Asked, PureInv
  <2>2. \A b \in DOMAIN par.branches : par.branches[b].done
    BY <1>5 DEF FanInAnswers
  <2>3. call' = call /\ par' = par /\ result' = <<FanIn(par, p.ctx, p.tolerant)>>
    BY <1>5, <2>1 DEF FanInAnswers, Answer
  <2>4. AsIfInOrder(p.def, p.starts, p.ctx, p.tolerant, FanIn(par, p.ctx, p.tolerant))
    BY <2>1, <2>2, BranchesEnd
  <2>5. PICK v : v = FanIn(par, p.ctx, p.tolerant)
    OBVIOUS
  <2>6. BranchesOnPath(p, par)'
    BY <2>1, <2>3 DEF BranchesOnPath
  <2>7. QED
    BY <2>1, <2>3, <2>4, <2>5, <2>6 DEF PureInv
<1>6. CASE LoopAnswers
  <2>1. PICK l \in LoopSteps : call = <<"loop", l>>
    BY <1>6 DEF LoopAnswers, Asked, PureInv
  <2>2. call' = call /\ result' = <<LoopNode(l.cfg, l.items, l.ctx)>>
    BY <1>6, <2>1 DEF LoopAnswers, Answer
  <2>3. QED
    BY <2>1, <2>2 DEF PureInv, AnswerIs
<1>7. CASE ValidateAnswers
  <2>1. PICK def \in Definitions : call = <<"validate", def>>
    BY <1>7 DEF ValidateAnswers, Asked, PureInv
  <2>2. call' = call /\ result' = <<Validate(def)>>
    BY <1>7, <2>1 DEF ValidateAnswers, Answer
  <2>3. QED
    BY <2>1, <2>2 DEF PureInv, AnswerIs
<1>8. QED
  BY <1>1, <1>2, <1>3, <1>4, <1>5, <1>6, <1>7 DEF PureCallsNext

\* A call is answered by its function, and only once; the branches of a parallel step
\* are each somewhere on the walk that it would have taken alone.
THEOREM CallsAreAnswered == PureCallsSpec => []PureInv
<1>. QED
  BY PureInit, PureNext, PTL DEF PureCallsSpec

\* Whatever the expression, the time and the length of an hour or a minute: NextRun
\* answers with the first minute after now that standard cron names, or the next time of
\* the day, on the clock of UTC, and with an error exactly when there is none in a year or a field says nothing
\* sensible (schedule.go:21 NextRun, :64 nextCron, :120 cronField).
THEOREM SchedulesFireFirst == PureCallsSpec => []NextRunIsTheFirst
<1>1. PureInv => NextRunIsTheFirst
  <2>. SUFFICES ASSUME PureInv PROVE NextRunIsTheFirst
    OBVIOUS
  <2>1. ASSUME Answered("cron") PROVE IsNextCron(call[2], call[3], result[1])
    <3>1. PICK e \in CronExpressions, from \in Froms : call = <<"cron", e, from>> /\ result = <<NextCron(e, from)>>
      BY <2>1 DEF Answered, PureInv, AnswerIs
    <3>2. e \in CronExpression /\ from \in Nat
      BY TimesAssumption
    <3>3. IsNextCron(e, from, NextCron(e, from))
      BY <3>2, CronIsNext
    <3>4. call[2] = e /\ call[3] = from /\ result[1] = NextCron(e, from)
      BY <3>1
    <3>5. QED
      BY <3>3, <3>4
  <2>2. ASSUME Answered("daily") PROVE IsNextDaily(UTC, call[2][1], call[2][2], call[3], result[1])
    <3>1. PICK clock \in Clocks, from \in Froms :
            call = <<"daily", clock, from>> /\ result = <<NextDaily(UTC, clock[1], clock[2], from)>>
      BY <2>2 DEF Answered, PureInv, AnswerIs
    <3>2. clock[1] \in Int /\ clock[2] \in Int /\ from \in Nat
      BY TimesAssumption
    <3>3. IsNextDaily(UTC, clock[1], clock[2], from, NextDaily(UTC, clock[1], clock[2], from))
      BY <3>2, DailyIsNext DEF UTC
    <3>4. call[2] = clock /\ call[3] = from /\ result[1] = NextDaily(UTC, clock[1], clock[2], from)
      BY <3>1
    <3>5. QED
      BY <3>3, <3>4
  <2>3. QED
    BY <2>1, <2>2 DEF NextRunIsTheFirst
<1>2. QED
  BY <1>1, CallsAreAnswered, PTL

\* Whatever the branches of a parallel step, and however their goroutines interleave: the
\* step answers as if they had run one after the other (executor.go:2007 executeParallel).
THEOREM InterleavingsAgree == PureCallsSpec => []BranchesDoNotInterfere
<1>1. PureInv => BranchesDoNotInterfere
  <2>. SUFFICES ASSUME PureInv, Answered("parallel")
                PROVE  AsIfInOrder(call[2].def, call[2].starts, call[2].ctx, call[2].tolerant, result[1])
    BY DEF BranchesDoNotInterfere
  <2>1. PICK p \in ParallelSteps : /\ call = <<"parallel", p>>
                                   /\ \E v : result = <<v>> /\ AsIfInOrder(p.def, p.starts, p.ctx, p.tolerant, v)
    BY DEF Answered, PureInv
  <2>2. call[2] = p /\ AsIfInOrder(p.def, p.starts, p.ctx, p.tolerant, result[1])
    BY <2>1
  <2>3. QED
    BY <2>2
<1>2. QED
  BY <1>1, CallsAreAnswered, PTL

\* Whatever its body, its items and its limits: a loop answers for its items in their
\* order, ends at the first failure that is not tolerated, and gives each item what the
\* item alone would give unless the body reads another round (nodes_extra.go:142
\* executeLoop).
THEOREM LoopsAreWholeAndInOrder == PureCallsSpec => []LoopsGoItemByItem
<1>1. PureInv => LoopsGoItemByItem
  <2>. SUFFICES ASSUME PureInv, Answered("loop") PROVE ItemByItem(call[2].cfg, call[2].items, call[2].ctx, result[1])
    BY DEF LoopsGoItemByItem
  <2>1. PICK l \in LoopSteps : call = <<"loop", l>> /\ result = <<LoopNode(l.cfg, l.items, l.ctx)>>
    BY DEF Answered, PureInv, AnswerIs
  <2>2. Nowhere \notin DOMAIN l.ctx /\ l.items \in Seq(Range(l.items)) /\ l.cfg.continueOnError \in BOOLEAN
    BY LoopsAssumption
  <2>3. ItemByItem(l.cfg, l.items, l.ctx, LoopNode(l.cfg, l.items, l.ctx))
    BY <2>2, LoopAnswersForItems
  <2>4. call[2] = l /\ result[1] = LoopNode(l.cfg, l.items, l.ctx)
    BY <2>1
  <2>5. QED
    BY <2>3, <2>4
<1>2. QED
  BY <1>1, CallsAreAnswered, PTL

\* Whatever the definition: found valid, it starts in one place and its run never comes to
\* a step that is missing, nor to one that the engine refuses as drawn, but for what the
\* registry does not look at; and no warning is false
\* (registry/handlers/validate.go:57 Validate).
THEOREM ValidMeansRunnable == PureCallsSpec => []ValidationVouches
<1>1. PureInv => ValidationVouches
  <2>. SUFFICES ASSUME PureInv, Answered("validate") PROVE Vouches(call[2], result[1])
    BY DEF ValidationVouches
  <2>1. PICK def \in Definitions : call = <<"validate", def>> /\ result = <<Validate(def)>>
    BY DEF Answered, PureInv, AnswerIs
  <2>2. def \in Seq(Range(def))
    BY DefinitionsAssumption
  <2>3. Vouches(def, Validate(def))
    BY <2>2, ValidateVouches
  <2>4. call[2] = def /\ result[1] = Validate(def)
    BY <2>1
  <2>5. QED
    BY <2>3, <2>4
<1>2. QED
  BY <1>1, CallsAreAnswered, PTL
===============================================================================
