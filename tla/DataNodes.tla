------------------------------- MODULE DataNodes -------------------------------
(***************************************************************************)
(* The list and the date-and-time steps of a workflow:                     *)
(* engine/nodes_data.go.                                                   *)
(***************************************************************************)
EXTENDS CronTimes, Sequences, SequencesExt, Functions

(* An item is a record with one field. A value is how it prints, as a rank in byte      *)
(* order, and the number its text starts with: Sscanf reads 2024 in "2024-03-01".       *)

Missing == [type |-> "nil"]
NumberOf(text, n) == [type |-> "num", text |-> text, number |-> {n}]
TextOf(text, n) == [type |-> "str", text |-> text, number |-> {n}]
PlainText(text) == [type |-> "str", text |-> text, number |-> {}]
Numeric(v) == v # Missing /\ v.number # {}
Number(v) == CHOOSE n \in v.number : TRUE

\* Below, equal or above 0, as the code's comparison.
OrderValues(a, b) ==
  CASE a = Missing /\ b = Missing -> 0
    [] a = Missing /\ b # Missing -> 1
    [] a # Missing /\ b = Missing -> -1
    [] Numeric(a) /\ Numeric(b) -> Number(a) - Number(b)
    [] OTHER -> a.text - b.text

\* sort.SliceStable: an item goes behind those below it and the equal ones before it.
Less(a, b, desc) == IF desc THEN OrderValues(a.value, b.value) > 0 ELSE OrderValues(a.value, b.value) < 0
SortItems(items, desc) ==
  LET ahead(j, i) == Less(items[j], items[i], desc) \/ (~Less(items[i], items[j], desc) /\ j < i)
      place(i) == 1 + Quantify(DOMAIN items, LAMBDA j : ahead(j, i))
  IN [k \in DOMAIN items |-> items[CHOOSE i \in DOMAIN items : place(i) = k]]

\* A window of count items, at the start or at the end, after skipping offset of them.
\* A negative offset slices out of range: the process dies.
Dies == "panic"
EndWithoutSkip(items, count, offset) == SubSeq(items, Max({0, Len(items) - count}) + 1, Len(items))
EndWindow(items, count, offset) ==
  SubSeq(items, Max({0, Len(items) - count - offset}) + 1, Max({0, Len(items) - offset}))
StartWindow(items, count, offset) ==
  LET rest == SubSeq(items, Min({offset, Len(items)}) + 1, Len(items))
  IN IF count < Len(rest) THEN SubSeq(rest, 1, count) ELSE rest
LimitItems(items, count, offset, fromEnd) ==
  LET n == Max({0, count})
  IN IF offset < 0 THEN Dies
     ELSE IF fromEnd THEN EndWindow(items, n, offset) ELSE StartWindow(items, n, offset)

\* The first item of each printed form: 1 and "1" are one.
Printed(v) == IF v = Missing THEN 0 ELSE v.text
DedupeItems(items) ==
  LET first == {i \in DOMAIN items : \A j \in 1 .. i - 1 : Printed(items[j].value) # Printed(items[i].value)}
  IN [k \in 1 .. Cardinality(first) |->
        items[CHOOSE i \in first : Cardinality({j \in first : j <= i}) = k]]

\* Aggregates skip what is not a number; without one, min, max and avg are nil. An
\* average is the sum and what it is divided by.
NothingThere == <<>>
Numbers(items) == SelectSeq(items, LAMBDA it : Numeric(it.value))
SumOf(items) == FoldLeft(LAMBDA s, it : s + Number(it.value), 0, Numbers(items))
Aggregate(fn, items) ==
  LET numbers == {Number(it.value) : it \in Range(Numbers(items))}
  IN CASE fn = "count" -> Len(items)
       [] fn = "sum" -> SumOf(items)
       [] numbers = {} -> NothingThere
       [] fn = "min" -> Min(numbers)
       [] fn = "max" -> Max(numbers)
       [] fn = "avg" -> <<SumOf(items), Len(Numbers(items))>>

\* Groups by another field, in the order in which they first appear.
GroupRows(fn, items) ==
  LET keys == [k \in DOMAIN DedupeItems([i \in DOMAIN items |-> [value |-> items[i].group]])
                 |-> DedupeItems([i \in DOMAIN items |-> [value |-> items[i].group]])[k].value]
      members(key) == SelectSeq(items, LAMBDA it : Printed(it.group) = Printed(key))
  IN [k \in DOMAIN keys |-> [group |-> keys[k], value |-> Aggregate(fn, members(keys[k])),
                             count |-> Len(members(keys[k]))]]
-----------------------------------------------------------------------------
(* Dates, as days and seconds of CronTimes' calendar, read on a clock that is ahead of  *)
(* UTC by an offset.                                                                    *)

YearStart(y) == 365 * y + y \div 4
MonthStart(m) == YearStart(m \div 12) + MonthFirst((m \div 12) % 4 = 3)[(m % 12) + 1]
MonthOf(day) == Max({m \in 0 .. 71 : MonthStart(m) <= day})
\* AddDate normalises: 31 January and a month is 2 or 3 March.
ShiftTo(day, month) == MonthStart(month) + day - MonthStart(MonthOf(day))
ShiftTime(t, n, unit) ==
  LET day == DayOf(t) IN
  CASE unit = "second" -> t + n
    [] unit = "minute" -> t + n * Seconds
    [] unit = "hour" -> t + n * Seconds * Minutes
    [] unit = "week" -> t + 7 * n * Day
    [] unit = "month" -> t + (ShiftTo(day, MonthOf(day) + n) - day) * Day
    [] unit = "year" -> t + (ShiftTo(day, MonthOf(day) + 12 * n) - day) * Day
    [] OTHER -> t + n * Day

\* An hour starts with the hour of UTC, everything else on the local clock; a week on
\* Monday. t is local time.
WeekStart(day) == day - ((DateOf(day).dow + 6) % 7)
StartOf(t, unit, offset) ==
  LET day == DayOf(t) IN
  CASE unit = "hour" -> t - ((t - offset) % (Seconds * Minutes))
    [] unit = "week" -> WeekStart(day) * Day
    [] unit = "month" -> MonthStart(MonthOf(day)) * Day
    [] unit = "year" -> YearStart(MonthOf(day) \div 12) * Day
    [] OTHER -> day * Day
-----------------------------------------------------------------------------
(* Properties. *)

\* A sorted list holds the same items, numbers by size, other texts as text, and, going
\* up, what is missing last; equal ones stay as they were. Dates are not asked for here.
InOrder(a, b) ==
  CASE Numeric(a) /\ Numeric(b) -> Number(a) <= Number(b)
    [] a # Missing /\ b # Missing /\ ~Numeric(a) /\ ~Numeric(b) -> a.text <= b.text
    [] OTHER -> a # Missing \/ b = Missing
IsSortOf(items, desc, sorted) ==
  /\ Len(sorted) = Len(items) /\ Range(sorted) = Range(items)
  /\ \A i, j \in DOMAIN sorted : i < j =>
       LET a == sorted[i].value  b == sorted[j].value
       IN /\ IF desc THEN InOrder(b, a) ELSE InOrder(a, b)
          /\ a = b => sorted[i].id < sorted[j].id


\* Pages at the start, read one after the other, give the list back, as do pages at the
\* end, read backwards; a dropped duplicate prints like an item that was kept before it.
PagesCover(items, count, fromEnd) ==
  LET page(k) == LimitItems(items, count, Max({0, count}) * k, fromEnd)
      before == FoldLeft(LAMBDA acc, i : acc \o page(i - 1), <<>>, [i \in 1 .. Len(items) |-> i])
      behind == FoldLeft(LAMBDA acc, i : page(i - 1) \o acc, <<>>, [i \in 1 .. Len(items) |-> i])
  IN IF count <= 0 THEN before = <<>> ELSE items = IF fromEnd THEN behind ELSE before
DuplicatesOnly(items, kept) ==
  /\ \A i, j \in DOMAIN kept : i # j => Printed(kept[i].value) # Printed(kept[j].value)
  /\ \A it \in Range(items) \ Range(kept) :
       \E other \in Range(kept) : other.id < it.id /\ Printed(other.value) = Printed(it.value)

\* The groups add up to the whole list, for counts and for sums.
GroupsAddUp(items, rows) ==
  /\ FoldLeft(LAMBDA s, r : s + r.count, 0, rows) = Len(items)
  /\ FoldLeft(LAMBDA s, r : s + r.value, 0, rows) = Aggregate("sum", items)

\* The start of a unit is not after the time, belongs to the same unit, and is its own
\* start, in time zones whole hours from UTC; a shift by months keeps the day of the
\* month when the month has it, and is undone by the shift back.
IsStartOf(t, unit, offset, s) ==
  /\ s <= t /\ StartOf(s, unit, offset) = s
  /\ CASE unit = "hour" -> t - s < Seconds * Minutes /\ s % (Seconds * Minutes) = 0
       [] unit = "day" -> DayOf(s) = DayOf(t) /\ s % Day = 0
       [] unit = "week" -> t - s < 7 * Day /\ DateOf(DayOf(s)).dow = 1
       [] unit = "month" -> DateOf(DayOf(s)).dom = 1 /\ DateOf(DayOf(s)).month = DateOf(DayOf(t)).month
       [] OTHER -> DateOf(DayOf(s)).dom = 1 /\ DateOf(DayOf(s)).month = 1 /\ t - s < YearDays * Day
KeepsItsDay(t, n, s) ==
  DateOf(DayOf(t)).dom <= 28 => /\ DateOf(DayOf(s)).dom = DateOf(DayOf(t)).dom
                               /\ (DateOf(DayOf(s)).month - DateOf(DayOf(t)).month - n) % 12 = 0
                               /\ s % Day = t % Day /\ ShiftTime(s, -n, "month") = t
=============================================================================
