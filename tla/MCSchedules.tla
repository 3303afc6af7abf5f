------------------------------ MODULE MCSchedules ------------------------------
(* Instances of Schedules. *)
EXTENDS Schedules, TLC

Calendar2 == [kind |-> "calendar", n |-> 2]
Calendar3 == [kind |-> "calendar", n |-> 3]
Every2    == [kind |-> "interval", n |-> 2]

CalendarExprs == {Calendar2, Calendar3}
MixedExprs    == {Calendar3, Every2}
=============================================================================
