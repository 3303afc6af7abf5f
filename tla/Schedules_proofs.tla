---------------------------- MODULE Schedules_proofs ----------------------------
(***************************************************************************)
(* Theorems about schedules, for every set of expressions and replicas and *)
(* every bound: the types and that next_run_at belongs to the expression,  *)
(* always; and that a due time starts one run and stays due until it has,  *)
(* as long as a live holder of the coordinator lease renews it.            *)
(***************************************************************************)
EXTENDS Schedules, Integers, TLAPS

Busy(r) == w[r].pc \in {"fire", "mark"}
Marking(r) == w[r].pc = "mark"

\* The rows the scheduler works on were due when it listed them.
ListedWhenDue ==
  \A r \in Replica : Busy(r) =>
    w[r].row.exists /\ w[r].row.next <= w[r].now /\ w[r].now <= clock
TypeInv == TypeOK /\ ListedWhenDue
-----------------------------------------------------------------------------
(* next_run_at and the expression. *)

\* Where no edit came between two steps, what was listed has the row's expression, and
\* next_run_at is one of its times.
SameExpr == ~raced => \A r \in Replica : Busy(r) => row.exists /\ w[r].row.expr = row.expr
RowMatchesExpr ==
  /\ row.exists /\ ~raced /\ row.expr.kind = "calendar" => row.next % row.expr.n = 0
MatchInv == TypeInv /\ SameExpr /\ RowMatchesExpr
-----------------------------------------------------------------------------
(* One run for a due time. *)

\* One replica at a time works on the schedules.
OneAtATime == \A r \in Replica : w[r].pc # "idle" => r \in alive /\ owner = r /\ live

\* What was fired was due, also for whoever works on the schedules now.
FiredWhenDue ==
  \A t \in Time : fired[t] > 0 => t <= clock /\ \A r \in Replica : Busy(r) => t <= w[r].now

\* The row under work is the listed one or has been moved past the time of the listing.
SameRowOrLater ==
  \A r \in Replica : Busy(r) /\ row.exists => row.id = w[r].row.id \/ row.next > w[r].now

\* A time that has used its runs up is behind: the row is past it, or about to be moved.
UsedUpIsBehind ==
  \A t \in Time :
    /\ fired[t] <= 1 + cuts
    /\ row.exists /\ row.next = t /\ fired[t] > cuts =>
         \E r \in Replica : Marking(r) /\ row.id = w[r].row.id
    /\ \A r \in Replica : w[r].pc = "fire" /\ w[r].row.next = t => fired[t] <= cuts

\* Times that passed while a user's row was off: not fired, and neither the row nor who
\* works on it will come back to them.
OffStaysOff ==
  /\ managed => offAt = {}
  /\ \A t \in offAt : t <= clock
  /\ ~raced =>
       /\ \A t \in offAt : fired[t] = 0 /\ (row.exists /\ row.next = t => ~row.active)
       /\ \A r \in Replica : Busy(r) => w[r].row = row /\ row.active /\ \A t \in offAt : t <= w[r].now
       /\ \A r \in Replica : w[r].pc = "fire" => row.next \notin offAt

OnceInv == TypeInv /\ OneAtATime /\ FiredWhenDue /\ SameRowOrLater /\ UsedUpIsBehind /\ OffStaysOff
-----------------------------------------------------------------------------
(* Lemmas about NextRun. *)

\* Division with a remainder, for the provers.
LEMMA Divided ==
  ASSUME NEW n \in Nat \ {0}, NEW x \in Nat
  PROVE  \E q \in Nat, m \in 0 .. n - 1 : q = x \div n /\ m = x % n /\ x = n * q + m
<1>1. PICK q \in Nat : q = x \div n
  OBVIOUS
<1>2. PICK m \in 0 .. n - 1 : m = x % n
  OBVIOUS
<1>3. x = n * q + m
  BY <1>1, <1>2
<1>. QED
  BY <1>1, <1>2, <1>3

LEMMA MultiplesLeaveNothing ==
  ASSUME NEW n \in Nat \ {0}, NEW k \in Nat
  PROVE  (k * n) % n = 0
<1>1. PICK x \in Nat : x = k * n
  OBVIOUS
<1>2. PICK q \in Nat, m \in 0 .. n - 1 : m = x % n /\ x = n * q + m
  BY Divided
<1>3. n * (k - q) = m
  BY <1>1, <1>2
<1>4. PICK d \in Int : d = k - q
  OBVIOUS
<1>5. (d >= 1 => n * d >= n) /\ (d <= -1 => n * d < 0)
  OBVIOUS
<1>6. d = 0
  BY <1>2, <1>3, <1>4, <1>5
<1>. QED
  BY <1>1, <1>2, <1>3, <1>4, <1>6

\* The next run lies after the given time, and at a multiple for a calendar.
LEMMA NextRunIsLater ==
  ASSUME NEW e \in Expr, NEW x \in Nat
  PROVE  /\ NextRun(e, x) \in Nat /\ NextRun(e, x) > x
         /\ e.kind = "calendar" => NextRun(e, x) % e.n = 0
<1>1. e.kind \in {"interval", "calendar"} /\ e.n \in Nat \ {0}
  BY ScheduleAssumption
<1>2. CASE e.kind = "interval"
  BY <1>1, <1>2 DEF NextRun
<1>3. CASE e.kind = "calendar"
  <2>1. PICK n \in Nat \ {0} : n = e.n
    BY <1>1
  <2>2. PICK q \in Nat, m \in 0 .. n - 1 : q = x \div n /\ x = n * q + m
    BY Divided
  <2>3. NextRun(e, x) = (q + 1) * n
    BY <1>3, <2>1, <2>2 DEF NextRun
  <2>4. (q + 1) * n = n * q + n /\ (q + 1) * n \in Nat
    OBVIOUS
  <2>5. ((q + 1) * n) % n = 0
    BY MultiplesLeaveNothing
  <2>. QED
    BY <2>1, <2>2, <2>3, <2>4, <2>5
<1>. QED
  BY <1>1, <1>2, <1>3
-----------------------------------------------------------------------------
(* Types. *)

Position == [pc : {"idle", "list", "fire", "mark"}, row : Row, now : Time]

LEMMA NoRowTypes == NoRow \in Row /\ Idle \in Position /\ Idle.pc = "idle" /\ ~NoRow.exists
<1>1. SomeExpr \in Expr
  BY ScheduleAssumption DEF SomeExpr
<1>2. NoRow \in Row
  BY <1>1 DEF NoRow, Row
<1>3. 0 \in Time
  BY ScheduleAssumption DEF Time
<1>4. Idle \in Position /\ Idle.pc = "idle"
  BY <1>2, <1>3 DEF Idle, Position
<1>5. ~NoRow.exists
  BY DEF NoRow
<1>. QED
  BY <1>2, <1>4, <1>5

LEMMA NewRowTypes ==
  ASSUME NEW e \in Expr, NEW on \in BOOLEAN, clock \in Time, edits \in Nat
  PROVE  /\ NewRow(e, on) \in Row /\ NewRow(e, on).exists /\ NewRow(e, on).expr = e
         /\ NewRow(e, on).next = NextRun(e, clock)
<1>1. NextRun(e, clock) \in Nat
  BY NextRunIsLater DEF Time
<1>. QED
  BY <1>1 DEF NewRow, Row

\* What may be done to the row: it is made, deleted, switched, or given a later time that
\* fits the expression it has then.
LEMMA Edited ==
  ASSUME TypeOK, ReconcileSchedule \/ CreateSchedule \/ UpdateSchedule \/ DeleteSchedule
  PROVE  /\ row' \in Row
         /\ \/ ~row'.exists
            \/ row.exists /\ row' = [row EXCEPT !.active = row'.active]
            \/ row'.exists /\ row'.next = NextRun(row'.expr, clock)
         /\ ~managed /\ row.exists /\ row'.exists /\ ~row.active /\ row'.active =>
              row'.next = NextRun(row'.expr, clock)
<1>1. row \in Row /\ clock \in Time /\ edits \in Nat /\ wf \in Workflow /\ clock \in Nat
  BY DEF TypeOK, Time
<1>2. row.expr \in Expr /\ row.exists \in BOOLEAN /\ row.active \in BOOLEAN
  BY <1>1 DEF Row
<1>3. ASSUME NEW e \in Expr, NEW on \in BOOLEAN, row' = NewRow(e, on)
      PROVE  row' \in Row /\ row'.exists /\ row'.next = NextRun(row'.expr, clock)
  BY <1>1, <1>3, NewRowTypes
<1>4. ASSUME NEW e \in Expr, NEW on \in BOOLEAN, row' = Changed(e, on), row.exists
      PROVE  /\ row' \in Row /\ row'.exists
             /\ \/ row' = [row EXCEPT !.active = row'.active]
                \/ row'.next = NextRun(row'.expr, clock)
  <2>1. CASE row.expr # e
    <3>1. row' = [row EXCEPT !.expr = e, !.active = on, !.next = NextRun(e, clock)]
      BY <1>4, <2>1 DEF Changed
    <3>. QED
      BY <1>1, <1>4, <3>1, NextRunIsLater DEF Row
  <2>2. CASE row.expr = e
    <3>1. row' = [row EXCEPT !.expr = e, !.active = on, !.next = row.next]
      BY <1>4, <2>2 DEF Changed
    <3>2. row' = [row EXCEPT !.active = on] /\ row'.active = on
      BY <1>1, <2>2, <3>1 DEF Row
    <3>. QED
      BY <1>1, <1>4, <3>2 DEF Row
  <2>. QED
    BY <2>1, <2>2
<1>5. CASE ReconcileSchedule
  <2>1. wf.trigger \in Expr /\ (wf.status = "active") \in BOOLEAN
    BY <1>1, <1>5 DEF ReconcileSchedule, Workflow
  <2>2. managed
    BY <1>5 DEF ReconcileSchedule
  <2>. QED
    BY <1>3, <1>4, <1>5, <2>1, <2>2 DEF ReconcileSchedule
<1>6. CASE CreateSchedule
  BY <1>3, <1>6 DEF CreateSchedule
<1>7. CASE UpdateSchedule
  <2>1. row.exists
    BY <1>7 DEF UpdateSchedule
  <2>2. ASSUME NEW e \in Expr, row' = [row EXCEPT !.expr = e, !.next = NextRun(e, clock)]
        PROVE  row' \in Row /\ row'.exists /\ row'.next = NextRun(row'.expr, clock)
    BY <1>1, <2>1, <2>2, NextRunIsLater DEF Row
  <2>3. ASSUME row' = [row EXCEPT !.active = TRUE, !.next = NextRun(row.expr, clock)]
        PROVE  row' \in Row /\ row'.exists /\ row'.next = NextRun(row'.expr, clock)
    BY <1>1, <1>2, <2>1, <2>3, NextRunIsLater DEF Row
  <2>4. ASSUME row' = [row EXCEPT !.active = FALSE]
        PROVE  row' \in Row /\ row'.exists /\ ~row'.active /\ row' = [row EXCEPT !.active = row'.active]
    BY <1>1, <2>1, <2>4 DEF Row
  <2>. QED
    BY <1>7, <2>1, <2>2, <2>3, <2>4 DEF UpdateSchedule
<1>8. CASE DeleteSchedule
  BY <1>8, NoRowTypes DEF DeleteSchedule
<1>. QED
  BY <1>5, <1>6, <1>7, <1>8

\* What the scheduler's steps do to its positions.
LEMMA Moves ==
  ASSUME TypeInv, NEW r \in Replica, Tick(r) \/ List(r) \/ Fire(r) \/ Mark(r)
  PROVE  /\ w' \in [Replica -> Position] /\ \A p \in Replica \ {r} : w'[p] = w[p]
         /\ Tick(r) => w[r].pc = "idle" /\ w'[r].pc = "list"
         /\ List(r) => w[r].pc = "list" /\ \/ w'[r].pc = "idle"
                                           \/ /\ w'[r].pc = "fire" /\ w'[r].row = row /\ w'[r].now = clock
                                              /\ row.exists /\ row.active /\ row.next <= clock
         /\ Fire(r) => /\ w[r].pc = "fire" /\ w'[r].pc = "mark"
                       /\ w'[r].row = w[r].row /\ w'[r].now = w[r].now
         /\ Mark(r) => w[r].pc = "mark" /\ w'[r].pc = "idle"
<1>1. w \in [Replica -> Position] /\ row \in Row /\ clock \in Time
  BY DEF TypeInv, TypeOK, Position
<1>2. w[r] \in Position
  BY <1>1
<1>3. CASE Tick(r)
  <2>1. PICK p : p = [w[r] EXCEPT !.pc = "list"]
    OBVIOUS
  <2>2. p \in Position /\ p.pc = "list"
    BY <1>2, <2>1 DEF Position
  <2>3. w' = [w EXCEPT ![r] = p] /\ w[r].pc = "idle"
    BY <1>1, <1>3, <2>1 DEF Tick, At
  <2>. QED
    BY <1>1, <2>2, <2>3 DEF List, Fire, Mark, At
<1>4. CASE List(r)
  <2>1. PICK p : p = [pc |-> "fire", row |-> row, now |-> clock]
    OBVIOUS
  <2>2. p \in Position /\ p.pc = "fire" /\ p.row = row /\ p.now = clock
    BY <1>1, <2>1 DEF Position
  <2>3. w' = [w EXCEPT ![r] = IF Due(row, clock) THEN p ELSE Idle] /\ w[r].pc = "list"
    BY <1>4, <2>1 DEF List, At
  <2>4. w' \in [Replica -> Position] /\ (\A q \in Replica \ {r} : w'[q] = w[q])
        /\ w'[r] = IF Due(row, clock) THEN p ELSE Idle
    BY <1>1, <2>2, <2>3, NoRowTypes
  <2>. QED
    BY <2>2, <2>3, <2>4, NoRowTypes DEF Tick, Fire, Mark, At, Due
<1>5. CASE Fire(r)
  <2>1. PICK p : p = [w[r] EXCEPT !.pc = "mark"]
    OBVIOUS
  <2>2. p \in Position /\ p.pc = "mark" /\ p.row = w[r].row /\ p.now = w[r].now
    BY <1>2, <2>1 DEF Position
  <2>3. w' = [w EXCEPT ![r] = p] /\ w[r].pc = "fire"
    BY <1>1, <1>5, <2>1 DEF Fire, At
  <2>. QED
    BY <1>1, <2>2, <2>3 DEF Tick, List, Mark, At
<1>6. CASE Mark(r)
  <2>1. w' = [w EXCEPT ![r] = Idle] /\ w[r].pc = "mark"
    BY <1>6 DEF Mark, At
  <2>. QED
    BY <1>1, <2>1, NoRowTypes DEF Tick, List, Fire, At
<1>. QED
  BY <1>3, <1>4, <1>5, <1>6

LEMMA CrashMoves ==
  ASSUME TypeInv, NEW r \in Replica, Crash(r)
  PROVE  w' \in [Replica -> Position] /\ w'[r].pc = "idle" /\ \A p \in Replica \ {r} : w'[p] = w[p]
<1>1. w \in [Replica -> Position]
  BY DEF TypeInv, TypeOK, Position
<1>2. w' = [w EXCEPT ![r] = Idle]
  BY DEF Crash
<1>. QED
  BY <1>1, <1>2, NoRowTypes

\* A pass that ends without a new next_run_at: the row at most goes off.
Unmarked(r) == MarkFails(r) \/ Deactivate(r)

LEMMA UnmarkedMoves ==
  ASSUME TypeInv, NEW r \in Replica, Unmarked(r)
  PROVE  /\ w' \in [Replica -> Position] /\ w[r].pc = "mark" /\ w'[r].pc = "idle"
         /\ \A p \in Replica \ {r} : w'[p] = w[p]
         /\ UNCHANGED <<clock, managed, wf, fired, offAt, raced, edits, statusEdits, failures>>
         /\ cuts' = cuts + 1
         /\ row' \in Row /\ row'.exists = row.exists /\ row'.next = row.next
         /\ row'.expr = row.expr /\ row'.id = row.id /\ (row'.active => row.active)
<1>1. w \in [Replica -> Position] /\ row \in Row
  BY DEF TypeInv, TypeOK, Position
<1>2. CutShort(r)
  BY DEF Unmarked, MarkFails, Deactivate
<1>3. w' = [w EXCEPT ![r] = Idle] /\ w[r].pc = "mark"
  BY <1>2 DEF CutShort, At
<1>4. w' \in [Replica -> Position] /\ w'[r].pc = "idle" /\ \A p \in Replica \ {r} : w'[p] = w[p]
  BY <1>1, <1>3, NoRowTypes
<1>5. row' = row \/ row' = [row EXCEPT !.active = FALSE]
  BY DEF Unmarked, MarkFails, Deactivate
<1>6. row' \in Row /\ row'.exists = row.exists /\ row'.next = row.next
      /\ row'.expr = row.expr /\ row'.id = row.id /\ (row'.active => row.active)
  BY <1>1, <1>5 DEF Row
<1>. QED
  BY <1>2, <1>3, <1>4, <1>6 DEF CutShort, histVars

\* The lease and the replicas.
LEMMA LeaseTypes ==
  ASSUME TypeOK, [Next]_vars
  PROVE  LeaseTypeOK'
<1>. USE DEF LeaseTypeOK
<1>1. LeaseTypeOK /\ LeaseTypeOK
  BY DEF TypeOK
<1>2. ASSUME NEW r \in Replica, AcquireSingletonLease(r), UNCHANGED alive
      PROVE  LeaseTypeOK'
  <2>1. owner' = r /\ alive' = alive
    BY <1>2 DEF AcquireSingletonLease
  <2>2. live' = TRUE
    BY <1>2 DEF AcquireSingletonLease
  <2>3. live' \in BOOLEAN
    BY <2>2, Zenon
  <2>. QED
    BY <1>1, <2>1, <2>3
<1>3. CASE UNCHANGED leaseVars
  BY <1>1, <1>3 DEF leaseVars
<1>4. ASSUME NEW r \in Replica, Tick(r) PROVE LeaseTypeOK'
  BY <1>2, <1>4 DEF Tick
<1>5. ASSUME NEW r \in Replica, Crash(r) PROVE LeaseTypeOK'
  BY <1>1, <1>5 DEF Crash, Dies
<1>6. ASSUME NEW r \in Replica, Restart(r) PROVE LeaseTypeOK'
  BY <1>1, <1>6 DEF Restart, Returns
<1>7. CASE LeaseLapses
  <2>1. live' = FALSE
    BY <1>7 DEF LeaseLapses
  <2>2. live' \in BOOLEAN
    BY <2>1, Zenon
  <2>. QED
    BY <1>1, <1>7, <2>2 DEF LeaseLapses
<1>8. CASE ReconcileSchedule
  BY <1>1, <1>2, <1>8 DEF ReconcileSchedule
<1>9. ASSUME NEW r \in Replica, List(r) \/ Fire(r) \/ Mark(r) \/ Unmarked(r) PROVE LeaseTypeOK'
  BY <1>3, <1>9 DEF List, Fire, Mark, Unmarked, MarkFails, Deactivate, CutShort
<1>10. CASE EditWorkflow \/ CreateSchedule \/ UpdateSchedule \/ DeleteSchedule \/ Advance \/ UNCHANGED vars
  BY <1>3, <1>10 DEF EditWorkflow, CreateSchedule, UpdateSchedule, DeleteSchedule, UserEdit, Advance, vars
<1>. QED
  BY <1>4, <1>5, <1>6, <1>7, <1>8, <1>9, <1>10 DEF Next, Unmarked

LEMMA TypeInit == Init => TypeInv
<1>. SUFFICES ASSUME Init PROVE TypeInv
  OBVIOUS
<1>1. LeaseTypeOK
  <2>1. live = FALSE
    BY DEF Init, LeaseInit
  <2>2. live \in BOOLEAN
    BY <2>1, Zenon
  <2>. QED
    BY <2>2 DEF Init, LeaseInit, LeaseTypeOK
<1>2. clock \in Time /\ fired \in [Time -> Nat] /\ offAt \subseteq Time
  BY ScheduleAssumption DEF Init, Time
<1>3. raced = FALSE
  BY DEF Init
<1>4. raced \in BOOLEAN
  BY <1>3, Zenon
<1>5. managed \in BOOLEAN
  <2>1. managed = (wf.trigger # Manual)
    BY DEF Init
  <2>. QED
    BY <2>1, Zenon
<1>6. wf \in Workflow /\ edits \in Nat /\ statusEdits \in Nat /\ failures \in Nat /\ cuts \in Nat
  BY DEF Init, Workflow
<1>7. row \in Row /\ w \in [Replica -> Position] /\ \A r \in Replica : w[r].pc = "idle"
  BY NoRowTypes DEF Init
<1>. QED
  BY <1>1, <1>2, <1>4, <1>5, <1>6, <1>7 DEF TypeInv, TypeOK, ListedWhenDue, Busy, Position

\* MarkScheduleFired moves the row that was listed, and no other.
LEMMA MarkedRow ==
  ASSUME TypeInv, NEW r \in Replica, Mark(r)
  PROVE  /\ row' \in Row /\ w[r].row.expr \in Expr /\ w[r].now \in Nat
         /\ \/ row' = row /\ (row.exists => row.id # w[r].row.id)
            \/ /\ row.exists /\ row.id = w[r].row.id
               /\ row'.exists /\ row'.active = row.active /\ row'.expr = row.expr /\ row'.id = row.id
               /\ row'.next = NextRun(w[r].row.expr, w[r].now) /\ row'.next > w[r].now
<1>1. row \in Row /\ w[r] \in Position
  BY DEF TypeInv, TypeOK, Position
<1>2. w[r].row.expr \in Expr /\ w[r].now \in Nat
  BY <1>1 DEF Position, Row, Time
<1>3. NextRun(w[r].row.expr, w[r].now) \in Nat /\ NextRun(w[r].row.expr, w[r].now) > w[r].now
  BY <1>2, NextRunIsLater
<1>4. row' = IF row.exists /\ row.id = w[r].row.id
             THEN [row EXCEPT !.next = NextRun(w[r].row.expr, w[r].now)] ELSE row
  BY DEF Mark, Marked
<1>5. PICK m : m = [row EXCEPT !.next = NextRun(w[r].row.expr, w[r].now)]
  OBVIOUS
<1>6. m \in Row /\ m.exists = row.exists /\ m.active = row.active /\ m.expr = row.expr /\ m.id = row.id
      /\ m.next = NextRun(w[r].row.expr, w[r].now)
  BY <1>1, <1>3, <1>5 DEF Row
<1>. QED
  BY <1>1, <1>2, <1>3, <1>4, <1>5, <1>6

\* Users and the reconciler leave the scheduler and its history alone.
LEMMA EditsLeave ==
  ASSUME ReconcileSchedule \/ CreateSchedule \/ UpdateSchedule \/ DeleteSchedule
  PROVE  /\ UNCHANGED <<clock, managed, wf, w, fired, offAt, statusEdits, failures, cuts>>
         /\ raced' = (raced \/ ~Calm) /\ edits' \in {edits, edits + 1}
BY DEF ReconcileSchedule, CreateSchedule, UpdateSchedule, DeleteSchedule, UserEdit, envVars

LEMMA TypeStep == TypeInv /\ [Next]_vars => TypeInv'
<1>. SUFFICES ASSUME TypeInv, [Next]_vars PROVE TypeInv'
  OBVIOUS
<1>1. /\ clock \in Time /\ managed \in BOOLEAN /\ wf \in Workflow /\ row \in Row
      /\ w \in [Replica -> Position]
      /\ fired \in [Time -> Nat] /\ offAt \subseteq Time /\ raced \in BOOLEAN
      /\ edits \in Nat /\ statusEdits \in Nat /\ failures \in Nat /\ cuts \in Nat
      /\ ListedWhenDue
  BY DEF TypeInv, TypeOK, Position
<1>2. LeaseTypeOK'
  BY LeaseTypes DEF TypeInv
<1>3. ASSUME NEW r \in Replica, Tick(r) \/ List(r) PROVE TypeInv'
  <2>1. UNCHANGED <<clock, managed, wf, row, fired, offAt, raced, edits, statusEdits, failures, cuts>>
    BY <1>3 DEF Tick, List, histVars, envVars
  <2>2. w' \in [Replica -> Position]
    BY <1>3, Moves
  <2>3. clock \in Nat
    BY <1>1 DEF Time
  <2>4. ListedWhenDue'
    <3>1. ASSUME NEW p \in Replica, w'[p].pc \in {"fire", "mark"}
          PROVE  w'[p].row.exists /\ w'[p].row.next <= w'[p].now /\ w'[p].now <= clock
      <4>1. CASE p = r
        BY <1>3, <2>3, <3>1, <4>1, Moves
      <4>2. CASE p # r
        BY <1>1, <1>3, <3>1, <4>2, Moves DEF ListedWhenDue, Busy
      <4>. QED
        BY <4>1, <4>2
    <3>. QED
      BY <2>1, <3>1 DEF ListedWhenDue, Busy
  <2>. QED
    BY <1>1, <1>2, <2>1, <2>2, <2>4 DEF TypeInv, TypeOK, Position
<1>4. ASSUME NEW r \in Replica, Fire(r) PROVE TypeInv'
  <2>1. UNCHANGED <<clock, managed, wf, row, offAt, raced, edits, statusEdits, cuts>>
    BY <1>4 DEF Fire
  <2>2. /\ w' \in [Replica -> Position] /\ \A p \in Replica \ {r} : w'[p] = w[p]
        /\ w[r].pc = "fire" /\ w'[r].row = w[r].row /\ w'[r].now = w[r].now
    BY <1>4, Moves
  <2>3. w[r].row.next \in Time
    BY <1>1, <2>2, ScheduleAssumption DEF ListedWhenDue, Busy, Position, Row, Time
  <2>4. fired' \in [Time -> Nat] /\ failures' \in Nat
    BY <1>1, <1>4, <2>3 DEF Fire
  <2>5. ListedWhenDue'
    BY <1>1, <2>1, <2>2 DEF ListedWhenDue, Busy
  <2>. QED
    BY <1>1, <1>2, <2>1, <2>2, <2>4, <2>5 DEF TypeInv, TypeOK, Position
<1>5. ASSUME NEW r \in Replica, Mark(r) PROVE TypeInv'
  <2>1. UNCHANGED <<clock, managed, wf, fired, offAt, raced, edits, statusEdits, failures, cuts>>
    BY <1>5 DEF Mark, histVars, envVars
  <2>2. w' \in [Replica -> Position] /\ w'[r].pc = "idle" /\ \A p \in Replica \ {r} : w'[p] = w[p]
    BY <1>5, Moves
  <2>3. row' \in Row
    BY <1>5, MarkedRow
  <2>4. ListedWhenDue'
    BY <1>1, <2>1, <2>2 DEF ListedWhenDue, Busy
  <2>. QED
    BY <1>1, <1>2, <2>1, <2>2, <2>3, <2>4 DEF TypeInv, TypeOK, Position
<1>6. ASSUME NEW r \in Replica, Crash(r) PROVE TypeInv'
  <2>1. UNCHANGED <<clock, managed, wf, row, fired, offAt, raced, edits, statusEdits, failures>>
        /\ cuts' = cuts + 1
    BY <1>6 DEF Crash, histVars
  <2>2. w' \in [Replica -> Position] /\ w'[r].pc = "idle" /\ \A p \in Replica \ {r} : w'[p] = w[p]
    BY <1>6, CrashMoves
  <2>3. ListedWhenDue'
    BY <1>1, <2>1, <2>2 DEF ListedWhenDue, Busy
  <2>. QED
    BY <1>1, <1>2, <2>1, <2>2, <2>3 DEF TypeInv, TypeOK, Position
<1>7. CASE ReconcileSchedule \/ CreateSchedule \/ UpdateSchedule \/ DeleteSchedule
  <2>1. /\ UNCHANGED <<clock, managed, wf, w, fired, offAt, statusEdits, failures, cuts>>
        /\ raced' = (raced \/ ~Calm) /\ edits' \in {edits, edits + 1}
    BY <1>7, EditsLeave
  <2>2. raced' \in BOOLEAN
    BY <2>1, Zenon
  <2>3. row' \in Row /\ edits' \in Nat
    BY <1>1, <1>7, <2>1, Edited DEF TypeInv
  <2>4. ListedWhenDue'
    BY <1>1, <2>1 DEF ListedWhenDue, Busy
  <2>. QED
    BY <1>1, <1>2, <2>1, <2>2, <2>3, <2>4 DEF TypeInv, TypeOK, Position
<1>8. CASE EditWorkflow
  <2>1. UNCHANGED <<clock, managed, row, w, fired, offAt, raced, failures, cuts>>
        /\ edits' = edits + 1 /\ statusEdits' \in {statusEdits, statusEdits + 1}
    BY <1>8 DEF EditWorkflow, histVars
  <2>2. wf' \in Workflow
    BY <1>1, <1>8 DEF EditWorkflow, Workflow
  <2>3. edits' \in Nat /\ statusEdits' \in Nat
    BY <1>1, <2>1
  <2>4. ListedWhenDue'
    BY <1>1, <2>1 DEF ListedWhenDue, Busy
  <2>. QED
    BY <1>1, <1>2, <2>1, <2>2, <2>3, <2>4 DEF TypeInv, TypeOK, Position
<1>9. CASE Advance
  <2>1. UNCHANGED <<managed, wf, row, w, fired, raced, edits, statusEdits, failures, cuts>>
        /\ clock' = clock + 1 /\ clock < MaxClock /\ offAt' \subseteq offAt \cup {clock + 1}
    BY <1>9 DEF Advance, envVars
  <2>2. clock + 1 \in Time
    BY <1>1, <2>1, ScheduleAssumption DEF Time
  <2>3. \A r \in Replica : w[r].now \in Nat /\ clock \in Nat
    BY <1>1 DEF Position, Time
  <2>4. ListedWhenDue'
    BY <1>1, <2>1, <2>3 DEF ListedWhenDue, Busy
  <2>. QED
    BY <1>1, <1>2, <2>1, <2>2, <2>4 DEF TypeInv, TypeOK, Position
<1>14. ASSUME NEW r \in Replica, Unmarked(r) PROVE TypeInv'
  <2>1. cuts' \in Nat
    BY <1>1, <1>14, UnmarkedMoves
  <2>2. ListedWhenDue'
    BY <1>1, <1>14, UnmarkedMoves DEF ListedWhenDue, Busy
  <2>. QED
    BY <1>1, <1>2, <1>14, <2>1, <2>2, UnmarkedMoves DEF TypeInv, TypeOK, Position
<1>10. ASSUME UNCHANGED <<clock, managed, wf, row, w, histVars, envVars>> PROVE TypeInv'
  BY <1>1, <1>2, <1>10 DEF histVars, envVars, TypeInv, TypeOK, Position, ListedWhenDue, Busy
<1>11. ASSUME NEW r \in Replica, Restart(r) PROVE TypeInv'
  BY <1>10, <1>11 DEF Restart
<1>12. CASE LeaseLapses /\ Rest
  BY <1>10, <1>12 DEF Rest
<1>13. CASE UNCHANGED vars
  BY <1>10, <1>13 DEF vars
<1>. QED
  BY <1>3, <1>4, <1>5, <1>6, <1>7, <1>8, <1>9, <1>11, <1>12, <1>13, <1>14 DEF Next, Unmarked

\* Every variable has its type, however many replicas work on the schedule at a time (TypeOK).
THEOREM TypesCorrect == Spec => []TypeOK
<1>1. TypeInv => TypeOK
  BY DEF TypeInv
<1>. QED
  BY <1>1, TypeInit, TypeStep, PTL DEF Spec
-----------------------------------------------------------------------------
(* next_run_at and the expression. *)

LEMMA MatchStep == MatchInv /\ [Next]_vars => MatchInv'
<1>. SUFFICES ASSUME MatchInv, [Next]_vars PROVE SameExpr' /\ RowMatchesExpr'
  BY TypeStep DEF MatchInv
<1>1. TypeInv /\ SameExpr /\ RowMatchesExpr /\ row \in Row /\ row.expr \in Expr
  BY DEF MatchInv, TypeInv, TypeOK, Row
<1>2. ASSUME NEW r \in Replica, Tick(r) \/ List(r) \/ Fire(r) PROVE SameExpr' /\ RowMatchesExpr'
  <2>1. UNCHANGED <<row, raced>>
    BY <1>2 DEF Tick, List, Fire, histVars
  <2>2. \A p \in Replica \ {r} : w'[p] = w[p]
    BY <1>1, <1>2, Moves
  <2>3. w'[r].pc \in {"fire", "mark"} =>
          \/ w'[r].row = row /\ row.exists
          \/ w[r].pc \in {"fire", "mark"} /\ w'[r].row = w[r].row
    BY <1>1, <1>2, Moves
  <2>. QED
    BY <1>1, <2>1, <2>2, <2>3 DEF SameExpr, RowMatchesExpr, Busy
<1>3. ASSUME NEW r \in Replica, Mark(r) PROVE SameExpr' /\ RowMatchesExpr'
  <2>1. UNCHANGED raced
    BY <1>3 DEF Mark, histVars
  <2>2. w[r].pc = "mark" /\ w'[r].pc = "idle" /\ \A p \in Replica \ {r} : w'[p] = w[p]
    BY <1>1, <1>3, Moves
  <2>3. \/ row' = row
        \/ /\ row.exists /\ row'.exists /\ row'.expr = row.expr
           /\ row'.next = NextRun(w[r].row.expr, w[r].now)
    BY <1>1, <1>3, MarkedRow
  <2>4. SameExpr'
    BY <1>1, <2>1, <2>2, <2>3 DEF SameExpr, Busy
  <2>5. ~raced => w[r].row.expr = row.expr
    BY <1>1, <2>2 DEF SameExpr, Busy
  <2>6. w[r].now \in Nat
    BY <1>1, <1>3, MarkedRow
  <2>7. RowMatchesExpr'
    BY <1>1, <2>1, <2>3, <2>5, <2>6, NextRunIsLater DEF RowMatchesExpr
  <2>. QED
    BY <2>4, <2>7
<1>4. ASSUME NEW r \in Replica, Crash(r) PROVE SameExpr' /\ RowMatchesExpr'
  <2>1. UNCHANGED <<row, raced>>
    BY <1>4 DEF Crash, histVars
  <2>. QED
    BY <1>1, <1>4, <2>1, CrashMoves DEF SameExpr, RowMatchesExpr, Busy
<1>9. ASSUME NEW r \in Replica, Unmarked(r) PROVE SameExpr' /\ RowMatchesExpr'
  BY <1>1, <1>9, UnmarkedMoves DEF SameExpr, RowMatchesExpr, Busy
<1>5. CASE ReconcileSchedule \/ CreateSchedule \/ UpdateSchedule \/ DeleteSchedule
  <2>1. UNCHANGED w /\ raced' = (raced \/ ~Calm)
    BY <1>5, EditsLeave
  <2>2. SameExpr'
    BY <2>1 DEF SameExpr, Busy, Calm
  <2>3. /\ row' \in Row
        /\ \/ ~row'.exists
           \/ row.exists /\ row' = [row EXCEPT !.active = row'.active]
           \/ row'.exists /\ row'.next = NextRun(row'.expr, clock)
    BY <1>1, <1>5, Edited DEF TypeInv
  <2>4. row' = [row EXCEPT !.active = row'.active] => row'.expr = row.expr /\ row'.next = row.next
    BY <1>1 DEF Row
  <2>5. row'.expr \in Expr /\ clock \in Nat
    BY <1>1, <2>3 DEF Row, TypeInv, TypeOK, Time
  <2>6. row'.next = NextRun(row'.expr, clock) /\ row'.expr.kind = "calendar" => row'.next % row'.expr.n = 0
    <3>1. PICK e \in Expr : e = row'.expr
      BY <2>5
    <3>. QED
      BY <2>5, <3>1, NextRunIsLater
  <2>7. RowMatchesExpr'
    BY <1>1, <2>1, <2>3, <2>4, <2>6 DEF RowMatchesExpr
  <2>. QED
    BY <2>2, <2>7
<1>6. ASSUME UNCHANGED <<row, w, raced>> PROVE SameExpr' /\ RowMatchesExpr'
  BY <1>1, <1>6 DEF SameExpr, RowMatchesExpr, Busy
<1>7. CASE EditWorkflow \/ Advance \/ (LeaseLapses /\ Rest) \/ UNCHANGED vars
  BY <1>6, <1>7 DEF EditWorkflow, Advance, Rest, vars, histVars
<1>8. ASSUME NEW r \in Replica, Restart(r) PROVE SameExpr' /\ RowMatchesExpr'
  BY <1>6, <1>8 DEF Restart, histVars
<1>. QED
  BY <1>2, <1>3, <1>4, <1>5, <1>7, <1>8, <1>9 DEF Next, Unmarked

\* With any number of replicas that take each other for dead, next_run_at is a time of the
\* row's own expression whenever no edit has come between two steps (NextMatchesExpr).
THEOREM NextMatchesExprAlways == Spec => []NextMatchesExpr
<1>1. Init => MatchInv
  BY TypeInit, NoRowTypes DEF Init, MatchInv, SameExpr, RowMatchesExpr, Busy
<1>2. MatchInv /\ [Next]_vars => MatchInv'
  BY MatchStep
<1>3. MatchInv => NextMatchesExpr
  BY DEF MatchInv, RowMatchesExpr, NextMatchesExpr
<1>. QED
  BY <1>1, <1>2, <1>3, PTL DEF Spec
-----------------------------------------------------------------------------
(* One run for a due time. *)

LEMMA OneAtATimeStep ==
  ASSUME ~Stalls, TypeInv, OneAtATime, [Next]_vars
  PROVE  OneAtATime'
<1>1. ASSUME NEW r \in Replica, Tick(r) PROVE OneAtATime'
  <2>1. Acquirable(r) /\ owner' = r /\ live' /\ alive' = alive /\ r \in alive
    BY <1>1 DEF Tick, AcquireSingletonLease, At
  <2>2. \A p \in Replica \ {r} : w[p].pc = "idle"
    BY <2>1, CoordinatorAssumption DEF OneAtATime, Acquirable
  <2>. QED
    BY <1>1, <2>1, <2>2, Moves DEF OneAtATime
<1>2. ASSUME NEW r \in Replica, List(r) \/ Fire(r) \/ Mark(r) \/ Unmarked(r) PROVE OneAtATime'
  <2>1. UNCHANGED <<owner, live, alive>>
    BY <1>2 DEF List, Fire, Mark, Unmarked, MarkFails, Deactivate, CutShort, leaseVars
  <2>2. w[r].pc # "idle" /\ \A p \in Replica \ {r} : w'[p] = w[p]
    BY <1>2, Moves, UnmarkedMoves
  <2>. QED
    BY <2>1, <2>2 DEF OneAtATime
<1>3. ASSUME NEW r \in Replica, Crash(r) PROVE OneAtATime'
  BY <1>3, CrashMoves DEF Crash, Dies, OneAtATime
<1>4. ASSUME NEW r \in Replica, Restart(r) PROVE OneAtATime'
  BY <1>4 DEF Restart, Returns, OneAtATime
<1>5. CASE LeaseLapses /\ Rest
  BY <1>5 DEF LeaseLapses, Rest, OneAtATime
<1>6. CASE ReconcileSchedule
  <2>1. PICK r \in alive : Acquirable(r) /\ owner' = r /\ live'
    BY <1>6 DEF ReconcileSchedule, AcquireSingletonLease
  <2>2. UNCHANGED <<alive, w>>
    BY <1>6 DEF ReconcileSchedule
  <2>3. r \in Replica
    BY <2>1 DEF TypeInv, TypeOK, LeaseTypeOK
  <2>. QED
    BY <2>1, <2>2, <2>3, CoordinatorAssumption DEF OneAtATime, Acquirable
<1>7. CASE EditWorkflow \/ CreateSchedule \/ UpdateSchedule \/ DeleteSchedule \/ Advance \/ UNCHANGED vars
  <2>1. UNCHANGED <<owner, live, alive, w>>
    BY <1>7 DEF EditWorkflow, CreateSchedule, UpdateSchedule, DeleteSchedule, UserEdit, Advance, vars, leaseVars
  <2>. QED
    BY <2>1 DEF OneAtATime
<1>. QED
  BY <1>1, <1>2, <1>3, <1>4, <1>5, <1>6, <1>7 DEF Next, Unmarked

LEMMA OnceFacts ==
  ASSUME OnceInv
  PROVE  /\ TypeInv /\ OneAtATime /\ FiredWhenDue /\ SameRowOrLater /\ UsedUpIsBehind /\ OffStaysOff
         /\ row \in Row /\ row.next \in Nat /\ clock \in Nat /\ cuts \in Nat /\ clock \in Time
         /\ fired \in [Time -> Nat] /\ offAt \subseteq Time /\ Time \subseteq Nat
         /\ \A r \in Replica : w[r].row.next \in Nat /\ w[r].now \in Nat
         /\ \A r \in Replica : Busy(r) => w[r].row.exists /\ w[r].row.next <= w[r].now /\ w[r].now <= clock
         /\ \A p, q \in Replica : w[p].pc # "idle" /\ w[q].pc # "idle" => p = q
<1>1. TypeInv /\ OneAtATime /\ FiredWhenDue /\ SameRowOrLater /\ UsedUpIsBehind /\ OffStaysOff
  BY DEF OnceInv
<1>2. row \in Row /\ clock \in Time /\ cuts \in Nat /\ fired \in [Time -> Nat] /\ offAt \subseteq Time
      /\ w \in [Replica -> Position]
  BY <1>1 DEF TypeInv, TypeOK, Position
<1>3. Time \subseteq Nat /\ row.next \in Nat /\ clock \in Nat
  BY <1>2 DEF Row, Time
<1>4. \A r \in Replica : w[r].row.next \in Nat /\ w[r].now \in Nat
  BY <1>2, <1>3 DEF Position, Row
<1>5. \A r \in Replica : Busy(r) => w[r].row.exists /\ w[r].row.next <= w[r].now /\ w[r].now <= clock
  BY <1>1 DEF TypeInv, ListedWhenDue
<1>6. \A p, q \in Replica : w[p].pc # "idle" /\ w[q].pc # "idle" => p = q
  BY <1>1 DEF OneAtATime
<1>. QED
  BY <1>1, <1>2, <1>3, <1>4, <1>5, <1>6

\* A step that only makes replicas idle, or busy before their listing.
LEMMA OnceQuiet ==
  ASSUME OnceInv, UNCHANGED <<clock, managed, row, fired, offAt, raced>>, cuts' \in {cuts, cuts + 1},
         \A r \in Replica : w'[r] = w[r] \/ w'[r].pc \in {"idle", "list"},
         cuts' = cuts => \A r \in Replica : Marking(r) => w'[r] = w[r]
  PROVE  FiredWhenDue' /\ SameRowOrLater' /\ UsedUpIsBehind' /\ OffStaysOff'
<1>1. \A r \in Replica : Busy(r)' => w'[r] = w[r] /\ Busy(r)
  BY DEF Busy
<1>2. FiredWhenDue' /\ SameRowOrLater'
  BY <1>1, OnceFacts DEF FiredWhenDue, SameRowOrLater
<1>3. OffStaysOff'
  BY <1>1, OnceFacts DEF OffStaysOff, Busy
<1>4. UsedUpIsBehind'
  <2>1. ASSUME NEW t \in Time
        PROVE  /\ fired[t] <= 1 + cuts'
               /\ row.exists /\ row.next = t /\ fired[t] > cuts' =>
                    \E r \in Replica : Marking(r)' /\ row.id = w'[r].row.id
               /\ \A r \in Replica : w'[r].pc = "fire" /\ w'[r].row.next = t => fired[t] <= cuts'
    <3>1. fired[t] \in Nat /\ cuts \in Nat
      BY OnceFacts
    <3>2. /\ fired[t] <= 1 + cuts
          /\ row.exists /\ row.next = t /\ fired[t] > cuts =>
               \E r \in Replica : Marking(r) /\ row.id = w[r].row.id
          /\ \A r \in Replica : w[r].pc = "fire" /\ w[r].row.next = t => fired[t] <= cuts
      BY OnceFacts DEF UsedUpIsBehind
    <3>3. CASE cuts' = cuts
      BY <3>1, <3>2, <3>3 DEF Marking
    <3>4. CASE cuts' = cuts + 1
      BY <3>1, <3>2, <3>4
    <3>. QED
      BY <3>3, <3>4
  <2>. QED
    BY <2>1 DEF UsedUpIsBehind
<1>. QED
  BY <1>2, <1>3, <1>4

LEMMA OnceList ==
  ASSUME OnceInv, NEW r \in Replica, List(r)
  PROVE  FiredWhenDue' /\ SameRowOrLater' /\ UsedUpIsBehind' /\ OffStaysOff'
<1>1. UNCHANGED <<clock, managed, row, fired, offAt, raced, cuts>>
  BY DEF List, histVars, envVars
<1>2. /\ w[r].pc = "list" /\ \A p \in Replica \ {r} : w'[p] = w[p] /\ w[p].pc = "idle"
      /\ \/ w'[r].pc = "idle"
         \/ /\ w'[r].pc = "fire" /\ w'[r].row = row /\ w'[r].now = clock
            /\ row.exists /\ row.active /\ row.next <= clock
  BY Moves, OnceFacts
<1>3. CASE w'[r].pc = "idle"
  BY <1>1, <1>2, <1>3, OnceQuiet DEF Marking
<1>4. CASE w'[r].pc = "fire" /\ w'[r].row = row /\ w'[r].now = clock
           /\ row.exists /\ row.active /\ row.next <= clock
  <2>1. \A p \in Replica : ~Marking(p)
    BY <1>2 DEF Marking
  <2>2. \A p \in Replica : Busy(p)' => p = r
    BY <1>2 DEF Busy
  <2>3. FiredWhenDue' /\ SameRowOrLater'
    BY <1>1, <1>4, <2>2, OnceFacts DEF FiredWhenDue, SameRowOrLater
  <2>4. \A t \in Time : fired[t] <= 1 + cuts /\ (row.next = t => fired[t] <= cuts)
    BY <1>4, <2>1, OnceFacts DEF UsedUpIsBehind
  <2>5. UsedUpIsBehind'
    BY <1>1, <1>2, <1>4, <2>1, <2>4, OnceFacts DEF UsedUpIsBehind
  <2>6. OffStaysOff'
    BY <1>1, <1>2, <1>4, <2>2, OnceFacts DEF OffStaysOff, Busy
  <2>. QED
    BY <2>3, <2>5, <2>6
<1>. QED
  BY <1>2, <1>3, <1>4

LEMMA OnceFire ==
  ASSUME OnceInv, NEW r \in Replica, Fire(r)
  PROVE  FiredWhenDue' /\ SameRowOrLater' /\ UsedUpIsBehind' /\ OffStaysOff'
<1>1. UNCHANGED <<clock, managed, row, offAt, raced, cuts>>
  BY DEF Fire
<1>2. /\ w[r].pc = "fire" /\ \A p \in Replica \ {r} : w'[p] = w[p] /\ w[p].pc = "idle"
      /\ w'[r].pc = "mark" /\ w'[r].row = w[r].row /\ w'[r].now = w[r].now
  BY Moves, OnceFacts
<1>3. PICK d : d = w[r].row.next
  OBVIOUS
<1>4. d \in Time /\ d <= w[r].now /\ w[r].now <= clock /\ Busy(r)
  <2>1. Busy(r) /\ d <= w[r].now /\ w[r].now <= clock
    BY <1>2, <1>3, OnceFacts DEF Busy
  <2>2. d \in Time
    BY <1>3, <2>1, OnceFacts, ScheduleAssumption DEF Time
  <2>. QED
    BY <2>1, <2>2
<1>5. fired' \in {fired, [fired EXCEPT ![d] = @ + 1]}
  BY <1>3 DEF Fire
<1>6. /\ \A t \in Time \ {d} : fired'[t] = fired[t]
      /\ fired'[d] \in {fired[d], fired[d] + 1} /\ fired[d] <= cuts
  BY <1>2, <1>3, <1>4, <1>5, OnceFacts DEF UsedUpIsBehind
<1>7. \A p \in Replica : Busy(p)' => p = r /\ Busy(p)
  BY <1>2, <1>4 DEF Busy
<1>8. FiredWhenDue'
  BY <1>1, <1>2, <1>4, <1>6, <1>7, OnceFacts DEF FiredWhenDue
<1>9. SameRowOrLater'
  BY <1>1, <1>2, <1>7, OnceFacts DEF SameRowOrLater
<1>10. UsedUpIsBehind'
  <2>1. row.exists /\ row.next = d => Marking(r)' /\ row.id = w'[r].row.id
    BY <1>2, <1>4, OnceFacts DEF SameRowOrLater, Marking
  <2>2. \A t \in Time : fired'[t] <= 1 + cuts
    <3>1. ASSUME NEW t \in Time PROVE fired'[t] <= 1 + cuts
      BY <1>6, OnceFacts DEF UsedUpIsBehind
    <3>. QED
      BY <3>1
  <2>3. \A p \in Replica : w'[p].pc # "fire"
    BY <1>2
  <2>4. \A t \in Time \ {d} : row.exists /\ row.next = t /\ fired'[t] > cuts =>
          \E p \in Replica : Marking(p)' /\ row.id = w'[p].row.id
    BY <1>2, <1>6, OnceFacts DEF UsedUpIsBehind, Marking
  <2>. QED
    BY <1>1, <2>1, <2>2, <2>3, <2>4 DEF UsedUpIsBehind
<1>11. OffStaysOff'
  <2>1. ~raced => d \notin offAt
    BY <1>2, <1>3, <1>4, OnceFacts DEF OffStaysOff
  <2>2. ~raced => \A t \in offAt : fired'[t] = 0
    BY <1>6, <2>1, OnceFacts DEF OffStaysOff
  <2>3. \A p \in Replica : w'[p].pc # "fire"
    BY <1>2
  <2>. QED
    BY <1>1, <1>2, <1>7, <2>2, <2>3, OnceFacts DEF OffStaysOff
<1>. QED
  BY <1>8, <1>9, <1>10, <1>11

LEMMA OnceMark ==
  ASSUME OnceInv, NEW r \in Replica, Mark(r)
  PROVE  FiredWhenDue' /\ SameRowOrLater' /\ UsedUpIsBehind' /\ OffStaysOff'
<1>1. UNCHANGED <<clock, managed, fired, offAt, raced, cuts>>
  BY DEF Mark, histVars, envVars
<1>2. w[r].pc = "mark" /\ w'[r].pc = "idle" /\ Busy(r)
      /\ \A p \in Replica \ {r} : w'[p] = w[p] /\ w[p].pc = "idle"
  BY Moves, OnceFacts DEF Busy
<1>3. \A p \in Replica : ~Busy(p)' /\ w'[p].pc # "fire"
  BY <1>2 DEF Busy
<1>4. row' \in Row /\ row'.next \in Nat /\ (row'.exists => row'.next > w[r].now)
  BY <1>2, MarkedRow, OnceFacts DEF SameRowOrLater, Row
<1>5. \A t \in Time : row'.exists /\ row'.next = t => fired[t] = 0
  <2>1. ASSUME NEW t \in Time, row'.exists, row'.next = t PROVE fired[t] = 0
    BY <1>2, <1>4, <2>1, OnceFacts DEF FiredWhenDue
  <2>. QED
    BY <2>1
<1>6. FiredWhenDue' /\ SameRowOrLater'
  BY <1>1, <1>3, OnceFacts DEF FiredWhenDue, SameRowOrLater
<1>7. UsedUpIsBehind'
  BY <1>1, <1>3, <1>5, OnceFacts DEF UsedUpIsBehind
<1>8. ~raced => \A t \in offAt : row'.exists => row'.next # t
  <2>1. ASSUME ~raced, NEW t \in offAt, row'.exists PROVE row'.next # t
    <3>1. t <= w[r].now /\ t \in Nat
      BY <1>2, <2>1, OnceFacts DEF OffStaysOff
    <3>. QED
      BY <1>4, <2>1, <3>1, OnceFacts
  <2>. QED
    BY <2>1
<1>9. OffStaysOff'
  BY <1>1, <1>3, <1>8, OnceFacts DEF OffStaysOff
<1>. QED
  BY <1>6, <1>7, <1>9

LEMMA OnceUnmarked ==
  ASSUME OnceInv, NEW r \in Replica, Unmarked(r)
  PROVE  FiredWhenDue' /\ SameRowOrLater' /\ UsedUpIsBehind' /\ OffStaysOff'
<1>1. /\ UNCHANGED <<clock, managed, fired, offAt, raced>> /\ cuts' = cuts + 1
      /\ row'.exists = row.exists /\ row'.next = row.next /\ (row'.active => row.active)
  BY UnmarkedMoves, OnceFacts
<1>2. w[r].pc = "mark" /\ w'[r].pc = "idle" /\ \A p \in Replica \ {r} : w'[p] = w[p] /\ w[p].pc = "idle"
  BY UnmarkedMoves, OnceFacts
<1>3. \A p \in Replica : ~Busy(p)' /\ w'[p].pc # "fire"
  BY <1>2 DEF Busy
<1>4. FiredWhenDue' /\ SameRowOrLater'
  BY <1>1, <1>3, OnceFacts DEF FiredWhenDue, SameRowOrLater
<1>5. UsedUpIsBehind'
  <2>1. ASSUME NEW t \in Time PROVE fired'[t] <= 1 + cuts' /\ ~(fired'[t] > cuts')
    BY <1>1, OnceFacts DEF UsedUpIsBehind
  <2>. QED
    BY <1>3, <2>1 DEF UsedUpIsBehind
<1>6. OffStaysOff'
  BY <1>1, <1>3, OnceFacts DEF OffStaysOff
<1>. QED
  BY <1>4, <1>5, <1>6

LEMMA OnceEdit ==
  ASSUME OnceInv, ReconcileSchedule \/ CreateSchedule \/ UpdateSchedule \/ DeleteSchedule
  PROVE  FiredWhenDue' /\ SameRowOrLater' /\ UsedUpIsBehind' /\ OffStaysOff'
<1>1. UNCHANGED <<clock, managed, w, fired, offAt, cuts>> /\ raced' = (raced \/ ~Calm)
  BY EditsLeave
<1>2. /\ row' \in Row /\ row'.next \in Nat
      /\ \/ ~row'.exists
         \/ row.exists /\ row' = [row EXCEPT !.active = row'.active]
         \/ row'.exists /\ row'.next = NextRun(row'.expr, clock)
      /\ ~managed /\ row.exists /\ row'.exists /\ ~row.active /\ row'.active =>
           row'.next = NextRun(row'.expr, clock)
  BY Edited, OnceFacts DEF TypeInv, Row
<1>3. row'.next = NextRun(row'.expr, clock) => row'.next > clock
  <2>1. PICK e \in Expr : e = row'.expr
    BY <1>2 DEF Row
  <2>. QED
    BY <2>1, NextRunIsLater, OnceFacts
<1>4. \/ ~row'.exists
      \/ row.exists /\ row'.exists /\ row'.next = row.next /\ row'.id = row.id
      \/ row'.exists /\ row'.next > clock
  BY <1>2, <1>3, OnceFacts DEF Row
<1>5. FiredWhenDue'
  BY <1>1, OnceFacts DEF FiredWhenDue, Busy
<1>6. SameRowOrLater'
  <2>1. ASSUME NEW r \in Replica, Busy(r), row'.exists
        PROVE  row'.id = w[r].row.id \/ row'.next > w[r].now
    BY <1>2, <1>4, <2>1, OnceFacts DEF SameRowOrLater
  <2>. QED
    BY <1>1, <2>1 DEF SameRowOrLater, Busy
<1>7. UsedUpIsBehind'
  <2>1. ASSUME NEW t \in Time, row'.exists, row'.next = t, fired[t] > cuts
        PROVE  \E r \in Replica : Marking(r) /\ row'.id = w[r].row.id
    <3>1. t <= clock
      BY <2>1, OnceFacts DEF FiredWhenDue
    <3>2. row.exists /\ row.next = t /\ row'.id = row.id
      BY <1>2, <1>4, <2>1, <3>1, OnceFacts
    <3>. QED
      BY <2>1, <3>2, OnceFacts DEF UsedUpIsBehind
  <2>. QED
    BY <1>1, <2>1, OnceFacts DEF UsedUpIsBehind, Marking
<1>8. OffStaysOff'
  <2>1. CASE raced'
    BY <1>1, <2>1, OnceFacts DEF OffStaysOff
  <2>2. CASE ~raced'
    <3>1. ~raced /\ \A r \in Replica : w[r].pc = "idle"
      BY <1>1, <2>2 DEF Calm
    <3>2. ASSUME NEW t \in offAt, row'.exists, row'.next = t PROVE ~row'.active
      <4>1. t <= clock /\ ~managed
        BY OnceFacts DEF OffStaysOff
      <4>2. row.exists /\ row.next = t /\ row'.next # NextRun(row'.expr, clock)
        BY <1>2, <1>3, <1>4, <3>2, <4>1, OnceFacts
      <4>3. ~row.active
        BY <3>1, <4>2, OnceFacts DEF OffStaysOff
      <4>. QED
        BY <1>2, <3>2, <4>1, <4>2, <4>3
    <3>. QED
      BY <1>1, <3>1, <3>2, OnceFacts DEF OffStaysOff, Busy
  <2>. QED
    BY <2>1, <2>2
<1>. QED
  BY <1>5, <1>6, <1>7, <1>8

LEMMA OnceAdvance ==
  ASSUME OnceInv, Advance
  PROVE  FiredWhenDue' /\ SameRowOrLater' /\ UsedUpIsBehind' /\ OffStaysOff'
<1>1. UNCHANGED <<managed, row, w, fired, raced, cuts>> /\ clock' = clock + 1
      /\ offAt' = IF ~managed /\ row.exists /\ ~row.active /\ row.next = clock + 1
                  THEN offAt \cup {clock + 1} ELSE offAt
  BY DEF Advance, envVars
<1>2. FiredWhenDue' /\ SameRowOrLater' /\ UsedUpIsBehind'
  BY <1>1, OnceFacts DEF FiredWhenDue, SameRowOrLater, UsedUpIsBehind, Busy, Marking
<1>3. clock + 1 \in Time /\ fired[clock + 1] = 0
  <2>1. clock + 1 \in Time
    BY OnceFacts, ScheduleAssumption DEF Advance, Time
  <2>. QED
    BY <2>1, OnceFacts DEF FiredWhenDue
<1>4. CASE offAt' = offAt
  <2>1. \A t \in offAt : t <= clock + 1
    <3>1. \A t \in offAt : t <= clock /\ t \in Nat
      BY OnceFacts DEF OffStaysOff
    <3>. QED
      BY <3>1, OnceFacts
  <2>2. UNCHANGED <<managed, row, w, fired, raced, offAt>> /\ \A t \in offAt' : t <= clock'
    BY <1>1, <1>4, <2>1
  <2>. QED
    BY <1>2, <2>2, OnceFacts DEF OffStaysOff, Busy
<1>5. CASE ~managed /\ row.exists /\ ~row.active /\ row.next = clock + 1 /\ offAt' = offAt \cup {clock + 1}
  <2>1. ~raced => \A r \in Replica : ~Busy(r)
    BY <1>5, OnceFacts DEF OffStaysOff
  <2>2. \A t \in offAt' : t <= clock + 1
    <3>1. \A t \in offAt : t <= clock /\ t \in Nat
      BY OnceFacts DEF OffStaysOff
    <3>. QED
      BY <1>5, <3>1, OnceFacts
  <2>3. ~raced => \A t \in offAt' : fired[t] = 0 /\ (row.exists /\ row.next = t => ~row.active)
    BY <1>3, <1>5, OnceFacts DEF OffStaysOff
  <2>4. UNCHANGED <<managed, row, w, fired, raced>> /\ (\A t \in offAt' : t <= clock')
    BY <1>1, <2>2
  <2>5. ~managed' /\ \A r \in Replica : Busy(r)' = Busy(r) /\ (w'[r].pc = "fire" => Busy(r))
    BY <1>5, <2>4 DEF Busy
  <2>6. ~raced' => \A t \in offAt' : fired'[t] = 0 /\ (row'.exists /\ row'.next = t => ~row'.active)
    BY <2>3, <2>4
  <2>7. ~raced' => \A r \in Replica : ~Busy(r)' /\ w'[r].pc # "fire"
    BY <2>1, <2>4, <2>5
  <2>. QED
    BY <1>2, <2>4, <2>5, <2>6, <2>7 DEF OffStaysOff
<1>. QED
  BY <1>1, <1>2, <1>4, <1>5

LEMMA OnceStep == ~Stalls /\ OnceInv /\ [Next]_vars => OnceInv'
<1>. SUFFICES ASSUME ~Stalls, OnceInv, [Next]_vars PROVE OnceInv'
  OBVIOUS
<1>1. TypeInv' /\ OneAtATime'
  BY TypeStep, OneAtATimeStep, OnceFacts
<1>2. FiredWhenDue' /\ SameRowOrLater' /\ UsedUpIsBehind' /\ OffStaysOff'
  <2>1. ASSUME NEW r \in Replica, Tick(r)
        PROVE  FiredWhenDue' /\ SameRowOrLater' /\ UsedUpIsBehind' /\ OffStaysOff'
    <3>1. UNCHANGED <<clock, managed, row, fired, offAt, raced, cuts>>
      BY <2>1 DEF Tick, histVars, envVars
    <3>2. \A p \in Replica : w'[p] = w[p] \/ (w'[p].pc = "list" /\ w[p].pc = "idle")
      BY <2>1, Moves, OnceFacts
    <3>3. \A p \in Replica : Marking(p) => w'[p] = w[p]
      BY <3>2 DEF Marking
    <3>4. \A p \in Replica : w'[p] = w[p] \/ w'[p].pc \in {"idle", "list"}
      BY <3>2
    <3>. QED
      BY <3>1, <3>3, <3>4, OnceQuiet
  <2>2. ASSUME NEW r \in Replica, Crash(r)
        PROVE  FiredWhenDue' /\ SameRowOrLater' /\ UsedUpIsBehind' /\ OffStaysOff'
    <3>1. UNCHANGED <<clock, managed, row, fired, offAt, raced>> /\ cuts' = cuts + 1
      BY <2>2 DEF Crash, histVars
    <3>2. \A p \in Replica : w'[p] = w[p] \/ w'[p].pc = "idle"
      BY <2>2, CrashMoves, OnceFacts
    <3>3. cuts' # cuts
      BY <3>1, OnceFacts
    <3>. QED
      BY <3>1, <3>2, <3>3, OnceQuiet
  <2>3. ASSUME UNCHANGED <<clock, managed, row, w, fired, offAt, raced, cuts>>
        PROVE  FiredWhenDue' /\ SameRowOrLater' /\ UsedUpIsBehind' /\ OffStaysOff'
    BY <2>3, OnceQuiet
  <2>4. ASSUME NEW r \in Replica, Restart(r)
        PROVE  FiredWhenDue' /\ SameRowOrLater' /\ UsedUpIsBehind' /\ OffStaysOff'
    BY <2>3, <2>4 DEF Restart, histVars, envVars
  <2>5. CASE EditWorkflow \/ (LeaseLapses /\ Rest) \/ UNCHANGED vars
    BY <2>3, <2>5 DEF EditWorkflow, Rest, vars, histVars, envVars
  <2>. QED
    BY <2>1, <2>2, <2>4, <2>5, OnceList, OnceFire, OnceMark, OnceUnmarked, OnceEdit, OnceAdvance
       DEF Next, Unmarked
<1>. QED
  BY <1>1, <1>2 DEF OnceInv

LEMMA OnceInit == Init => OnceInv
<1>. SUFFICES ASSUME Init PROVE OnceInv
  OBVIOUS
<1>1. TypeInv /\ cuts = 0 /\ offAt = {} /\ \A t \in Time : fired[t] = 0
  BY TypeInit DEF Init
<1>2. ~row.exists /\ \A r \in Replica : w[r].pc = "idle"
  BY NoRowTypes DEF Init
<1>. QED
  BY <1>1, <1>2 DEF OnceInv, OneAtATime, FiredWhenDue, SameRowOrLater, UsedUpIsBehind, OffStaysOff, Busy, Marking

\* While a live holder of the coordinator lease renews it, a due time starts one run and one
\* more for each pass of the scheduler that was cut short, and a time that passed while a user had switched the schedule off
\* starts none (FiresOnce), for every set of expressions and replicas, with the lease taken
\* over, rows deleted and made again and late Marks of rows that were edited meanwhile.
THEOREM FiresOnceUnlessStalled == ASSUME ~Stalls PROVE Spec => []FiresOnce
<1>1. Init => OnceInv
  BY OnceInit
<1>2. OnceInv /\ [Next]_vars => OnceInv'
  BY OnceStep
<1>3. OnceInv => FiresOnce
  <2>. SUFFICES ASSUME OnceInv, NEW t \in Time PROVE fired[t] <= IF t \in offAt /\ ~raced THEN 0 ELSE 1 + cuts
    BY DEF FiresOnce
  <2>1. fired[t] <= 1 + cuts /\ (t \in offAt /\ ~raced => fired[t] = 0)
    BY OnceFacts DEF UsedUpIsBehind, OffStaysOff
  <2>. QED
    BY <2>1
<1>. QED
  BY <1>1, <1>2, <1>3, PTL DEF Spec
-----------------------------------------------------------------------------
(* A due time stays due until it is served. *)

\* Before a row is marked, its run has been started or could not be created.
MarkedIsServed == \A r \in Replica : Marking(r) => fired[w[r].row.next] > 0 \/ failures > 0
ServedInv == OnceInv /\ MarkedIsServed

LEMMA MarkedIsServedFire ==
  ASSUME ServedInv, NEW r \in Replica, Fire(r)
  PROVE  MarkedIsServed'
<1>. USE DEF ServedInv
<1>1. /\ w[r].pc = "fire" /\ \A p \in Replica \ {r} : w'[p] = w[p] /\ w[p].pc = "idle"
      /\ w'[r].row = w[r].row
  BY Moves, OnceFacts
<1>2. PICK d : d = w[r].row.next
  OBVIOUS
<1>3. d \in Time
  <2>1. d \in Nat /\ d <= w[r].now /\ w[r].now <= clock /\ w[r].now \in Nat
    BY <1>1, <1>2, OnceFacts DEF Busy
  <2>. QED
    BY <2>1, OnceFacts, ScheduleAssumption DEF Time
<1>4. fired' = [fired EXCEPT ![d] = @ + 1] \/ failures' = failures + 1
  BY <1>2 DEF Fire
<1>5. fired \in [Time -> Nat] /\ failures \in Nat
  BY OnceFacts DEF TypeInv, TypeOK
<1>6. fired'[d] > 0 \/ failures' > 0
  BY <1>3, <1>4, <1>5
<1>. QED
  BY <1>1, <1>2, <1>6 DEF MarkedIsServed, Marking

LEMMA ServedStep == ~Stalls /\ ServedInv /\ [Next]_vars => ServedInv'
<1>. SUFFICES ASSUME ~Stalls, ServedInv, [Next]_vars PROVE MarkedIsServed'
  BY OnceStep DEF ServedInv
<1>1. ASSUME UNCHANGED <<fired, failures>>,
             \A r \in Replica : w'[r] = w[r] \/ w'[r].pc # "mark"
      PROVE  MarkedIsServed'
  BY <1>1 DEF ServedInv, MarkedIsServed, Marking
<1>2. ASSUME NEW r \in Replica, Tick(r) \/ List(r) \/ Mark(r) PROVE MarkedIsServed'
  <2>1. \A p \in Replica : w'[p] = w[p] \/ w'[p].pc # "mark"
    BY <1>2, Moves, OnceFacts DEF ServedInv
  <2>2. UNCHANGED <<fired, failures>>
    BY <1>2 DEF Tick, List, Mark, histVars, envVars
  <2>. QED
    BY <1>1, <2>1, <2>2
<1>3. ASSUME NEW r \in Replica, Crash(r) PROVE MarkedIsServed'
  <2>1. \A p \in Replica : w'[p] = w[p] \/ w'[p].pc # "mark"
    BY <1>3, CrashMoves, OnceFacts DEF ServedInv
  <2>2. UNCHANGED <<fired, failures>>
    BY <1>3 DEF Crash, histVars
  <2>. QED
    BY <1>1, <2>1, <2>2
<1>6. ASSUME NEW r \in Replica, Unmarked(r) PROVE MarkedIsServed'
  <2>1. \A p \in Replica : w'[p] = w[p] \/ w'[p].pc # "mark"
    BY <1>6, UnmarkedMoves, OnceFacts DEF ServedInv
  <2>2. UNCHANGED <<fired, failures>>
    BY <1>6, UnmarkedMoves, OnceFacts DEF ServedInv
  <2>. QED
    BY <1>1, <2>1, <2>2
<1>4. CASE ReconcileSchedule \/ CreateSchedule \/ UpdateSchedule \/ DeleteSchedule
  BY <1>1, <1>4, EditsLeave
<1>5. ASSUME (\E r \in Replica : Restart(r)) \/ (LeaseLapses /\ Rest) \/ EditWorkflow \/ Advance \/ UNCHANGED vars
      PROVE  MarkedIsServed'
  <2>1. UNCHANGED <<w, fired, failures>>
    BY <1>5 DEF Restart, Rest, EditWorkflow, Advance, vars, histVars, envVars
  <2>. QED
    BY <1>1, <2>1
<1>. QED
  BY <1>2, <1>3, <1>4, <1>5, <1>6, MarkedIsServedFire DEF Next, Unmarked

\* What one step does to a due row that no edit has raced with.
LEMMA DueStep ==
  ASSUME ServedInv, [Next]_vars, Due(row, clock), ~raced
  PROVE  \/ Due(row', clock') /\ row'.next = row.next
         \/ fired[row.next] > 0 \/ failures > 0
         \/ edits' > edits \/ row'.expr # row.expr \/ row'.active # row.active
<1>1. OnceInv /\ MarkedIsServed /\ edits \in Nat /\ row \in Row
  BY OnceFacts DEF ServedInv, TypeInv, TypeOK
<1>2. row.exists /\ row.active /\ row.next <= clock /\ row.next \in Nat /\ clock \in Nat
  BY <1>1, OnceFacts DEF Due
<1>3. ASSUME row' = row, clock' \in {clock, clock + 1} PROVE Due(row', clock') /\ row'.next = row.next
  BY <1>2, <1>3 DEF Due
<1>4. ASSUME NEW r \in Replica, Mark(r) \/ Unmarked(r) PROVE fired[row.next] > 0 \/ failures > 0
  <2>1. Marking(r) /\ Busy(r)
    BY <1>1, <1>4, Moves, UnmarkedMoves, OnceFacts DEF Marking, Busy
  <2>2. w[r].row = row
    BY <1>1, <2>1, OnceFacts DEF OffStaysOff
  <2>. QED
    BY <1>1, <2>1, <2>2 DEF MarkedIsServed
<1>5. ASSUME ReconcileSchedule
      PROVE  \/ Due(row', clock') /\ row'.next = row.next
             \/ row'.expr # row.expr \/ row'.active # row.active
  <2>1. row' = Changed(wf.trigger, wf.status = "active") /\ clock' = clock
    BY <1>2, <1>5 DEF ReconcileSchedule
  <2>2. PICK on : on = (wf.status = "active")
    OBVIOUS
  <2>3. CASE row.expr = wf.trigger
    <3>1. row' = [row EXCEPT !.expr = row.expr, !.active = on, !.next = row.next]
      BY <2>1, <2>2, <2>3 DEF Changed
    <3>2. row'.exists = row.exists /\ row'.next = row.next /\ row'.expr = row.expr
      BY <1>1, <3>1 DEF Row
    <3>. QED
      BY <1>2, <2>1, <3>2 DEF Due
  <2>4. CASE row.expr # wf.trigger
    <3>1. row' = [row EXCEPT !.expr = wf.trigger, !.active = on, !.next = NextRun(wf.trigger, clock)]
      BY <2>1, <2>2, <2>4 DEF Changed
    <3>2. row'.expr = wf.trigger
      BY <1>1, <3>1 DEF Row
    <3>. QED
      BY <2>4, <3>2
  <2>. QED
    BY <2>3, <2>4
<1>6. CASE CreateSchedule \/ UpdateSchedule \/ DeleteSchedule
  <2>1. UserEdit
    BY <1>6 DEF CreateSchedule, UpdateSchedule, DeleteSchedule
  <2>2. edits' = edits + 1
    BY <2>1 DEF UserEdit
  <2>. QED
    BY <1>1, <2>2
<1>7. ASSUME NEW r \in Replica, Tick(r) \/ List(r) \/ Fire(r) \/ Crash(r) \/ Restart(r)
      PROVE  row' = row /\ clock' = clock
  BY <1>7 DEF Tick, List, Fire, Crash, Restart
<1>8. ASSUME (LeaseLapses /\ Rest) \/ EditWorkflow \/ Advance \/ UNCHANGED vars
      PROVE  row' = row /\ clock' \in {clock, clock + 1}
  BY <1>8 DEF Rest, EditWorkflow, Advance, vars
<1>. QED
  BY <1>3, <1>4, <1>5, <1>6, <1>7, <1>8 DEF Next, Unmarked

\* The safety half of NotSkipped (DueUntilServed), for every set of expressions and
\* replicas, across crashes and takeovers, while a live holder of the coordinator lease
\* renews it: no step but an edit takes a due time away before its run was started or
\* could not be created.
THEOREM DueTimesStayDue == ASSUME ~Stalls PROVE Spec => DueUntilServed
<1>1. Init => ServedInv
  <2>. SUFFICES ASSUME Init PROVE ServedInv
    OBVIOUS
  <2>1. OnceInv
    BY OnceInit
  <2>2. \A r \in Replica : w[r].pc = "idle"
    BY TypeInit DEF Init, Idle
  <2>. QED
    BY <2>1, <2>2 DEF ServedInv, MarkedIsServed, Marking
<1>2. ServedInv /\ [Next]_vars => ServedInv'
  BY ServedStep
<1>3. ServedInv /\ [Next]_vars =>
        [Due(row, clock) /\ ~raced =>
           \/ Due(row', clock') /\ row'.next = row.next
           \/ fired[row.next] > 0 \/ failures > 0
           \/ edits' > edits \/ row'.expr # row.expr \/ row'.active # row.active]_vars
  BY DueStep
<1>. QED
  BY <1>1, <1>2, <1>3, PTL DEF Spec, DueUntilServed
=============================================================================
