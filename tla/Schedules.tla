-------------------------------- MODULE Schedules ------------------------------
(***************************************************************************)
(* A schedule: the row the reconciler derives from a workflow's trigger    *)
(* node or a user creates, the users who edit it, and the scheduler loop   *)
(* that starts a run when next_run_at has passed, on the replica that      *)
(* holds the coordinator lease.                                            *)
(***************************************************************************)
EXTENDS Coordinator, Naturals

CONSTANTS
  Expr,           \* [kind, n]: every n ticks from now, or at the multiples of n
  Manual,         \* the trigger type of a workflow without a schedule
  MaxClock,
  Horizon,        \* how far ahead a calendar is searched (code: 366 days of minutes)
  Edits,          \* requests of users, to the engine and to the registry
  StatusEdits,    \* among them, those that change the workflow's status
  CreateErrors,   \* runs that may fail to be created
  MaxCuts         \* crashes and failed stores of next_run_at

ASSUME ScheduleAssumption ==
  /\ Expr # {} /\ \A e \in Expr : e.kind \in {"interval", "calendar"} /\ e.n \in Nat \ {0}
  /\ Manual \notin Expr
  /\ \A b \in {MaxClock, Horizon, Edits, StatusEdits, CreateErrors, MaxCuts} : b \in Nat

VARIABLES
  clock,
  managed,   \* the row belongs to the workflow's trigger node, not to a user
  wf,        \* registry: the workflow's status and the trigger of its definition
  row,       \* the schedules row, or NoRow
  w,         \* [Replica -> the scheduler's position, its copy of the row, its now]
  fired,     \* history: runs started per due time
  offAt,     \* history: due times that passed while a user's schedule was off
  raced,     \* history: an edit has come between two steps of the scheduler
  edits, statusEdits, failures,
  cuts       \* passes of the scheduler that ended without a new next_run_at

histVars == <<fired, offAt, raced>>
envVars  == <<edits, statusEdits, failures, cuts>>
vars == <<leaseVars, clock, managed, wf, row, w, histVars, envVars>>

Time == 0 .. MaxClock
SomeExpr == CHOOSE e \in Expr : TRUE
NoRow == [exists |-> FALSE, active |-> FALSE, expr |-> SomeExpr, next |-> 0, id |-> 0]
Idle == [pc |-> "idle", row |-> NoRow, now |-> 0]

Row == [exists : BOOLEAN, active : BOOLEAN, expr : Expr, next : Nat, id : Nat]
Workflow == [status : {"draft", "active", "archived"}, trigger : Expr \cup {Manual}]

TypeOK ==
  /\ LeaseTypeOK /\ clock \in Time /\ managed \in BOOLEAN
  /\ wf \in Workflow /\ row \in Row
  /\ w \in [Replica -> [pc : {"idle", "list", "fire", "mark"}, row : Row, now : Time]]
  /\ fired \in [Time -> Nat] /\ offAt \subseteq Time /\ raced \in BOOLEAN
  /\ edits \in Nat /\ statusEdits \in Nat /\ failures \in Nat /\ cuts \in Nat

Init ==
  /\ LeaseInit /\ clock = 0
  /\ wf \in [status : {"draft", "active"}, trigger : Expr \cup {Manual}]
  /\ managed = (wf.trigger # Manual)
  /\ row = NoRow /\ w = [r \in Replica |-> Idle]
  /\ fired = [t \in Time |-> 0] /\ offAt = {} /\ raced = FALSE
  /\ edits = 0 /\ statusEdits = 0 /\ failures = 0 /\ cuts = 0

\* NextRun: strictly after from.
NextRunAtOrAfter(e, from) ==
  IF e.kind = "interval" THEN from + e.n ELSE ((from + e.n - 1) \div e.n) * e.n
NextRunUnmatched(e, from) == IF e.kind = "interval" THEN from + e.n ELSE from + 1
NextRun(e, from) == IF e.kind = "interval" THEN from + e.n ELSE (from \div e.n + 1) * e.n

\* It is an error when the calendar has no time within the horizon.
HasNext(e, from) == e.kind = "interval" \/ NextRun(e, from) - from <= Horizon

DueNow(s, now) == s.exists /\ s.active /\ s.next = now
Due(s, now) == s.exists /\ s.active /\ s.next <= now

\* A new id: a row is deleted by an edit only.
NewRow(e, on) ==
  [exists |-> TRUE, active |-> on, expr |-> e, next |-> NextRun(e, clock), id |-> edits]
-----------------------------------------------------------------------------
(* runScheduler on replica r. *)

At(r, pc) == r \in alive /\ w[r].pc = pc
Calm == \A r \in Replica : w[r].pc = "idle"

Tick(r) ==
  /\ At(r, "idle") /\ AcquireSingletonLease(r)
  /\ w' = [w EXCEPT ![r].pc = "list"]
  /\ UNCHANGED <<alive, clock, managed, wf, row, histVars, envVars>>

\* evaluateSchedules: the active rows, and those that are due.
List(r) ==
  /\ At(r, "list")
  /\ w' = [w EXCEPT ![r] = IF Due(row, clock)
                           THEN [pc |-> "fire", row |-> row, now |-> clock] ELSE Idle]
  /\ UNCHANGED <<leaseVars, clock, managed, wf, row, histVars, envVars>>

\* fireSchedule; a run that cannot be created is only logged.
Fire(r) ==
  /\ At(r, "fire")
  /\ w' = [w EXCEPT ![r].pc = "mark"]
  /\ \/ fired' = [fired EXCEPT ![w[r].row.next] = @ + 1] /\ UNCHANGED failures
     \/ failures < CreateErrors /\ failures' = failures + 1 /\ UNCHANGED fired
  /\ UNCHANGED <<leaseVars, clock, managed, wf, row, offAt, raced, edits, statusEdits, cuts>>

\* MarkScheduleFired: next_run_at from the expression that was listed.
Marked(l) == NextRun(l.row.expr, l.now)
Mark(r) ==
  /\ At(r, "mark") /\ HasNext(w[r].row.expr, w[r].now)
  /\ row' = IF row.exists /\ row.id = w[r].row.id
            THEN [row EXCEPT !.next = Marked(w[r])] ELSE row
  /\ w' = [w EXCEPT ![r] = Idle]
  /\ UNCHANGED <<leaseVars, clock, managed, wf, histVars, envVars>>

\* The pass ends with the old next_run_at: the error of that write is ignored, or there
\* is no next time and the row is switched off.
CutShort(r) ==
  /\ At(r, "mark") /\ cuts' = cuts + 1 /\ w' = [w EXCEPT ![r] = Idle]
  /\ UNCHANGED <<leaseVars, clock, managed, wf, histVars, edits, statusEdits, failures>>
MarkFails(r) ==
  HasNext(w[r].row.expr, w[r].now) /\ cuts < MaxCuts /\ CutShort(r) /\ UNCHANGED row
Deactivate(r) ==
  /\ ~HasNext(w[r].row.expr, w[r].now) /\ CutShort(r)
  /\ row' = IF row.exists /\ row.id = w[r].row.id THEN [row EXCEPT !.active = FALSE] ELSE row

Crash(r) ==
  /\ Dies(r) /\ cuts < MaxCuts
  /\ cuts' = cuts + 1 /\ w' = [w EXCEPT ![r] = Idle]
  /\ UNCHANGED <<clock, managed, wf, row, histVars, edits, statusEdits, failures>>

Restart(r) == Returns(r) /\ UNCHANGED <<clock, managed, wf, row, w, histVars, envVars>>
-----------------------------------------------------------------------------
(* The trigger node and its row. *)

\* reconcileSchedule, for every workflow that is not archived and has a schedule
\* trigger with a time to come: a row is created, or what differs in it is changed.
ChangedStatus(e, on) == [row EXCEPT !.active = on]
Changed(e, on) ==
  [row EXCEPT !.expr = e, !.active = on,
              !.next = IF row.expr # e THEN NextRun(e, clock) ELSE @]

ReconcileSchedule ==
  /\ managed /\ \E r \in alive : AcquireSingletonLease(r)
  /\ wf.status # "archived" /\ wf.trigger # Manual /\ HasNext(wf.trigger, clock)
  /\ row' = IF row.exists THEN Changed(wf.trigger, wf.status = "active")
            ELSE NewRow(wf.trigger, wf.status = "active")
  /\ row' # row
  /\ raced' = (raced \/ ~Calm)
  /\ UNCHANGED <<alive, clock, managed, wf, w, fired, offAt, envVars>>

\* A new version, or a new status, of the workflow in the registry.
EditWorkflow ==
  /\ managed /\ edits < Edits /\ edits' = edits + 1
  /\ \/ \E t \in Expr \cup {Manual} :
          /\ wf' = [wf EXCEPT !.trigger = t] /\ UNCHANGED statusEdits
     \/ \E s \in {"draft", "active", "archived"} :
          /\ statusEdits < StatusEdits /\ statusEdits' = statusEdits + 1
          /\ wf' = [wf EXCEPT !.status = s]
  /\ wf' # wf
  /\ UNCHANGED <<leaseVars, clock, managed, row, w, histVars, failures, cuts>>
-----------------------------------------------------------------------------
(* The schedule's API. *)

UserEdit ==
  /\ edits < Edits /\ edits' = edits + 1 /\ raced' = (raced \/ ~Calm)
  /\ UNCHANGED <<leaseVars, clock, managed, wf, w, fired, offAt, statusEdits, failures, cuts>>

CreateSchedule ==
  /\ ~managed /\ ~row.exists
  /\ \E e \in Expr, on \in BOOLEAN : HasNext(e, clock) /\ row' = NewRow(e, on)
  /\ UserEdit

\* updateSchedule: new timing or switching on computes next_run_at anew, if there is one.
UpdateSchedule ==
  /\ row.exists
  /\ \/ \E e \in Expr :
          HasNext(e, clock) /\ row' = [row EXCEPT !.expr = e, !.next = NextRun(e, clock)]
     \/ HasNext(row.expr, clock) /\ row' = [row EXCEPT !.active = TRUE, !.next = NextRun(row.expr, clock)]
     \/ row' = [row EXCEPT !.active = FALSE]
  /\ UserEdit

DeleteSchedule == row.exists /\ row' = NoRow /\ UserEdit

\* Time passes. A due time that comes while a user's row is off is noted.
Advance ==
  /\ clock < MaxClock /\ clock' = clock + 1
  /\ offAt' = IF ~managed /\ row.exists /\ ~row.active /\ row.next = clock + 1
              THEN offAt \cup {clock + 1} ELSE offAt
  /\ UNCHANGED <<leaseVars, managed, wf, row, w, fired, raced, envVars>>

Rest == UNCHANGED <<clock, managed, wf, row, w, histVars, envVars>>

Next ==
  \/ \E r \in Replica :
       \/ Tick(r) \/ List(r) \/ Fire(r) \/ Mark(r) \/ MarkFails(r) \/ Deactivate(r)
       \/ Crash(r) \/ Restart(r)
  \/ LeaseLapses /\ Rest
  \/ ReconcileSchedule \/ EditWorkflow \/ CreateSchedule \/ UpdateSchedule
  \/ DeleteSchedule \/ Advance

Spec == Init /\ [][Next]_vars

\* Tickers tick, leases run out, a dead replica is restarted; users owe nothing.
FairSpec ==
  /\ Spec /\ WF_vars(LeaseLapses /\ Rest) /\ WF_vars(ReconcileSchedule)
  /\ \A r \in Replica :
       /\ WF_vars(Tick(r)) /\ WF_vars(List(r)) /\ WF_vars(Fire(r)) /\ WF_vars(Mark(r))
       /\ WF_vars(Deactivate(r)) /\ WF_vars(Restart(r))
-----------------------------------------------------------------------------
(* Properties. *)

\* A due time starts one run, on however many replicas, however late it is served
\* (server.go:1870: missed ticks "fire once on restart"), and one more at most for
\* each death of the coordinator, each store of next_run_at that failed, and each time
\* the scheduler found no next time and switched the row off (the reconciler switches it
\* on again with the old one); a time that passed while a user had switched the schedule
\* off starts none, ever (server.go:2061: "or reactivated"), unless an edit has come
\* between two steps of the scheduler.
FiresOnce ==
  \A t \in Time : fired[t] <= IF t \in offAt /\ ~raced THEN 0 ELSE 1 + cuts

\* A due time of an active schedule that nobody edits is served in the end, also when
\* the engine was down (server.go:1870: "rather than being silently skipped"), unless
\* its run cannot be created.
NotSkipped ==
  \A t \in Time :
    (Due(row, clock) /\ row.next = t) ~> (fired[t] > 0 \/ edits > 0 \/ failures > 0)

\* What NotSkipped rests on: a due time does not go away. Until its run was started, or
\* could not be created, or an edit came in between, the row stays due at that time
\* (server.go:1870: fired, "rather than being silently skipped").
DueUntilServed ==
  [][Due(row, clock) /\ ~raced =>
       \/ Due(row', clock') /\ row'.next = row.next
       \/ fired[row.next] > 0 \/ failures > 0
       \/ edits' > edits \/ row'.expr # row.expr \/ row'.active # row.active]_vars

\* When no step of the scheduler is under way, next_run_at is a time of the row's
\* own expression (server.go:2061: timing changed, "recompute next_run_at"), unless
\* an edit has come between two steps.
NextMatchesExpr ==
  row.exists /\ Calm /\ ~raced /\ row.expr.kind = "calendar" => row.next % row.expr.n = 0

\* The row of a trigger node ends up as the node says, whatever users do to it through
\* the API (triggers.go:20: the node "is the source of truth"), while it has a time to come.
TriggerNodeWins ==
  <>[](managed /\ wf.status = "active" /\ wf.trigger # Manual /\ HasNext(wf.trigger, clock) =>
         row.exists /\ row.active /\ row.expr = wf.trigger)
=============================================================================
