------------------------------ MODULE PollTriggers -----------------------------
(***************************************************************************)
(* A polling trigger: the workflow in the registry, the poll_triggers row  *)
(* the reconciler derives from it, and the loop that fetches the source,   *)
(* drops the items it has seen and starts a run for each new one, on the   *)
(* replica that holds the coordinator lease.                               *)
(***************************************************************************)
EXTENDS Coordinator, Naturals, Sequences, FiniteSets, SequencesExt

CONSTANTS
  Item,           \* what the source may list, by its dedup key
  MaxPerPoll,     \* config.max_per_poll (code: 25)
  Window,         \* config.dedup_window (code: 5000)
  RegistryErrors, \* answers of the registry that may be an error body
  SourceErrors,   \* polls that may fail
  CreateErrors,   \* runs that may fail to be created
  Toggles,        \* times the workflow is switched on or off
  MaxCuts,        \* polls that a crash, or a failed store of the keys, may cut short
  MaxFired        \* runs per item, in models where an item may be fired again

ASSUME PollAssumption ==
  /\ MaxPerPoll \in Nat \ {0} /\ Window \in Nat \ {0}
  /\ \A b \in {RegistryErrors, SourceErrors, CreateErrors, Toggles, MaxCuts, MaxFired} :
       b \in Nat

VARIABLES
  active,    \* registry: the workflow's status is "active"
  fireOnFirst, \* config.fire_on_first
  source,    \* what the source lists, in its order
  row,       \* the poll_triggers row, or NoRow
  w,         \* [Replica -> the trigger loop's position and locals]
  fired,     \* history: runs started per item
  backlog,   \* history: what the source listed when the row was created
  owed,      \* history: items that came after the first poll; all with FireOnFirst
  capped,    \* history: max_per_poll has stopped a poll
  outages,   \* registry answers that were an error body
  errors, failures, toggles, cuts

histVars == <<fireOnFirst, fired, backlog, owed, capped>>
envVars  == <<outages, errors, failures, toggles, cuts>>
vars == <<leaseVars, active, source, row, w, histVars, envVars>>

NoRow == [seen |-> <<>>, polled |-> FALSE, due |-> FALSE, exists |-> FALSE]
NewRow == [seen |-> <<>>, polled |-> FALSE, due |-> TRUE, exists |-> TRUE]
Idle == [pc |-> "idle", rest |-> <<>>, seen |-> <<>>, first |-> FALSE, count |-> 0]

Row == [seen : Seq(Item), polled : BOOLEAN, due : BOOLEAN, exists : BOOLEAN]
Loop == [pc : {"idle", "reconcile", "list", "fetch", "items", "mark"}, rest : Seq(Item),
         seen : Seq(Item), first : BOOLEAN, count : 0 .. MaxPerPoll]

TypeOK ==
  /\ LeaseTypeOK /\ active \in BOOLEAN
  /\ source \in Seq(Item) /\ row \in Row
  /\ w \in [Replica -> Loop]
  /\ fired \in [Item -> Nat] /\ backlog \subseteq Item /\ owed \subseteq Item
  /\ fireOnFirst \in BOOLEAN /\ capped \in BOOLEAN
  /\ outages \in Nat /\ errors \in Nat /\ failures \in Nat /\ toggles \in Nat /\ cuts \in Nat

Init ==
  /\ LeaseInit
  /\ active \in BOOLEAN /\ source \in {<<>>} \cup {<<i>> : i \in Item}
  /\ row = NoRow /\ w = [r \in Replica |-> Idle]
  /\ fired = [i \in Item |-> 0] /\ backlog = {} /\ owed = {}
  /\ fireOnFirst \in BOOLEAN /\ capped = FALSE
  /\ outages = 0 /\ errors = 0 /\ failures = 0 /\ toggles = 0 /\ cuts = 0
-----------------------------------------------------------------------------
(* runTriggerLoop on replica r. *)

At(r, pc) == r \in alive /\ w[r].pc = pc
Goto(r, pc) == w' = [w EXCEPT ![r].pc = pc]

\* A tick: the lease first, then reconcileTriggers on every third one, then the polls.
Tick(r) ==
  /\ At(r, "idle")
  /\ AcquireSingletonLease(r)
  /\ Goto(r, "reconcile") \/ Goto(r, "list")
  /\ UNCHANGED <<alive, active, source, row, histVars, envVars>>

\* reconcileTriggers: an active polling workflow has its row, created without a cursor
\* or kept with the one it has; every other row is pruned. An answer without data
\* prunes them all.
Wanted == active
Prune == row' = NoRow /\ UNCHANGED backlog
Reconcile(r) ==
  /\ At(r, "reconcile")
  /\ \/ Wanted /\ row.exists /\ UNCHANGED <<row, backlog, owed, outages>>
     \/ /\ Wanted /\ ~row.exists
        /\ row' = NewRow /\ backlog' = ToSet(source)
        /\ owed' = IF fireOnFirst THEN ToSet(source) ELSE owed
        /\ UNCHANGED outages
     \/ ~Wanted /\ Prune /\ owed' = {} /\ UNCHANGED outages
     \/ /\ outages < RegistryErrors /\ outages' = outages + 1
        /\ \/ Prune /\ owed' = IF Wanted THEN owed ELSE {}
           \/ UNCHANGED <<row, backlog, owed>>
  /\ Goto(r, "list")
  /\ UNCHANGED <<leaseVars, active, source, fireOnFirst, fired, capped,
                 errors, failures, toggles, cuts>>

\* evaluatePolls: the row as it is now, if it is due.
List(r) ==
  /\ At(r, "list")
  /\ w' = [w EXCEPT ![r] = IF row.exists /\ row.due
                           THEN [Idle EXCEPT !.pc = "fetch", !.seen = row.seen,
                                             !.first = row.seen = <<>> /\ ~row.polled]
                           ELSE Idle]
  /\ UNCHANGED <<leaseVars, active, source, row, histVars, envVars>>

\* MarkPolled, when the row is still there.
MarkPolled(keys) ==
  row' = IF row.exists THEN [row EXCEPT !.seen = keys, !.polled = TRUE, !.due = FALSE] ELSE row

\* PollSource: the items, or an error, which is recorded with the old keys.
Fetch(r) ==
  /\ At(r, "fetch")
  /\ \/ /\ w' = [w EXCEPT ![r].pc = "items", ![r].rest = source]
        /\ UNCHANGED <<row, errors>>
     \/ /\ errors < SourceErrors /\ errors' = errors + 1
        /\ MarkPolled(w[r].seen) /\ w' = [w EXCEPT ![r] = Idle]
  /\ UNCHANGED <<leaseVars, active, source, histVars, outages, failures, toggles, cuts>>

\* One item of the loop: its key is recorded, then it is seeded, dropped by the cap
\* (which ends the loop), or fired; a run that cannot be created is only logged.
SeedsNever(l) == FALSE
Seeds(l) == l.first /\ ~fireOnFirst
CapReached(l) == l.count >= MaxPerPoll
IsSeen(l, i) == i \in ToSet(l.seen)
EachItem(r) ==
  LET l == w[r]
      i == Head(l.rest)
      next == [l EXCEPT !.rest = Tail(@)]
      noted == [next EXCEPT !.seen = Append(@, i)]
  IN /\ At(r, "items") /\ l.rest # <<>>
     /\ \/ /\ IsSeen(l, i)
           /\ w' = [w EXCEPT ![r] = next] /\ UNCHANGED <<fired, failures, capped>>
        \/ /\ ~IsSeen(l, i) /\ Seeds(l)
           /\ w' = [w EXCEPT ![r] = noted] /\ UNCHANGED <<fired, failures, capped>>
        \/ /\ ~IsSeen(l, i) /\ ~Seeds(l) /\ CapReached(l)
           /\ w' = [w EXCEPT ![r] = [noted EXCEPT !.pc = "mark"]]
           /\ capped' = TRUE /\ UNCHANGED <<fired, failures>>
        \/ /\ ~IsSeen(l, i) /\ ~Seeds(l) /\ ~CapReached(l)
           /\ w' = [w EXCEPT ![r] = [noted EXCEPT !.count = @ + 1]]
           /\ \/ fired[i] < MaxFired /\ fired' = [fired EXCEPT ![i] = @ + 1] /\ UNCHANGED failures
              \/ failures < CreateErrors /\ failures' = failures + 1 /\ UNCHANGED fired
           /\ UNCHANGED capped
     /\ UNCHANGED <<leaseVars, active, source, row, fireOnFirst, backlog, owed,
                    outages, errors, toggles, cuts>>

LastKeys(keys) == IF Len(keys) > Window THEN SubSeq(keys, Len(keys) - Window + 1, Len(keys)) ELSE keys

Mark(r) ==
  /\ r \in alive
  /\ w[r].pc = "mark" \/ (w[r].pc = "items" /\ w[r].rest = <<>>)
  /\ MarkPolled(LastKeys(w[r].seen))
  /\ w' = [w EXCEPT ![r] = Idle]
  /\ UNCHANGED <<leaseVars, active, source, histVars, envVars>>

\* The error of that write is ignored: the row stays due, with the keys it had.
MarkFails(r) ==
  /\ r \in alive
  /\ w[r].pc = "mark" \/ (w[r].pc = "items" /\ w[r].rest = <<>>)
  /\ cuts < MaxCuts
  /\ cuts' = cuts + 1 /\ w' = [w EXCEPT ![r] = Idle]
  /\ UNCHANGED <<leaseVars, active, source, row, histVars, outages, errors, failures, toggles>>
-----------------------------------------------------------------------------
(* The world. *)

IntervalPasses ==
  /\ row.exists /\ ~row.due
  /\ row' = [row EXCEPT !.due = TRUE]
  /\ UNCHANGED <<leaseVars, active, source, w, histVars, envVars>>

\* A new item, at either end of what the source lists.
NewItem ==
  /\ \E i \in Item \ ToSet(source) :
       /\ source' \in {<<i>> \o source, Append(source, i)}
       /\ owed' = IF active /\ row.exists /\ (fireOnFirst \/ row.polled) THEN owed \cup {i} ELSE owed
  /\ UNCHANGED <<leaseVars, active, row, w, fireOnFirst, fired, backlog, capped, envVars>>

Toggle ==
  /\ toggles < Toggles
  /\ toggles' = toggles + 1 /\ active' = ~active
  /\ UNCHANGED <<leaseVars, source, row, w, histVars, outages, errors, failures, cuts>>

Crash(r) ==
  /\ Dies(r) /\ cuts < MaxCuts
  /\ cuts' = cuts + 1 /\ w' = [w EXCEPT ![r] = Idle]
  /\ UNCHANGED <<active, source, row, histVars, outages, errors, failures, toggles>>

Restart(r) ==
  /\ Returns(r)
  /\ UNCHANGED <<active, source, row, w, histVars, envVars>>
Next ==
  \/ \E r \in Replica :
       \/ Tick(r) \/ Reconcile(r) \/ List(r) \/ Fetch(r) \/ EachItem(r) \/ Mark(r)
       \/ MarkFails(r) \/ Crash(r) \/ Restart(r)
  \/ LeaseLapses /\ UNCHANGED <<active, source, row, w, histVars, envVars>>
  \/ IntervalPasses \/ NewItem \/ Toggle

Spec == Init /\ [][Next]_vars

\* Tickers tick, leases run out, intervals pass and a dead replica is restarted.
FairSpec ==
  /\ Spec /\ WF_vars(IntervalPasses)
  /\ WF_vars(LeaseLapses /\ UNCHANGED <<active, source, row, w, histVars, envVars>>)
  /\ \A r \in Replica :
       /\ WF_vars(Tick(r)) /\ WF_vars(Reconcile(r)) /\ WF_vars(List(r)) /\ WF_vars(Fetch(r))
       /\ WF_vars(EachItem(r)) /\ WF_vars(Mark(r)) /\ WF_vars(Restart(r))
-----------------------------------------------------------------------------
(* Properties. *)

\* An item starts one run, on however many replicas (docs/workflows.md:133: "a run per
\* new item"; triggers.go:213: otherwise "every replica would double-fire"), and one
\* more for each replica that died between the start and the store of the seen keys,
\* and for each such store that failed (its error is ignored, triggers.go:420).
\* A row that was pruned has forgotten its keys: made anew, it starts its items again
\* with fire_on_first, or after a first poll that failed.
Forgotten == toggles + outages > 0 /\ (fireOnFirst \/ errors > 0)
FiredOnce == Forgotten \/ \A i \in Item : fired[i] <= 1 + cuts

\* What the source listed when the trigger was enabled starts nothing (triggers.go:398:
\* "enabling a trigger doesn't replay the entire existing backlog"), as long as no
\* poll has failed.
BacklogNotReplayed ==
  [][~fireOnFirst /\ errors = 0 => \A i \in backlog : fired'[i] = fired[i]]_fired

\* The code's known ways to drop an item: the cap of a poll, a run that could not be
\* created, a row pruned on an error answer of the registry.
Dropped == capped \/ failures > 0 \/ outages > 0

\* Apart from these, an item that came after the first poll, or any item with
\* fire_on_first, is not recorded as seen unless a run was started for it
\* (docs/workflows.md:133).
NothingSkipped == Dropped \/ \A i \in owed : i \in ToSet(row.seen) => fired[i] > 0

\* Both together: a new item that counts as seen has a run, and only one.
OneRunPerItem == FiredOnce /\ NothingSkipped

\* Such an item does start its run in the end, whatever polls fail and replicas die.
NewItemsFire ==
  \A i \in Item : (i \in owed) ~> (fired[i] > 0 \/ i \notin owed \/ Dropped)
=============================================================================
