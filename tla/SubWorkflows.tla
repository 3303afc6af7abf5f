------------------------------ MODULE SubWorkflows ------------------------------
(***************************************************************************)
(* Runs that start runs: a sub_workflow step creates a child run, which    *)
(* competes for the same slots as its parent and executes whatever         *)
(* definition the registry has when it gets one. The step is retried by    *)
(* the node's policy, gives up at a deadline, and is repeated after a      *)
(* crash; the id of the child lives in a local variable of the attempt.    *)
(*                                                                         *)
(* A definition is one step here. One engine process; leases and           *)
(* checkpoints are RunEngine's subject.                                    *)
(***************************************************************************)
EXTENDS Registry, Sequences

CONSTANTS
  MaxDepth,      \* maxSubWorkflowDepth (code: 8)
  Slots,         \* MAX_CONCURRENT_RUNS
  Attempts,      \* config.retries + 1 of the steps
  NodeTimeout,   \* the steps set config.timeout, which also bounds each attempt
  WaitForHuman,  \* the steps set config.wait_for_human
  MaxArrivals,   \* runs started from outside
  RestartLimit,  \* runs of one status that a restart reads (code: 500)
  MaxFaults      \* lookups of a workflow or a run that fail, cancels, and crashes

ASSUME SubWorkflowAssumption ==
  /\ MaxDepth \in Nat /\ Slots \in Nat \ {0} /\ Attempts \in Nat \ {0} /\ RestartLimit \in Nat \ {0}
  /\ NodeTimeout \in BOOLEAN /\ WaitForHuman \in BOOLEAN
  /\ \A b \in {MaxArrivals, MaxFaults} : b \in Nat
  /\ \A d \in Definition : d.kind \in {"plain", "human", "sync", "async"}
                           /\ d.callee \in Workflow \cup {NoWorkflow}

VARIABLES
  runs,   \* the run rows, in the order they were created
  work,   \* the goroutine of each run
  orphans, \* attempts the timeout abandoned on their way to StartRun: rows to be
  passed, \* history: the runs in flight that the last restart did not read
  up, arrivals, faults, crashes

engineVars == <<runs, work, orphans, passed, up, arrivals, faults, crashes>>
vars == <<registryVars, engineVars>>

Ids == 1 .. Len(runs)
Terminal == {"COMPLETED", "FAILED", "CANCELLED"}
Rest == Terminal \cup {"WAITING_HUMAN"}
RunRow == [workflow : Workflow, depth : Nat, parent : Nat,
           status : {"PENDING", "RUNNING", "WAITING_HUMAN"} \cup Terminal,
           answered : BOOLEAN]   \* its human task has been completed
\* What StartRun has been asked to store; a step may name no workflow.
Orphan == [workflow : Workflow \cup {NoWorkflow}, depth : Nat, parent : Nat,
           status : {"PENDING"}, answered : BOOLEAN]
Holding == {"start", "poll"}
Work == [pc : {"none", "queued"} \cup Holding, def : Definition \cup {NoDefinition},
         left : 0 .. Attempts, child : Nat]
NoWork == [pc |-> "none", def |-> NoDefinition, left |-> Attempts, child |-> 0]
Queued == [NoWork EXCEPT !.pc = "queued"]

TypeOK ==
  /\ RegistryTypeOK
  /\ runs \in Seq(RunRow) /\ work \in Seq(Work) /\ Len(work) = Len(runs)
  /\ orphans \in Seq(Orphan) /\ passed \subseteq Ids
  /\ up \in BOOLEAN
  /\ arrivals \in Nat /\ faults \in Nat /\ crashes \in Nat

Init ==
  /\ RegistryInit
  /\ runs = <<>> /\ work = <<>> /\ orphans = <<>> /\ passed = {} /\ up = TRUE
  /\ arrivals = 0 /\ faults = 0 /\ crashes = 0
-----------------------------------------------------------------------------
(* Starting runs. *)

\* CreateRun and startRunInBackground.
Started(rs, ws, r) ==
  /\ runs' = Append(rs, r) /\ work' = Append(ws, Queued)

NewRunRow(w, depth, parent) ==
  [workflow |-> w, depth |-> depth, parent |-> parent, status |-> "PENDING", answered |-> FALSE]

Arrive ==
  /\ up /\ arrivals < MaxArrivals /\ arrivals' = arrivals + 1
  /\ \E w \in DOMAIN row : Started(runs, work, NewRunRow(w, 0, 0))
  /\ UNCHANGED <<registryVars, orphans, passed, up, faults, crashes>>

Ends(i, verdict) ==
  runs' = [runs EXCEPT ![i].status = verdict] /\ work' = [work EXCEPT ![i] = NoWork]

Fault == faults < MaxFaults /\ faults' = faults + 1
EngineOnly == UNCHANGED <<registryVars, passed, up, arrivals, crashes>>

\* A goroutine gets a slot and processRun comes to the step: a terminal run is left
\* alone, a definition that cannot be fetched fails it; a step that needs no other run
\* is done at once, and the slot is free again.
HasSlot == Cardinality({i \in Ids : work[i].pc \in Holding}) < Slots
Pass(i) ==
  LET d == Get(runs[i].workflow)
      live == runs[i].status \notin Terminal
      Is(k) == live /\ d # NoDefinition /\ d.kind = k
  IN /\ work[i].pc = "queued" /\ HasSlot
     /\ \/ ~live /\ work' = [work EXCEPT ![i] = NoWork] /\ UNCHANGED <<runs, faults>>
        \/ live /\ Fault /\ Ends(i, "FAILED")
        \/ live /\ d = NoDefinition /\ Ends(i, "FAILED") /\ UNCHANGED faults
        \/ /\ Is("plain") \/ (Is("human") /\ runs[i].answered)
           /\ Ends(i, "COMPLETED") /\ UNCHANGED faults
        \/ /\ Is("human") /\ ~runs[i].answered
           /\ Ends(i, "WAITING_HUMAN") /\ UNCHANGED faults
        \/ /\ Is("sync") \/ Is("async")
           /\ runs' = [runs EXCEPT ![i].status = "RUNNING"]
           /\ work' = [work EXCEPT ![i].pc = "start", ![i].def = d]
           /\ UNCHANGED faults
     /\ UNCHANGED orphans /\ EngineOnly
-----------------------------------------------------------------------------
(* The step. *)

\* executeNodeWithPolicy after an attempt that failed: the next one, or the run fails.
MoreAttemptsOneExtra(i) == work[i].left > 0
MoreAttempts(i) == work[i].left > 1
Fails(i) ==
  IF MoreAttempts(i)
  THEN work' = [work EXCEPT ![i].pc = "start", ![i].left = @ - 1, ![i].child = 0] /\ UNCHANGED runs
  ELSE Ends(i, "FAILED")

\* The depth the run's input carries.
TooDeep(i) == runs[i].depth >= MaxDepth

\* What StartRun stores for the child of run i.
ChildDepth(i) == runs[i].depth + 1
Child(i) == NewRunRow(work[i].def.callee, ChildDepth(i), i)

\* An attempt: a cancelled run gets none and fails; then the depth, and StartRun: the
\* registry knows the workflow, CreateRun, startRunInBackground. An async step is done
\* then.
Start(i) ==
  LET cancelled == runs[i].status = "CANCELLED"
      sync == work[i].def.kind = "sync"
      known == Get(work[i].def.callee) # NoDefinition
  IN /\ work[i].pc = "start"
     /\ \/ cancelled /\ Ends(i, "FAILED") /\ UNCHANGED faults
        \/ ~cancelled /\ (TooDeep(i) \/ ~known) /\ Fails(i) /\ UNCHANGED faults
        \/ ~cancelled /\ ~TooDeep(i) /\ Fault /\ Fails(i)
        \/ /\ ~cancelled /\ ~TooDeep(i) /\ known /\ UNCHANGED faults
           /\ Started([runs EXCEPT ![i].status = IF sync THEN @ ELSE "COMPLETED"],
                      [work EXCEPT ![i] = IF sync THEN [@ EXCEPT !.pc = "poll", !.child = Len(runs) + 1]
                                          ELSE NoWork],
                      Child(i))
     /\ UNCHANGED orphans /\ EngineOnly

\* A look at the child, which may fail.
Succeeded(c) == runs[c].status = "COMPLETED"
Refused(c) == \/ runs[c].status \in {"FAILED", "CANCELLED"}
              \/ runs[c].status = "WAITING_HUMAN" /\ ~WaitForHuman
Poll(i) ==
  /\ work[i].pc = "poll"
  /\ \/ Succeeded(work[i].child) /\ Ends(i, "COMPLETED") /\ UNCHANGED faults
     \/ ~Succeeded(work[i].child) /\ Refused(work[i].child) /\ Fails(i) /\ UNCHANGED faults
     \/ Fault /\ Fails(i)
  /\ UNCHANGED orphans /\ EngineOnly

\* config.timeout (10 minutes by default) passes while the child is neither; where the
\* node sets it, it also ends the attempt before StartRun has answered, which then
\* goes on without anybody to tell.
DeadlineNever(i) == FALSE
Deadline(i) == work[i].pc = "poll" /\ ~Succeeded(work[i].child) /\ ~Refused(work[i].child)
GiveUp(i) ==
  /\ \/ Deadline(i) /\ UNCHANGED orphans
     \/ /\ NodeTimeout /\ work[i].pc = "start" /\ ~TooDeep(i)
        /\ orphans' = Append(orphans, Child(i))
  /\ Fails(i)
  /\ UNCHANGED faults /\ EngineOnly

LateStart ==
  /\ orphans # <<>> /\ orphans' = Tail(orphans)
  /\ IF Get(Head(orphans).workflow) = NoDefinition THEN UNCHANGED <<runs, work>>
     ELSE Started(runs, work, Head(orphans))
  /\ UNCHANGED faults /\ EngineOnly
-----------------------------------------------------------------------------
(* People, and the process. *)

\* A person completes the task of a waiting run, which starts again.
Answer(i) ==
  /\ up /\ runs[i].status = "WAITING_HUMAN"
  /\ runs' = [runs EXCEPT ![i].status = "RUNNING", ![i].answered = TRUE]
  /\ work' = [work EXCEPT ![i] = Queued]
  /\ UNCHANGED <<orphans, faults>> /\ EngineOnly

Cancel(i) ==
  /\ up /\ Fault
  /\ runs' = [runs EXCEPT ![i].status = "CANCELLED"]
  /\ UNCHANGED <<work, orphans>> /\ EngineOnly

\* The process, which is the registry's too (app.go), dies with its goroutines and
\* its queue; started again, it queues the runs that were in flight, parents and
\* children alike, up to RestartLimit of each status, the newest.
Crash ==
  /\ up /\ Fault /\ crashes' = crashes + 1
  /\ up' = FALSE /\ work' = [i \in Ids |-> NoWork] /\ orphans' = <<>>
  /\ RegistryDies
  /\ UNCHANGED <<runs, passed, arrivals>>

InFlight == {i \in Ids : runs[i].status \in {"PENDING", "RUNNING"}}
PassedOver(i) == Cardinality({j \in Ids : j > i /\ runs[j].status = runs[i].status}) >= RestartLimit
Restart ==
  /\ ~up /\ up' = TRUE
  /\ passed' = {i \in InFlight : PassedOver(i)}
  /\ work' = [i \in Ids |-> IF i \in InFlight /\ ~PassedOver(i) THEN Queued ELSE NoWork]
  /\ UNCHANGED <<registryVars, runs, orphans, arrivals, faults, crashes>>

Engine ==
  \/ \E i \in Ids : Pass(i) \/ Start(i) \/ Poll(i) \/ GiveUp(i)
  \/ LateStart \/ Restart

Next ==
  \/ Arrive \/ Engine \/ Crash
  \/ \E i \in Ids : Answer(i) \/ Cancel(i)
  \/ up /\ RegistryNext /\ UNCHANGED engineVars

Spec == Init /\ [][Next]_vars

\* The engine's goroutines go on and a dead process is restarted; the rest owes nothing.
\* Every behaviour of the engine is finite, so fairness for all of its steps together
\* is enough: slots are handed out in the order they were asked for.
FairSpec == Spec /\ WF_vars(Engine)
-----------------------------------------------------------------------------
(* Properties. *)

\* The tree under a run is bounded in both directions. A run has one child per attempt,
\* and its attempts again for every crash: nothing else starts children, and none of
\* these starts two. And chains end at the limit (docs/workflows.md:122: "Nesting stops
\* at eight levels"), also when workflows come to call each other in a circle while
\* they run.
ChildrenBounded ==
  LET level[i \in Ids] == IF runs[i].parent = 0 THEN 0 ELSE 1 + level[runs[i].parent]
  IN \A i \in Ids :
       /\ Cardinality({j \in Ids : runs[j].parent = i}) <= Attempts * (1 + crashes)
       /\ level[i] <= MaxDepth

\* What ComesToRest rests on. While the process is up, every run in flight has a
\* goroutine (server.go:1850: "durable across restarts"), but for those the restart
\* passed over, which takes more than RestartLimit runs; and a step waits for a run it
\* created itself, later than its own: waits form no circle, so somebody can go on.
NobodyIsForgotten ==
  /\ up => \A i \in InFlight \ passed : work[i].pc # "none"
  /\ passed # {} => Len(runs) > RestartLimit
  /\ \A i \in Ids : work[i].pc = "poll" =>
       /\ work[i].child \in Ids /\ work[i].child > i
       /\ runs[work[i].child].parent = i

\* Everything comes to rest, although a parent keeps its slot while its child waits
\* for one (subworkflow.go:129, background.go:82).
ComesToRest == <>[](\A i \in Ids : runs[i].status \in Rest)
=============================================================================
