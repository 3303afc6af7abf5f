------------------------------ MODULE RunEngine ------------------------------
(***************************************************************************)
(* One workflow run, executed by a cluster of engine replicas that share   *)
(* the run's database row: processRun with its lease, its checkpoints and  *)
(* its node loop, and everything that starts it or writes the same row     *)
(* (restart recovery, lease reclaim, human-task callbacks, the timer loop, *)
(* a user's cancel).                                                       *)
(*                                                                         *)
(* A step is one database access of the code: between two of them another  *)
(* replica, a callback, a user or a crash may step in.                     *)
(***************************************************************************)
EXTENDS Naturals, FiniteSets

CONSTANTS
  Replica,        \* engine processes sharing the database
  Node, NoNode,   \* the definition's nodes; NoNode is the empty next id
  Unset,          \* no checkpoint stored for a node
  Free, Departed, \* lease_owner = '' ; an owner id no live process has
  Start,          \* the trigger node
  Kind,           \* [Node -> {"step", "human", "timer", "end", "stop"}]
  Routes,         \* [Node -> SUBSET (Node \cup {NoNode})]: where it may lead
  Follow,         \* [Node -> Node \cup {NoNode}]: step.Next
  OnError,        \* [Node -> Node \cup {NoNode}]: config.on_error
  Tolerant,       \* nodes with config.continue_on_error
  Fallible,       \* nodes whose execution may return an error
  LoopLimit       \* node steps of one pass before it is aborted (code: 1000)

CONSTANTS         \* the environment: what may go wrong, and how often
  StableIds,      \* ENGINE_INSTANCE_ID set: a restart keeps the lease owner id
  RegistryOutage, \* GetDefinition may fail
  MaxStalls,      \* heartbeats and coordinator ticks later than their TTL
  MaxDuplicates,  \* human decisions delivered more often than tasks were created
  MaxCrashes, MaxDbErrors, MaxCancels, MaxDeliveries, MaxQueue

Kinds    == {"step", "human", "timer", "end", "stop"}
Terminal == {"COMPLETED", "FAILED", "CANCELLED"}
Waiting  == {"WAITING_HUMAN", "WAITING_TIMER"}
Status   == {"PENDING", "RUNNING"} \cup Waiting \cup Terminal
Mark     == {"none", "waiting", "waited"}
NextId   == Node \cup {NoNode}
Ckpt     == [Node -> NextId \cup {Unset}]

ASSUME DefinitionAssumption ==
  /\ NoNode \notin Node /\ Unset \notin NextId /\ Start \in Node
  /\ Kind \in [Node -> Kinds]
  /\ Routes \in [Node -> SUBSET NextId]
  /\ Follow \in [Node -> NextId] /\ OnError \in [Node -> NextId]
  /\ Tolerant \subseteq Node /\ Fallible \subseteq Node
  /\ \A n \in Node : Kind[n] = "step" => Routes[n] # {}

ASSUME EnvironmentAssumption ==
  /\ Replica # {} /\ Free \notin Replica /\ Departed \notin Replica /\ Free # Departed
  /\ StableIds \in BOOLEAN /\ RegistryOutage \in BOOLEAN
  /\ LoopLimit \in Nat
  /\ \A b \in {MaxStalls, MaxDuplicates, MaxCrashes, MaxDbErrors, MaxCancels,
              MaxDeliveries, MaxQueue} :
       b \in Nat

VARIABLES
  status, current, ckpt, mark,  \* the row: status, current_node, context
  owner, lease,                 \* the row: lease_owner, lease_expires_at
  up, recover, queue,           \* process: alive, start-up scan due, queued starts
  pc, lost, w,                  \* its worker: position, leaseLost, locals
  rpc, rw,                      \* its resume goroutine: position, locals
  fired, arrivals, orphaned,    \* history: what the properties talk about
  lateFires,
  stalls, crashes, dbErrors, cancels, deliveries \* bounds on the environment

rowVars   == <<status, current, ckpt, mark>>
leaseVars == <<owner, lease>>
hostVars  == <<up, recover, queue>>
workVars  == <<pc, lost, w>>
waitVars  == <<rpc, rw>>
histVars  == <<fired, arrivals, orphaned, lateFires>>
envVars   == <<stalls, crashes, dbErrors, cancels, deliveries>>
vars == <<rowVars, leaseVars, hostVars, workVars, waitVars, histVars, envVars>>

PcValues  == {"idle", "claimed", "begin", "top", "enter", "clear", "attempt",
              "call", "record", "finish", "release"}
RpcValues == {"idle", "hload", "hroute", "hgo", "tmark", "tgo"}
Act       == {"NEXT", "WAIT", "END", "FAIL", "ERROR"}

\* Nodes whose execution another system sees.
Effectful(n) == Kind[n] \in {"step", "human"}

\* The locals of processRun, and of the two resume paths.
Locals  == [cur : NextId, ckpt : Ckpt, mark : [Node -> Mark], pending : BOOLEAN,
            fresh : BOOLEAN, skipped : SUBSET Node, steps : Nat,
            act : Act, to : NextId, verdict : Status]
RLocals == [node : NextId, ckpt : Ckpt, mark : [Node -> Mark], to : NextId]

NoCkpt   == [n \in Node |-> Unset]
NoMark   == [n \in Node |-> "none"]
Locals0  == [cur |-> NoNode, ckpt |-> NoCkpt, mark |-> NoMark, pending |-> FALSE,
             fresh |-> FALSE, skipped |-> {}, steps |-> 0,
             act |-> "NEXT", to |-> NoNode, verdict |-> "FAILED"]
RLocals0 == [node |-> NoNode, ckpt |-> NoCkpt, mark |-> NoMark, to |-> NoNode]

TypeOK ==
  /\ status \in Status /\ current \in NextId
  /\ ckpt \in Ckpt /\ mark \in [Node -> Mark]
  /\ owner \in Replica \cup {Free, Departed} /\ lease \in {"none", "live", "expired"}
  /\ up \in [Replica -> BOOLEAN] /\ recover \in [Replica -> BOOLEAN]
  /\ queue \in [Replica -> Nat]
  /\ pc \in [Replica -> PcValues] /\ lost \in [Replica -> BOOLEAN]
  /\ w \in [Replica -> Locals]
  /\ rpc \in [Replica -> RpcValues] /\ rw \in [Replica -> RLocals]
  /\ fired \in [Node -> Nat] /\ arrivals \in [Node -> Nat] /\ orphaned \in [Node -> Nat]
  /\ lateFires \in [Replica -> Nat]
  /\ stalls \in Nat /\ crashes \in Nat /\ dbErrors \in Nat /\ cancels \in Nat
  /\ deliveries \in [Node -> Nat]

\* createRun has inserted the row and one replica has queued its first start.
Init ==
  /\ status = "PENDING" /\ current = NoNode /\ ckpt = NoCkpt /\ mark = NoMark
  /\ owner = Free /\ lease = "none"
  /\ up = [r \in Replica |-> TRUE] /\ recover = [r \in Replica |-> FALSE]
  /\ \E creator \in Replica :
       queue = [r \in Replica |-> IF r = creator THEN 1 ELSE 0]
  /\ pc = [r \in Replica |-> "idle"] /\ lost = [r \in Replica |-> FALSE]
  /\ w = [r \in Replica |-> Locals0]
  /\ rpc = [r \in Replica |-> "idle"] /\ rw = [r \in Replica |-> RLocals0]
  /\ fired = [n \in Node |-> 0] /\ orphaned = [n \in Node |-> 0]
  /\ arrivals = [n \in Node |-> IF n = Start THEN 1 ELSE 0]
  /\ lateFires = [r \in Replica |-> 0]
  /\ stalls = 0 /\ crashes = 0 /\ dbErrors = 0 /\ cancels = 0
  /\ deliveries = [n \in Node |-> 0]
-----------------------------------------------------------------------------
(* Starting a run on a replica, and the lease. *)

\* startRunInBackground's goroutine gets past lockRun (one worker per run and
\* process) and calls ClaimRun, which succeeds on a free, own or expired lease.
ClaimableAnyLease(r) == TRUE
Claimable(r) == owner \in {Free, r} \/ lease \in {"none", "expired"}

Claim(r) ==
  /\ up[r] /\ queue[r] > 0 /\ pc[r] = "idle" /\ Claimable(r)
  /\ queue' = [queue EXCEPT ![r] = @ - 1]
  /\ owner' = r /\ lease' = "live"
  /\ pc' = [pc EXCEPT ![r] = "claimed"]
  /\ lost' = [lost EXCEPT ![r] = FALSE]
  /\ w' = [w EXCEPT ![r] = Locals0]
  /\ lateFires' = [lateFires EXCEPT ![r] = 0]
  /\ UNCHANGED <<rowVars, up, recover, waitVars, fired, arrivals, orphaned, envVars>>

\* The claim is refused, or its UPDATE fails: the start is dropped.
Skip(r) ==
  /\ up[r] /\ queue[r] > 0 /\ pc[r] = "idle"
  /\ \/ ~Claimable(r) /\ UNCHANGED dbErrors
     \/ dbErrors < MaxDbErrors /\ dbErrors' = dbErrors + 1
  /\ queue' = [queue EXCEPT ![r] = @ - 1]
  /\ UNCHANGED <<rowVars, leaseVars, up, recover, workVars, waitVars, histVars,
                 stalls, crashes, cancels, deliveries>>

\* A tick of the heartbeat goroutine: it extends the lease while this replica
\* owns it; a lost lease or a failed UPDATE sets leaseLost and ends the ticks.
Heartbeat(r) ==
  /\ pc[r] # "idle" /\ ~lost[r]
  /\ IF owner = r THEN lease' = "live" /\ UNCHANGED lost
                  ELSE lost' = [lost EXCEPT ![r] = TRUE] /\ UNCHANGED lease
  /\ UNCHANGED <<rowVars, owner, hostVars, pc, w, waitVars, histVars, envVars>>

HeartbeatError(r) ==
  /\ pc[r] # "idle" /\ ~lost[r] /\ dbErrors < MaxDbErrors
  /\ dbErrors' = dbErrors + 1
  /\ lost' = [lost EXCEPT ![r] = TRUE]
  /\ UNCHANGED <<rowVars, leaseVars, hostVars, pc, w, waitVars, histVars,
                 stalls, crashes, cancels, deliveries>>

\* RUN_LEASE_TTL_SECONDS pass without a heartbeat of the owner: it has none, or
\* it stalls (a paused VM, a blocked database).
Expire ==
  /\ lease = "live"
  /\ \/ owner \notin Replica /\ UNCHANGED stalls
     \/ owner \in Replica /\ (pc[owner] = "idle" \/ lost[owner]) /\ UNCHANGED stalls
     \/ stalls < MaxStalls /\ stalls' = stalls + 1
  /\ lease' = "expired"
  /\ UNCHANGED <<rowVars, owner, hostVars, workVars, waitVars, histVars,
                 crashes, dbErrors, cancels, deliveries>>

\* reclaimExpiredRuns: every replica's trigger loop, every 20 seconds.
Reclaim(r) ==
  /\ up[r] /\ status = "RUNNING" /\ lease = "expired" /\ queue[r] < MaxQueue
  /\ queue' = [queue EXCEPT ![r] = @ + 1]
  /\ UNCHANGED <<rowVars, leaseVars, up, recover, workVars, waitVars, histVars, envVars>>

\* The deferred ReleaseRun, whatever the run's status. Only the owner can release.
ReleasesAnyLease(r) == TRUE
Releases(r) == owner = r

Release(r) ==
  /\ pc[r] = "release"
  /\ pc' = [pc EXCEPT ![r] = "idle"]
  /\ IF Releases(r) THEN owner' = Free /\ lease' = "none" ELSE UNCHANGED leaseVars
  /\ UNCHANGED <<rowVars, hostVars, lost, w, waitVars, histVars, envVars>>

\* Worker r has executed its node and not stored the result: the checkpoint of a
\* step, the WAITING_HUMAN status of a task.
Unrecorded(r) ==
  /\ w[r].cur # NoNode /\ w[r].act # "ERROR"
  /\ \/ pc[r] = "record" /\ Effectful(w[r].cur)
     \/ pc[r] = "finish" /\ Kind[w[r].cur] = "human"

\* The process dies: its goroutines and queued starts are gone, the row stays.
\* A node that finished without its checkpoint stored is orphaned.
Crash(r) ==
  /\ up[r] /\ crashes < MaxCrashes
  /\ crashes' = crashes + 1
  /\ up' = [up EXCEPT ![r] = FALSE] /\ recover' = [recover EXCEPT ![r] = FALSE]
  /\ queue' = [queue EXCEPT ![r] = 0]
  /\ pc' = [pc EXCEPT ![r] = "idle"] /\ lost' = [lost EXCEPT ![r] = FALSE]
  /\ w' = [w EXCEPT ![r] = Locals0]
  /\ rpc' = [rpc EXCEPT ![r] = "idle"] /\ rw' = [rw EXCEPT ![r] = RLocals0]
  /\ owner' = IF owner = r /\ ~StableIds THEN Departed ELSE owner
  /\ orphaned' = IF Unrecorded(r)
                 THEN [orphaned EXCEPT ![w[r].cur] = @ + 1] ELSE orphaned
  /\ UNCHANGED <<rowVars, lease, fired, arrivals, lateFires, stalls, dbErrors, cancels,
                 deliveries>>

Restart(r) ==
  /\ ~up[r]
  /\ up' = [up EXCEPT ![r] = TRUE] /\ recover' = [recover EXCEPT ![r] = TRUE]
  /\ UNCHANGED <<rowVars, leaseVars, queue, workVars, waitVars, histVars, envVars>>

\* resumeInFlightRuns, once, two seconds after a start.
InFlightRunningOnly == {"RUNNING"}
InFlight == {"PENDING", "RUNNING"}

ResumeInFlight(r) ==
  /\ up[r] /\ recover[r] /\ queue[r] < MaxQueue
  /\ recover' = [recover EXCEPT ![r] = FALSE]
  /\ queue' = [queue EXCEPT ![r] = @ + IF status \in InFlight THEN 1 ELSE 0]
  /\ UNCHANGED <<rowVars, leaseVars, up, workVars, waitVars, histVars, envVars>>
-----------------------------------------------------------------------------
(* processRun: the prologue. *)

WorkerOnly == UNCHANGED <<leaseVars, hostVars, lost, waitVars, envVars>>
ThenSettle(r, verdict) ==       \* the pass ends with this status write
  /\ pc' = [pc EXCEPT ![r] = "finish"]
  /\ w' = [w EXCEPT ![r].verdict = verdict]

\* Where a pass starts: the stored node, or the trigger.
StartNodeAlwaysTrigger == Start
StartNode == IF current = NoNode THEN Start ELSE current

\* GetRunByID and GetDefinition.
Load(r) ==
  /\ pc[r] = "claimed"
  /\ \/ /\ status \in Terminal
        /\ pc' = [pc EXCEPT ![r] = "release"] /\ UNCHANGED w
     \/ status \notin Terminal /\ RegistryOutage /\ ThenSettle(r, "FAILED")
     \/ /\ status \notin Terminal
        /\ pc' = [pc EXCEPT ![r] = "begin"]
        /\ w' = [w EXCEPT ![r].cur = StartNode,
                          ![r].pending = (status = "PENDING")]
  /\ UNCHANGED <<rowVars, histVars>> /\ WorkerOnly

\* The status write of a fresh run, decided by the status read in Load, and
\* GetRunContext. A run that is WAITING_* by now is executed like any other.
Begin(r) ==
  /\ pc[r] = "begin"
  /\ status' = IF w[r].pending THEN "RUNNING" ELSE status
  /\ w' = [w EXCEPT ![r].ckpt = ckpt, ![r].mark = mark]
  /\ pc' = [pc EXCEPT ![r] = "top"]
  /\ UNCHANGED <<current, ckpt, mark, histVars>> /\ WorkerOnly
-----------------------------------------------------------------------------
(* processRun: the node loop. *)

\* The worker has a reason to stop: for the history lateFires only, which must not
\* depend on what the code checks.
Told(r) == status = "CANCELLED" \/ lost[r]

\* The checks at the head of the loop: cancelled, or the lease is gone.
StoppedIgnoresLease(r) == status = "CANCELLED"
Stopped(r) == status = "CANCELLED" \/ lost[r]

LoopTop(r) ==
  /\ pc[r] = "top"
  /\ \/ /\ Stopped(r)
        /\ pc' = [pc EXCEPT ![r] = "release"] /\ UNCHANGED w
     \/ /\ ~Stopped(r) /\ w[r].steps = LoopLimit
        /\ ThenSettle(r, "FAILED")
     \/ /\ ~Stopped(r) /\ w[r].steps < LoopLimit
        /\ pc' = [pc EXCEPT ![r] = "enter"]
        /\ w' = [w EXCEPT ![r].steps = @ + 1]
  /\ lateFires' = IF Told(r) THEN lateFires ELSE [lateFires EXCEPT ![r] = 0]
  /\ UNCHANGED <<rowVars, fired, arrivals, orphaned>> /\ WorkerOnly

\* A read of the row fails: GetRunByID ends the pass, and isRunCancelled says no.
ReadError(r) ==
  /\ dbErrors < MaxDbErrors /\ dbErrors' = dbErrors + 1
  /\ \/ pc[r] = "claimed" /\ pc' = [pc EXCEPT ![r] = "release"] /\ UNCHANGED w
     \/ /\ pc[r] = "top" /\ ~lost[r] /\ w[r].steps < LoopLimit
        /\ pc' = [pc EXCEPT ![r] = "enter"]
        /\ w' = [w EXCEPT ![r].steps = @ + 1]
     \/ pc[r] = "attempt" /\ pc' = [pc EXCEPT ![r] = "call"] /\ UNCHANGED w
  /\ UNCHANGED <<rowVars, leaseVars, hostVars, lost, waitVars, histVars,
                 stalls, crashes, cancels, deliveries>>

\* checkpointedNext: node n's result is in the context this pass works on.
CheckpointedNever(r, n) == FALSE
Checkpointed(r, n) == w[r].ckpt[n] # Unset

\* Its checkpoint is left from an earlier visit: this pass has executed a node,
\* or has skipped n before.
Revisited(r, n) == w[r].fresh \/ n \in w[r].skipped

\* The current_node write, then: execute, clear first, or skip along the edge.
Enter(r) ==
  LET n == w[r].cur
      next == w[r].ckpt[n]
  IN /\ pc[r] = "enter"
     /\ current' = n
     /\ \/ /\ ~Checkpointed(r, n)
           /\ pc' = [pc EXCEPT ![r] = "attempt"] /\ UNCHANGED w
        \/ /\ Checkpointed(r, n) /\ Revisited(r, n)
           /\ pc' = [pc EXCEPT ![r] = "clear"] /\ UNCHANGED w
        \/ /\ Checkpointed(r, n) /\ ~Revisited(r, n)
           /\ IF next = NoNode THEN ThenSettle(r, "COMPLETED")
              ELSE /\ pc' = [pc EXCEPT ![r] = "top"]
                   /\ w' = [w EXCEPT ![r].cur = next, ![r].skipped = @ \cup {n}]
     /\ UNCHANGED <<status, ckpt, mark, histVars>> /\ WorkerOnly

\* clearCheckpoint and SetRunContext.
Clear(r) ==
  /\ pc[r] = "clear"
  /\ w' = [w EXCEPT ![r].ckpt[w[r].cur] = Unset]
  /\ ckpt' = w'[r].ckpt /\ mark' = w[r].mark
  /\ pc' = [pc EXCEPT ![r] = "attempt"]
  /\ UNCHANGED <<status, current, histVars>> /\ WorkerOnly

\* executeNodeWithPolicy: the cancel check before an attempt.
Attempt(r) ==
  /\ pc[r] = "attempt"
  /\ IF status = "CANCELLED"
     THEN /\ pc' = [pc EXCEPT ![r] = "record"]
          /\ w' = [w EXCEPT ![r].act = "ERROR", ![r].to = NoNode]
     ELSE pc' = [pc EXCEPT ![r] = "call"] /\ UNCHANGED w
  /\ UNCHANGED <<rowVars, histVars>> /\ WorkerOnly

\* What ExecuteNode may return for node n, given the timer marks of the context.
Results(n, marks) ==
  (CASE Kind[n] = "step"  -> {<<"NEXT", m>> : m \in Routes[n]}
     [] Kind[n] = "human" -> {<<"WAIT", NoNode>>}
     [] Kind[n] = "timer" -> IF marks[n] = "waited" THEN {<<"NEXT", Follow[n]>>}
                             ELSE {<<"WAIT", NoNode>>}
     [] Kind[n] = "end"   -> {<<"END", NoNode>>}
     [] Kind[n] = "stop"  -> {<<"FAIL", NoNode>>})
  \cup (IF n \in Fallible THEN {<<"ERROR", NoNode>>} ELSE {})

\* ExecuteNode: the side effect happens here, and nothing is stored yet.
Call(r) ==
  /\ pc[r] = "call"
  /\ \E res \in Results(w[r].cur, w[r].mark) :
       /\ w' = [w EXCEPT ![r].act = res[1], ![r].to = res[2]]
       /\ IF res[1] # "ERROR" /\ Effectful(w[r].cur)
          THEN /\ fired' = [fired EXCEPT ![w[r].cur] = @ + 1]
               /\ lateFires' = [lateFires EXCEPT
                    ![r] = @ + IF Told(r) THEN 1 ELSE 0]
          ELSE UNCHANGED <<fired, lateFires>>
  /\ pc' = [pc EXCEPT ![r] = "record"]
  /\ UNCHANGED <<rowVars, arrivals, orphaned>> /\ WorkerOnly

\* SetRunContext with the checkpoint n -> m, then on to m (or to the end).
Advance(r, n, m) ==
  /\ ckpt' = [w[r].ckpt EXCEPT ![n] = m] /\ mark' = w[r].mark
  /\ IF m = NoNode
     THEN /\ pc' = [pc EXCEPT ![r] = "finish"]
          /\ w' = [w EXCEPT ![r].ckpt = ckpt', ![r].fresh = TRUE, ![r].verdict = "COMPLETED"]
          /\ UNCHANGED arrivals
     ELSE /\ pc' = [pc EXCEPT ![r] = "top"]
          /\ w' = [w EXCEPT ![r].ckpt = ckpt', ![r].fresh = TRUE, ![r].cur = m]
          /\ arrivals' = [arrivals EXCEPT ![m] = @ + 1]

RecordNext(r) ==
  /\ pc[r] = "record" /\ w[r].act = "NEXT"
  /\ Advance(r, w[r].cur, w[r].to)
  /\ UNCHANGED <<status, current, fired, orphaned, lateFires>> /\ WorkerOnly

\* A failed node with an error output takes that edge.
RecordErrorRoute(r) ==
  /\ pc[r] = "record" /\ w[r].act = "ERROR" /\ OnError[w[r].cur] # NoNode
  /\ Advance(r, w[r].cur, OnError[w[r].cur])
  /\ UNCHANGED <<status, current, fired, orphaned, lateFires>> /\ WorkerOnly

\* A failed node with continue_on_error goes on, storing no checkpoint and
\* leaving freshExecution as it was.
RecordTolerated(r) ==
  LET n == w[r].cur
  IN /\ pc[r] = "record" /\ w[r].act = "ERROR" /\ OnError[n] = NoNode /\ n \in Tolerant
     /\ ckpt' = w[r].ckpt /\ mark' = w[r].mark
     /\ IF Follow[n] = NoNode
        THEN ThenSettle(r, "COMPLETED") /\ UNCHANGED arrivals
        ELSE /\ pc' = [pc EXCEPT ![r] = "top"]
             /\ w' = [w EXCEPT ![r].cur = Follow[n]]
             /\ arrivals' = [arrivals EXCEPT ![Follow[n]] = @ + 1]
     /\ UNCHANGED <<status, current, fired, orphaned, lateFires>> /\ WorkerOnly

RecordFailure(r) ==
  LET n == w[r].cur
  IN /\ pc[r] = "record" /\ w[r].act = "ERROR" /\ OnError[n] = NoNode /\ n \notin Tolerant
     /\ ckpt' = w[r].ckpt /\ mark' = w[r].mark
     /\ ThenSettle(r, "FAILED")
     /\ UNCHANGED <<status, current, histVars>> /\ WorkerOnly

\* The status of a paused run.
PauseStatusUntyped(n) == "WAITING"
PauseStatus(n) == IF Kind[n] = "timer" THEN "WAITING_TIMER" ELSE "WAITING_HUMAN"

\* WAIT: a timer's context update stores its resume time; a human task has none.
RecordWait(r) ==
  LET n == w[r].cur
      timer == Kind[n] = "timer"
  IN /\ pc[r] = "record" /\ w[r].act = "WAIT"
     /\ ckpt' = IF timer THEN w[r].ckpt ELSE ckpt
     /\ mark' = IF timer THEN [w[r].mark EXCEPT ![n] = "waiting"] ELSE mark
     /\ ThenSettle(r, PauseStatus(n))
     /\ UNCHANGED <<status, current, histVars>> /\ WorkerOnly

RecordEnd(r) ==
  /\ pc[r] = "record" /\ w[r].act \in {"END", "FAIL"}
  /\ ThenSettle(r, IF w[r].act = "END" THEN "COMPLETED" ELSE "FAILED")
  /\ UNCHANGED <<rowVars, histVars>> /\ WorkerOnly

\* The status write that ends a pass: unconditional, whatever the row holds now.
Finish(r) ==
  /\ pc[r] = "finish"
  /\ status' = w[r].verdict
  /\ pc' = [pc EXCEPT ![r] = "release"]
  /\ UNCHANGED <<current, ckpt, mark, w, histVars>> /\ WorkerOnly

Worker(r) ==
  \/ Load(r) \/ Begin(r) \/ LoopTop(r) \/ Enter(r) \/ Clear(r) \/ Attempt(r) \/ Call(r)
  \/ RecordNext(r) \/ RecordErrorRoute(r) \/ RecordTolerated(r) \/ RecordFailure(r)
  \/ RecordWait(r) \/ RecordEnd(r) \/ Finish(r)
-----------------------------------------------------------------------------
(* Waking a paused run, and cancelling one. *)

ResumerOnly == UNCHANGED <<leaseVars, up, recover, workVars, histVars>>

\* taskCompleteCallback (or reconcileStuckHumanTasks) starts resumeFromHumanTask
\* for a task some execution of node n created: the status check.
Deliver(r) ==
  /\ up[r] /\ rpc[r] = "idle"
  /\ \E n \in Node :
       /\ Kind[n] = "human" /\ fired[n] > 0
       /\ deliveries[n] < MaxDeliveries /\ deliveries[n] < fired[n] + MaxDuplicates
       /\ deliveries' = [deliveries EXCEPT ![n] = @ + 1]
       /\ IF status = "WAITING_HUMAN"
          THEN /\ rpc' = [rpc EXCEPT ![r] = "hload"]
               /\ rw' = [rw EXCEPT ![r] = [RLocals0 EXCEPT !.node = n]]
          ELSE UNCHANGED waitVars
  /\ UNCHANGED <<rowVars, queue, stalls, crashes, dbErrors, cancels>> /\ ResumerOnly

\* GetRunContext, and SetRunContext of the same with the decision added.
HumanLoad(r) ==
  /\ rpc[r] = "hload"
  /\ rw' = [rw EXCEPT ![r].ckpt = ckpt, ![r].mark = mark]
  /\ rpc' = [rpc EXCEPT ![r] = "hroute"]
  /\ UNCHANGED <<rowVars, queue, envVars>> /\ ResumerOnly

\* GetDefinition, the decision's edge, clearCheckpoint of its target and
\* SetRunContext; without an edge the run fails.
HumanRoute(r) ==
  /\ rpc[r] = "hroute"
  /\ \/ /\ RegistryOutage \/ NoNode \in Routes[rw[r].node]
        /\ status' = "FAILED"
        /\ rpc' = [rpc EXCEPT ![r] = "idle"] /\ UNCHANGED <<ckpt, mark, rw>>
     \/ \E m \in Routes[rw[r].node] \ {NoNode} :
          /\ rw' = [rw EXCEPT ![r].to = m]
          /\ ckpt' = [rw[r].ckpt EXCEPT ![m] = Unset] /\ mark' = rw[r].mark
          /\ rpc' = [rpc EXCEPT ![r] = "hgo"] /\ UNCHANGED status
  /\ UNCHANGED <<current, queue, envVars>> /\ ResumerOnly

\* The unconditional RUNNING write and startRunInBackground.
WakeNodeSame(r) == rw[r].node
WakeNode(r) == rw[r].to

HumanGo(r) ==
  /\ rpc[r] = "hgo" /\ queue[r] < MaxQueue
  /\ status' = "RUNNING" /\ current' = WakeNode(r)
  /\ arrivals' = [arrivals EXCEPT ![rw[r].to] = @ + 1]
  /\ queue' = [queue EXCEPT ![r] = @ + 1]
  /\ rpc' = [rpc EXCEPT ![r] = "idle"]
  /\ UNCHANGED <<ckpt, mark, rw, leaseVars, up, recover, workVars,
                 fired, orphaned, lateFires, envVars>>

\* resumeDueTimers on the coordinator: the list, the context, the due time. The
\* coordinator lease lasts 90 seconds; a tick that outlives it may overlap.
TimerScan(r) ==
  /\ up[r] /\ rpc[r] = "idle" /\ status = "WAITING_TIMER"
  /\ \/ (\A s \in Replica : rpc[s] \notin {"tmark", "tgo"}) /\ UNCHANGED stalls
     \/ stalls < MaxStalls /\ stalls' = stalls + 1
  /\ current # NoNode /\ mark[current] # "none"
  /\ rw' = [rw EXCEPT ![r] = [RLocals0 EXCEPT !.node = current, !.ckpt = ckpt, !.mark = mark]]
  /\ rpc' = [rpc EXCEPT ![r] = "tmark"]
  /\ UNCHANGED <<rowVars, queue, crashes, dbErrors, cancels, deliveries>> /\ ResumerOnly

TimerMark(r) ==
  /\ rpc[r] = "tmark"
  /\ ckpt' = rw[r].ckpt /\ mark' = [rw[r].mark EXCEPT ![rw[r].node] = "waited"]
  /\ rpc' = [rpc EXCEPT ![r] = "tgo"]
  /\ UNCHANGED <<status, current, rw, queue, envVars>> /\ ResumerOnly

TimerGo(r) ==
  /\ rpc[r] = "tgo" /\ queue[r] < MaxQueue
  /\ status' = "RUNNING"
  /\ queue' = [queue EXCEPT ![r] = @ + 1]
  /\ rpc' = [rpc EXCEPT ![r] = "idle"]
  /\ UNCHANGED <<current, ckpt, mark, rw, envVars>> /\ ResumerOnly

\* cancelRun: CancelRun writes the status whatever it was.
Cancel ==
  /\ cancels < MaxCancels
  /\ cancels' = cancels + 1
  /\ status' = "CANCELLED"
  /\ UNCHANGED <<current, ckpt, mark, leaseVars, hostVars, workVars, waitVars, histVars,
                 stalls, crashes, dbErrors, deliveries>>

Resumer(r) == HumanLoad(r) \/ HumanRoute(r) \/ HumanGo(r) \/ TimerMark(r) \/ TimerGo(r)

Next ==
  \/ \E r \in Replica :
       \/ Claim(r) \/ Skip(r) \/ Heartbeat(r) \/ HeartbeatError(r) \/ ReadError(r) \/ Reclaim(r)
       \/ Release(r) \/ Crash(r) \/ Restart(r) \/ ResumeInFlight(r)
       \/ Worker(r) \/ Deliver(r) \/ TimerScan(r) \/ Resumer(r)
  \/ Expire \/ Cancel

Spec == Init /\ [][Next]_vars

\* Goroutines run, tickers tick, and an operator (or a supervisor) restarts a
\* process that died. Users and databases owe nothing.
Fairness ==
  /\ \A r \in Replica :
       /\ WF_vars(Claim(r) \/ Skip(r)) /\ WF_vars(Worker(r)) /\ WF_vars(Release(r))
       /\ WF_vars(Heartbeat(r)) /\ WF_vars(Reclaim(r)) /\ WF_vars(Resumer(r))
       /\ WF_vars(Restart(r)) /\ WF_vars(ResumeInFlight(r)) /\ WF_vars(TimerScan(r))
  /\ WF_vars(Expire)

FairSpec == Spec /\ Fairness
-----------------------------------------------------------------------------
(* Properties. *)

\* While heartbeats are punctual and the database answers them, at most one
\* replica is between ClaimRun and ReleaseRun (server.go:366: "exactly one
\* replica executes this run"), across crashes, reclaims, restarts and wakes.
ExclusiveWorker ==
  \A r, s \in Replica : pc[r] # "idle" /\ pc[s] # "idle" => r = s

\* Its inductive form: whoever is working owns a live lease.
WorkerOwnsLease ==
  \A r \in Replica :
    pc[r] # "idle" => up[r] /\ owner = r /\ lease = "live" /\ ~lost[r]

\* A run in flight is not forgotten: someone works on it, or the owner of its lease will
\* start it again, or it is free and somebody will; and a RUNNING run has a lease that can
\* expire (server.go:1850: "durable across restarts"). It needs owner ids
\* that survive a restart (ENGINE_INSTANCE_ID) and a run nobody has to wake.
WillStart(r) == ~up[r] \/ recover[r] \/ queue[r] > 0
RunIsHeld ==
  /\ status \in {"PENDING", "RUNNING"} =>
       \/ \E r \in Replica : pc[r] \notin {"idle", "release"}
       \/ owner \in Replica /\ WillStart(owner)
       \/ owner = Free /\ \E r \in Replica : WillStart(r)
  /\ status = "RUNNING" => owner # Free /\ lease # "none"

\* A live lease changes hands only when its owner lets go of it or dies, also
\* when heartbeats stall and late workers release or heartbeat (leasing.go).
LiveLeaseNotStolen ==
  [][lease = "live" /\ owner' # owner =>
       \/ owner' = Free /\ pc[owner] = "release" /\ pc'[owner] = "idle"
       \/ owner' = Departed /\ up[owner] /\ ~up'[owner]
       \/ owner = Free]_<<owner, lease>>

\* A node others see (a call to another system, a task for a person) runs once
\* per arrival at it: once more only for an execution whose process died before
\* its result was stored. In particular a branch nobody was routed to never runs
\* (checkpoints, server.go:501-528; resume, server.go:1850-1852).
FiredOncePerArrival ==
  \A n \in Node : Effectful(n) => fired[n] <= arrivals[n] + orphaned[n]

\* A worker whose run is cancelled, or whose lease is known to be lost, lets at most
\* the node it is in take effect, and one more for every look that the database did not
\* answer, unless the run is live again when it looks next (server.go:212, 309, 464, 472):
\* lateFires counts since the last look without a reason.
StopsWithinOneNode == \A r \in Replica : lateFires[r] <= 1 + dbErrors

\* The cluster implements the sequential run of WorkflowRun: current_node walks
\* the definition's edges and the status never leaves a terminal value.
Sequential == INSTANCE WorkflowRun
  WITH status <- status, current <- current, Node <- Node, NoNode <- NoNode, Start <- Start,
       Kind <- Kind, Routes <- Routes, Follow <- Follow, OnError <- OnError, Tolerant <- Tolerant
SequentialRun == Sequential!Spec

\* A started run comes to rest, again after every wake: it ends, or waits for a person.
Settles == []<>(status \in Terminal \cup {"WAITING_HUMAN"})
=============================================================================
