----------------------------- MODULE WorkflowRun -----------------------------
(***************************************************************************)
(* What a run promises its author: one position that walks the drawn       *)
(* edges, a status that only moves forward, and an end that is final -     *)
(* with no replicas, leases, checkpoints or crashes. RunEngine is shown to *)
(* implement it.                                                           *)
(***************************************************************************)
CONSTANTS Node, NoNode, Start, Kind, Routes, Follow, OnError, Tolerant

VARIABLES status, current

vars == <<status, current>>

Terminal == {"COMPLETED", "FAILED", "CANCELLED"}

\* The nodes an execution of n may lead to: a route, its error output, or, for
\* a tolerated failure, the plain next step. NoNode ends the run.
Successors(n) == Routes[n]
                 \cup (IF OnError[n] # NoNode THEN {OnError[n]} ELSE {})
                 \cup (IF n \in Tolerant \/ Kind[n] = "timer" THEN {Follow[n]} ELSE {})

Init == status = "PENDING" /\ current = NoNode

Begin == status = "PENDING" /\ status' = "RUNNING" /\ UNCHANGED current

Enter(n) ==
  /\ status = "RUNNING"
  /\ n \in IF current = NoNode THEN {Start} ELSE Successors(current)
  /\ current' = n /\ UNCHANGED status

Pause ==
  /\ status = "RUNNING" /\ current # NoNode
  /\ \/ Kind[current] = "human" /\ status' = "WAITING_HUMAN"
     \/ Kind[current] = "timer" /\ status' = "WAITING_TIMER"
  /\ UNCHANGED current

\* A decision moves the run along one of the task's edges; a timer just ends.
Wake ==
  /\ status' = "RUNNING"
  /\ \/ status = "WAITING_HUMAN" /\ current' \in Routes[current] \ {NoNode}
     \/ status = "WAITING_TIMER" /\ UNCHANGED current

Complete ==
  /\ status = "RUNNING" /\ current # NoNode
  /\ Kind[current] = "end" \/ NoNode \in Successors(current)
  /\ status' = "COMPLETED" /\ UNCHANGED current

Fail == status \notin Terminal /\ status' = "FAILED" /\ UNCHANGED current

Cancel == status \notin Terminal /\ status' = "CANCELLED" /\ UNCHANGED current

Next == Begin \/ (\E n \in Node : Enter(n)) \/ Pause \/ Wake \/ Complete \/ Fail \/ Cancel

Spec == Init /\ [][Next]_vars
=============================================================================
