----------------------------- MODULE MCRunEngine -----------------------------
(* Instances of RunEngine: the workflow definitions the runs execute. *)
EXTENDS RunEngine, TLC

CONSTANTS r1, r2, a, b, c, e

Replicas == {r1, r2}
Nodes == {a, b, c, e}

Symmetry == Permutations(Replicas)

None == [n \in Nodes |-> NoNode]

\* A decision node a with two branches; b's failure has an error output, c's is
\* tolerated, and both meet in the end node e.
BranchKind    == [n \in Nodes |-> IF n = e THEN "end" ELSE "step"]
BranchRoutes  == (a :> {b, c}) @@ (b :> {c, e}) @@ (c :> {e}) @@ (e :> {})
BranchFollow  == (a :> b) @@ (b :> c) @@ (c :> e) @@ (e :> NoNode)
BranchOnError == [None EXCEPT ![b] = c]
BranchTolerant == {c}
BranchFallible == {b, c}

\* A step a that may repeat itself, and a task c a person approves (on to the timer b)
\* or sends back to a.
WaitKind   == (a :> "step") @@ (b :> "timer") @@ (c :> "human") @@ (e :> "end")
WaitRoutes == (a :> {a, c}) @@ (b :> {}) @@ (c :> {a, b, NoNode}) @@ (e :> {})
WaitFollow == (a :> c) @@ (b :> e) @@ (c :> NoNode) @@ (e :> NoNode)

\* A step a repeated until the check b lets it go on to e.
LoopNodes  == {a, b, e}
LoopKind   == [n \in LoopNodes |-> IF n = e THEN "end" ELSE "step"]
LoopRoutes == (a :> {b}) @@ (b :> {a, e}) @@ (e :> {})
LoopFollow == (a :> b) @@ (b :> e) @@ (e :> NoNode)
LoopOnError == [n \in LoopNodes |-> NoNode]

\* Two steps with a side effect each, then the stop_error node e.
PairNodes   == {a, b, e}
PairKind    == [n \in PairNodes |-> IF n = e THEN "stop" ELSE "step"]
PairRoutes  == (a :> {b}) @@ (b :> {e}) @@ (e :> {})
PairFollow  == (a :> b) @@ (b :> e) @@ (e :> NoNode)
PairOnError == [n \in PairNodes |-> NoNode]
=============================================================================
