----------------------------- MODULE MCSubWorkflows -----------------------------
(* Instances of SubWorkflows: two workflows that may come to call each other. *)
EXTENDS SubWorkflows, TLC

CONSTANTS outer, inner

Def(kind, callee) == [kind |-> kind, callee |-> callee]
Plain == Def("plain", NoWorkflow)

\* outer calls inner, which has to be created first.
Definitions == {Plain, Def("human", NoWorkflow), Def("sync", inner), Def("async", outer)}
AtFirst == outer :> Def("sync", inner)
=============================================================================
