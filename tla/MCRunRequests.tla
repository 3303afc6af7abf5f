----------------------------- MODULE MCRunRequests -----------------------------
(* Instances of RunRequests: the keys are interchangeable. *)
EXTENDS RunRequests, TLC

Symmetry == Permutations(Key)
=============================================================================
