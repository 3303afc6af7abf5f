----------------------------- MODULE MCHumanReview -----------------------------
(* Instances of HumanReview: two sign-offs in a row, and a revision loop. *)
EXTENDS HumanReview, TLC

CONSTANTS draft, review, sign, done, yes, no

\* review, then sign; a refused review ends at done.
ChainNodes  == {review, sign, done}
ChainHumans == {review, sign}
ChainFollow == (review :> sign) @@ (sign :> done) @@ (done :> NoNode)
ChainMap    == (review :> (yes :> NoNode @@ no :> done))
               @@ (sign :> (yes :> done @@ no :> NoNode))

\* One sign-off with one answer.
OneNodes  == {review, done}
OneHumans == {review}
OneFollow == (review :> done) @@ (done :> NoNode)
OneMap    == (review :> (no :> done))

\* draft, review; a refused draft goes back.
LoopNodes  == {draft, review, done}
LoopHumans == {review}
LoopFollow == (draft :> review) @@ (review :> NoNode) @@ (done :> NoNode)
LoopMap    == (review :> (yes :> done @@ no :> draft))
=============================================================================
