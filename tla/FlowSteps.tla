------------------------------- MODULE FlowSteps -------------------------------
(***************************************************************************)
(* The steps that run other steps: parallel branches (engine/executor.go)  *)
(* and loops (engine/nodes_extra.go). A definition maps a step to its      *)
(* type, the items it fails for, the step whose output it reads and, by    *)
(* item, the next step. A context maps the steps that have run to their    *)
(* outputs: where they come from, in order.                                *)
(***************************************************************************)
EXTENDS Integers, Sequences, SequencesExt, FiniteSetsExt, Functions, TLC

CONSTANTS
  BranchGuard,  \* steps a branch may take: 100 in the code
  BodyGuard,    \* steps a loop body may take: 500
  MaxItems      \* items of a loop that names no limit: 1000

ASSUME LimitsAssumption == {BranchGuard, BodyGuard, MaxItems} \subseteq Nat

NoItem == 0
Nowhere == ""

\* A walk from a step on: where it is, what it sees and has written, its last output.
\* `foreign` is history: it has read an output that it had not written.
Walk(start, ctx, item) ==
  [at |-> start, guard |-> 0, ctx |-> ctx, updates |-> {}, item |-> item, out |-> <<>>,
   done |-> FALSE, err |-> FALSE, foreign |-> FALSE]

Output(def, w) ==
  LET own == IF w.item = NoItem THEN <<w.at>> ELSE <<w.item>>
  IN IF def[w.at].reads \in DOMAIN w.ctx THEN w.ctx[def[w.at].reads] \o own ELSE own
Put(ctx, s, out) == [x \in DOMAIN ctx \cup {s} |-> IF x = s THEN out ELSE ctx[x]]
Ran(def, w) ==
  [w EXCEPT !.guard = @ + 1, !.ctx = Put(w.ctx, w.at, Output(def, w)), !.updates = @ \cup {w.at},
            !.out = Output(def, w),
            !.foreign = @ \/ def[w.at].reads \notin w.updates \cup {Nowhere}]

\* One step of a walk. It ends, with no error, in front of a step that is missing or of a
\* type in `stops`, at home, at its guard, and at a step that ends the run or fails it on
\* purpose. A failure, and a step that pauses the run, are errors.
StepOn(def, w, stops, home, limit) ==
  LET over == w.at \notin DOMAIN def \ {Nowhere} \/ w.at = home \/ w.guard = limit
      step == def[w.at]
  IN CASE over -> [w EXCEPT !.done = TRUE]
       [] ~over /\ step.type \in stops -> [w EXCEPT !.done = TRUE]
       [] ~over /\ step.type = "stop_error" -> [w EXCEPT !.done = TRUE, !.out = <<w.at>>]
       [] ~over /\ w.item \in step.fails -> [w EXCEPT !.done = TRUE, !.err = TRUE]
       [] ~over /\ step.type = "wait" -> [Ran(def, w) EXCEPT !.done = TRUE, !.err = TRUE]
       [] OTHER -> [Ran(def, w) EXCEPT !.at = step.next[w.item]]
\* The walk after each number of steps; at its guard it is over, if not before.
Onward(def, w, stops, home, limit) == IF w.done THEN w ELSE StepOn(def, w, stops, home, limit)
Path(def, w, stops, home, limit) ==
  LET path[n \in 0 .. limit + 1] == IF n = 0 THEN w ELSE Onward(def, path[n - 1], stops, home, limit)
  IN path
WalkThrough(def, w, stops, home, limit) == Path(def, w, stops, home, limit)[limit + 1]
-----------------------------------------------------------------------------
(* Parallel branches: each walks on a copy of the context, in any interleaving, and the *)
(* step waits for all of them. Beside the branches, the order in which they finished.   *)

Fork(starts, ctx) == [branches |-> [b \in DOMAIN starts |-> Walk(starts[b], ctx, NoItem)], finished |-> <<>>]

BranchStep(def, par, b) ==
  LET w == StepOn(def, par.branches[b], {"end", "parallel"}, Nowhere, BranchGuard)
  IN [par EXCEPT !.branches[b] = w, !.finished = IF w.done THEN Append(@, b) ELSE @]

\* The updates of the branches, in their order, those of the failed ones too.
MergeAsFinished(par) == par.finished
MergeOrder(par) == [b \in DOMAIN par.branches |-> b]
Merged(branches, order, ctx, continueOnError) ==
  LET updates(b) == Restrict(branches[b].ctx, branches[b].updates)
      failed == {b \in DOMAIN branches : branches[b].err}
  IN [ctx |-> FoldLeft(LAMBDA c, b : updates(b) @@ c, ctx, order),
      failed |-> failed, ok |-> failed = {} \/ continueOnError]
FanIn(par, ctx, continueOnError) == Merged(par.branches, MergeOrder(par), ctx, continueOnError)
-----------------------------------------------------------------------------
(* Loops: the body runs once for each item, on the run's own context. *)

LoopStart(ctx) == [ctx |-> ctx, results |-> <<>>, errored |-> 0, item |-> NoItem, end |-> "next"]

StopsIfUnrouted(cfg) == ~cfg.continueOnError /\ ~cfg.onError
StopsAtError(cfg) == ~cfg.continueOnError
LoopBody(cfg, acc, item) ==
  LET body == WalkThrough(cfg.def, Walk(cfg.body, acc.ctx, item), {"end", "loop"}, cfg.loop, BodyGuard)
      after == [acc EXCEPT !.ctx = body.ctx, !.item = item]
      entry(err) == [item |-> item, error |-> err, out |-> IF err THEN <<>> ELSE body.out]
  IN CASE acc.end # "next" -> acc
       [] acc.end = "next" /\ ~body.err -> [after EXCEPT !.results = Append(@, entry(FALSE))]
       [] acc.end = "next" /\ body.err /\ StopsAtError(cfg) ->
            [after EXCEPT !.end = IF cfg.onError THEN "routed" ELSE "failed"]
       [] OTHER -> [after EXCEPT !.results = Append(@, entry(TRUE)), !.errored = @ + 1]

\* A loop that is left by an error leaves its item in the context.
Taken(items) == IF MaxItems < Len(items) THEN MaxItems ELSE Len(items)
Laps(cfg, items, ctx) ==
  LET lap[i \in 0 .. Taken(items)] == IF i = 0 THEN LoopStart(ctx) ELSE LoopBody(cfg, lap[i - 1], items[i])
  IN lap
LoopNode(cfg, items, ctx) ==
  LET acc == Laps(cfg, items, ctx)[Taken(items)]
  IN IF acc.end = "next" THEN [acc EXCEPT !.item = NoItem] ELSE acc
-----------------------------------------------------------------------------
(* Properties. *)

\* Whatever the branches do to each other's steps, and in whatever order they run, the
\* step answers as if they had run one after the other, each from the context of the fork.
AsIfInOrder(def, starts, ctx, continueOnError, answer) ==
  LET alone == [b \in DOMAIN starts |->
                  WalkThrough(def, Walk(starts[b], ctx, NoItem), {"end", "parallel"}, Nowhere, BranchGuard)]
  IN answer = FanIn([branches |-> alone, finished |-> [b \in DOMAIN starts |-> b]], ctx, continueOnError)

\* A loop answers for its items in their order: one entry each, up to the limit; the first
\* failure that is not tolerated ends it, and nothing after it has run. A body whose
\* steps read no output but those of their own round gives each item what the item
\* alone would give.
ItemByItem(cfg, items, ctx, answer) ==
  LET alone(i) == WalkThrough(cfg.def, Walk(cfg.body, ctx, items[i]), {"end", "loop"}, cfg.loop, BodyGuard)
      n == Len(answer.results)
      own == \A i \in 1 .. Taken(items) : ~alone(i).foreign
  IN /\ \A i \in 1 .. n : answer.results[i].item = items[i]
     /\ answer.errored = Quantify(1 .. n, LAMBDA i : answer.results[i].error)
     /\ IF answer.end = "next" THEN n = Taken(items) /\ (cfg.continueOnError \/ answer.errored = 0)
        ELSE n < Len(items) /\ alone(n + 1).err /\ answer.errored = 0 /\ ~cfg.continueOnError
     /\ own => \A i \in 1 .. n : /\ answer.results[i].error = alone(i).err
                                 /\ ~alone(i).err => answer.results[i].out = alone(i).out
=============================================================================
