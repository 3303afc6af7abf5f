------------------------------- MODULE PureCalls -------------------------------
(***************************************************************************)
(* Calls of the functions that compute on their arguments alone: the next  *)
(* run of a schedule, a parallel step, a loop, the validation of a         *)
(* definition. A call is made and then answered; the branches of a         *)
(* parallel step are goroutines and run in any order in between.           *)
(***************************************************************************)
EXTENDS CronTimes, FlowSteps, Validation

CONSTANTS
  CronExpressions,  \* records of fields: minute, hour, dom, month, dow
  Clocks,           \* the HH:MM of daily schedules, as pairs
  Froms,            \* the times from which the next run is asked for
  ParallelSteps,    \* records [def, starts, ctx, tolerant]
  LoopSteps,        \* records [cfg, items, ctx]
  Definitions       \* sequences of steps to validate

ASSUME TimesAssumption ==
  /\ CronExpressions \subseteq CronExpression
  /\ Clocks \subseteq Int \X Int /\ Froms \subseteq Nat
ASSUME LoopsAssumption ==
  \A l \in LoopSteps : Nowhere \notin DOMAIN l.ctx /\ l.items \in Seq(Range(l.items)) /\ {l.cfg.continueOnError, l.cfg.onError} \subseteq BOOLEAN
ASSUME DefinitionsAssumption == \A def \in Definitions : def \in Seq(Range(def))

VARIABLES
  call,    \* the function called and its arguments
  result,  \* <<>>, then the answer
  par      \* the branches of a parallel step, while they run

pureVars == <<call, result, par>>

Asked(f) == call[1] = f /\ result = <<>>
Answered(f) == call[1] = f /\ result # <<>>
Answer(v) == result' = <<v>> /\ UNCHANGED <<call, par>>
-----------------------------------------------------------------------------
PureCallsInit ==
  /\ result = <<>>
  /\ \/ /\ par = <<>>
        /\ \/ \E e \in CronExpressions, from \in Froms : call = <<"cron", e, from>>
           \/ \E clock \in Clocks, from \in Froms : call = <<"daily", clock, from>>
           \/ \E l \in LoopSteps : call = <<"loop", l>>
           \/ \E def \in Definitions : call = <<"validate", def>>
     \/ \E p \in ParallelSteps : call = <<"parallel", p>> /\ par = Fork(p.starts, p.ctx)

NextCronAnswers == Asked("cron") /\ Answer(NextCron(call[2], call[3]))
NextDailyAnswers == Asked("daily") /\ Answer(NextDaily(UTC, call[2][1], call[2][2], call[3]))

BranchGoesOn ==
  /\ Asked("parallel")
  /\ \E b \in DOMAIN par.branches : ~par.branches[b].done /\ par' = BranchStep(call[2].def, par, b)
  /\ UNCHANGED <<call, result>>
FanInAnswers ==
  /\ Asked("parallel") /\ \A b \in DOMAIN par.branches : par.branches[b].done
  /\ Answer(FanIn(par, call[2].ctx, call[2].tolerant))
LoopAnswers == Asked("loop") /\ Answer(LoopNode(call[2].cfg, call[2].items, call[2].ctx))

ValidateAnswers == Asked("validate") /\ Answer(Validate(call[2]))

PureCallsNext == \/ NextCronAnswers \/ NextDailyAnswers \/ BranchGoesOn \/ FanInAnswers
                 \/ LoopAnswers \/ ValidateAnswers
PureCallsSpec == PureCallsInit /\ [][PureCallsNext]_pureVars
-----------------------------------------------------------------------------
\* A schedule fires at the first instant after now that its expression names, and at no
\* other, on the clock of UTC: see IsNextCron and IsNextDaily (schedule.go:21 NextRun).
NextRunIsTheFirst ==
  /\ Answered("cron") => IsNextCron(call[2], call[3], result[1])
  /\ Answered("daily") => IsNextDaily(UTC, call[2][1], call[2][2], call[3], result[1])

\* Branches run as if one after the other, in their order: the answer does not depend on
\* how they interleave, even where two of them run the same step (executor.go:2007).
BranchesDoNotInterfere ==
  Answered("parallel") => AsIfInOrder(call[2].def, call[2].starts, call[2].ctx, call[2].tolerant, result[1])

\* A loop does for every item, in order, what it would do for that item alone
\* (nodes_extra.go:142 executeLoop).
LoopsGoItemByItem == Answered("loop") => ItemByItem(call[2].cfg, call[2].items, call[2].ctx, result[1])

\* A definition found valid starts in one place and runs as drawn, unless the engine refuses
\* a step for a reason the registry does not look at; and no warning is false: see Vouches
\* (registry/handlers/validate.go:57 Validate).
ValidationVouches == Answered("validate") => Vouches(call[2], result[1])
=============================================================================
