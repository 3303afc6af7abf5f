------------------------------ MODULE ValueSteps ------------------------------
(***************************************************************************)
(* Templates, and the steps that make a value from the run's context:      *)
(* trigger, set, transform, code, filter and merge                         *)
(* (engine/executor.go, engine/nodes_extra.go).                            *)
(***************************************************************************)
EXTENDS Expressions, Functions

\* A text is a sequence of pieces: words, and expressions between braces.
Literal(s) == <<"words", s>>
Braces(toks) == <<"braces", toks>>
\* A text that is made of pieces; it shows the expressions that came to nothing.
Composed(pieces) == <<"composed", pieces>>

\* resolveTemplate: an expression by itself keeps its type, and stays as it is written
\* when it cannot be read; in a longer text, also when it comes to nil.
Interpolated(piece, ctx) ==
  LET value == EvalExpression(piece[2], ctx)
  IN IF Type(piece) = "words" \/ value \in {Failed, Nil} THEN piece ELSE value
ResolveTemplateAsText(text, ctx) == Composed([i \in DOMAIN text |-> Interpolated(text[i], ctx)])
ResolveTemplate(text, ctx) ==
  LET value == EvalExpression(text[1][2], ctx)
  IN CASE Len(text) = 1 /\ Type(text[1]) = "words" -> Str(text[1][2])
       [] Len(text) = 1 /\ Type(text[1]) = "braces" -> IF value = Failed THEN Composed(text) ELSE value
       [] OTHER -> Composed([i \in DOMAIN text |-> Interpolated(text[i], ctx)])
ResolveInputs(inputs, ctx) == [k \in DOMAIN inputs |-> ResolveTemplate(inputs[k], ctx)]

\* What a step answers: where its run goes, how it ends, what the context gets.
Answers(action, next, outcome, output) == [action |-> action, next |-> next, outcome |-> outcome, output |-> output]
StepError == Answers("ERROR", "", "", <<>>)

\* Required fields, and defaults for those that were not sent: schema[f] has a set of at
\* most one default.
ExecuteTrigger(schema, input, next) ==
  LET defaulted == {f \in DOMAIN schema \ DOMAIN input : schema[f].default # {}}
  IN IF \E f \in DOMAIN schema : schema[f].required /\ f \notin DOMAIN input \cup defaulted THEN StepError
     ELSE Answers("NEXT", next, "", input @@ [f \in defaulted |-> CHOOSE v \in schema[f].default : TRUE])

\* The fields of a set step or the assignments of a code step, or else the step's inputs.
Source(fields, inputs) == IF DOMAIN fields = {} THEN inputs ELSE fields
ExecuteSet(fields, inputs, next, ctx) == Answers("NEXT", next, "", ResolveInputs(Source(fields, inputs), ctx))
ExecuteTransform(outputs, next, ctx) == Answers("NEXT", next, "", ResolveInputs(outputs, ctx))
ExecuteCode(assignments, inputs, next, ctx) ==
  LET source == Source(assignments, inputs)
      value(k) == EvalExpression(source[k], ctx)
  IN IF \E k \in DOMAIN source : value(k) = Failed THEN StepError
     ELSE Answers("NEXT", next, "", [k \in DOMAIN source |-> value(k)])

\* An empty condition passes.
ExecuteFilter(condition, next, onFalse, ctx) ==
  LET passes == condition = <<>> \/ EvaluateCondition(condition, ctx)
  IN IF passes THEN Answers("NEXT", next, "", <<>>)
     ELSE IF onFalse # "" THEN Answers("NEXT", onFalse, "", <<>>) ELSE Answers("END", "", "FILTERED", <<>>)

\* The outputs of those sources that have run; combined, the sources come in whatever
\* order the map is walked in. An object is <<"map", its function>>.
Collected(sources, outputs) == [id \in Range(sources) \cap DOMAIN outputs |-> outputs[id]]
CombineMerged(sources, outputs) ==
  LET merged == Collected(sources, outputs)
      objects == {id \in DOMAIN merged : Type(merged[id]) = "map"}
  IN {FoldLeft(LAMBDA out, id : merged[id][2] @@ out, <<>>, order) : order \in SetToSeqs(objects)}
ExecuteMerge(mode, sources, outputs, next) ==
  IF mode = "combine" THEN {Answers("NEXT", next, "", out) : out \in CombineMerged(sources, outputs)}
  ELSE {Answers("NEXT", next, "", Collected(sources, outputs))}
-----------------------------------------------------------------------------
(* Properties. *)

\* A trigger lets a run start only with what its schema requires, changes nothing it was
\* sent, and is settled: repeated after a crash on its own result, it gives the same.
GuardsItsInput(schema, input, answer) ==
  answer # StepError =>
    /\ {f \in DOMAIN schema : schema[f].required} \subseteq DOMAIN answer.output
    /\ \A f \in DOMAIN input : answer.output[f] = input[f]
    /\ ExecuteTrigger(schema, answer.output, answer.next) = answer

\* A merged object has every key of every source that has run, with the value of one of
\* them: where two sources differ, of either.
HoldsItsSources(sources, outputs, out) ==
  LET ran == {id \in Range(sources) \cap DOMAIN outputs : Type(outputs[id]) = "map"}
  IN /\ DOMAIN out = UNION {DOMAIN outputs[id][2] : id \in ran}
     /\ \A k \in DOMAIN out : \E id \in ran : k \in DOMAIN outputs[id][2] /\ out[k] = outputs[id][2][k]
\* The settings of a code step are what the same text is between braces in a set step.
SaysWhatItSays(toks, code, set) ==
  set.output.x = IF code = StepError THEN Composed(<<Braces(toks)>>) ELSE code.output.x
=============================================================================
