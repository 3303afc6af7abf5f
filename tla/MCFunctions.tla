------------------------------ MODULE MCFunctions ------------------------------
(* What one step of a workflow does: calls of the engine's functions on small inputs,  *)
(* one per behaviour, given and then answered; parallel branches, interleaved; and the *)
(* attempts of a step that calls another system.                                       *)
EXTENDS PureCalls, Expressions, DataNodes, NodeCalls, Decisions, Connectors

vars == <<pureVars, callVars, decisionVars>>
Give(v) == Answer(v) /\ UNCHANGED <<callVars, decisionVars>>
-----------------------------------------------------------------------------
(* Schedules. *)

DayFields(lo, hi) == {{Star}, {Every(Star, 2)}, {FromTo(lo, lo + 1)}, {FromTo(lo, lo), Every(FromTo(lo, hi), 3)}}
MCCronExpressions ==
  [minute : {{Star}, {FromTo(1, 1)}, {Every(Star, 2)}}, hour : {{Star}, {FromTo(1, 1)}},
   dom : DayFields(1, 31) \cup {{FromTo(29, 29)}, {FromTo(30, 31)}, {FromTo(3, 32)}},
   month : {{Star}, {FromTo(2, 2)}}, dow : DayFields(0, 6) \cup {{FromTo(1, 0)}}]
\* Around midnight, the end of February, of a leap February, and of the year.
MCFroms == {Day * d + s : d \in {0, 58, 364, 1095 + 59}, s \in {0, Day \div 2, Day - 1}}
MCClocks == (0 .. Hours) \X (0 .. Minutes)

-----------------------------------------------------------------------------
(* Expressions and conditions. *)

Context == [a |-> Num(2), b |-> Str("x")]
Operands == {Lit(Num(1)), Lit(Str("")), Id("a"), Id("missing")}
Operators == {"||", "&&", "==", ">=", "??", "+", "-", "*"}
Pairs == {Binary(op, l, r) : op \in Operators, l \in Operands, r \in Operands}
         \cup {Unary(op, e) : op \in {"!", "-"}, e \in Operands}
CallExpression == \/ \E op \in Operators, e \in Pairs, f \in Operands : 
                       call = <<"expression", Binary(op, e, f)>> \/ call = <<"expression", Binary(op, f, e)>>
                  \/ \E e \in Pairs : call = <<"expression", Unary("-", e)>>
                  \/ \E e \in Pairs, l \in Operands, f \in {"default", "coalesce", "if", "abs"} :
                       call = <<"expression", Binary("+", l, Call(f, <<l, e, l>>))>>
                  \/ \E e \in Pairs \cup Operands : call = <<"expression", e>>
ExpressionAnswers == Asked("expression")
  /\ Give([value |-> EvalExpression(Written(call[2]), Context),
             condition |-> EvaluateCondition(Written(call[2]), Context)])
\* An expression evaluates to what its tree means, with the usual precedence and
\* grouping; a condition made of plain operands, one comparison, `&&` or `||` decides as
\* the same text does as an expression (expr_eval.go:153 parseExpr, executor.go:2338
\* evaluateCondition).
ExpressionsMeanWhatIsWritten == Answered("expression") =>
  /\ result[1].value = Meaning(call[2], Context)
  /\ Simple(call[2], Context) => result[1].condition = IsTruthy(Meaning(call[2], Context))
-----------------------------------------------------------------------------
(* Data steps. *)

\* "1", 1, "10", 9, "x", "y" and a missing field.
Values == {Missing, NumberOf(1, 1), TextOf(1, 1), TextOf(2, 10), NumberOf(5, 9), PlainText(6), PlainText(7)}
Groups == {Missing, NumberOf(1, 1), TextOf(1, 1)}
Items(values, groups) ==
  UNION {{[i \in 1 .. n |-> [id |-> i, value |-> v[i], group |-> g[i]]] :
            v \in [1 .. n -> values], g \in [1 .. n -> groups]} : n \in 0 .. 3}

CallList ==
  \/ \E items \in Items(Values, {Missing}), desc \in BOOLEAN : call = <<"sort", items, desc>>
  \/ \E items \in Items(Values, {Missing}), count \in -1 .. 3, fromEnd \in BOOLEAN :
       call = <<"limit", items, count, fromEnd>>
  \/ \E items \in Items({Missing, NumberOf(1, 1), NumberOf(5, 9)}, Groups) : call = <<"group", items>>
SortAnswers == Asked("sort") /\ Give(SortItems(call[2], call[3]))
LimitAnswers == Asked("limit")
  /\ Give([covers |-> PagesCover(call[2], call[3], call[4]), kept |-> DedupeItems(call[2])])
GroupAnswers == Asked("group") /\ Give(GroupRows("sum", call[2]))
\* A sort is the stable sort its author expects.
SortIsRight ==
  Answered("sort") => IsSortOf(call[2], call[3], result[1])
\* No item is lost, kept twice or counted twice: by pages, without duplicates, or in
\* groups.
ItemsAreAccountedFor ==
  /\ Answered("limit") => result[1].covers /\ DuplicatesOnly(call[2], result[1].kept)
  /\ Answered("group") => GroupsAddUp(call[2], result[1])
CallDateTime ==
  \/ \E d \in 700 .. 1200, s \in {0, Seconds, Day - 1}, unit \in {"hour", "day", "week", "month", "year"},
       offset \in {0, Seconds * Minutes} : call = <<"start_of", Day * d + s, unit, offset>>
  \/ \E d \in 700 .. 1200, n \in {-13, -1, 1, 2, 12} : call = <<"shift", Day * d + 1, n>>
StartOfAnswers == Asked("start_of") /\ Give(StartOf(call[2], call[3], call[4]))
ShiftAnswers == Asked("shift") /\ Give(ShiftTime(call[2], call[3], "month"))
\* Starts of periods are starts, and months are shifted by whole months.
DatesAreRight ==
  /\ Answered("start_of") => IsStartOf(call[2], call[3], call[4], result[1])
  /\ Answered("shift") => KeepsItsDay(call[2], call[3], result[1])
-----------------------------------------------------------------------------
(* Steps that make a value. *)

Inputs == {<<>>} \cup [{"a"} -> {Num(2), Nil}] \cup [{"a", "b"} -> {Num(2), Str("x")}]
Schemas == [{"a"} -> [required : BOOLEAN, default : {{}, {Str("x")}}]]
CallValueStep ==
  \/ \E schema \in Schemas, input \in Inputs : call = <<"trigger", schema, input>>
  \/ \E e \in Pairs, cut \in BOOLEAN :
       call = <<"settings", IF cut THEN Front(Written(e)) ELSE Written(e)>>
  \/ \E e \in Pairs \cup Operands, onFalse \in {"", "no"} : call = <<"filter", e, onFalse>>
  \/ \E mode \in {"combine", "object"}, sources \in {<<"b", "a">>, <<"a", "c", "b", "a">>}, 
       a \in Inputs, b \in {<<"map", i>> : i \in Inputs} \cup {Nil} :
       call = <<"merge", mode, sources, ("a" :> <<"map", a>>) @@ ("b" :> b)>>
TriggerAnswers == Asked("trigger") /\ Give(ExecuteTrigger(call[2], call[3], "n"))
SettingsAnswer == Asked("settings")
  /\ Give([code |-> ExecuteCode([x |-> call[2]], <<>>, "n", Context),
             set |-> ExecuteSet([x |-> <<Braces(call[2])>>], <<>>, "n", Context),
             output |-> ExecuteTransform([x |-> <<Literal("y"), Braces(call[2])>>], "n", Context).output])
FilterAnswers == Asked("filter") /\ Give(ExecuteFilter(Written(call[2]), "yes", call[3], Context))
MergeAnswers == Asked("merge") /\ \E answer \in ExecuteMerge(call[2], call[3], call[4], "n") : Give(answer)
\* A trigger guards its input, a setting says what it says, a filter lets through what its
\* condition means, a merge holds its sources.
ValueStepsAreRight ==
  /\ Answered("trigger") => GuardsItsInput(call[2], call[3], result[1])
  /\ Answered("settings") => SaysWhatItSays(call[2], result[1].code, result[1].set)
                             /\ result[1].output.x # result[1].set.output.x
  /\ Answered("filter") /\ Simple(call[2], Context) => (result[1].next = "yes") = IsTruthy(Meaning(call[2], Context))
  /\ Answered("merge") /\ call[2] = "combine" => HoldsItsSources(call[3], call[4], result[1].output)

\* The steps that only compute give what they say: lists, dates, and the values of a run's
\* context (nodes_data.go:83 executeList, :368 orderValues, :487 shiftTime, :507 startOf;
\* executor.go:230 executeTrigger; nodes_extra.go:35 executeFilter, :107 executeCode, :262
\* executeMerge).
DataStepsAreRight == SortIsRight /\ ItemsAreAccountedFor /\ DatesAreRight /\ ValueStepsAreRight
-----------------------------------------------------------------------------
(* Branches and loops over the steps a, b and c. *)

Step(type, fails, reads, next) == [type |-> type, fails |-> fails, reads |-> reads, next |-> next]
Always(s) == [i \in 0 .. 2 |-> s]
Types == {"step", "stop_error", "wait", "loop", "parallel", "end"}
BranchDefs ==
  {("a" :> Step("step", {}, "", Always(an))) @@ ("b" :> Step("step", bf, "a", Always(bn)))
   @@ ("c" :> Step(ct, {}, cr, Always(cn))) :
     an \in {"b", "c"}, bf \in {{}, {0}}, bn \in {"c", "gone"}, ct \in Types, cr \in {"a", "b"}, cn \in {"", "a"}}
MCParallelSteps ==
  [def : BranchDefs, starts : {<<"a", "b">>, <<"b", "c", "a">>}, ctx : {"c" :> <<"before">>}, tolerant : BOOLEAN]

LoopDefs ==
  {("a" :> Step("step", {}, "", an)) @@ ("b" :> Step("step", bf, "a", Always(bn)))
   @@ ("c" :> Step(ct, {}, cr, Always(cn))) :
     an \in {Always("b"), [Always("b") EXCEPT ![2] = "c"]}, bf \in {{}, {1}, {2}}, bn \in {"c", "home"},
     ct \in Types, cr \in {"a", "b"}, cn \in {"", "a"}}
MCLoopSteps ==
  [cfg : [def : LoopDefs, body : {"a"}, loop : {"home"}, continueOnError : BOOLEAN, onError : BOOLEAN],
   items : SeqOf({1, 2}, 3), ctx : {<<>>}]
-----------------------------------------------------------------------------
(* Decisions. *)

Set(provider, cordon, anthropic, ollama, detect, model) ==
  [provider |-> provider, cordon |-> cordon, anthropic |-> anthropic, ollama |-> ollama, detect |-> detect, model |-> model]
Llama(tag) == [family |-> "llama3.1", tag |-> tag]
MCInitialSettings == {Set("auto", FALSE, FALSE, FALSE, TRUE, NoModel), Set("auto", TRUE, TRUE, FALSE, FALSE, NoModel),
  Set("auto", FALSE, TRUE, TRUE, FALSE, NoModel), Set("ollama", FALSE, TRUE, TRUE, FALSE, Llama("8b")),
  Set("cordon", FALSE, TRUE, FALSE, FALSE, NoModel), Set("simulation", TRUE, TRUE, TRUE, TRUE, NoModel)}
MCNewSettings == {Set("anthropic", FALSE, TRUE, FALSE, FALSE, NoModel), Set("auto", FALSE, FALSE, FALSE, FALSE, NoModel),
  Set("ollama", TRUE, FALSE, TRUE, FALSE, NoModel)}
Model(family, tag, remote, embedding) == [family |-> family, tag |-> tag, remote |-> remote, embedding |-> embedding]
MCListings == {Unreachable, Listed(<<>>), Listed(<<Model("bert", "latest", FALSE, TRUE)>>),
               Listed(<<Model("gpt", "cloud", TRUE, FALSE), Model("llama3.1", "8b", FALSE, FALSE)>>)}
\* Amounts about the limits of the rules, and none; what a field or a text may say.
Money == {[NoInputs EXCEPT !.numbers = [p \in paths |-> IF p = "amount_limit" THEN limit ELSE n],
                           !.yes = yes, !.history = history] :
  paths \in {{}, {"amount"}, {"loan_amount", "order.amount_total", "amount_limit"}, {"amount", "amount_limit"}},
  n \in {0, 1, 150, 151, 1000, 1001, 2001, 5001, 10001, 100001}, limit \in {0, 1000},
  yes \in {{}, {"po_number"}}, history \in {<<>>, <<100, 50>>}}
Said == {[NoInputs EXCEPT !.yes = yes, !.words = words] :
  yes \in {{}, {"disputed", "stockout_risk"}}, words \in {{}, {"scam"}, {"vp"}, {"senior"}, {"critical"}}}
AskedOf(task, in) ==
  [kind |-> "decision", task |-> task, inputs |-> in, standard |-> TRUE, strict |-> FALSE, threshold |-> 0,
   want |-> "default", mapped |-> {}, fallback |-> TRUE, sidecar |-> FALSE]
RuledRequests ==
  {AskedOf(task, in) : task \in {"fraud_risk_assessment", "credit_risk_assessment", "invoice_approval",
                               "purchase_order_approval", "expense_audit"}, in \in Money}
  \cup {AskedOf(task, in) : task \in {"content_moderation", "sentiment_analysis", "lead_scoring", "supply_chain_exception",
                                    "offboarding_review", "general_decision"}, in \in Said}
MCRequests ==
  RuledRequests \cup
  [kind : {"decision"}, task : {"expense_audit", "unknown"},
   inputs : {NoInputs, [NoInputs EXCEPT !.numbers = [amount |-> 1001]]}, standard : BOOLEAN, strict : BOOLEAN,
   threshold : {0, 90}, want : {"default"}, mapped : {{}, {"maybe"}}, fallback : BOOLEAN, sidecar : BOOLEAN]
  \cup [kind : {"completion"}, provider : Providers \cup {"auto"}, json : BOOLEAN, want : {"", "fast", "llama3.1"},
       threshold : {0}, mapped : {{}}, fallback : {FALSE}]

-----------------------------------------------------------------------------
(* Validation. *)

Routed(field, t) ==
  CASE field = "onError" -> [BlankStep EXCEPT !.onError = t] [] field = "fallback" -> [BlankStep EXCEPT !.fallback = t]
    [] field = "default" -> [BlankStep EXCEPT !.default = t] [] field = "onFalse" -> [BlankStep EXCEPT !.onFalse = t]
    [] field = "body" -> [BlankStep EXCEPT !.body = t] [] field = "sources" -> [BlankStep EXCEPT !.sources = {t}]
    [] field = "branches" -> [BlankStep EXCEPT !.branches = {t}] [] field = "starts" -> [BlankStep EXCEPT !.branchStarts = {t}]
    [] field = "routeMap" -> [BlankStep EXCEPT !.routeMap = {t}] [] field = "nextMap" -> [BlankStep EXCEPT !.nextMap = {t}]
    [] field = "cases" -> [BlankStep EXCEPT !.cases = <<Case("a > 1", t), Case("", "")>>]
    [] field = "case" -> [BlankStep EXCEPT !.cases = <<Case("a > 1", t)>>]
AllSet == {"connector", "task", "agent_id", "workflow_id", "condition", "prompt", "items", "hmac", "literal seconds",
           "key_credential", "title", "retries", "retry_on_timeout"}
Fields == {"onError", "fallback", "default", "onFalse", "body", "sources", "branches", "starts", "routeMap", "nextMap",
           "case", "cases"}
Drawing(kind, set, next, last) ==
  <<[BlankStep EXCEPT !.id = "a", !.kind = "trigger", !.next = "b"],
    [BlankStep EXCEPT !.id = "b", !.kind = kind, !.next = next, !.onFalse = "c", !.body = "c", !.branches = {"c"}, !.set = set], last>>
\* Mistakes that the registry does not look for, pauses in branches and bodies, steps
\* switched off, and a step that is no object.
Mistakes ==
  {Drawing(kind, set, "", [BlankStep EXCEPT !.id = "c", !.kind = last, !.set = off]) :
    kind \in {"list", "datetime", "crypto", "code", "ai_decision", "tool_call", "loop", "parallel", "filter"}, 
    set \in {AllSet, AllSet \cup {"disabled"}, {"capitals", "hmac"}, {"capitals", "filters", "items"},
             AllSet \cup {"unknown operation", "unknown task", "nothing to call", "unreadable expression"}},
    last \in {"human_task", "end"}, off \in {{}, {"disabled"}}}
  \cup {Drawing("set", {}, next, NotAStep) : next \in {"", "c"}}
MCDefinitions ==
  Mistakes \cup
  {<<[BlankStep EXCEPT !.id = "a", !.kind = first, !.next = "b"],
     [step EXCEPT !.id = "b", !.kind = kind[1], !.next = next, !.set = set, !.number = kind[2]],
     [BlankStep EXCEPT !.id = last[1], !.kind = last[2]]>> :
    step \in {Routed(field, t) : field \in Fields, t \in {"", "c", "gone"}}, next \in {"", "c", "gone"},
    kind \in (EngineTypes \cup {""}) \X {0} \cup {"ai_decision", "wait"} \X {150},
    set \in {{}, AllSet, {"hmac"}, {"until mode", "maps", "items"}}, first \in {"trigger", "set"},
    last \in {<<"c", "end">>, <<"c", "set">>, <<"b", "set">>, <<"", "set">>, <<"c", "trigger">>}}
-----------------------------------------------------------------------------
(* Calls of connectors. *)

FieldPart(name) == <<Filled("field", name)>>
CredPart(cred) == <<Filled("cred", cred)>>
AllRequired(names) == {Credential(n, FALSE, "") : n \in names}
CallContext == [a |-> Str("y"), obj |-> <<"map", [k |-> Str("y")]>>]
FieldTexts == {Str(s) : s \in {"", "2", "true", "{}", "null", "y"}}
Note(v) == <<Braces(<<Lit(v)>>)>>

\* Who a call speaks for: what is declared, used, stored, readable and in the environment.
Speaks == {Definition(AllRequired(declared), base, auth, headers,
             <<Action("post", "POST", {Field("note", "text", FALSE, Nil)}, <<Filled("text", "/p")>>, {}, {}, body, "")>>) :
    declared \in {{"T"}, {"T", "P"}}, base \in {<<Filled("text", "host")>>, CredPart("P"), CredPart(NotAnAddress)},
    auth \in {Auth("none", "", ""), Auth("bearer", "T", ""), Auth("basic", "T", "P"), Auth("basic", "", "P")},
    headers \in {{}, {CredPart("T")}}, body \in {NoBody, <<"map", [t |-> <<"leaf", CredPart("T")>>]>>}}
Secrets == [stored : {{}, {"T"}, {"T", "P"}}, readable : {{}, {"T"}, {"T", "P"}}, env : {{}, {"P"}, {"T", "P", NotAnAddress}},
            envAllowed : BOOLEAN]
CallAs == \E def \in Speaks, secrets \in Secrets : call = <<"speak", def, secrets>>
SpeakAnswers == Asked("speak")
  /\ LET def == call[2]  usable == Usable(call[3])
     IN Give([ready |-> Ready(def.creds, {}, SaidConfigured(call[3])),
                test |-> TestDeclarative(def, {[def.actions[1] EXCEPT !.method = "GET", !.body = NoBody]}, usable, 200),
                answer |-> ExecuteToolCall("declarative", def, <<>>, <<>>, {}, CallContext, usable, 200)])

\* What the console asks for: alternatives, options, and recipes.
CallReady == \E creds \in SUBSET {Credential("T", FALSE, ""), Credential("P", FALSE, ""), Credential("U", FALSE, "P"),
                                  Credential("O", TRUE, ""), Credential("V", TRUE, "T")},
    sets \in {{}, {{"T"}}, {{"T", "O"}, {"P", "U", "V"}}, {{"P"}, {"P", "U"}}}, configured \in SUBSET {"T", "P", "U", "O", "V"} :
  /\ \A c \in creds : c.altOf # "" => \E d \in creds : d.name = c.altOf
  /\ call = <<"ready", creds, sets, configured>>
ReadyAnswers == Asked("ready")
  /\ Give([ready |-> Ready(call[2], call[3], call[4]), missing |-> MissingOf(call[2], call[3], call[4])])

\* Where a field goes: its type and default, the places the definition has for it, and how
\* the step gives it, as a setting or as an input.
Drawn == <<"map", [n |-> <<"leaf", FieldPart("note")>>, more |-> <<"map", [m |-> <<"leaf", FieldPart("other")>>]>>,
                   list |-> <<"list", << <<"leaf", <<Filled("text", "n:"), Filled("field", "note")>> >>,
                                         <<"leaf", FieldPart("gone")>> >> >>]>>
Fills == {Definition({}, <<Filled("text", "host")>>, Auth("none", "", ""), {},
            <<Action("get", "GET", {}, <<>>, {}, {}, NoBody, ""),
              Action("post", method,
                     {Field("id", "text", FALSE, Nil), Field("note", type, required, default), Field("other", "text", FALSE, Nil)},
                     <<Filled("text", "/p/"), Filled(kind, "id")>>, queries, headers, body, bodyType)>>) :
    method \in {"POST", "DELETE"}, type \in {"text", "number", "boolean", "json"}, required \in BOOLEAN,
    default \in {Nil, Str("2")}, kind \in {"field", "subpath"}, queries \in {{}, {FieldPart("note"), FieldPart("other")}},
    headers \in {{}, {FieldPart("note")}}, body \in {NoBody, Drawn}, bodyType \in {"", "none"}}
\* No shipped definition draws a body that it does not send, or has a field with no place.
HasAPlace(def) == LET a == def.actions[2]
  IN (a.body # NoBody => a.bodyType = "") /\ (a.body = NoBody => a.bodyType = "none" \/ a.method = "POST" \/ a.queries # {})
CallFill == \E def \in Fills, note \in {<<>>} \cup [{"note"} -> {Note(v) : v \in FieldTexts} \cup {<<Braces(<<Id("a")>>)>>, <<Braces(<<Id("missing")>>)>>}],
    id \in {"", "x", ".."}, setting \in BOOLEAN, action \in {"post", "gone"} :
  /\ HasAPlace(def)
  /\ call = <<"fill", def, ("action" :> action) @@ (IF setting THEN note ELSE "note" :> Note(Str("false"))),
              ("id" :> Note(Str(id))) @@ ("other" :> <<Literal("z")>>) @@ (IF setting THEN <<>> ELSE note)>>
FillAnswers == Asked("fill") /\ Give(ExecuteToolCall("declarative", call[2], call[3], call[4], {}, CallContext, {}, 200))

CallHTTP == \E kind \in {"http", "unknown"}, url \in {"", "host"}, address \in {"url", "endpoint"},
    where \in {"payload", "body"},
    v \in {Note(w) : w \in FieldTexts} \cup {<<Braces(<<Id("obj")>>)>>, <<Braces(<<Id("missing")>>)>>},
    type \in {"", "json", "form", "raw", "none"}, auth \in {"", "basic", "other"}, codes \in {{}, {404}}, status \in {200, 404} :
  call = <<"http", kind, (address :> Note(Str(url))) @@ (where :> v) @@ ("body_type" :> Note(Str(type)))
                         @@ ("auth_type" :> Note(Str(auth))) @@ ("auth_credential" :> Note(Str("T"))), codes, status>>
HTTPAnswers == Asked("http")
  /\ Give(ExecuteToolCall(call[2], <<>>, <<>>, call[3], call[4], CallContext, {"T"}, call[5]))
CallAgent == \E registered \in BOOLEAN, endpoint \in {"", "host"}, status \in {200, 404}, onError \in {"", "handler"} :
  call = <<"agent", registered, endpoint, status, onError>>
AgentAnswers == Asked("agent") /\ Give(ExecuteAgentCall(call[2], call[3], call[4], "n", call[5]))

\* A call of a connector is whole: what the author filled in arrives, where the definition
\* says; a connector that is called ready does not fail for want of a credential, and what
\* the console asks for makes it ready; no step goes on with an answer that its author
\* does not count as a success (declarative.go:30 callDeclarative, server.go:1538
\* connectorReady, executor.go:1642 callWebhook).
ConnectorCallsAreWhole ==
  /\ Answered("speak") => NeverLacks(call[2], call[3], result[1].ready, result[1].test, result[1].answer)
  /\ Answered("ready") => AsksForWhatIsMissing(call[2], call[3], call[4], result[1].ready, result[1].missing)
  /\ Answered("fill") /\ result[1].error = "" =>
       Whole(call[2], call[2].actions[2], ConnectorInputs(call[3], call[4], CallContext), result[1].request)
  /\ Answered("http") /\ result[1].error \in {"", "status"} =>
       /\ BodyArrives(ConnectorInputs(<<>>, call[3], CallContext), result[1].request)
       /\ result[1].error = "" => call[5] \in call[4] \cup {200}
-----------------------------------------------------------------------------
NoCall == cfg = [type |-> "llm", timeout |-> Unset, request |-> 0, retries |-> Unset, retryOnTimeout |-> FALSE,
                 onError |-> FALSE, continueOnError |-> FALSE]
          /\ phase = "failed" /\ attempt = 0 /\ fate = <<>> /\ served = {} /\ context = {} /\ cancelled = TRUE
NoDecision == settings = Set("auto", FALSE, FALSE, FALSE, FALSE, NoModel) /\ seen = <<settings>> /\ read = settings
              /\ ask = [kind |-> "none"]
              /\ stage = "none" /\ tries = 0 /\ chosen = NoModel /\ asked = <<>> /\ decided = Nothing
Init ==
  \/ NoCall /\ NoDecision /\ PureCallsInit
  \/ result = <<>> /\ par = <<>>
     /\ \/ NoCall /\ NoDecision /\ (CallExpression \/ CallList \/ CallDateTime
                                   \/ CallValueStep \/ CallAs \/ CallReady \/ CallFill \/ CallHTTP \/ CallAgent)
        \/ NoDecision /\ call = <<"step">> /\ CallsInit
        \* The rules' inputs matter where the rules answer.
        \/ NoCall /\ call = <<"decision">> /\ DecisionsInit
           /\ (ask \in RuledRequests => settings.provider = "simulation")
PureCallGoesOn == PureCallsNext /\ UNCHANGED <<callVars, decisionVars>>
StepGoesOn == call = <<"step">> /\ CallsNext /\ UNCHANGED <<pureVars, decisionVars>>
DecisionGoesOn == call = <<"decision">> /\ DecisionsNext /\ UNCHANGED <<pureVars, callVars>>
Next == \/ PureCallGoesOn \/ StepGoesOn \/ DecisionGoesOn
        \/ ExpressionAnswers
        \/ SortAnswers \/ LimitAnswers \/ GroupAnswers \/ StartOfAnswers \/ ShiftAnswers
        \/ TriggerAnswers \/ SettingsAnswer \/ FilterAnswers \/ MergeAnswers
        \/ SpeakAnswers \/ ReadyAnswers \/ FillAnswers \/ HTTPAnswers \/ AgentAnswers
Spec == Init /\ [][Next]_vars
FairSpec == Spec /\ CallsFairness
=============================================================================
