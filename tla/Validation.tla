------------------------------ MODULE Validation ------------------------------
(***************************************************************************)
(* What the registry says of a definition before it runs                   *)
(* (registry/handlers/validate.go), and the routes and checks of the       *)
(* engine it speaks for. A definition is a sequence of steps.              *)
(***************************************************************************)
EXTENDS Integers, Sequences, SequencesExt, FiniteSetsExt, Functions

\* A step with nothing filled in. `branches` are ids, `branchStarts` branches spelled as
\* objects; `number` is the threshold of a decision in hundredths or the seconds of a wait,
\* and `set` what else is true of what its author has filled in: the fields it has, what
\* its operation is ("filters", "maps", "hmac", in "capitals"), what there is none of ("unknown
\* operation", a key that is a "blank key") and whether the step is "disabled".
BlankStep ==
  [id |-> "", kind |-> "", next |-> "", default |-> "", onError |-> "", fallback |-> "", onFalse |-> "",
   body |-> "", cases |-> <<>>, sources |-> {}, branches |-> {}, branchStarts |-> {},
   routeMap |-> {}, nextMap |-> {}, set |-> {}, number |-> 0]
\* A step that is no object: the registry passes it over, the engine reads no such definition.
NotAStep == [BlankStep EXCEPT !.kind = "not an object"]
Case(condition, next) == [condition |-> condition, next |-> next]

NodeTypes == {"trigger", "ai_decision", "human_task", "condition", "tool_call", "agent_call", "sub_workflow",
  "parallel", "loop", "merge", "transform", "set", "filter", "wait", "code", "emit", "end",
  "llm", "list", "datetime", "crypto", "stop_error"}

\* The steps that are read: those with an id that no earlier step has.
FirstWithId(def, i) == def[i].id # "" /\ \A j \in 1 .. i - 1 : def[j].id # def[i].id
StepsOf(def) == {def[i] : i \in {k \in DOMAIN def : FirstWithId(def, k)}}
Ids(def) == {s.id : s \in StepsOf(def)}
Routes(s) == {c.next : c \in Range(s.cases)}
-----------------------------------------------------------------------------
(* Routing. *)

ReferencesWithoutMaps(s) ==
  {s.next, s.default, s.onError, s.fallback} \cup Routes(s) \cup s.sources \cup s.branches \cup s.branchStarts
  \cup (IF s.kind = "loop" THEN {s.body} ELSE {}) \cup (IF s.kind = "filter" THEN {s.onFalse} ELSE {})
\* Every field that may name a step.
References(s) == ReferencesWithoutMaps(s) \cup s.routeMap \cup s.nextMap
DeadReferences(def) ==
  UNION {{<<s.id, "points at nothing", t>> : t \in References(s) \ (Ids(def) \cup {""})} : s \in StepsOf(def)}

\* What a walk along Out from the triggers comes to: what every set that holds them and
\* is closed under Out has.
Closed(def, S, Out(_)) == \A s \in StepsOf(def) : s.kind = "trigger" \/ (\E u \in S : s.id \in Out(u)) => s \in S
Reached(def, Out(_)) == {s \in StepsOf(def) : \A S \in SUBSET StepsOf(def) : Closed(def, S, Out) => s \in S}
Reachable(def) == Reached(def, References)
Orphans(def) == {s \in StepsOf(def) \ Reachable(def) : s.kind # "trigger"}
\* The step that drives a branch or a body goes on for them.
Driven(def) == UNION {IF s.kind = "loop" THEN {s.body} ELSE IF s.kind = "parallel" THEN s.branches \cup s.branchStarts
                      ELSE {} : s \in StepsOf(def)}
DeadEnds(def) == {s \in Reachable(def) :
  s.kind \notin {"end", "stop_error"} /\ s.id \notin Driven(def) /\ References(s) \subseteq {""}}
-----------------------------------------------------------------------------
(* Shape and configuration. *)

ShapeErrors(def) ==
  LET triggers == {s \in StepsOf(def) : s.kind = "trigger"}
  IN {<<"", IF def[i] = NotAStep THEN "not an object" ELSE "no id", "">> : i \in {k \in DOMAIN def : def[k].id = ""}}
     \cup {<<def[i].id, "shared id", "">> : i \in {k \in DOMAIN def : def[k].id # "" /\ ~FirstWithId(def, k)}}
     \cup {<<s.id, "cannot run", s.kind>> : s \in {u \in StepsOf(def) : u.kind \notin NodeTypes}}
     \cup (IF triggers = {} THEN {<<"", "no trigger", "">>} ELSE {})
     \cup (IF Cardinality(triggers) > 1 THEN {<<"", "more than one trigger", "">>} ELSE {})

\* The registry compares an operation as it is spelled, the engine in small letters.
Sees(s, operation) == operation \in s.set /\ "capitals" \notin s.set
Required(s) ==
  CASE s.kind = "tool_call" -> {"connector"}
    [] s.kind = "ai_decision" -> {"task"}
    [] s.kind = "agent_call" -> {"agent_id"}
    [] s.kind = "sub_workflow" -> {"workflow_id"}
    [] s.kind = "filter" -> {"condition"}
    [] s.kind = "llm" -> {"prompt"}
    [] s.kind = "loop" -> {"items"}
    [] s.kind = "list" -> {"items"} \cup (IF Sees(s, "filters") THEN {"condition"} ELSE {})
                                    \cup (IF Sees(s, "maps") THEN {"expression"} ELSE {})
    [] s.kind = "crypto" -> IF Sees(s, "hmac") THEN {"key_credential"} ELSE {}
    [] s.kind = "wait" -> IF "until mode" \in s.set THEN {"until"} ELSE {"literal seconds"}
    [] OTHER -> {}
ConfigErrors(s) ==
  {<<s.id, "lacks", f>> : f \in Required(s) \ s.set}
  \cup (IF s.kind = "condition" /\ \E c \in Range(s.cases) : c.condition = "" THEN {<<s.id, "empty branch", "">>} ELSE {})
  \cup (IF s.kind = "ai_decision" /\ s.number \notin 0 .. 100 THEN {<<s.id, "threshold", "">>} ELSE {})
  \cup (IF s.kind = "wait" /\ "until mode" \notin s.set /\ s.number <= 0 THEN {<<s.id, "no duration", "">>} ELSE {})
ConfigWarnings(s) ==
  IF s.kind = "condition" /\ (s.default = "" \/ s.cases = <<>> \/ "" \in Routes(s)) THEN {<<s.id, "unconnected branch", "">>}
  ELSE IF s.kind = "human_task" /\ "title" \notin s.set THEN {<<s.id, "no title", "">>}
  ELSE IF s.kind = "tool_call" /\ {"retries", "retry_on_timeout"} \subseteq s.set THEN {<<s.id, "may deliver twice", "">>}
  ELSE {}

Validate(def) ==
  IF def = <<>> THEN [errors |-> {<<"", "no steps", "">>}, warnings |-> {}]
  ELSE [errors |-> ShapeErrors(def) \cup DeadReferences(def) \cup (UNION {ConfigErrors(s) : s \in StepsOf(def)}),
        warnings |-> {<<s.id, "never runs", "">> : s \in Orphans(def)}
                     \cup {<<s.id, "nothing after it", "">> : s \in DeadEnds(def)}
                     \cup (UNION {ConfigWarnings(s) : s \in StepsOf(def)})
                     \cup (IF \E s \in StepsOf(def) : s.kind = "end" THEN {} ELSE {<<"", "no end", "">>})]
-----------------------------------------------------------------------------
(* The engine: where a step may send its run, and what it refuses to execute. *)

ForwardRoutes(s) ==
  CASE s.kind = "condition" -> Routes(s) \cup {IF s.default = "" THEN s.next ELSE s.default}
    [] s.kind = "ai_decision" -> s.routeMap \cup {s.fallback, s.next}
    [] s.kind = "human_task" -> s.nextMap \cup {s.next}
    [] s.kind = "filter" -> {s.next, s.onFalse}
    [] s.kind = "parallel" -> s.branches \cup {s.next}
    [] s.kind = "loop" -> {s.body, s.next}
    [] s.kind \in {"end", "stop_error"} -> {}
    [] OTHER -> {s.next}
EngineRoutes(s) == IF "disabled" \in s.set THEN {s.next} ELSE ForwardRoutes(s) \cup {s.onError}
EngineTypes == NodeTypes \cup {"workflow"}

\* Where the walk of a branch or of a body goes on: it stops at an end and at another step
\* of its driver's kind, and the routes for errors are the run's but for these two kinds.
WalkRoutes(driver, s) ==
  CASE s.kind = "end" \/ s.kind = driver.kind -> {}
    [] s.kind = "parallel" \/ "disabled" \in s.set -> {s.next}
    [] s.kind \in {"loop", "agent_call"} -> {s.next, s.onError}
    [] OTHER -> ForwardRoutes(s)
Starts(driver) ==
  CASE driver.kind = "loop" -> {driver.body} [] driver.kind = "parallel" -> driver.branches [] OTHER -> {}
WalkClosed(def, driver, S) == \A s \in StepsOf(def) :
  s.id \in Starts(driver) \/ (\E u \in S : s.id \in WalkRoutes(driver, u)) => s \in S
Walked(def, driver) ==
  {s \in StepsOf(def) : \A S \in SUBSET StepsOf(def) : WalkClosed(def, driver, S) => s \in S}
PausesInside(def, s) == \E u \in Walked(def, s) : u.kind \in {"human_task", "wait"} /\ "disabled" \notin u.set

EngineNeeds(s) ==
  CASE s.kind = "ai_decision" -> {"task"}
    [] s.kind = "agent_call" -> {"agent_id"}
    [] s.kind \in {"sub_workflow", "workflow"} -> {"workflow_id"}
    [] s.kind = "llm" -> {"prompt"}
    [] s.kind = "list" -> (IF "filters" \in s.set THEN {"condition"} ELSE {})
                          \cup (IF "maps" \in s.set THEN {"expression"} ELSE {})
    [] s.kind = "crypto" -> IF "hmac" \in s.set THEN {"key_credential"} ELSE {}
    [] OTHER -> {}
Mistaken(s) == s.set \cap
  CASE s.kind = "list" -> {"unknown operation", "unknown function", "unreadable expression"}
    [] s.kind = "datetime" -> {"unknown operation", "unknown zone", "unreadable date"}
    [] s.kind = "crypto" -> {"unknown operation", "unknown algorithm", "blank key"}
    [] s.kind = "code" -> {"unreadable expression"}
    [] s.kind = "ai_decision" -> {"unknown task"}
    [] s.kind = "tool_call" -> {"nothing to call"}
    [] OTHER -> {}
\* Why the engine may refuse the step whatever the run's data is: it does not know the
\* step, lacks a field, cannot use what one says, or would have to pause inside a branch
\* or a body.
Refusals(def, s) ==
  IF "disabled" \in s.set THEN {}
  ELSE (IF s.kind \in EngineTypes THEN {} ELSE {"unknown kind"}) \cup (EngineNeeds(s) \ s.set) \cup Mistaken(s)
       \cup (IF PausesInside(def, s) THEN {"pauses inside"} ELSE {})

\* What the registry does not look at; nor at the fields of an operation it does not
\* recognize in capitals.
NotLookedAt(s) ==
  {"unknown operation", "unknown function", "unreadable expression", "unknown zone", "unreadable date",
   "unknown algorithm", "blank key", "unknown task", "nothing to call", "pauses inside"}
  \cup (IF "capitals" \in s.set THEN {"condition", "expression", "key_credential"} ELSE {})

\* A definition found valid starts in one place, and a run of it never comes to a step
\* that is not there, nor to one that the engine refuses as drawn for a reason that is
\* not among those the registry does not look at; and no step is said never to run, or to
\* lead nowhere, that a run may come to, or leave.
Vouches(def, findings) ==
  LET run == Reached(def, EngineRoutes)
  IN /\ findings.errors = {} =>
          /\ Cardinality({i \in DOMAIN def : def[i].kind = "trigger"}) = 1
          /\ \A s \in run : EngineRoutes(s) \subseteq Ids(def) \cup {""} /\ Refusals(def, s) \subseteq NotLookedAt(s)
     /\ \A s \in run : /\ <<s.id, "never runs", "">> \notin findings.warnings
                       /\ <<s.id, "nothing after it", "">> \in findings.warnings => EngineRoutes(s) \subseteq {""}
=============================================================================
