------------------------------ MODULE Connectors ------------------------------
(***************************************************************************)
(* A call of a connector: from a step's settings to one HTTP request, for  *)
(* the connectors that are data (connectors/connectors.go,                 *)
(* engine/declarative.go), the HTTP connector and agents                   *)
(* (engine/executor.go), and what the console says of a connector's        *)
(* credentials (execution/server.go).                                      *)
(***************************************************************************)
EXTENDS ValueSteps, FiniteSets

\* A template is a sequence of parts, values to be filled in and text.
Filled(kind, name) == [kind |-> kind, name |-> name]
NamesIn(template, kinds) == {p.name : p \in {q \in Range(template) : q.kind \in kinds}}
FieldsIn(template) == NamesIn(template, {"field", "subpath"})
CredsIn(template) == NamesIn(template, {"cred"})

\* A body is a tree of templates: <<"leaf", template>>, <<"map", function>>, <<"list", sequence>>.
NoBody == <<"none">>
Empty == <<"map", <<>>>>
RECURSIVE Leaves(_)
Leaves(body) == CASE Type(body) = "leaf" -> {body[2]}
                  [] Type(body) \in {"map", "list"} -> UNION {Leaves(b) : b \in Range(body[2])}
                  [] OTHER -> {}
UnionOf(templates, In(_)) == UNION {In(t) : t \in templates}

\* A definition as the code reads it; `queries` and `headers` are sets of templates.
Definition(creds, base, auth, headers, actions) ==
  [creds |-> creds, base |-> base, auth |-> auth, headers |-> headers, actions |-> actions]
Credential(name, optional, altOf) == [name |-> name, optional |-> optional, altOf |-> altOf]
Field(name, type, required, default) == [name |-> name, type |-> type, required |-> required, default |-> default]
Action(id, method, fields, path, queries, headers, body, bodyType) ==
  [id |-> id, method |-> method, fields |-> fields, path |-> path, queries |-> queries, headers |-> headers,
   body |-> body, bodyType |-> bodyType]
\* `user` and `password` name credentials; a fixed one is "".
Auth(type, user, password) == [type |-> type, user |-> user, password |-> password]

AuthCreds(auth) == IF auth.type = "none" THEN {}
                   ELSE IF auth.type = "basic" THEN {auth.user, auth.password} \ {""} ELSE {auth.user}
-----------------------------------------------------------------------------
(* connectors.Validate: what the tests accept. *)

Declared(def) == {c.name : c \in def.creds}
AuthDeclaredAnyhow(def) == def.auth.type \in {"none", "bearer", "header", "query", "basic"}
AuthDeclared(def) == /\ def.auth.type \in {"none", "bearer", "header", "query", "basic"}
                     /\ AuthCreds(def.auth) \subseteq Declared(def)
                     /\ def.auth.type = "basic" /\ def.auth.user = "" => def.auth.password # ""
Accepts(def, templates, names) ==
  UnionOf(templates, CredsIn) \subseteq Declared(def) /\ UnionOf(templates, FieldsIn) \subseteq names
ValidAction(def, a) ==
  /\ a.id # "" /\ a.method # ""
  /\ Accepts(def, {a.path} \cup a.queries \cup a.headers \cup Leaves(a.body), {f.name : f \in a.fields})
ValidDefinition(def) ==
  /\ def.actions # <<>> /\ AuthDeclared(def)
  /\ Accepts(def, {def.base} \cup def.headers, {})
  /\ \A i \in DOMAIN def.actions : ValidAction(def, def.actions[i])
                                   /\ \A j \in 1 .. i - 1 : def.actions[j].id # def.actions[i].id
-----------------------------------------------------------------------------
(* Credentials. *)

\* What is stored, what of it decrypts, what the environment holds, and whether it is read.
Usable(secrets) == (secrets.stored \cap secrets.readable)
                   \cup (IF secrets.envAllowed THEN secrets.env ELSE {})
SaidConfigured(secrets) == secrets.stored \cup secrets.env

\* A credential or the one it is an alternative to.
Group(c) == IF c.altOf = "" THEN c.name ELSE c.altOf
MissingOf(creds, sets, configured) ==
  LET satisfied == {Group(c) : c \in {d \in creds : d.name \in configured}}
      recipes == {s \ configured : s \in sets}
  IN IF sets # {} THEN CHOOSE m \in recipes : \A n \in recipes : Cardinality(m) <= Cardinality(n)
     ELSE {Group(c) : c \in {d \in creds : ~(d.optional /\ d.altOf = "")}} \ satisfied
Ready(creds, sets, configured) ==
  LET satisfied == {Group(c) : c \in {d \in creds : d.name \in configured}}
  IN IF sets # {} THEN \E s \in sets : s \subseteq configured
     ELSE \A c \in creds : (c.optional /\ c.altOf = "") \/ Group(c) \in satisfied
-----------------------------------------------------------------------------
(* One call. *)

Fails(why) == [error |-> why, request |-> NoBody]
Sends(request, answered) == [error |-> IF answered THEN "" ELSE "status", request |-> request]
\* Which statuses are answers, unless the author lists them.
IsSuccess(status, codes) == IF codes = {} THEN status < 400 ELSE status \in codes
Blank(v) == v \in {Nil, Str("")}

\* The settings of a step, but for those that route it, are inputs of its connector
\* unless the step has an input of that name.
Reserved == {"connector_id", "connector", "app", "action", "operation", "op", "on_error", "retry", "retries",
             "retry_delay", "retry_delay_seconds", "continue_on_error"}
ConnectorInputs(config, inputs, ctx) ==
  ResolveInputs(inputs @@ Restrict(config, DOMAIN config \ Reserved), ctx)

\* What a text reads as. (Restricted to the texts that the model uses.)
AsNumber(v) == CASE v = Str("2") -> Num(2) [] v = Str("0") -> Num(0) [] OTHER -> v
AsBoolean(v) == IF Type(v) = "str" THEN Bool(v = Str("true")) ELSE v
AsJSON(v) == CASE v = Str("2") -> Num(2) [] v = Str("0") -> Num(0) [] v = Str("null") -> Nil [] v = Str("{}") -> Empty
               [] v \in {Str("true"), Str("false")} -> Bool(v = Str("true"))
               [] Type(v) = "str" -> Failed [] OTHER -> v
Converted(type, v) == CASE type = "number" -> AsNumber(v) [] type = "boolean" -> AsBoolean(v)
                        [] type = "json" -> AsJSON(v) [] OTHER -> v

\* fieldValues: a blank input is none, a default takes its place.
Given(f, in) == f.name \in DOMAIN in /\ ~Blank(in[f.name])
HasValue(f, in) == Given(f, in) \/ f.default # Nil
ValueOf(f, in) == Converted(f.type, IF Given(f, in) THEN in[f.name] ELSE f.default)
FieldValues(a, in) ==
  LET present == {f \in a.fields : HasValue(f, in)}
  IN [name \in {f.name : f \in present} |-> ValueOf(CHOOSE f \in present : f.name = name, in)]

\* What a value looks like in a text: a number or a truth value as it is written.
Shown(v) == CASE Type(v) = "nil" -> Str("") [] Type(v) = "num" -> Str(ToString(v[2]))
              [] Type(v) = "bool" -> Str(IF v[2] THEN "true" ELSE "false") [] OTHER -> v
Value(part, values) == IF part.kind \in {"text", "cred"} THEN <<part.kind, part.name>>
                       ELSE IF part.name \in DOMAIN values THEN values[part.name] ELSE Nil
Rendered(template, values) == [i \in DOMAIN template |-> Shown(Value(template[i], values))]
NonBlank(templates, values) == {r \in {Rendered(t, values) : t \in templates} : \E p \in Range(r) : ~Blank(p)}

\* A placeholder by itself keeps its type; a key that comes to nothing is dropped.
DropsBlank(v) == Blank(v) \/ v = Empty
RECURSIVE RenderBody(_, _)
RenderBody(body, values) ==
  CASE Type(body) = "leaf" ->
         LET r == Rendered(body[2], values)
         IN IF Len(r) = 1 THEN Value(body[2][1], values) ELSE IF \A p \in Range(r) : Blank(p) THEN Str("") ELSE Composed(r)
    [] Type(body) = "map" ->
         LET v == [k \in DOMAIN body[2] |-> RenderBody(body[2][k], values)]
         IN <<"map", Restrict(v, {k \in DOMAIN v : ~DropsBlank(v[k])})>>
    [] Type(body) = "list" ->
         <<"list", SelectSeq([i \in DOMAIN body[2] |-> RenderBody(body[2][i], values)], LAMBDA v : ~Blank(v))>>

\* A reading request has no body of its own accord; any other has the body drawn for it,
\* or else the fields that went nowhere else.
BodyType(a) == IF a.method \in {"GET", "DELETE", "HEAD"} /\ a.body = NoBody THEN "none"
               ELSE IF a.bodyType = "" THEN "json" ELSE a.bodyType
Line(def, a) == {def.base, a.path} \cup def.headers \cup a.queries \cup a.headers
Consumed(def, a) == UnionOf(Line(def, a), FieldsIn)
Body(def, a, values) ==
  IF BodyType(a) = "none" THEN NoBody
  ELSE IF a.body # NoBody THEN RenderBody(a.body, values)
  ELSE <<"map", Restrict(values, DOMAIN values \ Consumed(def, a))>>

NeededCreds(def, a) ==
  UnionOf(Line(def, a), CredsIn) \cup AuthCreds(def.auth)
  \cup (IF BodyType(a) = "none" THEN {} ELSE UnionOf(Leaves(a.body), CredsIn))
Climbs(template, values) ==
  \E p \in Range(template) : p.kind = "subpath" /\ p.name \in DOMAIN values /\ values[p.name] = Str("..")
NotAnAddress == "NOT_AN_ADDRESS"  \* the name of a credential that holds no address

\* Where several things are wrong, which of them is named is left out.
SendDeclarative(def, a, values, usable, status) ==
  IF ~(NeededCreds(def, a) \subseteq usable) THEN Fails("credential")
  ELSE IF \E t \in Line(def, a) : Climbs(t, values) THEN Fails("path")
  ELSE IF NotAnAddress \in CredsIn(def.base) THEN Fails("url")
  ELSE Sends([path |-> Rendered(a.path, values), query |-> NonBlank(a.queries, values),
              headers |-> {Rendered(t, values) : t \in def.headers} \cup NonBlank(a.headers, values),
              auth |-> AuthCreds(def.auth), body |-> Body(def, a, values)], IsSuccess(status, {}))

\* The first action when none is named.
CallDeclarative(def, id, in, usable, status) ==
  LET named == {i \in DOMAIN def.actions : def.actions[i].id = id \/ id = ""}
      a == def.actions[Min(named)]
  IN IF named = {} THEN Fails("action")
     ELSE IF \E f \in a.fields : HasValue(f, in) /\ ValueOf(f, in) = Failed THEN Fails("json")
     ELSE IF \E f \in a.fields : f.required /\ ~HasValue(f, in) THEN Fails("missing")
     ELSE SendDeclarative(def, a, FieldValues(a, in), usable, status)

\* The connection test: the credentials are there, and a harmless request if there is one.
TestDeclarative(def, test, usable, status) ==
  IF \E c \in def.creds : ~c.optional /\ c.altOf = "" /\ c.name \notin usable THEN Fails("credential")
  ELSE IF test = {} THEN Sends(NoBody, TRUE)
  ELSE SendDeclarative(def, CHOOSE t \in test : TRUE, <<>>, usable, status)
-----------------------------------------------------------------------------
(* The HTTP connector, and agents. *)

In(in, k) == IF k \in DOMAIN in THEN in[k] ELSE Nil
\* doRequest: a text that is JSON is sent as what it says; a form is made of an object.
Encoded(type, v) ==
  LET parsed == IF type \in {"json", "form"} /\ AsJSON(v) # Failed THEN AsJSON(v) ELSE v
  IN CASE type = "none" -> NoBody
       [] type = "form" -> IF Type(parsed) = "map" THEN <<"form", parsed>> ELSE <<"form", Empty>>
       [] type = "raw" -> <<"raw", v>>
       [] OTHER -> IF parsed = Nil THEN NoBody ELSE <<"json", parsed>>
\* Only these ways of signing a request carry the credential.
AuthTypes == {Str("bearer"), Str("api_key"), Str("basic")}
CallWebhook(in, codes, usable, status) ==
  LET given == IF "payload" \in DOMAIN in THEN in.payload ELSE In(in, "body")
      type == IF ~Blank(In(in, "body_type")) THEN in.body_type[2] ELSE IF given # Nil THEN "json" ELSE "none"
      authed == In(in, "auth_type") \in AuthTypes /\ ~Blank(In(in, "auth_credential"))
  IN IF Blank(In(in, "url")) /\ Blank(In(in, "endpoint")) THEN Fails("url")
     ELSE Sends([auth |-> IF authed THEN {in.auth_credential[2]} \cap usable ELSE {}, body |-> Encoded(type, given)],
                IsSuccess(status, codes))

\* An agent that is registered and has an endpoint is sent the inputs; an error takes
\* the step's error output at once.
ExecuteAgentCall(registered, endpoint, status, next, onError) ==
  IF ~registered \/ endpoint = "" THEN StepError
  ELSE IF IsSuccess(status, {}) THEN Answers("NEXT", next, "", <<>>)
  ELSE IF onError # "" THEN Answers("NEXT", onError, "", <<>>) ELSE StepError

\* callConnector, but for the native connectors: an unknown one needs an address.
CallConnector(kind, def, id, in, codes, usable, status) ==
  CASE kind = "declarative" -> CallDeclarative(def, id, in, usable, status)
    [] kind = "http" \/ (kind = "unknown" /\ ~Blank(In(in, "url"))) -> CallWebhook(in, codes, usable, status)
    [] OTHER -> Fails("unknown connector")
\* The action goes by three names.
ActionFromConfig(config) ==
  LET named == {k \in 1 .. 3 : <<"action", "operation", "op">>[k] \in DOMAIN config
                                /\ config[<<"action", "operation", "op">>[k]] # ""}
  IN IF named = {} THEN "" ELSE config[<<"action", "operation", "op">>[Min(named)]]
ExecuteToolCall(kind, def, config, inputs, codes, ctx, usable, status) ==
  CallConnector(kind, def, ActionFromConfig(config), ConnectorInputs(config, inputs, ctx), codes, usable, status)
-----------------------------------------------------------------------------
(* Properties. *)

RECURSIVE Within(_)
Within(v) == {v} \cup (CASE Type(v) \in {"map", "list", "composed"} -> UNION {Within(x) : x \in Range(v[2])}
                         [] Type(v) \in {"json", "form", "raw"} -> Within(v[2]) [] OTHER -> {})
InTheLine(request) == UNION ({Range(request.path)} \cup {Range(r) : r \in request.query \cup request.headers})

\* What the author filled in arrives: every field in the address, the headers or the
\* body, whichever the definition has a place for, and in the body with its type; without
\* a drawn body, in one of them only.
Whole(def, a, in, request) ==
  \A f \in a.fields :
    LET v == ValueOf(f, in)
        drawn == a.body # NoBody /\ f.name \in UnionOf(Leaves(a.body), FieldsIn)
        line == Shown(v) \in InTheLine(request)
        body == v \in Within(request.body)
    IN HasValue(f, in) /\ ~DropsBlank(v) =>
         /\ f.name \in Consumed(def, a) => line
         /\ drawn => body
         /\ a.body = NoBody /\ BodyType(a) # "none" /\ f.name \notin Consumed(def, a) => body /\ ~line
\* So does the body of an HTTP call, unless it says it has none or is a form that is not
\* made of an object.
BodyArrives(in, request) ==
  LET v == IF "payload" \in DOMAIN in THEN in.payload ELSE In(in, "body")
      type == In(in, "body_type")
  IN v # Nil /\ type # Str("none") /\ (type = Str("form") => Type(AsJSON(v)) = "map") /\ AsJSON(v) # Nil
       => {v, AsJSON(v)} \cap Within(request.body) # {}

\* A connector whose credentials are all required, and that the console calls ready while
\* they can be read, or whose test passes, does not fail for want of a credential.
NeverLacks(def, secrets, ready, test, call) ==
  LET required == \A c \in def.creds : ~c.optional /\ c.altOf = ""
      trusted == ready /\ SaidConfigured(secrets) \subseteq Usable(secrets)
  IN ValidDefinition(def) /\ required /\ (trusted \/ test.error = "") => call.error # "credential"
\* The console asks for something exactly when it does not call the connector ready, and
\* with what it asks for the connector is ready.
AsksForWhatIsMissing(creds, sets, configured, ready, missing) ==
  /\ ready <=> missing = {}
  /\ Ready(creds, sets, configured \cup missing)
=============================================================================
