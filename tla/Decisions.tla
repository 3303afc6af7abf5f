------------------------------ MODULE Decisions ------------------------------
(***************************************************************************)
(* The AI decision and AI prompt steps: engine/decide and the steps'       *)
(* handlers in engine/executor.go. A decision is asked of an optional      *)
(* sidecar, then of the provider the settings choose, then of the rules.   *)
(* Every read of the settings is a step of its own, and an administrator   *)
(* may save others between any two of them.                                *)
(* Confidences are in hundredths.                                          *)
(***************************************************************************)
EXTENDS Integers, Sequences, SequencesExt, DecisionRules

CONSTANTS
  InitialSettings, NewSettings,  \* the settings before and after an administrator saves them
  Requests,                      \* the steps' configurations
  Listings,                      \* what the Ollama server may answer: Listed(models) or Unreachable
  LowerAmounts                   \* amounts to compare a request's with

VARIABLES
  settings,  \* in force now
  seen,      \* history: in force since the step began, in order
  read,      \* the copy of the settings that provider() works with
  ask,       \* the step's configuration
  stage,     \* "sidecar", "provider", "choosing", "detecting", "checking", "model",
             \* "listing", "calling", "answered", "unanswered", "rules", "done"
  tries,     \* calls of the current service
  chosen,    \* the provider and model to call
  asked,     \* history: every call of a model and its reply
  decided    \* the step's result

decisionVars == <<settings, seen, read, ask, stage, tries, chosen, asked, decided>>

Providers == {"cordon", "anthropic", "ollama"}
\* What the settings name: any other name means auto (decide/engine.go:183).
ASSUME SettingsAssumption ==
  \A cfg \in InitialSettings \cup NewSettings : cfg.provider \in Providers \cup {"simulation", "auto"}
ASSUME RequestsAssumption ==
  \A step \in Requests : step.threshold \in Int /\ (step.kind = "decision" => IsInput(step.inputs))
ASSUME AmountsAssumption == LowerAmounts \subseteq Nat \ {0}

NoModel == [family |-> "", tag |-> ""]
NoReply == [decision |-> "", confidence |-> 0]
Listed(models) == [reachable |-> TRUE, models |-> models]
Unreachable == [reachable |-> FALSE, models |-> <<>>]
Nothing == [by |-> "", reply |-> NoReply, downgraded |-> FALSE, routing |-> "", next |-> ""]

FirstOf(s, P(_)) == LET at == SelectInSeq(s, P) IN IF at = 0 THEN NoModel ELSE s[at]
-----------------------------------------------------------------------------
(* Providers and models. *)

HasOllamaURL(cfg) == cfg.ollama \/ cfg.detect
CanHold(model) == ~model.embedding
\* provider() has one copy of the settings, but CordonURL and OllamaURL read them again,
\* as they are now. "detect": ask a server that nobody configured, in auto mode only.
AutoProvider(cfg, now) ==
  IF now.cordon THEN "cordon" ELSE IF cfg.anthropic THEN "anthropic"
  ELSE IF cfg.ollama THEN "ollama" ELSE IF cfg.detect THEN "detect" ELSE "simulation"
Provider(cfg, now) ==
  CASE cfg.provider = "cordon" -> IF now.cordon THEN "cordon" ELSE "simulation"
    [] cfg.provider = "anthropic" -> IF cfg.anthropic THEN "anthropic" ELSE "simulation"
    [] cfg.provider = "ollama" -> IF HasOllamaURL(now) THEN "ollama" ELSE "simulation"
    [] cfg.provider = "simulation" -> "simulation"
    [] OTHER -> AutoProvider(cfg, now)
\* A server that lists a model that can answer.
Detected(now, listing) == HasOllamaURL(now) /\ \E m \in Range(listing.models) : CanHold(m)

Profile == [default |-> "claude-sonnet-5", fast |-> "claude-haiku-4-5"]
OllamaProfile == [ollama_fast |-> [family |-> "llama3.2", tag |-> "latest"]]
Named(m, want) == m.family = want.family /\ m.tag = want.tag
SameFamily(m, want) == want.tag \in {"", "latest"} /\ m.family = want.family
Match(listing, want) ==
  LET exact == FirstOf(listing.models, LAMBDA m : Named(m, want))
  IN IF exact # NoModel THEN exact ELSE FirstOf(listing.models, LAMBDA m : SameFamily(m, want))
\* A local model before one in the cloud, which the server only passes on to.
Suggested(listing) ==
  LET local == FirstOf(listing.models, LAMBDA m : CanHold(m) /\ ~m.remote)
  IN IF local # NoModel THEN local ELSE FirstOf(listing.models, LAMBDA m : CanHold(m))

\* The Ollama model a step means: one of its own, a profile of Ollama's, or the
\* configured one for every other profile.
WantedModel(cfg, want) ==
  LET own == IF want \in DOMAIN OllamaProfile THEN OllamaProfile[want]
             ELSE IF want \in DOMAIN Profile \cup {"ollama_default", ""} THEN NoModel
             ELSE [family |-> want, tag |-> ""]
  IN IF own = NoModel THEN cfg.model ELSE own
\* The model to call, NoModel when there is nothing to ask.
OllamaModelFor(now, wanted, listing) ==
  LET match == Match(listing, wanted)
  IN IF ~HasOllamaURL(now) \/ ~listing.reachable THEN wanted
     ELSE IF wanted # NoModel /\ match # NoModel THEN match ELSE Suggested(listing)
\* A prompt step may name a model of its provider; a decision step has a profile.
ModelFor(provider, cfg, want) ==
  LET named == ask.kind = "completion" /\ want \notin {"", "ollama_default"} \cup DOMAIN Profile \cup DOMAIN OllamaProfile
  IN CASE provider = "cordon" -> [family |-> IF named THEN want ELSE "as loaded", tag |-> ""]
       [] provider = "anthropic" -> [family |-> IF named THEN want ELSE
                                       IF want \in DOMAIN Profile THEN Profile[want] ELSE Profile.default, tag |-> ""]
       [] provider = "ollama" -> WantedModel(cfg, want)

Configured(provider, cfg) ==
  CASE provider = "cordon" -> cfg.cordon [] provider = "anthropic" -> cfg.anthropic
    [] provider = "ollama" -> HasOllamaURL(cfg) [] OTHER -> FALSE
-----------------------------------------------------------------------------
(* Replies. A reply is a status and, when it is 200, an object with a decision  *)
(* and a confidence, or prose. Statuses that an error message explains are      *)
(* wrapped in it, and no longer read as refusals.                               *)

ExplainedByCordon(status) == status \in {401, 403, 404}
ExplainedByOllama(status) == status \in {401, 404}
Explained(provider, status) == \/ provider = "cordon" /\ ExplainedByCordon(status)
                               \/ provider = "ollama" /\ ExplainedByOllama(status)
Refused(status) == status \in 400 .. 499 /\ status # 429
WorthRepeating(provider, status) == ~Refused(status) \/ Explained(provider, status)
Reply == [status : {200}, decision : {"", "APPROVE", "ESCALATE", "maybe"}, confidence : {0, 50, 90}]
         \cup [status : {200}, prose : {TRUE}]
         \cup [status : {0, 400, 404, 429, 503}]
IsObject(reply) == reply.status = 200 /\ "decision" \in DOMAIN reply
AnyObject(reply) == ask.kind = "completion" \/ IsObject(reply)
\* Whatever a prompt step asked for is its answer.
Acceptable(reply) ==
  ask.kind = "decision" =>
    /\ IsObject(reply) /\ reply.decision # ""
    /\ ask.standard => reply.decision \in {"APPROVE", "REJECT", "ESCALATE"}
-----------------------------------------------------------------------------
(* The step. *)

DecisionsInit ==
  /\ settings \in InitialSettings /\ seen = <<settings>> /\ read = settings
  /\ ask \in Requests
  /\ stage = IF ask.kind = "decision" /\ ask.sidecar THEN "sidecar" ELSE "provider"
  /\ tries = 0 /\ chosen = [provider |-> "", model |-> NoModel] /\ asked = <<>> /\ decided = Nothing

ConfidenceOf(reply) == IF reply.confidence = 0 THEN 50 ELSE reply.confidence
Threshold == IF ask.threshold <= 0 THEN 80 ELSE ask.threshold
RoutingByDecision(reply) == IF reply.decision = "ESCALATE" THEN "escalate" ELSE "auto"
Routing(reply) == IF ConfidenceOf(reply) < Threshold THEN "escalate" ELSE "auto"

\* The route of the decision itself, then the escalation, then the next step.
Route(reply, routing) ==
  IF reply.decision \in ask.mapped THEN "mapped"
  ELSE IF routing = "escalate" /\ ask.fallback THEN "fallback" ELSE "next"
FinishWith(by, reply, routing, downgraded) ==
  /\ decided' = [by |-> by, reply |-> reply, downgraded |-> downgraded, routing |-> routing,
                 next |-> IF ask.kind = "decision" THEN Route(reply, routing) ELSE "next"]
  /\ stage' = "done" /\ UNCHANGED <<settings, seen, read, ask, asked>>
\* No answer: the fallback route of a decision, or the step fails.
NoAnswer ==
  /\ decided' = [Nothing EXCEPT !.next = IF ask.kind = "decision" /\ ask.fallback THEN "fallback" ELSE "failed"]
  /\ stage' = "done" /\ UNCHANGED <<settings, seen, read, ask>>

AskSidecar ==
  /\ stage = "sidecar" /\ tries' = tries + 1
  /\ \/ /\ \E reply \in {NoReply, [decision |-> "APPROVE", confidence |-> 90], [decision |-> "ESCALATE", confidence |-> 50]} :
             FinishWith("sidecar", reply, IF reply = NoReply THEN "" ELSE Routing(reply), FALSE)
        /\ UNCHANGED chosen
     \/ /\ \E status \in {0, 400, 429, 503} :
             stage' = IF Refused(status) \/ tries' = 3 THEN "provider" ELSE "sidecar"
        /\ UNCHANGED <<settings, seen, read, ask, chosen, asked, decided>>

NoProvider == IF ask.kind = "decision" THEN "rules" ELSE "unanswered"
KnownTask == ask.kind = "decision" => ask.task # "unknown"
RefuseTask == stage = "provider" /\ ~KnownTask /\ NoAnswer /\ UNCHANGED <<tries, chosen, asked>>
NamesProvider == ask.kind = "completion" /\ ask.provider # "auto"
ReadSettings ==
  /\ stage = "provider" /\ KnownTask /\ tries' = 0 /\ read' = settings
  /\ chosen' = [provider |-> IF NamesProvider THEN ask.provider ELSE "", model |-> NoModel]
  /\ stage' = IF NamesProvider THEN "checking" ELSE "choosing"
  /\ UNCHANGED <<settings, seen, ask, asked, decided>>

\* A prompt step looks at the settings of its provider once more.
Chooses(provider) ==
  /\ chosen' = [provider |-> provider, model |-> NoModel]
  /\ stage' = IF provider = "simulation" THEN NoProvider
              ELSE IF ask.kind = "completion" THEN "checking" ELSE "model"
ChooseProvider ==
  /\ stage = "choosing"
  /\ IF Provider(read, settings) = "detect" THEN stage' = "detecting" /\ UNCHANGED chosen
     ELSE Chooses(Provider(read, settings))
  /\ UNCHANGED <<settings, seen, read, ask, tries, asked, decided>>
DetectOllama ==
  /\ stage = "detecting"
  /\ \E listing \in Listings : Chooses(IF Detected(settings, listing) THEN "ollama" ELSE "simulation")
  /\ UNCHANGED <<settings, seen, read, ask, tries, asked, decided>>
CheckProvider ==
  /\ stage = "checking"
  /\ stage' = IF Configured(chosen.provider, settings) THEN "model" ELSE "unanswered"
  /\ UNCHANGED <<settings, seen, read, ask, tries, chosen, asked, decided>>

ChooseModel ==
  /\ stage = "model"
  /\ chosen' = [provider |-> chosen.provider, model |-> ModelFor(chosen.provider, settings, ask.want)]
  /\ stage' = IF chosen.provider = "ollama" THEN "listing" ELSE "calling"
  /\ UNCHANGED <<settings, seen, read, ask, tries, asked, decided>>
ListModels ==
  /\ stage = "listing"
  /\ \E listing \in Listings :
       LET model == OllamaModelFor(settings, chosen.model, listing)
       IN /\ chosen' = [provider |-> chosen.provider, model |-> model]
          /\ stage' = IF model = NoModel THEN "unanswered" ELSE "calling"
  /\ UNCHANGED <<settings, seen, read, ask, tries, asked, decided>>

\* A decision is asked for twice, a completion once. A provider whose address is gone
\* from the settings is not called. Cordon's certificate and client id are read after
\* its address, perhaps of other settings: the reply is any refusal then.
MaxTries == IF ask.kind = "decision" THEN 2 ELSE 1
CallModel ==
  /\ stage = "calling" /\ tries' = tries + 1
  /\ \E reply \in IF Configured(chosen.provider, settings) THEN Reply
                  ELSE IF chosen.provider = "anthropic" THEN [status : {401}] ELSE [status : {0}] :
       /\ asked' = Append(asked, [provider |-> chosen.provider, model |-> chosen.model, reply |-> reply])
       /\ stage' = IF IsObject(reply) \/ (ask.kind = "completion" /\ ~ask.json /\ reply.status = 200) THEN "answered"
                   ELSE IF tries' < MaxTries /\ WorthRepeating(chosen.provider, reply.status) THEN "calling"
                   ELSE "unanswered"
  /\ UNCHANGED <<settings, seen, read, ask, chosen, decided>>

LastReply == asked[Len(asked)].reply
Words(reply) == IF "prose" \in DOMAIN reply THEN NoReply ELSE [decision |-> reply.decision, confidence |-> reply.confidence]
AcceptAnswer ==
  /\ stage = "answered" /\ Acceptable(LastReply)
  /\ FinishWith(chosen.provider, Words(LastReply), Routing(Words(LastReply)), FALSE) /\ UNCHANGED <<tries, chosen>>

\* The rules answer where the provider has none, unless the step is strict.
DowngradeAlways == ask.kind = "decision"
MayDowngrade == ask.kind = "decision" /\ ~ask.strict
FallBack ==
  /\ stage = "unanswered" \/ (stage = "answered" /\ ~Acceptable(LastReply))
  /\ IF MayDowngrade THEN stage' = "rules" /\ UNCHANGED <<settings, seen, read, ask, tries, chosen, asked, decided>>
     ELSE NoAnswer /\ UNCHANGED <<tries, chosen, asked>>
AnswerByRules ==
  /\ stage = "rules"
  /\ LET reply == Rules(ask.task, ask.inputs)
     IN FinishWith("simulation", reply, Routing(reply), chosen.provider # "simulation")
  /\ UNCHANGED <<tries, chosen>>

\* An administrator saves the settings.
SetConfig ==
  /\ stage # "done" /\ settings \notin NewSettings
  /\ settings' \in NewSettings /\ seen' = Append(seen, settings')
  /\ UNCHANGED <<read, ask, stage, tries, chosen, asked, decided>>

DecisionsNext == \/ AskSidecar \/ RefuseTask \/ ReadSettings \/ ChooseProvider \/ DetectOllama
                 \/ CheckProvider \/ ChooseModel \/ ListModels \/ CallModel \/ AcceptAnswer
                 \/ FallBack \/ AnswerByRules \/ SetConfig

DecisionsSpec == DecisionsInit /\ [][DecisionsNext]_decisionVars
-----------------------------------------------------------------------------
\* Settings in force since the step began name the provider, or leave it open, and those
\* or later ones say where it is: an address is read after the choice, a key with it.
NamedBySettings(p) ==
  \E i \in DOMAIN seen :
    /\ seen[i].provider \in {p, "auto"}
    /\ \E j \in i .. Len(seen) : Configured(p, seen[j]) /\ (p = "anthropic" => j = i)

\* Nobody takes a rule's answer for a model's, or one model's for another's. What is
\* recorded as a provider's is the last reply of that provider, which the step named or
\* settings in force since it began, and a decision it is. The rules answer only a
\* decision step to which no provider gave a valid reply, never a strict one whose
\* provider failed, and the downgrade is marked as one; where it is not, nobody was asked
\* (decide/engine.go:226 Decide, :326 validDecision, executor.go:274 executeAIDecision).
AnswersAreAttributed == stage = "done" =>
  /\ decided.by \in Providers => asked # <<>> /\ asked[Len(asked)].provider = decided.by /\ Words(LastReply) = decided.reply
  /\ decided.by \in Providers /\ ask.kind = "decision" => decided.reply.decision # ""
       /\ (ask.standard => decided.reply.decision \in {"APPROVE", "REJECT", "ESCALATE"})
  /\ \A i \in DOMAIN asked : IF NamesProvider THEN asked[i].provider = ask.provider
                              ELSE NamedBySettings(asked[i].provider)
  /\ decided.by = "simulation" =>
       /\ ask.kind = "decision" /\ \A i \in DOMAIN asked : ~Acceptable(asked[i].reply)
       /\ (decided.downgraded => ~ask.strict) /\ (~decided.downgraded => asked = <<>>)
\* Unless its route is mapped, a decision of a model or of the rules passes its fallback
\* by only when whoever made it claimed the confidence the author asked for, if the author
\* asks for more than the even odds a reply without a confidence is given
\* (decide/engine.go:298 Decide, executor.go:425 executeAIDecision).
OnlySureAnswersGoOn ==
  decided.next = "next" /\ decided.by \in Providers \cup {"simulation"} /\ ask.kind = "decision" /\ ask.fallback
    /\ ask.threshold \notin 1 .. 50
  => decided.reply.confidence >= (IF ask.threshold > 0 THEN ask.threshold ELSE 80)
\* Moreover the rules are as cautious with more money as with less, and what they escalate
\* is not sure enough to go on by itself (decide/rules.go:26 Rules).
DecisionsAreCautious ==
  /\ OnlySureAnswersGoOn
  /\ decided.by = "simulation" => Cautious(ask.task, ask.inputs, decided.reply, LowerAmounts)
=============================================================================
