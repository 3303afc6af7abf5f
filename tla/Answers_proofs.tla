---------------------------- MODULE Answers_proofs ----------------------------
(***************************************************************************)
(* What a step makes of another system's answers: theorems about NodeCalls,*)
(* for every timeout, every number of retries and every answer, and about  *)
(* Decisions, for all settings, requests and installed models.             *)
(***************************************************************************)
EXTENDS NodeCalls, Decisions, WellFoundedInduction, TLAPS

Fate == {"running", "answered", "unanswered"}
Phase == {"ready", "calling", "sleeping"} \cup Outcome

CallsTypeOK ==
  /\ cfg \in StepConfig /\ phase \in Phase
  /\ attempt \in Nat /\ fate \in Seq(Fate) /\ Len(fate) = attempt
  /\ cancelled \in BOOLEAN

\* The attempts counted so far leave room for the next one, if there is to be one, and
\* the attempt the step waits for has not ended.
AttemptsCounted ==
  /\ attempt <= Retries + 1
  /\ phase \in {"ready", "sleeping"} => attempt <= Retries
  /\ phase = "calling" => attempt >= 1 /\ fate[attempt] = "running"

\* The step must not be repeated after a request without an answer.
Ambiguity == SideEffecting /\ ~cfg.retryOnTimeout /\ ~ClientFirst
\* The attempts before the one under way.
Earlier == IF phase = "calling" THEN 1 .. attempt - 1 ELSE 1 .. attempt
NothingAmbiguous ==
  Ambiguity /\ phase \notin Outcome => \A i \in Earlier : fate[i] = "answered"

CallsInv == CallsTypeOK /\ AttemptsCounted /\ NothingAmbiguous /\ OneResult
-----------------------------------------------------------------------------
\* The retries of a step are a number (server.go:131 resolveNodePolicy).
LEMMA RetriesNat == ASSUME cfg \in StepConfig PROVE Retries \in Nat
BY CallsAssumption DEF StepConfig, Retries, Unset

\* A step's policy is worked out once, from a configuration nothing changes.
LEMMA PolicyIsFixed ==
  ASSUME cfg' = cfg
  PROVE  Retries' = Retries /\ (Ambiguity' <=> Ambiguity)
BY DEF Retries, Ambiguity, SideEffecting, ClientFirst, Timeout, ClientLimit

\* Where an attempt that ended in an error leaves the step.
LEMMA AfterErrorLeads ==
  ASSUME CallsTypeOK, AttemptsCounted, NEW timedOut \in BOOLEAN, AfterError(timedOut)
  PROVE  /\ phase' \in {"sleeping"} \cup (Outcome \ {"ok"})
         /\ phase' = "sleeping" => attempt <= Retries /\ MayRetry(timedOut)
         /\ phase' # "sleeping" => \/ attempt = Retries + 1 \/ ~MayRetry(timedOut)
                                   \/ cfg.type = "agent_call" /\ phase' = "routed"
<1>1. Retries \in Nat /\ attempt \in Nat
  BY RetriesNat DEF CallsTypeOK
<1>. QED
  BY <1>1 DEF AttemptsCounted, AfterError, RoutesInside, Conclude, Outcome

\* What recording the end of one attempt changes.
LEMMA FateOfOne ==
  ASSUME CallsTypeOK, NEW i \in 1 .. attempt, NEW f \in Fate, fate' = [fate EXCEPT ![i] = f]
  PROVE  /\ fate' \in Seq(Fate) /\ Len(fate') = attempt
         /\ \A j \in 1 .. attempt : fate'[j] = IF j = i THEN f ELSE fate[j]
BY DEF CallsTypeOK

\* An attempt the step no longer waits for ends: nothing of it is noticed.
LEMMA AbandonedEnds ==
  ASSUME CallsInv, NEW i \in 1 .. attempt, NEW f \in {"answered", "unanswered"},
         fate[i] = "running", ~Current(i),
         fate' = [fate EXCEPT ![i] = f], UNCHANGED <<cfg, phase, attempt, context, cancelled>>
  PROVE  CallsInv'
<1>1. /\ fate' \in Seq(Fate) /\ Len(fate') = attempt
      /\ \A j \in 1 .. attempt : fate'[j] = IF j = i THEN f ELSE fate[j]
  BY FateOfOne DEF Fate, CallsInv
<1>2. Retries' = Retries /\ (Ambiguity' <=> Ambiguity)
  BY PolicyIsFixed
<1>3. CallsTypeOK'
  BY <1>1 DEF CallsInv, CallsTypeOK
<1>4. AttemptsCounted'
  BY <1>1, <1>2 DEF CallsInv, CallsTypeOK, AttemptsCounted, Current
<1>5. NothingAmbiguous'
  <2>1. phase \notin Outcome => i \in Earlier
    BY DEF Earlier, Current, CallsInv, CallsTypeOK
  <2>2. ~(Ambiguity /\ phase \notin Outcome)
    BY <2>1 DEF CallsInv, NothingAmbiguous
  <2>. QED
    BY <1>2, <2>2 DEF NothingAmbiguous, Outcome
<1>6. OneResult'
  BY DEF CallsInv, OneResult
<1>. QED
  BY <1>3, <1>4, <1>5, <1>6 DEF CallsInv

LEMMA CallsInitially == CallsInit => CallsInv
<1>. SUFFICES ASSUME CallsInit PROVE CallsInv
  OBVIOUS
<1>1. Retries \in Nat
  BY RetriesNat DEF CallsInit
<1>2. fate \in Seq(Fate) /\ Len(fate) = attempt
  BY DEF CallsInit
<1>3. CallsTypeOK
  <2>1. cfg \in StepConfig /\ phase \in Phase /\ cancelled \in BOOLEAN /\ attempt \in Nat
    BY DEF CallsInit, Phase
  <2>. QED
    BY <1>2, <2>1 DEF CallsTypeOK
<1>4. AttemptsCounted
  BY <1>1 DEF CallsInit, AttemptsCounted
<1>5. NothingAmbiguous
  BY DEF CallsInit, NothingAmbiguous, Earlier
<1>6. OneResult
  BY DEF CallsInit, OneResult
<1>. QED
  BY <1>3, <1>4, <1>5, <1>6 DEF CallsInv

LEMMA CallsStep == CallsInv /\ [CallsNext]_callVars => CallsInv'
<1>. SUFFICES ASSUME CallsInv, [CallsNext]_callVars PROVE CallsInv'
  OBVIOUS
<1>. USE DEF CallsInv, CallsTypeOK, Phase, Outcome, AttemptsCounted, NothingAmbiguous, Earlier, OneResult
<1>1. Retries \in Nat
  BY RetriesNat
<1>2. cfg' = cfg
  BY DEF CallsNext, Attempt, Backoff, StepTimesOut, Cancel, Succeeds, Errs, ClientTimesOut, Serve, callVars
<1>3. Retries' = Retries /\ (Ambiguity' <=> Ambiguity)
  BY <1>2, PolicyIsFixed
<1>4. CASE Attempt
  <2>1. CASE cancelled
    BY <1>1, <1>3, <1>4, <2>1 DEF Attempt, Conclude
  <2>2. CASE ~cancelled
    <3>1. /\ phase' = "calling" /\ attempt' = attempt + 1 /\ fate' = Append(fate, "running")
          /\ UNCHANGED <<cfg, served, context, cancelled>> /\ phase = "ready"
      BY <1>4, <2>2 DEF Attempt
    <3>3. /\ fate' \in Seq(Fate) /\ Len(fate') = attempt'
          /\ fate'[attempt'] = "running"
          /\ \A i \in 1 .. attempt : fate'[i] = fate[i]
      BY <3>1 DEF Fate
    <3>. QED
      BY <1>1, <1>3, <3>1, <3>3
  <2>. QED
    BY <2>1, <2>2
<1>5. CASE Backoff
  BY <1>1, <1>3, <1>5 DEF Backoff
<1>6. CASE StepTimesOut
  <2>1. /\ phase' \in {"sleeping"} \cup (Outcome \ {"ok"})
        /\ phase' = "sleeping" => attempt <= Retries /\ MayRetry(TRUE)
    BY <1>6, AfterErrorLeads DEF StepTimesOut
  <2>2. phase' = "sleeping" => ~Ambiguity
    BY <2>1 DEF MayRetry, Ambiguity
  <2>. QED
    BY <1>1, <1>3, <1>6, <2>1, <2>2 DEF StepTimesOut
<1>7. CASE Cancel
  BY <1>1, <1>3, <1>7 DEF Cancel
<1>8. ASSUME NEW i \in 1 .. attempt, Succeeds(i)
      PROVE  CallsInv'
  <2>0. /\ fate' \in Seq(Fate) /\ Len(fate') = attempt
        /\ \A j \in 1 .. attempt : fate'[j] = IF j = i THEN "answered" ELSE fate[j]
    BY <1>8, FateOfOne DEF Succeeds, Fate
  <2>1. CASE Current(i)
    <3>1. phase' = "ok" /\ context' = {attempt}
      BY <1>8, <2>1 DEF Succeeds, Kept, Current
    <3>. QED
      BY <1>1, <1>3, <1>8, <2>0, <3>1 DEF Succeeds
  <2>2. CASE ~Current(i)
    <3>1. phase' = phase /\ context' = context
      BY <1>8, <2>2 DEF Succeeds, Kept
    <3>. QED
      BY <1>8, <2>2, <3>1, AbandonedEnds DEF Succeeds
  <2>. QED
    BY <2>1, <2>2
<1>9. ASSUME NEW i \in 1 .. attempt, Errs(i)
      PROVE  CallsInv'
  <2>0. /\ fate' \in Seq(Fate) /\ Len(fate') = attempt
        /\ \A j \in 1 .. attempt : fate'[j] = IF j = i THEN "answered" ELSE fate[j]
    BY <1>9, FateOfOne DEF Errs, Fate
  <2>1. CASE Current(i)
    <3>1. /\ phase' \in {"sleeping"} \cup (Outcome \ {"ok"})
          /\ phase' = "sleeping" => attempt <= Retries
      BY <1>9, <2>1, AfterErrorLeads DEF Errs
    <3>. QED
      BY <1>1, <1>3, <1>9, <2>0, <2>1, <3>1 DEF Errs, Current
  <2>2. CASE ~Current(i)
    BY <1>9, <2>2, AbandonedEnds DEF Errs
  <2>. QED
    BY <2>1, <2>2
<1>10. ASSUME NEW i \in 1 .. attempt, ClientTimesOut(i)
       PROVE  CallsInv'
  <2>0. /\ fate' \in Seq(Fate) /\ Len(fate') = attempt
        /\ \A j \in 1 .. attempt : fate'[j] = IF j = i THEN "unanswered" ELSE fate[j]
    BY <1>10, FateOfOne DEF ClientTimesOut, Fate
  <2>1. CASE Current(i)
    <3>1. /\ phase' \in {"sleeping"} \cup (Outcome \ {"ok"})
          /\ phase' = "sleeping" => attempt <= Retries
      BY <1>10, <2>1, AfterErrorLeads DEF ClientTimesOut
    <3>2. ~Ambiguity
      BY <1>10, <2>1 DEF ClientTimesOut, Ambiguity
    <3>. QED
      BY <1>1, <1>3, <1>10, <2>0, <2>1, <3>1, <3>2 DEF ClientTimesOut, Current
  <2>2. CASE ~Current(i)
    BY <1>10, <2>2, AbandonedEnds DEF ClientTimesOut
  <2>. QED
    BY <2>1, <2>2
<1>11. ASSUME NEW i \in 1 .. attempt, Serve(i)
       PROVE  CallsInv'
  BY <1>1, <1>3, <1>11 DEF Serve
<1>12. CASE UNCHANGED callVars
  BY <1>1, <1>3, <1>12 DEF callVars
<1>. QED
  BY <1>4, <1>5, <1>6, <1>7, <1>8, <1>9, <1>10, <1>11, <1>12 DEF CallsNext
-----------------------------------------------------------------------------
\* A late answer to an abandoned attempt never reaches the run's context, which holds
\* the result of the attempt that answered the step or nothing (server.go:265
\* runNodeWithTimeout).
THEOREM OneResultKept == CallsSpec => []OneResult
<1>1. CallsInit => CallsInv
  BY CallsInitially
<1>2. CallsInv /\ [CallsNext]_callVars => CallsInv'
  BY CallsStep
<1>3. CallsInv => OneResult
  BY DEF CallsInv
<1>. QED
  BY <1>1, <1>2, <1>3, PTL DEF CallsSpec

\* A side-effecting step whose timer expires before its client's is not repeated after
\* a request without an answer; and a step fails only with its retries used up, unless
\* one of them would be dangerous, the run was cancelled, or an agent's error output
\* was taken (server.go:208 executeNodeWithPolicy).
THEOREM RetriesAreSafeAlways == CallsSpec => RetriesAreSafe
<1>1. CallsInit => CallsInv
  BY CallsInitially
<1>2. CallsInv /\ [CallsNext]_callVars => CallsInv'
  BY CallsStep
<1>3. CallsInv /\ [CallsNext]_callVars => [TimedOut /\ RetriesFirst]_callVars
  <2>. SUFFICES ASSUME CallsInv, CallsNext PROVE TimedOut /\ RetriesFirst
    OBVIOUS
  <2>. USE DEF CallsInv, CallsTypeOK, Phase, Outcome
  <2>1. TimedOut
    <3>1. CASE attempt' = attempt
      BY <3>1 DEF TimedOut, NotRepeated
    <3>2. CASE attempt' # attempt
      <4>1. phase = "ready"
        BY <3>2 DEF CallsNext, Attempt, Backoff, StepTimesOut, Cancel, Succeeds, Errs, ClientTimesOut, Serve
      <4>. QED
        BY <4>1 DEF TimedOut, NotRepeated, NothingAmbiguous, Ambiguity, Earlier
    <3>. QED
      BY <3>1, <3>2
  <2>2. RetriesFirst
    <3>1. CASE Attempt
      BY <3>1 DEF RetriesFirst, Attempt
    <3>2. CASE StepTimesOut
      <4>1. \/ phase' = "sleeping" \/ attempt = Retries + 1 \/ ~MayRetry(TRUE)
            \/ cfg.type = "agent_call" /\ phase' = "routed"
        BY <3>2, AfterErrorLeads DEF StepTimesOut
      <4>2. fate'[attempt] = "running"
        BY <3>2 DEF StepTimesOut, AttemptsCounted
      <4>. QED
        BY <4>1, <4>2 DEF RetriesFirst, MayRetry
    <3>3. ASSUME NEW i \in 1 .. attempt, Errs(i) \/ ClientTimesOut(i)
          PROVE  RetriesFirst
      <4>1. CASE AfterError(FALSE)
        <5>1. \/ phase' = "sleeping" \/ attempt = Retries + 1 \/ ~MayRetry(FALSE)
              \/ cfg.type = "agent_call" /\ phase' = "routed"
          BY <4>1, AfterErrorLeads
        <5>. QED
          BY <5>1 DEF RetriesFirst, MayRetry
      <4>2. CASE UNCHANGED phase
        BY <4>2 DEF RetriesFirst
      <4>. QED
        BY <3>3, <4>1, <4>2 DEF Errs, ClientTimesOut
    <3>4. CASE Backoff \/ Cancel
      BY <3>4 DEF RetriesFirst, Backoff, Cancel
    <3>5. ASSUME NEW i \in 1 .. attempt, Succeeds(i) \/ Serve(i)
          PROVE  RetriesFirst
      BY <3>5 DEF RetriesFirst, Succeeds, Serve
    <3>. QED
      BY <3>1, <3>2, <3>3, <3>4, <3>5 DEF CallsNext
  <2>. QED
    BY <2>1, <2>2
<1>. QED
  BY <1>1, <1>2, <1>3, PTL DEF CallsSpec, RetriesAreSafe
-----------------------------------------------------------------------------
(* Decisions. *)

\* A model's replies, and those of a service that is not called at all.
AnyReply == Reply \cup [status : {0, 401}]

\* The step names service p itself, or settings in force since it began do.
Justified(p) == IF NamesProvider THEN p = ask.provider ELSE NamedBySettings(p)

\* What was in force, the last of it now; and the copy that a provider is chosen with.
AllSettings == InitialSettings \cup NewSettings
SettingsSeen ==
  /\ seen \in Seq(AllSettings) /\ seen # <<>> /\ settings = seen[Len(seen)]
  /\ stage \in {"choosing", "detecting"} =>
       /\ ~NamesProvider
       /\ \E i \in DOMAIN seen : seen[i] = read
       /\ stage = "detecting" => read.provider = "auto"

\* The calls so far: whom the step asked, and what came back.
CallsJustified ==
  /\ \E S : asked \in Seq(S)
  /\ \A i \in DOMAIN asked : asked[i].reply \in AnyReply /\ Justified(asked[i].provider)

\* The service the step has chosen, until it has an answer or none.
ChosenJustified ==
  /\ stage \in {"checking", "model", "listing", "calling"} => Justified(chosen.provider)
  /\ stage \in {"model", "listing", "calling", "answered"} => chosen.provider # "simulation"
  /\ stage = "checking" => ask.kind = "completion"
  /\ stage = "unanswered" /\ ask.kind = "decision" => chosen.provider # "simulation"
  /\ stage = "answered" => asked # <<>> /\ asked[Len(asked)].provider = chosen.provider
  /\ stage = "rules" => ask.kind = "decision" /\ (chosen.provider # "simulation" => ~ask.strict)

\* A decision step goes on asking, or turns to the rules, only without a valid reply.
RepliesRejected ==
  /\ stage \in {"sidecar", "provider", "choosing", "detecting", "checking", "model", "listing"} => asked = <<>>
  /\ ask.kind = "decision" =>
       /\ stage \in {"calling", "unanswered", "rules"} => \A i \in DOMAIN asked : ~Acceptable(asked[i].reply)
       /\ stage = "answered" => \A i \in 1 .. Len(asked) - 1 : ~Acceptable(asked[i].reply)
       /\ stage = "rules" /\ chosen.provider = "simulation" => asked = <<>>

DecisionsInv == SettingsSeen /\ CallsJustified /\ ChosenJustified /\ RepliesRejected /\ AnswersAreAttributed

\* An object is not prose: its decision and its confidence are what the step takes from it.
LEMMA ObjectIsTaken ==
  ASSUME NEW reply \in AnyReply, IsObject(reply)
  PROVE  Words(reply).decision = reply.decision /\ Words(reply).confidence \in Int
<1>1. CASE reply \in [status : {200}, prose : {TRUE}]
  <2>1. DOMAIN reply = {"status", "prose"}
    BY <1>1
  <2>. QED
    BY <2>1 DEF IsObject
<1>2. CASE reply \in [status : {0, 400, 404, 429, 503}] \/ reply \in [status : {0, 401}]
  <2>1. DOMAIN reply = {"status"}
    BY <1>2
  <2>. QED
    BY <2>1 DEF IsObject
<1>3. CASE reply \in [status : {200}, decision : {"", "APPROVE", "ESCALATE", "maybe"}, confidence : {0, 50, 90}]
  <2>1. DOMAIN reply = {"status", "decision", "confidence"}
    BY <1>3
  <2>2. reply.confidence \in Int
    <3>1. reply.confidence \in {0, 50, 90}
      BY <1>3, Zenon
    <3>. QED
      BY <3>1
  <2>. QED
    BY <2>1, <2>2 DEF Words
<1>4. AnyReply = [status : {200}, decision : {"", "APPROVE", "ESCALATE", "maybe"}, confidence : {0, 50, 90}]
                 \cup [status : {200}, prose : {TRUE}] \cup [status : {0, 400, 404, 429, 503}]
                 \cup [status : {0, 401}]
  BY Zenon DEF AnyReply, Reply
<1>. QED
  BY <1>1, <1>2, <1>3, <1>4, Zenon

\* A provider that is found by one copy of the settings and by those of now is one that
\* the copy names, or leaves open, and that one of the two describes.
LEMMA ProviderIsNamed ==
  ASSUME NEW s, NEW now, s.provider \in Providers \cup {"simulation", "auto"},
         NEW p, p = Provider(s, now)
  PROVE  /\ p \in Providers \cup {"simulation", "detect"}
         /\ p \in Providers => /\ s.provider \in {p, "auto"}
                               /\ Configured(p, s) \/ (p # "anthropic" /\ Configured(p, now))
         /\ p = "detect" => s.provider = "auto"
BY DEF Provider, Providers, AutoProvider, Configured, HasOllamaURL

\* Both are among the settings seen, the one of now last.
LEMMA ProviderIsJustified ==
  ASSUME SettingsSeen, NEW i \in DOMAIN seen, NEW p \in Providers, seen[i].provider \in {p, "auto"},
         Configured(p, seen[i]) \/ (p # "anthropic" /\ Configured(p, settings)), ~NamesProvider
  PROVE  Justified(p)
<1>1. i \in 1 .. Len(seen) /\ Len(seen) \in Nat
  BY DEF SettingsSeen
<1>2. i \in i .. Len(seen) /\ Len(seen) \in i .. Len(seen)
  BY <1>1
<1>3. \E j \in i .. Len(seen) : Configured(p, seen[j]) /\ (p = "anthropic" => j = i)
  <2>1. CASE Configured(p, seen[i])
    BY <1>2, <2>1
  <2>2. CASE p # "anthropic" /\ Configured(p, settings)
    BY <1>2, <2>2 DEF SettingsSeen
  <2>. QED
    BY <2>1, <2>2
<1>. QED
  BY <1>3 DEF Justified, NamedBySettings

\* What was justified stays so: no setting is forgotten.
LEMMA JustifiedKept ==
  ASSUME NEW p, Justified(p), UNCHANGED <<ask, seen>>
  PROVE  Justified(p)'
BY DEF Justified, NamesProvider, NamedBySettings

LEMMA JustifiedStays ==
  ASSUME SettingsSeen, NEW p, Justified(p), ask' = ask, NEW s, seen' = Append(seen, s)
  PROVE  Justified(p)'
<1>1. CASE NamesProvider
  BY <1>1 DEF Justified, NamesProvider
<1>2. CASE ~NamesProvider
  <2>0. PICK i \in DOMAIN seen :
          /\ seen[i].provider \in {p, "auto"}
          /\ \E j \in i .. Len(seen) : Configured(p, seen[j]) /\ (p = "anthropic" => j = i)
    BY <1>2 DEF Justified, NamedBySettings
  <2>1. PICK j \in i .. Len(seen) : Configured(p, seen[j]) /\ (p = "anthropic" => j = i)
    BY <2>0
  <2>2. PICK S : seen \in Seq(S)
    BY DEF SettingsSeen
  <2>3. seen \in Seq(S \cup {s}) /\ i \in 1 .. Len(seen) /\ j \in 1 .. Len(seen) /\ Len(seen) \in Nat
    BY <2>0, <2>1, <2>2
  <2>4. /\ i \in DOMAIN seen' /\ j \in i .. Len(seen')
        /\ seen'[i] = seen[i] /\ seen'[j] = seen[j]
    BY <2>1, <2>3
  <2>5. NamedBySettings(p)'
    BY <2>0, <2>1, <2>4 DEF NamedBySettings, Configured, HasOllamaURL
  <2>. QED
    BY <1>2, <2>5 DEF Justified, NamesProvider
<1>. QED
  BY <1>1, <1>2

\* A step that calls nobody keeps the calls justified.
LEMMA CallsKept ==
  ASSUME CallsJustified, UNCHANGED <<ask, asked, seen>>
  PROVE  CallsJustified'
<1>1. \A i \in DOMAIN asked : Justified(asked[i].provider)'
  BY JustifiedKept DEF CallsJustified, Justified
<1>. QED
  BY <1>1 DEF CallsJustified

LEMMA SettingsKept ==
  ASSUME SettingsSeen, UNCHANGED <<settings, seen>>, stage' \notin {"choosing", "detecting"}
  PROVE  SettingsSeen'
BY DEF SettingsSeen

\* Where nothing has been asked, nothing is attributed to anybody.
LEMMA NothingAttributed ==
  ASSUME CallsJustified', stage' = "done" => decided'.by \notin Providers \cup {"simulation"}
  PROVE  AnswersAreAttributed'
BY DEF AnswersAreAttributed, CallsJustified, Justified

\* The sidecar's answer, or going on to a provider.
LEMMA SidecarKeeps == DecisionsInv /\ AskSidecar => DecisionsInv'
<1>. SUFFICES ASSUME DecisionsInv, AskSidecar PROVE DecisionsInv'
  OBVIOUS
<1>1. UNCHANGED <<settings, seen, ask, asked>> /\ asked = <<>>
  BY DEF AskSidecar, FinishWith, DecisionsInv, RepliesRejected
<1>3. \/ stage' = "done" /\ decided'.by = "sidecar"
      \/ stage' \in {"provider", "sidecar"}
  <2>1. \/ \E reply \in {NoReply, [decision |-> "APPROVE", confidence |-> 90],
                          [decision |-> "ESCALATE", confidence |-> 50]} :
             FinishWith("sidecar", reply, IF reply = NoReply THEN "" ELSE Routing(reply), FALSE)
        \/ \E status \in {0, 400, 429, 503} :
             stage' = IF Refused(status) \/ tries' = 3 THEN "provider" ELSE "sidecar"
    BY DEF AskSidecar
  <2>2. ASSUME NEW reply, FinishWith("sidecar", reply, IF reply = NoReply THEN "" ELSE Routing(reply), FALSE)
        PROVE  stage' = "done" /\ decided'.by = "sidecar"
    BY <2>2 DEF FinishWith
  <2>. QED
    BY <2>1, <2>2
<1>2. SettingsSeen' /\ CallsJustified'
  BY <1>1, <1>3, CallsKept, SettingsKept DEF DecisionsInv
<1>4. ChosenJustified' /\ RepliesRejected'
  BY <1>1, <1>3 DEF ChosenJustified, RepliesRejected
<1>5. AnswersAreAttributed'
  BY <1>2, <1>3, NothingAttributed DEF Providers
<1>. QED
  BY <1>2, <1>4, <1>5 DEF DecisionsInv

\* A step that ends without an answer attributes none.
LEMMA NoAnswerKeeps ==
  ASSUME DecisionsInv, NoAnswer, asked' = asked
  PROVE  DecisionsInv'
<1>1. /\ stage' = "done" /\ decided'.by = ""
      /\ UNCHANGED <<settings, seen, ask>>
  BY DEF NoAnswer, Nothing
<1>2. SettingsSeen' /\ CallsJustified'
  BY <1>1, CallsKept, SettingsKept DEF DecisionsInv
<1>3. ChosenJustified' /\ RepliesRejected'
  BY <1>1 DEF ChosenJustified, RepliesRejected
<1>4. AnswersAreAttributed'
  BY <1>1, <1>2, NothingAttributed DEF Providers
<1>. QED
  BY <1>2, <1>3, <1>4 DEF DecisionsInv

\* The copy of the settings is the last of those seen.
LEMMA ReadSettingsKeeps == DecisionsInv /\ ReadSettings => DecisionsInv'
<1>. SUFFICES ASSUME DecisionsInv, ReadSettings PROVE DecisionsInv'
  OBVIOUS
<1>1. /\ UNCHANGED <<settings, seen, ask, asked>> /\ asked = <<>> /\ read' = settings
      /\ chosen'.provider = IF NamesProvider THEN ask.provider ELSE ""
      /\ stage' = IF NamesProvider THEN "checking" ELSE "choosing"
  BY DEF ReadSettings, DecisionsInv, RepliesRejected
<1>2. SettingsSeen'
  <2>1. Len(seen) \in DOMAIN seen
    BY DEF DecisionsInv, SettingsSeen
  <2>. QED
    BY <1>1, <2>1 DEF DecisionsInv, SettingsSeen, NamesProvider
<1>3. CallsJustified'
  BY <1>1, CallsKept DEF DecisionsInv
<1>4. ChosenJustified' /\ RepliesRejected'
  BY <1>1 DEF ChosenJustified, RepliesRejected, Justified, NamesProvider
<1>5. AnswersAreAttributed'
  BY <1>1, <1>3, NothingAttributed
<1>. QED
  BY <1>2, <1>3, <1>4, <1>5 DEF DecisionsInv

\* A provider that is justified is chosen, or none.
LEMMA ChoosesKeeps ==
  ASSUME DecisionsInv, asked = <<>>, NEW p, Chooses(p), p = "simulation" \/ Justified(p),
         UNCHANGED <<settings, seen, ask, asked>>
  PROVE  DecisionsInv'
<1>1. /\ chosen'.provider = p
      /\ stage' = IF p = "simulation" THEN NoProvider ELSE IF ask.kind = "completion" THEN "checking" ELSE "model"
  BY DEF Chooses
<1>2. stage' \in {"rules", "unanswered", "checking", "model"}
  BY <1>1 DEF NoProvider
<1>3. SettingsSeen' /\ CallsJustified'
  BY <1>2, CallsKept, SettingsKept DEF DecisionsInv
<1>4. stage' \in {"checking", "model"} => p # "simulation" /\ Justified(chosen.provider)'
  BY <1>1, JustifiedKept DEF NoProvider, Justified
<1>5. /\ stage' = "unanswered" /\ ask.kind = "decision" => p # "simulation"
      /\ stage' = "rules" => ask.kind = "decision" /\ p = "simulation"
      /\ stage' = "checking" => ask.kind = "completion"
  BY <1>1 DEF NoProvider
<1>6. ChosenJustified' /\ RepliesRejected'
  BY <1>1, <1>2, <1>4, <1>5 DEF ChosenJustified, RepliesRejected
<1>7. AnswersAreAttributed'
  BY <1>2, <1>3, NothingAttributed
<1>. QED
  BY <1>3, <1>6, <1>7 DEF DecisionsInv

\* The copy and the settings of the moment choose the provider.
LEMMA ChooseProviderKeeps == DecisionsInv /\ ChooseProvider => DecisionsInv'
<1>. SUFFICES ASSUME DecisionsInv, ChooseProvider PROVE DecisionsInv'
  OBVIOUS
<1>1. /\ UNCHANGED <<settings, seen, read, ask, asked>> /\ asked = <<>> /\ stage = "choosing" /\ ~NamesProvider
  BY DEF ChooseProvider, DecisionsInv, RepliesRejected, SettingsSeen
<1>2. PICK i \in DOMAIN seen : seen[i] = read
  BY <1>1 DEF DecisionsInv, SettingsSeen
<1>3. read.provider \in Providers \cup {"simulation", "auto"}
  BY <1>2, SettingsAssumption DEF DecisionsInv, SettingsSeen, AllSettings
<1>4. PICK p : p = Provider(read, settings)
  OBVIOUS
<1>5. /\ p \in Providers \cup {"simulation", "detect"}
      /\ p \in Providers => /\ read.provider \in {p, "auto"}
                            /\ Configured(p, read) \/ (p # "anthropic" /\ Configured(p, settings))
      /\ p = "detect" => read.provider = "auto"
  BY <1>3, <1>4, ProviderIsNamed
<1>6. CASE p = "detect"
  <2>1. stage' = "detecting" /\ chosen' = chosen
    BY <1>4, <1>6 DEF ChooseProvider
  <2>2. SettingsSeen'
    BY <1>1, <1>2, <1>5, <1>6 DEF DecisionsInv, SettingsSeen, NamesProvider
  <2>3. CallsJustified'
    BY <1>1, CallsKept DEF DecisionsInv
  <2>4. ChosenJustified' /\ RepliesRejected'
    BY <1>1, <2>1 DEF ChosenJustified, RepliesRejected
  <2>5. AnswersAreAttributed'
    BY <2>1, <2>3, NothingAttributed
  <2>. QED
    BY <2>2, <2>3, <2>4, <2>5 DEF DecisionsInv
<1>7. CASE p # "detect"
  <2>1. Chooses(p)
    BY <1>4, <1>7 DEF ChooseProvider
  <2>2. p = "simulation" \/ Justified(p)
    BY <1>1, <1>2, <1>5, <1>7, ProviderIsJustified DEF DecisionsInv
  <2>. QED
    BY <1>1, <2>1, <2>2, ChoosesKeeps
<1>. QED
  BY <1>6, <1>7

LEMMA DetectOllamaKeeps == DecisionsInv /\ DetectOllama => DecisionsInv'
<1>. SUFFICES ASSUME DecisionsInv, DetectOllama PROVE DecisionsInv'
  OBVIOUS
<1>1. /\ UNCHANGED <<settings, seen, read, ask, asked>> /\ asked = <<>> /\ ~NamesProvider
      /\ read.provider = "auto"
  BY DEF DetectOllama, DecisionsInv, RepliesRejected, SettingsSeen
<1>2. PICK i \in DOMAIN seen : seen[i] = read
  BY DEF DetectOllama, DecisionsInv, SettingsSeen
<1>3. PICK p : ((p = "ollama" /\ HasOllamaURL(settings)) \/ p = "simulation") /\ Chooses(p)
  <2>1. PICK listing \in Listings : Chooses(IF Detected(settings, listing) THEN "ollama" ELSE "simulation")
    BY DEF DetectOllama
  <2>2. CASE Detected(settings, listing)
    BY <2>1, <2>2 DEF Detected
  <2>3. CASE ~Detected(settings, listing)
    BY <2>1, <2>3
  <2>. QED
    BY <2>2, <2>3
<1>4. p = "simulation" \/ Justified(p)
  BY <1>1, <1>2, <1>3, ProviderIsJustified DEF DecisionsInv, Configured, Providers
<1>. QED
  BY <1>1, <1>3, <1>4, ChoosesKeeps

\* Only a provider with an address or a key is gone on with; then its model is chosen.
LEMMA ModelKeeps ==
  ASSUME DecisionsInv, CheckProvider \/ ChooseModel \/ ListModels
  PROVE  DecisionsInv'
<1>1. /\ UNCHANGED <<settings, seen, ask, asked>> /\ asked = <<>>
      /\ stage \in {"checking", "model", "listing"}
      /\ stage' \in {"model", "listing", "calling", "unanswered"}
  BY DEF CheckProvider, ChooseModel, ListModels, DecisionsInv, RepliesRejected
<1>2. chosen'.provider = chosen.provider
  BY DEF CheckProvider, ChooseModel, ListModels
<1>3. stage' # "unanswered" \/ ask.kind = "decision" => chosen.provider # "simulation"
  <2>1. CASE CheckProvider
    BY <1>1, <2>1 DEF CheckProvider, Configured, DecisionsInv, ChosenJustified
  <2>2. CASE ChooseModel \/ ListModels
    BY <2>2 DEF ChooseModel, ListModels, DecisionsInv, ChosenJustified
  <2>. QED
    BY <2>1, <2>2
<1>4. SettingsSeen' /\ CallsJustified'
  BY <1>1, CallsKept, SettingsKept DEF DecisionsInv
<1>5. Justified(chosen.provider)'
  BY <1>1, <1>2, JustifiedKept DEF DecisionsInv, ChosenJustified, Justified
<1>6. ChosenJustified' /\ RepliesRejected'
  BY <1>1, <1>2, <1>3, <1>5 DEF ChosenJustified, RepliesRejected
<1>7. AnswersAreAttributed'
  BY <1>1, <1>4, NothingAttributed
<1>. QED
  BY <1>4, <1>6, <1>7 DEF DecisionsInv

\* What came back, of the call just made: whoever has it gets to use it.
LEMMA CallModelKeeps == DecisionsInv /\ CallModel => DecisionsInv'
<1>. SUFFICES ASSUME DecisionsInv, CallModel PROVE DecisionsInv'
  OBVIOUS
<1>1. UNCHANGED <<settings, seen, ask, chosen, decided>> /\ stage = "calling"
  BY DEF CallModel
<1>2. PICK reply :
        /\ reply \in IF Configured(chosen.provider, settings) THEN Reply
                     ELSE IF chosen.provider = "anthropic" THEN [status : {401}] ELSE [status : {0}]
        /\ asked' = Append(asked, [provider |-> chosen.provider, model |-> chosen.model, reply |-> reply])
        /\ stage' = IF IsObject(reply) \/ (ask.kind = "completion" /\ ~ask.json /\ reply.status = 200) THEN "answered"
                    ELSE IF tries' < MaxTries /\ WorthRepeating(chosen.provider, reply.status) THEN "calling"
                    ELSE "unanswered"
  BY DEF CallModel
<1>3. reply \in AnyReply
  <2>1. CASE Configured(chosen.provider, settings)
    BY <1>2, <2>1, Zenon DEF AnyReply
  <2>2. CASE ~Configured(chosen.provider, settings)
    <3>1. reply \in [status : {401}] \/ reply \in [status : {0}]
      BY <1>2, <2>2
    <3>2. reply \in [status : {0, 401}]
      BY <3>1
    <3>. QED
      BY <3>2, Zenon DEF AnyReply
  <2>. QED
    BY <2>1, <2>2
<1>4. PICK S : asked \in Seq(S)
  BY DEF DecisionsInv, CallsJustified
<1>5. PICK e : e = [provider |-> chosen.provider, model |-> chosen.model, reply |-> reply]
  OBVIOUS
<1>6. asked' = Append(asked, e) /\ e.provider = chosen.provider /\ e.reply = reply
  BY <1>2, <1>5
<1>7. /\ asked' \in Seq(S \cup {e}) /\ Len(asked') = Len(asked) + 1 /\ asked' # <<>>
      /\ asked'[Len(asked')] = e
      /\ \A i \in DOMAIN asked' : asked'[i] = e \/ (i \in DOMAIN asked /\ asked'[i] = asked[i])
      /\ \A i \in 1 .. Len(asked') - 1 : i \in DOMAIN asked /\ asked'[i] = asked[i]
  <2>1. asked \in Seq(S \cup {e})
    BY <1>4
  <2>. QED
    BY <1>6, <2>1
<1>8. Justified(chosen.provider)
  BY <1>1 DEF DecisionsInv, ChosenJustified
<1>9. CallsJustified'
  <2>1. \A i \in DOMAIN asked' : asked'[i].reply \in AnyReply
    BY <1>3, <1>6, <1>7 DEF DecisionsInv, CallsJustified
  <2>2. \A i \in DOMAIN asked' : Justified(asked'[i].provider)
    BY <1>6, <1>7, <1>8 DEF DecisionsInv, CallsJustified
  <2>3. \A i \in DOMAIN asked' : Justified(asked[i].provider)'
    BY <1>1, <2>2 DEF Justified, NamesProvider, NamedBySettings
  <2>4. \E T : asked' \in Seq(T)
    BY <1>7
  <2>. QED
    BY <2>1, <2>3, <2>4 DEF CallsJustified
<1>10. stage' \in {"answered", "calling", "unanswered"}
  BY <1>2
<1>11. ChosenJustified'
  <2>1. chosen.provider # "simulation"
    BY <1>1 DEF DecisionsInv, ChosenJustified
  <2>2. Justified(chosen.provider)'
    BY <1>1, <1>8 DEF Justified, NamesProvider, NamedBySettings
  <2>. QED
    BY <1>1, <1>6, <1>7, <1>10, <2>1, <2>2 DEF ChosenJustified
<1>12. RepliesRejected'
  <2>. SUFFICES ASSUME ask.kind = "decision"
                PROVE  /\ stage' # "answered" => \A i \in DOMAIN asked' : ~Acceptable(asked'[i].reply)
                       /\ \A i \in 1 .. Len(asked') - 1 : ~Acceptable(asked'[i].reply)
    BY <1>1, <1>10 DEF RepliesRejected, Acceptable
  <2>1. \A i \in DOMAIN asked : ~Acceptable(asked[i].reply)
    BY <1>1 DEF DecisionsInv, RepliesRejected
  <2>2. stage' # "answered" => ~Acceptable(reply)
    BY <1>2 DEF Acceptable
  <2>. QED
    BY <1>6, <1>7, <2>1, <2>2
<1>13. AnswersAreAttributed'
  BY <1>9, <1>10, NothingAttributed
<1>14. SettingsSeen'
  BY <1>1, <1>10, SettingsKept DEF DecisionsInv
<1>. QED
  BY <1>9, <1>11, <1>12, <1>13, <1>14 DEF DecisionsInv

\* An answer is taken from the provider that gave it, if it is one.
LEMMA AcceptAnswerKeeps == DecisionsInv /\ AcceptAnswer => DecisionsInv'
<1>. SUFFICES ASSUME DecisionsInv, AcceptAnswer PROVE DecisionsInv'
  OBVIOUS
<1>1. /\ UNCHANGED <<settings, seen, ask, asked, chosen>> /\ stage = "answered" /\ stage' = "done"
      /\ Acceptable(LastReply)
      /\ decided'.by = chosen.provider /\ decided'.reply = Words(LastReply)
  BY DEF AcceptAnswer, FinishWith
<1>2. SettingsSeen' /\ CallsJustified'
  BY <1>1, CallsKept, SettingsKept DEF DecisionsInv
<1>3. ChosenJustified' /\ RepliesRejected'
  BY <1>1 DEF ChosenJustified, RepliesRejected
<1>4. /\ chosen.provider # "simulation"
      /\ asked # <<>> /\ asked[Len(asked)].provider = chosen.provider
  BY <1>1 DEF DecisionsInv, ChosenJustified
<1>5. LastReply \in AnyReply
  <2>1. Len(asked) \in DOMAIN asked
    BY <1>4 DEF DecisionsInv, CallsJustified
  <2>. QED
    BY <2>1 DEF LastReply, DecisionsInv, CallsJustified
<1>6. ask.kind = "decision" => IsObject(LastReply) /\ LastReply.decision # ""
        /\ (ask.standard => LastReply.decision \in {"APPROVE", "REJECT", "ESCALATE"})
  BY <1>1 DEF Acceptable
<1>7. IsObject(LastReply) => Words(LastReply).decision = LastReply.decision
  <2>1. \A reply \in AnyReply : IsObject(reply) => Words(reply).decision = reply.decision
    BY ObjectIsTaken
  <2>. QED
    BY <1>5, <2>1
<1>8. Words(LastReply)' = Words(LastReply)
  BY <1>1 DEF Words, LastReply
<1>9. /\ asked' # <<>> /\ asked'[Len(asked')].provider = decided'.by /\ Words(LastReply)' = decided'.reply
      /\ decided'.by # "simulation"
  BY <1>1, <1>4, <1>8
<1>10. ask'.kind = "decision" => decided'.reply.decision # ""
         /\ (ask'.standard => decided'.reply.decision \in {"APPROVE", "REJECT", "ESCALATE"})
  BY <1>1, <1>6, <1>7
<1>11. (\A i \in DOMAIN asked : IF NamesProvider THEN asked[i].provider = ask.provider
                               ELSE NamedBySettings(asked[i].provider))'
  BY <1>2 DEF CallsJustified, Justified
<1>12. AnswersAreAttributed'
  BY <1>9, <1>10, <1>11 DEF AnswersAreAttributed
<1>. QED
  BY <1>2, <1>3, <1>12 DEF DecisionsInv

\* The rules' answer is marked as what it is.
LEMMA AnswerByRulesKeeps == DecisionsInv /\ AnswerByRules => DecisionsInv'
<1>. SUFFICES ASSUME DecisionsInv, AnswerByRules PROVE DecisionsInv'
  OBVIOUS
<1>1. /\ UNCHANGED <<settings, seen, ask, asked, chosen>> /\ stage = "rules" /\ stage' = "done"
      /\ decided'.by = "simulation" /\ decided'.downgraded = (chosen.provider # "simulation")
  BY DEF AnswerByRules, FinishWith
<1>2. SettingsSeen' /\ CallsJustified'
  BY <1>1, CallsKept, SettingsKept DEF DecisionsInv
<1>3. ChosenJustified' /\ RepliesRejected'
  BY <1>1 DEF ChosenJustified, RepliesRejected
<1>4. /\ ask.kind = "decision" /\ (chosen.provider # "simulation" => ~ask.strict)
      /\ \A i \in DOMAIN asked : ~Acceptable(asked[i].reply)
      /\ chosen.provider = "simulation" => asked = <<>>
  BY <1>1 DEF DecisionsInv, ChosenJustified, RepliesRejected
<1>5. (\A i \in DOMAIN asked : ~Acceptable(asked[i].reply))'
  BY <1>1, <1>4 DEF Acceptable
<1>6. (\A i \in DOMAIN asked : IF NamesProvider THEN asked[i].provider = ask.provider
                               ELSE NamedBySettings(asked[i].provider))'
  BY <1>2 DEF CallsJustified, Justified
<1>7. AnswersAreAttributed'
  BY <1>1, <1>4, <1>5, <1>6 DEF AnswersAreAttributed, Providers
<1>. QED
  BY <1>2, <1>3, <1>7 DEF DecisionsInv

\* Where a model's reply is not taken, the rules answer unless the step is strict.
LEMMA FallBackKeeps == DecisionsInv /\ FallBack => DecisionsInv'
<1>. SUFFICES ASSUME DecisionsInv, FallBack PROVE DecisionsInv'
  OBVIOUS
<1>1. CASE MayDowngrade
  <2>1. /\ UNCHANGED <<settings, seen, ask, chosen, asked>> /\ stage' = "rules"
        /\ stage = "unanswered" \/ (stage = "answered" /\ ~Acceptable(LastReply))
    BY <1>1 DEF FallBack
  <2>2. SettingsSeen' /\ CallsJustified'
    BY <2>1, CallsKept, SettingsKept DEF DecisionsInv
  <2>3. ChosenJustified'
    BY <1>1, <2>1 DEF ChosenJustified, MayDowngrade
  <2>4. \A i \in DOMAIN asked : ~Acceptable(asked[i].reply)
    <3>1. CASE stage = "unanswered"
      BY <1>1, <3>1 DEF MayDowngrade, DecisionsInv, RepliesRejected
    <3>2. CASE stage = "answered"
      <4>1. \A i \in 1 .. Len(asked) - 1 : ~Acceptable(asked[i].reply)
        BY <1>1, <3>2 DEF MayDowngrade, DecisionsInv, RepliesRejected
      <4>2. ~Acceptable(asked[Len(asked)].reply)
        BY <2>1, <3>2 DEF LastReply
      <4>3. \A i \in DOMAIN asked : i = Len(asked) \/ i \in 1 .. Len(asked) - 1
        BY DEF DecisionsInv, CallsJustified
      <4>. QED
        BY <4>1, <4>2, <4>3
    <3>. QED
      BY <2>1, <3>1, <3>2
  <2>5. chosen.provider # "simulation"
    BY <1>1, <2>1 DEF DecisionsInv, ChosenJustified, MayDowngrade
  <2>6. RepliesRejected'
    BY <2>1, <2>4, <2>5 DEF RepliesRejected, Acceptable
  <2>7. AnswersAreAttributed'
    BY <2>1, <2>2, NothingAttributed
  <2>. QED
    BY <2>2, <2>3, <2>6, <2>7 DEF DecisionsInv
<1>2. CASE ~MayDowngrade
  BY <1>2, NoAnswerKeeps DEF FallBack
<1>. QED
  BY <1>1, <1>2

\* New settings forget none of those before them.
LEMMA SetConfigKeeps == DecisionsInv /\ SetConfig => DecisionsInv'
<1>. SUFFICES ASSUME DecisionsInv, SetConfig PROVE DecisionsInv'
  OBVIOUS
<1>1. /\ UNCHANGED <<read, ask, stage, chosen, asked, decided>> /\ stage # "done"
      /\ settings' \in NewSettings /\ seen' = Append(seen, settings')
  BY DEF SetConfig
<1>2. PICK s \in AllSettings : s = settings'
  BY <1>1 DEF AllSettings
<1>3. seen \in Seq(AllSettings) /\ seen' = Append(seen, s)
  BY <1>1, <1>2 DEF DecisionsInv, SettingsSeen
<1>4. \A p : Justified(p) => Justified(p)'
  BY <1>1, <1>3, JustifiedStays DEF DecisionsInv
<1>5. SettingsSeen'
  <2>1. /\ seen' \in Seq(AllSettings) /\ seen' # <<>> /\ settings' = seen'[Len(seen')]
        /\ \A i \in DOMAIN seen : i \in DOMAIN seen' /\ seen'[i] = seen[i]
    BY <1>2, <1>3
  <2>. QED
    BY <1>1, <2>1 DEF DecisionsInv, SettingsSeen, NamesProvider
<1>6. CallsJustified'
  <2>1. \A i \in DOMAIN asked : Justified(asked[i].provider)'
    BY <1>1, <1>4 DEF DecisionsInv, CallsJustified, Justified
  <2>. QED
    BY <1>1, <2>1 DEF DecisionsInv, CallsJustified
<1>7. stage' \in {"checking", "model", "listing", "calling"} => Justified(chosen.provider)'
  BY <1>1, <1>4 DEF DecisionsInv, ChosenJustified, Justified
<1>8. ChosenJustified'
  BY <1>1, <1>7 DEF DecisionsInv, ChosenJustified
<1>9. RepliesRejected'
  BY <1>1 DEF DecisionsInv, RepliesRejected, Acceptable
<1>10. AnswersAreAttributed'
  BY <1>1, <1>6, NothingAttributed
<1>. QED
  BY <1>5, <1>6, <1>8, <1>9, <1>10 DEF DecisionsInv

LEMMA DecisionsInitially == DecisionsInit => DecisionsInv
<1>. SUFFICES ASSUME DecisionsInit PROVE DecisionsInv
  OBVIOUS
<1>1. asked = <<>> /\ stage \in {"sidecar", "provider"} /\ settings \in InitialSettings /\ seen = <<settings>>
  BY DEF DecisionsInit
<1>2. SettingsSeen
  BY <1>1 DEF SettingsSeen, AllSettings
<1>3. CallsJustified
  <2>1. asked \in Seq({}) /\ DOMAIN asked = {}
    BY <1>1
  <2>. QED
    BY <2>1 DEF CallsJustified
<1>. QED
  BY <1>1, <1>2, <1>3 DEF DecisionsInv, ChosenJustified, RepliesRejected, AnswersAreAttributed

LEMMA DecisionsStep == DecisionsInv /\ [DecisionsNext]_decisionVars => DecisionsInv'
<1>1. ASSUME DecisionsInv, RefuseTask PROVE DecisionsInv'
  BY <1>1, NoAnswerKeeps DEF RefuseTask
<1>2. ASSUME DecisionsInv, UNCHANGED decisionVars PROVE DecisionsInv'
  <2>1. CallsJustified'
    BY <1>2, CallsKept DEF DecisionsInv, decisionVars
  <2>2. SettingsSeen'
    BY <1>2 DEF DecisionsInv, SettingsSeen, NamesProvider, decisionVars
  <2>3. stage' \in {"checking", "model", "listing", "calling"} => Justified(chosen.provider)'
    BY <1>2 DEF DecisionsInv, ChosenJustified, Justified, NamesProvider, NamedBySettings, decisionVars
  <2>4. ChosenJustified'
    BY <1>2, <2>3 DEF DecisionsInv, ChosenJustified, decisionVars
  <2>5. RepliesRejected'
    BY <1>2 DEF DecisionsInv, RepliesRejected, Acceptable, decisionVars
  <2>6. AnswersAreAttributed'
    BY <1>2 DEF DecisionsInv, AnswersAreAttributed, decisionVars, LastReply, Words, Acceptable, NamesProvider,
                NamedBySettings
  <2>. QED
    BY <2>1, <2>2, <2>4, <2>5, <2>6 DEF DecisionsInv
<1>. QED
  BY <1>1, <1>2, SidecarKeeps, ReadSettingsKeeps, ChooseProviderKeeps, DetectOllamaKeeps, ModelKeeps, CallModelKeeps,
     AcceptAnswerKeeps, FallBackKeeps, AnswerByRulesKeeps, SetConfigKeeps DEF DecisionsNext

\* What is recorded as a provider's answer is the last reply of that provider, which the
\* step named or settings in force since it began, whatever is saved between two reads of
\* them; the rules answer only where no provider gave a valid reply, and never a strict
\* step whose provider failed (decide/engine.go:163 provider, :226 Decide, :326
\* validDecision, executor.go:274 executeAIDecision).
THEOREM AnswersAttributed == DecisionsSpec => []AnswersAreAttributed
<1>1. DecisionsInit => DecisionsInv
  BY DecisionsInitially
<1>2. DecisionsInv /\ [DecisionsNext]_decisionVars => DecisionsInv'
  BY DecisionsStep
<1>3. DecisionsInv => AnswersAreAttributed
  BY DEF DecisionsInv
<1>. QED
  BY <1>1, <1>2, <1>3, PTL DEF DecisionsSpec
-----------------------------------------------------------------------------
(* The confidence a decision claims. *)

LEMMA LeastNumber ==
  ASSUME NEW T, T \subseteq Nat, T # {}
  PROVE  \E x \in T : \A y \in T : x <= y
<1>1. PICK x \in T : \A y \in T : <<y, x>> \notin OpToRel(<, Nat)
  BY NatLessThanWellFounded, WFMin, Zenon
<1>2. ASSUME NEW y \in T PROVE x <= y
  <2>1. <<y, x>> \notin {ss \in Nat \X Nat : ss[1] < ss[2]}
    BY <1>1, Zenon DEF OpToRel
  <2>2. <<y, x>> \in Nat \X Nat /\ <<y, x>>[1] = y /\ <<y, x>>[2] = x
    OBVIOUS
  <2>3. ~(y < x)
    BY <2>1, <2>2, Zenon
  <2>. QED
    BY <2>3
<1>. QED
  BY <1>2

\* A list of rules of which one always applies, none without a confidence.
Sure(rule) == rule.reply.confidence \in 1 .. 99
Decides(rules) ==
  /\ Len(rules) \in Nat \ {0} /\ rules[Len(rules)].when
  /\ \A i \in 1 .. Len(rules) : Sure(rules[i])

LEMMA ListsDecide ==
  ASSUME NEW a, NEW b, NEW c, NEW d, NEW e, Sure(a), Sure(b), Sure(c), Sure(d), Sure(e), e.when
  PROVE  Decides(<<e>>) /\ Decides(<<d, e>>) /\ Decides(<<c, d, e>>) /\ Decides(<<b, c, d, e>>)
         /\ Decides(<<a, b, c, d, e>>)
<1>1. Decides(<<e>>)
  BY DEF Decides
<1>2. Decides(<<d, e>>)
  BY DEF Decides
<1>3. Decides(<<c, d, e>>)
  BY DEF Decides
<1>4. Decides(<<b, c, d, e>>)
  BY DEF Decides
<1>5. Decides(<<a, b, c, d, e>>)
  BY DEF Decides
<1>. QED
  BY <1>1, <1>2, <1>3, <1>4, <1>5

LEMMA RulesAreSure ==
  ASSUME NEW when, NEW decision, NEW confidence \in 1 .. 99
  PROVE  Sure(Rule(when, decision, confidence)) /\ Sure(Otherwise(confidence)) /\ Otherwise(confidence).when
BY DEF Sure, Rule, Otherwise

\* Whatever the task and the inputs, some rule applies, and it claims a confidence.
LEMMA RulesClaim ==
  ASSUME NEW task, NEW in
  PROVE  Rules(task, in).confidence \in 1 .. 99
<1>1. ASSUME task \in RuledTasks PROVE Decides(TaskRules(task, in))
  <2>1. CASE task = "fraud_risk_assessment"
    BY <2>1 DEF TaskRules, Otherwise, Rule, Decides, Sure
  <2>2. CASE task = "credit_risk_assessment"
    BY <2>2 DEF TaskRules, Otherwise, Rule, Decides, Sure
  <2>3. CASE task = "content_moderation"
    BY <2>3 DEF TaskRules, Otherwise, Rule, Decides, Sure
  <2>4. CASE task = "sentiment_analysis"
    BY <2>4 DEF TaskRules, Otherwise, Rule, Decides, Sure
  <2>5. CASE task = "invoice_approval"
    BY <2>5 DEF TaskRules, Otherwise, Rule, Decides, Sure
  <2>6. CASE task = "purchase_order_approval"
    <3>1. TaskRules(task, in) = PurchaseOrderRules(in)
      BY <2>6 DEF TaskRules
    <3>2. Decides(PurchaseOrderRules(in))
      <4>. DEFINE amount == InputNumber(in, <<"amount_total", "order.amount_total", "amount">>)
                  limit == InputNumber(in, <<"amount_limit", "policy.amount_limit">>)
                  a == Rule(amount <= 0, "REJECT", 90)
                  b == Rule(limit > 0 /\ amount > limit, "ESCALATE", 70)
                  c == Rule(in.history = <<>>, "ESCALATE", 68)
                  d == Rule(UnusualAmount(amount, Max({0} \cup Range(in.history))), "ESCALATE", 70)
      <4>1. PurchaseOrderRules(in) = <<a, b, c, d, Otherwise(86)>>
        BY Zenon DEF PurchaseOrderRules
      <4>2. Sure(a) /\ Sure(b) /\ Sure(c)
        BY DEF Rule, Sure
      <4>3. Sure(d)
        BY DEF Rule, Sure
      <4>4. Sure(Otherwise(86)) /\ Otherwise(86).when
        BY DEF Otherwise, Rule, Sure
      <4>. HIDE DEF a, b, c, d
      <4>. QED
        BY <4>1, <4>2, <4>3, <4>4, ListsDecide
    <3>. QED
      BY <3>1, <3>2
  <2>7. CASE task = "expense_audit"
    BY <2>7 DEF TaskRules, Otherwise, Rule, Decides, Sure
  <2>8. CASE task = "lead_scoring"
    BY <2>8 DEF TaskRules, Otherwise, Rule, Decides, Sure, LeadRules
  <2>9. CASE task = "supply_chain_exception"
    BY <2>9 DEF TaskRules, Otherwise, Rule, Decides, Sure
  <2>10. CASE task = "offboarding_review"
    BY <2>10 DEF TaskRules, Otherwise, Rule, Decides, Sure
  <2>. QED
    BY <1>1, <2>1, <2>2, <2>3, <2>4, <2>5, <2>6, <2>7, <2>8, <2>9, <2>10 DEF RuledTasks
<1>2. Decides(<< Otherwise(87) >>)
  BY DEF Otherwise, Rule, Decides, Sure
<1>3. PICK rules : rules = RulesOf(task, in)
  OBVIOUS
<1>4. Decides(rules)
  BY <1>1, <1>2, <1>3 DEF RulesOf
<1>5. SelectInSeq(rules, LAMBDA r : r.when) \in 1 .. Len(rules)
  <2>. DEFINE T == {i \in 1 .. Len(rules) : rules[i].when}
  <2>1. T \subseteq Nat /\ T # {}
    BY <1>4 DEF Decides
  <2>2. \E x \in T : \A y \in T : x <= y
    <3>. HIDE DEF T
    <3>. QED
      BY <2>1, LeastNumber
  <2>3. Min(T) \in T
    <3>. HIDE DEF T
    <3>. QED
      BY <2>2 DEF Min
  <2>. QED
    BY <2>1, <2>3 DEF SelectInSeq
<1>. QED
  BY <1>3, <1>4, <1>5 DEF Rules, Decides, Sure

\* Whoever answers, what falls short of the threshold is not what goes on.
LEMMA FinishIsSure ==
  ASSUME ask \in Requests, NEW by, NEW reply, reply.confidence \in Int,
         FinishWith(by, reply, Routing(reply), FALSE) \/ FinishWith(by, reply, Routing(reply), TRUE)
  PROVE  OnlySureAnswersGoOn'
<1>1. ask.threshold \in Int
  BY RequestsAssumption
<1>2. /\ ask' = ask /\ decided'.reply = reply
      /\ decided'.next = IF ask.kind = "decision" THEN Route(reply, Routing(reply)) ELSE "next"
  BY DEF FinishWith
<1>3. SUFFICES ASSUME decided'.next = "next", ask.kind = "decision", ask.fallback, ask.threshold \notin 1 .. 50
               PROVE  reply.confidence >= (IF ask.threshold > 0 THEN ask.threshold ELSE 80)
  BY <1>2 DEF OnlySureAnswersGoOn
<1>4. Routing(reply) # "escalate"
  BY <1>2, <1>3 DEF Route
<1>5. ConfidenceOf(reply) >= Threshold
  <2>1. ~(ConfidenceOf(reply) < Threshold)
    BY <1>4 DEF Routing
  <2>. QED
    BY <1>1, <2>1 DEF ConfidenceOf, Threshold
<1>. QED
  BY <1>1, <1>3, <1>5 DEF ConfidenceOf, Threshold

LEMMA SureStep ==
  DecisionsInv /\ ask \in Requests /\ OnlySureAnswersGoOn /\ [DecisionsNext]_decisionVars
    => ask' \in Requests /\ OnlySureAnswersGoOn'
<1>. SUFFICES ASSUME DecisionsInv, ask \in Requests, OnlySureAnswersGoOn, [DecisionsNext]_decisionVars
              PROVE  ask' \in Requests /\ OnlySureAnswersGoOn'
  OBVIOUS
<1>1. ask' = ask
  BY DEF DecisionsNext, decisionVars, AskSidecar, RefuseTask, ReadSettings, ChooseProvider, DetectOllama, CheckProvider,
         ChooseModel, ListModels, CallModel, AcceptAnswer, FallBack, AnswerByRules, SetConfig, FinishWith, NoAnswer
<1>2. ASSUME decided' = decided PROVE OnlySureAnswersGoOn'
  BY <1>1, <1>2 DEF OnlySureAnswersGoOn
<1>3. ASSUME NoAnswer PROVE OnlySureAnswersGoOn'
  <2>1. decided'.by = ""
    BY <1>3 DEF NoAnswer, Nothing
  <2>. QED
    BY <2>1 DEF OnlySureAnswersGoOn, Providers
<1>4. CASE AskSidecar
  <2>1. decided' = decided \/ decided'.by = "sidecar"
    <3>1. \/ \E reply \in {NoReply, [decision |-> "APPROVE", confidence |-> 90],
                            [decision |-> "ESCALATE", confidence |-> 50]} :
               FinishWith("sidecar", reply, IF reply = NoReply THEN "" ELSE Routing(reply), FALSE)
          \/ decided' = decided
      BY <1>4 DEF AskSidecar
    <3>2. ASSUME NEW reply, FinishWith("sidecar", reply, IF reply = NoReply THEN "" ELSE Routing(reply), FALSE)
          PROVE  decided'.by = "sidecar"
      BY <3>2 DEF FinishWith
    <3>. QED
      BY <3>1, <3>2
  <2>2. ASSUME decided'.by = "sidecar" PROVE OnlySureAnswersGoOn'
    BY <2>2 DEF OnlySureAnswersGoOn, Providers
  <2>. QED
    BY <1>1, <1>2, <2>1, <2>2
<1>5. CASE AcceptAnswer
  <2>1. stage = "answered" /\ Acceptable(LastReply)
    BY <1>5 DEF AcceptAnswer
  <2>2. CASE ask.kind = "decision"
    <3>1. LastReply \in AnyReply
      <4>1. Len(asked) \in DOMAIN asked
        BY <2>1 DEF DecisionsInv, ChosenJustified, CallsJustified
      <4>. QED
        BY <4>1 DEF LastReply, DecisionsInv, CallsJustified
    <3>2. IsObject(LastReply)
      BY <2>1, <2>2 DEF Acceptable
    <3>3. Words(LastReply).confidence \in Int
      <4>1. \A reply \in AnyReply : IsObject(reply) => Words(reply).confidence \in Int
        BY ObjectIsTaken
      <4>. QED
        BY <3>1, <3>2, <4>1
    <3>4. PICK by, reply : by = chosen.provider /\ reply = Words(LastReply)
      OBVIOUS
    <3>5. FinishWith(by, reply, Routing(reply), FALSE)
      BY <1>5, <3>4 DEF AcceptAnswer
    <3>. QED
      BY <1>1, <3>3, <3>4, <3>5, FinishIsSure
  <2>3. CASE ask.kind # "decision"
    BY <1>1, <2>3 DEF OnlySureAnswersGoOn
  <2>. QED
    BY <1>1, <2>2, <2>3
<1>6. CASE AnswerByRules
  <2>1. PICK reply : reply = Rules(ask.task, ask.inputs)
    OBVIOUS
  <2>2. reply.confidence \in Int
    BY <2>1, RulesClaim
  <2>3. FinishWith("simulation", reply, Routing(reply), chosen.provider # "simulation")
    BY <1>6, <2>1 DEF AnswerByRules
  <2>4. FinishWith("simulation", reply, Routing(reply), FALSE) \/ FinishWith("simulation", reply, Routing(reply), TRUE)
    <3>1. CASE chosen.provider = "simulation"
      BY <2>3, <3>1 DEF FinishWith
    <3>2. CASE chosen.provider # "simulation"
      BY <2>3, <3>2 DEF FinishWith
    <3>. QED
      BY <3>1, <3>2
  <2>. QED
    BY <1>1, <2>2, <2>4, FinishIsSure
<1>7. CASE RefuseTask \/ FallBack
  BY <1>1, <1>2, <1>3, <1>7 DEF RefuseTask, FallBack
<1>8. CASE \/ ReadSettings \/ ChooseProvider \/ DetectOllama \/ CheckProvider \/ ChooseModel \/ ListModels
           \/ CallModel \/ SetConfig \/ UNCHANGED decisionVars
  BY <1>1, <1>2, <1>8 DEF ReadSettings, ChooseProvider, DetectOllama, CheckProvider, ChooseModel, ListModels,
          CallModel, SetConfig, decisionVars
<1>. QED
  BY <1>1, <1>4, <1>5, <1>6, <1>7, <1>8 DEF DecisionsNext

\* Where the step asks for more than even odds, a decision of a model or of the rules that
\* it does not map passes its fallback by only with the confidence asked for, whatever the
\* settings, the models and their replies, and the rules' inputs are
\* (decide/engine.go:298, executor.go:425).
THEOREM OnlySureAnswersAlwaysGoOn == DecisionsSpec => []OnlySureAnswersGoOn
<1>1. DecisionsInit => DecisionsInv /\ ask \in Requests /\ OnlySureAnswersGoOn
  <2>1. DecisionsInit => ask \in Requests /\ decided = Nothing
    BY Zenon DEF DecisionsInit
  <2>2. Nothing.next = ""
    BY DEF Nothing
  <2>. QED
    BY <2>1, <2>2, DecisionsInitially DEF OnlySureAnswersGoOn
<1>2. DecisionsInv /\ [DecisionsNext]_decisionVars => DecisionsInv'
  BY DecisionsStep
<1>3. DecisionsInv /\ ask \in Requests /\ OnlySureAnswersGoOn /\ [DecisionsNext]_decisionVars
        => (ask \in Requests)' /\ OnlySureAnswersGoOn'
  BY SureStep
<1>. QED
  BY <1>1, <1>2, <1>3, PTL DEF DecisionsSpec
-----------------------------------------------------------------------------
(* The rules' caution. *)

LEMMA LeastIsMin ==
  ASSUME NEW T, T \subseteq Nat, NEW k \in T, \A j \in T : k <= j
  PROVE  Min(T) = k
<1>1. Min(T) \in T /\ \A y \in T : Min(T) <= y
  BY Zenon DEF Min
<1>2. PICK m : m = Min(T)
  OBVIOUS
<1>3. m \in Nat /\ m <= k /\ k <= m /\ k \in Nat
  BY <1>1, <1>2
<1>. QED
  BY <1>2, <1>3

\* The answer of a list of rules.
First(rules) == rules[SelectInSeq(rules, LAMBDA r : r.when)].reply

LEMMA FirstThatApplies ==
  ASSUME NEW rules, Len(rules) \in Nat, NEW k \in 1 .. Len(rules),
         rules[k].when, \A j \in 1 .. k - 1 : ~rules[j].when
  PROVE  First(rules) = rules[k].reply
<1>. DEFINE T == {i \in 1 .. Len(rules) : rules[i].when}
<1>1. T \subseteq Nat /\ k \in T
  OBVIOUS
<1>2. \A j \in T : k <= j
  OBVIOUS
<1>3. Min(T) = k
  <2>. HIDE DEF T
  <2>. QED
    BY <1>1, <1>2, LeastIsMin
<1>. QED
  BY <1>1, <1>3 DEF First, SelectInSeq


InOrder(s) == \A k \in 1 .. Len(s) :
  s[k].when /\ (\A j \in 1 .. k - 1 : ~s[j].when) => First(s) = s[k].reply

LEMMA AnswersInOrder == ASSUME NEW s, Len(s) \in Nat PROVE InOrder(s)
BY FirstThatApplies DEF InOrder

LEMMA OneRule ==
  ASSUME NEW e, e.when
  PROVE  First(<<e>>) = e.reply
<1>. DEFINE s == <<e>>
<1>1. Len(s) = 1 /\ s[1] = e
  OBVIOUS
<1>. HIDE DEF s
<1>2. InOrder(s)
  BY <1>1, AnswersInOrder
<1>3. e.when => First(s) = e.reply
  BY <1>1, <1>2 DEF InOrder
<1>. QED
  BY <1>3 DEF s

LEMMA TwoRules ==
  ASSUME NEW d, NEW e, e.when
  PROVE  First(<<d, e>>) = IF d.when THEN d.reply ELSE e.reply
<1>. DEFINE s == <<d, e>>
<1>1. Len(s) = 2 /\ s[1] = d /\ s[2] = e
  OBVIOUS
<1>. HIDE DEF s
<1>2. InOrder(s)
  BY <1>1, AnswersInOrder
<1>3. d.when => First(s) = d.reply
  BY <1>1, <1>2 DEF InOrder
<1>4. ~d.when /\ e.when => First(s) = e.reply
  BY <1>1, <1>2 DEF InOrder
<1>. QED
  BY <1>3, <1>4 DEF s

LEMMA ThreeRules ==
  ASSUME NEW c, NEW d, NEW e, e.when
  PROVE  First(<<c, d, e>>) = IF c.when THEN c.reply ELSE IF d.when THEN d.reply ELSE e.reply
<1>. DEFINE s == <<c, d, e>>
<1>1. Len(s) = 3 /\ s[1] = c /\ s[2] = d /\ s[3] = e
  OBVIOUS
<1>. HIDE DEF s
<1>2. InOrder(s)
  BY <1>1, AnswersInOrder
<1>3. c.when => First(s) = c.reply
  BY <1>1, <1>2 DEF InOrder
<1>4. ~c.when /\ d.when => First(s) = d.reply
  BY <1>1, <1>2 DEF InOrder
<1>5. ~c.when /\ ~d.when /\ e.when => First(s) = e.reply
  BY <1>1, <1>2 DEF InOrder
<1>. QED
  BY <1>3, <1>4, <1>5 DEF s

LEMMA FiveRules ==
  ASSUME NEW a, NEW b, NEW c, NEW d, NEW e, e.when
  PROVE  First(<<a, b, c, d, e>>) =
           IF a.when THEN a.reply ELSE IF b.when THEN b.reply ELSE IF c.when THEN c.reply
           ELSE IF d.when THEN d.reply ELSE e.reply
<1>. DEFINE s == <<a, b, c, d, e>>
<1>1. Len(s) = 5 /\ s[1] = a /\ s[2] = b /\ s[3] = c /\ s[4] = d /\ s[5] = e
  OBVIOUS
<1>. HIDE DEF s
<1>2. InOrder(s)
  BY <1>1, AnswersInOrder
<1>3. a.when => First(s) = a.reply
  BY <1>1, <1>2 DEF InOrder
<1>4. ~a.when /\ b.when => First(s) = b.reply
  BY <1>1, <1>2 DEF InOrder
<1>5. ~a.when /\ ~b.when /\ c.when => First(s) = c.reply
  BY <1>1, <1>2 DEF InOrder
<1>6. ~a.when /\ ~b.when /\ ~c.when /\ d.when => First(s) = d.reply
  BY <1>1, <1>2 DEF InOrder
<1>7. ~a.when /\ ~b.when /\ ~c.when /\ ~d.when /\ e.when => First(s) = e.reply
  <2>. SUFFICES ASSUME ~a.when, ~b.when, ~c.when, ~d.when, e.when PROVE First(s) = e.reply
    OBVIOUS
  <2>1. \A j \in 1 .. 4 : ~s[j].when
    <3>1. \A j \in 1 .. 4 : j = 1 \/ j = 2 \/ j = 3 \/ j = 4
      OBVIOUS
    <3>. QED
      BY <1>1, <3>1
  <2>. QED
    BY <1>1, <1>2, <2>1 DEF InOrder
<1>. QED
  BY <1>3, <1>4, <1>5, <1>6, <1>7 DEF s

Says(decision, confidence) == [decision |-> decision, confidence |-> confidence]

\* What the rules of each task come to.
LEMMA TasksAnswer ==
  ASSUME NEW in
  PROVE  /\ Rules("fraud_risk_assessment", in) =
              IF InputNumber(in, <<"amount", "transaction.amount">>) > 5000 THEN Says("ESCALATE", 71)
              ELSE IF InputNumber(in, <<"amount", "transaction.amount">>) > 2000 THEN Says("ESCALATE", 67)
              ELSE Says("APPROVE", 87)
         /\ Rules("credit_risk_assessment", in) =
              IF InputNumber(in, <<"loan_amount">>) > 100000 THEN Says("ESCALATE", 74)
              ELSE Says("APPROVE", 87)
         /\ Rules("content_moderation", in) =
              IF Mentions(in, {"spam", "hate", "violence", "scam"}) THEN Says("REJECT", 95)
              ELSE Says("APPROVE", 87)
         /\ Rules("sentiment_analysis", in) =
              Says("APPROVE", 88)
         /\ Rules("invoice_approval", in) =
              IF InputNumber(in, <<"amount", "invoice.amount">>) > 10000 THEN Says("ESCALATE", 72)
              ELSE IF in.yes \cap {"po_number", "matched_po"} = {} THEN Says("ESCALATE", 66)
              ELSE Says("APPROVE", 90)
         /\ Rules("expense_audit", in) =
              IF InputNumber(in, <<"amount">>) > 1000 THEN Says("ESCALATE", 70)
              ELSE Says("APPROVE", 88)
         /\ Rules("supply_chain_exception", in) =
              IF Mentions(in, {"critical", "high"}) \/ "stockout_risk" \in in.yes THEN Says("ESCALATE", 73)
              ELSE Says("APPROVE", 85)
         /\ Rules("offboarding_review", in) =
              IF {"legal_hold", "disputed"} \cap in.yes # {} \/ Mentions(in, {"disputed"}) THEN Says("ESCALATE", 78)
              ELSE Says("APPROVE", 90)
<1>1. \A task \in RuledTasks : Rules(task, in) = First(TaskRules(task, in))
  BY Zenon DEF Rules, First, RulesOf
<1>2. Rules("fraud_risk_assessment", in) =
       IF InputNumber(in, <<"amount", "transaction.amount">>) > 5000 THEN Says("ESCALATE", 71)
       ELSE IF InputNumber(in, <<"amount", "transaction.amount">>) > 2000 THEN Says("ESCALATE", 67)
       ELSE Says("APPROVE", 87)
  <2>. DEFINE p == InputNumber(in, <<"amount", "transaction.amount">>) > 5000
              q == InputNumber(in, <<"amount", "transaction.amount">>) > 2000
              c == Rule(p, "ESCALATE", 71)
              d == Rule(q, "ESCALATE", 67)
              e == Otherwise(87)
  <2>1. "fraud_risk_assessment" \in RuledTasks
    BY DEF RuledTasks
  <2>2. TaskRules("fraud_risk_assessment", in) = <<c, d, e>>
    BY DEF TaskRules
  <2>. HIDE DEF p, q
  <2>3. (c.when <=> p) /\ c.reply = Says("ESCALATE", 71)
    BY DEF Rule, Says
  <2>4. (d.when <=> q) /\ d.reply = Says("ESCALATE", 67)
    BY DEF Rule, Says
  <2>5. e.when /\ e.reply = Says("APPROVE", 87)
    BY DEF Otherwise, Rule, Says
  <2>. HIDE DEF c, d, e
  <2>6. First(<<c, d, e>>) = IF c.when THEN c.reply ELSE IF d.when THEN d.reply ELSE e.reply
    BY <2>5, ThreeRules
  <2>7. Rules("fraud_risk_assessment", in) = IF c.when THEN c.reply ELSE IF d.when THEN d.reply ELSE e.reply
    BY <1>1, <2>1, <2>2, <2>6
  <2>. QED
    BY <2>3, <2>4, <2>5, <2>7 DEF p, q
<1>3. Rules("credit_risk_assessment", in) =
       IF InputNumber(in, <<"loan_amount">>) > 100000 THEN Says("ESCALATE", 74)
       ELSE Says("APPROVE", 87)
  <2>. DEFINE p == InputNumber(in, <<"loan_amount">>) > 100000
              d == Rule(p, "ESCALATE", 74)
              e == Otherwise(87)
  <2>1. "credit_risk_assessment" \in RuledTasks
    BY DEF RuledTasks
  <2>2. TaskRules("credit_risk_assessment", in) = <<d, e>>
    BY DEF TaskRules
  <2>. HIDE DEF p
  <2>3. (d.when <=> p) /\ d.reply = Says("ESCALATE", 74)
    BY DEF Rule, Says
  <2>4. e.when /\ e.reply = Says("APPROVE", 87)
    BY DEF Otherwise, Rule, Says
  <2>. HIDE DEF d, e
  <2>5. First(<<d, e>>) = IF d.when THEN d.reply ELSE e.reply
    BY <2>4, TwoRules
  <2>6. Rules("credit_risk_assessment", in) = IF d.when THEN d.reply ELSE e.reply
    BY <1>1, <2>1, <2>2, <2>5
  <2>. QED
    BY <2>3, <2>4, <2>6 DEF p
<1>4. Rules("content_moderation", in) =
       IF Mentions(in, {"spam", "hate", "violence", "scam"}) THEN Says("REJECT", 95)
       ELSE Says("APPROVE", 87)
  <2>. DEFINE p == Mentions(in, {"spam", "hate", "violence", "scam"})
              d == Rule(p, "REJECT", 95)
              e == Otherwise(87)
  <2>1. "content_moderation" \in RuledTasks
    BY DEF RuledTasks
  <2>2. TaskRules("content_moderation", in) = <<d, e>>
    BY DEF TaskRules
  <2>. HIDE DEF p
  <2>3. (d.when <=> p) /\ d.reply = Says("REJECT", 95)
    BY DEF Rule, Says
  <2>4. e.when /\ e.reply = Says("APPROVE", 87)
    BY DEF Otherwise, Rule, Says
  <2>. HIDE DEF d, e
  <2>5. First(<<d, e>>) = IF d.when THEN d.reply ELSE e.reply
    BY <2>4, TwoRules
  <2>6. Rules("content_moderation", in) = IF d.when THEN d.reply ELSE e.reply
    BY <1>1, <2>1, <2>2, <2>5
  <2>. QED
    BY <2>3, <2>4, <2>6 DEF p
<1>5. Rules("sentiment_analysis", in) =
       Says("APPROVE", 88)
  <2>. DEFINE e == Otherwise(88)
  <2>1. "sentiment_analysis" \in RuledTasks
    BY DEF RuledTasks
  <2>2. TaskRules("sentiment_analysis", in) = <<e>>
    BY DEF TaskRules
  <2>3. e.when /\ e.reply = Says("APPROVE", 88)
    BY DEF Otherwise, Rule, Says
  <2>. HIDE DEF e
  <2>4. First(<<e>>) = e.reply
    BY <2>3, OneRule
  <2>5. Rules("sentiment_analysis", in) = e.reply
    BY <1>1, <2>1, <2>2, <2>4
  <2>. QED
    BY <2>3, <2>5
<1>6. Rules("invoice_approval", in) =
       IF InputNumber(in, <<"amount", "invoice.amount">>) > 10000 THEN Says("ESCALATE", 72)
       ELSE IF in.yes \cap {"po_number", "matched_po"} = {} THEN Says("ESCALATE", 66)
       ELSE Says("APPROVE", 90)
  <2>. DEFINE p == InputNumber(in, <<"amount", "invoice.amount">>) > 10000
              q == in.yes \cap {"po_number", "matched_po"} = {}
              c == Rule(p, "ESCALATE", 72)
              d == Rule(q, "ESCALATE", 66)
              e == Otherwise(90)
  <2>1. "invoice_approval" \in RuledTasks
    BY DEF RuledTasks
  <2>2. TaskRules("invoice_approval", in) = <<c, d, e>>
    BY DEF TaskRules
  <2>. HIDE DEF p, q
  <2>3. (c.when <=> p) /\ c.reply = Says("ESCALATE", 72)
    BY DEF Rule, Says
  <2>4. (d.when <=> q) /\ d.reply = Says("ESCALATE", 66)
    BY DEF Rule, Says
  <2>5. e.when /\ e.reply = Says("APPROVE", 90)
    BY DEF Otherwise, Rule, Says
  <2>. HIDE DEF c, d, e
  <2>6. First(<<c, d, e>>) = IF c.when THEN c.reply ELSE IF d.when THEN d.reply ELSE e.reply
    BY <2>5, ThreeRules
  <2>7. Rules("invoice_approval", in) = IF c.when THEN c.reply ELSE IF d.when THEN d.reply ELSE e.reply
    BY <1>1, <2>1, <2>2, <2>6
  <2>. QED
    BY <2>3, <2>4, <2>5, <2>7 DEF p, q
<1>7. Rules("expense_audit", in) =
       IF InputNumber(in, <<"amount">>) > 1000 THEN Says("ESCALATE", 70)
       ELSE Says("APPROVE", 88)
  <2>. DEFINE p == InputNumber(in, <<"amount">>) > 1000
              d == Rule(p, "ESCALATE", 70)
              e == Otherwise(88)
  <2>1. "expense_audit" \in RuledTasks
    BY DEF RuledTasks
  <2>2. TaskRules("expense_audit", in) = <<d, e>>
    BY DEF TaskRules
  <2>. HIDE DEF p
  <2>3. (d.when <=> p) /\ d.reply = Says("ESCALATE", 70)
    BY DEF Rule, Says
  <2>4. e.when /\ e.reply = Says("APPROVE", 88)
    BY DEF Otherwise, Rule, Says
  <2>. HIDE DEF d, e
  <2>5. First(<<d, e>>) = IF d.when THEN d.reply ELSE e.reply
    BY <2>4, TwoRules
  <2>6. Rules("expense_audit", in) = IF d.when THEN d.reply ELSE e.reply
    BY <1>1, <2>1, <2>2, <2>5
  <2>. QED
    BY <2>3, <2>4, <2>6 DEF p
<1>8. Rules("supply_chain_exception", in) =
       IF Mentions(in, {"critical", "high"}) \/ "stockout_risk" \in in.yes THEN Says("ESCALATE", 73)
       ELSE Says("APPROVE", 85)
  <2>. DEFINE p == Mentions(in, {"critical", "high"}) \/ "stockout_risk" \in in.yes
              d == Rule(p, "ESCALATE", 73)
              e == Otherwise(85)
  <2>1. "supply_chain_exception" \in RuledTasks
    BY DEF RuledTasks
  <2>2. TaskRules("supply_chain_exception", in) = <<d, e>>
    BY DEF TaskRules
  <2>. HIDE DEF p
  <2>3. (d.when <=> p) /\ d.reply = Says("ESCALATE", 73)
    BY DEF Rule, Says
  <2>4. e.when /\ e.reply = Says("APPROVE", 85)
    BY DEF Otherwise, Rule, Says
  <2>. HIDE DEF d, e
  <2>5. First(<<d, e>>) = IF d.when THEN d.reply ELSE e.reply
    BY <2>4, TwoRules
  <2>6. Rules("supply_chain_exception", in) = IF d.when THEN d.reply ELSE e.reply
    BY <1>1, <2>1, <2>2, <2>5
  <2>. QED
    BY <2>3, <2>4, <2>6 DEF p
<1>9. Rules("offboarding_review", in) =
       IF {"legal_hold", "disputed"} \cap in.yes # {} \/ Mentions(in, {"disputed"}) THEN Says("ESCALATE", 78)
       ELSE Says("APPROVE", 90)
  <2>. DEFINE p == {"legal_hold", "disputed"} \cap in.yes # {} \/ Mentions(in, {"disputed"})
              d == Rule(p, "ESCALATE", 78)
              e == Otherwise(90)
  <2>1. "offboarding_review" \in RuledTasks
    BY DEF RuledTasks
  <2>2. TaskRules("offboarding_review", in) = <<d, e>>
    BY DEF TaskRules
  <2>. HIDE DEF p
  <2>3. (d.when <=> p) /\ d.reply = Says("ESCALATE", 78)
    BY DEF Rule, Says
  <2>4. e.when /\ e.reply = Says("APPROVE", 90)
    BY DEF Otherwise, Rule, Says
  <2>. HIDE DEF d, e
  <2>5. First(<<d, e>>) = IF d.when THEN d.reply ELSE e.reply
    BY <2>4, TwoRules
  <2>6. Rules("offboarding_review", in) = IF d.when THEN d.reply ELSE e.reply
    BY <1>1, <2>1, <2>2, <2>5
  <2>. QED
    BY <2>3, <2>4, <2>6 DEF p
<1>. QED
  BY <1>2, <1>3, <1>4, <1>5, <1>6, <1>7, <1>8, <1>9

\* The numbers a rule reads.
LEMMA NumberRead ==
  ASSUME NEW in, NEW paths, Len(paths) \in Nat
  PROVE  \/ /\ \A j \in 1 .. Len(paths) : paths[j] \notin DOMAIN in.numbers
            /\ InputNumber(in, paths) = 0
         \/ \E k \in 1 .. Len(paths) :
              /\ paths[k] \in DOMAIN in.numbers /\ \A j \in 1 .. k - 1 : paths[j] \notin DOMAIN in.numbers
              /\ InputNumber(in, paths) = in.numbers[paths[k]]
<1>. DEFINE T == {i \in 1 .. Len(paths) : paths[i] \in DOMAIN in.numbers}
            at == SelectInSeq(paths, LAMBDA p : p \in DOMAIN in.numbers)
<1>1. at = IF T # {} THEN Min(T) ELSE 0
  BY DEF SelectInSeq
<1>2. InputNumber(in, paths) = IF at = 0 THEN 0 ELSE in.numbers[paths[at]]
  BY Zenon DEF InputNumber
<1>3. T \subseteq Nat \ {0}
  OBVIOUS
<1>4. CASE T = {}
  <2>1. \A j \in 1 .. Len(paths) : paths[j] \notin DOMAIN in.numbers
    BY <1>4
  <2>2. at = 0
    BY <1>1, <1>4
  <2>. QED
    BY <1>2, <2>1, <2>2
<1>5. CASE T # {}
  <2>1. PICK k \in T : \A j \in T : k <= j
    <3>. HIDE DEF T
    <3>. QED
      BY <1>3, <1>5, LeastNumber
  <2>2. Min(T) = k
    <3>. HIDE DEF T
    <3>. QED
      BY <1>3, <2>1, LeastIsMin
  <2>3. at = k /\ k # 0
    BY <1>1, <1>3, <1>5, <2>1, <2>2
  <2>4. InputNumber(in, paths) = in.numbers[paths[k]]
    BY <1>2, <2>3
  <2>5. k \in 1 .. Len(paths) /\ paths[k] \in DOMAIN in.numbers /\ \A j \in 1 .. k - 1 : paths[j] \notin DOMAIN in.numbers
    BY <2>1
  <2>. QED
    BY <2>4, <2>5
<1>. QED
  BY <1>4, <1>5

Limits == {"amount_limit", "policy.amount_limit"}

LEMMA LowerInput ==
  ASSUME NEW in, IsInput(in), NEW n
  PROVE  LET low == WithAmounts(in, n)
         IN /\ low.yes = in.yes /\ low.words = in.words /\ low.history = in.history
            /\ DOMAIN low.numbers = DOMAIN in.numbers
            /\ \A p \in DOMAIN in.numbers : low.numbers[p] = IF p \in Limits THEN in.numbers[p] ELSE n
<1>. DEFINE numbers == [p \in DOMAIN in.numbers |-> IF p \in Amounts(in) THEN n ELSE in.numbers[p]]
            low == WithAmounts(in, n)
<1>1. in = [numbers |-> in.numbers, yes |-> in.yes, words |-> in.words, history |-> in.history]
  BY DEF IsInput
<1>2. low = [in EXCEPT !.numbers = numbers]
  BY Zenon DEF WithAmounts
<1>3. DOMAIN numbers = DOMAIN in.numbers
  OBVIOUS
<1>4. \A p \in DOMAIN in.numbers : numbers[p] = IF p \in Limits THEN in.numbers[p] ELSE n
  BY DEF Amounts, Limits
<1>. HIDE DEF numbers
<1>5. low.numbers = numbers /\ low.yes = in.yes /\ low.words = in.words /\ low.history = in.history
  <2>. HIDE DEF low
  <2>. QED
    BY <1>1, <1>2
<1>. HIDE DEF low
<1>6. /\ low.yes = in.yes /\ low.words = in.words /\ low.history = in.history
      /\ DOMAIN low.numbers = DOMAIN in.numbers
      /\ \A p \in DOMAIN in.numbers : low.numbers[p] = IF p \in Limits THEN in.numbers[p] ELSE n
  BY <1>3, <1>4, <1>5
<1>. QED
  BY <1>6 DEF low

\* What is read of lower amounts is lower, but something; limits stay as they are.
LEMMA LowerNumber ==
  ASSUME NEW in, IsInput(in), NEW n \in Nat \ {0}, \A p \in Amounts(in) : n <= in.numbers[p],
         NEW paths, Len(paths) \in Nat, \A j \in 1 .. Len(paths) : paths[j] \notin Limits
  PROVE  /\ InputNumber(in, paths) \in Int /\ InputNumber(WithAmounts(in, n), paths) \in Int
         /\ InputNumber(WithAmounts(in, n), paths) <= InputNumber(in, paths)
         /\ InputNumber(in, paths) > 0 => InputNumber(WithAmounts(in, n), paths) > 0
<1>. DEFINE low == WithAmounts(in, n)
<1>1. DOMAIN low.numbers = DOMAIN in.numbers
      /\ \A p \in DOMAIN in.numbers : low.numbers[p] = IF p \in Limits THEN in.numbers[p] ELSE n
  BY LowerInput
<1>. HIDE DEF low
<1>2. CASE \A j \in 1 .. Len(paths) : paths[j] \notin DOMAIN in.numbers
  <2>1. InputNumber(in, paths) = 0
    BY <1>2, NumberRead
  <2>2. InputNumber(low, paths) = 0
    BY <1>1, <1>2, NumberRead
  <2>. QED
    BY <2>1, <2>2 DEF low
<1>3. ASSUME NEW j \in 1 .. Len(paths), paths[j] \in DOMAIN in.numbers
      PROVE  \E k \in 1 .. Len(paths) :
               /\ paths[k] \in DOMAIN in.numbers
               /\ InputNumber(in, paths) = in.numbers[paths[k]] /\ InputNumber(low, paths) = n
  <2>1. PICK k \in 1 .. Len(paths) :
          /\ paths[k] \in DOMAIN in.numbers /\ InputNumber(in, paths) = in.numbers[paths[k]]
    BY <1>3, NumberRead
  <2>2. PICK l \in 1 .. Len(paths) :
          /\ paths[l] \in DOMAIN low.numbers /\ InputNumber(low, paths) = low.numbers[paths[l]]
    BY <1>1, <1>3, NumberRead
  <2>. QED
    BY <1>1, <2>1, <2>2
<1>4. ASSUME NEW p \in DOMAIN in.numbers, p \notin Limits PROVE in.numbers[p] \in Int /\ n <= in.numbers[p]
  BY <1>4 DEF IsInput, Amounts, Limits
<1>5. CASE \E j \in 1 .. Len(paths) : paths[j] \in DOMAIN in.numbers
  <2>1. PICK k \in 1 .. Len(paths) :
          /\ paths[k] \in DOMAIN in.numbers
          /\ InputNumber(in, paths) = in.numbers[paths[k]] /\ InputNumber(low, paths) = n
    BY <1>3, <1>5
  <2>2. in.numbers[paths[k]] \in Int /\ n <= in.numbers[paths[k]]
    BY <1>4, <2>1
  <2>. QED
    BY <2>1, <2>2 DEF low
<1>. QED
  BY <1>2, <1>5

LEMMA SameLimit ==
  ASSUME NEW in, IsInput(in), NEW n, NEW paths, Len(paths) \in Nat, \A j \in 1 .. Len(paths) : paths[j] \in Limits
  PROVE  InputNumber(in, paths) \in Int /\ InputNumber(WithAmounts(in, n), paths) = InputNumber(in, paths)
<1>. DEFINE low == WithAmounts(in, n)
<1>1. DOMAIN low.numbers = DOMAIN in.numbers
      /\ \A p \in DOMAIN in.numbers : low.numbers[p] = IF p \in Limits THEN in.numbers[p] ELSE n
  BY LowerInput
<1>. HIDE DEF low
<1>2. CASE \A j \in 1 .. Len(paths) : paths[j] \notin DOMAIN in.numbers
  <2>1. InputNumber(in, paths) = 0
    BY <1>2, NumberRead
  <2>2. InputNumber(low, paths) = 0
    BY <1>1, <1>2, NumberRead
  <2>. QED
    BY <2>1, <2>2 DEF low
<1>3. ASSUME NEW j \in 1 .. Len(paths), paths[j] \in DOMAIN in.numbers
      PROVE  InputNumber(in, paths) \in Int /\ InputNumber(low, paths) = InputNumber(in, paths)
  <2>1. PICK k \in 1 .. Len(paths) :
          /\ paths[k] \in DOMAIN in.numbers /\ \A i \in 1 .. k - 1 : paths[i] \notin DOMAIN in.numbers
          /\ InputNumber(in, paths) = in.numbers[paths[k]]
    BY <1>3, NumberRead
  <2>2. PICK l \in 1 .. Len(paths) :
          /\ paths[l] \in DOMAIN low.numbers /\ \A i \in 1 .. l - 1 : paths[i] \notin DOMAIN low.numbers
          /\ InputNumber(low, paths) = low.numbers[paths[l]]
    BY <1>1, <1>3, NumberRead
  <2>3. k = l
    BY <1>1, <2>1, <2>2
  <2>4. in.numbers[paths[k]] \in Int
    BY <2>1 DEF IsInput
  <2>. QED
    BY <1>1, <2>1, <2>2, <2>3, <2>4
<1>. QED
  BY <1>2, <1>3 DEF low

\* The highest total of a vendor's orders is a number.
LEMMA HighestIsNumber ==
  ASSUME NEW history \in Seq(Int)
  PROVE  Max({0} \cup Range(history)) \in Int
<1>. DEFINE Upto(k) == {0} \cup {history[i] : i \in 1 .. k}
            HasMax(k) == \E m \in Upto(k) : \A y \in Upto(k) : m >= y
            F == {k \in 0 .. Len(history) : ~HasMax(k)}
<1>1. \A i \in 1 .. Len(history) : history[i] \in Int
  OBVIOUS
<1>2. F = {}
  <2>. SUFFICES ASSUME F # {} PROVE FALSE
    OBVIOUS
  <2>1. PICK k \in F : \A y \in F : k <= y
    <3>1. F \subseteq Nat
      OBVIOUS
    <3>. HIDE DEF F
    <3>. QED
      BY <3>1, LeastNumber
  <2>2. HasMax(0)
    OBVIOUS
  <2>3. k \in 1 .. Len(history) /\ k - 1 \in 0 .. Len(history)
    BY <2>1, <2>2
  <2>4. k - 1 \notin F
    <3>. HIDE DEF F
    <3>1. \A y \in F : k <= y
      BY <2>1
    <3>. QED
      BY <2>3, <3>1
  <2>5. HasMax(k - 1)
    <3>. HIDE DEF HasMax
    <3>. QED
      BY <2>3, <2>4
  <2>6. PICK m \in Upto(k - 1) : \A y \in Upto(k - 1) : m >= y
    BY <2>5
  <2>7. Upto(k) = Upto(k - 1) \cup {history[k]}
    <3>1. k \in Nat /\ 1 .. k = (1 .. k - 1) \cup {k}
      BY <2>3
    <3>2. {history[i] : i \in 1 .. k} = {history[i] : i \in 1 .. k - 1} \cup {history[k]}
      BY <3>1, Zenon
    <3>. QED
      BY <3>2, Zenon
  <2>8. Upto(k - 1) \subseteq Int /\ history[k] \in Int
    BY <1>1, <2>3
  <2>9. HasMax(k)
    <3>. HIDE DEF Upto
    <3>1. CASE m >= history[k]
      <4>1. m \in Upto(k) /\ \A y \in Upto(k) : m >= y
        BY <2>6, <2>7, <3>1
      <4>. QED
        BY <4>1
    <3>2. CASE ~(m >= history[k])
      <4>1. history[k] \in Upto(k) /\ \A y \in Upto(k) : history[k] >= y
        BY <2>6, <2>7, <2>8, <3>2
      <4>. QED
        BY <4>1
    <3>. QED
      BY <3>1, <3>2
  <2>. QED
    BY <2>1, <2>9
<1>3. HasMax(Len(history))
  <2>. HIDE DEF HasMax
  <2>. QED
    BY <1>2
<1>4. Upto(Len(history)) = {0} \cup Range(history)
  BY DEF Range
<1>5. Upto(Len(history)) \subseteq Int
  BY <1>1
<1>6. PICK U : U = Upto(Len(history))
  OBVIOUS
<1>7. \E m \in U : \A y \in U : m >= y
  BY <1>3, <1>6
<1>8. Max(U) \in U
  BY <1>7, Zenon DEF Max
<1>. QED
  BY <1>4, <1>5, <1>6, <1>8

OrderAmount(in) == InputNumber(in, <<"amount_total", "order.amount_total", "amount">>)
OrderLimit(in) == InputNumber(in, <<"amount_limit", "policy.amount_limit">>)
HighestOrder(in) == Max({0} \cup Range(in.history))

LEMMA OrdersAnswer ==
  ASSUME NEW in
  PROVE  Rules("purchase_order_approval", in) =
           IF OrderAmount(in) <= 0 THEN Says("REJECT", 90)
           ELSE IF OrderLimit(in) > 0 /\ OrderAmount(in) > OrderLimit(in) THEN Says("ESCALATE", 70)
           ELSE IF in.history = <<>> THEN Says("ESCALATE", 68)
           ELSE IF UnusualAmount(OrderAmount(in), HighestOrder(in)) THEN Says("ESCALATE", 70)
           ELSE Says("APPROVE", 86)
<1>. DEFINE p == OrderAmount(in) <= 0
            q == OrderLimit(in) > 0 /\ OrderAmount(in) > OrderLimit(in)
            r == in.history = <<>>
            s == UnusualAmount(OrderAmount(in), HighestOrder(in))
            a == Rule(p, "REJECT", 90)
            b == Rule(q, "ESCALATE", 70)
            c == Rule(r, "ESCALATE", 68)
            d == Rule(s, "ESCALATE", 70)
            e == Otherwise(86)
<1>1. Rules("purchase_order_approval", in) = First(PurchaseOrderRules(in))
  <2>1. "purchase_order_approval" \in RuledTasks
    BY DEF RuledTasks
  <2>2. TaskRules("purchase_order_approval", in) = PurchaseOrderRules(in)
    BY DEF TaskRules
  <2>3. RulesOf("purchase_order_approval", in) = TaskRules("purchase_order_approval", in)
    BY <2>1, Zenon DEF RulesOf
  <2>. QED
    BY <2>2, <2>3, Zenon DEF Rules, First
<1>2. PurchaseOrderRules(in) = <<a, b, c, d, e>>
  BY Zenon DEF PurchaseOrderRules, OrderAmount, OrderLimit, HighestOrder
<1>. HIDE DEF p, q, r, s
<1>3. (a.when <=> p) /\ a.reply = Says("REJECT", 90)
  BY DEF Rule, Says
<1>4. (b.when <=> q) /\ b.reply = Says("ESCALATE", 70)
  BY DEF Rule, Says
<1>5. (c.when <=> r) /\ c.reply = Says("ESCALATE", 68)
  BY DEF Rule, Says
<1>6. (d.when <=> s) /\ d.reply = Says("ESCALATE", 70)
  BY DEF Rule, Says
<1>7. e.when /\ e.reply = Says("APPROVE", 86)
  BY DEF Otherwise, Rule, Says
<1>. HIDE DEF a, b, c, d, e
<1>8. First(<<a, b, c, d, e>>) =
        IF a.when THEN a.reply ELSE IF b.when THEN b.reply ELSE IF c.when THEN c.reply ELSE IF d.when THEN d.reply
        ELSE e.reply
  BY <1>7, FiveRules
<1>. QED
  BY <1>1, <1>2, <1>3, <1>4, <1>5, <1>6, <1>7, <1>8 DEF p, q, r, s

LEMMA OrdersAreCautious ==
  ASSUME NEW in, IsInput(in), NEW n \in Nat \ {0}, \A p \in Amounts(in) : n <= in.numbers[p],
         Rules("purchase_order_approval", in).decision = "APPROVE"
  PROVE  Rules("purchase_order_approval", WithAmounts(in, n)).decision = "APPROVE"
<1>1. PICK low : low = WithAmounts(in, n)
  OBVIOUS
<1>2. low.history = in.history
  BY <1>1, LowerInput
<1>3. /\ OrderAmount(in) \in Int /\ OrderAmount(low) \in Int /\ OrderAmount(low) <= OrderAmount(in)
      /\ OrderAmount(in) > 0 => OrderAmount(low) > 0
  <2>. DEFINE paths == <<"amount_total", "order.amount_total", "amount">>
  <2>1. Len(paths) \in Nat /\ \A j \in 1 .. Len(paths) : paths[j] \notin Limits
    BY DEF Limits
  <2>. HIDE DEF paths
  <2>2. /\ InputNumber(in, paths) \in Int /\ InputNumber(low, paths) \in Int
        /\ InputNumber(low, paths) <= InputNumber(in, paths)
        /\ InputNumber(in, paths) > 0 => InputNumber(low, paths) > 0
    BY <1>1, <2>1, LowerNumber
  <2>. QED
    BY <2>2 DEF OrderAmount, paths
<1>4. OrderLimit(in) \in Int /\ OrderLimit(low) = OrderLimit(in)
  <2>. DEFINE paths == <<"amount_limit", "policy.amount_limit">>
  <2>1. Len(paths) \in Nat /\ \A j \in 1 .. Len(paths) : paths[j] \in Limits
    BY DEF Limits
  <2>. HIDE DEF paths
  <2>2. InputNumber(in, paths) \in Int /\ InputNumber(low, paths) = InputNumber(in, paths)
    BY <1>1, <2>1, SameLimit
  <2>. QED
    BY <2>2 DEF OrderLimit, paths
<1>5. HighestOrder(in) \in Int /\ HighestOrder(low) = HighestOrder(in)
  BY <1>2, HighestIsNumber DEF HighestOrder, IsInput
<1>6. /\ OrderAmount(in) > 0 /\ ~(OrderLimit(in) > 0 /\ OrderAmount(in) > OrderLimit(in)) /\ in.history # <<>>
      /\ ~UnusualAmount(OrderAmount(in), HighestOrder(in))
  <2>1. "APPROVE" # "REJECT" /\ "APPROVE" # "ESCALATE"
    OBVIOUS
  <2>2. \A d, c : Says(d, c).decision = d
    BY DEF Says
  <2>. QED
    BY <1>3, <2>1, <2>2, OrdersAnswer
<1>7. /\ ~(OrderAmount(low) <= 0) /\ ~(OrderLimit(low) > 0 /\ OrderAmount(low) > OrderLimit(low)) /\ low.history # <<>>
      /\ ~UnusualAmount(OrderAmount(low), HighestOrder(low))
  BY <1>2, <1>3, <1>4, <1>5, <1>6 DEF UnusualAmount
<1>8. Rules("purchase_order_approval", low) = Says("APPROVE", 86)
  BY <1>7, OrdersAnswer
<1>. QED
  BY <1>1, <1>8 DEF Says

\* The tasks whose rules read one amount.
LEMMA AmountsAreCautious ==
  ASSUME NEW in, IsInput(in), NEW n \in Nat \ {0}, \A p \in Amounts(in) : n <= in.numbers[p],
         NEW task \in {"fraud_risk_assessment", "credit_risk_assessment", "invoice_approval", "expense_audit"},
         Rules(task, in).decision = "APPROVE"
  PROVE  Rules(task, WithAmounts(in, n)).decision = "APPROVE"
<1>1. PICK low : low = WithAmounts(in, n)
  OBVIOUS
<1>2. ASSUME NEW paths, Len(paths) \in Nat, \A j \in 1 .. Len(paths) : paths[j] \notin Limits
      PROVE  /\ InputNumber(in, paths) \in Int /\ InputNumber(low, paths) \in Int
             /\ InputNumber(low, paths) <= InputNumber(in, paths)
  BY <1>1, <1>2, LowerNumber
<1>3. low.yes = in.yes
  BY <1>1, LowerInput
<1>4. \A d, c : Says(d, c).decision = d
  BY DEF Says
<1>5. CASE task = "fraud_risk_assessment"
  <2>. DEFINE paths == <<"amount", "transaction.amount">>
  <2>1. Len(paths) \in Nat /\ \A j \in 1 .. Len(paths) : paths[j] \notin Limits
    BY DEF Limits
  <2>2. \A i : Rules("fraud_risk_assessment", i) =
              IF InputNumber(i, paths) > 5000 THEN Says("ESCALATE", 71)
              ELSE IF InputNumber(i, paths) > 2000 THEN Says("ESCALATE", 67) ELSE Says("APPROVE", 87)
    BY TasksAnswer
  <2>. HIDE DEF paths
  <2>3. /\ InputNumber(in, paths) \in Int /\ InputNumber(low, paths) \in Int
        /\ InputNumber(low, paths) <= InputNumber(in, paths)
    BY <1>2, <2>1
  <2>. QED
    BY <1>1, <1>4, <1>5, <2>2, <2>3
<1>6. CASE task = "credit_risk_assessment"
  <2>. DEFINE paths == <<"loan_amount">>
  <2>1. Len(paths) \in Nat /\ \A j \in 1 .. Len(paths) : paths[j] \notin Limits
    BY DEF Limits
  <2>2. \A i : Rules("credit_risk_assessment", i) =
              IF InputNumber(i, paths) > 100000 THEN Says("ESCALATE", 74) ELSE Says("APPROVE", 87)
    BY TasksAnswer
  <2>. HIDE DEF paths
  <2>3. /\ InputNumber(in, paths) \in Int /\ InputNumber(low, paths) \in Int
        /\ InputNumber(low, paths) <= InputNumber(in, paths)
    BY <1>2, <2>1
  <2>. QED
    BY <1>1, <1>4, <1>6, <2>2, <2>3
<1>7. CASE task = "invoice_approval"
  <2>. DEFINE paths == <<"amount", "invoice.amount">>
  <2>1. Len(paths) \in Nat /\ \A j \in 1 .. Len(paths) : paths[j] \notin Limits
    BY DEF Limits
  <2>2. \A i : Rules("invoice_approval", i) =
              IF InputNumber(i, paths) > 10000 THEN Says("ESCALATE", 72)
              ELSE IF i.yes \cap {"po_number", "matched_po"} = {} THEN Says("ESCALATE", 66) ELSE Says("APPROVE", 90)
    BY TasksAnswer
  <2>. HIDE DEF paths
  <2>3. /\ InputNumber(in, paths) \in Int /\ InputNumber(low, paths) \in Int
        /\ InputNumber(low, paths) <= InputNumber(in, paths)
    BY <1>2, <2>1
  <2>. QED
    BY <1>1, <1>3, <1>4, <1>7, <2>2, <2>3
<1>8. CASE task = "expense_audit"
  <2>. DEFINE paths == <<"amount">>
  <2>1. Len(paths) \in Nat /\ \A j \in 1 .. Len(paths) : paths[j] \notin Limits
    BY DEF Limits
  <2>2. \A i : Rules("expense_audit", i) =
              IF InputNumber(i, paths) > 1000 THEN Says("ESCALATE", 70) ELSE Says("APPROVE", 88)
    BY TasksAnswer
  <2>. HIDE DEF paths
  <2>3. /\ InputNumber(in, paths) \in Int /\ InputNumber(low, paths) \in Int
        /\ InputNumber(low, paths) <= InputNumber(in, paths)
    BY <1>2, <2>1
  <2>. QED
    BY <1>1, <1>4, <1>8, <2>2, <2>3
<1>. QED
  BY <1>5, <1>6, <1>7, <1>8

TasksWithAmounts == {"fraud_risk_assessment", "credit_risk_assessment", "invoice_approval", "expense_audit",
                     "purchase_order_approval"}

\* No other rule reads an amount.
LEMMA OthersReadNoAmount ==
  ASSUME NEW in, IsInput(in), NEW n, NEW task, task \notin TasksWithAmounts
  PROVE  Rules(task, WithAmounts(in, n)) = Rules(task, in)
<1>1. PICK low : low = WithAmounts(in, n)
  OBVIOUS
<1>2. low.yes = in.yes /\ low.words = in.words
  BY <1>1, LowerInput
<1>3. \A words : Mentions(low, words) = Mentions(in, words)
  BY <1>2, Zenon DEF Mentions
<1>4. \A t : Rules(t, in) = First(RulesOf(t, in)) /\ Rules(t, low) = First(RulesOf(t, low))
  BY Zenon DEF Rules, First
<1>5. CASE task \notin RuledTasks
  <2>1. RulesOf(task, low) = RulesOf(task, in)
    BY <1>5, Zenon DEF RulesOf
  <2>. QED
    BY <1>1, <1>4, <2>1
<1>6. CASE task = "content_moderation"
  BY <1>1, <1>3, <1>6, TasksAnswer
<1>7. CASE task = "sentiment_analysis"
  BY <1>1, <1>7, TasksAnswer
<1>8. CASE task = "supply_chain_exception"
  BY <1>1, <1>2, <1>3, <1>8, TasksAnswer
<1>9. CASE task = "offboarding_review"
  BY <1>1, <1>2, <1>3, <1>9, TasksAnswer
<1>10. CASE task = "lead_scoring"
  <2>. DEFINE Score(i) == IF Mentions(i, {"vp", "chief", "head", "director", "c-level", "ceo", "cto", "cfo"}) THEN 85
                          ELSE IF Mentions(i, {"manager", "lead", "senior"}) THEN 60 ELSE 30
              Scored(score) == << Rule(score >= 80, "APPROVE", 80), Rule(score >= 55, "APPROVE", 80),
                                  Rule(score >= 30, "ESCALATE", 80), Rule(TRUE, "REJECT", 80) >>
  <2>1. LeadRules(low) = LeadRules(in)
    <3>1. \A i : LeadRules(i) = Scored(Score(i))
      BY Zenon DEF LeadRules
    <3>2. Score(low) = Score(in)
      BY <1>3
    <3>. HIDE DEF Score, Scored
    <3>. QED
      BY <3>1, <3>2
  <2>2. \A i : RulesOf("lead_scoring", i) = LeadRules(i)
    <3>1. "lead_scoring" \in RuledTasks
      BY DEF RuledTasks
    <3>2. \A i : TaskRules("lead_scoring", i) = LeadRules(i)
      BY DEF TaskRules
    <3>. QED
      BY <3>1, <3>2, Zenon DEF RulesOf
  <2>. QED
    BY <1>1, <1>4, <1>10, <2>1, <2>2
<1>. QED
  BY <1>5, <1>6, <1>7, <1>8, <1>9, <1>10 DEF RuledTasks, TasksWithAmounts

\* What the rules escalate is below the default threshold, and nothing else they say is.
LEMMA RulesEscalateDoubt ==
  ASSUME NEW in, NEW task, task # "lead_scoring"
  PROVE  Rules(task, in).decision = "ESCALATE" <=> Rules(task, in).confidence < 80
<1>1. \A d, c : Says(d, c).decision = d /\ Says(d, c).confidence = c
  BY DEF Says
<1>. DEFINE Honest(reply) == reply.decision = "ESCALATE" <=> reply.confidence < 80
<1>2. /\ \A c \in {66, 67, 68, 70, 71, 72, 73, 74, 78} : Honest(Says("ESCALATE", c))
      /\ \A c \in {85, 86, 87, 88, 90} : Honest(Says("APPROVE", c))
      /\ \A c \in {90, 95} : Honest(Says("REJECT", c))
  BY <1>1
<1>. HIDE DEF Honest
<1>3. CASE task = "fraud_risk_assessment"
  <2>1. Rules(task, in) \in {Says("ESCALATE", 71), Says("ESCALATE", 67), Says("APPROVE", 87)}
    BY <1>3, TasksAnswer
  <2>. QED
    BY <1>2, <2>1 DEF Honest
<1>4. CASE task \in {"credit_risk_assessment", "content_moderation", "sentiment_analysis", "expense_audit"}
  <2>1. Rules(task, in) \in {Says("ESCALATE", 74), Says("APPROVE", 87), Says("REJECT", 95), Says("APPROVE", 88),
                              Says("ESCALATE", 70)}
    BY <1>4, TasksAnswer
  <2>. QED
    BY <1>2, <2>1 DEF Honest
<1>5. CASE task \in {"invoice_approval", "supply_chain_exception", "offboarding_review"}
  <2>1. Rules(task, in) \in {Says("ESCALATE", 72), Says("ESCALATE", 66), Says("APPROVE", 90), Says("ESCALATE", 73),
                              Says("APPROVE", 85), Says("ESCALATE", 78)}
    BY <1>5, TasksAnswer
  <2>. QED
    BY <1>2, <2>1 DEF Honest
<1>6. CASE task = "purchase_order_approval"
  <2>1. Rules(task, in) \in {Says("REJECT", 90), Says("ESCALATE", 70), Says("ESCALATE", 68), Says("APPROVE", 86)}
    BY <1>6, OrdersAnswer
  <2>. QED
    BY <1>2, <2>1 DEF Honest
<1>7. CASE task \notin RuledTasks
  <2>1. RulesOf(task, in) = <<Otherwise(87)>>
    BY <1>7, Zenon DEF RulesOf
  <2>2. Otherwise(87).when /\ Otherwise(87).reply = Says("APPROVE", 87)
    BY DEF Otherwise, Rule, Says
  <2>3. Rules(task, in) = First(<<Otherwise(87)>>)
    BY <2>1, Zenon DEF Rules, First
  <2>4. Rules(task, in) = Says("APPROVE", 87)
    <3>1. PICK e : e = Otherwise(87)
      OBVIOUS
    <3>. QED
      BY <2>2, <2>3, <3>1, OneRule
  <2>. QED
    BY <1>2, <2>4 DEF Honest
<1>. QED
  BY <1>3, <1>4, <1>5, <1>6, <1>7 DEF RuledTasks

\* Less money is approved where more is, whatever the inputs and the task.
LEMMA RulesAreCautious ==
  ASSUME NEW in, IsInput(in), NEW task, NEW lower, lower \subseteq Nat \ {0}
  PROVE  Cautious(task, in, Rules(task, in), lower)
<1>1. ASSUME Rules(task, in).decision = "APPROVE", NEW n \in lower, \A p \in Amounts(in) : n <= in.numbers[p]
      PROVE  Rules(task, WithAmounts(in, n)).decision = "APPROVE"
  <2>1. n \in Nat \ {0}
    OBVIOUS
  <2>2. CASE task \in TasksWithAmounts \ {"purchase_order_approval"}
    BY <1>1, <2>1, <2>2, AmountsAreCautious DEF TasksWithAmounts
  <2>3. CASE task = "purchase_order_approval"
    BY <1>1, <2>1, <2>3, OrdersAreCautious
  <2>4. CASE task \notin TasksWithAmounts
    BY <1>1, <2>4, OthersReadNoAmount
  <2>. QED
    BY <2>2, <2>3, <2>4
<1>2. task # "lead_scoring" => (Rules(task, in).decision = "ESCALATE" <=> Rules(task, in).confidence < 80)
  BY RulesEscalateDoubt
<1>. QED
  BY <1>1, <1>2, Zenon DEF Cautious

\* The answer of the rules is theirs.
RulesAnswered == decided.by = "simulation" => ask.kind = "decision" /\ decided.reply = Rules(ask.task, ask.inputs)

LEMMA RulesAnsweredStep ==
  DecisionsInv /\ RulesAnswered /\ [DecisionsNext]_decisionVars => RulesAnswered'
<1>. SUFFICES ASSUME DecisionsInv, RulesAnswered, [DecisionsNext]_decisionVars PROVE RulesAnswered'
  OBVIOUS
<1>1. ask' = ask
  BY DEF DecisionsNext, decisionVars, AskSidecar, RefuseTask, ReadSettings, ChooseProvider, DetectOllama, CheckProvider,
         ChooseModel, ListModels, CallModel, AcceptAnswer, FallBack, AnswerByRules, SetConfig, FinishWith, NoAnswer
<1>2. ASSUME decided' = decided \/ decided'.by # "simulation" PROVE RulesAnswered'
  BY <1>1, <1>2 DEF RulesAnswered
<1>3. CASE AskSidecar
  <2>1. \A reply, routing : FinishWith("sidecar", reply, routing, FALSE) => decided'.by = "sidecar"
    BY DEF FinishWith
  <2>2. decided' = decided \/ decided'.by = "sidecar"
    BY <1>3, <2>1, Zenon DEF AskSidecar
  <2>. QED
    BY <1>2, <2>2
<1>4. CASE AcceptAnswer
  <2>1. chosen.provider # "simulation"
    BY <1>4 DEF AcceptAnswer, DecisionsInv, ChosenJustified
  <2>2. decided'.by = chosen.provider
    BY <1>4 DEF AcceptAnswer, FinishWith
  <2>. QED
    BY <1>2, <2>1, <2>2
<1>5. CASE AnswerByRules
  <2>1. decided'.by = "simulation" /\ decided'.reply = Rules(ask.task, ask.inputs) /\ stage = "rules"
    <3>1. PICK reply : reply = Rules(ask.task, ask.inputs)
      OBVIOUS
    <3>2. FinishWith("simulation", reply, Routing(reply), chosen.provider # "simulation") /\ stage = "rules"
      BY <1>5, <3>1 DEF AnswerByRules
    <3>. QED
      BY <3>1, <3>2 DEF FinishWith
  <2>2. ask.kind = "decision"
    BY <2>1 DEF DecisionsInv, ChosenJustified
  <2>. QED
    BY <1>1, <2>1, <2>2 DEF RulesAnswered
<1>6. CASE RefuseTask \/ FallBack
  <2>1. NoAnswer => decided'.by = ""
    BY DEF NoAnswer, Nothing
  <2>2. decided' = decided \/ decided'.by = ""
    BY <1>6, <2>1 DEF RefuseTask, FallBack
  <2>. QED
    BY <1>2, <2>2
<1>7. CASE \/ ReadSettings \/ ChooseProvider \/ DetectOllama \/ CheckProvider \/ ChooseModel \/ ListModels
           \/ CallModel \/ SetConfig \/ UNCHANGED decisionVars
  BY <1>2, <1>7 DEF ReadSettings, ChooseProvider, DetectOllama, CheckProvider, ChooseModel, ListModels,
          CallModel, SetConfig, decisionVars
<1>. QED
  BY <1>3, <1>4, <1>5, <1>6, <1>7 DEF DecisionsNext

\* Whatever the settings, the inputs and the amounts: a decision passes its fallback by
\* only with the confidence asked for, what the rules approve they approve for less, and
\* what they escalate is what the default threshold holds back
\* (decide/engine.go:298 Decide, decide/rules.go:26 Rules).
THEOREM DecisionsAreAlwaysCautious == DecisionsSpec => []DecisionsAreCautious
<1>1. DecisionsInit => DecisionsInv /\ ask \in Requests /\ RulesAnswered
  <2>1. DecisionsInit => ask \in Requests /\ decided = Nothing
    BY Zenon DEF DecisionsInit
  <2>2. Nothing.by = ""
    BY DEF Nothing
  <2>. QED
    BY <2>1, <2>2, DecisionsInitially DEF RulesAnswered
<1>2. DecisionsInv /\ [DecisionsNext]_decisionVars => DecisionsInv'
  BY DecisionsStep
<1>3. DecisionsInv /\ RulesAnswered /\ [DecisionsNext]_decisionVars => RulesAnswered'
  BY RulesAnsweredStep
<1>4. ask \in Requests /\ [DecisionsNext]_decisionVars => (ask \in Requests)'
  BY DEF DecisionsNext, decisionVars, AskSidecar, RefuseTask, ReadSettings, ChooseProvider, DetectOllama, CheckProvider,
         ChooseModel, ListModels, CallModel, AcceptAnswer, FallBack, AnswerByRules, SetConfig, FinishWith, NoAnswer
<1>5. ask \in Requests /\ RulesAnswered /\ OnlySureAnswersGoOn => DecisionsAreCautious
  <2>. SUFFICES ASSUME ask \in Requests, RulesAnswered, decided.by = "simulation"
                PROVE  Cautious(ask.task, ask.inputs, decided.reply, LowerAmounts)
    BY DEF DecisionsAreCautious
  <2>1. IsInput(ask.inputs)
    BY RequestsAssumption DEF RulesAnswered
  <2>2. Cautious(ask.task, ask.inputs, Rules(ask.task, ask.inputs), LowerAmounts)
    BY <2>1, AmountsAssumption, RulesAreCautious
  <2>. QED
    BY <2>2 DEF RulesAnswered
<1>. QED
  BY <1>1, <1>2, <1>3, <1>4, <1>5, OnlySureAnswersAlwaysGoOn, PTL DEF DecisionsSpec
=============================================================================
