------------------------------- MODULE NodeCalls -------------------------------
(***************************************************************************)
(* The calls of one step to another system under the step's policy of      *)
(* retries and timeouts: execution/server.go, engine/executor.go. An       *)
(* attempt that is given up goes on on its own, and may still be served.   *)
(***************************************************************************)
EXTENDS Integers, Sequences

CONSTANTS
  ClientTimeout,  \* of the engine's HTTP client, in the unit of the step's timeout
  StepTimeout,    \* the timeouts an author may set, 0 for none
  RequestTimeout, \* those an author may give the HTTP client, 0 for the engine's
  StepRetries     \* the retries an author may set

ASSUME CallsAssumption ==
  ClientTimeout \in Nat /\ StepTimeout \subseteq Nat /\ RequestTimeout \subseteq Nat /\ StepRetries \subseteq Nat

Unset == -1
StepType == {"tool_call", "agent_call", "llm"}

VARIABLES
  cfg,        \* the step's type and configuration
  phase,      \* "ready", "calling", "sleeping", or the outcome of the step
  attempt,    \* the attempt under way, or the last one
  fate,       \* of each attempt: "running", "answered", "unanswered"
  served,     \* the attempts whose request the other system has acted on
  context,    \* the attempts whose result is in the run's context
  cancelled   \* somebody cancelled the run

callVars == <<cfg, phase, attempt, fate, served, context, cancelled>>

StepConfig == {c \in [type : StepType, timeout : StepTimeout \cup {Unset}, request : RequestTimeout,
                     retries : StepRetries \cup {Unset}, retryOnTimeout : BOOLEAN, onError : BOOLEAN,
                     continueOnError : BOOLEAN] : c.type = "llm" => c.request = 0}
Outcome == {"ok", "routed", "continued", "failed"}

\* How long the HTTP client waits: `timeout_seconds` of an HTTP or agent step. How long
\* the step does, `timeout`, is independent of it, by default 45 seconds, or the five
\* minutes of a model's client. An agent is looked up first; that the lookup fails is an
\* error answer here.
ClientLimit == IF cfg.type = "llm" THEN 10 * ClientTimeout
               ELSE IF cfg.request > 0 THEN cfg.request ELSE ClientTimeout
Timeout == IF cfg.timeout # Unset THEN cfg.timeout
           ELSE IF cfg.type = "llm" THEN 10 * ClientTimeout ELSE ClientTimeout + 15
Retries == IF cfg.retries # Unset THEN cfg.retries ELSE IF cfg.type = "llm" THEN 1 ELSE 2
SideEffecting == cfg.type \in {"tool_call", "agent_call"}

ClientFirstIfBounded == Timeout >= ClientLimit
\* The client may give up on its one request before the step's timer does.
ClientFirst == Timeout = 0 \/ Timeout >= ClientLimit

CallsInit ==
  /\ cfg \in StepConfig
  /\ phase = "ready" /\ attempt = 0 /\ cancelled = FALSE
  /\ fate = <<>> /\ served = {} /\ context = {}
-----------------------------------------------------------------------------
\* What the run loop does with an error: the error output, carry on, or fail.
Conclude == phase' = IF cfg.onError THEN "routed" ELSE IF cfg.continueOnError THEN "continued" ELSE "failed"

MayRetryAlways(timedOut) == TRUE
MayRetry(timedOut) == ~timedOut \/ ~SideEffecting \/ cfg.retryOnTimeout
RoutesInsideAlways == cfg.onError
\* An agent's error output is taken inside the attempt, before any retry.
RoutesInside == cfg.onError /\ cfg.type = "agent_call"
AfterError(timedOut) ==
  IF RoutesInside /\ ~timedOut THEN phase' = "routed"
  ELSE IF MayRetry(timedOut) /\ attempt < Retries + 1 THEN phase' = "sleeping"
  ELSE Conclude

Attempt ==
  /\ phase = "ready"
  /\ IF cancelled THEN Conclude /\ UNCHANGED <<attempt, fate>>
     ELSE phase' = "calling" /\ attempt' = attempt + 1 /\ fate' = Append(fate, "running")
  /\ UNCHANGED <<cfg, served, context, cancelled>>

Backoff == phase = "sleeping" /\ phase' = "ready" /\ UNCHANGED <<cfg, attempt, fate, served, context, cancelled>>

Current(i) == phase = "calling" /\ i = attempt

\* The result of an attempt the step still waits for; any other works on its own copy of
\* the context.
KeptAnyway(i) == TRUE
Kept(i) == Current(i)
Succeeds(i) ==
  /\ fate[i] = "running" /\ i \in served
  /\ fate' = [fate EXCEPT ![i] = "answered"]
  /\ context' = IF Kept(i) THEN context \cup {i} ELSE context
  /\ phase' = IF Current(i) THEN "ok" ELSE phase
  /\ UNCHANGED <<cfg, attempt, served, cancelled>>

\* An error answer, whether or not the request was acted on.
Errs(i) ==
  /\ fate[i] = "running"
  /\ fate' = [fate EXCEPT ![i] = "answered"]
  /\ IF Current(i) THEN AfterError(FALSE) ELSE UNCHANGED phase
  /\ UNCHANGED <<cfg, attempt, served, context, cancelled>>

\* The HTTP client's own timeout is an error like any other: its text does not say
\* "timed out after".
ClientTimesOut(i) ==
  /\ fate[i] = "running" /\ (Current(i) => ClientFirst)
  /\ fate' = [fate EXCEPT ![i] = "unanswered"]
  /\ IF Current(i) THEN AfterError(FALSE) ELSE UNCHANGED phase
  /\ UNCHANGED <<cfg, attempt, served, context, cancelled>>

\* The step's timer: the attempt is abandoned, not stopped.
StepTimesOut ==
  /\ phase = "calling" /\ Timeout > 0
  /\ AfterError(TRUE)
  /\ UNCHANGED <<cfg, attempt, fate, served, context, cancelled>>
-----------------------------------------------------------------------------
(* The other system, and the user. *)

Serve(i) ==
  /\ fate[i] \in {"running", "unanswered"} /\ i \notin served
  /\ served' = served \cup {i}
  /\ UNCHANGED <<cfg, phase, attempt, fate, context, cancelled>>

Cancel == ~cancelled /\ cancelled' = TRUE /\ UNCHANGED <<cfg, phase, attempt, fate, served, context>>

CallsNext ==
  \/ Attempt \/ Backoff \/ StepTimesOut \/ Cancel
  \/ \E i \in 1 .. attempt : Succeeds(i) \/ Errs(i) \/ ClientTimesOut(i) \/ Serve(i)

CallsSpec == CallsInit /\ [][CallsNext]_callVars

\* The engine and its timers go on; the other system need not answer.
CallsFairness ==
  /\ WF_callVars(Attempt) /\ WF_callVars(Backoff) /\ WF_callVars(StepTimesOut)
  /\ WF_callVars(\E i \in 1 .. attempt : ClientTimesOut(i))
-----------------------------------------------------------------------------
(* Properties. *)

\* A request of a side-effecting step that got no answer in time may have been acted on,
\* and is not made again: docs/workflows.md:83 "Timeouts on side-effecting steps are not
\* retried by default".
NotRepeated == SideEffecting /\ ~cfg.retryOnTimeout /\ attempt' # attempt
               => \A i \in 1 .. attempt : fate[i] = "answered"
AmbiguousCallsAreNotRepeated == [][NotRepeated]_callVars
\* It is so where the step's timer expires before the HTTP client's (server.go:226).
TimedOut == ~ClientFirst => NotRepeated
\* A step that failed has used up its retries, unless one of them would be dangerous,
\* the run was cancelled, or the step is an agent's: docs/workflows.md:61 "three ways to
\* respond, in this order".
RetriesFirst == phase' \in Outcome \ {"ok"} /\ phase' # phase =>
  \/ attempt = Retries + 1 \/ cancelled
  \/ SideEffecting /\ ~cfg.retryOnTimeout /\ fate'[attempt] = "running"
  \/ cfg.type = "agent_call" /\ phase' = "routed"
\* A step is tried again when it may be and it helps, and only then (server.go:208
\* executeNodeWithPolicy).
RetriesAreSafe == [][TimedOut /\ RetriesFirst]_callVars

\* The context has the result of the attempt that answered the step, and no other: a late
\* answer to an abandoned attempt changes nothing (server.go:265 runNodeWithTimeout).
OneResult == context = IF phase = "ok" THEN {attempt} ELSE {}

\* A step ends although the other system never answers (server.go:208).
StepsEnd == <>(phase \in Outcome)
=============================================================================
