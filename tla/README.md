# Verification of KNOTT in TLA+

KNOTT runs workflows: a definition (a graph of steps drawn in a designer) is
executed by an engine, one run per trigger, with every run durable in a
database, so that several engine replicas can share the work and a crash loses
nothing. This directory models the parts of that promise in which order, time
and failure decide: TLA+ modules, TLC configurations that check them on small
instances, and TLAPS proofs of their safety properties for instances of every size.
What single steps compute is modelled beside it, as functions checked on small inputs
against a second definition of what they promise, and half of them proved to agree
with it on all.

* [The system](#the-system): inventory of the components
* [The modules](#the-modules): what models what, and how
* [The runs](#the-runs): what is checked, on which instances
* [What the runs found](#what-the-runs-found)
* [Fairness](#fairness)
* [The proofs](#the-proofs)
* [What is left out](#what-is-left-out), and [the plan](#the-plan)

`tlc -config EngineCrash.cfg MCRunEngine` repeats a run (the module to check is
`MC` followed by the model's name, `MCFunctions` for Functions, `PollTriggers`
itself for Polls); `tlapm RunEngine_proofs.tla` repeats the proofs of a module.


## The system

The single binary (`cmd/knott`, `internal/app`) starts four HTTP services; in a
cluster they run as processes of their own, and the engine as several replicas
over one database.

### Execution engine (`internal/execution`)

State: table `workflow_runs` (status, current_node, the context as JSON with
the checkpoints in it, lease owner and expiry), `idempotency_keys`,
`schedules`, `poll_triggers`, `singleton_leases`, the event log; per process a
lock per run, a channel of execution slots, and the goroutines.

| part | code | state it keeps | operations | correct when |
|---|---|---|---|---|
| run executor | `server.go` 84-104, 364-677; `store/leasing.go` | the run's row; `leaseLost`; the pass's copy of the context | claim, heartbeat, release, reclaim, restart recovery, the node loop with checkpoints, end or pause | one replica executes a run at a time; a node takes effect once per arrival; the run follows the drawn edges; it comes to rest |
| wake-ups | `server.go` 680-753, `triggers.go` 296-345 | marks and checkpoints in the context | human resume, timer resume, lease reclaim | a wake is not lost, not doubled, and goes where the answer says |
| run requests | `server.go` 757-880, `background.go` | idempotency keys, slots | `createRun`, `triggerWebhook`, cancel, retention | a delivery that is repeated names the same run; an accepted run is executed |
| coordinator loops | `triggers.go` 215-246, `server.go` 1872-1964 | the singleton lease | ticks of the trigger loop and the scheduler | one replica at a time |
| poll triggers | `triggers.go` 51-97, 186-210, 349-502 | cursor row: seen keys, last_poll_at | reconcile, poll, mark | each new item starts one run; the backlog starts none |
| schedules | `server.go` 1919-2098, `triggers.go` 101-176, `engine/schedule.go` | row: expression, active, next_run_at | reconcile, create, update, delete, evaluate, mark | each due time starts one run, whoever edits or dies |
| sub-workflows | `engine/subworkflow.go`, `subruns.go` | child runs; the parent's slot | start, poll, time out | a chain of runs finishes; the tree under a run stays bounded; a parent speaks for its child |
| node policy | `server.go` 123-293 | attempts, deadlines | retry with backoff, timeout | side effects are not repeated after an unclear answer |
| node semantics | `engine/executor.go`, `nodes_*.go`, `expr_eval.go` | none | evaluate a node on the context | expressions mean what is written; lists and dates are right; branches and items do not disturb each other |
| decisions | `engine/decide` | settings, which may be saved at any time | rules, model, fallback | a decision below its threshold goes to a person; a rule's answer does not pass as a model's |
| connectors | `connectors/`, `engine/declarative.go`, `executor.go` | credentials | validate, test, call | what the author filled in arrives; what is called ready can be called |
| API guard | `guard.go`, `rbac.go` | none | one decision per request | its tables |

### Human tasks (`internal/humantask/server.go`)

State: table `human_tasks`. Operations: create (the engine's POST), complete (a
person; then a goroutine that calls the engine back, five attempts), the SLA
sweeper that notifies overdue tasks. Correct when a waiting run has a task, a
decision moves its run on exactly once and as recorded, and the first answer
stands.

### Workflow registry (`internal/registry`)

State: `workflows` and `workflow_versions`. Operations: create, update (a new
version), archive, validate. The engine asks it for the current definition in
every pass and lists all workflows to derive triggers. Correct when the current
row and its newest version agree, no acknowledged update is lost, and a
definition it finds valid runs as it is drawn.

### Agents, credentials, catalog, console

Single-row stores, encryption, and a React designer.

### How they interact

* engine to registry: `GetDefinition` per pass, workflow list per
  reconciliation; both may fail.
* engine to task service: POST of a task, retried, whose reply may be lost;
  task service to engine: the callback, retried, which may be lost or late. The
  engine's sweep is the safety net for the callback.
* engine replicas with each other: only through rows: the run lease, the
  coordinator lease, and the run's status, which most writers write without a
  condition.
* goroutines of one replica: the per-run lock and the slot channel; an attempt
  that timed out runs on beside its successor; parallel branches.
* runs with each other: a parent creates its child and polls its row.

### What is hard here

Reads and writes of one row by several replicas, goroutines and users with no
transaction around them; leases that outlive or fail their owner; a crash
between an effect and its record; work that is retried although the first
attempt arrived; recovery loops that see only some states. `PROJECT.json` lists
each such hazard at its line with the properties that watch it.


## The modules

### RunEngine

One run, any number of replicas, one database access per step. Between two
steps any other replica, a callback, a user or a crash may act.

| state | code |
|---|---|
| `status`, `current`, `ckpt`, `mark` | the row: status, current_node, and what of the context the control flow reads: checkpoints and timer states |
| `owner`, `lease` | lease_owner; lease_expires_at as none, live or expired |
| `up`, `recover`, `queue` | process alive; start-up scan due; queued starts |
| `pc`, `lost`, `w` | position and locals of `processRun`; `leaseLost` |
| `rpc`, `rw` | position and locals of the resume goroutine |
| `fired`, `arrivals`, `orphaned`, `lateFires` | history, for the properties only |

| actions | code |
|---|---|
| `Claim`, `Skip`, `Heartbeat`, `HeartbeatError`, `Release`, `Reclaim`, `Expire` | the lease, and time |
| `Crash`, `Restart`, `ResumeInFlight` | process death, `resumeInFlightRuns` |
| `Load`, `Begin` | prologue of `processRun` |
| `LoopTop`, `Enter`, `Clear`, `Attempt`, `Call` | the node loop up to the node's effect |
| `RecordNext`, `RecordErrorRoute`, `RecordTolerated`, `RecordFailure`, `RecordWait`, `RecordEnd`, `Finish` | what the loop does with the result |
| `Deliver`, `HumanLoad`, `HumanRoute`, `HumanGo` | `resumeFromHumanTask`, from the callback or the sweep |
| `TimerScan`, `TimerMark`, `TimerGo` | `resumeDueTimers` |
| `Cancel` | `cancelRun` |

A definition is data: `Kind`, `Routes` (where a node may lead), `Follow` (its
plain next step), `OnError`, `Tolerant` (continue_on_error), `Fallible`. Nodes
are plain steps, human tasks, timers, ends and stop_error nodes: the five ways
the loop can treat a result. All attempts of a node are one `Call`.

### WorkflowRun

The abstract specification: one position that walks the edges, a status that
only moves forward. No replica, lease, checkpoint or crash. `RunEngine` refines
it (`Sequential == INSTANCE WorkflowRun WITH ...`: status and current_node are
those of the row, the rest of RunEngine's state is hidden); the property
`SequentialRun` says so, `RunIsSequential` proves it.

### HumanReview

Engine, task service and the calls between them. The engine is one process with
one worker; `tasks` is the task database, `forms` completions between their two
statements, `calls` callbacks with the attempts they have left, `resumes`
goroutines of `resumeFromHumanTask` (task, answer, whom they come from, before or
after the status check), `quiet` that nobody has written the run's row for two minutes.
A POST of a task may be handled with its reply lost, or refused for good. So may a
callback: it fails, or is handled and answered, or is handled (the engine starts the
resume before it replies) with its reply lost, and is then sent again; `echoed` are the
tasks whose answer the engine may hear again. An overdue task is selected, marked, and
its notice sent (`sending`) in three steps. Actions: `Begin`, `Step`, `PostTask`, `Pause`
(engine); `ResumeCheck`, `ResumeGo`; `Sweep`, `GracePasses`; `OpenForm`, `CloseForm`,
`Callback`; `GoesOverdue`, `SelectOverdue`, `MarkOverdue`, `NotifyOverdue`; crashes of
both services.

### RunRequests

Handlers of `createRun` and `triggerWebhook` as sequences of statements
(`Lookup`, `Load`, `Create`, `Save`, `Start`), slots (`TakeSlot`, `Leave`),
`Wake`, `Cancel`, `Crash`, `Restart`, `Reclaim`, and the two statements of retention
(`PruneRuns`, `PruneKeys`). A restart starts again the newest `RestartLimit` runs of
each status (500 in the code); `left` are the runs it passed over, of which `Reclaim` takes
up those that were RUNNING, and the runs that were stored but could not be read back
(`unread`). Time is the number of retention windows passed. One
workflow: keys of different workflows never meet. The execution of a run is one
step.

### Coordinator, PollTriggers, Schedules

`Coordinator` is the singleton lease; the other two extend it and are composed
with it action by action: a tick first acquires the lease, and nothing in the
tick looks at it again.

`PollTriggers`: `Tick`, `Reconcile`, `List`, `Fetch`, `EachItem` (one item of
the loop of `pollOnce`), `Mark`; the world adds items at either end of the
source, switches the workflow, lets intervals pass. The row keeps the ring of
seen keys in order, because eviction depends on it.

`Schedules`: `Tick`, `List`, `Fire`, `Mark`, `MarkFails` (its write's error is ignored) and
`Deactivate` (there is no next time) of the scheduler; `ReconcileSchedule`;
`EditWorkflow` (registry); `CreateSchedule`, `UpdateSchedule`, `DeleteSchedule`
(API). An expression is an interval, or a calendar time, the multiples of n:
`NextRun` is strictly later for both, as in `schedule.go`; a calendar time more than
`Horizon` away is an error, as one beyond 366 days is there. `cuts` counts what ends a
pass between the runs it started and their mark: a crash, a mark that is not stored, a
row that is switched off. In `PollTriggers` it counts crashes and `MarkFails`.


### Registry, SubWorkflows

`Registry` is the two tables and the handlers as sequences of statements, each
request on its own connection: `CreateRow` and `CreateVersion` are its two inserts,
`UpdateRead`, `UpdateInsert` and `UpdateWrite` the read-modify-write of an update, `Archive` one
statement; a process that dies leaves what it had written. `accepted` is what the
last answered request said, `overlapped` the workflows that two requests changed
at a time, `cut` those whose update a crash split between its two writes, `refused` those
for which the UNIQUE constraint on versions refused a definition.

`SubWorkflows` extends it: a run takes a slot, reads the definition that the
registry has by then, and executes its one step, which may create a child and
poll it. `work` is the goroutine of a run (position, attempts left, the child's
id), `runs` the table. A deadline may pass at any moment; a crash empties `work`
and the queue, and recovery starts the runs that were in flight again, but for those
beyond `RestartLimit` (`passed`).

### NodeCalls

One step that calls another system, with its retries, its own timeout and that
of the HTTP client. `fate` is what became of each attempt, also of those that
were given up; `served` which of them the other system acted on; `context` whose
results are in the run's context. The step's configuration is any combination of
a few values; `Attempt`, `Backoff`, `Succeeds`, `Errs`, `ClientTimesOut`,
`StepTimesOut`, `Serve` (the other system), `Cancel`.

### FlowSteps

`executeParallel` and `executeLoop` over small definitions. A branch walks on its
own copy of the context, one step at a time, in any interleaving with the others
(`BranchStep`); `FanIn` is what the step does when all are done. `Path` is the walk of
a branch or a body after each number of steps, `Laps` a loop after each number of
items: functions on numbers, where the code has its loops. The reference definitions
run the branches one after the other, and each item alone.

### Decisions, DecisionRules

A decision as a sequence of steps that each read the settings anew, with `SetConfig`
between any two: the sidecar, the copy of the settings that names a provider
(`ReadSettings`), the choice that looks at addresses as they are by then
(`ChooseProvider`, `DetectOllama`), the check of a provider that a prompt step names,
the model, the list of Ollama's installed ones, the tries, acceptance, fall back.
`DecisionRules` is the rules that decide without a model, for all ten tasks, as
functions of the numbers, flags and words they read. `LowerAmounts` are the amounts with
which a request's is compared.

### Expressions, ValueSteps, DataNodes, CronTimes, Validation, Connectors

Pure functions. `Expressions` has the evaluating parser over tokens, and the older
parser of conditions; the reference is a syntax tree with its meaning, and the
function that writes it down. `ValueSteps` is templates and the steps set,
transform, filter, code, merge and trigger; `DataNodes` lists and dates, with a
value as what it prints and the number it starts with. `CronTimes` is cron and
daily schedules on a calendar with the real months and leap years and shorter
hours; a cron search is the least match among the minutes it scans. `Validation` is
`Validate` on sequences of steps, compared with where the engine goes (`EngineRoutes`, and
`WalkRoutes` inside a branch or a loop body) and with every refusal of its steps that
depends on the definition alone (`Refusals`); those the registry does not look at are
listed (`NotLookedAt`). What a walk comes to (`Reached`, `Walked`) is what every
closed set of steps contains. `Connectors` goes from a connector's definition,
a step's settings and the credentials to the request; a template is a sequence of
parts.

### PureCalls, MCFunctions

`PureCalls` makes of `CronTimes`, `FlowSteps` and `Validation` a state machine: its
initial states are the calls (a function and its arguments), an action answers one,
and the branches of a parallel step run as goroutines in between. `MCFunctions`
extends it with the calls of the other functions, a step that calls another system,
and a decision to be made.


## The runs

All bounds are constants in the `.cfg` files. Deadlock is not checked: every
model may come to its natural end (a finished run, an exhausted bound).

| run | instance | shows |
|---|---|---|
| engine_crash | 2 replicas, 2 crashes, registry outage, fairness; 4 nodes: a branch, an error output, a tolerated failure | with stable instance ids: `ExclusiveWorker`, `RunIsHeld`, `FiredOncePerArrival`, `SequentialRun`, `Settles` |
| engine_wait | 2 replicas; a step that repeats, a human task in a revision loop, a timer; each decision delivered once | `TypeOK`, `SequentialRun` |
| engine_stall | 2 replicas, 3 nodes; a stall, an error of the database (a heartbeat, or a read of the run's row) and a cancel, each anywhere | `LiveLeaseNotStolen`, `StopsWithinOneNode` |
| review_chain | two sign-offs; callbacks that fail or are heard again, three attempts each of callbacks and POSTs, a crash of the task service | `PausedUntilItsTaskIsCompleted`, `FollowsTheRecordedAnswer`, `HandledOnce` |
| review_takes_effect | one sign-off; two faults, each a lost reply or an engine crash; lost callbacks, sweeps that overlap them, fairness | `WaitsWithATask`, `DecisionTakesEffect` |
| requests_delivered | 2 keys, 3 deliveries one after another, a crash, a restart that reads 1 run of each status, a run that cannot be read back, a retention window, 1 slot, fairness | `RepliesAgree`, `CrashesBoundRunsPerKey`, `RunsAreNotLost` |
| polls | 2 items, 2 replicas, cap 1, one each of: registry error, failed poll, run that cannot be created, switch, crash or mark that is not stored; fairness | `OneRunPerItem`, `BacklogNotReplayed`, `NewItemsFire` |
| schedules_served | 2 replicas, a crash or a mark that is not stored, a run that cannot be created, an expression whose next time may be too far, 2 edits between any two steps, one of them a status, 4 ticks, fairness | `FiresOnce`, `NextMatchesExpr`, `NotSkipped`, `TriggerNodeWins` |
| sub_workflows | 2 workflows that may come to call each other, 2 requests, 2 edits, 2 slots, depth 2, one fault (lookup, look at the child, cancel or crash), deadlines at any moment, fairness | `ChildrenBounded`, `UpdatesAreWhole`, `UpdatesGoThrough`, `ComesToRest` |
| functions | every call of a function on small inputs, parallel branches interleaved, one step with its attempts, one decision with the settings saved meanwhile | `NextRunIsTheFirst`, `ExpressionsMeanWhatIsWritten`, `DataStepsAreRight`, `BranchesDoNotInterfere`, `LoopsGoItemByItem`, `AnswersAreAttributed`, `DecisionsAreCautious`, `ValidationVouches`, `ConnectorCallsAreWhole`, `OneResult`, `RetriesAreSafe`, `StepsEnd` |
| engine_loop_replay, review_stale | see below | a violation each |

Why these bounds are enough to be of interest: two replicas are what a lease tells apart
(owner and contender), and the proofs cover any number; two crashes let a recovery be
interrupted by a second one; four nodes hold every way the loop can leave a node; two
visits hold a stale task or answer and the wait it disturbs; two lost replies
exhaust the POSTs of a task (two instead of the code's three, which review_chain has)
and leave two tasks of one visit; a cap of one and two items let the cap bite, and a
third run of an item could be seen; a restart that reads one run of a status passes over
another as soon as there are two, while one that reads 500 passes over none among the
runs of sub_workflows (the theorems hold for every limit); two slots are filled by a
parent and its child, so that a grandchild has to wait for its own grandparent; two
levels reach the depth limit. The functions are called on all inputs up to a size at
which every branch of the code is taken: expressions of up to two operators from every
precedence, lists of three items, loops of three items over bodies of three steps, two
branches over three steps, definitions of three steps, six years of days (a leap year
among them). Every action fires in some passing run, and each property of a passing run
fails for at least one small change of the modelled code (the operators with a suffix
next to the real one, such as `ClaimableAnyLease`, are these changes; `PROJECT.json`
lists them under "mutants").


## What the runs found

Two runs check one property each that a comment or a document of the
repository states, and fail on the code as it is.

| run | the code does |
|---|---|
| engine_loop_replay | after a crash in a loop, checkpoints of the previous lap are replayed and a recorded effect is repeated |
| review_stale | in a loop, the sweep resumes the second visit with the task completed on the first |

More disagreements of the same kind follow from the models when a bound of a
passing run is changed. The property and the change:

| property | change | the code does |
|---|---|---|
| `ExclusiveWorker` | engine_crash with `MaxDbErrors = 1` | a failed heartbeat UPDATE ends the heartbeat; the lease runs out under a working replica and another executes the run |
| `FiredOncePerArrival` | engine_wait with `MaxCrashes = 1` | a start queued while RUNNING executes a run that waits by then, and creates its task again |
| `FiredOncePerArrival` | no faults; a tolerated failure in a loop through a human task | a pass that tolerates a failure does not take note that a node has run (server.go:569-580): after the wake a checkpoint of the previous lap is trusted, so that a step is skipped, where server.go:455 says that the note "flips true once any node runs for real in this pass" |
| `SequentialRun` | engine_wait with `MaxCancels = 1` | a cancel is not final: see below |
| `WaitsWithATask` | review_takes_effect with a second sign-off behind the first | a late resume starts a second worker there, whose pause outlives the first one's move to another step |
| `RunIsHeld`, `Settles` | engine_crash with `StableIds = FALSE` | a claimed run that is still PENDING when its replica dies is picked up by nobody |
| `RunIsHeld`, `Settles` | engine_wait | a decision that arrives on another replica before the worker that paused the run has released its lease starts nothing: the run stays RUNNING, without a lease to expire, until a restart |
| `PausedUntilItsTaskIsCompleted`, `FollowsTheRecordedAnswer` without `EarlierEcho` | review_chain | a callback that the engine has handled but whose reply is lost is sent again (humantask/server.go:456), and the engine takes it for the answer to the next sign-off: it looks at the run's status, not at the task (server.go:692) |
| `DecisionTakesEffect` | review_takes_effect with `SweepReaches = FALSE` | the sweep lists the newest 200 waiting runs (triggers.go:253): a run behind them whose callbacks were lost waits until it is among them |
| `PausedUntilItsTaskIsCompleted` | review_chain with `SweepOverlaps = TRUE` | a late callback moves the run off a later wait |
| `HandledOnce` | review_chain with `MaxRacing = 2` | two completions at once: the second overwrites the first |
| `OneRunPerKey` | requests_delivered with `Overlap = TRUE` or as it is | a delivery repeated while the first is handled starts a second run, and so does one repeated after a crash between run and key (README.md:267 of the repository: "a repeated delivery returns the original run") |
| `RunsAreNotLost` without `left` | requests_delivered (with `MaxUnread = 0` too) | a restart reads the newest 500 rows of a status (server.go:1855, store.go:368): an older PENDING run is started by nobody, where background.go:88 says "rather than being lost" |
| `RunsAreNotLost` without `left` | requests_delivered with `RestartLimit = 3` | a run whose INSERT succeeds and whose read-back fails (store.go:319) is answered with an error and started by the next restart only |
| `CrashesBoundRunsPerKey` | requests_delivered with `LateRepeats = TRUE` | keys of waiting runs are pruned, and a key that outlives its run is not replaced |
| `NothingSkipped` without `Dropped` | polls | an item is recorded as seen without a run: the cap, a run that cannot be created, a row pruned on an error of the registry |
| `BacklogNotReplayed` without `errors = 0` | polls | a failed first poll makes the second replay the backlog |
| `FiredOnce` without `cuts`, or with `Stalls = TRUE` or `Window = 1` | polls | an item starts two runs |
| `FiresOnce` | schedules_served with `Stalls = TRUE` | a due time starts two runs |
| `FiresOnce` without `cuts` | schedules_served with `MaxCuts = 0`, `Edits = 0` | a row of a trigger node whose expression has no time within 366 days (`29 2`, say) is switched off after it has fired (server.go:1942); once there is one again `reconcileSchedule` switches it on with the old next_run_at (triggers.go:156-175), and it fires at once |
| `UpdatesGoThrough` without `cut` | sub_workflows | after a crash between the INSERT of a version and the UPDATE of its row every later definition of that workflow is refused by the UNIQUE constraint (registry store.go:73), and answered with 404 |
| `AnswersAreAttributed`, with `NamedBySettings` about one saved configuration | functions | `provider()` names a provider by one copy of the settings and looks for its address in another (engine.go:182-203): a save in between lets it pick one that no saved settings would have |
| `NextRunIsTheFirst`, with the clock of a location that is not whole days from UTC | functions | `09:30` fires at 09:30 UTC: schedule.go:17 says "local time", but every caller passes UTC (server.go:1926, 1999 and 2063, triggers.go:108 and 147) |
| `ValidationVouches` without one of `NotLookedAt` | functions | a definition is found valid that the engine refuses as drawn: a human task or a wait in a branch or a loop body (executor.go:2075, nodes_extra.go:246), an operation, zone, algorithm or task nobody knows (nodes_data.go:246, 312, 421, 470, 574 and 626, engine.go:229), an operation in capitals, which the registry does not recognize |
| `AnswersStand` without `overlapped` | sub_workflows | of two updates at once the second writes back what it had read, an archived workflow among them |
| `AmbiguousCallsAreNotRepeated` | functions | a tool call whose HTTP client gives up (30 seconds) before the step does (45) is retried, though docs/workflows.md:83 says "Timeouts on side-effecting steps are not retried by default" |

`FiresOnce` and `OneRunPerItem` grant one more run per crash and per mark that is not
stored, because runs are started before the mark, whose error is ignored
(triggers.go:420, server.go:1945). `StopsWithinOneNode` grants one more node for each
look at the row that the database does not answer: `isRunCancelled` takes that for a no
(server.go:309). `NextMatchesExpr`, and `FiresOnce` for times at which a user had
switched the schedule off, except an edit between two steps of the scheduler (`raced`),
whose next_run_at the scheduler overwrites. A switch by the trigger node is not a
user's: `reconcileSchedule` switches a row on again with its old next_run_at.
`NotSkipped` excepts a run that could not be created: the time is marked as served.
`TriggerNodeWins` is about active workflows with a schedule: the row of an archived one,
or of one whose trigger has changed its kind, stays active and keeps firing. That a
cancel is final does not hold either: `Begin` writes RUNNING over a cancel that came
after `Load`; so does the failure of a step that finds the run cancelled between two
retries (server.go:213).

Reading the code for the functions showed more, which the models take as it is
(their actions do what the code does) and the properties except by name:

* Cron: `29 2` alone (29 February) is an error in most years, since the search
  ends after 366 days (schedule.go:94); `*/2` counts as a restriction when the two
  day fields are combined.
* Expressions and conditions are two languages (docs/workflows.md:45 says they are
  one): a condition splits its text at `||` and `&&` first, so that a comparison
  in parentheses means something else. An empty condition is true, where
  validate.go:252 says that it "can never match".
* Dates that are sorted compare by their year only, where nodes_data.go:368 says
  "chronologically"; a missing value sorts first when the order is descending;
  the hour's start is UTC's; a list step with a negative offset ends the process.
* A text with an expression that comes to nil keeps the braces; merge's `combine`
  iterates a map, so that which source wins is random (nodes_extra.go:275 says the
  later one).
* An agent's error output is taken before its retries (executor.go:1960 against
  docs/workflows.md:61). A stop_error inside a loop body or a branch does not fail
  the run. The guards of 100 steps of a branch and 500 of a body end it silently.
* A decision's route map comes before its escalation; a confidence of 0 is taken
  as 0.5; the sidecar is not told that a step is strict; a strict step without any
  provider is answered by the rules; answers 401, 403 and 404 of Cordon and Ollama
  are retried, where engine.go:458 says otherwise. The rules approve an order with
  missing inputs, where rules.go:17 says they escalate.
* The validator counts a merge's sources as routes and branches spelled as objects
  as branches, which the engine does not follow; it wants the seconds of a wait as
  a number, where the engine resolves templates; it refuses a step type that the
  engine runs.
* A credential that cannot be decrypted, or comes from an environment that
  `KNOTT_ENV_SECRETS=off` hides, counts as configured (server.go:1535) and fails
  the call.

The passing runs are the other half of the same statement: with that one failure
excluded by a bound of the environment, the property holds.


## Fairness

Weak fairness is assumed of what a running process does by itself: its
goroutines advance, its tickers tick, a lease's time passes, and a process that
died is started again (`docs/deployment.md` runs it under a supervisor). Nothing
is assumed of people, of the registry, of the database's errors or of crashes,
all of which are bounded. The one strong fairness is `TakeSlot(r)` in
`RunRequests`: goroutines that wait to send on `runSlots` are queued by the Go
runtime in order, so a run is not overtaken for ever although the slot it waits
for is taken in between. In `SubWorkflows` the engine as a whole goes on while any
of its goroutines can, deadlines included. In `NodeCalls` the engine and both
timers go on, and the other system owes nothing.


## The proofs

Eight modules of theorems, one about each state machine
(`SubWorkflows_proofs` includes the registry, those of polls and schedules the
coordinator's lease, and `Answers_proofs` has both `NodeCalls` and `Decisions`). TLAPS
checks them for every value of the constants: every definition, any number of
replicas, items, keys, workflows, retries and faults. They rest on the named
assumptions on the constants, which say that these have their types and that every
step has a route (`DefinitionAssumption`, `EnvironmentAssumption` and their like).
Each follows one pattern: an inductive invariant, stated as named parts at the head
of its module; one lemma per action; and a last step of temporal logic.

Liveness is out of TLAPS's reach, but what it rests on is not: four theorems state for
a liveness property of the runs that what is owed is never dropped and always somebody's
(`RunsAreHeld`, `AcceptedRunsAreCarried`, `DueTimesStayDue`, `NobodyIsForgottenAlways`).
That this somebody gets to it is fairness, and is checked on the instances.

A theorem is either unconditional or states as a hypothesis a bound of the
environment. The hypotheses are those under which the runs check the same property,
and each was tried without: the result is a row of the table above, or is named here.

### The engine (`RunEngine_proofs`)

* `TypesOK`. `TypeInv` adds that a worker in the node loop holds a node of the
  definition, never the empty id: without it the checkpoint function could be applied
  outside its domain.
* `ExclusiveExecution`: with punctual heartbeats and a database that answers them
  (`MaxStalls = 0`, `MaxDbErrors = 0`) at most one replica executes the run. The
  strengthening is `WorkerOwnsLease`: whoever works is alive, owns the lease and the
  lease is live, so that a claim finds the row taken.
* `LiveLeases`, `StopsAlways`: with no hypothesis, a live lease changes hands only by
  its owner's release or death, and a worker with a reason to stop lets at most one
  node take effect. `LateInv` adds that one who has just looked has let none.
* `FiredOnceGoingForward`: with an exclusive worker, one effect per arrival, through
  all crashes, restarts, reclaims and cancels, if the definition has no pauses
  (`OnlySteps`) and a ranking rises along its edges (`Forward`). `OnceInv` says why:
  checkpoints lie behind the stored position, and the position, or the node its
  checkpoint hands on to, is owed an execution. In a cycle a checkpoint may lie ahead,
  which is what engine_loop_replay finds.
* `FiredOnceWithoutFaults`: cycles, tasks, timers and cancels included, while nothing
  fails (`Calm`) and no failure is tolerated. `CalmInv` is about who holds the run: a
  queued start, a worker or a resume, but one of them only, and one open task; `LapInv`
  that a worker meets the checkpoint of an earlier lap only after an execution of its
  own, when it clears it. `Tolerant = {}` is needed: see the table.
* `RunIsSequential`: `RunEngine` implements `WorkflowRun`. Every step of the cluster is
  a step of the drawn run or leaves status and position as they are. `WalkInv` has the
  checkpoints on edges, a worker in the loop at the run's node or on an edge to it, and
  a verdict that the status allows; `Paced`, that passes and resumes do not overlap. The
  hypotheses are an exclusive worker, no cancel (`MaxCancels = 0`: a cancel is not final)
  and either no pauses, with every crash, or no faults, with every definition.

* `RunsAreHeld`, the safety half of `Settles`: a run in flight has a worker, or a replica
  that will start it and that its lease lets in, and a RUNNING run has a lease that can
  expire; through crashes, restarts, reclaims, registry outages and cancels. `PassEnds` is
  the strengthening: a pass that lets go of its lease leaves the run ended. Hence the
  hypotheses: owner ids that survive a restart (`StableIds`), an exclusive worker and no
  pauses, since in a run that pauses a wake may find the last pass about to release its
  lease, and is dropped.

### Human review (`HumanReview_proofs`)

* `HandledOnceWithoutRacing`: while no two people answer one task at a time
  (`NoRacing`). `FormsAreAlone` is the strengthening: an open form is for a pending task.
* `GoesOnWithItsTask`, `FollowsItsAnswer`, `WaitsWithATaskInOrder`: without loops
  (`Forward`), engine crashes, lost replies to POSTs and sweeps during callbacks
  (`Orderly`), until an answer to an earlier sign-off is heard again (`EarlierEcho`),
  which the first two state as their exception and the third as an alternative. The task
  service may crash, callbacks may fail, and answers be heard again at the sign-off they
  answer. `OrderlyInv` follows one token: a start, a worker or a wait at the newest
  task; what is under way is about that task, and the older tasks belong to steps
  behind. Nothing less is enough, since the engine looks at a run's status and not at
  which task it waits for.
* `WaitsWithATaskAtOneSignOff`, `GoesOnAtOneSignOff`, `FollowsAtOneSignOff`: where no
  sign-off leads to another (`OneSignOff`), with every fault, answers heard again among
  them. `SignOffInv` tells the time before the resume, with one worker, from the time
  after, when there may be more but none meets a task.

### Requests, triggers, schedules

* `RunRequests_proofs`: `RepliesAgreeWhenOrderly` and `CrashesBoundRunsPerKeyWhenOrderly`
  for senders that repeat a delivery after its answer and within the retention window
  (`Orderly`). `RequestsInv` dates everything (the retention job never meets a key in
  use), relates the key's row, the handler's local variable and the runs, and charges
  each further run of a key to a crash or to a run that was not read back.
  `AcceptedRunsAreCarried` has no hypothesis: while the engine is up, an accepted run that has
  not ended is queued, holds a slot, or is about to be started by its handler, unless it was
  not read back or a restart passed it over, and that takes more than `RestartLimit` runs
  (`InFlightIsCarried`).
* `PollTriggers_proofs`: `OneRunPerItemInTheWindow` and `BacklogKeptInTheWindow` while a
  live holder renews the lease (`~Stalls`) and the ring of seen keys holds what the source
  lists (`WindowIsWide`): an item whose runs are used up is remembered by the row or by the
  poll under way, or the first poll of a new row meets it. `NothingSkippedUnlessStalled`
  is for every window.
* `Schedules_proofs`: `FiresOnceUnlessStalled` (`~Stalls`): a due time that has used up
  its runs is behind the row, or the scheduler is about to move the row past it. Edits
  of the row between any two steps of the scheduler are why the row under work is the
  listed one or later (`SameRowOrLater`), and a pass that is cut short leaves it behind
  (`Unmarked`). `NextMatchesExprAlways` has no hypothesis. `DueTimesStayDue`
  (`~Stalls`), the safety half of `NotSkipped`: no step but an edit moves a due row on
  before its run was started or could not be created (`MarkedIsServed`).

### Registry and sub-workflows (`SubWorkflows_proofs`)

No theorem here has a hypothesis.

* `RegistryIsWhole`, and `RegistryIsWholeUnderRuns` for the composed specification:
  versions are keyed, copies in hand are stored versions, and what was promised holds
  for every handler that is between its statements (`PromisesKept`).
* `RefusalsHaveReasons`, and `RefusalsHaveReasonsUnderRuns`: a request whose version is
  taken overlapped another one or came after a cut (`CutInv`), and a cut leaves the next
  version without a row for good (`CutIsForGood`).
* `ChildrenBoundedAlways`: a run's children, the starts that
  are on their way (`orphans`) and the attempts it has left never exceed its attempts
  times one more than the crashes (`BudgetKept`), and a run's depth is one more than its
  parent's (`DepthsCount`). The property counts the level by a recursive function; that
  it agrees with the stored depth is shown for the least run at which it would not.
* `NobodyIsForgottenAlways`, the safety half of `ComesToRest`: while the process is up,
  every run in flight has a goroutine, unless a restart that reads `RestartLimit` rows of a
  status passed it over, and a step waits only for a child of its own,
  which is later than itself, so that waits form no circle.

### Steps that ask others (`Answers_proofs`)

* `OneResultKept`, `RetriesAreSafeAlways`: for all timeouts, retries and orders of
  answers. `NothingAmbiguous` is the strengthening: as long as a step that must not be
  repeated goes on, each attempt that is over was answered.
* `AnswersAttributed`: the provider chosen was named by settings in force since the step
  began, and had its address by those or later ones (`NamedBySettings`), since each part of
  the choice reads them anew (`ChosenJustified`).
* `DecisionsAreAlwaysCautious`, for all inputs of the rules whose numbers are numbers
  (`IsInput`, `AmountsAssumption`). Its first part is `OnlySureAnswersAlwaysGoOn`: for every
  task some rule applies and claims a confidence (`RulesClaim`). For the rest the rules
  of each task are gone through: with a smaller amount the same rule or a later one
  applies, so that an approval stays one, and a rule escalates exactly if it claims less
  than 80, but for leads. `RulesAnswered` carries this from the rules to the step.

### Functions (`PureCalls_proofs`)

`CallsAreAnswered` is the invariant: a call has no answer yet or its function's, and a
branch is on the walk it would take alone. The rest is about the functions, for all
arguments of their kinds (`TimesAssumption`, `LoopsAssumption`, `DefinitionsAssumption`),
lengths of hours and minutes (`ClockAssumption`) and limits (`LimitsAssumption`). No
theorem has a further hypothesis. Induction over numbers is by the least number at which
a claim would fail (`LeastNumber`).

* `SchedulesFireFirst` (`NextRunIsTheFirst`): lemmas about division read hour and minute off
  an instant; a field's values are those crontab allows (`FieldMeans`), so that an instant
  matches if it is a standard one (`MatchesStandard`); and the scan holds every whole
  minute of the next 366 days (`ScanCovers`), so that its least match is the first.
* `InterleavingsAgree` (`BranchesDoNotInterfere`): a step of a branch is a step on its own
  path and disturbs no other, and a finished branch is at the path's end (`PathEnds`), so
  the fan-in finds what the branches would have come to one after the other.
* `LoopsAreWholeAndInOrder` (`LoopsGoItemByItem`): `LapKept` is the invariant of a lap, one
  entry for each item so far and no tolerated error unless errors are tolerated; two walks
  of a body on contexts that agree on its own steps stay alike until one reads something
  foreign (`BodyAlike`).
* `ValidMeansRunnable` (`ValidationVouches`): the engine's routes are among the references
  the validator follows (`RoutesAreReferences`), so a step the run comes to is reached,
  and what the engine refuses is an error there or among what the registry does not look at.

### Only model-checked

Liveness under fairness and ENABLED are beyond TLAPS: `Settles`, `DecisionTakesEffect`,
`RunsAreNotLost`, `NewItemsFire`, `NotSkipped`, `TriggerNodeWins`, `ComesToRest` and
`StepsEnd`. So are three of the functions' properties: `ExpressionsMeanWhatIsWritten` and
`ConnectorCallsAreWhole` are about trees, which the parser and its reference go through by
RECURSIVE operators, and what they compute for every tree is an induction over data;
`DataStepsAreRight` is about the values of expressions and, for lists, about folds.


## What is left out

* RunEngine: retries and timeouts inside a node (NodeCalls has them), parallel and
  sub-workflow nodes (FlowSteps, SubWorkflows), errors of the status and context
  writes, which every caller ignores (store.go:385), the event log. A definition is
  fixed and its routes lead to steps of it, so that a pass never looks for a step that is
  not there (server.go:494 fails the run then). `RunIsHeld` and `Settles` are checked, and
  the first proved, with a database that answers (`MaxDbErrors = 0`): a pass whose first
  read fails (server.go:397) leaves a RUNNING run without a lease, until a restart.
* HumanReview: replicas and leases (RunEngine has them), assignment and listing, the limit
  of 50 overdue tasks per round, and the ignored error of the UPDATE that marks a task
  overdue, after which its notice is sent again. `SweepReaches` stands for the limit of
  200 runs of the stuck-task sweep.
  The sweep's grace is one clock: updated_at is stored in local time and read as
  UTC, so that it is shorter or longer elsewhere (store.go:386).
* RunRequests: several workflows (keys are per workflow), authentication, payloads, and
  the ignored error of SaveIdempotencyKey, which is as a crash at that place. A restart's
  limit counts by the order of creation: rows of the same second may come in any.
* PollTriggers: reconciliation is one step, one trigger row, the item's key as its
  identity.
* Schedules: one row per workflow; reconciliation is one step, although it lists,
  computes and writes (triggers.go:101-175); run-now, the clean-up of duplicate rows of
  older versions and the back-fill of an empty next_run_at.
* SubWorkflows: the mapping of inputs and outputs; more than one step per run; the
  reclaim of a RUNNING run that a restart passed over (RunRequests has it). Errors of the
  registry's own database other than the UNIQUE constraint.
* The functions: characters and formatting, hashing and encoding, floating-point
  rounding, the date functions of expressions, the native connectors.
* FlowSteps: a panic inside a branch, which is recovered and counts as a failure without
  the branch's updates (executor.go:2037); a loop inside a branch is one of its steps.
* DataNodes: a negative offset from the end of a list is a panic here; with spare capacity
  behind the list the code answers with empty items at its end (nodes_data.go:120-129).
* Connectors: `output_path`, which cuts a part out of an answer (executor.go:795) and
  the names of an API key's header and of a basic login's user.
* Decisions: Cordon's address, TLS identity and client id are three reads (cordon.go:132-159);
  a save between them counts as any refusal by the server.
* Not modelled at all, with the reason in `PROJECT.json`: agents' table, catalog,
  roles, start-up and shutdown, the console, the simulators and the Python service.

Type invariants: the run of engine_wait checks RunEngine's. Those of the other models
are not among the runs' properties: theorems state them (`TypesCorrect` in five of the
modules of proofs; that of NodeCalls is part of `CallsInv`, that of PureCalls of `PureInv`).

## The plan

1. Proofs: `SequentialRun` for definitions with pauses through crashes of replicas that
   are not at a pause; `FiredOncePerArrival` for cycles whose laps no crash interrupts;
   `RunIsHeld` for definitions with pauses, when wakes come after the release; dates and
   lists of `DataNodes`.
2. `Lifecycle`: start order, drain and shutdown of the single process; the drain
   waits for runs without closing the doors they come in by.
3. Failed status and context writes in `RunEngine`, as one more bound of its
   environment.
4. Nested paths and the date functions in `Expressions`.
