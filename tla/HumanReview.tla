------------------------------ MODULE HumanReview ------------------------------
(***************************************************************************)
(* A run that pauses for people: the engine's human_task node, the task    *)
(* service that keeps the inbox and calls back, and the reconciliation     *)
(* sweep that covers for lost callbacks. Two processes, two databases, and *)
(* HTTP calls between them that fail or lose their reply.                  *)
(*                                                                         *)
(* The engine is one process with one worker at a time; replicas, leases   *)
(* and checkpoints are RunEngine's subject.                                *)
(***************************************************************************)
EXTENDS Naturals, Sequences, FiniteSets

CONSTANTS
  Node, NoNode,
  HumanNode,      \* the human_task nodes; every other node is a plain step
  Start,          \* the trigger node
  Follow,         \* [Node -> Node \cup {NoNode}]: step.Next
  Decision,       \* what a person may answer
  NextMap,        \* [HumanNode -> [Decision -> Node \cup {NoNode}]]: step.NextMap
  Attempts,       \* callback attempts of the task service (code: 5)
  PostAttempts,   \* POSTs of a task by the engine (code: 3)
  Sla             \* the task nodes set sla_hours, so their tasks have a due_at

CONSTANTS         \* the environment
  RegistryOutage, \* GetDefinition may fail
  SweepOverlaps,  \* a sweep may meet a task whose callback is still under way
  SweepReaches,   \* fewer than the sweep's limit of younger runs wait (code: 200)
  MaxRacing,      \* requests that complete the same task at the same time
  MaxFaults,      \* engine crashes, and POSTs of a task that fail, handled or not
  MaxTaskCrashes, \* of the task service
  MaxVisits       \* arrivals at human nodes

ASSUME DefinitionAssumption ==
  /\ NoNode \notin Node /\ HumanNode \subseteq Node /\ Start \in Node
  /\ Follow \in [Node -> Node \cup {NoNode}]
  /\ NextMap \in [HumanNode -> [Decision -> Node \cup {NoNode}]]

ASSUME EnvironmentAssumption ==
  /\ Attempts \in Nat \ {0} /\ PostAttempts \in Nat \ {0}
  /\ {Sla, SweepOverlaps, SweepReaches, RegistryOutage} \subseteq BOOLEAN
  /\ \A b \in {MaxRacing, MaxFaults, MaxTaskCrashes, MaxVisits} : b \in Nat

VARIABLES
  status, current,   \* engine database: the run's status and current_node
  quiet,             \* the row has not been written for two minutes
  starts, pos,       \* engine process: queued starts, the worker's node
  posts,             \* engine process: POSTs it has made without a reply, or Answered
  resumes,           \* engine process: resumeFromHumanTask goroutines
  up,                \* engine process: alive
  tasks,             \* task database
  forms, calls,      \* task service: completions and callbacks under way
  due, sending,      \* its SLA sweeper: tasks to mark, notices to send
  visit, notices,    \* history: arrivals at human nodes; overdue notices per task
  echoed,            \* history: tasks whose callback was handled without its reply
  faults, taskCrashes

runVars    == <<status, current, quiet>>
engineVars == <<starts, pos, posts, resumes, up>>
taskVars   == <<tasks, forms, calls, due, sending>>
histVars   == <<visit, notices, echoed>>
envVars    == <<faults, taskCrashes>>
vars == <<runVars, engineVars, taskVars, histVars, envVars>>

NextId == Node \cup {NoNode}
Terminal == {"COMPLETED", "FAILED"}
Answer == Decision \cup {"none"}
Task == [node : HumanNode, visit : Nat, status : {"PENDING", "COMPLETED"}, answer : Answer,
         overdue : BOOLEAN, noticed : BOOLEAN]
Answered == PostAttempts + 1
TaskIds == 1 .. Len(tasks)
\* A callback attempt is numbered from Attempts down; 0 is the sweep.
Resume == [task : Nat, answer : Decision, by : Nat, checked : BOOLEAN]

TypeOK ==
  /\ status \in {"PENDING", "RUNNING", "WAITING_HUMAN"} \cup Terminal
  /\ current \in NextId /\ quiet \in BOOLEAN
  /\ starts \in Nat /\ pos \in NextId /\ posts \in 0 .. Answered /\ up \in BOOLEAN
  /\ resumes \subseteq Resume
  /\ tasks \in Seq(Task)
  /\ forms \subseteq [task : TaskIds, answer : Decision, by : Nat]
  /\ calls \subseteq [task : TaskIds, answer : Decision, left : Nat]
  /\ due \subseteq TaskIds /\ sending \subseteq TaskIds /\ echoed \subseteq TaskIds
  /\ visit \in Nat /\ notices \in [TaskIds -> Nat]
  /\ faults \in Nat /\ taskCrashes \in Nat

Init ==
  /\ status = "PENDING" /\ current = NoNode /\ quiet = FALSE
  /\ starts = 1 /\ pos = NoNode /\ posts = 0 /\ resumes = {} /\ up = TRUE
  /\ tasks = <<>> /\ forms = {} /\ calls = {} /\ due = {} /\ sending = {}
  /\ visit = 0 /\ notices = <<>> /\ echoed = {}
  /\ faults = 0 /\ taskCrashes = 0

\* UpdateRun stamps updated_at.
Write(newStatus, newNode) == status' = newStatus /\ current' = newNode /\ quiet' = FALSE
-----------------------------------------------------------------------------
(* The engine's worker. *)

EngineStep == UNCHANGED <<up, taskVars, taskCrashes>>

\* processRun from the stored node, one pass at a time; a terminal run is left alone.
Begin ==
  /\ starts > 0 /\ pos = NoNode
  /\ starts' = starts - 1
  /\ IF status \in Terminal THEN UNCHANGED <<runVars, pos, visit>>
     ELSE LET n == IF current = NoNode THEN Start ELSE current
          IN /\ pos' = n
             /\ Write(IF status = "PENDING" THEN "RUNNING" ELSE status, current)
             /\ visit' = IF current = NoNode /\ n \in HumanNode THEN visit + 1 ELSE visit
  /\ UNCHANGED <<posts, resumes, notices, echoed, faults>> /\ EngineStep

\* A plain step: current_node, then its successor, or the end of the run.
Step ==
  /\ pos \in Node \ HumanNode
  /\ Follow[pos] \in HumanNode => visit < MaxVisits
  /\ pos' = Follow[pos]
  /\ Write(IF Follow[pos] = NoNode THEN "COMPLETED" ELSE status,
           IF Follow[pos] = NoNode THEN pos ELSE Follow[pos])
  /\ visit' = IF Follow[pos] \in HumanNode THEN visit + 1 ELSE visit
  /\ UNCHANGED <<starts, posts, resumes, notices, echoed, faults>> /\ EngineStep

\* createTask: a new row, whatever tasks the node already has.
NewTask(n) == [node |-> n, visit |-> visit, status |-> "PENDING", answer |-> "none",
               overdue |-> FALSE, noticed |-> FALSE]

\* executeHumanTask's POST. Without a reply it is sent again (postJSONResilient),
\* whether the service has handled it or not; a 4xx ends it at once.
PostTask ==
  /\ pos \in HumanNode /\ posts < PostAttempts
  /\ current' = pos /\ quiet' = FALSE /\ UNCHANGED status
  /\ \/ posts' = Answered /\ UNCHANGED faults
     \/ /\ faults < MaxFaults
        /\ posts' = posts + 1 /\ faults' = faults + 1
  /\ \/ tasks' = Append(tasks, NewTask(pos)) /\ notices' = Append(notices, 0)
     \/ posts' # Answered /\ UNCHANGED <<tasks, notices>>
  /\ UNCHANGED <<starts, pos, resumes, up, forms, calls, due, sending, visit, echoed, taskCrashes>>

PostRefused ==
  /\ pos \in HumanNode /\ posts < PostAttempts /\ faults < MaxFaults
  /\ current' = pos /\ quiet' = FALSE /\ UNCHANGED status
  /\ posts' = PostAttempts /\ faults' = faults + 1
  /\ UNCHANGED <<starts, pos, resumes, histVars>> /\ EngineStep

\* The status write of the pausing pass, whatever has happened to the task since;
\* or of the failing one, when no POST was answered.
AfterPostAlways == "WAITING_HUMAN"
AfterPost == IF posts = Answered THEN "WAITING_HUMAN" ELSE "FAILED"

Pause ==
  /\ pos \in HumanNode /\ posts \in {PostAttempts, Answered}
  /\ Write(AfterPost, current)
  /\ pos' = NoNode /\ posts' = 0
  /\ UNCHANGED <<starts, resumes, histVars, faults>> /\ EngineStep

Crash ==
  /\ up /\ faults < MaxFaults
  /\ faults' = faults + 1
  /\ up' = FALSE /\ starts' = 0 /\ pos' = NoNode /\ posts' = 0 /\ resumes' = {}
  /\ UNCHANGED <<runVars, taskVars, histVars, taskCrashes>>

\* Restart and resumeInFlightRuns.
Restart ==
  /\ ~up
  /\ up' = TRUE /\ starts' = IF status \in {"PENDING", "RUNNING"} THEN 1 ELSE 0
  /\ UNCHANGED <<runVars, pos, posts, resumes, taskVars, histVars, envVars>>
-----------------------------------------------------------------------------
(* Waking the run. *)

\* resumeFromHumanTask starts with the status check and nothing else: not which
\* task the run waits for, and not which visit.
Resumable == status = "WAITING_HUMAN"

ResumeCheck ==
  /\ \E s \in resumes :
       /\ ~s.checked
       /\ resumes' = (resumes \ {s})
                     \cup (IF Resumable THEN {[s EXCEPT !.checked = TRUE]} ELSE {})
  /\ UNCHANGED <<runVars, starts, pos, posts, histVars, faults>> /\ EngineStep

\* Where a task's answer leads: its entry in next_map, or the plain next step.
RouteNextOnly(n, d) == Follow[n]
Route(n, d) == IF NextMap[n][d] # NoNode THEN NextMap[n][d] ELSE Follow[n]

\* The decision into the context, its route, RUNNING, and a start.
ResumeGo ==
  /\ \E s \in resumes :
       LET n == Route(tasks[s.task].node, s.answer)
       IN /\ s.checked
          /\ resumes' = resumes \ {s}
          /\ \/ /\ n = NoNode \/ RegistryOutage
                /\ Write("FAILED", current) /\ UNCHANGED <<starts, visit>>
             \/ /\ n # NoNode /\ (n \in HumanNode => visit < MaxVisits)
                /\ Write("RUNNING", n)
                /\ starts' = starts + 1
                /\ visit' = IF n \in HumanNode THEN visit + 1 ELSE visit
  /\ UNCHANGED <<pos, posts, notices, echoed, faults>> /\ EngineStep

\* reconcileStuckHumanTasks, every minute on the coordinator: among the newest waiting
\* runs, one that nobody has written for two minutes, and its node's newest completed task.
StuckRecent == status = "WAITING_HUMAN" /\ ~quiet
Stuck == status = "WAITING_HUMAN" /\ quiet
MatchesAny(t) == tasks[t].status = "COMPLETED"
Matches(t) == tasks[t].status = "COMPLETED" /\ tasks[t].node = current

Sweep ==
  /\ up /\ SweepReaches /\ Stuck
  /\ \E t \in TaskIds :
       /\ Matches(t) /\ \A u \in TaskIds : u > t => ~Matches(u)
       /\ SweepOverlaps \/ \A c \in calls : c.task # t
       /\ SweepOverlaps \/ resumes = {}
       /\ resumes' = resumes \cup {[task |-> t, answer |-> tasks[t].answer,
                                    by |-> 0, checked |-> FALSE]}
  /\ UNCHANGED <<runVars, starts, pos, posts, histVars, faults>> /\ EngineStep

\* Two minutes pass in which nobody writes the row.
GracePasses ==
  /\ status = "WAITING_HUMAN"
  /\ quiet' = TRUE
  /\ UNCHANGED <<status, current, engineVars, taskVars, histVars, envVars>>
-----------------------------------------------------------------------------
(* The task service. *)

ServiceStep == UNCHANGED <<runVars, starts, pos, posts, up, visit, envVars>>
InboxStep   == UNCHANGED <<resumes, echoed>> /\ ServiceStep

\* completeTask, first half: somebody answers a task that is still pending.
OpenAnyTask(t) == TRUE
Open(t) == tasks[t].status = "PENDING"

OpenForm ==
  /\ \E t \in TaskIds, d \in Decision :
       LET racing == {f \in forms : f.task = t}
       IN /\ Open(t) /\ Cardinality(racing) < MaxRacing
          /\ forms' = forms \cup {[task |-> t, answer |-> d, by |-> Cardinality(racing)]}
  /\ UNCHANGED <<tasks, calls, due, sending, notices>> /\ InboxStep

\* Second half: the UPDATE, which does not look at the status again, and the
\* goroutine that calls back.
CloseForm ==
  /\ \E f \in forms :
       /\ forms' = forms \ {f}
       /\ tasks' = [tasks EXCEPT ![f.task].status = "COMPLETED",
                                 ![f.task].answer = f.answer]
       /\ calls' = calls \cup {[task |-> f.task, answer |-> f.answer, left |-> Attempts]}
  /\ UNCHANGED <<due, sending, notices>> /\ InboxStep

\* A callback attempt: the engine resumes and answers below 500, and the service hears
\* it or not (taskCompleteCallback starts the resume before it writes the answer); or
\* the engine is not reached. Unanswered it is tried again; after the last attempt only
\* the sweep is left.
LeftAfter(c) == (calls \ {c}) \cup (IF c.left > 1 THEN {[c EXCEPT !.left = @ - 1]} ELSE {})

Callback ==
  /\ \E c \in calls :
       LET resumed == resumes \cup {[task |-> c.task, answer |-> c.answer,
                                    by |-> c.left, checked |-> FALSE]}
       IN \/ up /\ calls' = calls \ {c} /\ resumes' = resumed /\ UNCHANGED echoed
          \/ up /\ calls' = LeftAfter(c) /\ resumes' = resumed /\ echoed' = echoed \cup {c.task}
          \/ calls' = LeftAfter(c) /\ UNCHANGED <<resumes, echoed>>
  /\ UNCHANGED <<tasks, forms, due, sending, notices>> /\ ServiceStep

\* due_at passes.
GoesOverdue ==
  /\ Sla
  /\ \E t \in TaskIds :
       /\ tasks[t].status = "PENDING" /\ ~tasks[t].overdue
       /\ tasks' = [tasks EXCEPT ![t].overdue = TRUE]
  /\ UNCHANGED <<forms, calls, due, sending, notices>> /\ InboxStep

\* runSLASweeper: select, then mark each and send its notice; one ticker in one process.
NeedsNotice(t) == tasks[t].status = "PENDING" /\ tasks[t].overdue /\ ~tasks[t].noticed

SelectOverdue ==
  /\ due = {} /\ \E t \in TaskIds : NeedsNotice(t)
  /\ due' = {t \in TaskIds : NeedsNotice(t)}
  /\ UNCHANGED <<tasks, forms, calls, sending, notices>> /\ InboxStep

MarkOverdue ==
  /\ \E t \in due :
       /\ due' = due \ {t} /\ sending' = sending \cup {t}
       /\ tasks' = [tasks EXCEPT ![t].noticed = TRUE]
  /\ UNCHANGED <<forms, calls, notices>> /\ InboxStep

NotifyOverdue ==
  /\ \E t \in sending :
       /\ sending' = sending \ {t}
       /\ notices' = [notices EXCEPT ![t] = @ + 1]
  /\ UNCHANGED <<tasks, forms, calls, due>> /\ InboxStep

\* The task service dies and is restarted: its goroutines are gone.
TaskCrash ==
  /\ taskCrashes < MaxTaskCrashes
  /\ taskCrashes' = taskCrashes + 1
  /\ forms' = {} /\ calls' = {} /\ due' = {} /\ sending' = {}
  /\ UNCHANGED <<runVars, engineVars, tasks, histVars, faults>>

Next ==
  \/ Begin \/ Step \/ PostTask \/ PostRefused \/ Pause \/ Crash \/ Restart
  \/ ResumeCheck \/ ResumeGo \/ Sweep \/ GracePasses
  \/ OpenForm \/ CloseForm \/ Callback
  \/ GoesOverdue \/ SelectOverdue \/ MarkOverdue \/ NotifyOverdue \/ TaskCrash

Spec == Init /\ [][Next]_vars

\* Goroutines and tickers run and a dead engine is restarted; people owe nothing.
FairSpec ==
  /\ Spec
  /\ WF_vars(Begin) /\ WF_vars(Step) /\ WF_vars(PostTask) /\ WF_vars(Pause)
  /\ WF_vars(Restart) /\ WF_vars(ResumeCheck) /\ WF_vars(ResumeGo)
  /\ WF_vars(Sweep) /\ WF_vars(GracePasses) /\ WF_vars(CloseForm) /\ WF_vars(Callback)
-----------------------------------------------------------------------------
(* Properties. *)

\* An answer to an earlier sign-off may be heard again, because the reply to its callback
\* was lost. What happens then is excepted below; at the sign-off it answers it does no harm.
EarlierEcho == \E t \in echoed : tasks[t].visit < visit

\* A waiting run goes on only when a task created for this very visit has been
\* completed (server.go:1852: runs "stay paused until their task is completed").
PausedUntilItsTaskIsCompleted ==
  [][status = "WAITING_HUMAN" /\ status' # "WAITING_HUMAN" =>
       \/ EarlierEcho
       \/ \E t \in TaskIds : /\ tasks[t].status = "COMPLETED"
                             /\ tasks[t].node = current /\ tasks[t].visit = visit]_status

\* A waiting run has a task in the inbox for the visit it waits in, however many
\* POSTs failed or were sent again (executeHumanTask, postJSONResilient).
WaitsWithATask ==
  status = "WAITING_HUMAN" =>
    \E t \in TaskIds : tasks[t].node = current /\ tasks[t].visit = visit

\* Where it goes on is what the recorded answer of such a task says.
FollowsTheRecordedAnswer ==
  [][status = "WAITING_HUMAN" /\ status' = "RUNNING" =>
       \/ EarlierEcho
       \/ \E t \in TaskIds : /\ tasks[t].status = "COMPLETED" /\ tasks[t].visit = visit
                             /\ LET n == NextMap[current][tasks[t].answer]
                                IN current' = IF n # NoNode THEN n ELSE Follow[current]]_status

\* A task is answered once: what a person answered is not changed by anybody else
\* (humantask/server.go:418 answers 409 to the second). And its SLA breach is notified
\* at most once (runSLASweeper's comment), whatever crashes and completions come
\* between the selection and the notice.
HandledOnce ==
  [][\A t \in TaskIds :
       /\ notices'[t] <= 1
       /\ tasks[t].status = "COMPLETED" =>
            tasks'[t].status = "COMPLETED" /\ tasks'[t].answer = tasks[t].answer
    ]_<<tasks, notices>>

\* Once the task a run waits for is completed, the run goes on, also when every
\* callback is lost or either process dies on the way.
DecisionTakesEffect ==
  \A v \in 1 .. MaxVisits - 1 :
    (/\ status = "WAITING_HUMAN" /\ visit = v
     /\ \E t \in TaskIds : tasks[t].status = "COMPLETED" /\ tasks[t].visit = v
                            /\ tasks[t].node = current)
    ~> (status # "WAITING_HUMAN" \/ visit # v)
=============================================================================
