--------------------------- MODULE HumanReview_proofs ---------------------------
(***************************************************************************)
(* Theorems about the runs that pause for people, for every workflow graph *)
(* and every bound: the types and the single answer of a task always; that *)
(* a run goes on only with the task it waits for, and where its answer     *)
(* says, in workflows without loops while the engine does not fail, and    *)
(* whatever fails in workflows where a sign-off is the last; and that a    *)
(* waiting run has its task under the same hypotheses.                     *)
(***************************************************************************)
EXTENDS HumanReview, FiniteSetTheorems, TLAPS

AnswersRecorded == \A t \in TaskIds : tasks[t].status = "COMPLETED" => tasks[t].answer \in Decision
TypeInv ==
  /\ TypeOK /\ AnswersRecorded /\ IsFiniteSet(forms)
  /\ \A s \in resumes : s.task \in TaskIds
-----------------------------------------------------------------------------
(* A task is handled once. *)

\* Nobody answers a task while somebody else does.
NoRacing == MaxRacing <= 1

\* A notice was sent, or is on its way, only for the tasks that are marked, and none of
\* these is selected.
NoticesCounted ==
  /\ \A t \in TaskIds : notices[t] = 0 \/ (notices[t] = 1 /\ tasks[t].noticed /\ t \notin sending)
  /\ \A t \in sending : tasks[t].noticed
  /\ \A t \in due : ~tasks[t].noticed

FormsAreAlone ==
  /\ \A f \in forms : tasks[f.task].status = "PENDING"
  /\ \A f, g \in forms : f.task = g.task => f = g

OnceInv == TypeInv /\ NoticesCounted /\ FormsAreAlone
-----------------------------------------------------------------------------
(* One sign-off after another. *)

\* No engine crash and no lost reply, no sweep while a callback is under way.
Orderly == MaxFaults = 0 /\ SweepOverlaps = FALSE /\ NoRacing

\* The graph has no loops: a step's number is below its successors'.
Forward(rank) ==
  /\ rank \in [Node -> Nat]
  /\ \A n \in Node \ HumanNode : Follow[n] # NoNode => rank[n] < rank[Follow[n]]
  /\ \A n \in HumanNode, d \in Decision : Route(n, d) # NoNode => rank[n] < rank[Route(n, d)]

Newest == Len(tasks)
Here == IF pos # NoNode THEN pos ELSE current

\* The run is at the task that was created last: it waits, or is about to.
AtNewest ==
  /\ Newest > 0 /\ tasks[Newest].node = current /\ tasks[Newest].visit = visit
  /\ status = "WAITING_HUMAN" \/ (pos = current /\ posts = Answered)

\* There is one worker, one start or one wait at a time.
OneToken ==
  /\ up /\ starts <= 1 /\ posts \in {0, Answered}
  /\ posts = Answered => pos \in HumanNode /\ pos = current /\ AtNewest
  /\ pos # NoNode => starts = 0 /\ status = "RUNNING" /\ (current = pos \/ current = NoNode)
  /\ starts = 1 => status \in {"PENDING", "RUNNING"}
  /\ status \in {"PENDING", "RUNNING", "WAITING_HUMAN"} \cup Terminal
  /\ status = "WAITING_HUMAN" => starts = 0 /\ AtNewest
  /\ status \in Terminal => starts = 0
  /\ current = NoNode => Newest = 0

\* One callback or one resume is under way.
Alone == /\ \A c \in calls : calls = {c} /\ resumes = {}
         /\ \A s \in resumes : resumes = {s}

\* Whatever is under way is about the newest task, and there is one thing at most, unless
\* a callback about it was heard without a reply.
AboutTheNewest ==
  /\ \A t \in TaskIds : tasks[t].status = "PENDING" => t = Newest /\ AtNewest
  /\ \A x \in forms \cup calls \cup resumes : x.task = Newest /\ AtNewest
  /\ \A x \in calls \cup resumes : tasks[Newest].status = "COMPLETED" /\ tasks[Newest].answer = x.answer
  /\ \A s \in resumes : s.checked => status = "WAITING_HUMAN"
  /\ Newest \in echoed \/ Alone

\* The tasks of the steps behind, and the newest.
InOrder(rank) ==
  status \notin Terminal =>
    \A t \in TaskIds : rank[tasks[t].node] < rank[Here] \/ (t = Newest /\ AtNewest)

OrderlyInv(rank) == OnceInv /\ OneToken /\ AboutTheNewest /\ InOrder(rank)

\* The newest task's answer may be heard again while the run, moved on by it, has not come
\* to another sign-off: it has any number of workers then, and waits for nobody.
HeardAgain ==
  /\ Newest \in echoed /\ tasks[Newest].visit = visit
  /\ up /\ posts = 0 /\ pos \notin HumanNode /\ current \in Node
  /\ status # "WAITING_HUMAN"
  /\ current \in HumanNode => status = "FAILED"

EchoInv(rank) == OnceInv /\ (EarlierEcho \/ OrderlyInv(rank) \/ HeardAgain)
-----------------------------------------------------------------------------
(* One sign-off. *)

\* No way from a human step leads to another.
OneSignOff(After) ==
  /\ After \subseteq Node \ HumanNode
  /\ \A n \in HumanNode, d \in Decision : Route(n, d) \in After \cup {NoNode}
  /\ \A n \in After : Follow[n] \in After \cup {NoNode}

HasItsTask == \E t \in TaskIds : tasks[t].node = current /\ tasks[t].visit = visit

\* Until the run has been resumed it has one worker; afterwards it meets no human step,
\* however many workers it has then.
BeforeAndAfter(After) ==
  /\ ~up => starts = 0 /\ pos = NoNode /\ posts = 0 /\ resumes = {}
  /\ posts # 0 => pos \in HumanNode
  /\ posts = Answered => current = pos /\ HasItsTask
  /\ current \notin After =>
       /\ starts <= 1 /\ (pos # NoNode => starts = 0)
       /\ status \in Terminal \cup {"WAITING_HUMAN"} => starts = 0 /\ pos = NoNode
       /\ \A s \in resumes : s.checked => status \in {"WAITING_HUMAN", "FAILED"}
  /\ current \in After => pos \in After \cup {NoNode} /\ status # "WAITING_HUMAN"

SignOffInv(After) == TypeInv /\ BeforeAndAfter(After) /\ WaitsWithATask

\* What is under way carries a recorded answer.
Recorded == \A x \in calls \cup resumes :
              tasks[x.task].status = "COMPLETED" /\ tasks[x.task].answer = x.answer

\* Until the run has been resumed all its tasks are of this one visit.
OneVisit(After) ==
  current \notin After =>
    \A t \in TaskIds : /\ tasks[t].node = current /\ tasks[t].visit = visit
                       /\ pos \in {NoNode, current}

AnsweredInv(After) == SignOffInv(After) /\ OnceInv /\ Recorded /\ OneVisit(After)
-----------------------------------------------------------------------------
(* Types. *)

Statuses == {"PENDING", "COMPLETED"}

\* A row of the inbox is replaced.
LEMMA RowReplaced ==
  ASSUME tasks \in Seq(Task), NEW t \in TaskIds, NEW r \in Task, tasks' = [tasks EXCEPT ![t] = r]
  PROVE  /\ tasks' \in Seq(Task) /\ Len(tasks') = Len(tasks) /\ TaskIds' = TaskIds
         /\ tasks'[t] = r /\ \A u \in TaskIds \ {t} : tasks'[u] = tasks[u]
<1>1. Len(tasks) \in Nat /\ TaskIds = 1 .. Len(tasks)
  BY DEF TaskIds
<1>2. tasks' \in Seq(Task) /\ Len(tasks') = Len(tasks)
  BY <1>1
<1>3. TaskIds' = TaskIds
  BY <1>2 DEF TaskIds
<1>. QED
  BY <1>1, <1>2, <1>3

\* A row of the inbox is added.
LEMMA RowAdded ==
  ASSUME tasks \in Seq(Task), NEW r \in Task, tasks' = Append(tasks, r)
  PROVE  /\ tasks' \in Seq(Task) /\ Len(tasks') = Len(tasks) + 1
         /\ TaskIds' = TaskIds \cup {Len(tasks')} /\ TaskIds \subseteq TaskIds' /\ Len(tasks') \notin TaskIds
         /\ tasks'[Len(tasks')] = r /\ \A u \in TaskIds : tasks'[u] = tasks[u]
<1>1. Len(tasks) \in Nat /\ TaskIds = 1 .. Len(tasks)
  BY DEF TaskIds
<1>2. tasks' \in Seq(Task) /\ Len(tasks') = Len(tasks) + 1
  BY <1>1
<1>3. TaskIds' = 1 .. Len(tasks) + 1
  BY <1>2 DEF TaskIds
<1>. QED
  BY <1>1, <1>2, <1>3

\* What the functions of the definition return.
LEMMA DefinitionTypes ==
  /\ NoNode \notin Node /\ HumanNode \subseteq Node /\ Start \in Node
  /\ \A n \in Node : Follow[n] \in NextId
  /\ \A n \in HumanNode, d \in Decision : Route(n, d) \in NextId
  /\ Answered \in Nat /\ Answered # 0 /\ PostAttempts \in Nat \ {0} /\ Attempts \in Nat \ {0}
BY DefinitionAssumption, EnvironmentAssumption DEF NextId, Route, Answered

\* The engine's own steps leave the inbox alone.
LEMMA EngineTypes ==
  ASSUME TypeInv, UNCHANGED taskVars, UNCHANGED <<notices, echoed>>,
         status' \in {"PENDING", "RUNNING", "WAITING_HUMAN"} \cup Terminal,
         current' \in NextId, quiet' \in BOOLEAN, starts' \in Nat, pos' \in NextId,
         posts' \in 0 .. Answered, up' \in BOOLEAN, resumes' \subseteq Resume,
         \A s \in resumes' : s.task \in TaskIds,
         visit' \in Nat, faults' \in Nat, taskCrashes' \in Nat
  PROVE  TypeInv'
<1>1. UNCHANGED <<tasks, forms, calls, due, sending, notices, echoed>>
  BY DEF taskVars
<1>2. TaskIds' = TaskIds
  BY <1>1 DEF TaskIds
<1>3. AnswersRecorded'
  BY <1>1, <1>2 DEF TypeInv, AnswersRecorded
<1>4. TypeOK'
  BY <1>1, <1>2 DEF TypeInv, TypeOK, Terminal
<1>. QED
  BY <1>1, <1>2, <1>3, <1>4 DEF TypeInv

\* The task service's own steps leave the run alone.
LEMMA ServiceTypes ==
  ASSUME TypeInv, ServiceStep, tasks' \in Seq(Task), TaskIds' = TaskIds,
         \A t \in TaskIds : tasks'[t].status = "COMPLETED" => tasks'[t].answer \in Decision,
         resumes' \subseteq Resume, \A s \in resumes' : s.task \in TaskIds,
         IsFiniteSet(forms'), forms' \subseteq [task : TaskIds, answer : Decision, by : Nat],
         calls' \subseteq [task : TaskIds, answer : Decision, left : Nat],
         due' \subseteq TaskIds, sending' \subseteq TaskIds, echoed' \subseteq TaskIds,
         notices' \in [TaskIds -> Nat]
  PROVE  TypeInv'
<1>1. UNCHANGED <<status, current, quiet, starts, pos, posts, up, visit, faults, taskCrashes>>
  BY DEF ServiceStep, runVars, envVars
<1>2. AnswersRecorded'
  BY <1>1 DEF AnswersRecorded
<1>3. TypeOK'
  BY <1>1 DEF TypeInv, TypeOK, Terminal
<1>. QED
  BY <1>2, <1>3 DEF TypeInv

LEMMA TypeInit == Init => TypeInv
<1>. SUFFICES ASSUME Init PROVE TypeInv
  OBVIOUS
<1>1. /\ tasks \in Seq(Task) /\ TaskIds = {} /\ forms = {} /\ calls = {} /\ due = {} /\ resumes = {}
      /\ sending = {} /\ echoed = {}
  BY DEF Init, TaskIds
<1>2. notices \in [TaskIds -> Nat]
  BY <1>1 DEF Init
<1>3. status = "PENDING" /\ current \in NextId /\ quiet \in BOOLEAN /\ starts \in Nat /\ pos \in NextId
      /\ up \in BOOLEAN /\ visit \in Nat /\ faults \in Nat /\ taskCrashes \in Nat
  BY DEF Init, NextId
<1>4. posts \in 0 .. Answered
  BY DefinitionTypes DEF Init
<1>5. IsFiniteSet(forms)
  BY <1>1, FS_EmptySet
<1>. QED
  BY <1>1, <1>2, <1>3, <1>4, <1>5 DEF TypeInv, TypeOK, AnswersRecorded

LEMMA WorkerTypes ==
  ASSUME TypeInv, Begin \/ Step \/ PostRefused \/ Pause \/ Crash \/ Restart \/ GracePasses
  PROVE  TypeInv'
<1>1. /\ status \in {"PENDING", "RUNNING", "WAITING_HUMAN"} \cup Terminal
      /\ current \in NextId /\ quiet \in BOOLEAN /\ starts \in Nat /\ pos \in NextId
      /\ posts \in 0 .. Answered /\ up \in BOOLEAN /\ resumes \subseteq Resume
      /\ \A s \in resumes : s.task \in TaskIds
      /\ visit \in Nat /\ faults \in Nat /\ taskCrashes \in Nat
  BY DEF TypeInv, TypeOK
<1>2. 0 \in 0 .. Answered /\ NoNode \in NextId
  BY DefinitionTypes DEF NextId
<1>3. CASE Begin
  <2>1. UNCHANGED taskVars /\ UNCHANGED <<notices, echoed>> /\ UNCHANGED <<up, taskCrashes, posts, resumes, faults>>
    BY <1>3 DEF Begin, EngineStep
  <2>2. starts' \in Nat /\ starts' = starts - 1
    BY <1>1, <1>3 DEF Begin
  <2>3. status' \in {status, "RUNNING"} /\ current' = current /\ quiet' \in {quiet, FALSE}
    BY <1>3 DEF Begin, Write, runVars
  <2>4. pos' \in {pos, Start, current} /\ visit' \in {visit, visit + 1}
    BY <1>3 DEF Begin
  <2>5. Start \in NextId /\ quiet' \in BOOLEAN
    BY <1>1, <2>3, DefinitionTypes DEF NextId
  <2>6. status' \in {"PENDING", "RUNNING", "WAITING_HUMAN"} \cup Terminal /\ pos' \in NextId /\ visit' \in Nat
    BY <1>1, <2>3, <2>4, <2>5
  <2>. QED
    BY <1>1, <2>1, <2>2, <2>3, <2>5, <2>6, EngineTypes
<1>4. CASE Step
  <2>1. UNCHANGED taskVars /\ UNCHANGED <<notices, echoed>> /\ UNCHANGED <<up, taskCrashes, starts, posts, resumes, faults>>
    BY <1>4 DEF Step, EngineStep
  <2>2. pos \in Node /\ Follow[pos] \in NextId
    BY <1>4, DefinitionTypes DEF Step
  <2>3. status' \in {status, "COMPLETED"} /\ current' \in {pos, Follow[pos]} /\ quiet' = FALSE
    BY <1>4 DEF Step, Write
  <2>4. pos' = Follow[pos] /\ visit' \in {visit, visit + 1}
    BY <1>4 DEF Step
  <2>5. visit' \in Nat /\ current' \in NextId /\ pos' \in NextId
    BY <1>1, <2>2, <2>3, <2>4
  <2>6. status' \in {"PENDING", "RUNNING", "WAITING_HUMAN"} \cup Terminal /\ quiet' \in BOOLEAN
    BY <1>1, <2>3 DEF Terminal
  <2>. QED
    BY <1>1, <2>1, <2>5, <2>6, EngineTypes
<1>5. CASE Pause
  BY <1>1, <1>2, <1>5, EngineTypes DEF Pause, Write, AfterPost, EngineStep, histVars, Terminal
<1>6. CASE Crash
  <2>1. UNCHANGED <<status, current, quiet, visit, notices, echoed, taskCrashes>> /\ UNCHANGED taskVars
    BY <1>6 DEF Crash, runVars, histVars
  <2>2. faults' = faults + 1 /\ starts' = 0 /\ pos' = NoNode /\ posts' = 0 /\ resumes' = {}
    BY <1>6 DEF Crash
  <2>3. up' = FALSE
    BY <1>6 DEF Crash
  <2>4. up' \in BOOLEAN
    BY <2>3, Zenon
  <2>5. faults' \in Nat /\ starts' \in Nat
    BY <1>1, <2>2
  <2>. QED
    BY <1>1, <1>2, <2>1, <2>2, <2>4, <2>5, EngineTypes
<1>7. CASE Restart
  BY <1>1, <1>7, EngineTypes DEF Restart, runVars, histVars, envVars
<1>8. CASE GracePasses
  BY <1>1, <1>8, EngineTypes DEF GracePasses, engineVars, histVars, envVars
<1>9. CASE PostRefused
  <2>1. /\ UNCHANGED taskVars /\ UNCHANGED <<notices, echoed>>
        /\ UNCHANGED <<status, starts, pos, resumes, up, visit, taskCrashes>>
    BY <1>9 DEF PostRefused, EngineStep, histVars
  <2>2. current' = pos /\ quiet' = FALSE /\ posts' = PostAttempts /\ faults' = faults + 1
    BY <1>9 DEF PostRefused
  <2>3. posts' \in 0 .. Answered /\ faults' \in Nat
    BY <1>1, <2>2, DefinitionTypes DEF Answered
  <2>4. quiet' \in BOOLEAN
    BY <2>2, Zenon
  <2>5. status' \in {"PENDING", "RUNNING", "WAITING_HUMAN"} \cup Terminal /\ starts' \in Nat
    BY <1>1, <2>1
  <2>6. pos' \in NextId /\ current' \in NextId
    BY <1>1, <2>1, <2>2
  <2>7. resumes' \subseteq Resume /\ \A s \in resumes' : s.task \in TaskIds
    BY <1>1, <2>1
  <2>8. up' \in BOOLEAN /\ visit' \in Nat /\ taskCrashes' \in Nat
    BY <1>1, <2>1
  <2>. QED
    BY <2>1, <2>3, <2>4, <2>5, <2>6, <2>7, <2>8, EngineTypes
<1>. QED
  BY <1>3, <1>4, <1>5, <1>6, <1>7, <1>8, <1>9

LEMMA PostTypes ==
  ASSUME TypeInv, PostTask
  PROVE  TypeInv'
<1>1. /\ UNCHANGED <<status, starts, pos, resumes, up, forms, calls, due, sending, visit, echoed, taskCrashes>>
      /\ current' = pos /\ quiet' = FALSE /\ pos \in HumanNode
  BY DEF PostTask
<1>2. posts' \in 0 .. Answered /\ faults' \in Nat /\ pos \in NextId
  BY DefinitionTypes DEF TypeInv, TypeOK, PostTask, Answered
<1>3. /\ tasks' \in Seq(Task) /\ TaskIds \subseteq TaskIds' /\ notices' \in [TaskIds' -> Nat] /\ AnswersRecorded'
  <2>1. CASE UNCHANGED <<tasks, notices>>
    BY <2>1 DEF TypeInv, TypeOK, AnswersRecorded, TaskIds
  <2>2. CASE tasks' = Append(tasks, NewTask(pos)) /\ notices' = Append(notices, 0)
    <3>1. NewTask(pos) \in Task /\ NewTask(pos).status = "PENDING"
      BY <1>1 DEF TypeInv, TypeOK, NewTask, Task, Answer
    <3>2. tasks \in Seq(Task)
      BY DEF TypeInv, TypeOK
    <3>3. /\ tasks' \in Seq(Task) /\ Len(tasks') = Len(tasks) + 1
          /\ TaskIds' = TaskIds \cup {Len(tasks')} /\ TaskIds \subseteq TaskIds'
          /\ tasks'[Len(tasks')] = NewTask(pos) /\ \A u \in TaskIds : tasks'[u] = tasks[u]
      BY <2>2, <3>1, <3>2, RowAdded
    <3>4. AnswersRecorded'
      BY <3>1, <3>3 DEF TypeInv, AnswersRecorded
    <3>5. notices \in Seq(Nat) /\ Len(notices) = Len(tasks)
      <4>1. Len(tasks) \in Nat /\ notices \in [1 .. Len(tasks) -> Nat]
        BY <3>2 DEF TypeInv, TypeOK, TaskIds
      <4>. QED
        BY <4>1
    <3>6. notices' \in [1 .. Len(tasks') -> Nat]
      <4>1. notices' \in Seq(Nat) /\ Len(notices') = Len(notices) + 1
        BY <2>2, <3>5
      <4>2. Len(notices') = Len(tasks')
        BY <3>3, <3>5, <4>1
      <4>. QED
        BY <4>1, <4>2
    <3>. QED
      BY <3>3, <3>4, <3>6 DEF TaskIds
  <2>. QED
    BY <2>1, <2>2 DEF PostTask
<1>4. TypeOK'
  BY <1>1, <1>2, <1>3 DEF TypeInv, TypeOK, Terminal
<1>. QED
  BY <1>1, <1>3, <1>4 DEF TypeInv

LEMMA RowTypes ==
  ASSUME TypeInv
  PROVE  /\ tasks \in Seq(Task) /\ Len(tasks) \in Nat /\ TaskIds = 1 .. Len(tasks)
         /\ \A t \in TaskIds : /\ tasks[t] \in Task /\ tasks[t].node \in HumanNode
                              /\ tasks[t].visit \in Nat /\ tasks[t].status \in Statuses
<1>1. tasks \in Seq(Task)
  BY DEF TypeInv, TypeOK
<1>2. Len(tasks) \in Nat /\ TaskIds = 1 .. Len(tasks) /\ \A t \in TaskIds : tasks[t] \in Task
  BY <1>1 DEF TaskIds
<1>. QED
  BY <1>1, <1>2 DEF Task, Statuses

\* A goroutine whose check was made is still about the same task and answer.
LEMMA CheckedResume ==
  ASSUME NEW s \in Resume
  PROVE  /\ [s EXCEPT !.checked = TRUE] \in Resume
         /\ [s EXCEPT !.checked = TRUE].task = s.task /\ [s EXCEPT !.checked = TRUE].answer = s.answer
         /\ [s EXCEPT !.checked = TRUE].by = s.by /\ [s EXCEPT !.checked = TRUE].checked = TRUE
<1>. PICK m : m = [s EXCEPT !.checked = TRUE]
  OBVIOUS
<1>1. m \in Resume
  BY DEF Resume
<1>2. m.task = s.task /\ m.answer = s.answer /\ m.by = s.by
  BY DEF Resume
<1>3. m.checked = TRUE
  BY DEF Resume
<1>. QED
  BY <1>1, <1>2, <1>3

LEMMA ResumeTypes ==
  ASSUME TypeInv, ResumeCheck \/ ResumeGo \/ Sweep
  PROVE  TypeInv'
<1>1. /\ status \in {"PENDING", "RUNNING", "WAITING_HUMAN"} \cup Terminal
      /\ current \in NextId /\ quiet \in BOOLEAN /\ starts \in Nat /\ pos \in NextId
      /\ posts \in 0 .. Answered /\ up \in BOOLEAN /\ resumes \subseteq Resume
      /\ \A s \in resumes : s.task \in TaskIds
      /\ visit \in Nat /\ faults \in Nat /\ taskCrashes \in Nat
  BY DEF TypeInv, TypeOK
<1>2. \A t \in TaskIds : tasks[t].node \in HumanNode
  BY RowTypes
<1>3. CASE ResumeCheck
  <2>1. /\ UNCHANGED <<status, current, quiet, starts, pos, posts, visit, notices, echoed, faults, up, taskCrashes>>
        /\ UNCHANGED taskVars
    BY <1>3 DEF ResumeCheck, EngineStep, runVars, histVars
  <2>2. PICK s \in resumes : resumes' \subseteq resumes \cup {[s EXCEPT !.checked = TRUE]}
    BY <1>3 DEF ResumeCheck
  <2>3. resumes' \subseteq Resume /\ \A r \in resumes' : r.task \in TaskIds
    BY <1>1, <2>2, CheckedResume
  <2>. QED
    BY <1>1, <2>1, <2>3, EngineTypes
<1>4. CASE ResumeGo
  <2>1. UNCHANGED <<pos, posts, notices, echoed, faults, up, taskCrashes>> /\ UNCHANGED taskVars
    BY <1>4 DEF ResumeGo, EngineStep
  <2>2. PICK s \in resumes :
          LET n == Route(tasks[s.task].node, s.answer)
          IN /\ resumes' = resumes \ {s}
             /\ \/ Write("FAILED", current) /\ UNCHANGED <<starts, visit>>
                \/ Write("RUNNING", n) /\ starts' = starts + 1
                   /\ visit' = IF n \in HumanNode THEN visit + 1 ELSE visit
    BY <1>4 DEF ResumeGo
  <2>3. s.task \in TaskIds /\ s.answer \in Decision
    BY <1>1, <2>2 DEF Resume
  <2>4. Route(tasks[s.task].node, s.answer) \in NextId
    BY <1>2, <2>3, DefinitionTypes
  <2>5. /\ status' \in {"RUNNING", "FAILED"} /\ quiet' = FALSE
        /\ current' \in {current, Route(tasks[s.task].node, s.answer)}
        /\ starts' \in {starts, starts + 1} /\ visit' \in {visit, visit + 1}
    BY <2>2 DEF Write
  <2>6. status' \in {"PENDING", "RUNNING", "WAITING_HUMAN"} \cup Terminal /\ quiet' \in BOOLEAN
    BY <2>5 DEF Terminal
  <2>7. current' \in NextId /\ starts' \in Nat /\ visit' \in Nat
    BY <1>1, <2>4, <2>5
  <2>8. resumes' \subseteq resumes
    BY <2>2
  <2>. QED
    BY <1>1, <2>1, <2>6, <2>7, <2>8, EngineTypes
<1>5. CASE Sweep
  <2>1. /\ UNCHANGED <<status, current, quiet, starts, pos, posts, visit, notices, echoed, faults, up, taskCrashes>>
        /\ UNCHANGED taskVars
    BY <1>5 DEF Sweep, EngineStep, runVars, histVars
  <2>2. PICK t \in TaskIds : Matches(t) /\ resumes' = resumes \cup
          {[task |-> t, answer |-> tasks[t].answer, by |-> 0, checked |-> FALSE]}
    BY <1>5 DEF Sweep
  <2>3. tasks[t].answer \in Decision /\ t \in Nat
    BY <2>2 DEF TypeInv, AnswersRecorded, Matches, TaskIds
  <2>4. PICK m : m = [task |-> t, answer |-> tasks[t].answer, by |-> 0, checked |-> FALSE]
    OBVIOUS
  <2>5. m \in Resume /\ m.task = t
    BY <2>3, <2>4 DEF Resume
  <2>6. resumes' = resumes \cup {m}
    BY <2>2, <2>4
  <2>7. resumes' \subseteq Resume /\ \A r \in resumes' : r.task \in TaskIds
    BY <1>1, <2>5, <2>6
  <2>. QED
    BY <1>1, <2>1, <2>7, EngineTypes
<1>. QED
  BY <1>3, <1>4, <1>5

\* A person's answer is written.
LEMMA RowCompleted ==
  ASSUME TypeInv, NEW f \in forms,
         tasks' = [tasks EXCEPT ![f.task].status = "COMPLETED", ![f.task].answer = f.answer]
  PROVE  /\ f.task \in TaskIds /\ f.answer \in Decision /\ tasks' \in Seq(Task) /\ TaskIds' = TaskIds
         /\ Len(tasks') = Len(tasks)
         /\ tasks'[f.task].status = "COMPLETED" /\ tasks'[f.task].answer = f.answer
         /\ \A u \in TaskIds \ {f.task} : tasks'[u] = tasks[u]
         /\ \A u \in TaskIds : /\ tasks'[u].node = tasks[u].node /\ tasks'[u].visit = tasks[u].visit
                              /\ tasks'[u].noticed = tasks[u].noticed
<1>1. f.task \in TaskIds /\ f.answer \in Decision
  BY DEF TypeInv, TypeOK
<1>2. tasks \in Seq(Task) /\ tasks[f.task] \in Task
  BY <1>1, RowTypes
<1>3. PICK r : r = [tasks[f.task] EXCEPT !.status = "COMPLETED", !.answer = f.answer]
  OBVIOUS
<1>4. /\ r \in Task /\ r.status = "COMPLETED" /\ r.answer = f.answer
      /\ r.node = tasks[f.task].node /\ r.visit = tasks[f.task].visit /\ r.noticed = tasks[f.task].noticed
  BY <1>1, <1>2, <1>3 DEF Task, Answer
<1>5. tasks' = [tasks EXCEPT ![f.task] = r]
  BY <1>1, <1>2, <1>3 DEF TaskIds
<1>6. /\ tasks' \in Seq(Task) /\ Len(tasks') = Len(tasks) /\ TaskIds' = TaskIds
      /\ tasks'[f.task] = r /\ \A u \in TaskIds \ {f.task} : tasks'[u] = tasks[u]
  BY <1>1, <1>2, <1>4, <1>5, RowReplaced
<1>. QED
  BY <1>1, <1>4, <1>6

\* A row is marked overdue, or notified: its answer stays.
LEMMA RowMarked ==
  ASSUME TypeInv, NEW t \in TaskIds,
         \/ tasks' = [tasks EXCEPT ![t].overdue = TRUE]
         \/ tasks' = [tasks EXCEPT ![t].noticed = TRUE]
  PROVE  /\ tasks' \in Seq(Task) /\ TaskIds' = TaskIds /\ Len(tasks') = Len(tasks)
         /\ \A u \in TaskIds \ {t} : tasks'[u] = tasks[u]
         /\ \A u \in TaskIds : /\ tasks'[u].node = tasks[u].node /\ tasks'[u].visit = tasks[u].visit
                              /\ tasks'[u].status = tasks[u].status /\ tasks'[u].answer = tasks[u].answer
         /\ tasks' = [tasks EXCEPT ![t].overdue = TRUE] => tasks'[t].noticed = tasks[t].noticed
         /\ tasks' = [tasks EXCEPT ![t].noticed = TRUE] => tasks'[t].noticed = TRUE
<1>1. tasks \in Seq(Task) /\ tasks[t] \in Task
  BY RowTypes
<1>2. PICK o : o = [tasks[t] EXCEPT !.overdue = TRUE]
  OBVIOUS
<1>3. PICK n : n = [tasks[t] EXCEPT !.noticed = TRUE]
  OBVIOUS
<1>4. \A r \in {o, n} : /\ r \in Task /\ r.status = tasks[t].status /\ r.answer = tasks[t].answer
                        /\ r.node = tasks[t].node /\ r.visit = tasks[t].visit
  BY <1>1, <1>2, <1>3 DEF Task
<1>5. o.noticed = tasks[t].noticed /\ n.noticed = TRUE
  BY <1>1, <1>2, <1>3 DEF Task
<1>6. /\ tasks' = [tasks EXCEPT ![t].overdue = TRUE] => tasks' = [tasks EXCEPT ![t] = o]
      /\ tasks' = [tasks EXCEPT ![t].noticed = TRUE] => tasks' = [tasks EXCEPT ![t] = n]
  BY <1>1, <1>2, <1>3 DEF TaskIds
<1>7. ASSUME NEW r \in {o, n}, tasks' = [tasks EXCEPT ![t] = r]
      PROVE  /\ tasks' \in Seq(Task) /\ Len(tasks') = Len(tasks) /\ TaskIds' = TaskIds
             /\ tasks'[t] = r /\ \A u \in TaskIds \ {t} : tasks'[u] = tasks[u]
  BY <1>1, <1>4, <1>7, RowReplaced
<1>. QED
  BY <1>4, <1>5, <1>6, <1>7

LEMMA TaskServiceTypes ==
  ASSUME TypeInv, OpenForm \/ CloseForm \/ Callback \/ GoesOverdue \/ SelectOverdue
         \/ MarkOverdue \/ NotifyOverdue
  PROVE  TypeInv'
<1>1. /\ tasks \in Seq(Task) /\ \A t \in TaskIds : tasks[t] \in Task
      /\ \A t \in TaskIds : tasks[t].status = "COMPLETED" => tasks[t].answer \in Decision
      /\ resumes \subseteq Resume /\ \A s \in resumes : s.task \in TaskIds
      /\ IsFiniteSet(forms) /\ forms \subseteq [task : TaskIds, answer : Decision, by : Nat]
      /\ calls \subseteq [task : TaskIds, answer : Decision, left : Nat]
      /\ due \subseteq TaskIds /\ sending \subseteq TaskIds /\ echoed \subseteq TaskIds
      /\ notices \in [TaskIds -> Nat]
  BY DEF TypeInv, TypeOK, AnswersRecorded, TaskIds
<1>2. tasks' = tasks => TaskIds' = TaskIds
  BY DEF TaskIds
<1>3. CASE OpenForm
  <2>1. ServiceStep /\ UNCHANGED <<resumes, echoed, tasks, calls, due, sending, notices>>
    BY <1>3 DEF OpenForm, InboxStep
  <2>2. PICK t \in TaskIds, d \in Decision :
          forms' = forms \cup {[task |-> t, answer |-> d, by |-> Cardinality({f \in forms : f.task = t})]}
    BY <1>3 DEF OpenForm
  <2>3. PICK b \in Nat : b = Cardinality({f \in forms : f.task = t})
    <3>1. IsFiniteSet({f \in forms : f.task = t})
      BY <1>1, FS_Subset
    <3>. QED
      BY <3>1, FS_CardinalityType
  <2>4. IsFiniteSet(forms')
    BY <1>1, <2>2, FS_AddElement
  <2>5. forms' \subseteq [task : TaskIds, answer : Decision, by : Nat]
    BY <1>1, <2>2, <2>3
  <2>. QED
    BY <1>1, <1>2, <2>1, <2>4, <2>5, ServiceTypes
<1>4. CASE CloseForm
  <2>1. ServiceStep /\ UNCHANGED <<resumes, echoed, due, sending, notices>>
    BY <1>4 DEF CloseForm, InboxStep
  <2>2. PICK f \in forms :
          /\ forms' = forms \ {f}
          /\ tasks' = [tasks EXCEPT ![f.task].status = "COMPLETED", ![f.task].answer = f.answer]
          /\ calls' = calls \cup {[task |-> f.task, answer |-> f.answer, left |-> Attempts]}
    BY <1>4 DEF CloseForm
  <2>3. /\ f.task \in TaskIds /\ f.answer \in Decision /\ tasks' \in Seq(Task) /\ TaskIds' = TaskIds
        /\ tasks'[f.task].status = "COMPLETED" /\ tasks'[f.task].answer = f.answer
        /\ \A u \in TaskIds \ {f.task} : tasks'[u] = tasks[u]
    BY <2>2, RowCompleted
  <2>4. \A t \in TaskIds : tasks'[t].status = "COMPLETED" => tasks'[t].answer \in Decision
    BY <1>1, <2>3
  <2>5. calls' \subseteq [task : TaskIds, answer : Decision, left : Nat]
    BY <1>1, <2>2, <2>3, DefinitionTypes
  <2>6. IsFiniteSet(forms') /\ forms' \subseteq [task : TaskIds, answer : Decision, by : Nat]
    BY <1>1, <2>2, FS_Subset
  <2>. QED
    BY <1>1, <2>1, <2>3, <2>4, <2>5, <2>6, ServiceTypes
<1>5. CASE Callback
  <2>1. ServiceStep /\ UNCHANGED <<tasks, forms, due, sending, notices>>
    BY <1>5 DEF Callback
  <2>2. PICK c \in calls :
          /\ calls' = calls \ {c} \/ calls' = LeftAfter(c)
          /\ \/ UNCHANGED resumes
             \/ resumes' = resumes \cup
                  {[task |-> c.task, answer |-> c.answer, by |-> c.left, checked |-> FALSE]}
          /\ echoed' \subseteq echoed \cup {c.task}
    BY <1>5 DEF Callback
  <2>3. c.task \in TaskIds /\ c.task \in Nat /\ c.answer \in Decision /\ c.left \in Nat
    BY <1>1, <2>2 DEF TaskIds
  <2>4. PICK m : m = [task |-> c.task, answer |-> c.answer, by |-> c.left, checked |-> FALSE]
    OBVIOUS
  <2>5. m \in Resume /\ m.task = c.task
    BY <2>3, <2>4 DEF Resume
  <2>6. resumes' \subseteq resumes \cup {m}
    BY <2>2, <2>4
  <2>7. c.left > 1 => [c EXCEPT !.left = @ - 1] \in [task : TaskIds, answer : Decision, left : Nat]
    BY <1>1, <2>2, <2>3
  <2>8. calls' \subseteq [task : TaskIds, answer : Decision, left : Nat]
    BY <1>1, <2>2, <2>7 DEF LeftAfter
  <2>9. resumes' \subseteq Resume /\ \A s \in resumes' : s.task \in TaskIds
    BY <1>1, <2>3, <2>5, <2>6
  <2>10. echoed' \subseteq TaskIds
    BY <1>1, <2>2, <2>3
  <2>. QED
    BY <1>1, <1>2, <2>1, <2>8, <2>9, <2>10, ServiceTypes
<1>6. CASE GoesOverdue
  <2>1. ServiceStep /\ UNCHANGED <<resumes, echoed, forms, calls, due, sending, notices>>
    BY <1>6 DEF GoesOverdue, InboxStep
  <2>2. PICK t \in TaskIds : tasks' = [tasks EXCEPT ![t].overdue = TRUE]
    BY <1>6 DEF GoesOverdue
  <2>3. /\ tasks' \in Seq(Task) /\ TaskIds' = TaskIds
        /\ \A u \in TaskIds : tasks'[u].status = tasks[u].status /\ tasks'[u].answer = tasks[u].answer
    BY <2>2, RowMarked
  <2>. QED
    BY <1>1, <2>1, <2>3, ServiceTypes
<1>7. CASE SelectOverdue
  BY <1>1, <1>2, <1>7, ServiceTypes DEF SelectOverdue, InboxStep
<1>8. CASE MarkOverdue
  <2>1. ServiceStep /\ UNCHANGED <<resumes, echoed, forms, calls, notices>>
    BY <1>8 DEF MarkOverdue, InboxStep
  <2>2. PICK t \in due : /\ due' = due \ {t} /\ tasks' = [tasks EXCEPT ![t].noticed = TRUE]
                         /\ sending' = sending \cup {t}
    BY <1>8 DEF MarkOverdue
  <2>3. t \in TaskIds
    BY <1>1, <2>2
  <2>4. /\ tasks' \in Seq(Task) /\ TaskIds' = TaskIds
        /\ \A u \in TaskIds : tasks'[u].status = tasks[u].status /\ tasks'[u].answer = tasks[u].answer
    BY <2>2, <2>3, RowMarked
  <2>5. due' \subseteq TaskIds /\ sending' \subseteq TaskIds
    BY <1>1, <2>2, <2>3
  <2>. QED
    BY <1>1, <2>1, <2>4, <2>5, ServiceTypes
<1>9. CASE NotifyOverdue
  <2>1. ServiceStep /\ UNCHANGED <<resumes, echoed, tasks, forms, calls, due>>
    BY <1>9 DEF NotifyOverdue, InboxStep
  <2>2. PICK t \in sending : sending' = sending \ {t} /\ notices' = [notices EXCEPT ![t] = @ + 1]
    BY <1>9 DEF NotifyOverdue
  <2>3. notices' \in [TaskIds -> Nat] /\ sending' \subseteq TaskIds
    BY <1>1, <2>2
  <2>. QED
    BY <1>1, <1>2, <2>1, <2>3, ServiceTypes
<1>. QED
  BY <1>3, <1>4, <1>5, <1>6, <1>7, <1>8, <1>9

LEMMA TypeStep == TypeInv /\ [Next]_vars => TypeInv'
<1>. SUFFICES ASSUME TypeInv, [Next]_vars PROVE TypeInv'
  OBVIOUS
<1>1. CASE TaskCrash
  <2>1. /\ UNCHANGED <<status, current, quiet, starts, pos, posts, resumes, up, tasks>>
        /\ UNCHANGED <<visit, notices, echoed, faults>>
        /\ forms' = {} /\ calls' = {} /\ due' = {} /\ sending' = {} /\ taskCrashes' = taskCrashes + 1
    BY <1>1 DEF TaskCrash, runVars, engineVars, histVars
  <2>2. TaskIds' = TaskIds
    BY <2>1 DEF TaskIds
  <2>3. IsFiniteSet(forms') /\ taskCrashes' \in Nat
    BY <2>1, FS_EmptySet DEF TypeInv, TypeOK
  <2>. QED
    BY <2>1, <2>2, <2>3 DEF TypeInv, TypeOK, AnswersRecorded, Terminal
<1>2. CASE UNCHANGED vars
  BY <1>2 DEF vars, runVars, engineVars, taskVars, histVars, envVars, TypeInv, TypeOK, AnswersRecorded, TaskIds, Terminal
<1>. QED
  BY <1>1, <1>2, WorkerTypes, PostTypes, ResumeTypes, TaskServiceTypes DEF Next

LEMMA TypesAlways == Spec => []TypeInv
BY TypeInit, TypeStep, PTL DEF Spec

\* Every variable has its type, in every graph and with every fault (TypeOK).
THEOREM TypesCorrect == Spec => []TypeOK
<1>1. TypeInv => TypeOK
  BY DEF TypeInv
<1>. QED
  BY <1>1, TypesAlways, PTL
-----------------------------------------------------------------------------
(* Handled once. *)

\* The new row of a POST that reached the inbox; otherwise nothing changes there.
LEMMA RowPosted ==
  ASSUME TypeInv, PostTask
  PROVE  /\ TaskIds \subseteq TaskIds' /\ \A u \in TaskIds : tasks'[u] = tasks[u] /\ notices'[u] = notices[u]
         /\ \/ posts' # Answered /\ UNCHANGED <<tasks, notices>>
            \/ /\ tasks' = Append(tasks, NewTask(pos)) /\ Len(tasks') = Len(tasks) + 1
               /\ TaskIds' = TaskIds \cup {Len(tasks')} /\ Len(tasks') \notin TaskIds
               /\ tasks'[Len(tasks')] = NewTask(pos) /\ notices'[Len(tasks')] = 0
<1>1. tasks \in Seq(Task) /\ Len(tasks) \in Nat /\ TaskIds = 1 .. Len(tasks)
  BY RowTypes
<1>2. notices \in [1 .. Len(tasks) -> Nat]
  BY <1>1 DEF TypeInv, TypeOK
<1>3. notices \in Seq(Nat) /\ Len(notices) = Len(tasks)
  BY <1>1, <1>2
<1>4. CASE posts' # Answered /\ UNCHANGED <<tasks, notices>>
  BY <1>4 DEF TaskIds
<1>5. CASE tasks' = Append(tasks, NewTask(pos)) /\ notices' = Append(notices, 0)
  <2>1. NewTask(pos) \in Task
    BY DEF PostTask, TypeInv, TypeOK, NewTask, Task, Answer
  <2>2. /\ Len(tasks') = Len(tasks) + 1
        /\ TaskIds' = TaskIds \cup {Len(tasks')} /\ TaskIds \subseteq TaskIds' /\ Len(tasks') \notin TaskIds
        /\ tasks'[Len(tasks')] = NewTask(pos) /\ \A u \in TaskIds : tasks'[u] = tasks[u]
    BY <1>1, <1>5, <2>1, RowAdded
  <2>3. notices'[Len(tasks')] = 0 /\ \A u \in TaskIds : notices'[u] = notices[u]
    BY <1>1, <1>3, <1>5, <2>2
  <2>. QED
    BY <1>5, <2>2, <2>3
<1>. QED
  BY <1>4, <1>5 DEF PostTask

LEMMA OnceInit == Init => OnceInv
<1>. SUFFICES ASSUME Init PROVE OnceInv
  OBVIOUS
<1>1. TaskIds = {} /\ forms = {} /\ due = {} /\ sending = {}
  BY DEF Init, TaskIds
<1>. QED
  BY <1>1, TypeInit DEF OnceInv, NoticesCounted, FormsAreAlone

LEMMA OnceStep == NoRacing /\ OnceInv /\ [Next]_vars => OnceInv'
<1>. SUFFICES ASSUME NoRacing, OnceInv, [Next]_vars PROVE (NoticesCounted /\ FormsAreAlone)'
  BY TypeStep DEF OnceInv
<1>1. /\ TypeInv /\ IsFiniteSet(forms) /\ MaxRacing \in Nat
      /\ \A f \in forms : f.task \in TaskIds
      /\ due \subseteq TaskIds /\ sending \subseteq TaskIds /\ DOMAIN notices = TaskIds
  BY EnvironmentAssumption DEF OnceInv, TypeInv, TypeOK
<1>2. ASSUME UNCHANGED <<tasks, notices>>, forms' \subseteq forms, due' \subseteq due, sending' \in {sending, {}}
      PROVE  (NoticesCounted /\ FormsAreAlone)'
  <2>1. TaskIds' = TaskIds
    BY <1>2 DEF TaskIds
  <2>. QED
    BY <1>2, <2>1 DEF OnceInv, NoticesCounted, FormsAreAlone
<1>3. CASE Begin \/ Step \/ PostRefused \/ Pause \/ ResumeCheck \/ ResumeGo \/ Sweep
  BY <1>2, <1>3 DEF Begin, Step, PostRefused, Pause, ResumeCheck, ResumeGo, Sweep, EngineStep, taskVars, histVars
<1>4. CASE Crash \/ Restart \/ GracePasses \/ Callback \/ TaskCrash \/ UNCHANGED vars
  BY <1>2, <1>4 DEF Crash, Restart, GracePasses, Callback, TaskCrash, vars, taskVars, histVars
<1>5. CASE PostTask
  <2>1. UNCHANGED <<forms, due, sending>>
    BY <1>5 DEF PostTask
  <2>2. /\ TaskIds \subseteq TaskIds' /\ \A u \in TaskIds : tasks'[u] = tasks[u] /\ notices'[u] = notices[u]
        /\ \A u \in TaskIds' \ TaskIds : tasks'[u] = NewTask(pos) /\ notices'[u] = 0
    BY <1>1, <1>5, RowPosted DEF TaskIds
  <2>3. NewTask(pos).noticed = FALSE
    BY DEF NewTask
  <2>. QED
    BY <1>1, <2>1, <2>2, <2>3 DEF OnceInv, NoticesCounted, FormsAreAlone
<1>6. CASE OpenForm
  <2>1. UNCHANGED <<tasks, due, sending, notices>> /\ TaskIds' = TaskIds
    BY <1>6 DEF OpenForm, TaskIds
  <2>2. PICK t \in TaskIds, d \in Decision :
          /\ Open(t) /\ Cardinality({f \in forms : f.task = t}) < MaxRacing
          /\ forms' = forms \cup {[task |-> t, answer |-> d,
                                   by |-> Cardinality({f \in forms : f.task = t})]}
    BY <1>6 DEF OpenForm
  <2>3. {f \in forms : f.task = t} = {}
    <3>1. IsFiniteSet({f \in forms : f.task = t})
      BY <1>1, FS_Subset
    <3>2. Cardinality({f \in forms : f.task = t}) = 0
      BY <1>1, <2>2, <3>1, FS_CardinalityType DEF NoRacing
    <3>. QED
      BY <3>1, <3>2, FS_EmptySet
  <2>4. PICK g : g = [task |-> t, answer |-> d, by |-> Cardinality({f \in forms : f.task = t})]
    OBVIOUS
  <2>5. g.task = t /\ forms' = forms \cup {g} /\ \A f \in forms : f.task # t
    BY <2>2, <2>3, <2>4
  <2>. QED
    BY <2>1, <2>2, <2>5 DEF OnceInv, NoticesCounted, FormsAreAlone, Open
<1>7. CASE CloseForm
  <2>1. UNCHANGED <<due, sending, notices>>
    BY <1>7 DEF CloseForm
  <2>2. PICK f \in forms :
          /\ forms' = forms \ {f}
          /\ tasks' = [tasks EXCEPT ![f.task].status = "COMPLETED", ![f.task].answer = f.answer]
    BY <1>7 DEF CloseForm
  <2>3. /\ TaskIds' = TaskIds /\ \A u \in TaskIds \ {f.task} : tasks'[u] = tasks[u]
        /\ \A u \in TaskIds : tasks'[u].noticed = tasks[u].noticed
    BY <1>1, <2>2, RowCompleted
  <2>4. \A g \in forms' : g \in forms /\ g.task # f.task
    BY <2>2 DEF OnceInv, FormsAreAlone
  <2>. QED
    BY <1>1, <2>1, <2>2, <2>3, <2>4 DEF OnceInv, NoticesCounted, FormsAreAlone
<1>8. CASE GoesOverdue
  <2>1. UNCHANGED <<forms, due, sending, notices>>
    BY <1>8 DEF GoesOverdue
  <2>2. PICK t \in TaskIds : tasks' = [tasks EXCEPT ![t].overdue = TRUE]
    BY <1>8 DEF GoesOverdue
  <2>3. /\ TaskIds' = TaskIds
        /\ \A u \in TaskIds : tasks'[u].status = tasks[u].status /\ tasks'[u].noticed = tasks[u].noticed
    BY <1>1, <2>2, RowMarked
  <2>. QED
    BY <1>1, <2>1, <2>3 DEF OnceInv, NoticesCounted, FormsAreAlone
<1>9. CASE SelectOverdue
  <2>1. UNCHANGED <<tasks, forms, sending, notices>> /\ TaskIds' = TaskIds /\ due' = {t \in TaskIds : NeedsNotice(t)}
    BY <1>9 DEF SelectOverdue, TaskIds
  <2>. QED
    BY <2>1 DEF OnceInv, NoticesCounted, FormsAreAlone, NeedsNotice
<1>10. CASE MarkOverdue
  <2>1. UNCHANGED <<forms, notices>>
    BY <1>10 DEF MarkOverdue
  <2>2. PICK t \in due : /\ due' = due \ {t} /\ sending' = sending \cup {t}
                         /\ tasks' = [tasks EXCEPT ![t].noticed = TRUE]
    BY <1>10 DEF MarkOverdue
  <2>3. /\ t \in TaskIds /\ TaskIds' = TaskIds /\ tasks'[t].noticed = TRUE
        /\ \A u \in TaskIds \ {t} : tasks'[u] = tasks[u]
        /\ \A u \in TaskIds : tasks'[u].status = tasks[u].status
    BY <1>1, <2>2, RowMarked
  <2>4. notices[t] = 0
    BY <2>2, <2>3 DEF OnceInv, NoticesCounted
  <2>5. NoticesCounted'
    BY <1>1, <2>1, <2>2, <2>3, <2>4 DEF OnceInv, NoticesCounted
  <2>6. FormsAreAlone'
    BY <1>1, <2>1, <2>3 DEF OnceInv, FormsAreAlone
  <2>. QED
    BY <2>5, <2>6
<1>11. CASE NotifyOverdue
  <2>1. UNCHANGED <<tasks, forms, due>> /\ TaskIds' = TaskIds
    BY <1>11 DEF NotifyOverdue, TaskIds
  <2>2. PICK t \in sending : sending' = sending \ {t} /\ notices' = [notices EXCEPT ![t] = @ + 1]
    BY <1>11 DEF NotifyOverdue
  <2>3. /\ t \in TaskIds /\ notices[t] = 0 /\ tasks[t].noticed
    BY <1>1, <2>2 DEF OnceInv, NoticesCounted
  <2>4. notices'[t] = 1 /\ \A u \in TaskIds \ {t} : notices'[u] = notices[u]
    BY <1>1, <2>2, <2>3
  <2>5. NoticesCounted'
    BY <1>1, <2>1, <2>2, <2>3, <2>4 DEF OnceInv, NoticesCounted
  <2>. QED
    BY <2>1, <2>5 DEF OnceInv, FormsAreAlone
<1>. QED
  BY <1>3, <1>4, <1>5, <1>6, <1>7, <1>8, <1>9, <1>10, <1>11 DEF Next

\* What a person answered is only written over by a form for the same task, and there is
\* no second one.
LEMMA AnswersKept ==
  ASSUME OnceInv, [Next]_vars
  PROVE  /\ TaskIds \subseteq TaskIds'
         /\ \A t \in TaskIds : tasks[t].status = "COMPLETED" =>
              tasks'[t].status = "COMPLETED" /\ tasks'[t].answer = tasks[t].answer
<1>1. TypeInv /\ due \subseteq TaskIds
  BY DEF OnceInv, TypeInv, TypeOK
<1>2. CASE UNCHANGED tasks
  BY <1>2 DEF TaskIds
<1>3. CASE PostTask
  BY <1>1, <1>3, RowPosted
<1>4. CASE CloseForm
  <2>1. PICK f \in forms : tasks' = [tasks EXCEPT ![f.task].status = "COMPLETED", ![f.task].answer = f.answer]
    BY <1>4 DEF CloseForm
  <2>2. tasks[f.task].status # "COMPLETED"
    BY <2>1 DEF OnceInv, FormsAreAlone
  <2>. QED
    BY <1>1, <2>1, <2>2, RowCompleted
<1>5. CASE GoesOverdue
  BY <1>1, <1>5, RowMarked DEF GoesOverdue
<1>6. CASE MarkOverdue
  <2>1. PICK t \in due : tasks' = [tasks EXCEPT ![t].noticed = TRUE]
    BY <1>6 DEF MarkOverdue
  <2>. QED
    BY <1>1, <2>1, RowMarked
<1>7. Next => UNCHANGED tasks \/ PostTask \/ CloseForm \/ GoesOverdue \/ MarkOverdue
  BY DEF Next, Begin, Step, PostRefused, Pause, Crash, Restart, ResumeCheck, ResumeGo, Sweep, GracePasses, OpenForm, Callback,
         SelectOverdue, NotifyOverdue, TaskCrash, EngineStep, taskVars
<1>8. UNCHANGED vars => UNCHANGED tasks
  BY DEF vars, taskVars
<1>. QED
  BY <1>2, <1>3, <1>4, <1>5, <1>6, <1>7, <1>8

\* While nobody answers a task during somebody else's answer, a task is answered once,
\* and its SLA breach is notified once whatever crashes (HandledOnce). The hypothesis is
\* the one the code needs: the UPDATE of completeTask does not look at the status again,
\* and with two racing answers TLC shows the second replace the first.
THEOREM HandledOnceWithoutRacing == ASSUME NoRacing PROVE Spec => HandledOnce
<1>1. Init => OnceInv
  BY OnceInit
<1>2. OnceInv /\ [Next]_vars => OnceInv'
  BY OnceStep
<1>3. OnceInv /\ OnceInv' /\ [Next]_vars =>
        [\A t \in TaskIds :
           /\ notices'[t] <= 1
           /\ tasks[t].status = "COMPLETED" =>
                tasks'[t].status = "COMPLETED" /\ tasks'[t].answer = tasks[t].answer]_<<tasks, notices>>
  <2>. SUFFICES ASSUME OnceInv, OnceInv', [Next]_vars, NEW t \in TaskIds
                PROVE  /\ notices'[t] <= 1
                       /\ tasks[t].status = "COMPLETED" =>
                            tasks'[t].status = "COMPLETED" /\ tasks'[t].answer = tasks[t].answer
    OBVIOUS
  <2>1. notices'[t] \in {0, 1}
    BY AnswersKept DEF OnceInv, NoticesCounted
  <2>. QED
    BY <2>1, AnswersKept
<1>. QED
  BY <1>1, <1>2, <1>3, PTL DEF Spec, HandledOnce
-----------------------------------------------------------------------------
(* One sign-off after another. *)

LEMMA OrderlyFacts ==
  ASSUME NEW rank, Orderly, Forward(rank), OrderlyInv(rank)
  PROVE  /\ TypeInv /\ OnceInv /\ tasks \in Seq(Task) /\ Newest \in Nat /\ TaskIds = 1 .. Newest
         /\ \A t \in TaskIds : tasks[t].node \in HumanNode /\ tasks[t].status \in Statuses
         /\ Newest > 0 => Newest \in TaskIds
         /\ starts \in Nat /\ pos \in NextId /\ current \in NextId /\ faults \in Nat /\ resumes \subseteq Resume
         /\ HumanNode \subseteq Node /\ NoNode \notin Node /\ Start \in Node
         /\ Answered \notin {0, PostAttempts} /\ PostAttempts # 0
         /\ \A n \in Node : rank[n] \in Nat
<1>1. TypeInv /\ OnceInv
  BY DEF OrderlyInv, OnceInv
<1>2. tasks \in Seq(Task) /\ Newest \in Nat /\ TaskIds = 1 .. Newest
      /\ \A t \in TaskIds : tasks[t].node \in HumanNode /\ tasks[t].status \in Statuses
  BY <1>1, RowTypes DEF Newest
<1>3. starts \in Nat /\ pos \in NextId /\ current \in NextId /\ faults \in Nat /\ resumes \subseteq Resume
  BY <1>1 DEF TypeInv, TypeOK
<1>4. Answered \notin {0, PostAttempts} /\ PostAttempts # 0
  BY DefinitionTypes DEF Answered
<1>5. \A n \in Node : rank[n] \in Nat
  BY DEF Forward
<1>. QED
  BY <1>1, <1>2, <1>3, <1>4, <1>5, DefinitionTypes

\* Where the newest task is behind the run, nothing is under way.
LEMMA NothingUnderWay ==
  ASSUME NEW rank, OrderlyInv(rank), ~AtNewest
  PROVE  /\ forms = {} /\ calls = {} /\ resumes = {}
         /\ \A t \in TaskIds : tasks[t].status # "PENDING"
BY DEF OrderlyInv, AboutTheNewest

\* A completed newest task is not being answered, and it is the only one asked about.
LEMMA AnsweredNewest ==
  ASSUME NEW rank, OrderlyInv(rank), tasks[Newest].status = "COMPLETED"
  PROVE  forms = {} /\ \A t \in TaskIds : tasks[t].status # "PENDING"
BY DEF OrderlyInv, AboutTheNewest, OnceInv, FormsAreAlone

\* What happens around the run does not move it.
LEMMA RunStays ==
  ASSUME NEW rank, Orderly, Forward(rank), OrderlyInv(rank),
         UNCHANGED <<status, current, starts, pos, posts, up, visit>>,
         Len(tasks') = Len(tasks),
         \A t \in TaskIds : tasks'[t].node = tasks[t].node /\ tasks'[t].visit = tasks[t].visit
  PROVE  /\ OneToken' /\ InOrder(rank)' /\ AtNewest' = AtNewest /\ Newest' = Newest /\ TaskIds' = TaskIds
         /\ Here' = Here
<1>1. Newest' = Newest /\ TaskIds' = TaskIds /\ Here' = Here
  BY DEF Newest, TaskIds, Here
<1>2. AtNewest' = AtNewest
  BY <1>1, OrderlyFacts DEF AtNewest
<1>3. OneToken'
  BY <1>1, <1>2 DEF OrderlyInv, OneToken
<1>4. InOrder(rank)'
  BY <1>1, <1>2 DEF OrderlyInv, InOrder
<1>. QED
  BY <1>1, <1>2, <1>3, <1>4

LEMMA OrderlyInit == ASSUME NEW rank PROVE Init => OrderlyInv(rank)
<1>. SUFFICES ASSUME Init PROVE OrderlyInv(rank)
  OBVIOUS
<1>1. TaskIds = {} /\ Newest = 0
  BY DEF Init, TaskIds, Newest
<1>2. OneToken
  <2>1. up
    BY Zenon DEF Init
  <2>2. status = "PENDING" /\ current = NoNode /\ starts = 1 /\ pos = NoNode /\ posts = 0
    BY DEF Init
  <2>. QED
    BY <1>1, <2>1, <2>2, DefinitionTypes DEF OneToken, Terminal
<1>3. AboutTheNewest /\ InOrder(rank)
  BY <1>1 DEF Init, AboutTheNewest, Alone, InOrder
<1>. QED
  BY <1>2, <1>3, OnceInit DEF OrderlyInv

LEMMA OrderlyWorker ==
  ASSUME NEW rank, Orderly, Forward(rank), OrderlyInv(rank), Begin \/ Step
  PROVE  OneToken' /\ AboutTheNewest' /\ InOrder(rank)'
<1>1. OneToken /\ InOrder(rank)
  BY DEF OrderlyInv
<1>2. ~AtNewest /\ status \notin Terminal \cup {"WAITING_HUMAN"}
  BY <1>1, OrderlyFacts DEF Begin, Step, OneToken, AtNewest, Terminal
<1>3. forms = {} /\ calls = {} /\ resumes = {} /\ \A t \in TaskIds : tasks[t].status # "PENDING"
  BY <1>2, NothingUnderWay
<1>4. UNCHANGED <<tasks, forms, calls, resumes, posts, up>> /\ Newest' = Newest /\ TaskIds' = TaskIds
  BY DEF Begin, Step, EngineStep, taskVars, Newest, TaskIds
<1>5. AboutTheNewest'
  BY <1>3, <1>4 DEF AboutTheNewest, Alone
<1>6. \A t \in TaskIds : rank[tasks[t].node] < rank[Here]
  BY <1>1, <1>2 DEF InOrder
<1>7. CASE Begin
  <2>1. starts = 1 /\ pos = NoNode /\ starts' = 0 /\ posts = 0
    BY <1>1, <1>7, OrderlyFacts DEF Begin, OneToken
  <2>2. PICK n : n = IF current = NoNode THEN Start ELSE current
    OBVIOUS
  <2>3. n \in Node /\ pos' = n /\ current' = current
    BY <1>2, <1>7, <2>2, OrderlyFacts DEF Begin, Write, NextId
  <2>4. status' = "RUNNING"
    BY <1>1, <1>2, <1>7 DEF Begin, Write, OneToken
  <2>5. OneToken'
    BY <1>1, <1>4, <2>1, <2>2, <2>3, <2>4, OrderlyFacts DEF OneToken, Terminal
  <2>6. Here' = n /\ (current # NoNode => Here = n)
    BY <2>1, <2>2, <2>3, OrderlyFacts DEF Here
  <2>7. current = NoNode => TaskIds = {}
    BY <1>1, OrderlyFacts DEF OneToken
  <2>8. InOrder(rank)'
    BY <1>4, <1>6, <2>6, <2>7 DEF InOrder
  <2>. QED
    BY <1>5, <2>5, <2>8
<1>8. CASE Step
  <2>1. pos \in Node \ HumanNode /\ pos # NoNode /\ posts = 0 /\ starts = 0 /\ starts' = 0
        /\ status = "RUNNING" /\ pos' = Follow[pos] /\ Here = pos
    BY <1>1, <1>8, OrderlyFacts DEF Step, OneToken, Here
  <2>2. CASE Follow[pos] = NoNode
    <3>1. status' = "COMPLETED" /\ current' = pos /\ pos' = NoNode
      BY <1>8, <2>1, <2>2 DEF Step, Write
    <3>. QED
      BY <1>1, <1>4, <1>5, <2>1, <3>1, OrderlyFacts DEF OneToken, InOrder, Terminal
  <2>3. CASE Follow[pos] # NoNode
    <3>1. Follow[pos] \in Node /\ rank[pos] < rank[Follow[pos]]
      BY <2>1, <2>3, DefinitionTypes DEF Forward, NextId
    <3>2. status' = "RUNNING" /\ current' = Follow[pos] /\ pos' = Follow[pos]
      BY <1>8, <2>1, <2>3 DEF Step, Write
    <3>3. OneToken'
      BY <1>1, <1>4, <2>1, <2>3, <3>2, OrderlyFacts DEF OneToken, Terminal
    <3>4. Here' = Follow[pos]
      BY <2>3, <3>2 DEF Here
    <3>5. \A t \in TaskIds : rank[tasks[t].node] < rank[Follow[pos]]
      <4>1. ASSUME NEW t \in TaskIds PROVE rank[tasks[t].node] < rank[Follow[pos]]
        <5>1. rank[tasks[t].node] \in Nat /\ rank[pos] \in Nat /\ rank[Follow[pos]] \in Nat
          BY <2>1, <3>1, OrderlyFacts
        <5>. QED
          BY <1>6, <2>1, <3>1, <5>1
      <4>. QED
        BY <4>1
    <3>6. InOrder(rank)'
      BY <1>4, <3>4, <3>5 DEF InOrder
    <3>. QED
      BY <1>5, <3>3, <3>6
  <2>. QED
    BY <2>2, <2>3
<1>. QED
  BY <1>7, <1>8

LEMMA OrderlyPause ==
  ASSUME NEW rank, Orderly, Forward(rank), OrderlyInv(rank), PostTask \/ PostRefused \/ Pause
  PROVE  OneToken' /\ AboutTheNewest' /\ InOrder(rank)'
<1>0. ~(faults < MaxFaults)
  <2>1. MaxFaults = 0
    BY Zenon DEF Orderly
  <2>. QED
    BY <2>1, OrderlyFacts
<1>1. OneToken /\ InOrder(rank) /\ pos \in HumanNode /\ pos # NoNode /\ starts = 0 /\ status = "RUNNING" /\ Here = pos
  BY OrderlyFacts DEF PostTask, PostRefused, Pause, OrderlyInv, OneToken, Here
<1>2. CASE PostTask
  <2>1. posts = 0 /\ posts' = Answered
    <3>2. posts # Answered
      <4>1. posts < PostAttempts /\ PostAttempts \in Nat
        BY <1>2, DefinitionTypes DEF PostTask
      <4>. QED
        BY <4>1 DEF Answered
    <3>. QED
      BY <1>0, <1>1, <1>2, <3>2 DEF PostTask, OneToken
  <2>2. ~AtNewest
    BY <1>1, <2>1, OrderlyFacts DEF AtNewest
  <2>3. forms = {} /\ calls = {} /\ resumes = {} /\ \A t \in TaskIds : tasks[t].status # "PENDING"
    BY <2>2, NothingUnderWay
  <2>4. UNCHANGED <<status, starts, pos, resumes, up, forms, calls, visit>> /\ current' = pos
    BY <1>2 DEF PostTask
  <2>5. /\ Newest' = Newest + 1 /\ TaskIds' = TaskIds \cup {Newest'}
        /\ \A u \in TaskIds : tasks'[u] = tasks[u]
        /\ tasks'[Newest'].node = pos /\ tasks'[Newest'].visit = visit
    BY <1>2, <2>1, OrderlyFacts, RowPosted DEF Newest, NewTask
  <2>6. AtNewest'
    BY <2>1, <2>4, <2>5, OrderlyFacts DEF AtNewest
  <2>7. OneToken'
    BY <1>1, <2>1, <2>4, <2>6, OrderlyFacts DEF OneToken, Terminal
  <2>8. AboutTheNewest'
    BY <2>3, <2>4, <2>5, <2>6 DEF AboutTheNewest, Alone
  <2>9. Here' = pos /\ \A t \in TaskIds : rank[tasks[t].node] < rank[pos]
    BY <1>1, <2>2, <2>4 DEF Here, InOrder, Terminal
  <2>10. InOrder(rank)'
    BY <2>5, <2>6, <2>9 DEF InOrder
  <2>. QED
    BY <2>7, <2>8, <2>10
<1>3. CASE Pause
  <2>1. posts = Answered /\ current = pos /\ AtNewest
    BY <1>1, <1>3, OrderlyFacts DEF Pause, OneToken
  <2>2. status' = "WAITING_HUMAN" /\ current' = current /\ pos' = NoNode /\ posts' = 0
    BY <1>3, <2>1 DEF Pause, Write, AfterPost
  <2>3. UNCHANGED <<starts, resumes, up, tasks, forms, calls, visit, echoed>> /\ Newest' = Newest /\ TaskIds' = TaskIds
    BY <1>3 DEF Pause, EngineStep, taskVars, histVars, Newest, TaskIds
  <2>4. AtNewest'
    BY <2>1, <2>2, <2>3 DEF AtNewest
  <2>5. OneToken'
    BY <1>1, <2>1, <2>2, <2>3, <2>4, OrderlyFacts DEF OneToken, Terminal
  <2>6. AboutTheNewest'
    BY <2>1, <2>2, <2>3, <2>4 DEF OrderlyInv, AboutTheNewest, Alone
  <2>7. Here' = Here
    BY <1>1, <2>1, <2>2 DEF Here
  <2>8. InOrder(rank)'
    BY <1>1, <2>3, <2>4, <2>7 DEF InOrder, Terminal
  <2>. QED
    BY <2>5, <2>6, <2>8
<1>4. ~PostRefused
  BY <1>0 DEF PostRefused
<1>. QED
  BY <1>2, <1>3, <1>4

LEMMA OrderlyWaking ==
  ASSUME NEW rank, Orderly, Forward(rank), OrderlyInv(rank),
         ResumeCheck \/ Sweep \/ (ResumeGo /\ Newest \notin echoed)
  PROVE  OneToken' /\ AboutTheNewest' /\ InOrder(rank)'
<1>1. OneToken /\ InOrder(rank) /\ AboutTheNewest
  BY DEF OrderlyInv
<1>2. CASE ResumeCheck
  <2>1. UNCHANGED <<status, current, starts, pos, posts, up, visit, tasks, forms, calls, echoed>>
    BY <1>2 DEF ResumeCheck, EngineStep, taskVars, runVars, histVars
  <2>2. OneToken' /\ InOrder(rank)' /\ AtNewest' = AtNewest /\ Newest' = Newest /\ TaskIds' = TaskIds
    BY <2>1, RunStays
  <2>3. PICK s \in resumes :
          resumes' = (resumes \ {s}) \cup (IF Resumable THEN {[s EXCEPT !.checked = TRUE]} ELSE {})
    BY <1>2 DEF ResumeCheck
  <2>4. PICK m : m = [s EXCEPT !.checked = TRUE]
    OBVIOUS
  <2>5. s \in Resume /\ m.task = s.task /\ m.answer = s.answer
    BY <2>3, <2>4, OrderlyFacts, CheckedResume
  <2>6. /\ resumes' \subseteq (resumes \ {s}) \cup {m}
        /\ m \in resumes' => m \in resumes \/ status = "WAITING_HUMAN"
    BY <2>3, <2>4 DEF Resumable
  <2>7. Newest \notin echoed => Alone'
    <3>1. SUFFICES ASSUME Newest \notin echoed PROVE Alone'
      OBVIOUS
    <3>2. resumes = {s} /\ calls = {}
      BY <1>1, <2>3, <3>1 DEF AboutTheNewest, Alone
    <3>. QED
      BY <2>1, <2>6, <3>2 DEF Alone
  <2>8. \A x \in resumes' : x \in resumes \/ (x.task = s.task /\ x.answer = s.answer /\ status = "WAITING_HUMAN")
    BY <2>5, <2>6
  <2>9. AboutTheNewest'
    BY <1>1, <2>1, <2>2, <2>3, <2>7, <2>8 DEF AboutTheNewest
  <2>. QED
    BY <2>2, <2>9
<1>3. CASE ResumeGo /\ Newest \notin echoed
  <2>1. UNCHANGED <<pos, posts, up, tasks, forms, calls>> /\ Newest' = Newest /\ TaskIds' = TaskIds
    BY <1>3 DEF ResumeGo, EngineStep, taskVars, Newest, TaskIds
  <2>2. PICK s \in resumes :
          LET n == Route(tasks[s.task].node, s.answer)
          IN /\ s.checked
             /\ resumes' = resumes \ {s}
             /\ \/ Write("FAILED", current) /\ UNCHANGED <<starts, visit>>
                \/ n # NoNode /\ Write("RUNNING", n) /\ starts' = starts + 1
    BY <1>3 DEF ResumeGo
  <2>3. PICK n : n = Route(current, s.answer)
    OBVIOUS
  <2>4. /\ s.task = Newest /\ AtNewest /\ tasks[Newest].status = "COMPLETED" /\ resumes = {s}
        /\ status = "WAITING_HUMAN" /\ s.answer \in Decision
    BY <1>1, <1>3, <2>2, OrderlyFacts DEF AboutTheNewest, Alone, Resume
  <2>5. /\ starts = 0 /\ pos = NoNode /\ posts = 0 /\ Newest \in TaskIds
        /\ tasks[Newest].node = current /\ current \in HumanNode
    BY <1>1, <2>4, OrderlyFacts DEF OneToken, AtNewest
  <2>6. forms = {} /\ \A t \in TaskIds : tasks[t].status # "PENDING"
    BY <2>4, AnsweredNewest
  <2>7. calls = {} /\ resumes' = {}
    BY <1>1, <1>3, <2>2, <2>4 DEF AboutTheNewest, Alone
  <2>8. AboutTheNewest'
    BY <2>1, <2>6, <2>7 DEF AboutTheNewest, Alone
  <2>9. CASE Write("FAILED", current) /\ UNCHANGED <<starts, visit>>
    <3>1. status' = "FAILED" /\ current' = current /\ starts' = 0
      BY <2>5, <2>9 DEF Write
    <3>. QED
      BY <1>1, <2>1, <2>5, <2>8, <3>1, OrderlyFacts DEF OneToken, InOrder, Terminal
  <2>10. CASE n # NoNode /\ Write("RUNNING", n) /\ starts' = starts + 1
    <3>1. status' = "RUNNING" /\ current' = n /\ starts' = 1 /\ n \in Node /\ n # NoNode
      BY <2>3, <2>4, <2>5, <2>10, DefinitionTypes DEF Write, NextId
    <3>2. OneToken'
      BY <1>1, <2>1, <2>5, <3>1, OrderlyFacts DEF OneToken, Terminal
    <3>3. rank[current] < rank[n]
      BY <2>3, <2>4, <2>5, <2>10 DEF Forward
    <3>4. Here' = n /\ Here = current
      BY <2>1, <2>5, <3>1 DEF Here
    <3>5. \A t \in TaskIds : rank[tasks[t].node] < rank[n]
      <4>1. ASSUME NEW t \in TaskIds PROVE rank[tasks[t].node] < rank[n]
        <5>1. rank[tasks[t].node] \in Nat /\ rank[current] \in Nat /\ rank[n] \in Nat
          BY <2>5, <3>1, OrderlyFacts
        <5>2. rank[tasks[t].node] < rank[current] \/ t = Newest
          BY <1>1, <2>4, <3>4 DEF InOrder, Terminal
        <5>. QED
          BY <2>5, <3>3, <5>1, <5>2
      <4>. QED
        BY <4>1
    <3>6. InOrder(rank)'
      BY <2>1, <3>4, <3>5 DEF InOrder
    <3>. QED
      BY <2>8, <3>2, <3>6
  <2>. QED
    BY <2>2, <2>3, <2>4, <2>5, <2>9, <2>10
<1>4. CASE Sweep
  <2>1. UNCHANGED <<status, current, starts, pos, posts, up, visit, tasks, forms, calls>>
    BY <1>4 DEF Sweep, EngineStep, taskVars, runVars, histVars
  <2>2. OneToken' /\ InOrder(rank)' /\ AtNewest' = AtNewest /\ Newest' = Newest /\ TaskIds' = TaskIds
    BY <2>1, RunStays
  <2>3. PICK t \in TaskIds :
          /\ Matches(t) /\ resumes = {} /\ \A c \in calls : c.task # t
          /\ resumes' = {[task |-> t, answer |-> tasks[t].answer, by |-> 0, checked |-> FALSE]}
    BY <1>4 DEF Sweep, Orderly
  <2>4. status = "WAITING_HUMAN" /\ AtNewest /\ Here = current
    BY <1>1, <1>4 DEF Sweep, Stuck, OneToken, Here
  <2>5. t = Newest
    <3>1. rank[tasks[t].node] \in Nat /\ tasks[t].node = current
      BY <2>3, OrderlyFacts DEF Matches
    <3>2. ~(rank[tasks[t].node] < rank[Here])
      BY <2>4, <3>1
    <3>. QED
      BY <1>1, <2>4, <3>2 DEF InOrder, Terminal
  <2>6. calls = {} /\ tasks[Newest].status = "COMPLETED"
    BY <1>1, <2>3, <2>5 DEF AboutTheNewest, Matches
  <2>7. PICK m : m = [task |-> t, answer |-> tasks[t].answer, by |-> 0, checked |-> FALSE]
    OBVIOUS
  <2>8. m.task = Newest /\ m.answer = tasks[Newest].answer /\ resumes' = {m}
    BY <2>3, <2>5, <2>7
  <2>9. AboutTheNewest'
    BY <1>1, <2>1, <2>2, <2>4, <2>6, <2>8 DEF AboutTheNewest, Alone
  <2>. QED
    BY <2>2, <2>9
<1>. QED
  BY <1>2, <1>3, <1>4

LEMMA OrderlyForms ==
  ASSUME NEW rank, Orderly, Forward(rank), OrderlyInv(rank), OpenForm \/ CloseForm
  PROVE  OneToken' /\ AboutTheNewest' /\ InOrder(rank)'
<1>1. AboutTheNewest /\ TypeInv
  BY DEF OrderlyInv, OnceInv
<1>2. UNCHANGED <<status, current, starts, pos, posts, up, visit, resumes, echoed>>
  BY DEF OpenForm, CloseForm, InboxStep, ServiceStep, runVars
<1>3. CASE OpenForm
  <2>1. UNCHANGED <<tasks, calls>>
    BY <1>3 DEF OpenForm
  <2>2. OneToken' /\ InOrder(rank)' /\ AtNewest' = AtNewest /\ Newest' = Newest /\ TaskIds' = TaskIds
    BY <1>2, <2>1, RunStays
  <2>3. PICK t \in TaskIds, d \in Decision :
          /\ Open(t)
          /\ forms' = forms \cup {[task |-> t, answer |-> d,
                                   by |-> Cardinality({f \in forms : f.task = t})]}
    BY <1>3 DEF OpenForm
  <2>4. PICK g : g = [task |-> t, answer |-> d, by |-> Cardinality({f \in forms : f.task = t})]
    OBVIOUS
  <2>5. g.task = t /\ forms' = forms \cup {g}
    BY <2>3, <2>4
  <2>6. t = Newest /\ AtNewest
    BY <1>1, <2>3 DEF AboutTheNewest, Open
  <2>7. AboutTheNewest'
    BY <1>1, <1>2, <2>1, <2>2, <2>5, <2>6 DEF AboutTheNewest, Alone
  <2>. QED
    BY <2>2, <2>7
<1>4. CASE CloseForm
  <2>1. PICK f \in forms :
          /\ forms' = forms \ {f}
          /\ tasks' = [tasks EXCEPT ![f.task].status = "COMPLETED", ![f.task].answer = f.answer]
          /\ calls' = calls \cup {[task |-> f.task, answer |-> f.answer, left |-> Attempts]}
    BY <1>4 DEF CloseForm
  <2>2. f.task = Newest /\ AtNewest /\ tasks[Newest].status = "PENDING"
    BY <1>1, <2>1 DEF AboutTheNewest, OrderlyInv, OnceInv, FormsAreAlone
  <2>3. calls = {} /\ resumes = {}
    BY <1>1, <2>2 DEF AboutTheNewest
  <2>4. forms' = {}
    BY <1>1, <2>1, <2>2 DEF AboutTheNewest, OrderlyInv, OnceInv, FormsAreAlone
  <2>5. /\ Len(tasks') = Len(tasks)
        /\ tasks'[Newest].status = "COMPLETED" /\ tasks'[Newest].answer = f.answer
        /\ \A u \in TaskIds \ {Newest} : tasks'[u] = tasks[u]
        /\ \A u \in TaskIds : tasks'[u].node = tasks[u].node /\ tasks'[u].visit = tasks[u].visit
    BY <1>1, <2>1, <2>2, RowCompleted
  <2>6. OneToken' /\ InOrder(rank)' /\ AtNewest' = AtNewest /\ Newest' = Newest /\ TaskIds' = TaskIds
    BY <1>2, <2>5, RunStays
  <2>7. PICK c : c = [task |-> f.task, answer |-> f.answer, left |-> Attempts]
    OBVIOUS
  <2>8. c.task = Newest /\ c.answer = f.answer /\ calls' = {c} /\ resumes' = {}
    BY <1>2, <2>1, <2>2, <2>3, <2>7
  <2>9. \A t \in TaskIds : tasks'[t].status # "PENDING"
    BY <1>1, <2>5 DEF AboutTheNewest
  <2>10. AboutTheNewest'
    BY <2>2, <2>4, <2>5, <2>6, <2>8, <2>9 DEF AboutTheNewest, Alone
  <2>. QED
    BY <2>6, <2>10
<1>. QED
  BY <1>3, <1>4

LEMMA OrderlyCallback ==
  ASSUME NEW rank, Orderly, Forward(rank), OrderlyInv(rank), Callback
  PROVE  OneToken' /\ AboutTheNewest' /\ InOrder(rank)'
<1>1. AboutTheNewest
  BY DEF OrderlyInv
<1>2. UNCHANGED <<status, current, starts, pos, posts, up, visit, tasks, forms>>
  BY DEF Callback, ServiceStep, runVars
<1>3. OneToken' /\ InOrder(rank)' /\ AtNewest' = AtNewest /\ Newest' = Newest /\ TaskIds' = TaskIds
  BY <1>2, RunStays
<1>4. PICK c \in calls :
        \/ /\ calls' = calls \ {c} /\ UNCHANGED echoed
           /\ resumes' = resumes \cup
                {[task |-> c.task, answer |-> c.answer, by |-> c.left, checked |-> FALSE]}
        \/ /\ calls' = LeftAfter(c) /\ echoed' = echoed \cup {c.task}
           /\ resumes' = resumes \cup
                {[task |-> c.task, answer |-> c.answer, by |-> c.left, checked |-> FALSE]}
        \/ calls' = LeftAfter(c) /\ UNCHANGED <<resumes, echoed>>
  BY DEF Callback
<1>5. PICK m : m = [task |-> c.task, answer |-> c.answer, by |-> c.left, checked |-> FALSE]
  OBVIOUS
<1>6. PICK d : d = [c EXCEPT !.left = @ - 1]
  OBVIOUS
<1>7. m.task = c.task /\ m.answer = c.answer /\ m.checked = FALSE
  BY <1>5
<1>8. d.task = c.task /\ d.answer = c.answer
  <2>1. c \in [task : TaskIds, answer : Decision, left : Nat]
    BY <1>4 DEF OrderlyInv, OnceInv, TypeInv, TypeOK
  <2>. QED
    BY <1>6, <2>1
<1>9. c.task = Newest /\ AtNewest /\ tasks[Newest].status = "COMPLETED" /\ tasks[Newest].answer = c.answer
  BY <1>1, <1>4 DEF AboutTheNewest
<1>10. /\ calls' \subseteq calls \cup {d} /\ resumes' \subseteq resumes \cup {m} /\ echoed \subseteq echoed'
  BY <1>4, <1>5, <1>6 DEF LeftAfter
<1>11. Newest \in echoed' \/ Alone'
  <2>1. SUFFICES ASSUME Newest \notin echoed' PROVE Alone'
    OBVIOUS
  <2>2. calls = {c} /\ resumes = {}
    BY <1>1, <1>4, <1>10, <2>1 DEF AboutTheNewest, Alone
  <2>3. \/ calls' = {} /\ resumes' = {m}
        \/ calls' \subseteq {d} /\ resumes' = {}
    BY <1>4, <1>5, <1>6, <1>9, <2>1, <2>2 DEF LeftAfter
  <2>. QED
    BY <2>3 DEF Alone
<1>12. AboutTheNewest'
  BY <1>1, <1>2, <1>3, <1>7, <1>8, <1>9, <1>10, <1>11 DEF AboutTheNewest
<1>. QED
  BY <1>3, <1>12

LEMMA OrderlyRest ==
  ASSUME NEW rank, Orderly, Forward(rank), OrderlyInv(rank),
         \/ Crash \/ Restart \/ GracePasses \/ GoesOverdue \/ SelectOverdue \/ MarkOverdue \/ NotifyOverdue
         \/ TaskCrash \/ UNCHANGED vars
  PROVE  OneToken' /\ AboutTheNewest' /\ InOrder(rank)'
<1>1. AboutTheNewest /\ TypeInv /\ OneToken
  BY DEF OrderlyInv, OnceInv
<1>2. ~Crash /\ ~Restart
  <2>1. MaxFaults = 0
    BY Zenon DEF Orderly
  <2>2. ~(faults < MaxFaults)
    BY <2>1, OrderlyFacts
  <2>. QED
    BY <1>1, <2>2 DEF Crash, Restart, OneToken
<1>3. UNCHANGED <<status, current, starts, pos, posts, up, visit, resumes, echoed>>
  BY <1>2 DEF GracePasses, GoesOverdue, SelectOverdue, MarkOverdue, NotifyOverdue, TaskCrash, InboxStep,
              ServiceStep, vars, runVars, engineVars, histVars
<1>4. forms' \in {forms, {}} /\ calls' \in {calls, {}}
  BY <1>2 DEF GracePasses, GoesOverdue, SelectOverdue, MarkOverdue, NotifyOverdue, TaskCrash, vars, taskVars
<1>5. /\ Len(tasks') = Len(tasks)
      /\ \A u \in TaskIds : /\ tasks'[u].node = tasks[u].node /\ tasks'[u].visit = tasks[u].visit
                            /\ tasks'[u].status = tasks[u].status /\ tasks'[u].answer = tasks[u].answer
  <2>1. CASE GoesOverdue
    BY <1>1, <2>1, RowMarked DEF GoesOverdue
  <2>2. CASE MarkOverdue
    <3>1. PICK t \in due : tasks' = [tasks EXCEPT ![t].noticed = TRUE]
      BY <2>2 DEF MarkOverdue
    <3>2. t \in TaskIds
      BY <1>1, <3>1 DEF TypeInv, TypeOK
    <3>. QED
      BY <1>1, <3>1, <3>2, RowMarked
  <2>3. CASE UNCHANGED tasks
    BY <2>3
  <2>. QED
    BY <1>2, <2>1, <2>2, <2>3 DEF GracePasses, SelectOverdue, NotifyOverdue, TaskCrash, vars, taskVars
<1>6. OneToken' /\ InOrder(rank)' /\ AtNewest' = AtNewest /\ Newest' = Newest /\ TaskIds' = TaskIds
  BY <1>3, <1>5, RunStays
<1>7. AtNewest => Newest \in TaskIds
  BY OrderlyFacts DEF AtNewest
<1>8. AboutTheNewest'
  BY <1>1, <1>3, <1>4, <1>5, <1>6, <1>7 DEF AboutTheNewest, Alone
<1>. QED
  BY <1>6, <1>8

\* What was heard twice stays so, and the rows of the tasks keep their visit.
LEMMA EchoesStay ==
  ASSUME OnceInv, [Next]_vars
  PROVE  /\ TaskIds \subseteq TaskIds' /\ echoed \subseteq echoed' /\ visit <= visit' /\ visit \in Nat /\ visit' \in Nat
         /\ \A t \in TaskIds : tasks'[t].visit = tasks[t].visit /\ tasks[t].visit \in Nat
         /\ EarlierEcho => EarlierEcho'
<1>1. TypeInv /\ TypeInv' /\ due \subseteq TaskIds /\ echoed \subseteq TaskIds
  BY TypeStep DEF OnceInv, TypeInv, TypeOK
<1>2. visit \in Nat /\ visit' \in Nat /\ \A t \in TaskIds : tasks[t].visit \in Nat
  BY <1>1, RowTypes DEF TypeInv, TypeOK
<1>3. echoed \subseteq echoed'
  BY DEF Next, Begin, Step, PostTask, PostRefused, Pause, Crash, Restart, ResumeCheck, ResumeGo, Sweep, GracePasses,
         OpenForm, CloseForm, Callback, GoesOverdue, SelectOverdue, MarkOverdue, NotifyOverdue, TaskCrash,
         InboxStep, histVars, vars
<1>4. visit' \in {visit, visit + 1}
  <2>1. Begin \/ Step \/ ResumeGo => visit' \in {visit, visit + 1}
    BY DEF Begin, Step, ResumeGo
  <2>2. [Next]_vars => Begin \/ Step \/ ResumeGo \/ visit' = visit
    BY DEF Next, PostTask, PostRefused, Pause, Crash, Restart, ResumeCheck, Sweep, GracePasses,
           OpenForm, CloseForm, Callback, GoesOverdue, SelectOverdue, MarkOverdue, NotifyOverdue, TaskCrash,
           InboxStep, ServiceStep, histVars, vars
  <2>. QED
    BY <2>1, <2>2
<1>5. TaskIds \subseteq TaskIds' /\ \A t \in TaskIds : tasks'[t].visit = tasks[t].visit
  <2>1. CASE UNCHANGED tasks
    BY <2>1 DEF TaskIds
  <2>2. CASE PostTask
    BY <1>1, <2>2, RowPosted
  <2>3. CASE CloseForm
    BY <1>1, <2>3, RowCompleted DEF CloseForm
  <2>4. CASE GoesOverdue
    BY <1>1, <2>4, RowMarked DEF GoesOverdue
  <2>5. CASE MarkOverdue
    <3>1. PICK t \in due : tasks' = [tasks EXCEPT ![t].noticed = TRUE]
      BY <2>5 DEF MarkOverdue
    <3>. QED
      BY <1>1, <3>1, RowMarked
  <2>6. UNCHANGED tasks \/ PostTask \/ CloseForm \/ GoesOverdue \/ MarkOverdue
    BY DEF Next, Begin, Step, PostRefused, Pause, Crash, Restart, ResumeCheck, ResumeGo, Sweep, GracePasses, OpenForm,
           Callback, SelectOverdue, NotifyOverdue, TaskCrash, EngineStep, taskVars, vars
  <2>. QED
    BY <2>1, <2>2, <2>3, <2>4, <2>5, <2>6
<1>6. EarlierEcho => EarlierEcho'
  <2>1. SUFFICES ASSUME NEW t \in echoed, tasks[t].visit < visit PROVE EarlierEcho'
    BY DEF EarlierEcho
  <2>2. t \in echoed' /\ tasks'[t].visit < visit'
    BY <1>1, <1>2, <1>3, <1>4, <1>5, <2>1
  <2>. QED
    BY <2>2 DEF EarlierEcho
<1>. QED
  BY <1>2, <1>3, <1>4, <1>5, <1>6

\* The next arrival at a sign-off makes an answer heard twice an earlier one.
LEMMA ArrivalAfterEcho ==
  ASSUME OnceInv, [Next]_vars, Newest \in echoed, tasks[Newest].visit = visit, visit' = visit + 1
  PROVE  EarlierEcho'
<1>1. Newest \in TaskIds
  BY DEF OnceInv, TypeInv, TypeOK
<1>2. Newest \in echoed' /\ tasks'[Newest].visit < visit'
  BY <1>1, EchoesStay
<1>. QED
  BY <1>2 DEF EarlierEcho

\* The newest task's answer was heard twice, and takes the run out of its wait.
LEMMA WokenByAnEcho ==
  ASSUME NEW rank, Orderly, Forward(rank), OrderlyInv(rank), ResumeGo, Newest \in echoed
  PROVE  EarlierEcho' \/ HeardAgain'
<1>1. OneToken /\ AboutTheNewest /\ OnceInv
  BY DEF OrderlyInv
<1>2. UNCHANGED <<pos, posts, up, tasks, echoed>> /\ Newest' = Newest
  BY DEF ResumeGo, EngineStep, taskVars, Newest
<1>3. PICK s \in resumes :
        LET n == Route(tasks[s.task].node, s.answer)
        IN /\ s.checked
           /\ \/ Write("FAILED", current) /\ UNCHANGED visit
              \/ /\ n # NoNode /\ Write("RUNNING", n)
                 /\ visit' = IF n \in HumanNode THEN visit + 1 ELSE visit
  BY DEF ResumeGo
<1>4. /\ s.task = Newest /\ AtNewest /\ status = "WAITING_HUMAN" /\ s.answer \in Decision
  BY <1>1, <1>3, OrderlyFacts DEF AboutTheNewest, Resume
<1>5. /\ pos = NoNode /\ posts = 0 /\ up /\ Newest \in TaskIds
      /\ tasks[Newest].node = current /\ tasks[Newest].visit = visit /\ current \in HumanNode
  BY <1>1, <1>4, OrderlyFacts DEF OneToken, AtNewest
<1>6. PICK n : n = Route(tasks[s.task].node, s.answer)
  OBVIOUS
<1>7. n \in NextId
  BY <1>4, <1>5, <1>6, DefinitionTypes
<1>8. CASE Write("FAILED", current) /\ UNCHANGED visit
  BY <1>2, <1>5, <1>8, OrderlyFacts DEF HeardAgain, Write
<1>9. CASE n # NoNode /\ Write("RUNNING", n) /\ n \notin HumanNode /\ visit' = visit
  <2>1. status' = "RUNNING" /\ current' = n /\ n \in Node
    BY <1>7, <1>9 DEF Write, NextId
  <2>. QED
    BY <1>2, <1>5, <1>9, <2>1, OrderlyFacts DEF HeardAgain
<1>10. CASE visit' = visit + 1
  <2>1. [Next]_vars
    BY DEF Next
  <2>. QED
    BY <1>1, <1>5, <1>10, <2>1, ArrivalAfterEcho
<1>. QED
  BY <1>3, <1>6, <1>8, <1>9, <1>10

LEMMA HeardAgainWorker ==
  ASSUME Orderly, OnceInv, HeardAgain, Begin \/ Step
  PROVE  EarlierEcho' \/ HeardAgain'
<1>1. UNCHANGED <<tasks, echoed, posts, up>> /\ Newest' = Newest
  BY DEF Begin, Step, EngineStep, taskVars, Newest
<1>2. HumanNode \subseteq Node /\ NoNode \notin Node
  BY DefinitionTypes
<1>3. CASE Begin
  <2>1. current # NoNode /\ visit' = visit /\ current' = current
    BY <1>2, <1>3 DEF Begin, HeardAgain, Write, runVars
  <2>2. CASE status \in Terminal
    <3>1. UNCHANGED <<status, pos>>
      BY <1>3, <2>2 DEF Begin, runVars
    <3>. QED
      BY <1>1, <2>1, <3>1 DEF HeardAgain
  <2>3. CASE status \notin Terminal
    <3>1. pos' = current /\ status' # "WAITING_HUMAN" /\ current \notin HumanNode
      BY <1>3, <2>1, <2>3 DEF Begin, HeardAgain, Write, Terminal
    <3>. QED
      BY <1>1, <2>1, <3>1 DEF HeardAgain
  <2>. QED
    BY <2>2, <2>3
<1>4. CASE Step
  <2>1. /\ pos \in Node \ HumanNode /\ pos' = Follow[pos] /\ Follow[pos] \in NextId
        /\ status' = IF Follow[pos] = NoNode THEN "COMPLETED" ELSE status
        /\ current' = IF Follow[pos] = NoNode THEN pos ELSE Follow[pos]
        /\ visit' = IF Follow[pos] \in HumanNode THEN visit + 1 ELSE visit
    BY <1>4, DefinitionTypes DEF Step, Write
  <2>2. CASE Follow[pos] \in HumanNode
    <3>1. [Next]_vars /\ visit' = visit + 1
      BY <1>4, <2>1, <2>2 DEF Next
    <3>. QED
      BY <3>1, ArrivalAfterEcho DEF HeardAgain
  <2>3. CASE Follow[pos] \notin HumanNode
    <3>1. status' # "WAITING_HUMAN" /\ current' \in Node \ HumanNode /\ pos' \notin HumanNode /\ visit' = visit
      BY <1>2, <2>1, <2>3 DEF HeardAgain, NextId
    <3>. QED
      BY <1>1, <3>1 DEF HeardAgain
  <2>. QED
    BY <2>2, <2>3
<1>. QED
  BY <1>3, <1>4

LEMMA HeardAgainResume ==
  ASSUME Orderly, OnceInv, HeardAgain, ResumeGo
  PROVE  EarlierEcho' \/ HeardAgain'
<1>1. UNCHANGED <<pos, posts, up, tasks, echoed>> /\ Newest' = Newest
  BY DEF ResumeGo, EngineStep, taskVars, Newest
<1>2. PICK s \in resumes :
        LET n == Route(tasks[s.task].node, s.answer)
        IN \/ Write("FAILED", current) /\ UNCHANGED visit
           \/ /\ n # NoNode /\ Write("RUNNING", n)
              /\ visit' = IF n \in HumanNode THEN visit + 1 ELSE visit
  BY DEF ResumeGo
<1>3. PICK n : n = Route(tasks[s.task].node, s.answer)
  OBVIOUS
<1>4. n \in NextId
  <2>1. TypeInv /\ s.task \in TaskIds /\ s.answer \in Decision
    BY <1>2 DEF OnceInv, TypeInv, TypeOK, Resume
  <2>. QED
    BY <1>3, <2>1, RowTypes, DefinitionTypes
<1>5. CASE Write("FAILED", current) /\ UNCHANGED visit
  BY <1>1, <1>5 DEF HeardAgain, Write
<1>6. CASE n # NoNode /\ Write("RUNNING", n) /\ n \notin HumanNode /\ visit' = visit
  <2>1. status' = "RUNNING" /\ current' = n /\ n \in Node
    BY <1>4, <1>6 DEF Write, NextId
  <2>. QED
    BY <1>1, <1>6, <2>1 DEF HeardAgain
<1>7. CASE visit' = visit + 1
  <2>1. [Next]_vars
    BY DEF Next
  <2>. QED
    BY <1>7, <2>1, ArrivalAfterEcho DEF HeardAgain
<1>. QED
  BY <1>2, <1>3, <1>5, <1>6, <1>7

\* Nothing else moves a run that waits for nobody.
LEMMA HeardAgainRest ==
  ASSUME Orderly, OnceInv, HeardAgain, [Next]_vars, ~Begin, ~Step, ~ResumeGo
  PROVE  HeardAgain'
<1>1. ~Crash /\ ~Restart /\ ~PostTask /\ ~PostRefused /\ ~Pause
  <2>1. MaxFaults = 0 /\ faults \in Nat
    BY Zenon DEF Orderly, OnceInv, TypeInv, TypeOK
  <2>2. ~(faults < MaxFaults)
    BY <2>1
  <2>. QED
    BY <2>2 DEF Crash, Restart, PostTask, PostRefused, Pause, HeardAgain
<1>2. UNCHANGED <<status, current, pos, posts, up, visit>>
  BY <1>1 DEF Next, ResumeCheck, Sweep, GracePasses, OpenForm, CloseForm, Callback, GoesOverdue, SelectOverdue,
              MarkOverdue, NotifyOverdue, TaskCrash, EngineStep, InboxStep, ServiceStep, vars, runVars, engineVars,
              histVars
<1>3. Len(tasks') = Len(tasks)
  <2>1. TypeInv /\ due \subseteq TaskIds
    BY DEF OnceInv, TypeInv, TypeOK
  <2>2. CASE CloseForm
    BY <2>1, <2>2, RowCompleted DEF CloseForm
  <2>3. CASE GoesOverdue
    BY <2>1, <2>3, RowMarked DEF GoesOverdue
  <2>4. CASE MarkOverdue
    <3>1. PICK t \in due : tasks' = [tasks EXCEPT ![t].noticed = TRUE]
      BY <2>4 DEF MarkOverdue
    <3>. QED
      BY <2>1, <3>1, RowMarked
  <2>5. UNCHANGED tasks \/ CloseForm \/ GoesOverdue \/ MarkOverdue
    BY <1>1 DEF Next, ResumeCheck, Sweep, GracePasses, OpenForm, Callback, SelectOverdue, NotifyOverdue, TaskCrash,
                EngineStep, taskVars, vars
  <2>. QED
    BY <2>2, <2>3, <2>4, <2>5
<1>4. Newest' = Newest
  BY <1>3 DEF Newest
<1>5. Newest \in echoed /\ Newest \in TaskIds
  BY DEF HeardAgain, OnceInv, TypeInv, TypeOK
<1>6. Newest' \in echoed' /\ tasks'[Newest'].visit = visit'
  BY <1>2, <1>4, <1>5, EchoesStay DEF HeardAgain
<1>. QED
  BY <1>2, <1>6 DEF HeardAgain

LEMMA OrderlyStep ==
  ASSUME NEW rank, Orderly, Forward(rank)
  PROVE  EchoInv(rank) /\ [Next]_vars => EchoInv(rank)'
<1>. SUFFICES ASSUME EchoInv(rank), [Next]_vars PROVE EchoInv(rank)'
  OBVIOUS
<1>1. OnceInv /\ OnceInv'
  BY OnceStep DEF Orderly, EchoInv
<1>2. CASE EarlierEcho
  BY <1>1, <1>2, EchoesStay DEF EchoInv
<1>3. CASE OrderlyInv(rank)
  <2>1. CASE ResumeGo /\ Newest \in echoed
    BY <1>1, <1>3, <2>1, WokenByAnEcho DEF EchoInv
  <2>2. CASE ~(ResumeGo /\ Newest \in echoed)
    <3>1. OneToken' /\ AboutTheNewest' /\ InOrder(rank)'
      BY <1>3, <2>2, OrderlyWorker, OrderlyPause, OrderlyWaking, OrderlyForms, OrderlyCallback, OrderlyRest DEF Next
    <3>. QED
      BY <1>1, <3>1 DEF OrderlyInv, EchoInv
  <2>. QED
    BY <2>1, <2>2
<1>4. CASE HeardAgain
  BY <1>1, <1>4, HeardAgainWorker, HeardAgainResume, HeardAgainRest DEF EchoInv
<1>. QED
  BY <1>2, <1>3, <1>4 DEF EchoInv

\* Where no worker is at a step, a waiting run leaves its wait by a checked resume alone.
LEMMA LeavesByAResume ==
  ASSUME [Next]_vars, status = "WAITING_HUMAN", status' # "WAITING_HUMAN", pos \notin Node
  PROVE  ResumeGo
<1>1. HumanNode \subseteq Node
  BY DefinitionTypes
<1>2. ~Step /\ ~PostTask /\ ~PostRefused /\ ~Pause
  BY <1>1 DEF Step, PostTask, PostRefused, Pause
<1>3. ~Begin
  BY DEF Begin, Write, runVars, Terminal
<1>4. /\ Crash \/ Restart \/ GracePasses \/ ResumeCheck \/ Sweep \/ TaskCrash \/ UNCHANGED vars => status' = status
      /\ OpenForm \/ CloseForm \/ Callback \/ GoesOverdue \/ SelectOverdue \/ MarkOverdue \/ NotifyOverdue
           => status' = status
  BY DEF Crash, Restart, GracePasses, ResumeCheck, Sweep, OpenForm, CloseForm, Callback, GoesOverdue,
         SelectOverdue, MarkOverdue, NotifyOverdue, TaskCrash, InboxStep, ServiceStep, vars, runVars
<1>. QED
  BY <1>2, <1>3, <1>4 DEF Next

\* The resume that takes a run out of its wait is about the newest task, which is the one
\* the run waits for, and carries the answer that was recorded.
LEMMA LeavesByItsTask ==
  ASSUME NEW rank, Orderly, Forward(rank), EchoInv(rank), ~EarlierEcho, [Next]_vars,
         status = "WAITING_HUMAN", status' # "WAITING_HUMAN"
  PROVE  /\ Newest \in TaskIds /\ tasks[Newest].status = "COMPLETED"
         /\ tasks[Newest].node = current /\ tasks[Newest].visit = visit
         /\ status' = "RUNNING" => current' = Route(current, tasks[Newest].answer)
<1>0. OrderlyInv(rank)
  BY DEF EchoInv, HeardAgain
<1>1. OneToken /\ AboutTheNewest /\ AtNewest /\ starts = 0 /\ pos = NoNode
  BY <1>0 DEF OrderlyInv, OneToken
<1>2. ResumeGo
  BY <1>1, DefinitionTypes, LeavesByAResume
<1>3. PICK s \in resumes : Write("FAILED", current) \/ Write("RUNNING", Route(tasks[s.task].node, s.answer))
  BY <1>2 DEF ResumeGo
<1>4. s.task = Newest /\ tasks[Newest].status = "COMPLETED" /\ tasks[Newest].answer = s.answer
  BY <1>1, <1>3 DEF AboutTheNewest
<1>5. Newest \in TaskIds /\ tasks[Newest].node = current /\ tasks[Newest].visit = visit
  BY <1>0, <1>1, OrderlyFacts DEF AtNewest
<1>6. status' = "RUNNING" => current' = Route(current, tasks[Newest].answer)
  BY <1>3, <1>4, <1>5 DEF Write
<1>. QED
  BY <1>4, <1>5, <1>6

LEMMA EchoInit == ASSUME NEW rank PROVE Init => EchoInv(rank)
BY OrderlyInit DEF EchoInv, OrderlyInv

\* In a graph without loops and while the engine does not fail, a waiting run goes on only
\* when the task of this very visit was completed (PausedUntilItsTaskIsCompleted), whatever
\* the task service loses and however often the answer to this sign-off is heard; what the
\* property excepts is an answer to an earlier one that is heard again. No part of the
\* hypotheses can go: the engine looks at the run's status and not at which task it waits
\* for, so a loop, a sweep during a callback, a crash or a second answer each let an old
\* task resume a later wait (TLC finds each).
THEOREM GoesOnWithItsTask ==
  ASSUME NEW CONSTANT rank, Orderly, Forward(rank)
  PROVE  Spec => PausedUntilItsTaskIsCompleted
<1>1. Init => EchoInv(rank)
  BY EchoInit
<1>2. EchoInv(rank) /\ [Next]_vars => EchoInv(rank)'
  BY OrderlyStep
<1>3. EchoInv(rank) /\ [Next]_vars =>
        [status = "WAITING_HUMAN" /\ status' # "WAITING_HUMAN" =>
           \/ EarlierEcho
           \/ \E t \in TaskIds : /\ tasks[t].status = "COMPLETED"
                                 /\ tasks[t].node = current /\ tasks[t].visit = visit]_status
  BY LeavesByItsTask
<1>. QED
  BY <1>1, <1>2, <1>3, PTL DEF Spec, PausedUntilItsTaskIsCompleted

\* There, it goes on where the recorded answer of that task says (FollowsTheRecordedAnswer).
THEOREM FollowsItsAnswer ==
  ASSUME NEW CONSTANT rank, Orderly, Forward(rank)
  PROVE  Spec => FollowsTheRecordedAnswer
<1>1. Init => EchoInv(rank)
  BY EchoInit
<1>2. EchoInv(rank) /\ [Next]_vars => EchoInv(rank)'
  BY OrderlyStep
<1>3. EchoInv(rank) /\ [Next]_vars =>
        [status = "WAITING_HUMAN" /\ status' = "RUNNING" =>
           \/ EarlierEcho
           \/ \E t \in TaskIds : /\ tasks[t].status = "COMPLETED" /\ tasks[t].visit = visit
                                 /\ LET n == NextMap[current][tasks[t].answer]
                                    IN current' = IF n # NoNode THEN n ELSE Follow[current]]_status
  BY LeavesByItsTask DEF Route
<1>. QED
  BY <1>1, <1>2, <1>3, PTL DEF Spec, FollowsTheRecordedAnswer
-----------------------------------------------------------------------------
(* One sign-off. *)

LEMMA SignOffFacts ==
  ASSUME NEW After, OneSignOff(After), SignOffInv(After)
  PROVE  /\ TypeInv /\ BeforeAndAfter(After) /\ WaitsWithATask
         /\ starts \in Nat /\ pos \in NextId /\ current \in NextId /\ resumes \subseteq Resume
         /\ status \in {"PENDING", "RUNNING", "WAITING_HUMAN"} \cup Terminal
         /\ HumanNode \subseteq Node /\ NoNode \notin Node /\ Start \in Node
         /\ Answered # 0 /\ After \subseteq Node \ HumanNode
         /\ pos \in After \cup {NoNode} => posts = 0
<1>1. TypeInv /\ BeforeAndAfter(After) /\ WaitsWithATask
  BY DEF SignOffInv
<1>2. /\ starts \in Nat /\ pos \in NextId /\ current \in NextId /\ resumes \subseteq Resume
      /\ status \in {"PENDING", "RUNNING", "WAITING_HUMAN"} \cup Terminal
  BY <1>1 DEF TypeInv, TypeOK
<1>3. After \subseteq Node \ HumanNode
  BY DEF OneSignOff
<1>. QED
  BY <1>1, <1>2, <1>3, DefinitionTypes DEF BeforeAndAfter

\* What happens around the run does not move it, and a new goroutine is checked only
\* where the run waits.
LEMMA SignOffStays ==
  ASSUME NEW After, OneSignOff(After), SignOffInv(After),
         UNCHANGED <<status, current, starts, pos, posts, up, visit>>, Len(tasks') = Len(tasks),
         \A t \in TaskIds : tasks'[t].node = tasks[t].node /\ tasks'[t].visit = tasks[t].visit,
         \A s \in resumes' : s \in resumes \/ (up /\ (s.checked => status = "WAITING_HUMAN"))
  PROVE  BeforeAndAfter(After)' /\ WaitsWithATask'
<1>1. BeforeAndAfter(After) /\ WaitsWithATask
  BY SignOffFacts
<1>2. TaskIds' = TaskIds
  BY DEF TaskIds
<1>3. HasItsTask' = HasItsTask
  BY <1>2 DEF HasItsTask
<1>4. WaitsWithATask'
  BY <1>1, <1>2 DEF WaitsWithATask
<1>. QED
  BY <1>1, <1>3, <1>4 DEF BeforeAndAfter

LEMMA SignOffInit == ASSUME NEW After, OneSignOff(After) PROVE Init => SignOffInv(After)
<1>. SUFFICES ASSUME Init PROVE BeforeAndAfter(After) /\ WaitsWithATask
  BY TypeInit DEF SignOffInv
<1>1. up
  BY Zenon DEF Init
<1>2. status = "PENDING" /\ current = NoNode /\ starts = 1 /\ pos = NoNode /\ posts = 0 /\ resumes = {}
  BY DEF Init
<1>3. NoNode \notin After
  BY DefinitionTypes DEF OneSignOff
<1>. QED
  BY <1>1, <1>2, <1>3, DefinitionTypes DEF BeforeAndAfter, WaitsWithATask, Terminal

LEMMA SignOffWorker ==
  ASSUME NEW After, OneSignOff(After), SignOffInv(After), Begin \/ Step
  PROVE  BeforeAndAfter(After)' /\ WaitsWithATask'
<1>1. BeforeAndAfter(After)
  BY SignOffFacts
<1>2. up /\ posts = 0 /\ UNCHANGED <<up, posts, resumes>>
  BY <1>1, SignOffFacts DEF Begin, Step, EngineStep, BeforeAndAfter
<1>3. status # "WAITING_HUMAN"
  BY <1>1, SignOffFacts DEF Begin, Step, BeforeAndAfter
<1>4. CASE Begin /\ status \in Terminal
  <2>1. UNCHANGED <<status, current, pos>> /\ starts' = starts - 1
    BY <1>4 DEF Begin, runVars
  <2>2. current \in After
    BY <1>1, <1>4, SignOffFacts DEF Begin, BeforeAndAfter
  <2>. QED
    BY <1>1, <1>2, <1>3, <2>1, <2>2, SignOffFacts DEF BeforeAndAfter, WaitsWithATask
<1>5. CASE Begin /\ status \notin Terminal
  <2>1. pos = NoNode /\ starts > 0 /\ starts' = starts - 1 /\ current' = current /\ status' = "RUNNING"
        /\ pos' = IF current = NoNode THEN Start ELSE current
    BY <1>3, <1>5, SignOffFacts DEF Begin, Write
  <2>2. CASE current \in After
    BY <1>2, <2>1, <2>2, SignOffFacts DEF BeforeAndAfter, WaitsWithATask
  <2>3. CASE current \notin After
    <3>1. starts' = 0
      BY <1>1, <2>1, <2>3, SignOffFacts DEF BeforeAndAfter
    <3>2. \A s \in resumes : ~s.checked
      BY <1>1, <1>3, <1>5, <2>3 DEF BeforeAndAfter, Terminal
    <3>. QED
      BY <1>2, <2>1, <2>3, <3>1, <3>2, SignOffFacts DEF BeforeAndAfter, WaitsWithATask, Terminal
  <2>. QED
    BY <2>2, <2>3
<1>6. CASE Step
  <2>1. /\ pos \in Node \ HumanNode /\ pos # NoNode /\ pos' = Follow[pos] /\ starts' = starts
        /\ status' = IF Follow[pos] = NoNode THEN "COMPLETED" ELSE status
        /\ current' = IF Follow[pos] = NoNode THEN pos ELSE Follow[pos]
    BY <1>6, SignOffFacts DEF Step, Write
  <2>2. pos \in After => Follow[pos] \in After \cup {NoNode}
    BY DEF OneSignOff
  <2>3. status' # "WAITING_HUMAN"
    BY <1>3, <2>1
  <2>4. CASE current \in After
    <3>1. pos \in After
      BY <1>1, <2>1, <2>4 DEF BeforeAndAfter
    <3>2. current' \in After /\ pos' \in After \cup {NoNode}
      BY <2>1, <2>2, <3>1
    <3>. QED
      BY <1>2, <2>3, <3>2, SignOffFacts DEF BeforeAndAfter, WaitsWithATask
  <2>5. CASE current \notin After
    <3>1. starts = 0 /\ status \notin Terminal \cup {"WAITING_HUMAN"} /\ \A s \in resumes : ~s.checked
      BY <1>1, <2>1, <2>5 DEF BeforeAndAfter, Terminal
    <3>2. status' \in Terminal => pos' = NoNode
      BY <2>1, <3>1
    <3>3. current' \in After => pos' \in After \cup {NoNode}
      BY <2>1
    <3>. QED
      BY <1>2, <2>1, <2>3, <3>1, <3>2, <3>3, SignOffFacts DEF BeforeAndAfter, WaitsWithATask
  <2>. QED
    BY <2>4, <2>5
<1>. QED
  BY <1>4, <1>5, <1>6

LEMMA SignOffPause ==
  ASSUME NEW After, OneSignOff(After), SignOffInv(After), PostTask \/ PostRefused \/ Pause
  PROVE  BeforeAndAfter(After)' /\ WaitsWithATask'
<1>1. BeforeAndAfter(After)
  BY SignOffFacts
<1>2. pos \in HumanNode /\ pos # NoNode /\ pos \notin After
  BY SignOffFacts DEF PostTask, PostRefused, Pause
<1>3. /\ up /\ current \notin After /\ starts = 0 /\ status \notin Terminal \cup {"WAITING_HUMAN"}
      /\ \A s \in resumes : ~s.checked
  BY <1>1, <1>2, SignOffFacts DEF BeforeAndAfter, Terminal
<1>4. CASE PostTask
  <2>1. UNCHANGED <<status, starts, pos, resumes, up, visit>> /\ current' = pos
    BY <1>4 DEF PostTask
  <2>2. posts' = Answered => HasItsTask'
    <3>1. SUFFICES ASSUME posts' = Answered PROVE HasItsTask'
      OBVIOUS
    <3>2. TaskIds' = TaskIds \cup {Len(tasks')} /\ tasks'[Len(tasks')] = NewTask(pos)
      BY <1>4, <3>1, SignOffFacts, RowPosted
    <3>. QED
      BY <2>1, <3>2 DEF HasItsTask, NewTask
  <2>. QED
    BY <1>2, <1>3, <2>1, <2>2 DEF BeforeAndAfter, WaitsWithATask
<1>5. CASE Pause
  <2>1. UNCHANGED <<starts, resumes, up, visit, tasks>> /\ current' = current /\ pos' = NoNode /\ posts' = 0
        /\ status' = IF posts = Answered THEN "WAITING_HUMAN" ELSE "FAILED"
    BY <1>5 DEF Pause, Write, AfterPost, EngineStep, taskVars, histVars
  <2>2. posts = Answered => HasItsTask
    BY <1>1 DEF BeforeAndAfter
  <2>3. TaskIds' = TaskIds
    BY <2>1 DEF TaskIds
  <2>4. WaitsWithATask'
    BY <2>1, <2>2, <2>3 DEF WaitsWithATask, HasItsTask
  <2>5. BeforeAndAfter(After)'
    BY <1>3, <2>1, SignOffFacts DEF BeforeAndAfter
  <2>. QED
    BY <2>4, <2>5
<1>6. CASE PostRefused
  <2>1. UNCHANGED <<status, starts, pos, resumes, up, visit>> /\ current' = pos /\ posts' = PostAttempts
    BY <1>6 DEF PostRefused, EngineStep, histVars
  <2>2. posts' # Answered
    BY <2>1, DefinitionTypes DEF Answered
  <2>. QED
    BY <1>2, <1>3, <2>1, <2>2 DEF BeforeAndAfter, WaitsWithATask
<1>. QED
  BY <1>4, <1>5, <1>6

LEMMA SignOffCrashes ==
  ASSUME NEW After, OneSignOff(After), SignOffInv(After), Crash \/ Restart
  PROVE  BeforeAndAfter(After)' /\ WaitsWithATask'
<1>1. BeforeAndAfter(After) /\ WaitsWithATask
  BY SignOffFacts
<1>2. UNCHANGED <<status, current, tasks, visit>> /\ TaskIds' = TaskIds
  BY DEF Crash, Restart, runVars, taskVars, histVars, TaskIds
<1>3. WaitsWithATask'
  BY <1>1, <1>2 DEF WaitsWithATask
<1>4. CASE Crash
  <2>1. starts' = 0 /\ pos' = NoNode /\ posts' = 0 /\ resumes' = {}
    BY <1>4 DEF Crash
  <2>. QED
    BY <1>1, <1>2, <1>3, <2>1, SignOffFacts DEF BeforeAndAfter
<1>5. CASE Restart
  <2>1. up'
    BY <1>5, Zenon DEF Restart
  <2>2. pos = NoNode /\ posts = 0 /\ resumes = {} /\ UNCHANGED <<pos, posts, resumes>>
        /\ starts' = IF status \in {"PENDING", "RUNNING"} THEN 1 ELSE 0
    BY <1>1, <1>5 DEF Restart, BeforeAndAfter
  <2>. QED
    BY <1>1, <1>2, <1>3, <2>1, <2>2, SignOffFacts DEF BeforeAndAfter, Terminal
<1>. QED
  BY <1>4, <1>5

LEMMA SignOffResume ==
  ASSUME NEW After, OneSignOff(After), SignOffInv(After), ResumeGo
  PROVE  BeforeAndAfter(After)' /\ WaitsWithATask'
<1>1. BeforeAndAfter(After)
  BY SignOffFacts
<1>2. PICK s \in resumes :
        LET n == Route(tasks[s.task].node, s.answer)
        IN /\ s.checked /\ resumes' = resumes \ {s}
           /\ \/ Write("FAILED", current) /\ UNCHANGED <<starts, visit>>
              \/ n # NoNode /\ Write("RUNNING", n) /\ starts' = starts + 1
  BY DEF ResumeGo
<1>3. PICK n : n = Route(tasks[s.task].node, s.answer)
  OBVIOUS
<1>4. n \in After \cup {NoNode}
  <2>1. s.task \in TaskIds /\ s.answer \in Decision
    BY SignOffFacts DEF TypeInv, Resume
  <2>2. tasks[s.task].node \in HumanNode
    BY <2>1, SignOffFacts, RowTypes
  <2>. QED
    BY <1>3, <2>1, <2>2 DEF OneSignOff
<1>5. UNCHANGED <<pos, posts, up>>
  BY DEF ResumeGo, EngineStep
<1>6. up /\ pos \in After \cup {NoNode} /\ posts = 0
      /\ (current \notin After => pos = NoNode /\ starts = 0)
  BY <1>1, <1>2, SignOffFacts DEF BeforeAndAfter, Terminal
<1>7. CASE Write("FAILED", current) /\ UNCHANGED <<starts, visit>>
  <2>1. status' = "FAILED" /\ current' = current /\ starts' = starts
    BY <1>7 DEF Write
  <2>. QED
    BY <1>5, <1>6, <2>1, SignOffFacts DEF BeforeAndAfter, WaitsWithATask
<1>8. CASE n # NoNode /\ Write("RUNNING", n) /\ starts' = starts + 1
  <2>1. status' = "RUNNING" /\ current' = n /\ n \in After
    BY <1>4, <1>8 DEF Write
  <2>. QED
    BY <1>5, <1>6, <2>1, SignOffFacts DEF BeforeAndAfter, WaitsWithATask
<1>. QED
  BY <1>2, <1>3, <1>7, <1>8

\* Who created a row, and when, stays as it is.
LEMMA RowsStay ==
  ASSUME TypeInv,
         \/ ResumeCheck \/ Sweep \/ GracePasses
         \/ OpenForm \/ CloseForm \/ Callback \/ GoesOverdue \/ SelectOverdue \/ MarkOverdue \/ NotifyOverdue
         \/ TaskCrash \/ UNCHANGED vars
  PROVE  /\ Len(tasks') = Len(tasks)
         /\ \A u \in TaskIds : tasks'[u].node = tasks[u].node /\ tasks'[u].visit = tasks[u].visit
<1>1. CASE GoesOverdue
  BY <1>1, RowMarked DEF GoesOverdue
<1>2. CASE MarkOverdue
  <2>1. PICK t \in due : tasks' = [tasks EXCEPT ![t].noticed = TRUE]
    BY <1>2 DEF MarkOverdue
  <2>2. t \in TaskIds
    BY <2>1 DEF TypeInv, TypeOK
  <2>. QED
    BY <2>1, <2>2, RowMarked
<1>3. CASE CloseForm
  BY <1>3, RowCompleted DEF CloseForm
<1>4. CASE UNCHANGED tasks
  BY <1>4
<1>. QED
  BY <1>1, <1>2, <1>3, <1>4 DEF ResumeCheck, Sweep, GracePasses, OpenForm, Callback, SelectOverdue, NotifyOverdue,
                                TaskCrash, EngineStep, vars, taskVars

LEMMA SignOffRest ==
  ASSUME NEW After, OneSignOff(After), SignOffInv(After),
         \/ ResumeCheck \/ Sweep \/ GracePasses
         \/ OpenForm \/ CloseForm \/ Callback \/ GoesOverdue \/ SelectOverdue \/ MarkOverdue \/ NotifyOverdue
         \/ TaskCrash \/ UNCHANGED vars
  PROVE  BeforeAndAfter(After)' /\ WaitsWithATask'
<1>1. TypeInv /\ BeforeAndAfter(After)
  BY SignOffFacts
<1>2. UNCHANGED <<status, current, starts, pos, posts, up, visit>>
  BY DEF ResumeCheck, Sweep, GracePasses, OpenForm, CloseForm, Callback, GoesOverdue, SelectOverdue, MarkOverdue,
         NotifyOverdue, TaskCrash, EngineStep, InboxStep, ServiceStep, vars, runVars, engineVars, histVars
<1>3. /\ Len(tasks') = Len(tasks)
      /\ \A u \in TaskIds : tasks'[u].node = tasks[u].node /\ tasks'[u].visit = tasks[u].visit
  BY <1>1, RowsStay
<1>4. \A s \in resumes' : s \in resumes \/ (up /\ (s.checked => status = "WAITING_HUMAN"))
  <2>1. CASE ResumeCheck
    <3>1. PICK s \in resumes :
            resumes' = (resumes \ {s}) \cup (IF Resumable THEN {[s EXCEPT !.checked = TRUE]} ELSE {})
      BY <2>1 DEF ResumeCheck
    <3>2. up
      BY <1>1, <3>1 DEF BeforeAndAfter
    <3>. QED
      BY <3>1, <3>2 DEF Resumable
  <2>2. CASE Sweep
    BY <2>2 DEF Sweep, Stuck
  <2>3. CASE Callback
    <3>1. \/ UNCHANGED resumes
          \/ up /\ \E c \in calls : resumes' = resumes \cup
               {[task |-> c.task, answer |-> c.answer, by |-> c.left, checked |-> FALSE]}
      BY <2>3 DEF Callback
    <3>. QED
      BY <3>1
  <2>4. CASE UNCHANGED resumes
    BY <2>4
  <2>. QED
    BY <2>1, <2>2, <2>3, <2>4 DEF GracePasses, OpenForm, CloseForm, GoesOverdue, SelectOverdue, MarkOverdue,
                                  NotifyOverdue, TaskCrash, InboxStep, vars, engineVars
<1>. QED
  BY <1>2, <1>3, <1>4, SignOffStays

LEMMA SignOffStep ==
  ASSUME NEW After, OneSignOff(After)
  PROVE  SignOffInv(After) /\ [Next]_vars => SignOffInv(After)'
<1>. SUFFICES ASSUME SignOffInv(After), [Next]_vars PROVE SignOffInv(After)'
  OBVIOUS
<1>1. TypeInv'
  BY TypeStep DEF SignOffInv
<1>2. BeforeAndAfter(After)' /\ WaitsWithATask'
  BY SignOffWorker, SignOffPause, SignOffCrashes, SignOffResume, SignOffRest DEF Next
<1>. QED
  BY <1>1, <1>2 DEF SignOffInv

\* Where no way from a human step leads to another, a waiting run has a task in the inbox
\* for the visit it waits in, whatever fails: engine and task service crashes, lost and
\* repeated POSTs, racing answers, sweeps at the worst moment (WaitsWithATask). With a
\* second sign-off behind the first, a late resume starts a second worker there and its
\* status outlives the move to another step (TLC finds it).
THEOREM WaitsWithATaskAtOneSignOff ==
  ASSUME NEW CONSTANT After, OneSignOff(After)
  PROVE  Spec => []WaitsWithATask
<1>1. Init => SignOffInv(After)
  BY SignOffInit
<1>2. SignOffInv(After) /\ [Next]_vars => SignOffInv(After)'
  BY SignOffStep
<1>3. SignOffInv(After) => WaitsWithATask
  BY DEF SignOffInv
<1>. QED
  BY <1>1, <1>2, <1>3, PTL DEF Spec

\* Callbacks and resumes are made of recorded answers, and recorded answers stay.
LEMMA RecordedStep ==
  ASSUME NoRacing, OnceInv, Recorded, [Next]_vars
  PROVE  Recorded'
<1>1. /\ TypeInv /\ \A x \in calls \cup resumes : x.task \in TaskIds
      /\ calls \subseteq [task : TaskIds, answer : Decision, left : Nat] /\ resumes \subseteq Resume
  BY DEF OnceInv, TypeInv, TypeOK
<1>2. \A x \in calls \cup resumes : tasks'[x.task].status = "COMPLETED" /\ tasks'[x.task].answer = x.answer
  BY <1>1, AnswersKept DEF Recorded
<1>3. ASSUME \A x \in calls' \cup resumes' : \E y \in calls \cup resumes : x.task = y.task /\ x.answer = y.answer
      PROVE  Recorded'
  BY <1>2, <1>3 DEF Recorded
<1>4. CASE calls' \subseteq calls /\ resumes' \subseteq resumes
  BY <1>3, <1>4
<1>5. CASE CloseForm
  <2>1. PICK f \in forms :
          /\ tasks' = [tasks EXCEPT ![f.task].status = "COMPLETED", ![f.task].answer = f.answer]
          /\ calls' = calls \cup {[task |-> f.task, answer |-> f.answer, left |-> Attempts]}
    BY <1>5 DEF CloseForm
  <2>2. tasks'[f.task].status = "COMPLETED" /\ tasks'[f.task].answer = f.answer
    BY <1>1, <2>1, RowCompleted
  <2>3. resumes' = resumes
    BY <1>5 DEF CloseForm, InboxStep
  <2>4. PICK c : c = [task |-> f.task, answer |-> f.answer, left |-> Attempts]
    OBVIOUS
  <2>5. c.task = f.task /\ c.answer = f.answer /\ calls' = calls \cup {c}
    BY <2>1, <2>4
  <2>. QED
    BY <1>2, <2>2, <2>3, <2>5 DEF Recorded
<1>6. CASE Callback
  <2>1. PICK c \in calls :
          /\ calls' = calls \ {c} \/ calls' = LeftAfter(c)
          /\ \/ UNCHANGED resumes
             \/ resumes' = resumes \cup
                  {[task |-> c.task, answer |-> c.answer, by |-> c.left, checked |-> FALSE]}
    BY <1>6 DEF Callback
  <2>2. PICK d : d = [c EXCEPT !.left = @ - 1]
    OBVIOUS
  <2>3. PICK m : m = [task |-> c.task, answer |-> c.answer, by |-> c.left, checked |-> FALSE]
    OBVIOUS
  <2>4. d.task = c.task /\ d.answer = c.answer
    BY <1>1, <2>1, <2>2
  <2>5. m.task = c.task /\ m.answer = c.answer
    BY <2>3
  <2>6. calls' \subseteq calls \cup {d} /\ resumes' \subseteq resumes \cup {m}
    BY <2>1, <2>2, <2>3 DEF LeftAfter
  <2>. QED
    BY <1>3, <2>1, <2>4, <2>5, <2>6
<1>7. CASE ResumeCheck
  <2>1. PICK s \in resumes : resumes' \subseteq resumes \cup {[s EXCEPT !.checked = TRUE]}
    BY <1>7 DEF ResumeCheck
  <2>2. PICK m : m = [s EXCEPT !.checked = TRUE]
    OBVIOUS
  <2>3. m.task = s.task /\ m.answer = s.answer
    BY <1>1, <2>1, <2>2, CheckedResume
  <2>4. calls' = calls
    BY <1>7 DEF ResumeCheck, EngineStep, taskVars
  <2>. QED
    BY <1>3, <2>1, <2>2, <2>3, <2>4
<1>8. CASE Sweep
  <2>1. PICK t \in TaskIds : /\ tasks[t].status = "COMPLETED"
                             /\ resumes' = resumes \cup
                                  {[task |-> t, answer |-> tasks[t].answer, by |-> 0, checked |-> FALSE]}
    BY <1>8 DEF Sweep, Matches
  <2>2. PICK m : m = [task |-> t, answer |-> tasks[t].answer, by |-> 0, checked |-> FALSE]
    OBVIOUS
  <2>3. m.task = t /\ m.answer = tasks[t].answer /\ resumes' = resumes \cup {m}
    BY <2>1, <2>2
  <2>4. UNCHANGED <<tasks, calls>>
    BY <1>8 DEF Sweep, EngineStep, taskVars
  <2>. QED
    BY <1>2, <2>1, <2>3, <2>4 DEF Recorded
<1>9. (calls' \subseteq calls /\ resumes' \subseteq resumes) \/ CloseForm \/ Callback \/ ResumeCheck \/ Sweep
  BY DEF Next, Begin, Step, PostTask, PostRefused, Pause, Crash, Restart, ResumeGo, GracePasses, OpenForm,
         GoesOverdue, SelectOverdue, MarkOverdue, NotifyOverdue, TaskCrash, EngineStep, InboxStep, vars,
         engineVars, taskVars
<1>. QED
  BY <1>4, <1>5, <1>6, <1>7, <1>8, <1>9

LEMMA OneVisitStep ==
  ASSUME NEW After, OneSignOff(After), AnsweredInv(After), [Next]_vars
  PROVE  OneVisit(After)'
<1>1. SignOffInv(After) /\ OnceInv /\ OneVisit(After) /\ BeforeAndAfter(After)
  BY DEF AnsweredInv, SignOffInv
<1>2. \A t \in TaskIds : tasks[t].node \in HumanNode
  BY <1>1, RowTypes DEF OnceInv
<1>3. HumanNode \subseteq Node /\ NoNode \notin Node /\ After \subseteq Node \ HumanNode
  BY <1>1, SignOffFacts
<1>4. ASSUME UNCHANGED <<current, visit>>, pos' \in {pos, NoNode}, TaskIds' = TaskIds,
             \A t \in TaskIds : tasks'[t].node = tasks[t].node /\ tasks'[t].visit = tasks[t].visit
      PROVE  OneVisit(After)'
  BY <1>1, <1>4 DEF OneVisit
<1>5. CASE Begin
  <2>1. UNCHANGED tasks /\ TaskIds' = TaskIds /\ current' = current
    BY <1>5 DEF Begin, EngineStep, taskVars, TaskIds, Write, runVars
  <2>2. SUFFICES ASSUME current \notin After, NEW t \in TaskIds
                 PROVE  tasks[t].node = current /\ tasks[t].visit = visit' /\ pos' \in {NoNode, current}
    BY <2>1 DEF OneVisit
  <2>3. tasks[t].node = current /\ tasks[t].visit = visit /\ pos \in {NoNode, current} /\ current # NoNode
    BY <1>1, <1>2, <1>3, <2>2 DEF OneVisit
  <2>. QED
    BY <1>5, <2>3 DEF Begin
<1>6. CASE Step
  <2>1. UNCHANGED tasks /\ TaskIds' = TaskIds /\ pos \in Node \ HumanNode
    BY <1>6 DEF Step, EngineStep, taskVars, TaskIds
  <2>2. SUFFICES ASSUME current' \notin After, NEW t \in TaskIds PROVE FALSE
    BY <2>1 DEF OneVisit
  <2>3. current \in After
    <3>1. SUFFICES ASSUME current \notin After PROVE FALSE
      OBVIOUS
    <3>2. tasks[t].node = current /\ pos \in {NoNode, current}
      BY <1>1, <3>1 DEF OneVisit
    <3>. QED
      BY <1>2, <1>3, <2>1, <3>2
  <2>4. pos \in After /\ Follow[pos] \in After \cup {NoNode}
    BY <1>1, <1>3, <2>1, <2>3 DEF BeforeAndAfter, OneSignOff
  <2>. QED
    BY <1>6, <2>2, <2>4 DEF Step, Write
<1>7. CASE PostTask \/ PostRefused
  <2>1. UNCHANGED <<pos, visit>> /\ current' = pos /\ pos \in HumanNode /\ pos # NoNode
    BY <1>3, <1>7 DEF PostTask, PostRefused, histVars
  <2>2. current \notin After
    BY <1>1, <1>3, <2>1 DEF BeforeAndAfter
  <2>3. \A t \in TaskIds : tasks[t].node = pos /\ tasks[t].visit = visit
    BY <1>1, <1>2, <2>1, <2>2 DEF OneVisit
  <2>4. \/ TaskIds' = TaskIds /\ UNCHANGED tasks
        \/ /\ TaskIds' = TaskIds \cup {Len(tasks')} /\ tasks'[Len(tasks')] = NewTask(pos)
           /\ \A u \in TaskIds : tasks'[u] = tasks[u]
    <3>1. CASE PostTask
      BY <1>1, <3>1, RowPosted DEF OnceInv, TaskIds
    <3>2. CASE PostRefused
      BY <3>2 DEF PostRefused, EngineStep, taskVars, TaskIds
    <3>. QED
      BY <1>7, <3>1, <3>2
  <2>. QED
    BY <2>1, <2>3, <2>4 DEF OneVisit, NewTask
<1>8. CASE ResumeGo
  <2>1. PICK s \in resumes :
          LET n == Route(tasks[s.task].node, s.answer)
          IN \/ Write("FAILED", current) /\ UNCHANGED visit
             \/ n # NoNode /\ Write("RUNNING", n)
    BY <1>8 DEF ResumeGo
  <2>2. UNCHANGED <<pos, tasks>> /\ TaskIds' = TaskIds
    BY <1>8 DEF ResumeGo, EngineStep, taskVars, TaskIds
  <2>3. PICK n : n = Route(tasks[s.task].node, s.answer)
    OBVIOUS
  <2>4. s.task \in TaskIds /\ s.answer \in Decision
    BY <1>1, <2>1 DEF OnceInv, TypeInv, TypeOK, Resume
  <2>5. n \in After \cup {NoNode}
    BY <1>2, <2>3, <2>4 DEF OneSignOff
  <2>6. CASE Write("FAILED", current) /\ UNCHANGED visit
    BY <1>4, <2>2, <2>6 DEF Write
  <2>7. CASE n # NoNode /\ Write("RUNNING", n)
    BY <2>5, <2>7 DEF Write, OneVisit
  <2>. QED
    BY <2>1, <2>3, <2>6, <2>7
<1>9. CASE Pause \/ Crash \/ Restart
  <2>1. UNCHANGED <<current, visit, tasks>> /\ pos' \in {pos, NoNode}
    BY <1>9 DEF Pause, Crash, Restart, Write, EngineStep, runVars, taskVars, histVars
  <2>. QED
    BY <1>4, <2>1 DEF TaskIds
<1>10. CASE \/ ResumeCheck \/ Sweep \/ GracePasses \/ OpenForm \/ CloseForm \/ Callback \/ GoesOverdue
            \/ SelectOverdue \/ MarkOverdue \/ NotifyOverdue \/ TaskCrash \/ UNCHANGED vars
  <2>1. UNCHANGED <<current, visit, pos>>
    BY <1>10 DEF ResumeCheck, Sweep, GracePasses, OpenForm, CloseForm, Callback, GoesOverdue, SelectOverdue,
                 MarkOverdue, NotifyOverdue, TaskCrash, EngineStep, InboxStep, ServiceStep, vars, runVars,
                 engineVars, histVars
  <2>2. /\ Len(tasks') = Len(tasks)
        /\ \A u \in TaskIds : tasks'[u].node = tasks[u].node /\ tasks'[u].visit = tasks[u].visit
    BY <1>1, <1>10, RowsStay DEF OnceInv
  <2>. QED
    BY <1>4, <2>1, <2>2 DEF TaskIds
<1>. QED
  BY <1>5, <1>6, <1>7, <1>8, <1>9, <1>10 DEF Next

LEMMA AnsweredInit == ASSUME NEW After, OneSignOff(After) PROVE Init => AnsweredInv(After)
<1>. SUFFICES ASSUME Init PROVE Recorded /\ OneVisit(After)
  BY SignOffInit, OnceInit DEF AnsweredInv
<1>1. TaskIds = {} /\ calls = {} /\ resumes = {}
  BY DEF Init, TaskIds
<1>. QED
  BY <1>1 DEF Recorded, OneVisit

LEMMA AnsweredStep ==
  ASSUME NEW After, OneSignOff(After), NoRacing
  PROVE  AnsweredInv(After) /\ [Next]_vars => AnsweredInv(After)'
BY SignOffStep, OnceStep, RecordedStep, OneVisitStep DEF AnsweredInv

\* Whatever resumes the run carries the recorded answer of a task of the visit it waits in.
LEMMA LeavesByATaskOfItsVisit ==
  ASSUME NEW After, OneSignOff(After), AnsweredInv(After), [Next]_vars,
         status = "WAITING_HUMAN", status' # "WAITING_HUMAN"
  PROVE  \E t \in TaskIds : /\ tasks[t].status = "COMPLETED"
                            /\ tasks[t].node = current /\ tasks[t].visit = visit
                            /\ status' = "RUNNING" => current' = Route(current, tasks[t].answer)
<1>1. SignOffInv(After) /\ BeforeAndAfter(After) /\ OneVisit(After) /\ Recorded /\ TypeInv
  BY DEF AnsweredInv, SignOffInv
<1>2. current \notin After /\ pos = NoNode
  BY <1>1 DEF BeforeAndAfter
<1>3. ResumeGo
  BY <1>2, DefinitionTypes, LeavesByAResume
<1>4. PICK s \in resumes : Write("FAILED", current) \/ Write("RUNNING", Route(tasks[s.task].node, s.answer))
  BY <1>3 DEF ResumeGo
<1>5. s.task \in TaskIds
  BY <1>1, <1>4 DEF TypeInv
<1>6. /\ tasks[s.task].status = "COMPLETED" /\ tasks[s.task].answer = s.answer
      /\ tasks[s.task].node = current /\ tasks[s.task].visit = visit
  BY <1>1, <1>2, <1>4, <1>5 DEF Recorded, OneVisit
<1>7. status' = "RUNNING" => current' = Route(current, tasks[s.task].answer)
  BY <1>4, <1>6 DEF Write
<1>. QED
  BY <1>5, <1>6, <1>7

\* At one sign-off a waiting run goes on only when a task of its visit was completed
\* (PausedUntilItsTaskIsCompleted), with every fault of both services: engine and task
\* service crashes, POSTs and callbacks that are repeated because a reply was lost, sweeps
\* at the worst moment.
THEOREM GoesOnAtOneSignOff ==
  ASSUME NEW CONSTANT After, OneSignOff(After), NoRacing
  PROVE  Spec => PausedUntilItsTaskIsCompleted
<1>1. Init => AnsweredInv(After)
  BY AnsweredInit
<1>2. AnsweredInv(After) /\ [Next]_vars => AnsweredInv(After)'
  BY AnsweredStep
<1>3. AnsweredInv(After) /\ [Next]_vars =>
        [status = "WAITING_HUMAN" /\ status' # "WAITING_HUMAN" =>
           \/ EarlierEcho
           \/ \E t \in TaskIds : /\ tasks[t].status = "COMPLETED"
                                 /\ tasks[t].node = current /\ tasks[t].visit = visit]_status
  BY LeavesByATaskOfItsVisit
<1>. QED
  BY <1>1, <1>2, <1>3, PTL DEF Spec, PausedUntilItsTaskIsCompleted

\* And it goes where the recorded answer of one of them says (FollowsTheRecordedAnswer).
THEOREM FollowsAtOneSignOff ==
  ASSUME NEW CONSTANT After, OneSignOff(After), NoRacing
  PROVE  Spec => FollowsTheRecordedAnswer
<1>1. Init => AnsweredInv(After)
  BY AnsweredInit
<1>2. AnsweredInv(After) /\ [Next]_vars => AnsweredInv(After)'
  BY AnsweredStep
<1>3. AnsweredInv(After) /\ [Next]_vars =>
        [status = "WAITING_HUMAN" /\ status' = "RUNNING" =>
           \/ EarlierEcho
           \/ \E t \in TaskIds : /\ tasks[t].status = "COMPLETED" /\ tasks[t].visit = visit
                                 /\ LET n == NextMap[current][tasks[t].answer]
                                    IN current' = IF n # NoNode THEN n ELSE Follow[current]]_status
  BY LeavesByATaskOfItsVisit DEF Route
<1>. QED
  BY <1>1, <1>2, <1>3, PTL DEF Spec, FollowsTheRecordedAnswer

\* In a graph without loops and while the engine does not fail a waiting run has its task
\* with any number of sign-offs, until an answer to an earlier one is heard again.
THEOREM WaitsWithATaskInOrder ==
  ASSUME NEW CONSTANT rank, Orderly, Forward(rank)
  PROVE  Spec => [](WaitsWithATask \/ EarlierEcho)
<1>1. Init => EchoInv(rank)
  BY EchoInit
<1>2. EchoInv(rank) /\ [Next]_vars => EchoInv(rank)'
  BY OrderlyStep
<1>3. EchoInv(rank) => WaitsWithATask \/ EarlierEcho
  BY OrderlyFacts DEF EchoInv, HeardAgain, OrderlyInv, OneToken, AtNewest, WaitsWithATask
<1>. QED
  BY <1>1, <1>2, <1>3, PTL DEF Spec
=============================================================================
