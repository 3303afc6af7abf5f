------------------------------ MODULE RunRequests ------------------------------
(***************************************************************************)
(* How a delivery becomes a run: POST /api/v1/runs and the webhook, their  *)
(* idempotency keys, the slots that bound execution, the restart scan, and *)
(* the retention job that deletes old runs and keys. One workflow, one     *)
(* engine process; what a run does while it executes is RunEngine's        *)
(* subject and is one step here.                                           *)
(***************************************************************************)
EXTENDS Naturals, Sequences, FiniteSets

CONSTANTS
  Key,            \* idempotency keys
  Slots,          \* MAX_CONCURRENT_RUNS
  Overlap,        \* a delivery may be repeated while the first is being handled
  LateRepeats,    \* a delivery may be repeated after a retention window
  Pauses,         \* runs may wait for longer than the retention window
  MaxDeliveries, MaxCrashes,
  MaxPeriods,     \* retention windows that pass
  RestartLimit,   \* runs of one status that a restart reads
  MaxUnread       \* runs that are stored and cannot be read back

ASSUME RequestsAssumption ==
  /\ Slots \in Nat \ {0} /\ Overlap \in BOOLEAN
  /\ LateRepeats \in BOOLEAN /\ Pauses \in BOOLEAN
  /\ \A b \in {MaxDeliveries, MaxCrashes, MaxPeriods, MaxUnread} : b \in Nat
  /\ RestartLimit \in Nat \ {0}

VARIABLES
  runs,       \* workflow_runs, by order of creation; "GONE" when deleted
  keys,       \* idempotency_keys: [Key -> [run, born]], run 0 when there is no row
  requests,   \* handlers in progress
  queue,      \* runs waiting for a slot
  held,       \* runs that hold a slot
  up,         \* the engine is alive
  pruning,    \* the retention job is between its statements
  now,        \* rows born before now are older than the window
  replies,    \* history: answers that named a run
  left,       \* history: runs that no goroutine was started for
  unread,     \* history: how many of them their own handler gave up
  deliveries, crashes

vars == <<runs, keys, requests, queue, held, up, pruning, now, replies, left, unread, deliveries, crashes>>

Door == {"api", "webhook"}
RunIds == 1 .. Len(runs)
RunRow == [key : Key, status : {"PENDING", "RUNNING", "WAITING", "ENDED", "GONE"}, born : Nat]
\* A request begins as its door's: the two differ in what they do with a key they know.
Request == [id : Nat, key : Key, run : Nat, born : Nat,
            pc : Door \cup {"load", "create", "save", "start"}]

TypeOK ==
  /\ runs \in Seq(RunRow)
  /\ keys \in [Key -> [run : 0 .. Len(runs), born : Nat]]
  /\ requests \subseteq Request /\ \A q \in requests : q.run \in 0 .. Len(runs)
  /\ queue \subseteq RunIds /\ held \subseteq RunIds
  /\ up \in BOOLEAN /\ pruning \in BOOLEAN /\ now \in Nat
  /\ replies \subseteq [key : Key, run : RunIds]
  /\ left \subseteq RunIds /\ unread \in Nat
  /\ deliveries \in Nat /\ crashes \in Nat

NoRow == [run |-> 0, born |-> 0]

Init ==
  /\ runs = <<>> /\ keys = [k \in Key |-> NoRow]
  /\ requests = {} /\ queue = {} /\ held = {}
  /\ up = TRUE /\ pruning = FALSE /\ now = 0
  /\ replies = {} /\ left = {} /\ unread = 0 /\ deliveries = 0 /\ crashes = 0
-----------------------------------------------------------------------------
(* createRun and triggerWebhook. *)

\* What tells the requests of one key apart.
Tag == IF Overlap THEN deliveries ELSE 0

Arrive ==
  /\ up /\ deliveries < MaxDeliveries
  /\ \E k \in Key, d \in Door :
       /\ Overlap \/ \A q \in requests : q.key # k
       /\ LateRepeats \/ \A r \in RunIds : runs[r].key = k => runs[r].born = now
       /\ requests' = requests \cup {[id |-> Tag, key |-> k, run |-> 0,
                                      born |-> now, pc |-> d]}
  /\ deliveries' = deliveries + 1
  /\ UNCHANGED <<runs, keys, queue, held, up, pruning, now, replies, left, unread, crashes>>

Move(q, pc, r) == requests' = (requests \ {q}) \cup {[q EXCEPT !.pc = pc, !.run = r]}
Answer(q, r) ==
  /\ requests' = requests \ {q}
  /\ replies' = replies \cup {[key |-> q.key, run |-> r]}

\* GetIdempotentRun.
KnownNone(k) == 0
Known(k) == keys[k].run

Lookup(q) ==
  /\ q.pc \in Door
  /\ \/ Known(q.key) = 0 /\ Move(q, "create", 0) /\ UNCHANGED replies
     \/ Known(q.key) # 0 /\ q.pc = "api" /\ Move(q, "load", Known(q.key)) /\ UNCHANGED replies
     \/ Known(q.key) # 0 /\ q.pc = "webhook" /\ Answer(q, Known(q.key))
  /\ UNCHANGED <<runs, keys, queue, left, unread>>

\* Only createRun checks that the earlier run is still there.
Load(q) ==
  /\ q.pc = "load"
  /\ \/ runs[q.run].status # "GONE" /\ Answer(q, q.run)
     \/ runs[q.run].status = "GONE" /\ Move(q, "create", 0) /\ UNCHANGED replies
  /\ UNCHANGED <<runs, keys, queue, left, unread>>

NewRun(q) == [key |-> q.key, status |-> "PENDING", born |-> now]

\* CreateRun, or its error, answered with 500: of the INSERT, or of the SELECT that reads
\* the new row back, which leaves a run that nobody starts.
Create(q) ==
  /\ q.pc = "create"
  /\ \/ /\ runs' = Append(runs, NewRun(q)) /\ Move(q, "save", Len(runs) + 1)
        /\ UNCHANGED <<left, unread>>
     \/ runs' = runs /\ requests' = requests \ {q} /\ UNCHANGED <<left, unread>>
     \/ /\ unread < MaxUnread /\ unread' = unread + 1
        /\ runs' = Append(runs, NewRun(q)) /\ requests' = requests \ {q}
        /\ left' = left \cup {Len(runs) + 1}
  /\ UNCHANGED <<keys, queue, replies>>

\* SaveIdempotencyKey: INSERT OR IGNORE.
Save(q) ==
  /\ q.pc = "save"
  /\ keys' = IF keys[q.key].run = 0 THEN [keys EXCEPT ![q.key] = [run |-> q.run, born |-> now]]
             ELSE keys
  /\ Move(q, "start", q.run)
  /\ UNCHANGED <<runs, queue, replies, left, unread>>

\* startRunInBackground and the answer.
Start(q) ==
  /\ q.pc = "start"
  /\ queue' = queue \cup {q.run}
  /\ Answer(q, q.run)
  /\ UNCHANGED <<runs, keys, left, unread>>

Handle ==
  /\ \E q \in requests : Lookup(q) \/ Load(q) \/ Create(q) \/ Save(q) \/ Start(q)
  /\ UNCHANGED <<held, up, pruning, now, deliveries, crashes>>
-----------------------------------------------------------------------------
(* Execution. *)

Unrelated == UNCHANGED <<keys, requests, up, pruning, now, replies, left, unread, deliveries, crashes>>
SetStatus(r, s) == runs' = [runs EXCEPT ![r].status = s]

\* A queued goroutine gets a slot and runs processRun; it leaves a run that has ended.
TakeSlot(r) ==
  /\ r \in queue /\ Cardinality(held) < Slots
  /\ queue' = queue \ {r}
  /\ \/ /\ runs[r].status # "ENDED"
        /\ held' = held \cup {r} /\ SetStatus(r, "RUNNING")
     \/ runs[r].status = "ENDED" /\ UNCHANGED <<held, runs>>
  /\ Unrelated

\* The run ends or pauses, cancelled or not, and gives its slot back.
Leave ==
  /\ \E r \in held, s \in {"ENDED", "WAITING"} :
       /\ s = "WAITING" => Pauses
       /\ held' = held \ {r} /\ SetStatus(r, s)
  /\ UNCHANGED queue /\ Unrelated

\* A person, a timer or the sweep wakes a paused run.
Wake ==
  /\ up
  /\ \E r \in RunIds : /\ runs[r].status = "WAITING"
                       /\ SetStatus(r, "RUNNING") /\ queue' = queue \cup {r}
  /\ UNCHANGED held /\ Unrelated

\* cancelRun.
Cancel ==
  /\ up
  /\ \E r \in RunIds : /\ runs[r].status \in {"PENDING", "RUNNING", "WAITING"}
                       /\ SetStatus(r, "ENDED")
  /\ UNCHANGED <<queue, held>> /\ Unrelated

Crash ==
  /\ up /\ crashes < MaxCrashes
  /\ up' = FALSE /\ requests' = {} /\ queue' = {} /\ held' = {} /\ pruning' = FALSE
  /\ crashes' = crashes + 1
  /\ UNCHANGED <<runs, keys, now, replies, left, unread, deliveries>>

InFlightRunning == {"RUNNING"}
InFlight == {"PENDING", "RUNNING"}

\* ListRuns reads the newest RestartLimit rows of a status; older ones are passed over.
Younger(r) == {y \in RunIds : y > r /\ runs[y].status = runs[r].status}
PassedOver(r) == Cardinality(Younger(r)) >= RestartLimit

\* resumeInFlightRuns.
Restart ==
  /\ ~up /\ up' = TRUE
  /\ queue' = {r \in RunIds : runs[r].status \in InFlight /\ ~PassedOver(r)}
  /\ left' = {r \in RunIds : runs[r].status \in InFlight /\ PassedOver(r)}
  /\ UNCHANGED <<runs, keys, requests, held, pruning, now, replies, unread, deliveries, crashes>>

\* reclaimExpiredRuns takes up a run that was passed over, by its lease, if it was RUNNING.
Reclaim ==
  /\ up
  /\ \E r \in left : /\ runs[r].status = "RUNNING"
                    /\ queue' = queue \cup {r} /\ left' = left \ {r}
  /\ UNCHANGED <<runs, keys, requests, held, up, pruning, now, replies, unread, deliveries, crashes>>
-----------------------------------------------------------------------------
(* Retention. *)

\* The cutoff moves on; it may fall between the two rows of one request.
Period ==
  /\ now < MaxPeriods /\ ~pruning
  /\ now' = now + 1
  /\ UNCHANGED <<runs, keys, requests, queue, held, up, pruning, replies, left, unread, deliveries, crashes>>

\* PruneOldRuns deletes the terminal runs older than the cutoff. A handler or an
\* executing run does not last a whole window; a paused one, or one that was left, may.
PruneRuns ==
  /\ up /\ ~pruning
  /\ \A q \in requests : q.born = now
  /\ \A r \in RunIds : (runs[r].status \in InFlight /\ r \notin left) \/ r \in held \cup queue =>
                        runs[r].born = now
  /\ \E r \in RunIds : runs[r].born < now
  /\ pruning' = TRUE
  /\ runs' = [r \in RunIds |->
                IF runs[r].status = "ENDED" /\ runs[r].born < now
                THEN [runs[r] EXCEPT !.status = "GONE"] ELSE runs[r]]
  /\ UNCHANGED <<keys, requests, queue, held, up, now, replies, left, unread, deliveries, crashes>>

\* Then the keys older than the cutoff, whatever their runs do.
ExpiredEarly(k) == keys[k].born <= now
Expired(k) == keys[k].born < now
PruneKeys ==
  /\ pruning
  /\ pruning' = FALSE
  /\ keys' = [k \in Key |-> IF Expired(k) THEN NoRow ELSE keys[k]]
  /\ UNCHANGED <<runs, requests, queue, held, up, now, replies, left, unread, deliveries, crashes>>

Next ==
  \/ Arrive \/ Handle \/ (\E r \in queue : TakeSlot(r)) \/ Leave \/ Wake \/ Cancel \/ Crash \/ Restart
  \/ Reclaim \/ Period \/ PruneRuns \/ PruneKeys

Spec == Init /\ [][Next]_vars

\* Handlers and executing runs go on and a dead engine is restarted. Goroutines
\* blocked on the slot channel are served in order, hence strong fairness for each.
FairSpec ==
  /\ Spec /\ WF_vars(Handle) /\ WF_vars(Leave) /\ WF_vars(Restart)
  /\ \A r \in 1 .. MaxDeliveries : SF_vars(TakeSlot(r))
-----------------------------------------------------------------------------
(* Properties. *)

\* While a run started for a key exists, no other is started for it (README.md:267,
\* docs/odoo.md:151: "so a retry never raises a second order").
OneRunPerKey ==
  \A i, j \in RunIds :
    i < j /\ runs[i].key = runs[j].key => "GONE" \in {runs[i].status, runs[j].status}

\* Deliveries repeated one after another and within the retention window leave one
\* run for their key, and one more at most for each crash (the key is stored after
\* the run, server.go:805-811) and each run that could not be read back (store.go:319).
CrashesBoundRunsPerKey ==
  \A k \in Key :
    Cardinality({r \in RunIds : runs[r].key = k /\ runs[r].status # "GONE"}) <= 1 + crashes + unread

\* Once a delivery has been answered with a run, every later delivery of its key is
\* answered with that run as long as it exists, whatever crashes come in between.
RepliesAgree ==
  \A a, b \in replies :
    a.key = b.key /\ runs[a.run].status # "GONE" /\ runs[b.run].status # "GONE"
    => a.run = b.run

\* A run that is pending or running is never left to itself: it waits for a slot or holds
\* one, or its request is about to queue it, or the engine is down, and the restart scan
\* finds it (background.go:88); but for the runs its handler could not read back (at most
\* unread of them) and those a restart passed over, which takes more than RestartLimit
\* runs. What RunsAreNotLost rests on.
InFlightIsCarried ==
  /\ up => \A r \in RunIds \ left : runs[r].status \in InFlight =>
             r \in queue \cup held \/ \E q \in requests : q.run = r /\ q.pc \in {"save", "start"}
  /\ left # {} => unread > 0 \/ Len(runs) > RestartLimit

\* A run that was created and answered is executed, also when the engine dies before it has
\* queued it or while it waits for a slot (background.go:88: "rather than being lost"),
\* unless a restart passes it over.
RunsAreNotLost ==
  \A i \in 1 .. MaxDeliveries :
    (i \in RunIds \ left /\ runs[i].status = "PENDING")
    ~> (i \in RunIds /\ (i \in left \/ runs[i].status # "PENDING"))
=============================================================================
