--------------------------- MODULE RunRequests_proofs ---------------------------
(***************************************************************************)
(* Theorems about deliveries, their runs and their keys, for every set of  *)
(* keys and every bound: the types and that an accepted run is carried by  *)
(* somebody, always; and what an idempotency key promises when the sender  *)
(* repeats a delivery after its answer, or after the crash that took the   *)
(* answer, and within the retention window.                                *)
(***************************************************************************)
EXTENDS RunRequests, FiniteSetTheorems, TLAPS

RunsOf(k) == {r \in RunIds : runs[r].key = k}
LiveRuns(k) == {r \in RunIds : runs[r].key = k /\ runs[r].status # "GONE"}
Handling(k) == \E q \in requests : q.key = k

\* A handler that is past the look at its key, or past the creation, has a run.
HandlersNameRuns == \A q \in requests : q.pc \in {"load", "save", "start"} => q.run # 0
TypeInv == TypeOK /\ HandlersNameRuns

\* Nothing is from the future; the retention job has deleted only what was too old,
\* and while it is between its statements every request is younger than the cutoff.
Dated ==
  /\ \A r \in RunIds : runs[r].born <= now /\ (runs[r].status = "GONE" => runs[r].born < now)
  /\ \A q \in requests : q.born <= now /\ (pruning => q.born = now)

\* No slot is waited for or held by a run that was deleted.
SlotsAreForRuns == \A r \in queue \cup held : runs[r].status # "GONE"

\* One request per key, and no run of its key is older than it.
OneHandlerPerKey ==
  /\ \A p, q \in requests : p.key = q.key => p = q
  /\ \A q \in requests, r \in RunIds : runs[r].key = q.key => runs[r].born >= q.born /\ runs[r].status # "GONE"

\* What a key's row and a handler's local variable stand for.
KeysMeanRuns ==
  /\ \A k \in Key : keys[k].run # 0 =>
       runs[keys[k].run].key = k /\ runs[keys[k].run].born <= keys[k].born
  /\ \A q \in requests :
       /\ q.pc \in {"load", "save", "start"} => runs[q.run].key = q.key
       /\ q.pc \in {"load", "start"} => keys[q.key].run = q.run
       /\ q.pc \in {"create", "save"} => keys[q.key].run = 0

\* A key may yet get a run: it has no row, and a request may create one, or may come.
MayCreate(k) ==
  /\ keys[k].run = 0
  /\ \A q \in requests : q.key = k => q.pc # "save"
  /\ Handling(k) \/ \A r \in RunsOf(k) : runs[r].born = now

\* The runs a key has beyond the one its row names were each orphaned by a crash, or
\* could not be read back.
Faults == crashes + unread
OrphansHaveFaults ==
  \A k \in Key : Cardinality(LiveRuns(k)) <= IF MayCreate(k) THEN Faults ELSE 1 + Faults

\* What was answered is in the key's row until the row expires, and then no request
\* may come.
AnswersAreKept ==
  \A a \in replies : \/ keys[a.key].run = a.run
                     \/ /\ keys[a.key].run = 0 /\ ~Handling(a.key)
                        /\ \E r \in RunsOf(a.key) : runs[r].born < now
AnswersAgree == \A a, b \in replies : a.key = b.key => a.run = b.run

RequestsInv ==
  /\ TypeInv /\ Dated /\ SlotsAreForRuns /\ OneHandlerPerKey /\ KeysMeanRuns /\ OrphansHaveFaults
  /\ AnswersAreKept /\ AnswersAgree
-----------------------------------------------------------------------------
(* Types. *)

Statuses == {"PENDING", "RUNNING", "WAITING", "ENDED", "GONE"}

\* A row changes its status and nothing else.
LEMMA StatusSet ==
  ASSUME runs \in Seq(RunRow), NEW i \in RunIds, NEW s \in Statuses, SetStatus(i, s)
  PROVE  /\ runs' \in Seq(RunRow) /\ Len(runs') = Len(runs) /\ runs'[i].status = s
         /\ \A r \in RunIds : runs'[r].key = runs[r].key /\ runs'[r].born = runs[r].born
         /\ \A r \in RunIds \ {i} : runs'[r] = runs[r]
<1>1. Len(runs) \in Nat /\ RunIds = 1 .. Len(runs) /\ \A r \in RunIds : runs[r] \in RunRow
  BY DEF RunIds
<1>2. [runs[i] EXCEPT !.status = s] \in RunRow
  BY <1>1 DEF RunRow, Statuses
<1>3. runs' = [runs EXCEPT ![i] = [runs[i] EXCEPT !.status = s]]
  BY DEF SetStatus
<1>4. runs' \in Seq(RunRow) /\ Len(runs') = Len(runs)
  BY <1>1, <1>2, <1>3
<1>5. runs'[i] = [runs[i] EXCEPT !.status = s] /\ \A r \in RunIds \ {i} : runs'[r] = runs[r]
  BY <1>1, <1>3
<1>6. runs'[i].status = s /\ runs'[i].key = runs[i].key /\ runs'[i].born = runs[i].born
  BY <1>1, <1>5 DEF RunRow
<1>. QED
  BY <1>1, <1>4, <1>5, <1>6

LEMMA HandleTypes ==
  ASSUME TypeInv, Handle
  PROVE  TypeInv'
<1>. USE DEF TypeInv
<1>1. /\ UNCHANGED <<held, up, pruning, now, deliveries, crashes>>
      /\ runs \in Seq(RunRow) /\ Len(runs) \in Nat /\ RunIds = 1 .. Len(runs)
      /\ keys \in [Key -> [run : 0 .. Len(runs), born : Nat]] /\ requests \subseteq Request
      /\ \A q \in requests : q.run \in 0 .. Len(runs)
      /\ now \in Nat
  BY DEF Handle, TypeOK, RunIds
<1>2. PICK q \in requests : Lookup(q) \/ Load(q) \/ Create(q) \/ Save(q) \/ Start(q)
  BY DEF Handle
<1>3. q \in Request /\ q.key \in Key /\ q.run \in 0 .. Len(runs)
  BY <1>1, <1>2 DEF Request
<1>4. ASSUME NEW r \in RunIds, UNCHANGED <<runs, keys, left, unread>>, Answer(q, r), queue' \subseteq RunIds
      PROVE  TypeInv'
  <2>1. requests' \subseteq requests /\ replies' \subseteq [key : Key, run : RunIds]
    BY <1>3, <1>4 DEF Answer, TypeOK
  <2>2. RunIds' = RunIds
    BY <1>4 DEF RunIds
  <2>. QED
    BY <1>1, <1>4, <2>1, <2>2 DEF TypeOK, HandlersNameRuns
<1>5. ASSUME NEW pc \in {"load", "create", "save", "start"}, NEW r \in 0 .. Len(runs), Move(q, pc, r),
             UNCHANGED <<runs, queue, replies, left, unread>>, pc # "create" => r # 0,
             keys' \in [Key -> [run : 0 .. Len(runs), born : Nat]]
      PROVE  TypeInv'
  <2>1. PICK m : m = [q EXCEPT !.pc = pc, !.run = r]
    OBVIOUS
  <2>2. m \in Request /\ m.pc = pc /\ m.run = r
    <3>1. r \in Nat
      BY <1>1
    <3>. QED
      BY <1>3, <2>1, <3>1 DEF Request
  <2>3. requests' = (requests \ {q}) \cup {m}
    BY <1>5, <2>1 DEF Move
  <2>4. RunIds' = RunIds
    BY <1>5 DEF RunIds
  <2>. QED
    BY <1>1, <1>5, <2>2, <2>3, <2>4 DEF TypeOK, HandlersNameRuns
<1>6. CASE Lookup(q)
  <2>1. Known(q.key) \in 0 .. Len(runs)
    BY <1>1, <1>3 DEF Known
  <2>2. Known(q.key) # 0 => Known(q.key) \in RunIds
    BY <1>1, <2>1
  <2>3. queue' \subseteq RunIds /\ UNCHANGED <<runs, keys, queue, left, unread>>
    BY <1>6 DEF Lookup, TypeOK
  <2>. QED
    BY <1>1, <1>4, <1>5, <1>6, <2>1, <2>2, <2>3 DEF Lookup
<1>7. CASE Load(q)
  <2>1. q.run \in RunIds
    BY <1>1, <1>2, <1>3, <1>7 DEF Load, HandlersNameRuns
  <2>2. queue' \subseteq RunIds /\ UNCHANGED <<runs, keys, queue, left, unread>>
    BY <1>7 DEF Load, TypeOK
  <2>. QED
    BY <1>1, <1>4, <1>5, <1>7, <2>1, <2>2 DEF Load
<1>8. CASE Create(q)
  <2>1. CASE UNCHANGED <<runs, keys, queue, replies, left, unread>> /\ requests' = requests \ {q}
    BY <1>1, <2>1 DEF TypeOK, HandlersNameRuns, RunIds
  <2>2. ASSUME runs' = Append(runs, NewRun(q)), UNCHANGED <<keys, queue, replies>>,
               \/ Move(q, "save", Len(runs) + 1) /\ UNCHANGED <<left, unread>>
               \/ /\ requests' = requests \ {q} /\ unread' = unread + 1
                  /\ left' = left \cup {Len(runs) + 1}
        PROVE  TypeInv'
    <3>1. NewRun(q) \in RunRow
      BY <1>1, <1>3 DEF NewRun, RunRow
    <3>2. runs' \in Seq(RunRow) /\ Len(runs') = Len(runs) + 1
      BY <1>1, <2>2, <3>1
    <3>3. PICK m : m = [q EXCEPT !.pc = "save", !.run = Len(runs) + 1]
      OBVIOUS
    <3>4. m \in Request /\ m.pc = "save" /\ m.run = Len(runs) + 1
      <4>1. Len(runs) + 1 \in Nat
        BY <1>1
      <4>. QED
        BY <1>3, <3>3, <4>1 DEF Request
    <3>5. requests' \subseteq (requests \ {q}) \cup {m}
      BY <2>2, <3>3 DEF Move
    <3>6. RunIds \subseteq RunIds' /\ 0 .. Len(runs) \subseteq 0 .. Len(runs')
      BY <1>1, <3>2 DEF RunIds
    <3>7. keys \in [Key -> [run : 0 .. Len(runs'), born : Nat]]
      BY <1>1, <3>6
    <3>8. replies \subseteq [key : Key, run : RunIds']
      BY <3>6 DEF TypeOK
    <3>9. requests' \subseteq Request /\ \A p \in requests' : p.run \in 0 .. Len(runs')
      BY <1>1, <3>2, <3>4, <3>5, <3>6
    <3>10. HandlersNameRuns'
      BY <1>1, <3>4, <3>5 DEF HandlersNameRuns
    <3>11. left' \subseteq RunIds' /\ unread' \in Nat
      <4>1. Len(runs) + 1 \in RunIds'
        BY <1>1, <3>2 DEF RunIds
      <4>. QED
        BY <2>2, <3>6, <4>1 DEF TypeOK
    <3>. QED
      BY <1>1, <2>2, <3>2, <3>6, <3>7, <3>8, <3>9, <3>10, <3>11 DEF TypeOK
  <2>. QED
    BY <1>8, <2>1, <2>2 DEF Create
<1>9. CASE Save(q)
  <2>1. q.run # 0
    BY <1>2, <1>9 DEF Save, HandlersNameRuns
  <2>2. [run |-> q.run, born |-> now] \in [run : 0 .. Len(runs), born : Nat]
    BY <1>1, <1>3
  <2>3. keys' \in [Key -> [run : 0 .. Len(runs), born : Nat]]
    BY <1>1, <1>9, <2>2 DEF Save
  <2>. QED
    BY <1>3, <1>5, <1>9, <2>1, <2>3 DEF Save
<1>10. CASE Start(q)
  <2>1. q.run \in RunIds
    BY <1>1, <1>2, <1>3, <1>10 DEF Start, HandlersNameRuns
  <2>2. queue' \subseteq RunIds
    BY <1>10, <2>1 DEF Start, TypeOK
  <2>. QED
    BY <1>4, <1>10, <2>1, <2>2 DEF Start
<1>. QED
  BY <1>2, <1>6, <1>7, <1>8, <1>9, <1>10

LEMMA TypeStep == TypeInv /\ [Next]_vars => TypeInv'
<1>. SUFFICES ASSUME TypeInv, [Next]_vars PROVE TypeInv'
  OBVIOUS
<1>. USE DEF TypeInv
<1>1. CASE Arrive
  <2>1. PICK k \in Key, d \in Door :
          requests' = requests \cup {[id |-> Tag, key |-> k, run |-> 0,
                                     born |-> now, pc |-> d]}
    BY <1>1 DEF Arrive
  <2>2. [id |-> Tag, key |-> k, run |-> 0, born |-> now, pc |-> d] \in Request
    BY DEF TypeOK, Request, Tag, Door
  <2>3. 0 \in 0 .. Len(runs)
    BY DEF TypeOK
  <2>4. deliveries' \in Nat /\ UNCHANGED <<runs, keys, queue, held, up, pruning, now, replies, left, unread, crashes>>
    BY <1>1 DEF Arrive, TypeOK
  <2>5. HandlersNameRuns'
    BY <2>1 DEF HandlersNameRuns, Door
  <2>. QED
    BY <2>1, <2>2, <2>3, <2>4, <2>5 DEF TypeOK, RunIds
<1>2. ASSUME UNCHANGED <<keys, requests, up, pruning, now, replies, left, unread, deliveries, crashes>>,
             runs' \in Seq(RunRow), Len(runs') = Len(runs), queue' \subseteq RunIds, held' \subseteq RunIds
      PROVE  TypeInv'
  BY <1>2 DEF TypeOK, HandlersNameRuns, RunIds
<1>4. runs \in Seq(RunRow) /\ queue \subseteq RunIds /\ held \subseteq RunIds
  BY DEF TypeOK
<1>3. ASSUME NEW r \in RunIds, NEW s \in Statuses, SetStatus(r, s)
      PROVE  runs' \in Seq(RunRow) /\ Len(runs') = Len(runs)
  BY <1>3, <1>4, StatusSet
<1>5. ASSUME NEW r \in queue, TakeSlot(r) PROVE TypeInv'
  BY <1>2, <1>3, <1>4, <1>5 DEF TakeSlot, Unrelated, Statuses
<1>6. CASE Leave
  BY <1>2, <1>3, <1>4, <1>6 DEF Leave, Unrelated, Statuses
<1>7. CASE Wake
  BY <1>2, <1>3, <1>4, <1>7 DEF Wake, Unrelated, Statuses
<1>8. CASE Cancel
  BY <1>2, <1>3, <1>4, <1>8 DEF Cancel, Unrelated, Statuses
<1>9. CASE Crash
  <2>1. crashes' \in Nat
    BY <1>9 DEF Crash, TypeOK
  <2>2. /\ requests' = {} /\ queue' = {} /\ held' = {} /\ up' = FALSE /\ pruning' = FALSE
        /\ UNCHANGED <<runs, keys, now, replies, left, unread, deliveries>>
    BY <1>9 DEF Crash
  <2>. QED
    BY <2>1, <2>2 DEF TypeOK, HandlersNameRuns, RunIds
<1>10. CASE Restart
  BY <1>10 DEF Restart, TypeOK, HandlersNameRuns, RunIds
<1>11. CASE Period
  BY <1>11 DEF Period, TypeOK, HandlersNameRuns, RunIds
<1>12. CASE PruneRuns
  <2>1. \A r \in RunIds : runs[r] \in RunRow /\ [runs[r] EXCEPT !.status = "GONE"] \in RunRow
    <3>1. \A r \in RunIds : runs[r] \in RunRow
      BY <1>4 DEF RunIds
    <3>. QED
      BY <3>1 DEF RunRow
  <2>2. runs' \in Seq(RunRow) /\ Len(runs') = Len(runs)
    BY <1>4, <1>12, <2>1 DEF PruneRuns, RunIds
  <2>. QED
    BY <1>12, <2>2 DEF PruneRuns, TypeOK, HandlersNameRuns, RunIds
<1>13. CASE PruneKeys
  <2>1. NoRow \in [run : 0 .. Len(runs), born : Nat]
    BY <1>4 DEF NoRow
  <2>2. keys' \in [Key -> [run : 0 .. Len(runs), born : Nat]]
    BY <1>13, <2>1 DEF PruneKeys, TypeOK
  <2>. QED
    BY <1>13, <2>2 DEF PruneKeys, TypeOK, HandlersNameRuns, RunIds
<1>14. CASE UNCHANGED vars
  BY <1>14 DEF vars, TypeOK, HandlersNameRuns, RunIds
<1>15. CASE Reclaim
  BY <1>15 DEF Reclaim, TypeOK, HandlersNameRuns, RunIds
<1>. QED
  BY <1>1, <1>5, <1>6, <1>7, <1>8, <1>9, <1>10, <1>11, <1>12, <1>13, <1>14, <1>15, HandleTypes DEF Next

LEMMA TypeInit == Init => TypeInv
<1>. SUFFICES ASSUME Init PROVE TypeInv
  OBVIOUS
<1>1. runs \in Seq(RunRow) /\ Len(runs) = 0
  BY DEF Init
<1>2. keys \in [Key -> [run : 0 .. Len(runs), born : Nat]]
  BY <1>1 DEF Init, NoRow
<1>. QED
  BY <1>1, <1>2 DEF Init, TypeInv, TypeOK, HandlersNameRuns

\* Every variable keeps its type, and a handler that answers with a run has one.
THEOREM TypesCorrect == Spec => []TypeOK
BY TypeInit, TypeStep, PTL DEF Spec, TypeInv
-----------------------------------------------------------------------------
(* Deliveries repeated in order and in time. *)

\* The sender repeats a delivery only after its answer (or its loss), and within the
\* retention window.
Orderly == Overlap = FALSE /\ LateRepeats = FALSE

LEMMA LiveRunsCount ==
  ASSUME TypeOK, NEW k
  PROVE  IsFiniteSet(LiveRuns(k)) /\ Cardinality(LiveRuns(k)) \in Nat
<1>1. IsFiniteSet(1 .. Len(runs)) /\ LiveRuns(k) \subseteq 1 .. Len(runs)
  BY FS_Interval DEF TypeOK, LiveRuns, RunIds
<1>. QED
  BY <1>1, FS_Subset, FS_CardinalityType

\* What every step that creates no run leaves of the counts.
LEMMA NoRunCreated ==
  ASSUME TypeOK, OrphansHaveFaults, TypeOK',
         \A k \in Key : LiveRuns(k)' \subseteq LiveRuns(k),
         \A k \in Key : MayCreate(k)' => MayCreate(k), Faults' = Faults
  PROVE  OrphansHaveFaults'
<1>. SUFFICES ASSUME NEW k \in Key
              PROVE  Cardinality(LiveRuns(k)') <= IF MayCreate(k)' THEN Faults ELSE 1 + Faults
  BY DEF OrphansHaveFaults
<1>1. Cardinality(LiveRuns(k)') <= Cardinality(LiveRuns(k)) /\ Cardinality(LiveRuns(k)') \in Nat
  <2>1. IsFiniteSet(LiveRuns(k)) /\ LiveRuns(k)' \subseteq LiveRuns(k)
    BY LiveRunsCount
  <2>. QED
    BY <2>1, FS_Subset, FS_CardinalityType
<1>2. Cardinality(LiveRuns(k)) \in Nat /\ Faults \in Nat
  BY LiveRunsCount DEF TypeOK, Faults
<1>3. Cardinality(LiveRuns(k)) <= IF MayCreate(k) THEN Faults ELSE 1 + Faults
  BY DEF OrphansHaveFaults
<1>. QED
  BY <1>1, <1>2, <1>3

LEMMA InitiallyOrderly == Init => RequestsInv
<1>. SUFFICES ASSUME Init PROVE RequestsInv
  OBVIOUS
<1>1. TypeInv /\ RunIds = {} /\ Faults = 0 /\ requests = {} /\ replies = {} /\ queue = {} /\ held = {}
  BY TypeInit DEF Init, RunIds, Faults
<1>2. \A k \in Key : keys[k].run = 0
  BY DEF Init, NoRow
<1>3. \A k \in Key : Cardinality(LiveRuns(k)) = 0
  BY <1>1, FS_EmptySet DEF LiveRuns
<1>. QED
  BY <1>1, <1>2, <1>3 DEF RequestsInv, Dated, SlotsAreForRuns, OneHandlerPerKey, KeysMeanRuns,
                          OrphansHaveFaults, AnswersAreKept, AnswersAgree

\* A delivery comes for a key whose runs, if it has any, are of this window.
LEMMA ArriveKeeps ==
  ASSUME Orderly, RequestsInv, Arrive, TypeInv'
  PROVE  RequestsInv'
<1>. USE DEF RequestsInv, TypeInv
<1>1. PICK k \in Key, d \in Door :
        /\ \A q \in requests : q.key # k
        /\ \A r \in RunIds : runs[r].key = k => runs[r].born = now
        /\ requests' = requests \cup {[id |-> Tag, key |-> k, run |-> 0,
                                      born |-> now, pc |-> d]}
  BY DEF Arrive, Orderly
<1>2. PICK n : n = [id |-> Tag, key |-> k, run |-> 0, born |-> now, pc |-> d]
  OBVIOUS
<1>3. requests' = requests \cup {n} /\ n.key = k /\ n.pc \in Door /\ n.born = now
  BY <1>1, <1>2
<1>4. UNCHANGED <<runs, keys, queue, held, up, pruning, now, replies, left, unread, crashes>> /\ RunIds' = RunIds
  BY DEF Arrive, RunIds
<1>5. now \in Nat
  BY DEF TypeOK
<1>6. Dated' /\ SlotsAreForRuns'
  BY <1>3, <1>4, <1>5 DEF Dated, SlotsAreForRuns
<1>7. OneHandlerPerKey'
  <2>1. \A p, q \in requests' : p.key = q.key => p = q
    BY <1>1, <1>3 DEF OneHandlerPerKey
  <2>2. \A r \in RunIds : runs[r].key = k => runs[r].born >= now /\ runs[r].status # "GONE"
    BY <1>1, <1>5 DEF Dated
  <2>. QED
    BY <1>3, <1>4, <2>1, <2>2 DEF OneHandlerPerKey
<1>8. KeysMeanRuns'
  <2>1. n.pc \notin {"load", "create", "save", "start"}
    BY <1>3 DEF Door
  <2>. QED
    BY <1>3, <1>4, <2>1 DEF KeysMeanRuns
<1>9. OrphansHaveFaults'
  <2>1. \A j \in Key : LiveRuns(j)' = LiveRuns(j) /\ RunsOf(j)' = RunsOf(j)
    BY <1>4 DEF LiveRuns, RunsOf
  <2>2. \A r \in RunsOf(k) : runs[r].born = now
    BY <1>1 DEF RunsOf
  <2>3. \A j \in Key : MayCreate(j)' => MayCreate(j)
    BY <1>1, <1>3, <1>4, <2>1, <2>2 DEF MayCreate, Handling
  <2>. QED
    BY <1>4, <2>1, <2>3, NoRunCreated DEF Faults
<1>10. AnswersAreKept' /\ AnswersAgree'
  <2>1. ASSUME NEW a \in replies
        PROVE  \/ keys'[a.key].run = a.run
               \/ /\ keys'[a.key].run = 0 /\ ~Handling(a.key)'
                  /\ \E r \in RunsOf(a.key)' : runs'[r].born < now'
    <3>1. RunsOf(a.key)' = RunsOf(a.key)
      BY <1>4 DEF RunsOf
    <3>2. a.key = k => ~\E r \in RunsOf(a.key) : runs[r].born < now
      BY <1>1, <1>5 DEF RunsOf
    <3>3. a.key # k => (Handling(a.key)' <=> Handling(a.key))
      BY <1>3 DEF Handling
    <3>. QED
      BY <1>4, <3>1, <3>2, <3>3 DEF AnswersAreKept
  <2>. QED
    BY <1>4, <2>1 DEF AnswersAreKept, AnswersAgree
<1>. QED
  BY <1>6, <1>7, <1>8, <1>9, <1>10

\* A handler is over, with the answer its key's row gives or with none.
LEMMA OverKeeps ==
  ASSUME RequestsInv, TypeInv', NEW q \in requests, requests' = requests \ {q},
         UNCHANGED <<runs, keys, held, up, pruning, now, unread, crashes>>,
         queue' = queue \/ (q.pc = "start" /\ queue' = queue \cup {q.run}),
         \/ replies' = replies /\ q.pc # "save"
         \/ replies' = replies \cup {[key |-> q.key, run |-> keys[q.key].run]} /\ keys[q.key].run # 0
  PROVE  RequestsInv'
<1>. USE DEF RequestsInv, TypeInv
<1>1. RunIds' = RunIds
  BY DEF RunIds
<1>2. Dated' /\ OneHandlerPerKey' /\ KeysMeanRuns'
  BY <1>1 DEF Dated, OneHandlerPerKey, KeysMeanRuns
<1>3. SlotsAreForRuns'
  <2>1. q.pc = "start" => runs[q.run].status # "GONE"
    BY DEF KeysMeanRuns, OneHandlerPerKey, HandlersNameRuns, TypeOK, RunIds, Request
  <2>. QED
    BY <2>1 DEF SlotsAreForRuns
<1>4. OrphansHaveFaults'
  <2>1. \A k \in Key : LiveRuns(k)' = LiveRuns(k) /\ RunsOf(k)' = RunsOf(k)
    BY <1>1 DEF LiveRuns, RunsOf
  <2>2. \A k \in Key : MayCreate(k)' => MayCreate(k)
    BY <2>1 DEF MayCreate, Handling
  <2>. QED
    BY <2>1, <2>2, NoRunCreated DEF Faults
<1>5. AnswersAreKept' /\ AnswersAgree'
  <2>1. ASSUME NEW a \in replies
        PROVE  \/ keys'[a.key].run = a.run
               \/ /\ keys'[a.key].run = 0 /\ ~Handling(a.key)'
                  /\ \E r \in RunsOf(a.key)' : runs'[r].born < now'
    <3>1. RunsOf(a.key)' = RunsOf(a.key) /\ (Handling(a.key)' => Handling(a.key))
      BY <1>1 DEF RunsOf, Handling
    <3>. QED
      BY <1>1, <3>1 DEF AnswersAreKept
  <2>2. ASSUME NEW a \in replies, a.key = q.key, keys[q.key].run # 0 PROVE a.run = keys[q.key].run
    BY <2>2 DEF AnswersAreKept
  <2>3. CASE replies' = replies
    BY <2>1, <2>3 DEF AnswersAreKept, AnswersAgree
  <2>4. CASE replies' = replies \cup {[key |-> q.key, run |-> keys[q.key].run]} /\ keys[q.key].run # 0
    <3>1. PICK n : n = [key |-> q.key, run |-> keys[q.key].run]
      OBVIOUS
    <3>2. replies' = replies \cup {n} /\ n.key = q.key /\ n.run = keys[q.key].run
      BY <2>4, <3>1
    <3>3. \A a \in replies : a.key = q.key => a.run = n.run
      BY <2>2, <2>4, <3>2
    <3>4. AnswersAgree'
      BY <3>2, <3>3 DEF AnswersAgree
    <3>5. AnswersAreKept'
      BY <2>1, <3>2 DEF AnswersAreKept
    <3>. QED
      BY <3>4, <3>5
  <2>. QED
    BY <2>3, <2>4
<1>. QED
  BY <1>2, <1>3, <1>4, <1>5

\* A handler has looked its key up.
LEMMA LookupKeeps ==
  ASSUME RequestsInv, TypeInv', NEW q \in requests, Lookup(q), UNCHANGED <<held, up, pruning, now, crashes>>
  PROVE  RequestsInv'
<1>. USE DEF RequestsInv, TypeInv
<1>1. UNCHANGED <<runs, keys, queue, unread>> /\ RunIds' = RunIds /\ q.pc \in Door
  BY DEF Lookup, RunIds
<1>2. q \in Request /\ q.key \in Key
  BY DEF TypeOK, Request
<1>3. CASE Answer(q, Known(q.key)) /\ Known(q.key) # 0
  BY <1>1, <1>3, OverKeeps DEF Answer, Known
<1>4. ASSUME NEW pc \in {"create", "load"}, NEW r, Move(q, pc, r), UNCHANGED replies,
             pc = "create" => keys[q.key].run = 0,
             pc = "load" => r # 0 /\ keys[q.key].run = r
      PROVE  RequestsInv'
  <2>1. PICK m : m = [q EXCEPT !.pc = pc, !.run = r]
    OBVIOUS
  <2>2. m.pc = pc /\ m.run = r /\ m.key = q.key /\ m.born = q.born
    BY <1>2, <2>1 DEF Request
  <2>3. requests' = (requests \ {q}) \cup {m}
    BY <1>4, <2>1 DEF Move
  <2>4. Dated' /\ SlotsAreForRuns' /\ OneHandlerPerKey'
    BY <1>1, <2>2, <2>3 DEF Dated, SlotsAreForRuns, OneHandlerPerKey
  <2>5. KeysMeanRuns'
    <3>1. keys[q.key].run # 0 => runs[keys[q.key].run].key = q.key
      BY <1>2 DEF KeysMeanRuns
    <3>. QED
      BY <1>1, <1>4, <2>2, <2>3, <3>1 DEF KeysMeanRuns
  <2>6. \A k \in Key : LiveRuns(k)' = LiveRuns(k) /\ RunsOf(k)' = RunsOf(k) /\ (Handling(k)' <=> Handling(k))
    BY <1>1, <2>2, <2>3 DEF LiveRuns, RunsOf, Handling
  <2>7. OrphansHaveFaults'
    <3>1. \A k \in Key : MayCreate(k)' => MayCreate(k)
      BY <1>1, <2>2, <2>3, <2>6 DEF MayCreate, Door
    <3>. QED
      BY <1>1, <2>6, <3>1, NoRunCreated DEF Faults
  <2>8. \A a \in replies : a.key \in Key
    BY DEF TypeOK
  <2>9. AnswersAreKept' /\ AnswersAgree'
    BY <1>1, <1>4, <2>6, <2>8 DEF AnswersAreKept, AnswersAgree
  <2>. QED
    BY <2>4, <2>5, <2>7, <2>9
<1>. QED
  BY <1>3, <1>4 DEF Lookup, Known

\* The earlier run is there: a run of a key that is being handled is not deleted.
LEMMA LoadKeeps ==
  ASSUME RequestsInv, TypeInv', NEW q \in requests, Load(q), UNCHANGED <<held, up, pruning, now, crashes>>
  PROVE  RequestsInv'
<1>. USE DEF RequestsInv, TypeInv
<1>1. q.pc = "load" /\ q.run # 0 /\ runs[q.run].key = q.key /\ keys[q.key].run = q.run /\ q.run \in RunIds /\ unread' = unread
  BY DEF Load, HandlersNameRuns, KeysMeanRuns, TypeOK, RunIds
<1>2. runs[q.run].status # "GONE"
  BY <1>1 DEF OneHandlerPerKey
<1>. QED
  BY <1>1, <1>2, OverKeeps DEF Load, Answer

LEMMA StartKeeps ==
  ASSUME RequestsInv, TypeInv', NEW q \in requests, Start(q), UNCHANGED <<held, up, pruning, now, crashes>>
  PROVE  RequestsInv'
<1>1. q.pc = "start" /\ q.run # 0 /\ keys[q.key].run = q.run /\ unread' = unread
  BY DEF Start, RequestsInv, TypeInv, HandlersNameRuns, KeysMeanRuns
<1>. QED
  BY <1>1, OverKeeps DEF Start, Answer

\* A run is created for a key that has no row: from here to the row, a crash leaves it
\* without one.
LEMMA CreateKeeps ==
  ASSUME RequestsInv, TypeInv', NEW q \in requests, Create(q), UNCHANGED <<held, up, pruning, now, crashes>>
  PROVE  RequestsInv'
<1>. USE DEF RequestsInv, TypeInv
<1>1. /\ q.pc = "create" /\ UNCHANGED <<keys, queue, replies>> /\ keys[q.key].run = 0
      /\ q \in Request /\ q.key \in Key
      /\ runs \in Seq(RunRow) /\ Len(runs) \in Nat /\ RunIds = 1 .. Len(runs) /\ now \in Nat
  BY DEF Create, KeysMeanRuns, TypeOK, Request, RunIds
<1>2. CASE runs' = runs /\ requests' = requests \ {q} /\ unread' = unread
  BY <1>1, <1>2, OverKeeps
<1>3. ASSUME runs' = Append(runs, NewRun(q)),
             \/ Move(q, "save", Len(runs) + 1) /\ unread' = unread
             \/ requests' = requests \ {q} /\ unread' = unread + 1
      PROVE  RequestsInv'
  <2>1. PICK n : n = Len(runs) + 1
    OBVIOUS
  <2>2. PICK row : row = NewRun(q)
    OBVIOUS
  <2>3. row \in RunRow /\ row.key = q.key /\ row.status = "PENDING" /\ row.born = now
    BY <1>1, <2>2 DEF NewRun, RunRow
  <2>4. /\ Len(runs') = n /\ runs'[n] = row /\ \A r \in RunIds : runs'[r] = runs[r]
        /\ RunIds' = RunIds \cup {n} /\ n \notin RunIds /\ n \in Nat /\ n # 0
    BY <1>1, <1>3, <2>1, <2>2, <2>3 DEF RunIds
  <2>5. PICK m : m = [q EXCEPT !.pc = "save", !.run = Len(runs) + 1]
    OBVIOUS
  <2>6. m.pc = "save" /\ m.run = n /\ m.key = q.key /\ m.born = q.born
    BY <1>1, <2>1, <2>5 DEF Request
  <2>7. \/ requests' = (requests \ {q}) \cup {m} /\ unread' = unread
        \/ requests' = requests \ {q} /\ unread' = unread + 1
    BY <1>3, <2>5 DEF Move
  <2>8. Dated'
    BY <1>1, <2>3, <2>4, <2>6, <2>7 DEF Dated
  <2>9. SlotsAreForRuns'
    BY <1>1, <2>4 DEF SlotsAreForRuns, TypeOK
  <2>10. OneHandlerPerKey'
    <3>1. \A p \in requests : now >= p.born
      BY DEF Dated, TypeOK, Request
    <3>2. \A p, u \in requests' : p.key = u.key => p = u
      BY <2>6, <2>7 DEF OneHandlerPerKey
    <3>. QED
      BY <2>3, <2>4, <2>6, <2>7, <3>1, <3>2 DEF OneHandlerPerKey
  <2>11. KeysMeanRuns'
    <3>1. \A k \in Key : keys[k].run # 0 => keys[k].run \in RunIds
      BY <1>1 DEF TypeOK
    <3>2. \A p \in requests : p.run # 0 => p.run \in RunIds
      BY <1>1 DEF TypeOK
    <3>3. \A k \in Key : keys'[k].run # 0 => runs'[keys'[k].run].key = k /\ runs'[keys'[k].run].born <= keys'[k].born
      BY <1>1, <2>4, <3>1 DEF KeysMeanRuns
    <3>4. \A p \in requests : p.pc \in {"load", "save", "start"} => runs'[p.run].key = p.key
      BY <2>4, <3>2 DEF KeysMeanRuns, HandlersNameRuns
    <3>. QED
      BY <1>1, <2>3, <2>4, <2>6, <2>7, <3>3, <3>4 DEF KeysMeanRuns
  <2>12. \A k \in Key \ {q.key} : LiveRuns(k)' = LiveRuns(k) /\ RunsOf(k)' = RunsOf(k) /\ (Handling(k)' <=> Handling(k))
    BY <2>3, <2>4, <2>6, <2>7 DEF LiveRuns, RunsOf, Handling
  <2>13. OrphansHaveFaults'
    <3>1. \A k \in Key \ {q.key} : MayCreate(k)' <=> MayCreate(k)
      BY <1>1, <2>4, <2>6, <2>7, <2>12 DEF MayCreate, RunsOf
    <3>2. MayCreate(q.key)
      BY <1>1 DEF MayCreate, Handling, OneHandlerPerKey
    <3>3. LiveRuns(q.key)' = LiveRuns(q.key) \cup {n} /\ n \notin LiveRuns(q.key)
      BY <2>3, <2>4 DEF LiveRuns
    <3>4. IsFiniteSet(LiveRuns(q.key)) /\ Cardinality(LiveRuns(q.key)) \in Nat
      BY LiveRunsCount
    <3>5. crashes' = crashes /\ crashes \in Nat /\ unread \in Nat /\ Faults \in Nat
      BY DEF TypeOK, Faults
    <3>6. Cardinality(LiveRuns(q.key)') = Cardinality(LiveRuns(q.key)) + 1
      BY <3>3, <3>4, FS_AddElement
    <3>7. Cardinality(LiveRuns(q.key)) <= Faults
      BY <1>1, <3>2 DEF OrphansHaveFaults
    <3>8. CASE requests' = (requests \ {q}) \cup {m} /\ unread' = unread
      <4>1. ~MayCreate(q.key)'
        BY <2>6, <3>8 DEF MayCreate
      <4>2. Faults' = Faults
        BY <3>5, <3>8 DEF Faults
      <4>3. Cardinality(LiveRuns(q.key)') <= 1 + Faults
        BY <3>4, <3>5, <3>6, <3>7
      <4>. QED
        BY <2>12, <3>1, <4>1, <4>2, <4>3 DEF OrphansHaveFaults
    <3>9. CASE requests' = requests \ {q} /\ unread' = unread + 1
      <4>1. Faults' = 1 + Faults
        BY <3>5, <3>9 DEF Faults
      <4>2. Cardinality(LiveRuns(q.key)') <= 1 + Faults
        BY <3>4, <3>5, <3>6, <3>7
      <4>3. ASSUME NEW k \in Key \ {q.key}
            PROVE  Cardinality(LiveRuns(k)') <= IF MayCreate(k)' THEN 1 + Faults ELSE 1 + (1 + Faults)
        <5>1. Cardinality(LiveRuns(k)) \in Nat
          BY LiveRunsCount
        <5>2. Cardinality(LiveRuns(k)) <= IF MayCreate(k) THEN Faults ELSE 1 + Faults
          BY DEF OrphansHaveFaults
        <5>. QED
          BY <2>12, <3>1, <3>5, <5>1, <5>2
      <4>4. Cardinality(LiveRuns(q.key)') <= IF MayCreate(q.key)' THEN 1 + Faults ELSE 1 + (1 + Faults)
        BY <3>4, <3>5, <3>6, <4>2
      <4>. QED
        BY <4>1, <4>3, <4>4 DEF OrphansHaveFaults
    <3>. QED
      BY <2>7, <3>8, <3>9
  <2>14. \A a \in replies : a.key \in Key \ {q.key}
    <3>1. \A a \in replies : a.key \in Key /\ a.run # 0
      BY DEF TypeOK, RunIds
    <3>. QED
      BY <1>1, <3>1 DEF AnswersAreKept, Handling
  <2>15. AnswersAreKept' /\ AnswersAgree'
    <3>1. \A a \in replies : \A r \in RunsOf(a.key) : runs'[r] = runs[r]
      BY <2>4 DEF RunsOf
    <3>. QED
      BY <1>1, <2>12, <2>14, <3>1 DEF AnswersAreKept, AnswersAgree
  <2>. QED
    BY <2>8, <2>9, <2>10, <2>11, <2>13, <2>15
<1>. QED
  BY <1>2, <1>3 DEF Create

\* The row is stored: the key has its run.
LEMMA SaveKeeps ==
  ASSUME RequestsInv, TypeInv', NEW q \in requests, Save(q), UNCHANGED <<held, up, pruning, now, crashes>>
  PROVE  RequestsInv'
<1>. USE DEF RequestsInv, TypeInv
<1>1. /\ q.pc = "save" /\ UNCHANGED <<runs, queue, replies, unread>> /\ keys[q.key].run = 0
      /\ q \in Request /\ q.key \in Key /\ q.run # 0 /\ q.run \in RunIds /\ runs[q.run].key = q.key
      /\ RunIds' = RunIds
  BY DEF Save, KeysMeanRuns, HandlersNameRuns, TypeOK, Request, RunIds
<1>2. /\ keys'[q.key].run = q.run /\ keys'[q.key].born = now
      /\ \A k \in Key \ {q.key} : keys'[k] = keys[k]
  BY <1>1 DEF Save, TypeOK
<1>3. PICK m : m = [q EXCEPT !.pc = "start", !.run = q.run]
  OBVIOUS
<1>4. m.pc = "start" /\ m.run = q.run /\ m.key = q.key /\ m.born = q.born
  BY <1>1, <1>3 DEF Request
<1>5. requests' = (requests \ {q}) \cup {m}
  BY <1>3 DEF Save, Move
<1>6. Dated' /\ SlotsAreForRuns' /\ OneHandlerPerKey'
  BY <1>1, <1>4, <1>5 DEF Dated, SlotsAreForRuns, OneHandlerPerKey
<1>7. KeysMeanRuns'
  <2>1. \A p \in requests' \ {m} : p \in requests /\ p.key # q.key /\ p.key \in Key
    BY <1>5 DEF OneHandlerPerKey, TypeOK, Request
  <2>2. runs[q.run].born <= now
    BY <1>1 DEF Dated
  <2>. QED
    BY <1>1, <1>2, <1>4, <2>1, <2>2 DEF KeysMeanRuns
<1>8. \A k \in Key : LiveRuns(k)' = LiveRuns(k) /\ RunsOf(k)' = RunsOf(k) /\ (Handling(k)' <=> Handling(k))
  BY <1>1, <1>4, <1>5 DEF LiveRuns, RunsOf, Handling
<1>9. OrphansHaveFaults'
  <2>1. ASSUME NEW k \in Key, MayCreate(k)' PROVE MayCreate(k)
    <3>1. k # q.key
      BY <1>1, <1>2, <2>1 DEF MayCreate
    <3>2. keys[k].run = 0 /\ \A p \in requests : p.key = k => p.pc # "save"
      BY <1>2, <1>5, <2>1, <3>1 DEF MayCreate
    <3>3. Handling(k) \/ \A u \in RunsOf(k) : runs[u].born = now
      BY <1>1, <1>8, <2>1 DEF MayCreate
    <3>. QED
      BY <3>2, <3>3 DEF MayCreate
  <2>. QED
    BY <1>1, <1>8, <2>1, NoRunCreated DEF Faults
<1>10. AnswersAreKept' /\ AnswersAgree'
  <2>1. \A a \in replies : a.key \in Key /\ a.run # 0
    BY DEF TypeOK, RunIds
  <2>2. \A a \in replies : a.key # q.key
    BY <1>1, <2>1 DEF AnswersAreKept, Handling
  <2>. QED
    BY <1>1, <1>2, <1>8, <2>1, <2>2 DEF AnswersAreKept, AnswersAgree
<1>. QED
  BY <1>6, <1>7, <1>9, <1>10

\* Runs go on: nothing is created, deleted or brought back.
LEMMA RunsGoOn ==
  ASSUME RequestsInv, TypeInv', UNCHANGED <<keys, requests, pruning, now, replies, unread, crashes>>,
         Len(runs') = Len(runs),
         \A r \in RunIds : runs'[r].key = runs[r].key /\ runs'[r].born = runs[r].born,
         \A r \in RunIds : runs'[r].status = "GONE" <=> runs[r].status = "GONE",
         \A r \in queue' \cup held' : r \in queue \cup held \/ runs[r].status # "GONE"
  PROVE  RequestsInv'
<1>. USE DEF RequestsInv, TypeInv
<1>1. RunIds' = RunIds
  BY DEF RunIds
<1>2. Dated' /\ OneHandlerPerKey'
  BY <1>1 DEF Dated, OneHandlerPerKey
<1>3. SlotsAreForRuns'
  BY <1>1 DEF SlotsAreForRuns, TypeOK
<1>4. KeysMeanRuns'
  <2>1. \A k \in Key : keys[k].run # 0 => keys[k].run \in RunIds
    BY DEF TypeOK, RunIds
  <2>2. \A q \in requests : q.run # 0 => q.run \in RunIds
    BY DEF TypeOK, RunIds
  <2>. QED
    BY <2>1, <2>2 DEF KeysMeanRuns, HandlersNameRuns
<1>5. \A k \in Key : LiveRuns(k)' = LiveRuns(k) /\ RunsOf(k)' = RunsOf(k) /\ (Handling(k)' <=> Handling(k))
  BY <1>1 DEF LiveRuns, RunsOf, Handling
<1>6. \A k \in Key : MayCreate(k)' => MayCreate(k)
  BY <1>1, <1>5 DEF MayCreate, RunsOf
<1>7. OrphansHaveFaults'
  BY <1>5, <1>6, NoRunCreated DEF Faults
<1>8. AnswersAreKept' /\ AnswersAgree'
  <2>1. \A a \in replies : a.key \in Key /\ \A r \in RunsOf(a.key) : runs'[r].born = runs[r].born
    BY DEF TypeOK, RunsOf
  <2>. QED
    BY <1>5, <2>1 DEF AnswersAreKept, AnswersAgree
<1>. QED
  BY <1>2, <1>3, <1>4, <1>7, <1>8

LEMMA ExecutionKeeps ==
  ASSUME RequestsInv, TypeInv',
         (\E r \in queue : TakeSlot(r)) \/ Leave \/ Wake \/ Cancel \/ Restart \/ Reclaim
  PROVE  RequestsInv'
<1>1. /\ runs \in Seq(RunRow) /\ queue \subseteq RunIds /\ held \subseteq RunIds
      /\ \A r \in queue \cup held : runs[r].status # "GONE"
  BY DEF RequestsInv, TypeInv, TypeOK, SlotsAreForRuns
<1>2. ASSUME NEW i \in RunIds, NEW s \in {"RUNNING", "WAITING", "ENDED"}, SetStatus(i, s),
             runs[i].status # "GONE", Unrelated, queue' \subseteq queue \cup {i}, held' \subseteq held \cup {i}
      PROVE  RequestsInv'
  <2>1. /\ Len(runs') = Len(runs) /\ runs'[i].status = s
        /\ \A r \in RunIds : runs'[r].key = runs[r].key /\ runs'[r].born = runs[r].born
        /\ \A r \in RunIds \ {i} : runs'[r] = runs[r]
    <3>1. s \in Statuses
      BY DEF Statuses
    <3>2. SetStatus(i, s) /\ runs \in Seq(RunRow)
      BY <1>1, <1>2
    <3>. QED
      BY <3>1, <3>2, StatusSet, Zenon
  <2>2. \A r \in RunIds : runs'[r].status = "GONE" <=> runs[r].status = "GONE"
    BY <1>2, <2>1
  <2>3. UNCHANGED <<keys, requests, pruning, now, replies, left, unread, crashes>>
    BY <1>2 DEF Unrelated
  <2>. QED
    BY <1>1, <1>2, <2>1, <2>2, <2>3, RunsGoOn
<1>3. ASSUME UNCHANGED <<keys, requests, pruning, now, replies, unread, crashes, runs>>,
             \A r \in queue' \cup held' : r \in queue \cup held \/ runs[r].status # "GONE"
      PROVE  RequestsInv'
  BY <1>3, RunsGoOn
<1>4. ASSUME NEW r \in queue, TakeSlot(r) PROVE RequestsInv'
  <2>1. CASE held' = held \cup {r} /\ SetStatus(r, "RUNNING")
    BY <1>1, <1>2, <1>4, <2>1 DEF TakeSlot
  <2>2. CASE UNCHANGED <<held, runs>>
    BY <1>3, <1>4, <2>2 DEF TakeSlot, Unrelated
  <2>. QED
    BY <1>4, <2>1, <2>2 DEF TakeSlot
<1>5. CASE Leave
  BY <1>1, <1>2, <1>5 DEF Leave
<1>6. CASE Wake
  BY <1>2, <1>6 DEF Wake
<1>7. CASE Cancel
  BY <1>2, <1>7 DEF Cancel
<1>8. CASE Restart
  <2>1. \A r \in queue' \cup held' : r \in queue \cup held \/ runs[r].status # "GONE"
    BY <1>8 DEF Restart, InFlight
  <2>. QED
    BY <1>3, <1>8, <2>1 DEF Restart
<1>9. CASE Reclaim
  <2>1. \A r \in queue' \cup held' : r \in queue \cup held \/ runs[r].status # "GONE"
    BY <1>9 DEF Reclaim
  <2>. QED
    BY <1>3, <1>9, <2>1 DEF Reclaim
<1>. QED
  BY <1>4, <1>5, <1>6, <1>7, <1>8, <1>9

\* The engine dies: the run that was created and has no row is one a crash orphaned.
LEMMA CrashKeeps ==
  ASSUME RequestsInv, Crash, TypeInv'
  PROVE  RequestsInv'
<1>. USE DEF RequestsInv, TypeInv
<1>1. /\ requests' = {} /\ queue' = {} /\ held' = {} /\ pruning' = FALSE
      /\ crashes' = crashes + 1 /\ UNCHANGED <<runs, keys, now, replies, unread>> /\ RunIds' = RunIds
  BY DEF Crash, RunIds
<1>2. Dated' /\ SlotsAreForRuns' /\ OneHandlerPerKey' /\ KeysMeanRuns'
  BY <1>1 DEF Dated, SlotsAreForRuns, OneHandlerPerKey, KeysMeanRuns
<1>3. OrphansHaveFaults'
  <2>1. \A k \in Key : LiveRuns(k)' = LiveRuns(k) /\ Cardinality(LiveRuns(k)) \in Nat
    BY <1>1, LiveRunsCount DEF LiveRuns
  <2>2. \A k \in Key : Cardinality(LiveRuns(k)) <= 1 + Faults /\ Faults \in Nat
    BY <2>1 DEF OrphansHaveFaults, TypeOK, Faults
  <2>3. Faults' = 1 + Faults
    BY <1>1 DEF Faults, TypeOK
  <2>. QED
    BY <2>1, <2>2, <2>3 DEF OrphansHaveFaults
<1>4. AnswersAreKept' /\ AnswersAgree'
  <2>1. \A a \in replies : RunsOf(a.key)' = RunsOf(a.key) /\ ~Handling(a.key)'
    BY <1>1 DEF RunsOf, Handling
  <2>. QED
    BY <1>1, <2>1 DEF AnswersAreKept, AnswersAgree
<1>. QED
  BY <1>2, <1>3, <1>4

\* A window passes: no delivery may come any more for a key that has a run.
LEMMA PeriodKeeps ==
  ASSUME RequestsInv, Period, TypeInv'
  PROVE  RequestsInv'
<1>. USE DEF RequestsInv, TypeInv
<1>1. /\ ~pruning /\ now' = now + 1 /\ now \in Nat /\ RunIds' = RunIds
      /\ UNCHANGED <<runs, keys, requests, queue, held, up, pruning, replies, unread, crashes>>
  BY DEF Period, TypeOK, RunIds
<1>2. \A r \in RunIds : runs[r].born \in Nat
  <2>1. \A r \in RunIds : runs[r] \in RunRow
    BY DEF TypeOK, RunIds
  <2>. QED
    BY <2>1 DEF RunRow
<1>3. Dated'
  BY <1>1, <1>2 DEF Dated, TypeOK, Request
<1>4. SlotsAreForRuns' /\ OneHandlerPerKey' /\ KeysMeanRuns'
  BY <1>1 DEF SlotsAreForRuns, OneHandlerPerKey, KeysMeanRuns
<1>5. OrphansHaveFaults'
  <2>1. \A k \in Key : LiveRuns(k)' = LiveRuns(k) /\ RunsOf(k)' = RunsOf(k) /\ (Handling(k)' <=> Handling(k))
    BY <1>1 DEF LiveRuns, RunsOf, Handling
  <2>2. \A r \in RunIds : runs[r].born # now + 1
    BY <1>1, <1>2 DEF Dated
  <2>3. \A k \in Key : MayCreate(k)' => MayCreate(k)
    BY <1>1, <2>1, <2>2 DEF MayCreate, RunsOf
  <2>. QED
    BY <1>1, <2>1, <2>3, NoRunCreated DEF Faults
<1>6. AnswersAreKept' /\ AnswersAgree'
  <2>1. \A a \in replies : RunsOf(a.key)' = RunsOf(a.key) /\ (Handling(a.key)' <=> Handling(a.key))
    BY <1>1 DEF RunsOf, Handling
  <2>2. \A r \in RunIds : runs[r].born < now => runs[r].born < now + 1
    BY <1>1, <1>2
  <2>. QED
    BY <1>1, <2>1, <2>2 DEF AnswersAreKept, AnswersAgree, RunsOf
<1>. QED
  BY <1>3, <1>4, <1>5, <1>6

\* Old runs are deleted: none of a key that is being handled.
LEMMA PruneRunsKeeps ==
  ASSUME RequestsInv, PruneRuns, TypeInv'
  PROVE  RequestsInv'
<1>. USE DEF RequestsInv, TypeInv
<1>1. /\ pruning' = TRUE /\ \A q \in requests : q.born = now
      /\ \A r \in RunIds : r \in held \cup queue => runs[r].born = now
      /\ UNCHANGED <<keys, requests, queue, held, up, now, replies, left, unread, crashes>>
  BY DEF PruneRuns
<1>2. /\ runs \in Seq(RunRow) /\ Len(runs) \in Nat /\ RunIds = 1 .. Len(runs) /\ now \in Nat
      /\ \A r \in RunIds : runs[r] \in RunRow
  BY DEF TypeOK, RunIds
<1>3. /\ Len(runs') = Len(runs) /\ RunIds' = RunIds
      /\ \A r \in RunIds : runs'[r] = IF runs[r].status = "ENDED" /\ runs[r].born < now
                                     THEN [runs[r] EXCEPT !.status = "GONE"] ELSE runs[r]
  <2>1. DOMAIN runs' = 1 .. Len(runs)
    BY <1>2 DEF PruneRuns
  <2>2. Len(runs') = Len(runs)
    BY <1>2, <2>1 DEF TypeOK
  <2>. QED
    BY <2>2 DEF PruneRuns, RunIds
<1>4. \A r \in RunIds :
        /\ runs'[r].key = runs[r].key /\ runs'[r].born = runs[r].born /\ runs[r].born \in Nat
        /\ runs'[r].status = "GONE" <=> runs[r].status = "GONE" \/ (runs[r].status = "ENDED" /\ runs[r].born < now)
  BY <1>2, <1>3 DEF RunRow
<1>5. Dated'
  BY <1>1, <1>3, <1>4 DEF Dated
<1>6. SlotsAreForRuns'
  BY <1>1, <1>2, <1>4 DEF SlotsAreForRuns, TypeOK
<1>7. OneHandlerPerKey'
  BY <1>1, <1>2, <1>3, <1>4 DEF OneHandlerPerKey
<1>8. KeysMeanRuns'
  <2>1. \A k \in Key : keys[k].run # 0 => keys[k].run \in RunIds
    BY DEF TypeOK, RunIds
  <2>2. \A q \in requests : q.run # 0 => q.run \in RunIds
    BY DEF TypeOK, RunIds
  <2>. QED
    BY <1>1, <1>4, <2>1, <2>2 DEF KeysMeanRuns, HandlersNameRuns
<1>9. \A k \in Key : LiveRuns(k)' \subseteq LiveRuns(k) /\ RunsOf(k)' = RunsOf(k) /\ (Handling(k)' <=> Handling(k))
  BY <1>1, <1>3, <1>4 DEF LiveRuns, RunsOf, Handling
<1>10. OrphansHaveFaults'
  <2>1. \A k \in Key : MayCreate(k)' => MayCreate(k)
    BY <1>1, <1>4, <1>9 DEF MayCreate, RunsOf
  <2>. QED
    BY <1>1, <1>9, <2>1, NoRunCreated DEF Faults
<1>11. AnswersAreKept' /\ AnswersAgree'
  <2>1. \A a \in replies : a.key \in Key /\ \A r \in RunsOf(a.key) : runs'[r].born = runs[r].born
    BY <1>4 DEF TypeOK, RunsOf
  <2>. QED
    BY <1>1, <1>9, <2>1 DEF AnswersAreKept, AnswersAgree
<1>. QED
  BY <1>5, <1>6, <1>7, <1>8, <1>10, <1>11

\* Old rows are deleted: none of a key that is being handled, or that a delivery may
\* yet come for.
LEMMA PruneKeysKeeps ==
  ASSUME RequestsInv, PruneKeys, TypeInv'
  PROVE  RequestsInv'
<1>. USE DEF RequestsInv, TypeInv
<1>1. /\ pruning /\ pruning' = FALSE /\ RunIds' = RunIds
      /\ keys' = [k \in Key |-> IF Expired(k) THEN NoRow ELSE keys[k]]
      /\ UNCHANGED <<runs, requests, queue, held, up, now, replies, left, unread, crashes>>
  BY DEF PruneKeys, RunIds
<1>2. \A k \in Key : /\ Expired(k) => keys'[k].run = 0
                     /\ ~Expired(k) => keys'[k] = keys[k]
  BY <1>1 DEF NoRow
<1>3. ASSUME NEW k \in Key, Expired(k), keys[k].run # 0
      PROVE  ~Handling(k) /\ \E r \in RunsOf(k) : runs[r].born < now
  <2>1. /\ keys[k].run \in RunIds /\ keys[k].born \in Nat /\ keys[k].born < now /\ now \in Nat
        /\ runs[keys[k].run].key = k /\ runs[keys[k].run].born <= keys[k].born
    BY <1>3 DEF TypeOK, RunIds, KeysMeanRuns, Expired
  <2>2. runs[keys[k].run].born \in Nat
    <3>1. runs[keys[k].run] \in RunRow
      BY <2>1 DEF TypeOK, RunIds
    <3>. QED
      BY <3>1 DEF RunRow
  <2>3. runs[keys[k].run].born < now /\ keys[k].run \in RunsOf(k)
    BY <2>1, <2>2 DEF RunsOf
  <2>4. ASSUME NEW q \in requests, q.key = k PROVE FALSE
    <3>1. q.born = now /\ runs[keys[k].run].born >= q.born
      BY <1>1, <2>1, <2>4 DEF Dated, OneHandlerPerKey
    <3>. QED
      BY <2>1, <2>2, <2>3, <3>1
  <2>. QED
    BY <2>3, <2>4 DEF Handling
<1>4. Dated' /\ SlotsAreForRuns' /\ OneHandlerPerKey'
  BY <1>1 DEF Dated, SlotsAreForRuns, OneHandlerPerKey
<1>5. KeysMeanRuns'
  <2>1. \A k \in Key : keys'[k].run # 0 => keys'[k] = keys[k]
    BY <1>2
  <2>2. \A q \in requests : q.key \in Key /\ (keys[q.key].run # 0 => keys'[q.key] = keys[q.key])
    BY <1>2, <1>3 DEF TypeOK, Request, Handling
  <2>3. \A q \in requests : q.pc \in {"load", "start"} => keys'[q.key].run = q.run
    BY <2>2 DEF KeysMeanRuns, HandlersNameRuns
  <2>4. \A q \in requests : q.pc \in {"create", "save"} => keys'[q.key].run = 0
    BY <2>1, <2>2 DEF KeysMeanRuns
  <2>. QED
    BY <1>1, <2>1, <2>3, <2>4 DEF KeysMeanRuns
<1>6. OrphansHaveFaults'
  <2>1. \A k \in Key : LiveRuns(k)' = LiveRuns(k) /\ RunsOf(k)' = RunsOf(k) /\ (Handling(k)' <=> Handling(k))
    BY <1>1 DEF LiveRuns, RunsOf, Handling
  <2>2. \A r \in RunIds : runs[r].born < now => runs[r].born # now
    <3>1. \A r \in RunIds : runs[r] \in RunRow /\ now \in Nat
      BY DEF TypeOK, RunIds
    <3>. QED
      BY <3>1 DEF RunRow
  <2>3. ASSUME NEW k \in Key, MayCreate(k)' PROVE MayCreate(k)
    <3>1. Handling(k) \/ \A r \in RunsOf(k) : runs[r].born = now
      BY <1>1, <2>1, <2>3 DEF MayCreate
    <3>2. keys[k].run = 0
      BY <1>2, <1>3, <2>2, <2>3, <3>1 DEF MayCreate, RunsOf
    <3>. QED
      BY <1>1, <2>3, <3>1, <3>2 DEF MayCreate
  <2>. QED
    BY <1>1, <2>1, <2>3, NoRunCreated DEF Faults
<1>7. AnswersAreKept' /\ AnswersAgree'
  <2>1. \A a \in replies : a.key \in Key /\ a.run # 0
    BY DEF TypeOK, RunIds
  <2>2. \A a \in replies : RunsOf(a.key)' = RunsOf(a.key) /\ (Handling(a.key)' <=> Handling(a.key))
    BY <1>1 DEF RunsOf, Handling
  <2>3. ASSUME NEW a \in replies
        PROVE  \/ keys'[a.key].run = a.run
               \/ /\ keys'[a.key].run = 0 /\ ~Handling(a.key) /\ \E r \in RunsOf(a.key) : runs[r].born < now
    BY <1>2, <1>3, <2>1 DEF AnswersAreKept
  <2>. QED
    BY <1>1, <2>2, <2>3 DEF AnswersAreKept, AnswersAgree
<1>. QED
  BY <1>4, <1>5, <1>6, <1>7

LEMMA OrderlyStep ==
  ASSUME Orderly, RequestsInv, [Next]_vars
  PROVE  RequestsInv'
<1>1. TypeInv'
  BY TypeStep DEF RequestsInv
<1>2. CASE Handle
  <2>1. UNCHANGED <<held, up, pruning, now, crashes>>
    BY <1>2 DEF Handle
  <2>. QED
    BY <1>1, <1>2, <2>1, LookupKeeps, LoadKeeps, CreateKeeps, SaveKeeps, StartKeeps DEF Handle
<1>3. CASE Arrive \/ Crash \/ Period \/ PruneRuns \/ PruneKeys
  BY <1>1, <1>3, ArriveKeeps, CrashKeeps, PeriodKeeps, PruneRunsKeeps, PruneKeysKeeps
<1>4. CASE (\E r \in queue : TakeSlot(r)) \/ Leave \/ Wake \/ Cancel \/ Restart \/ Reclaim
  BY <1>1, <1>4, ExecutionKeeps
<1>5. CASE UNCHANGED vars
  <2>1. \A r \in queue' \cup held' : r \in queue \cup held
    BY <1>5 DEF vars
  <2>. QED
    BY <1>1, <1>5, <2>1, RunsGoOn DEF vars
<1>. QED
  BY <1>2, <1>3, <1>4, <1>5 DEF Next

LEMMA OrderlyInvariant == ASSUME Orderly PROVE Spec => []RequestsInv
<1>1. RequestsInv /\ [Next]_vars => RequestsInv'
  BY OrderlyStep
<1>. QED
  BY <1>1, InitiallyOrderly, PTL DEF Spec

\* Once a delivery has been answered with a run, every later delivery of its key is
\* answered with that run, whatever crashes come in between (server.go:786-820).
THEOREM RepliesAgreeWhenOrderly == ASSUME Orderly PROVE Spec => []RepliesAgree
<1>1. RequestsInv => RepliesAgree
  BY DEF RequestsInv, AnswersAgree, RepliesAgree
<1>. QED
  BY <1>1, OrderlyInvariant, PTL

\* One run for a key, and one more at most for each crash, in the window between the run
\* and its key (server.go:805-811), and each run that could not be read back (store.go:319).
THEOREM CrashesBoundRunsPerKeyWhenOrderly == ASSUME Orderly PROVE Spec => []CrashesBoundRunsPerKey
<1>1. RequestsInv => CrashesBoundRunsPerKey
  <2>. SUFFICES ASSUME RequestsInv, NEW k \in Key
                PROVE  Cardinality(LiveRuns(k)) <= 1 + crashes + unread
    BY DEF CrashesBoundRunsPerKey, LiveRuns
  <2>1. Cardinality(LiveRuns(k)) \in Nat /\ crashes \in Nat /\ unread \in Nat
    BY LiveRunsCount DEF RequestsInv, TypeInv, TypeOK
  <2>2. Cardinality(LiveRuns(k)) <= IF MayCreate(k) THEN Faults ELSE 1 + Faults
    BY DEF RequestsInv, OrphansHaveFaults
  <2>. QED
    BY <2>1, <2>2 DEF Faults
<1>. QED
  BY <1>1, OrderlyInvariant, PTL
-----------------------------------------------------------------------------
(* Runs that are accepted. *)

CarriedInv == TypeInv /\ InFlightIsCarried

\* The two parts of InFlightIsCarried: who goes on with a run, and what it takes to leave one.
Carried ==
  up => \A r \in RunIds \ left : runs[r].status \in InFlight =>
          r \in queue \cup held \/ \E q \in requests : q.run = r /\ q.pc \in {"save", "start"}
LeftHasReason == left # {} => unread > 0 \/ Len(runs) > RestartLimit

\* A restart passes a run over only if there are more than it reads.
LEMMA PassedOverTakesMore ==
  ASSUME TypeOK, NEW r \in RunIds, PassedOver(r)
  PROVE  Len(runs) > RestartLimit
<1>1. Len(runs) \in Nat /\ RunIds = 1 .. Len(runs) /\ RestartLimit \in Nat
  BY RequestsAssumption DEF TypeOK, RunIds
<1>2. IsFiniteSet(RunIds) /\ Cardinality(RunIds) = Len(runs)
  <2>1. 1 <= Len(runs) /\ 1 \in Int /\ Len(runs) \in Int
    BY <1>1
  <2>2. IsFiniteSet(1 .. Len(runs)) /\ Cardinality(1 .. Len(runs)) = IF 1 > Len(runs) THEN 0 ELSE Len(runs) - 1 + 1
    BY <2>1, FS_Interval
  <2>. QED
    BY <1>1, <2>1, <2>2
<1>3. IsFiniteSet(RunIds \ {r}) /\ Cardinality(RunIds \ {r}) = Len(runs) - 1
  BY <1>2, FS_RemoveElement
<1>4. Younger(r) \subseteq RunIds \ {r}
  BY <1>1 DEF Younger
<1>5. Cardinality(Younger(r)) <= Cardinality(RunIds \ {r}) /\ Cardinality(Younger(r)) \in Nat
  BY <1>3, <1>4, FS_Subset, FS_CardinalityType
<1>. QED
  BY <1>1, <1>3, <1>5 DEF PassedOver

\* Steps of the handlers and of time create at most one run, which its request carries on,
\* and let go of none.
LEMMA HandlersCarry ==
  ASSUME CarriedInv, Handle
  PROVE  Carried' /\ LeftHasReason'
<1>1. /\ runs \in Seq(RunRow) /\ Len(runs) \in Nat /\ RunIds = 1 .. Len(runs) /\ UNCHANGED <<held, up>>
      /\ requests \subseteq Request /\ unread \in Nat /\ RestartLimit \in Nat
      /\ Carried /\ LeftHasReason
  BY RequestsAssumption DEF CarriedInv, TypeInv, TypeOK, RunIds, Handle, InFlightIsCarried, Carried, LeftHasReason
<1>2. PICK q \in requests : Lookup(q) \/ Load(q) \/ Create(q) \/ Save(q) \/ Start(q)
  BY DEF Handle
<1>3. q \in Request
  BY <1>1, <1>2
<1>4. ASSUME UNCHANGED <<runs, queue, left, unread>>, requests \ {q} \subseteq requests',
             q.pc \notin {"save", "start"}
      PROVE  Carried' /\ LeftHasReason'
  <2>1. RunIds' = RunIds
    BY <1>4 DEF RunIds
  <2>. QED
    BY <1>1, <1>4, <2>1 DEF Carried, LeftHasReason, InFlight
<1>5. CASE Lookup(q) \/ Load(q)
  <2>1. q.pc \notin {"save", "start"}
    BY <1>5 DEF Lookup, Load, Door
  <2>. QED
    BY <1>4, <1>5, <2>1 DEF Lookup, Load, Move, Answer
<1>6. CASE Create(q)
  <2>1. CASE runs' = runs /\ requests' = requests \ {q} /\ UNCHANGED <<left, unread>>
    <3>1. q.pc = "create" /\ queue' = queue
      BY <1>6 DEF Create
    <3>. QED
      BY <1>4, <2>1, <3>1
  <2>3. ASSUME runs' = Append(runs, NewRun(q)), requests' = requests \ {q}, unread' = unread + 1,
               left' = left \cup {Len(runs) + 1}
        PROVE  Carried' /\ LeftHasReason'
    <3>1. q.pc = "create" /\ queue' = queue
      BY <1>6 DEF Create
    <3>2. RunIds' = 1 .. Len(runs) + 1 /\ \A r \in RunIds : runs'[r] = runs[r]
      BY <1>1, <2>3 DEF RunIds
    <3>3. RunIds' \ left' \subseteq RunIds \ left
      BY <1>1, <2>3, <3>2
    <3>4. ASSUME up', NEW r \in RunIds' \ left', runs'[r].status \in InFlight
          PROVE  r \in queue' \cup held' \/ \E p \in requests' : p.run = r /\ p.pc \in {"save", "start"}
      BY <1>1, <2>3, <3>1, <3>2, <3>3, <3>4 DEF Carried
    <3>5. unread' > 0
      BY <1>1, <2>3
    <3>. QED
      BY <3>4, <3>5 DEF Carried, LeftHasReason, InFlight
  <2>2. CASE runs' = Append(runs, NewRun(q)) /\ Move(q, "save", Len(runs) + 1) /\ UNCHANGED <<left, unread>>
    <3>1. PICK m : m = [q EXCEPT !.pc = "save", !.run = Len(runs) + 1]
      OBVIOUS
    <3>2. m.pc = "save" /\ m.run = Len(runs) + 1 /\ m \in requests'
      BY <1>3, <2>2, <3>1 DEF Move, Request
    <3>3. q.pc = "create" /\ queue' = queue /\ requests \ {q} \subseteq requests'
      BY <1>6, <2>2 DEF Create, Move
    <3>4. /\ RunIds' = 1 .. Len(runs) + 1 /\ Len(runs') = Len(runs) + 1
          /\ \A r \in RunIds : runs'[r] = runs[r]
      BY <1>1, <2>2 DEF RunIds
    <3>5. ASSUME up', NEW r \in RunIds' \ left', runs'[r].status \in InFlight
          PROVE  r \in queue' \cup held' \/ \E p \in requests' : p.run = r /\ p.pc \in {"save", "start"}
      <4>1. CASE r = Len(runs) + 1
        BY <3>2, <4>1
      <4>2. CASE r # Len(runs) + 1
        <5>1. r \in RunIds \ left /\ runs[r].status \in InFlight
          BY <1>1, <2>2, <3>4, <3>5, <4>2
        <5>. QED
          BY <1>1, <3>3, <3>5, <5>1 DEF Carried
      <4>. QED
        BY <4>1, <4>2
    <3>6. LeftHasReason'
      BY <1>1, <2>2, <3>4 DEF LeftHasReason
    <3>. QED
      BY <3>5, <3>6 DEF Carried, InFlight
  <2>. QED
    BY <1>6, <2>1, <2>2, <2>3 DEF Create
<1>7. CASE Save(q)
  <2>1. PICK m : m = [q EXCEPT !.pc = "start", !.run = q.run]
    OBVIOUS
  <2>2. m.pc = "start" /\ m.run = q.run /\ requests' = (requests \ {q}) \cup {m}
    BY <1>3, <1>7, <2>1 DEF Save, Move, Request
  <2>3. RunIds' = RunIds /\ UNCHANGED <<runs, queue, left, unread>>
    BY <1>7 DEF Save, RunIds
  <2>. QED
    BY <1>1, <2>2, <2>3 DEF Carried, LeftHasReason, InFlight
<1>8. CASE Start(q)
  <2>1. /\ RunIds' = RunIds /\ queue' = queue \cup {q.run} /\ requests' = requests \ {q}
        /\ UNCHANGED <<runs, left, unread>>
    BY <1>8 DEF Start, Answer, RunIds
  <2>. QED
    BY <1>1, <2>1 DEF Carried, LeftHasReason, InFlight
<1>. QED
  BY <1>2, <1>5, <1>6, <1>7, <1>8

LEMMA CarriedStep == CarriedInv /\ [Next]_vars => CarriedInv'
<1>. SUFFICES ASSUME CarriedInv, [Next]_vars PROVE Carried' /\ LeftHasReason'
  BY TypeStep DEF CarriedInv, InFlightIsCarried, Carried, LeftHasReason
<1>1. /\ runs \in Seq(RunRow) /\ Len(runs) \in Nat /\ RunIds = 1 .. Len(runs)
      /\ queue \subseteq RunIds /\ held \subseteq RunIds /\ TypeOK /\ Carried /\ LeftHasReason
  BY DEF CarriedInv, TypeInv, TypeOK, RunIds, InFlightIsCarried, Carried, LeftHasReason
<1>2. CASE Handle
  BY <1>2, HandlersCarry
<1>3. CASE Crash
  BY <1>1, <1>3 DEF Crash, Carried, LeftHasReason
<1>4. CASE Restart
  <2>1. RunIds' = RunIds /\ UNCHANGED <<runs, unread>>
    BY <1>4 DEF Restart, RunIds
  <2>2. Carried'
    BY <1>4, <2>1 DEF Restart, Carried, InFlight
  <2>3. ASSUME left' # {} PROVE Len(runs) > RestartLimit
    <3>1. PICK r \in RunIds : PassedOver(r)
      BY <1>4, <2>3 DEF Restart
    <3>. QED
      BY <1>1, <3>1, PassedOverTakesMore
  <2>. QED
    BY <2>1, <2>2, <2>3 DEF LeftHasReason
<1>12. CASE Reclaim
  <2>1. RunIds' = RunIds /\ UNCHANGED <<runs, unread, held, up, requests>>
    BY <1>12 DEF Reclaim, RunIds
  <2>2. PICK r \in left : queue' = queue \cup {r} /\ left' = left \ {r}
    BY <1>12 DEF Reclaim
  <2>3. Carried'
    BY <1>1, <2>1, <2>2 DEF Carried, InFlight
  <2>. QED
    BY <1>1, <2>1, <2>2, <2>3 DEF LeftHasReason
<1>5. ASSUME UNCHANGED <<up, left, unread>>, requests \subseteq requests', Len(runs') = Len(runs),
             \A r \in RunIds : runs'[r].status \in InFlight =>
               \/ r \in queue' \cup held'
               \/ runs[r].status \in InFlight /\ (r \in queue \cup held => r \in queue' \cup held')
      PROVE  Carried' /\ LeftHasReason'
  <2>1. RunIds' = RunIds
    BY <1>5 DEF RunIds
  <2>2. LeftHasReason'
    BY <1>1, <1>5 DEF LeftHasReason
  <2>3. Carried'
    BY <1>1, <1>5, <2>1 DEF Carried, InFlight
  <2>. QED
    BY <2>2, <2>3
<1>6. CASE Arrive \/ Period \/ PruneKeys \/ UNCHANGED vars
  <2>1. UNCHANGED <<runs, queue, held, up, left, unread>> /\ requests \subseteq requests'
    BY <1>6 DEF Arrive, Period, PruneKeys, vars
  <2>. QED
    BY <1>5, <2>1
<1>7. ASSUME NEW r \in queue, TakeSlot(r) PROVE Carried' /\ LeftHasReason'
  <2>1. r \in RunIds /\ queue' = queue \ {r} /\ UNCHANGED <<requests, up, left, unread>>
    BY <1>1, <1>7 DEF TakeSlot, Unrelated
  <2>2. CASE held' = held \cup {r} /\ SetStatus(r, "RUNNING")
    <3>1. Len(runs') = Len(runs) /\ \A p \in RunIds \ {r} : runs'[p] = runs[p]
      BY <1>1, <2>1, <2>2, StatusSet DEF Statuses
    <3>. QED
      BY <1>5, <2>1, <2>2, <3>1
  <2>3. CASE runs[r].status = "ENDED" /\ UNCHANGED <<held, runs>>
    <3>1. runs[r].status \notin InFlight
      BY <2>3 DEF InFlight
    <3>. QED
      BY <1>5, <2>1, <2>3, <3>1
  <2>. QED
    BY <1>7, <2>2, <2>3 DEF TakeSlot
<1>8. CASE Leave
  <2>1. PICK r \in held, s \in {"ENDED", "WAITING"} : held' = held \ {r} /\ SetStatus(r, s)
    BY <1>8 DEF Leave
  <2>2. /\ Len(runs') = Len(runs) /\ runs'[r].status = s /\ s \notin InFlight
        /\ \A p \in RunIds \ {r} : runs'[p] = runs[p]
    BY <1>1, <2>1, StatusSet DEF Statuses, InFlight
  <2>3. UNCHANGED <<queue, requests, up, left, unread>>
    BY <1>8 DEF Leave, Unrelated
  <2>. QED
    BY <1>5, <2>1, <2>2, <2>3
<1>9. CASE Wake
  <2>1. PICK r \in RunIds : SetStatus(r, "RUNNING") /\ queue' = queue \cup {r}
    BY <1>9 DEF Wake
  <2>2. Len(runs') = Len(runs) /\ \A p \in RunIds \ {r} : runs'[p] = runs[p]
    BY <1>1, <2>1, StatusSet DEF Statuses
  <2>3. UNCHANGED <<held, requests, up, left, unread>>
    BY <1>9 DEF Wake, Unrelated
  <2>. QED
    BY <1>5, <2>1, <2>2, <2>3
<1>10. CASE Cancel
  <2>1. PICK r \in RunIds : SetStatus(r, "ENDED")
    BY <1>10 DEF Cancel
  <2>2. /\ Len(runs') = Len(runs) /\ runs'[r].status \notin InFlight
        /\ \A p \in RunIds \ {r} : runs'[p] = runs[p]
    BY <1>1, <2>1, StatusSet DEF Statuses, InFlight
  <2>3. UNCHANGED <<queue, held, requests, up, left, unread>>
    BY <1>10 DEF Cancel, Unrelated
  <2>. QED
    BY <1>5, <2>2, <2>3
<1>11. CASE PruneRuns
  <2>1. runs' = [r \in RunIds |-> IF runs[r].status = "ENDED" /\ runs[r].born < now
                                   THEN [runs[r] EXCEPT !.status = "GONE"] ELSE runs[r]]
        /\ UNCHANGED <<queue, held, requests, up, left, unread>>
    BY <1>11 DEF PruneRuns
  <2>2. \A r \in RunIds : runs'[r] = runs[r] \/ runs'[r] = [runs[r] EXCEPT !.status = "GONE"]
    BY <2>1
  <2>3. \A r \in RunIds : runs[r] \in RunRow
    BY <1>1
  <2>4. \A r \in RunIds : runs'[r].status \in InFlight => runs[r].status \in InFlight
    BY <2>2, <2>3 DEF RunRow, InFlight
  <2>5. Len(runs') = Len(runs)
    BY <1>1, <2>1
  <2>. QED
    BY <1>5, <2>1, <2>4, <2>5
<1>. QED
  BY <1>2, <1>3, <1>4, <1>6, <1>7, <1>8, <1>9, <1>10, <1>11, <1>12 DEF Next

\* However deliveries are repeated and overlap, whatever is cancelled and whenever the
\* engine dies: a pending or running run has somebody who will go on with it, unless its
\* handler could not read it back or a restart passed it over, and no restart does while
\* there are no more than RestartLimit runs (InFlightIsCarried, server.go:1855), the safety
\* half of RunsAreNotLost.
THEOREM AcceptedRunsAreCarried == Spec => []InFlightIsCarried
<1>1. Init => CarriedInv
  BY TypeInit DEF Init, CarriedInv, InFlightIsCarried, RunIds
<1>2. CarriedInv => InFlightIsCarried
  BY DEF CarriedInv
<1>. QED
  BY <1>1, <1>2, CarriedStep, PTL DEF Spec
=============================================================================
