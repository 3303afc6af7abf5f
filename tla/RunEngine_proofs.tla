--------------------------- MODULE RunEngine_proofs ---------------------------
(***************************************************************************)
(* Theorems about RunEngine, for every definition, every number of replicas *)
(* and every bound.                                                        *)
(***************************************************************************)
EXTENDS RunEngine, TLAPS
-----------------------------------------------------------------------------
(* The type invariant. TypeOK alone is not inductive: Clear, Call and the resume *)
(* steps index by the worker's node, so the proof carries that a worker inside   *)
(* the node loop, and a resume under way, is at a node of the definition.        *)

\* The positions at which processRun has a node in hand.
InLoop == {"begin", "top", "enter", "clear", "attempt", "call", "record"}
WorkerPlaced == \A r \in Replica : pc[r] \in InLoop => w[r].cur \in Node
ResumerPlaced ==
  \A r \in Replica : /\ rpc[r] # "idle" => rw[r].node \in Node
                     /\ rpc[r] = "hgo" => rw[r].to \in Node
\* The inductive invariant.
TypeInv == TypeOK /\ WorkerPlaced /\ ResumerPlaced

\* The fields of a worker's locals.
LEMMA LocalFields ==
  ASSUME NEW l \in Locals
  PROVE  /\ l.cur \in NextId /\ l.to \in NextId /\ l.ckpt \in Ckpt
         /\ l.mark \in [Node -> Mark] /\ l.skipped \in SUBSET Node
         /\ l.verdict \in Status /\ l.steps \in Nat /\ l.act \in Act
BY DEF Locals

\* What the invariant says of one worker.
LEMMA Here ==
  ASSUME TypeInv, NEW r \in Replica
  PROVE  /\ w[r] \in Locals
         /\ pc[r] \in InLoop => w[r].cur \in Node
BY DEF TypeInv, TypeOK, WorkerPlaced

\* A worker's move to a position with well-typed locals.
LEMMA WorkerMoves ==
  ASSUME TypeInv, NEW r \in Replica, NEW l \in Locals, NEW p \in PcValues,
         p \in InLoop => l.cur \in Node,
         w' = [w EXCEPT ![r] = l], pc' = [pc EXCEPT ![r] = p]
  PROVE  pc' \in [Replica -> PcValues] /\ w' \in [Replica -> Locals] /\ WorkerPlaced'
BY DEF TypeInv, TypeOK, WorkerPlaced

\* The types of the row and of the history variables.
RowTypes == status \in Status /\ current \in NextId /\ ckpt \in Ckpt /\ mark \in [Node -> Mark]
HistTypes == 
  /\ fired \in [Node -> Nat] /\ arrivals \in [Node -> Nat] /\ orphaned \in [Node -> Nat]
  /\ lateFires \in [Replica -> Nat]

\* A worker's step is typed when what it writes is.
LEMMA WorkerTypes ==
  ASSUME TypeInv, NEW r \in Replica, WorkerOnly, RowTypes', HistTypes',
    pc' \in [Replica -> PcValues], w' \in [Replica -> Locals], WorkerPlaced'
  PROVE TypeInv'
<1>1. TypeOK'
  BY DEF TypeInv, TypeOK, WorkerOnly, RowTypes, HistTypes, leaseVars, hostVars, waitVars, envVars
<1>2. ResumerPlaced'
  BY DEF TypeInv, WorkerOnly, ResumerPlaced, waitVars
<1>. QED BY <1>1, <1>2 DEF TypeInv


\* Three ways a worker moves: it ends its pass, it keeps its locals, it takes new ones.
LEMMA SettleTypes ==
  ASSUME TypeInv, NEW r \in Replica, WorkerOnly, RowTypes', HistTypes',
         NEW v \in Status, ThenSettle(r, v)
  PROVE  TypeInv'
<1>. w[r] \in Locals
  BY Here
<1>1. [w[r] EXCEPT !.verdict = v] \in Locals
  BY DEF Locals
<1>2. /\ w' = [w EXCEPT ![r] = [w[r] EXCEPT !.verdict = v]]
      /\ pc' = [pc EXCEPT ![r] = "finish"]
  BY DEF ThenSettle
<1>. QED
  BY <1>1, <1>2, WorkerMoves, WorkerTypes DEF PcValues, InLoop

LEMMA StayTypes ==
  ASSUME TypeInv, NEW r \in Replica, WorkerOnly, RowTypes', HistTypes',
         NEW p \in PcValues, p \in InLoop => w[r].cur \in Node,
         pc' = [pc EXCEPT ![r] = p], UNCHANGED w
  PROVE  TypeInv'
<1>1. w[r] \in Locals /\ w' = [w EXCEPT ![r] = w[r]]
  BY DEF TypeInv, TypeOK
<1>. QED
  BY <1>1, WorkerMoves, WorkerTypes

LEMMA MoveTypes ==
  ASSUME TypeInv, NEW r \in Replica, WorkerOnly, RowTypes', HistTypes',
         NEW p \in PcValues, NEW l \in Locals, p \in InLoop => l.cur \in Node,
         pc' = [pc EXCEPT ![r] = p], w' = [w EXCEPT ![r] = l]
  PROVE  TypeInv'
BY WorkerMoves, WorkerTypes

\* The prologue: a pass starts at the stored node, or at the trigger.
LEMMA LoadTypes ==
  ASSUME TypeInv, NEW r \in Replica, Load(r)
  PROVE  TypeInv'
<1>1. WorkerOnly /\ RowTypes' /\ HistTypes'
  BY DEF Load, TypeInv, TypeOK, RowTypes, HistTypes, rowVars, histVars
<1>2. w[r] \in Locals /\ StartNode \in Node
  BY DefinitionAssumption DEF TypeInv, TypeOK, StartNode, NextId
<1>3. CASE pc' = [pc EXCEPT ![r] = "release"] /\ UNCHANGED w
  BY <1>1, <1>3, StayTypes DEF PcValues, InLoop
<1>4. CASE ThenSettle(r, "FAILED")
  BY <1>1, <1>4, SettleTypes DEF Status, Terminal
<1>5. CASE /\ pc' = [pc EXCEPT ![r] = "begin"]
           /\ w' = [w EXCEPT ![r].cur = StartNode, ![r].pending = (status = "PENDING")]
  <2>1. PICK l \in Locals : l = [w[r] EXCEPT !.cur = StartNode, !.pending = (status = "PENDING")]
    BY <1>2 DEF Locals, NextId
  <2>2. l.cur \in Node /\ w' = [w EXCEPT ![r] = l]
    BY <1>2, <1>5, <2>1 DEF Locals
  <2>. QED
    BY <1>1, <1>5, <2>2, MoveTypes DEF PcValues
<1>. QED
  BY <1>3, <1>4, <1>5 DEF Load

\* The RUNNING write and the context read keep the types.
LEMMA BeginTypes ==
  ASSUME TypeInv, NEW r \in Replica, Begin(r)
  PROVE  TypeInv'
<1>1. WorkerOnly /\ RowTypes' /\ HistTypes'
  BY DEF Begin, TypeInv, TypeOK, RowTypes, HistTypes, histVars, Status
<1>2. w[r] \in Locals /\ w[r].cur \in Node /\ ckpt \in Ckpt /\ mark \in [Node -> Mark]
  BY Here DEF Begin, InLoop, TypeInv, TypeOK
<1>3. PICK l \in Locals : l = [w[r] EXCEPT !.ckpt = ckpt, !.mark = mark]
  BY <1>2 DEF Locals
<1>4. l.cur \in Node /\ w' = [w EXCEPT ![r] = l]
  BY <1>2, <1>3 DEF Locals, Begin
<1>. QED
  BY <1>1, <1>4, MoveTypes DEF Begin, PcValues

\* The checks at the head of the loop keep the types.
LEMMA LoopTopTypes ==
  ASSUME TypeInv, NEW r \in Replica, LoopTop(r)
  PROVE  TypeInv'
<1>1. WorkerOnly /\ RowTypes' /\ HistTypes'
  BY DEF LoopTop, TypeInv, TypeOK, RowTypes, HistTypes, rowVars, histVars
<1>2. w[r] \in Locals /\ w[r].cur \in Node
  BY Here DEF LoopTop, InLoop
<1>3. CASE pc' = [pc EXCEPT ![r] = "release"] /\ UNCHANGED w
  BY <1>1, <1>3, StayTypes DEF PcValues, InLoop
<1>4. CASE ThenSettle(r, "FAILED")
  BY <1>1, <1>4, SettleTypes DEF Status, Terminal
<1>5. CASE pc' = [pc EXCEPT ![r] = "enter"] /\ w' = [w EXCEPT ![r].steps = @ + 1]
  <2>. w[r].steps + 1 \in Nat
    BY <1>2, LocalFields
  <2>1. PICK l \in Locals : l = [w[r] EXCEPT !.steps = w[r].steps + 1]
    BY <1>2 DEF Locals
  <2>2. l.cur \in Node /\ w' = [w EXCEPT ![r] = l]
    BY <1>2, <1>5, <2>1 DEF Locals
  <2>. QED
    BY <1>1, <1>5, <2>2, MoveTypes DEF PcValues
<1>. QED
  BY <1>3, <1>4, <1>5 DEF LoopTop

\* Entering or skipping a node: a stored checkpoint leads to a node.
LEMMA EnterTypes ==
  ASSUME TypeInv, NEW r \in Replica, Enter(r)
  PROVE  TypeInv'
<1>1. w[r] \in Locals /\ w[r].cur \in Node
  BY Here DEF Enter, InLoop
<1>2. WorkerOnly /\ RowTypes' /\ HistTypes'
  BY <1>1 DEF Enter, TypeInv, TypeOK, RowTypes, HistTypes, histVars, NextId
<1>3. CASE UNCHANGED w /\ \E p \in {"attempt", "clear"} : pc' = [pc EXCEPT ![r] = p]
  BY <1>1, <1>2, <1>3, StayTypes DEF PcValues
<1>4. CASE ThenSettle(r, "COMPLETED")
  BY <1>2, <1>4, SettleTypes DEF Status, Terminal
<1>5. CASE /\ Checkpointed(r, w[r].cur) /\ w[r].ckpt[w[r].cur] # NoNode
           /\ pc' = [pc EXCEPT ![r] = "top"]
           /\ w' = [w EXCEPT ![r].cur = w[r].ckpt[w[r].cur], ![r].skipped = @ \cup {w[r].cur}]
  <2>1. w[r].ckpt[w[r].cur] \in Node
    BY <1>1, <1>5, LocalFields DEF Checkpointed, Ckpt, NextId
  <2>2. PICK l \in Locals : l = [w[r] EXCEPT !.cur = w[r].ckpt[w[r].cur], !.skipped = @ \cup {w[r].cur}]
    BY <1>1, <2>1 DEF Locals, NextId
  <2>3. l.cur \in Node /\ w' = [w EXCEPT ![r] = l]
    BY <1>1, <1>5, <2>1, <2>2 DEF Locals
  <2>. QED
    BY <1>2, <1>5, <2>3, MoveTypes DEF PcValues
<1>. QED
  BY <1>3, <1>4, <1>5 DEF Enter

\* clearCheckpoint keeps the types.
LEMMA ClearTypes ==
  ASSUME TypeInv, NEW r \in Replica, Clear(r)
  PROVE  TypeInv'
<1>1. w[r] \in Locals /\ w[r].cur \in Node
  BY Here DEF Clear, InLoop
<1>2. [w[r].ckpt EXCEPT ![w[r].cur] = Unset] \in Ckpt
  BY <1>1, LocalFields DEF Ckpt
<1>3. PICK l \in Locals : l = [w[r] EXCEPT !.ckpt = [w[r].ckpt EXCEPT ![w[r].cur] = Unset]]
  BY <1>1, <1>2 DEF Locals
<1>4. l.cur \in Node /\ l.ckpt \in Ckpt /\ w' = [w EXCEPT ![r] = l]
  BY <1>1, <1>2, <1>3 DEF Clear, Locals
<1>5. ckpt' = l.ckpt /\ mark' = w[r].mark
  BY <1>4 DEF Clear, TypeInv, TypeOK
<1>6. WorkerOnly /\ RowTypes' /\ HistTypes'
  BY <1>1, <1>4, <1>5, LocalFields DEF Clear, TypeInv, TypeOK, RowTypes, HistTypes, histVars
<1>. QED
  BY <1>4, <1>6, MoveTypes DEF Clear, PcValues

\* The cancel check before an attempt keeps the types.
LEMMA AttemptTypes ==
  ASSUME TypeInv, NEW r \in Replica, Attempt(r)
  PROVE  TypeInv'
<1>1. w[r] \in Locals /\ w[r].cur \in Node
  BY Here DEF Attempt, InLoop
<1>2. WorkerOnly /\ RowTypes' /\ HistTypes'
  BY DEF Attempt, TypeInv, TypeOK, RowTypes, HistTypes, rowVars, histVars
<1>3. CASE pc' = [pc EXCEPT ![r] = "call"] /\ UNCHANGED w
  BY <1>1, <1>2, <1>3, StayTypes DEF PcValues
<1>4. CASE pc' = [pc EXCEPT ![r] = "record"] /\ w' = [w EXCEPT ![r].act = "ERROR", ![r].to = NoNode]
  <2>1. PICK l \in Locals : l = [w[r] EXCEPT !.act = "ERROR", !.to = NoNode]
    BY <1>1 DEF Locals, Act, NextId
  <2>2. l.cur \in Node /\ w' = [w EXCEPT ![r] = l]
    BY <1>1, <1>4, <2>1 DEF Locals
  <2>. QED
    BY <1>2, <1>4, <2>2, MoveTypes DEF PcValues
<1>. QED
  BY <1>3, <1>4 DEF Attempt

\* ExecuteNode returns an action and a next id of the definition.
LEMMA CallTypes ==
  ASSUME TypeInv, NEW r \in Replica, Call(r)
  PROVE  TypeInv'
<1>1. w[r] \in Locals /\ w[r].cur \in Node
  BY Here DEF Call, InLoop
<1>2. PICK res \in Results(w[r].cur, w[r].mark) :
        w' = [w EXCEPT ![r].act = res[1], ![r].to = res[2]]
  BY DEF Call
<1>3. res[1] \in Act /\ res[2] \in NextId
  BY <1>1, DefinitionAssumption DEF Results, Act, NextId, Kinds
<1>4. PICK l \in Locals : l = [w[r] EXCEPT !.act = res[1], !.to = res[2]]
  BY <1>1, <1>3 DEF Locals
<1>5. l.cur \in Node /\ w' = [w EXCEPT ![r] = l]
  BY <1>1, <1>2, <1>4 DEF Locals
<1>6. HistTypes'
  <2>1. CASE UNCHANGED <<fired, lateFires>>
    BY <2>1 DEF Call, TypeInv, TypeOK, HistTypes
  <2>2. CASE /\ fired' = [fired EXCEPT ![w[r].cur] = @ + 1]
             /\ \E k \in Nat : lateFires' = [lateFires EXCEPT ![r] = @ + k]
    BY <1>1, <2>2 DEF Call, TypeInv, TypeOK, HistTypes
  <2>. QED
    BY <2>1, <2>2 DEF Call
<1>7. WorkerOnly /\ RowTypes'
  BY DEF Call, TypeInv, TypeOK, RowTypes, rowVars
<1>. QED
  BY <1>5, <1>6, <1>7, MoveTypes DEF Call, PcValues

\* Storing checkpoint n -> m and going on to m.
LEMMA AdvanceTypes ==
  ASSUME TypeInv, NEW r \in Replica, NEW n \in Node, NEW m \in NextId, Advance(r, n, m),
         WorkerOnly, UNCHANGED <<status, current, fired, orphaned, lateFires>>
  PROVE  TypeInv'
<1>1. w[r] \in Locals
  BY Here
<1>2. ckpt' \in Ckpt /\ mark' \in [Node -> Mark]
  BY <1>1, LocalFields DEF Advance, Ckpt
<1>3. RowTypes' /\ HistTypes'
  BY <1>2 DEF Advance, TypeInv, TypeOK, RowTypes, HistTypes, NextId
<1>4. CASE m = NoNode
  <2>1. PICK l \in Locals : l = [w[r] EXCEPT !.ckpt = ckpt', !.fresh = TRUE, !.verdict = "COMPLETED"]
    BY <1>1, <1>2 DEF Locals, Status, Terminal
  <2>2. w' = [w EXCEPT ![r] = l] /\ pc' = [pc EXCEPT ![r] = "finish"]
    BY <1>4, <2>1 DEF Advance
  <2>. QED
    BY <1>3, <2>2, MoveTypes DEF PcValues, InLoop
<1>5. CASE m # NoNode
  <2>1. PICK l \in Locals : l = [w[r] EXCEPT !.ckpt = ckpt', !.fresh = TRUE, !.cur = m]
    BY <1>1, <1>2 DEF Locals
  <2>2. l.cur \in Node
    BY <1>1, <1>5, <2>1 DEF Locals, NextId
  <2>3. w' = [w EXCEPT ![r] = l] /\ pc' = [pc EXCEPT ![r] = "top"]
    BY <1>5, <2>1 DEF Advance
  <2>. QED
    BY <1>3, <2>2, <2>3, MoveTypes DEF PcValues
<1>. QED
  BY <1>4, <1>5

\* The six ways to record a result keep the types.
LEMMA RecordTypes ==
  ASSUME TypeInv, NEW r \in Replica,
         \/ RecordNext(r) \/ RecordErrorRoute(r) \/ RecordTolerated(r)
         \/ RecordFailure(r) \/ RecordWait(r) \/ RecordEnd(r)
  PROVE  TypeInv'
<1>1. w[r] \in Locals /\ w[r].cur \in Node
  BY Here DEF RecordNext, RecordErrorRoute, RecordTolerated, RecordFailure,
              RecordWait, RecordEnd, InLoop
<1>2. w[r].to \in NextId /\ w[r].ckpt \in Ckpt /\ w[r].mark \in [Node -> Mark]
  BY <1>1, LocalFields
<1>3. OnError[w[r].cur] \in NextId /\ Follow[w[r].cur] \in NextId
  BY <1>1, DefinitionAssumption
<1>4. CASE RecordNext(r)
  BY <1>1, <1>2, <1>4, AdvanceTypes DEF RecordNext
<1>5. CASE RecordErrorRoute(r)
  BY <1>1, <1>3, <1>5, AdvanceTypes DEF RecordErrorRoute
<1>6. CASE RecordTolerated(r)
  <2>1. WorkerOnly /\ RowTypes'
    BY <1>2, <1>6 DEF RecordTolerated, TypeInv, TypeOK, RowTypes
  <2>2. CASE ThenSettle(r, "COMPLETED") /\ UNCHANGED arrivals
    <3>1. HistTypes'
      BY <1>6, <2>2 DEF RecordTolerated, TypeInv, TypeOK, HistTypes
    <3>. QED
      BY <2>1, <2>2, <3>1, SettleTypes DEF Status, Terminal
  <2>3. CASE /\ Follow[w[r].cur] # NoNode /\ pc' = [pc EXCEPT ![r] = "top"]
             /\ w' = [w EXCEPT ![r].cur = Follow[w[r].cur]]
             /\ arrivals' = [arrivals EXCEPT ![Follow[w[r].cur]] = @ + 1]
    <3>1. Follow[w[r].cur] \in Node
      BY <1>3, <2>3 DEF NextId
    <3>2. HistTypes'
      BY <1>6, <2>3, <3>1 DEF RecordTolerated, TypeInv, TypeOK, HistTypes
    <3>3. PICK l \in Locals : l = [w[r] EXCEPT !.cur = Follow[w[r].cur]]
      BY <1>1, <1>3 DEF Locals
    <3>4. l.cur \in Node /\ w' = [w EXCEPT ![r] = l]
      BY <1>1, <2>3, <3>1, <3>3 DEF Locals
    <3>. QED
      BY <2>1, <2>3, <3>2, <3>4, MoveTypes DEF PcValues
  <2>. QED
    BY <1>6, <2>2, <2>3 DEF RecordTolerated
<1>7. CASE RecordFailure(r)
  <2>1. WorkerOnly /\ RowTypes' /\ HistTypes' /\ ThenSettle(r, "FAILED")
    BY <1>2, <1>7 DEF RecordFailure, TypeInv, TypeOK, RowTypes, HistTypes, histVars
  <2>. QED
    BY <2>1, SettleTypes DEF Status, Terminal
<1>8. CASE RecordWait(r)
  <2>1. PauseStatus(w[r].cur) \in Status
    BY DEF PauseStatus, Status, Waiting
  <2>2. ckpt \in Ckpt /\ mark \in [Node -> Mark]
    BY DEF TypeInv, TypeOK
  <2>3. [w[r].mark EXCEPT ![w[r].cur] = "waiting"] \in [Node -> Mark]
    BY <1>2 DEF Mark
  <2>4. ckpt' \in Ckpt /\ mark' \in [Node -> Mark]
    BY <1>2, <1>8, <2>2, <2>3 DEF RecordWait
  <2>5. /\ WorkerOnly /\ RowTypes' /\ HistTypes'
        /\ ThenSettle(r, PauseStatus(w[r].cur))
    BY <1>8, <2>4 DEF RecordWait, TypeInv, TypeOK, RowTypes, HistTypes, histVars
  <2>. QED
    BY <2>1, <2>5, SettleTypes
<1>9. CASE RecordEnd(r)
  <2>1. PICK v \in Status : ThenSettle(r, v)
    BY <1>9 DEF RecordEnd, Status, Terminal
  <2>2. WorkerOnly /\ RowTypes' /\ HistTypes'
    BY <1>9 DEF RecordEnd, TypeInv, TypeOK, RowTypes, HistTypes, rowVars, histVars
  <2>. QED
    BY <2>1, <2>2, SettleTypes
<1>. QED
  BY <1>4, <1>5, <1>6, <1>7, <1>8, <1>9

\* The status write that ends a pass writes a status.
LEMMA FinishTypes ==
  ASSUME TypeInv, NEW r \in Replica, Finish(r)
  PROVE  TypeInv'
<1>1. w[r].verdict \in Status
  BY Here, LocalFields
<1>2. WorkerOnly /\ RowTypes' /\ HistTypes'
  BY <1>1 DEF Finish, TypeInv, TypeOK, RowTypes, HistTypes, histVars
<1>. QED
  BY <1>2, StayTypes DEF Finish, PcValues, InLoop

\* A resume's move to a position with well-typed locals.
LEMMA ResumerMoves ==
  ASSUME TypeInv, NEW r \in Replica, NEW l \in RLocals, NEW p \in RpcValues,
         p # "idle" => l.node \in Node, p = "hgo" => l.to \in Node,
         rw' = [rw EXCEPT ![r] = l], rpc' = [rpc EXCEPT ![r] = p]
  PROVE  rpc' \in [Replica -> RpcValues] /\ rw' \in [Replica -> RLocals] /\ ResumerPlaced'
BY DEF TypeInv, TypeOK, ResumerPlaced

\* What a resume step may change besides its own position.
ResumerFrame ==
  /\ RowTypes' /\ arrivals' \in [Node -> Nat] /\ queue' \in [Replica -> Nat]
  /\ stalls' \in Nat /\ deliveries' \in [Node -> Nat]
  /\ UNCHANGED <<leaseVars, up, recover, workVars, fired, orphaned, lateFires>>
  /\ UNCHANGED <<crashes, dbErrors, cancels>>

\* A resume step is typed when what it writes is.
LEMMA ResumerTypes ==
  ASSUME TypeInv, ResumerFrame,
         rpc' \in [Replica -> RpcValues], rw' \in [Replica -> RLocals], ResumerPlaced'
  PROVE  TypeInv'
<1>1. TypeOK'
  BY DEF TypeInv, TypeOK, ResumerFrame, RowTypes, leaseVars, workVars
<1>2. WorkerPlaced'
  BY DEF TypeInv, ResumerFrame, WorkerPlaced, workVars
<1>. QED
  BY <1>1, <1>2 DEF TypeInv

\* What the invariant says of one resume.
LEMMA ResumerHere ==
  ASSUME TypeInv, NEW r \in Replica
  PROVE  /\ rw[r] \in RLocals /\ rw[r].ckpt \in Ckpt /\ rw[r].mark \in [Node -> Mark]
         /\ rpc[r] # "idle" => rw[r].node \in Node
         /\ rpc[r] = "hgo" => rw[r].to \in Node
BY DEF TypeInv, TypeOK, ResumerPlaced, RLocals

\* A resume starts with well-typed locals.
LEMMA RLocals0Types == RLocals0 \in RLocals
BY DefinitionAssumption DEF RLocals0, RLocals, NoCkpt, NoMark, Ckpt, Mark, NextId

\* Accepting a decision keeps the types.
LEMMA DeliverTypes ==
  ASSUME TypeInv, NEW r \in Replica, Deliver(r)
  PROVE  TypeInv'
<1>1. PICK n \in Node :
        /\ deliveries' = [deliveries EXCEPT ![n] = @ + 1]
        /\ \/ /\ rpc' = [rpc EXCEPT ![r] = "hload"]
              /\ rw' = [rw EXCEPT ![r] = [RLocals0 EXCEPT !.node = n]]
           \/ UNCHANGED waitVars
  BY DEF Deliver
<1>2. ResumerFrame
  BY <1>1 DEF Deliver, TypeInv, TypeOK, ResumerOnly, ResumerFrame, RowTypes, rowVars, histVars
<1>3. CASE UNCHANGED waitVars
  BY <1>2, <1>3, ResumerTypes DEF TypeInv, TypeOK, ResumerPlaced, waitVars
<1>4. CASE /\ rpc' = [rpc EXCEPT ![r] = "hload"]
           /\ rw' = [rw EXCEPT ![r] = [RLocals0 EXCEPT !.node = n]]
  <2>1. PICK l \in RLocals : l = [RLocals0 EXCEPT !.node = n]
    BY RLocals0Types DEF RLocals, NextId
  <2>2. l.node \in Node
    BY <2>1, RLocals0Types DEF RLocals
  <2>. QED
    BY <1>2, <1>4, <2>1, <2>2, ResumerMoves, ResumerTypes DEF RpcValues
<1>. QED
  BY <1>1, <1>3, <1>4

\* Reading the context of a waiting run keeps the types.
LEMMA HumanLoadTypes ==
  ASSUME TypeInv, NEW r \in Replica, HumanLoad(r)
  PROVE  TypeInv'
<1>1. rw[r] \in RLocals /\ rw[r].node \in Node /\ ckpt \in Ckpt /\ mark \in [Node -> Mark]
  BY ResumerHere DEF HumanLoad, TypeInv, TypeOK
<1>2. PICK l \in RLocals : l = [rw[r] EXCEPT !.ckpt = ckpt, !.mark = mark]
  BY <1>1 DEF RLocals
<1>3. l.node \in Node /\ rw' = [rw EXCEPT ![r] = l]
  BY <1>1, <1>2 DEF RLocals, HumanLoad
<1>4. ResumerFrame
  BY DEF HumanLoad, TypeInv, TypeOK, ResumerOnly, ResumerFrame, RowTypes, rowVars, histVars, envVars
<1>. QED
  BY <1>3, <1>4, ResumerMoves, ResumerTypes DEF HumanLoad, RpcValues

\* A decision leads along an edge to a node, or fails the run.
LEMMA HumanRouteTypes ==
  ASSUME TypeInv, NEW r \in Replica, HumanRoute(r)
  PROVE  TypeInv'
<1>1. rw[r] \in RLocals /\ rw[r].node \in Node
  BY ResumerHere DEF HumanRoute
<1>2. CASE status' = "FAILED" /\ rpc' = [rpc EXCEPT ![r] = "idle"] /\ UNCHANGED <<ckpt, mark, rw>>
  <2>1. ResumerFrame
    BY <1>2 DEF HumanRoute, TypeInv, TypeOK, ResumerOnly, ResumerFrame, RowTypes, histVars, envVars, Status, Terminal
  <2>2. rw' = [rw EXCEPT ![r] = rw[r]]
    BY <1>2 DEF TypeInv, TypeOK
  <2>. QED
    BY <1>1, <1>2, <2>1, <2>2, ResumerMoves, ResumerTypes DEF RpcValues
<1>3. ASSUME NEW m \in Routes[rw[r].node] \ {NoNode},
             rw' = [rw EXCEPT ![r].to = m],
             ckpt' = [rw[r].ckpt EXCEPT ![m] = Unset], mark' = rw[r].mark,
             rpc' = [rpc EXCEPT ![r] = "hgo"], UNCHANGED status
      PROVE  TypeInv'
  <2>1. m \in Node
    BY <1>1, <1>3, DefinitionAssumption DEF NextId
  <2>2. ckpt' \in Ckpt /\ mark' \in [Node -> Mark]
    BY <1>3, <2>1, ResumerHere DEF Ckpt
  <2>3. ResumerFrame
    BY <1>3, <2>2 DEF HumanRoute, TypeInv, TypeOK, ResumerOnly, ResumerFrame, RowTypes, histVars, envVars
  <2>4. PICK l \in RLocals : l = [rw[r] EXCEPT !.to = m]
    BY <1>1, <2>1 DEF RLocals, NextId
  <2>5. l.node \in Node /\ l.to \in Node /\ rw' = [rw EXCEPT ![r] = l]
    BY <1>1, <1>3, <2>1, <2>4 DEF RLocals
  <2>. QED
    BY <1>3, <2>3, <2>5, ResumerMoves, ResumerTypes DEF RpcValues
<1>. QED
  BY <1>2, <1>3 DEF HumanRoute

\* The RUNNING write of a resume keeps the types.
LEMMA HumanGoTypes ==
  ASSUME TypeInv, NEW r \in Replica, HumanGo(r)
  PROVE  TypeInv'
<1>1. rw[r] \in RLocals /\ rw[r].to \in Node
  BY ResumerHere DEF HumanGo
<1>2. ResumerFrame
  BY <1>1 DEF HumanGo, WakeNode, TypeInv, TypeOK, ResumerFrame, RowTypes, Status, NextId, leaseVars, workVars, envVars
<1>3. rw' = [rw EXCEPT ![r] = rw[r]] /\ rpc' = [rpc EXCEPT ![r] = "idle"]
  BY DEF HumanGo, TypeInv, TypeOK
<1>. QED
  BY <1>1, <1>2, <1>3, ResumerMoves, ResumerTypes DEF RpcValues

\* The three steps of the timer loop keep the types.
LEMMA TimerTypes ==
  ASSUME TypeInv, NEW r \in Replica, TimerScan(r) \/ TimerMark(r) \/ TimerGo(r)
  PROVE  TypeInv'
<1>1. CASE TimerScan(r)
  <2>1. current \in Node /\ ckpt \in Ckpt /\ mark \in [Node -> Mark]
    BY <1>1 DEF TimerScan, TypeInv, TypeOK, NextId
  <2>2. PICK l \in RLocals : l = [RLocals0 EXCEPT !.node = current, !.ckpt = ckpt, !.mark = mark]
    BY <2>1, RLocals0Types DEF RLocals, NextId
  <2>3. l.node \in Node /\ rw' = [rw EXCEPT ![r] = l]
    BY <1>1, <2>1, <2>2, RLocals0Types DEF RLocals, TimerScan
  <2>4. ResumerFrame
    BY <1>1 DEF TimerScan, TypeInv, TypeOK, ResumerOnly, ResumerFrame, RowTypes, rowVars, histVars
  <2>. QED
    BY <1>1, <2>3, <2>4, ResumerMoves, ResumerTypes DEF TimerScan, RpcValues
<1>2. CASE TimerMark(r)
  <2>1. rw[r] \in RLocals /\ rw[r].node \in Node
    BY <1>2, ResumerHere DEF TimerMark
  <2>2. ckpt' \in Ckpt /\ mark' \in [Node -> Mark]
    BY <1>2, <2>1, ResumerHere DEF TimerMark, Mark
  <2>3. ResumerFrame
    BY <1>2, <2>2 DEF TimerMark, TypeInv, TypeOK, ResumerOnly, ResumerFrame, RowTypes, histVars, envVars
  <2>4. rw' = [rw EXCEPT ![r] = rw[r]]
    BY <1>2 DEF TimerMark, TypeInv, TypeOK
  <2>. QED
    BY <1>2, <2>1, <2>3, <2>4, ResumerMoves, ResumerTypes DEF TimerMark, RpcValues
<1>3. CASE TimerGo(r)
  <2>1. rw[r] \in RLocals /\ rw' = [rw EXCEPT ![r] = rw[r]]
    BY <1>3, ResumerHere DEF TimerGo, TypeInv, TypeOK
  <2>2. ResumerFrame
    BY <1>3 DEF TimerGo, TypeInv, TypeOK, ResumerOnly, ResumerFrame, RowTypes, Status, histVars, envVars
  <2>. QED
    BY <1>3, <2>1, <2>2, ResumerMoves, ResumerTypes DEF TimerGo, RpcValues
<1>. QED
  BY <1>1, <1>2, <1>3
-----------------------------------------------------------------------------
\* A pass starts with well-typed locals.
LEMMA Locals0Types == Locals0 \in Locals
BY DefinitionAssumption
   DEF Locals0, Locals, NoCkpt, NoMark, Ckpt, Mark, NextId, Act, Status, Terminal


\* What starting, heartbeats and recovery may change.
HostFrame ==
  /\ queue' \in [Replica -> Nat] /\ dbErrors' \in Nat
  /\ lease' \in {"none", "live", "expired"}
  /\ up' \in [Replica -> BOOLEAN] /\ recover' \in [Replica -> BOOLEAN]
  /\ lost' \in [Replica -> BOOLEAN]
  /\ UNCHANGED <<pc, w, waitVars, rowVars, histVars, owner>>
  /\ UNCHANGED <<stalls, crashes, cancels, deliveries>>

\* Refused starts, heartbeats, reclaims and recovery keep the types.
LEMMA HostTypes ==
  ASSUME TypeInv, NEW r \in Replica,
         \/ Skip(r) \/ Heartbeat(r) \/ HeartbeatError(r) \/ Reclaim(r)
         \/ Restart(r) \/ ResumeInFlight(r)
  PROVE  TypeInv'
<1>. USE DEF TypeInv, TypeOK, HostFrame, rowVars, leaseVars, workVars, waitVars, histVars,
             hostVars, envVars
<1>1. CASE Skip(r)
  <2>1. HostFrame
    BY <1>1 DEF Skip
  <2>. QED
    BY <2>1 DEF WorkerPlaced, ResumerPlaced
<1>2. CASE Heartbeat(r)
  <2>1. HostFrame
    BY <1>2 DEF Heartbeat
  <2>. QED
    BY <2>1 DEF WorkerPlaced, ResumerPlaced
<1>3. CASE HeartbeatError(r)
  <2>1. HostFrame
    BY <1>3 DEF HeartbeatError
  <2>. QED
    BY <2>1 DEF WorkerPlaced, ResumerPlaced
<1>4. CASE Reclaim(r)
  <2>1. HostFrame
    BY <1>4 DEF Reclaim
  <2>. QED
    BY <2>1 DEF WorkerPlaced, ResumerPlaced
<1>5. CASE Restart(r)
  <2>1. HostFrame
    BY <1>5 DEF Restart
  <2>. QED
    BY <2>1 DEF WorkerPlaced, ResumerPlaced
<1>6. CASE ResumeInFlight(r)
  <2>1. HostFrame
    BY <1>6 DEF ResumeInFlight
  <2>. QED
    BY <2>1 DEF WorkerPlaced, ResumerPlaced
<1>. QED
  BY <1>1, <1>2, <1>3, <1>4, <1>5, <1>6

\* A failed read of the row keeps the types.
LEMMA ReadErrorTypes ==
  ASSUME TypeInv, NEW r \in Replica, ReadError(r)
  PROVE  TypeInv'
<1>1. w[r] \in Locals /\ (pc[r] \in InLoop => w[r].cur \in Node)
  BY Here
<1>2. PICK l \in Locals : l = [w[r] EXCEPT !.steps = @ + 1]
  <2>1. w[r].steps + 1 \in Nat
    BY <1>1 DEF Locals
  <2>2. [w[r] EXCEPT !.steps = @ + 1] \in Locals
    BY <1>1, <2>1 DEF Locals
  <2>. QED
    BY <2>2
<1>3. PICK p \in {"release", "enter", "call"} : pc' = [pc EXCEPT ![r] = p]
  BY DEF ReadError
<1>4. p \in InLoop => w[r].cur \in Node
  BY <1>1, <1>3 DEF ReadError, InLoop, TypeInv, TypeOK
<1>5. l.cur = w[r].cur
  BY <1>1, <1>2 DEF Locals
<1>6. w' = [w EXCEPT ![r] = w[r]] \/ w' = [w EXCEPT ![r] = l]
  BY <1>2 DEF ReadError, TypeInv, TypeOK
<1>7. pc' \in [Replica -> PcValues] /\ w' \in [Replica -> Locals] /\ WorkerPlaced'
  BY <1>1, <1>3, <1>4, <1>5, <1>6, WorkerMoves DEF PcValues
<1>8. ResumerPlaced' /\ TypeOK'
  BY <1>7 DEF ReadError, TypeInv, TypeOK, ResumerPlaced, rowVars, leaseVars, waitVars,
              histVars, hostVars
<1>. QED
  BY <1>7, <1>8 DEF TypeInv

\* A database that answers always fails no read and no heartbeat.
LEMMA DatabaseAnswers ==
  ASSUME MaxDbErrors = 0, dbErrors \in Nat, NEW r
  PROVE  ~ReadError(r) /\ ~HeartbeatError(r)
BY DEF ReadError, HeartbeatError

\* Claiming and releasing the lease keep the types.
LEMMA LeaseChangeTypes ==
  ASSUME TypeInv, NEW r \in Replica, Claim(r) \/ Release(r)
  PROVE  TypeInv'
<1>. USE DEF rowVars, leaseVars, workVars, waitVars, histVars, hostVars, envVars
<1>1. CASE Claim(r)
  <2>1. TypeOK'
    BY <1>1, Locals0Types DEF Claim, TypeInv, TypeOK, PcValues
  <2>2. WorkerPlaced' /\ ResumerPlaced'
    BY <1>1 DEF Claim, TypeInv, TypeOK, WorkerPlaced, ResumerPlaced, InLoop
  <2>. QED
    BY <2>1, <2>2 DEF TypeInv
<1>2. CASE Release(r)
  <2>1. TypeOK'
    BY <1>2 DEF Release, TypeInv, TypeOK, PcValues
  <2>2. WorkerPlaced' /\ ResumerPlaced'
    BY <1>2 DEF Release, TypeInv, TypeOK, WorkerPlaced, ResumerPlaced, InLoop
  <2>. QED
    BY <2>1, <2>2 DEF TypeInv
<1>. QED
  BY <1>1, <1>2

\* A crash keeps the types; an orphaned node is a node.
LEMMA CrashTypes ==
  ASSUME TypeInv, NEW r \in Replica, Crash(r)
  PROVE  TypeInv'
<1>. USE DEF rowVars, histVars
<1>1. orphaned' \in [Node -> Nat]
  <2>1. CASE Unrecorded(r)
    <3>1. w[r].cur \in Node
      BY <2>1, Here, LocalFields DEF Unrecorded, NextId
    <3>. QED
      BY <2>1, <3>1 DEF Crash, TypeInv, TypeOK
  <2>. QED
    BY <2>1 DEF Crash, TypeInv, TypeOK
<1>2. /\ w' \in [Replica -> Locals] /\ pc' \in [Replica -> PcValues]
      /\ rw' \in [Replica -> RLocals] /\ rpc' \in [Replica -> RpcValues]
  BY Locals0Types, RLocals0Types DEF Crash, TypeInv, TypeOK, PcValues, RpcValues
<1>3. TypeOK'
  BY <1>1, <1>2 DEF Crash, TypeInv, TypeOK
<1>4. WorkerPlaced' /\ ResumerPlaced'
  BY DEF Crash, TypeInv, TypeOK, WorkerPlaced, ResumerPlaced, InLoop
<1>. QED
  BY <1>3, <1>4 DEF TypeInv

\* An expiring lease and a user's cancel keep the types.
LEMMA OutsideTypes ==
  ASSUME TypeInv, Expire \/ Cancel
  PROVE  TypeInv'
<1>. USE DEF rowVars, leaseVars, workVars, waitVars, histVars, hostVars
<1>1. TypeOK'
  BY DEF Expire, Cancel, TypeInv, TypeOK, Status, Terminal
<1>2. WorkerPlaced' /\ ResumerPlaced'
  BY DEF Expire, Cancel, TypeInv, WorkerPlaced, ResumerPlaced
<1>. QED
  BY <1>1, <1>2 DEF TypeInv

\* The invariant holds when createRun has inserted the row.
LEMMA InitTypes == Init => TypeInv
<1>. SUFFICES ASSUME Init PROVE TypeInv
  OBVIOUS
<1>1. TypeOK
  <2>1. /\ ckpt \in Ckpt /\ mark \in [Node -> Mark] /\ current \in NextId
        /\ status \in Status
    BY DEF Init, Ckpt, NoCkpt, NoMark, Mark, NextId, Status
  <2>2. w \in [Replica -> Locals] /\ rw \in [Replica -> RLocals]
    BY Locals0Types, RLocals0Types DEF Init
  <2>3. queue \in [Replica -> Nat]
    BY DEF Init
  <2>. QED
    BY <2>1, <2>2, <2>3 DEF Init, TypeOK, PcValues, RpcValues
<1>2. WorkerPlaced /\ ResumerPlaced
  BY DEF Init, WorkerPlaced, ResumerPlaced, InLoop
<1>. QED
  BY <1>1, <1>2 DEF TypeInv

\* Every step, and a stutter, keeps the invariant.
LEMMA StepTypes ==
  ASSUME TypeInv, [Next]_vars
  PROVE  TypeInv'
<1>1. CASE UNCHANGED vars
  BY <1>1 DEF vars, rowVars, leaseVars, hostVars, workVars, waitVars, histVars, envVars,
              TypeInv, TypeOK, WorkerPlaced, ResumerPlaced
<1>2. ASSUME NEW r \in Replica, Worker(r)
      PROVE  TypeInv'
  BY <1>2, LoadTypes, BeginTypes, LoopTopTypes, EnterTypes, ClearTypes, AttemptTypes,
     CallTypes, RecordTypes, FinishTypes DEF Worker
<1>3. ASSUME NEW r \in Replica, Deliver(r) \/ TimerScan(r) \/ Resumer(r)
      PROVE  TypeInv'
  BY <1>3, DeliverTypes, HumanLoadTypes, HumanRouteTypes, HumanGoTypes, TimerTypes DEF Resumer
<1>. QED
  BY <1>1, <1>2, <1>3, HostTypes, ReadErrorTypes, LeaseChangeTypes, CrashTypes, OutsideTypes
     DEF Next

\* Every variable of the model keeps its type, and a worker inside the node loop
\* is at a node of the definition (processRun never executes the empty id).
THEOREM TypeInvariant == Spec => []TypeInv
<1>. QED
  BY InitTypes, StepTypes, PTL DEF Spec

\* The type invariant the runs check, from the inductive one.
THEOREM TypesOK == Spec => []TypeOK
<1>1. TypeInv => TypeOK
  BY DEF TypeInv
<1>. QED
  BY <1>1, TypeInvariant, PTL
-----------------------------------------------------------------------------
(* The lease, the workers and the queue. *)

\* What a step of the worker leaves alone, and what it may do to its position.
LEMMA WorkerKeepsLease ==
  ASSUME NEW r \in Replica, Worker(r)
  PROVE  /\ UNCHANGED <<owner, lease, up, recover, queue, lost>>
         /\ pc[r] # "idle"
         /\ \E p \in PcValues \ {"idle"} : pc' = [pc EXCEPT ![r] = p]
<1>. USE DEF WorkerOnly, leaseVars, hostVars, PcValues
<1>1. CASE Load(r)
  BY <1>1 DEF Load, ThenSettle
<1>2. CASE Begin(r)
  BY <1>2 DEF Begin
<1>3. CASE LoopTop(r)
  BY <1>3 DEF LoopTop, ThenSettle
<1>4. CASE Enter(r)
  BY <1>4 DEF Enter, ThenSettle
<1>5. CASE Clear(r)
  BY <1>5 DEF Clear
<1>6. CASE Attempt(r)
  BY <1>6 DEF Attempt
<1>7. CASE Call(r)
  BY <1>7 DEF Call
<1>8. CASE RecordNext(r)
  BY <1>8 DEF RecordNext, Advance
<1>9. CASE RecordErrorRoute(r)
  BY <1>9 DEF RecordErrorRoute, Advance
<1>10. CASE RecordTolerated(r)
  BY <1>10 DEF RecordTolerated, ThenSettle
<1>11. CASE RecordFailure(r)
  BY <1>11 DEF RecordFailure, ThenSettle
<1>12. CASE RecordWait(r)
  BY <1>12 DEF RecordWait, ThenSettle
<1>13. CASE RecordEnd(r)
  BY <1>13 DEF RecordEnd, ThenSettle
<1>14. CASE Finish(r)
  BY <1>14 DEF Finish
<1>. QED
  BY <1>1, <1>2, <1>3, <1>4, <1>5, <1>6, <1>7, <1>8, <1>9, <1>10, <1>11, <1>12, <1>13, <1>14 DEF Worker
-----------------------------------------------------------------------------
(* Exclusive execution. *)

\* The part of the type invariant the lease argument needs.
LeaseTypes ==
  /\ pc \in [Replica -> PcValues] /\ up \in [Replica -> BOOLEAN]
  /\ lost \in [Replica -> BOOLEAN]
  /\ stalls \in Nat /\ dbErrors \in Nat

LeaseInv == LeaseTypes /\ WorkerOwnsLease

\* Nothing but a claim, a heartbeat, a release, a crash, an expiry or the worker
\* itself touches what LeaseInv speaks about.
LEMMA OthersKeepLease ==
  ASSUME NEW r \in Replica, LeaseInv,
         Skip(r) \/ Reclaim(r) \/ Restart(r) \/ ResumeInFlight(r) \/ Deliver(r)
           \/ TimerScan(r) \/ Resumer(r) \/ Cancel
  PROVE  LeaseInv'
<1>. USE DEF LeaseInv, LeaseTypes, WorkerOwnsLease
<1>1. CASE Skip(r)
  BY <1>1 DEF Skip, leaseVars, workVars
<1>2. CASE Reclaim(r)
  BY <1>2 DEF Reclaim, leaseVars, workVars, envVars
<1>3. CASE Restart(r)
  BY <1>3 DEF Restart, leaseVars, workVars, envVars
<1>4. CASE ResumeInFlight(r)
  BY <1>4 DEF ResumeInFlight, leaseVars, workVars, envVars
<1>5. CASE Deliver(r)
  BY <1>5 DEF Deliver, ResumerOnly, leaseVars, workVars
<1>6. CASE TimerScan(r)
  BY <1>6 DEF TimerScan, ResumerOnly, leaseVars, workVars
<1>7. CASE Resumer(r)
  BY <1>7 DEF Resumer, HumanLoad, HumanRoute, HumanGo, TimerMark, TimerGo, ResumerOnly,
              leaseVars, workVars, envVars
<1>8. CASE Cancel
  BY <1>8 DEF Cancel, leaseVars, workVars, hostVars
<1>. QED
  BY <1>1, <1>2, <1>3, <1>4, <1>5, <1>6, <1>7, <1>8

\* With punctual heartbeats and a database that answers them, a worker owns a
\* live lease from ClaimRun to ReleaseRun (server.go:364-395, leasing.go:66-102).
THEOREM WorkerOwnsLeaseInvariant ==
  ASSUME MaxStalls = 0, MaxDbErrors = 0
  PROVE  Spec => []WorkerOwnsLease
<1>. USE EnvironmentAssumption
<1>1. Init => LeaseInv
  BY DEF Init, LeaseInv, LeaseTypes, WorkerOwnsLease, PcValues
<1>2. LeaseInv /\ [Next]_vars => LeaseInv'
  <2>. SUFFICES ASSUME LeaseInv, [Next]_vars PROVE LeaseInv'
    OBVIOUS
  <2>. USE DEF LeaseInv, LeaseTypes, WorkerOwnsLease, PcValues
  <2>1. ASSUME NEW r \in Replica, Claim(r) PROVE LeaseInv'
    BY <2>1 DEF Claim, Claimable, envVars
  <2>2. ASSUME NEW r \in Replica, Heartbeat(r) PROVE LeaseInv'
    BY <2>2 DEF Heartbeat, hostVars, envVars
  <2>3. ASSUME NEW r \in Replica, HeartbeatError(r) \/ ReadError(r) PROVE LeaseInv'
    BY <2>3, DatabaseAnswers
  <2>4. CASE Expire
    BY <2>4 DEF Expire, hostVars, workVars
  <2>5. ASSUME NEW r \in Replica, Release(r) PROVE LeaseInv'
    BY <2>5 DEF Release, Releases, hostVars, leaseVars, envVars
  <2>6. ASSUME NEW r \in Replica, Crash(r) PROVE LeaseInv'
    BY <2>6 DEF Crash
  <2>7. ASSUME NEW r \in Replica, Worker(r) PROVE LeaseInv'
    <3>1. stalls' = stalls /\ dbErrors' = dbErrors
      BY <2>7 DEF Worker, Load, Begin, LoopTop, Enter, Clear, Attempt, Call, RecordNext,
                  RecordErrorRoute, RecordTolerated, RecordFailure, RecordWait, RecordEnd,
                  Finish, WorkerOnly, envVars
    <3>. QED
      BY <2>7, <3>1, WorkerKeepsLease
  <2>8. ASSUME NEW r \in Replica,
               Skip(r) \/ Reclaim(r) \/ Restart(r) \/ ResumeInFlight(r) \/ Deliver(r)
                 \/ TimerScan(r) \/ Resumer(r)
        PROVE  LeaseInv'
    BY <2>8, OthersKeepLease
  <2>9. CASE Cancel
    BY <2>9, OthersKeepLease
  <2>10. CASE UNCHANGED vars
    BY <2>10 DEF vars, leaseVars, hostVars, workVars, envVars
  <2>. QED
    BY <2>1, <2>2, <2>3, <2>4, <2>5, <2>6, <2>7, <2>8, <2>9, <2>10 DEF Next
<1>3. LeaseInv => WorkerOwnsLease
  BY DEF LeaseInv
<1>. QED
  BY <1>1, <1>2, <1>3, PTL DEF Spec

\* Hence at most one replica executes the run, whatever the definition, the
\* number of replicas, crashes, restarts, wakes and cancels (README.md:144).
THEOREM ExclusiveExecution ==
  ASSUME MaxStalls = 0, MaxDbErrors = 0
  PROVE  Spec => []ExclusiveWorker
<1>1. WorkerOwnsLease => ExclusiveWorker
  BY DEF WorkerOwnsLease, ExclusiveWorker
<1>. QED
  BY <1>1, WorkerOwnsLeaseInvariant, PTL
-----------------------------------------------------------------------------
(* Leases under any fault. *)

LEMMA LeaseTypesInvariant == Spec => []LeaseTypes
<1>1. Init => LeaseTypes
  BY DEF Init, LeaseTypes, PcValues
<1>2. LeaseTypes /\ [Next]_vars => LeaseTypes'
  <2>. SUFFICES ASSUME LeaseTypes, [Next]_vars PROVE LeaseTypes'
    OBVIOUS
  <2>. USE DEF LeaseTypes, PcValues, leaseVars, workVars, hostVars, envVars
  <2>1. ASSUME NEW r \in Replica,
               Claim(r) \/ Skip(r) \/ Heartbeat(r) \/ HeartbeatError(r) \/ ReadError(r) \/ Reclaim(r)
                 \/ Release(r) \/ Crash(r) \/ Restart(r) \/ ResumeInFlight(r)
        PROVE  LeaseTypes'
    <3>1. CASE Claim(r)
      BY <3>1 DEF Claim
    <3>2. CASE Skip(r)
      BY <3>2 DEF Skip
    <3>3. CASE Heartbeat(r)
      BY <3>3 DEF Heartbeat
    <3>4. CASE HeartbeatError(r)
      BY <3>4 DEF HeartbeatError
    <3>5. CASE Reclaim(r)
      BY <3>5 DEF Reclaim
    <3>6. CASE Release(r)
      BY <3>6 DEF Release
    <3>7. CASE Crash(r)
      BY <3>7 DEF Crash
    <3>8. CASE Restart(r)
      BY <3>8 DEF Restart
    <3>9. CASE ResumeInFlight(r)
      BY <3>9 DEF ResumeInFlight
    <3>10. CASE ReadError(r)
      BY <3>10 DEF ReadError
    <3>. QED
      BY <2>1, <3>1, <3>2, <3>3, <3>4, <3>5, <3>6, <3>7, <3>8, <3>9, <3>10
  <2>2. ASSUME NEW r \in Replica, Deliver(r) \/ TimerScan(r) \/ Resumer(r)
        PROVE  LeaseTypes'
    BY <2>2 DEF Deliver, TimerScan, Resumer, HumanLoad, HumanRoute, HumanGo, TimerMark,
                TimerGo, ResumerOnly
  <2>3. ASSUME NEW r \in Replica, Worker(r) PROVE LeaseTypes'
    <3>1. stalls' = stalls /\ dbErrors' = dbErrors
      BY <2>3 DEF Worker, Load, Begin, LoopTop, Enter, Clear, Attempt, Call, RecordNext,
                  RecordErrorRoute, RecordTolerated, RecordFailure, RecordWait, RecordEnd,
                  Finish, WorkerOnly
    <3>. QED
      BY <2>3, <3>1, WorkerKeepsLease
  <2>4. CASE Expire \/ Cancel
    BY <2>4 DEF Expire, Cancel
  <2>5. CASE UNCHANGED vars
    BY <2>5 DEF vars
  <2>. QED
    BY <2>1, <2>2, <2>3, <2>4, <2>5 DEF Next
<1>. QED
  BY <1>1, <1>2, PTL DEF Spec

\* However late heartbeats are and whatever the database refuses, a live lease
\* leaves its owner only by its own release or death (leasing.go:66-102).
THEOREM LiveLeases == Spec => LiveLeaseNotStolen
<1>. DEFINE Kept ==
       lease = "live" /\ owner' # owner =>
         \/ owner' = Free /\ pc[owner] = "release" /\ pc'[owner] = "idle"
         \/ owner' = Departed /\ up[owner] /\ ~up'[owner]
         \/ owner = Free
<1>1. LeaseTypes /\ [Next]_vars => [Kept]_<<owner, lease>>
  <2>. SUFFICES ASSUME LeaseTypes, [Next]_vars PROVE Kept
    OBVIOUS
  <2>. USE DEF LeaseTypes, PcValues
  <2>1. ASSUME NEW r \in Replica, Claim(r) PROVE Kept
    BY <2>1 DEF Claim, Claimable
  <2>2. ASSUME NEW r \in Replica, Release(r) PROVE Kept
    BY <2>2 DEF Release, Releases, leaseVars
  <2>3. ASSUME NEW r \in Replica, Crash(r) PROVE Kept
    BY <2>3 DEF Crash
  <2>4. ASSUME NEW r \in Replica,
               Skip(r) \/ Heartbeat(r) \/ HeartbeatError(r) \/ ReadError(r) \/ Reclaim(r)
                 \/ Restart(r) \/ ResumeInFlight(r) \/ Deliver(r) \/ TimerScan(r)
                 \/ Resumer(r) \/ Worker(r) \/ Expire \/ Cancel
        PROVE  owner' = owner
    BY <2>4, WorkerKeepsLease
       DEF Skip, Heartbeat, HeartbeatError, ReadError, Reclaim, Restart, ResumeInFlight, Deliver,
           TimerScan, Resumer, HumanLoad, HumanRoute, HumanGo, TimerMark, TimerGo,
           ResumerOnly, Expire, Cancel, leaseVars
  <2>5. CASE UNCHANGED vars
    BY <2>5 DEF vars, leaseVars
  <2>. QED
    BY <2>1, <2>2, <2>3, <2>4, <2>5, EnvironmentAssumption DEF Next
<1>. QED
  BY <1>1, LeaseTypesInvariant, PTL DEF Spec, LiveLeaseNotStolen
-----------------------------------------------------------------------------
(* A worker stops within one node. *)

\* The worker has looked at the head of the loop and has not executed since.
HasLooked == {"enter", "clear", "attempt", "call"}

\* What is inductive: between the look and the execution nothing took effect late, but for
\* what failed looks let pass.
LateInv == \A r \in Replica : /\ lateFires[r] <= 1 + dbErrors
                              /\ pc[r] \in HasLooked => lateFires[r] <= dbErrors

\* A step that is not a worker's look or execution adds no late effect.
LEMMA LateKept ==
  ASSUME TypeInv, LateInv, NEW r \in Replica, NEW p \in PcValues,
         p \in HasLooked => pc[r] \in HasLooked,
         pc' = [pc EXCEPT ![r] = p], UNCHANGED <<lateFires, dbErrors>>
  PROVE  LateInv'
BY DEF LateInv, TypeInv, TypeOK

\* No step of a worker but a failed read counts as one.
LEMMA WorkerReads ==
  ASSUME NEW r \in Replica, Worker(r)
  PROVE  UNCHANGED dbErrors
BY DEF Worker, Load, Begin, LoopTop, Enter, Clear, Attempt, Call, RecordNext, RecordErrorRoute,
       RecordTolerated, RecordFailure, RecordWait, RecordEnd, Finish, WorkerOnly, envVars

\* The look: a worker that goes on has been told nothing, so that the count is 0.
LEMMA LateLook ==
  ASSUME TypeInv, LateInv, NEW r \in Replica, LoopTop(r)
  PROVE  LateInv'
<1>. UNCHANGED dbErrors
  BY WorkerReads DEF Worker
<1>1. CASE Told(r)
  <2>1. \E p \in {"release"} : pc' = [pc EXCEPT ![r] = p]
    BY <1>1 DEF LoopTop, Told, Stopped
  <2>. QED
    BY <1>1, <2>1, LateKept DEF LoopTop, PcValues, HasLooked
<1>2. CASE ~Told(r)
  <2>1. \E p \in {"release", "enter", "finish"} : pc' = [pc EXCEPT ![r] = p]
    BY DEF LoopTop, ThenSettle
  <2>2. lateFires' = [lateFires EXCEPT ![r] = 0]
    BY <1>2 DEF LoopTop
  <2>. QED
    BY <2>1, <2>2 DEF LateInv, TypeInv, TypeOK
<1>. QED
  BY <1>1, <1>2

\* The execution: one late effect at most, and the worker is past it.
LEMMA LateCall ==
  ASSUME TypeInv, LateInv, NEW r \in Replica, Call(r)
  PROVE  LateInv'
<1>. UNCHANGED dbErrors
  BY WorkerReads DEF Worker
<1>1. pc' = [pc EXCEPT ![r] = "record"] /\ pc[r] = "call" /\ lateFires[r] <= dbErrors
  BY DEF Call, LateInv, HasLooked
<1>2. CASE UNCHANGED lateFires
  BY <1>1, <1>2, LateKept DEF PcValues, HasLooked
<1>3. CASE lateFires' = [lateFires EXCEPT ![r] = @ + IF Told(r) THEN 1 ELSE 0]
  <2>1. PICK k \in {0, 1} : k = IF Told(r) THEN 1 ELSE 0
    OBVIOUS
  <2>2. lateFires' = [lateFires EXCEPT ![r] = @ + k]
    BY <1>3, <2>1
  <2>. QED
    BY <1>1, <2>1, <2>2 DEF LateInv, TypeInv, TypeOK, HasLooked
<1>. QED
  BY <1>2, <1>3 DEF Call

\* The other steps of a worker leave the count alone and enter the node only past
\* the look.
LEMMA LateWorker ==
  ASSUME TypeInv, LateInv, NEW r \in Replica, Worker(r)
  PROVE  LateInv'
<1>. UNCHANGED dbErrors
  BY WorkerReads
<1>. USE LateKept DEF PcValues, HasLooked, histVars
<1>1. CASE Load(r)
  <2>1. \E p \in {"release", "finish", "begin"} : pc' = [pc EXCEPT ![r] = p]
    BY <1>1 DEF Load, ThenSettle
  <2>. QED
    BY <1>1, <2>1 DEF Load
<1>2. CASE Begin(r)
  BY <1>2 DEF Begin
<1>3. CASE Enter(r)
  <2>1. pc[r] = "enter" /\ \E p \in {"attempt", "clear", "finish", "top"} : pc' = [pc EXCEPT ![r] = p]
    BY <1>3 DEF Enter, ThenSettle
  <2>. QED
    BY <1>3, <2>1 DEF Enter
<1>4. CASE Clear(r)
  BY <1>4 DEF Clear
<1>5. CASE Attempt(r)
  <2>1. pc[r] = "attempt" /\ \E p \in {"record", "call"} : pc' = [pc EXCEPT ![r] = p]
    BY <1>5 DEF Attempt
  <2>. QED
    BY <1>5, <2>1 DEF Attempt
<1>6. CASE RecordNext(r) \/ RecordErrorRoute(r) \/ RecordTolerated(r)
  <2>1. \E p \in {"finish", "top"} : pc' = [pc EXCEPT ![r] = p]
    BY <1>6 DEF RecordNext, RecordErrorRoute, RecordTolerated, Advance, ThenSettle
  <2>2. UNCHANGED lateFires
    BY <1>6 DEF RecordNext, RecordErrorRoute, RecordTolerated
  <2>. QED
    BY <2>1, <2>2
<1>7. CASE RecordFailure(r) \/ RecordWait(r) \/ RecordEnd(r)
  <2>1. pc' = [pc EXCEPT ![r] = "finish"]
    BY <1>7 DEF RecordFailure, RecordWait, RecordEnd, ThenSettle
  <2>2. UNCHANGED lateFires
    BY <1>7 DEF RecordFailure, RecordWait, RecordEnd
  <2>. QED
    BY <2>1, <2>2
<1>8. CASE Finish(r)
  BY <1>8 DEF Finish
<1>. QED
  BY <1>1, <1>2, <1>3, <1>4, <1>5, <1>6, <1>7, <1>8, LateLook, LateCall DEF Worker

\* Whatever the database, the heartbeats, the users and the crashes do, a worker with
\* a reason to stop lets at most one node take effect before it stops or finds the
\* run live again (the checks at server.go:464 and 472), and one more for every look
\* that the database left unanswered (server.go:309).
THEOREM StopsAlways == Spec => []StopsWithinOneNode
<1>1. Init => LateInv
  BY DEF Init, LateInv, HasLooked
<1>2. TypeInv /\ LateInv /\ [Next]_vars => LateInv'
  <2>. SUFFICES ASSUME TypeInv, LateInv, [Next]_vars PROVE LateInv'
    OBVIOUS
  <2>. USE DEF workVars, histVars, envVars
  <2>0. ASSUME NEW r \in Replica, ReadError(r) PROVE LateInv'
    BY <2>0 DEF ReadError, LateInv, TypeInv, TypeOK, HasLooked
  <2>1. ASSUME NEW r \in Replica, Claim(r) \/ Release(r) \/ Crash(r) PROVE LateInv'
    BY <2>1 DEF Claim, Release, Crash, LateInv, TypeInv, TypeOK, HasLooked
  <2>2. ASSUME NEW r \in Replica, Skip(r) \/ Heartbeat(r) \/ HeartbeatError(r) \/ Reclaim(r)
                 \/ Restart(r) \/ ResumeInFlight(r)
        PROVE  LateInv'
    <3>1. UNCHANGED <<pc, lateFires>> /\ (dbErrors' = dbErrors \/ dbErrors' = dbErrors + 1)
      BY <2>2 DEF Skip, Heartbeat, HeartbeatError, Reclaim, Restart, ResumeInFlight
    <3>. QED
      BY <3>1 DEF LateInv, TypeInv, TypeOK
  <2>3. ASSUME NEW r \in Replica, Deliver(r) \/ TimerScan(r) \/ Resumer(r) PROVE LateInv'
    BY <2>3 DEF Deliver, TimerScan, Resumer, HumanLoad, HumanRoute, HumanGo, TimerMark,
                TimerGo, ResumerOnly, LateInv
  <2>4. ASSUME NEW r \in Replica, Worker(r) PROVE LateInv'
    BY <2>4, LateWorker
  <2>5. CASE Expire \/ Cancel \/ UNCHANGED vars
    BY <2>5 DEF Expire, Cancel, vars, LateInv
  <2>. QED
    BY <2>0, <2>1, <2>2, <2>3, <2>4, <2>5 DEF Next
<1>3. LateInv => StopsWithinOneNode
  BY DEF LateInv, StopsWithinOneNode
<1>. QED
  BY <1>1, <1>2, <1>3, TypeInvariant, PTL DEF Spec
-----------------------------------------------------------------------------
(* Effects happen once per arrival. *)

\* A definition without tasks and timers, so that a run never pauses.
OnlySteps == \A n \in Node : Kind[n] \in {"step", "end", "stop"}

\* A definition without a cycle: every edge leads upwards in some ranking.
Forward(rank) ==
  /\ rank \in [Node -> Nat]
  /\ \A n \in Node : \A m \in Sequential!Successors(n) \ {NoNode} : rank[n] < rank[m]

\* An arrival at n has not been answered by an execution yet.
Owed(n) == Effectful(n) => fired[n] + 1 <= arrivals[n] + orphaned[n]

\* Worker r has executed its node and not stored the result.
Executed(r) == pc[r] = "record" /\ w[r].act # "ERROR"

\* A run that never pauses is never woken.
NeverWaits ==
  /\ status \notin Waiting
  /\ \A r \in Replica : /\ rpc[r] = "idle"
                        /\ pc[r] = "finish" => w[r].verdict \notin Waiting

\* The row: checkpoints lie behind the stored position, and what the position owes,
\* or its checkpoint hands on, has not been executed.
BehindPosition(rank) ==
  \A n \in Node : ckpt[n] # Unset => rank[n] <= rank[StartNode]
PositionOwed ==
  ckpt[StartNode] = Unset /\ (\A r \in Replica : ~Executed(r)) => Owed(StartNode)
NextOwed(rank) ==
  ckpt[StartNode] \in Node => Owed(ckpt[StartNode]) /\ rank[StartNode] < rank[ckpt[StartNode]]

\* A worker is at the stored position, which it has not left yet, or at a node ahead
\* of it that is owed.
StartsThere(r) ==
  pc[r] \in {"claimed", "begin"} => /\ ~w[r].fresh /\ w[r].skipped = {}
                                    /\ pc[r] = "begin" => w[r].cur = StartNode
GoesOn(rank, r) ==
  pc[r] \in {"top", "enter"} =>
    /\ w[r].ckpt = ckpt
    /\ \/ w[r].cur = StartNode /\ ~w[r].fresh /\ w[r].skipped = {}
       \/ rank[StartNode] < rank[w[r].cur] /\ Owed(w[r].cur)
Executes(r) ==
  pc[r] \in {"attempt", "call", "record"} =>
    w[r].ckpt = ckpt /\ w[r].cur = current /\ ckpt[current] = Unset
Answers(r) ==
  pc[r] = "record" =>
    /\ w[r].act # "WAIT"
    /\ w[r].act = "NEXT" => w[r].to \in Routes[w[r].cur]
    /\ Effectful(w[r].cur) => w[r].act \in {"NEXT", "ERROR"}

OnceInv(rank) ==
  /\ NeverWaits /\ FiredOncePerArrival
  /\ BehindPosition(rank) /\ PositionOwed /\ NextOwed(rank)
  /\ \A r \in Replica : /\ pc[r] # "clear"
                        /\ StartsThere(r) /\ GoesOn(rank, r) /\ Executes(r) /\ Answers(r)

\* Whoever works is the only one.
LEMMA OnlyWorker ==
  ASSUME WorkerOwnsLease, NEW r \in Replica, pc[r] # "idle"
  PROVE  \A s \in Replica \ {r} : pc[s] = "idle"
BY DEF WorkerOwnsLease

\* StartNode is a node; what a row says stays while row and history stay.
LEMMA StartIsNode ==
  ASSUME TypeInv
  PROVE  StartNode \in Node
BY DefinitionAssumption DEF TypeInv, TypeOK, StartNode, NextId

LEMMA RowKept ==
  ASSUME NEW CONSTANT rank, OnceInv(rank), StartNode' = StartNode,
         UNCHANGED <<ckpt, fired, arrivals, orphaned>>
  PROVE  /\ FiredOncePerArrival' /\ BehindPosition(rank)' /\ NextOwed(rank)'
         /\ \A n : Owed(n)' <=> Owed(n)
BY DEF OnceInv, FiredOncePerArrival, BehindPosition, NextOwed, Owed

\* The only worker moves: what is left to show of the row, and of the worker.
LEMMA OnceMoves ==
  ASSUME NEW CONSTANT rank, TypeInv, OnceInv(rank), NEW r \in Replica,
         NEW p \in PcValues, NEW l,
         \A s \in Replica \ {r} : pc[s] = "idle",
         pc' = [pc EXCEPT ![r] = p], w' = [w EXCEPT ![r] = l], rpc' = rpc,
         status' \notin Waiting, p # "clear", p = "finish" => l.verdict \notin Waiting,
         FiredOncePerArrival', BehindPosition(rank)', NextOwed(rank)',
         (p # "record" \/ l.act = "ERROR") /\ ckpt'[StartNode'] = Unset => Owed(StartNode)',
         StartsThere(r)', GoesOn(rank, r)', Executes(r)', Answers(r)'
  PROVE  OnceInv(rank)'
<1>1. pc'[r] = p /\ w'[r] = l /\ \A s \in Replica \ {r} : pc'[s] = "idle"
  BY DEF TypeInv, TypeOK
<1>2. NeverWaits'
  BY <1>1 DEF OnceInv, NeverWaits
<1>3. PositionOwed'
  BY <1>1 DEF PositionOwed, Executed
<1>4. \A s \in Replica : (pc[s] # "clear" /\ StartsThere(s) /\ GoesOn(rank, s) /\ Executes(s) /\ Answers(s))'
  BY <1>1 DEF StartsThere, GoesOn, Executes, Answers
<1>. QED
  BY <1>2, <1>3, <1>4 DEF OnceInv

\* A pass that ends, or only moves on within the node, leaves the row as it was.
LEMMA OnceStays ==
  ASSUME NEW CONSTANT rank, TypeInv, OnceInv(rank), NEW r \in Replica,
         NEW p \in {"release", "finish"}, NEW l,
         \A s \in Replica \ {r} : pc[s] = "idle",
         pc' = [pc EXCEPT ![r] = p], w' = [w EXCEPT ![r] = l], rpc' = rpc,
         status' \notin Waiting, p = "finish" => l.verdict \notin Waiting,
         StartNode' = StartNode, UNCHANGED <<ckpt, fired, arrivals, orphaned>>,
         ckpt[StartNode] = Unset => Owed(StartNode)
  PROVE  OnceInv(rank)'
<1>1. pc'[r] = p
  BY DEF TypeInv, TypeOK
<1>2. StartsThere(r)' /\ GoesOn(rank, r)' /\ Executes(r)' /\ Answers(r)'
  BY <1>1 DEF StartsThere, GoesOn, Executes, Answers
<1>3. ckpt'[StartNode'] = Unset => Owed(StartNode)'
  BY RowKept DEF Owed
<1>. QED
  BY <1>2, <1>3, RowKept, OnceMoves DEF PcValues

\* ThenSettle as a move.
LEMMA SettleMoves ==
  ASSUME TypeInv, NEW r \in Replica, NEW v \in Status, ThenSettle(r, v)
  PROVE  \E l \in Locals : /\ l = [w[r] EXCEPT !.verdict = v] /\ l.verdict = v
                           /\ w' = [w EXCEPT ![r] = l] /\ pc' = [pc EXCEPT ![r] = "finish"]
<1>1. w[r] \in Locals
  BY Here
<1>2. PICK l \in Locals : l = [w[r] EXCEPT !.verdict = v]
  BY <1>1 DEF Locals
<1>3. l.verdict = v /\ w' = [w EXCEPT ![r] = l]
  BY <1>1, <1>2 DEF Locals, ThenSettle
<1>. QED
  BY <1>2, <1>3 DEF ThenSettle

LEMMA OnceSettles ==
  ASSUME NEW CONSTANT rank, TypeInv, OnceInv(rank), NEW r \in Replica, NEW v \in Status \ Waiting,
         \A s \in Replica \ {r} : pc[s] = "idle",
         ThenSettle(r, v), WorkerOnly, StartNode' = StartNode,
         UNCHANGED <<status, ckpt, fired, arrivals, orphaned>>,
         ckpt[StartNode] = Unset => Owed(StartNode)
  PROVE  OnceInv(rank)'
<1>1. PICK l \in Locals : l.verdict = v /\ w' = [w EXCEPT ![r] = l] /\ pc' = [pc EXCEPT ![r] = "finish"]
  BY SettleMoves
<1>2. rpc' = rpc /\ status' \notin Waiting
  BY DEF WorkerOnly, waitVars, OnceInv, NeverWaits
<1>. QED
  BY <1>1, <1>2, OnceStays

\* Until it has executed, the position of the only worker is owed.
LEMMA OwedHere ==
  ASSUME NEW CONSTANT rank, OnceInv(rank), NEW r \in Replica,
         \A s \in Replica \ {r} : pc[s] = "idle", ~Executed(r)
  PROVE  ckpt[StartNode] = Unset => Owed(StartNode)
BY DEF OnceInv, PositionOwed, Executed

LEMMA OnceLoad ==
  ASSUME NEW CONSTANT rank, TypeInv, OnceInv(rank), NEW r \in Replica, Load(r),
         \A s \in Replica \ {r} : pc[s] = "idle"
  PROVE  OnceInv(rank)'
<1>1. /\ WorkerOnly /\ rpc' = rpc /\ status' = status /\ status' \notin Waiting
      /\ StartNode' = StartNode /\ UNCHANGED <<ckpt, fired, arrivals, orphaned>>
  BY DEF Load, WorkerOnly, waitVars, rowVars, histVars, OnceInv, NeverWaits, StartNode
<1>2. ckpt[StartNode] = Unset => Owed(StartNode)
  BY OwedHere DEF Load, Executed
<1>3. CASE pc' = [pc EXCEPT ![r] = "release"] /\ UNCHANGED w
  <2>1. w' = [w EXCEPT ![r] = w[r]]
    BY <1>3 DEF TypeInv, TypeOK
  <2>. QED
    BY <1>1, <1>2, <1>3, <2>1, OnceStays
<1>4. CASE ThenSettle(r, "FAILED")
  BY <1>1, <1>2, <1>4, OnceSettles DEF Status, Terminal, Waiting
<1>5. CASE /\ pc' = [pc EXCEPT ![r] = "begin"]
           /\ w' = [w EXCEPT ![r].cur = StartNode, ![r].pending = (status = "PENDING")]
  <2>1. w[r] \in Locals /\ ~w[r].fresh /\ w[r].skipped = {}
    BY Here DEF OnceInv, StartsThere, Load
  <2>2. PICK l : l = [w[r] EXCEPT !.cur = StartNode, !.pending = (status = "PENDING")]
    OBVIOUS
  <2>3. l.cur = StartNode /\ ~l.fresh /\ l.skipped = {}
    BY <2>1, <2>2 DEF Locals
  <2>4. w' = [w EXCEPT ![r] = l]
    BY <1>5, <2>2 DEF TypeInv, TypeOK
  <2>5. pc'[r] = "begin" /\ w'[r] = l
    BY <1>5, <2>4 DEF TypeInv, TypeOK
  <2>6. StartsThere(r)' /\ GoesOn(rank, r)' /\ Executes(r)' /\ Answers(r)'
    BY <1>1, <2>3, <2>5 DEF StartsThere, GoesOn, Executes, Answers
  <2>7. ckpt'[StartNode'] = Unset => Owed(StartNode)'
    BY <1>1, <1>2, RowKept DEF Owed
  <2>. QED
    BY <1>1, <1>5, <2>4, <2>6, <2>7, RowKept, OnceMoves DEF PcValues
<1>. QED
  BY <1>3, <1>4, <1>5 DEF Load

LEMMA OnceBegin ==
  ASSUME NEW CONSTANT rank, TypeInv, OnceInv(rank), NEW r \in Replica, Begin(r),
         \A s \in Replica \ {r} : pc[s] = "idle"
  PROVE  OnceInv(rank)'
<1>1. /\ rpc' = rpc /\ status' \notin Waiting /\ pc' = [pc EXCEPT ![r] = "top"]
      /\ StartNode' = StartNode /\ UNCHANGED <<ckpt, fired, arrivals, orphaned>>
  BY DEF Begin, WorkerOnly, waitVars, histVars, OnceInv, NeverWaits, Waiting, StartNode
<1>2. ckpt[StartNode] = Unset => Owed(StartNode)
  BY OwedHere DEF Begin, Executed
<1>3. w[r] \in Locals /\ ~w[r].fresh /\ w[r].skipped = {} /\ w[r].cur = StartNode
  BY Here DEF OnceInv, StartsThere, Begin
<1>4. PICK l : l = [w[r] EXCEPT !.ckpt = ckpt, !.mark = mark]
  OBVIOUS
<1>5. l.cur = StartNode /\ ~l.fresh /\ l.skipped = {} /\ l.ckpt = ckpt
  BY <1>3, <1>4 DEF Locals
<1>6. w' = [w EXCEPT ![r] = l]
  BY <1>4 DEF Begin, TypeInv, TypeOK
<1>7. pc'[r] = "top" /\ w'[r] = l
  BY <1>1, <1>6 DEF TypeInv, TypeOK
<1>8. StartsThere(r)' /\ GoesOn(rank, r)' /\ Executes(r)' /\ Answers(r)'
  BY <1>1, <1>5, <1>7 DEF StartsThere, GoesOn, Executes, Answers
<1>9. ckpt'[StartNode'] = Unset => Owed(StartNode)'
  BY <1>1, <1>2, RowKept DEF Owed
<1>. QED
  BY <1>1, <1>6, <1>8, <1>9, RowKept, OnceMoves DEF PcValues

LEMMA OnceLoopTop ==
  ASSUME NEW CONSTANT rank, TypeInv, OnceInv(rank), NEW r \in Replica, LoopTop(r),
         \A s \in Replica \ {r} : pc[s] = "idle"
  PROVE  OnceInv(rank)'
<1>1. /\ WorkerOnly /\ rpc' = rpc /\ status' = status /\ status' \notin Waiting
      /\ StartNode' = StartNode /\ UNCHANGED <<ckpt, fired, arrivals, orphaned>>
  BY DEF LoopTop, WorkerOnly, waitVars, rowVars, OnceInv, NeverWaits, StartNode
<1>2. ckpt[StartNode] = Unset => Owed(StartNode)
  BY OwedHere DEF LoopTop, Executed
<1>3. CASE pc' = [pc EXCEPT ![r] = "release"] /\ UNCHANGED w
  <2>1. w' = [w EXCEPT ![r] = w[r]]
    BY <1>3 DEF TypeInv, TypeOK
  <2>. QED
    BY <1>1, <1>2, <1>3, <2>1, OnceStays
<1>4. CASE ThenSettle(r, "FAILED")
  BY <1>1, <1>2, <1>4, OnceSettles DEF Status, Terminal, Waiting
<1>5. CASE pc' = [pc EXCEPT ![r] = "enter"] /\ w' = [w EXCEPT ![r].steps = @ + 1]
  <2>1. w[r] \in Locals
    BY Here
  <2>2. PICK l : l = [w[r] EXCEPT !.steps = w[r].steps + 1]
    OBVIOUS
  <2>3. l.cur = w[r].cur /\ l.fresh = w[r].fresh /\ l.skipped = w[r].skipped /\ l.ckpt = w[r].ckpt
    BY <2>1, <2>2 DEF Locals
  <2>4. w' = [w EXCEPT ![r] = l]
    BY <1>5, <2>2 DEF TypeInv, TypeOK
  <2>5. pc'[r] = "enter" /\ w'[r] = l
    BY <1>5, <2>4 DEF TypeInv, TypeOK
  <2>6. GoesOn(rank, r) /\ pc[r] = "top"
    BY DEF LoopTop, OnceInv
  <2>7. GoesOn(rank, r)'
    BY <1>1, <2>3, <2>5, <2>6, RowKept DEF GoesOn, Owed
  <2>8. StartsThere(r)' /\ Executes(r)' /\ Answers(r)'
    BY <2>5 DEF StartsThere, Executes, Answers
  <2>9. ckpt'[StartNode'] = Unset => Owed(StartNode)'
    BY <1>1, <1>2, RowKept DEF Owed
  <2>. QED
    BY <1>1, <1>5, <2>4, <2>7, <2>8, <2>9, RowKept, OnceMoves DEF PcValues
<1>. QED
  BY <1>3, <1>4, <1>5 DEF LoopTop

\* Entering: the position itself again, or the node ahead of it that is owed.
LEMMA OnceEnter ==
  ASSUME NEW CONSTANT rank, Forward(rank), TypeInv, OnceInv(rank), NEW r \in Replica, Enter(r),
         \A s \in Replica \ {r} : pc[s] = "idle"
  PROVE  OnceInv(rank)'
<1>1. /\ WorkerOnly /\ rpc' = rpc /\ status' = status /\ status' \notin Waiting
      /\ UNCHANGED <<ckpt, fired, arrivals, orphaned>>
  BY DEF Enter, WorkerOnly, waitVars, histVars, OnceInv, NeverWaits
<1>2. PICK n \in Node : n = w[r].cur
  BY Here DEF Enter, InLoop
<1>3. current' = n /\ StartNode' = n /\ pc[r] = "enter"
  BY <1>2, DefinitionAssumption DEF Enter, StartNode
<1>4. /\ w[r] \in Locals /\ w[r].ckpt = ckpt /\ ckpt \in Ckpt /\ n # Unset /\ Unset \notin Node
      /\ \/ n = StartNode /\ ~w[r].fresh /\ w[r].skipped = {}
         \/ rank[StartNode] < rank[n] /\ Owed(n)
  BY <1>2, <1>3, Here, DefinitionAssumption DEF OnceInv, GoesOn, TypeInv, TypeOK, NextId
<1>5. ckpt[StartNode] = Unset => Owed(StartNode)
  BY OwedHere DEF Enter, Executed
<1>6. rank[StartNode] \in Nat /\ \A k \in Node : rank[k] \in Nat
  BY StartIsNode DEF Forward
<1>7. CASE n = StartNode
  <2>1. StartNode' = StartNode
    BY <1>3, <1>7
  <2>2. ~w[r].fresh /\ w[r].skipped = {}
    BY <1>4, <1>6, <1>7
  <2>3. CASE ckpt[n] = Unset
    <3>1. pc' = [pc EXCEPT ![r] = "attempt"] /\ w' = [w EXCEPT ![r] = w[r]]
      BY <1>2, <1>4, <2>3 DEF Enter, Checkpointed, TypeInv, TypeOK
    <3>2. pc'[r] = "attempt" /\ w'[r] = w[r]
      BY <3>1 DEF TypeInv, TypeOK
    <3>3. StartsThere(r)' /\ GoesOn(rank, r)' /\ Executes(r)' /\ Answers(r)'
      BY <1>1, <1>2, <1>3, <1>4, <2>3, <3>2 DEF StartsThere, GoesOn, Executes, Answers
    <3>4. ckpt'[StartNode'] = Unset => Owed(StartNode)'
      BY <1>1, <1>5, <2>1, RowKept DEF Owed
    <3>. QED
      BY <1>1, <2>1, <3>1, <3>3, <3>4, RowKept, OnceMoves DEF PcValues
  <2>4. CASE ckpt[n] = NoNode
    <3>1. ThenSettle(r, "COMPLETED")
      BY <1>2, <1>4, <2>2, <2>4, DefinitionAssumption DEF Enter, Checkpointed, Revisited, NextId
    <3>. QED
      BY <1>1, <1>5, <2>1, <3>1, OnceSettles DEF Status, Terminal, Waiting
  <2>5. CASE ckpt[n] \notin {Unset, NoNode}
    <3>1. PICK m \in Node : m = ckpt[n]
      BY <1>4, <2>5 DEF Ckpt, NextId
    <3>2. Owed(m) /\ rank[StartNode] < rank[m]
      BY <1>7, <3>1 DEF OnceInv, NextOwed
    <3>3. PICK l : l = [w[r] EXCEPT !.cur = m, !.skipped = @ \cup {n}]
      OBVIOUS
    <3>4. l.cur = m /\ l.ckpt = ckpt
      BY <1>4, <3>3 DEF Locals
    <3>5. pc' = [pc EXCEPT ![r] = "top"] /\ w' = [w EXCEPT ![r] = l]
      BY <1>2, <1>4, <2>2, <2>5, <3>1, <3>3 DEF Enter, Checkpointed, Revisited, TypeInv, TypeOK
    <3>6. pc'[r] = "top" /\ w'[r] = l
      BY <3>5 DEF TypeInv, TypeOK
    <3>7. Owed(m)' /\ (ckpt'[StartNode'] = Unset => Owed(StartNode)')
      BY <1>1, <1>5, <2>1, <3>2, RowKept DEF Owed
    <3>8. StartsThere(r)' /\ GoesOn(rank, r)' /\ Executes(r)' /\ Answers(r)'
      BY <1>1, <2>1, <3>2, <3>4, <3>6, <3>7 DEF StartsThere, GoesOn, Executes, Answers, Owed
    <3>. QED
      BY <1>1, <2>1, <3>5, <3>7, <3>8, RowKept, OnceMoves DEF PcValues
  <2>. QED
    BY <2>3, <2>4, <2>5
<1>8. CASE rank[StartNode] < rank[n] /\ Owed(n)
  <2>1. ckpt[n] = Unset
    BY <1>6, <1>8 DEF OnceInv, BehindPosition
  <2>2. pc' = [pc EXCEPT ![r] = "attempt"] /\ w' = [w EXCEPT ![r] = w[r]]
    BY <1>2, <1>4, <2>1 DEF Enter, Checkpointed, TypeInv, TypeOK
  <2>3. pc'[r] = "attempt" /\ w'[r] = w[r]
    BY <2>2 DEF TypeInv, TypeOK
  <2>4. BehindPosition(rank)'
    <3>1. ASSUME NEW k \in Node, ckpt[k] # Unset PROVE rank[k] <= rank[n]
      <4>1. rank[k] <= rank[StartNode]
        BY <3>1 DEF OnceInv, BehindPosition
      <4>. QED
        BY <1>6, <1>8, <4>1
    <3>. QED
      BY <1>1, <1>3, <3>1 DEF BehindPosition
  <2>5. NextOwed(rank)'
    BY <1>1, <1>3, <1>4, <2>1 DEF NextOwed
  <2>6. FiredOncePerArrival' /\ Owed(StartNode)'
    BY <1>1, <1>3, <1>8 DEF OnceInv, FiredOncePerArrival, Owed
  <2>7. StartsThere(r)' /\ GoesOn(rank, r)' /\ Executes(r)' /\ Answers(r)'
    BY <1>1, <1>2, <1>3, <1>4, <2>1, <2>3 DEF StartsThere, GoesOn, Executes, Answers
  <2>. QED
    BY <1>1, <2>2, <2>4, <2>5, <2>6, <2>7, OnceMoves DEF PcValues
<1>. QED
  BY <1>4, <1>7, <1>8

\* What the only worker knows of the node it executes.
LEMMA OnceHere ==
  ASSUME NEW CONSTANT rank, TypeInv, OnceInv(rank), NEW r \in Replica,
         pc[r] \in {"attempt", "call", "record"}
  PROVE  /\ w[r] \in Locals /\ current \in Node /\ w[r].cur = current /\ StartNode = current
         /\ w[r].ckpt = ckpt /\ ckpt[StartNode] = Unset /\ ckpt \in Ckpt
BY Here, DefinitionAssumption DEF InLoop, OnceInv, Executes, StartNode, TypeInv, TypeOK

LEMMA OnceAttempt ==
  ASSUME NEW CONSTANT rank, TypeInv, OnceInv(rank), NEW r \in Replica, Attempt(r),
         \A s \in Replica \ {r} : pc[s] = "idle"
  PROVE  OnceInv(rank)'
<1>1. /\ rpc' = rpc /\ status' = status /\ status' \notin Waiting /\ StartNode' = StartNode
      /\ current' = current /\ UNCHANGED <<ckpt, fired, arrivals, orphaned>>
  BY DEF Attempt, WorkerOnly, waitVars, rowVars, histVars, OnceInv, NeverWaits, StartNode
<1>2. pc[r] = "attempt"
  BY DEF Attempt
<1>3. Owed(StartNode)
  BY <1>2, OnceHere, OwedHere DEF Executed
<1>4. ckpt'[StartNode'] = Unset => Owed(StartNode)'
  BY <1>1, <1>3, RowKept DEF Owed
<1>5. ASSUME NEW p \in {"call", "record"}, NEW l, pc' = [pc EXCEPT ![r] = p],
             w' = [w EXCEPT ![r] = l], l.cur = w[r].cur, l.ckpt = w[r].ckpt,
             p = "record" => l.act = "ERROR"
      PROVE  OnceInv(rank)'
  <2>1. pc'[r] = p /\ w'[r] = l
    BY <1>5 DEF TypeInv, TypeOK
  <2>2. StartsThere(r)' /\ GoesOn(rank, r)' /\ Executes(r)' /\ Answers(r)'
    BY <1>1, <1>2, <1>5, <2>1, OnceHere DEF StartsThere, GoesOn, Executes, Answers
  <2>. QED
    BY <1>1, <1>4, <1>5, <2>2, RowKept, OnceMoves DEF PcValues
<1>6. CASE pc' = [pc EXCEPT ![r] = "call"] /\ UNCHANGED w
  <2>1. w' = [w EXCEPT ![r] = w[r]]
    BY <1>6 DEF TypeInv, TypeOK
  <2>. QED
    BY <1>5, <1>6, <2>1
<1>7. CASE pc' = [pc EXCEPT ![r] = "record"] /\ w' = [w EXCEPT ![r].act = "ERROR", ![r].to = NoNode]
  <2>1. PICK l : l = [w[r] EXCEPT !.act = "ERROR", !.to = NoNode]
    OBVIOUS
  <2>2. l.cur = w[r].cur /\ l.ckpt = w[r].ckpt /\ l.act = "ERROR"
    BY <1>2, <2>1, OnceHere DEF Locals
  <2>3. w' = [w EXCEPT ![r] = l]
    BY <1>7, <2>1 DEF TypeInv, TypeOK
  <2>. QED
    BY <1>5, <1>7, <2>2, <2>3
<1>. QED
  BY <1>6, <1>7 DEF Attempt

\* The execution uses up what the position was owed.
LEMMA OnceCall ==
  ASSUME NEW CONSTANT rank, OnlySteps, TypeInv, OnceInv(rank), NEW r \in Replica, Call(r),
         \A s \in Replica \ {r} : pc[s] = "idle"
  PROVE  OnceInv(rank)'
<1>1. /\ rpc' = rpc /\ status' = status /\ status' \notin Waiting /\ StartNode' = StartNode
      /\ current' = current /\ UNCHANGED <<ckpt, arrivals, orphaned>>
      /\ pc[r] = "call" /\ pc' = [pc EXCEPT ![r] = "record"]
  BY DEF Call, WorkerOnly, waitVars, rowVars, OnceInv, NeverWaits, StartNode
<1>2. /\ w[r] \in Locals /\ current \in Node /\ w[r].cur = current /\ StartNode = current
      /\ w[r].ckpt = ckpt /\ ckpt[StartNode] = Unset
  BY <1>1, OnceHere
<1>3. Owed(current)
  BY <1>1, <1>2, OwedHere DEF Executed
<1>4. PICK res \in Results(current, w[r].mark) :
        /\ w' = [w EXCEPT ![r].act = res[1], ![r].to = res[2]]
        /\ IF res[1] # "ERROR" /\ Effectful(current)
           THEN fired' = [fired EXCEPT ![current] = @ + 1] ELSE UNCHANGED fired
  BY <1>2 DEF Call
<1>5. /\ res[1] # "WAIT" /\ (res[1] = "NEXT" => res[2] \in Routes[current])
      /\ (Effectful(current) => res[1] \in {"NEXT", "ERROR"})
  BY <1>2 DEF Results, OnlySteps, Effectful
<1>6. PICK l : l = [w[r] EXCEPT !.act = res[1], !.to = res[2]]
  OBVIOUS
<1>7. l.cur = current /\ l.ckpt = ckpt /\ l.act = res[1] /\ l.to = res[2]
  BY <1>2, <1>6 DEF Locals
<1>8. w' = [w EXCEPT ![r] = l]
  BY <1>4, <1>6 DEF TypeInv, TypeOK
<1>9. pc'[r] = "record" /\ w'[r] = l
  BY <1>1, <1>8 DEF TypeInv, TypeOK
<1>10. StartsThere(r)' /\ GoesOn(rank, r)' /\ Executes(r)'
  BY <1>1, <1>2, <1>7, <1>9 DEF StartsThere, GoesOn, Executes
<1>11. Answers(r)'
  BY <1>5, <1>7, <1>9 DEF Answers, Effectful
<1>12. FiredOncePerArrival'
  <2>1. ASSUME NEW n \in Node, Effectful(n) PROVE fired'[n] <= arrivals[n] + orphaned[n]
    <3>1. PICK f \in Nat, a \in Nat, o \in Nat : f = fired[n] /\ a = arrivals[n] /\ o = orphaned[n] /\ f <= a + o
      BY <2>1 DEF OnceInv, FiredOncePerArrival, TypeInv, TypeOK
    <3>2. CASE n = current
      <4>1. f + 1 <= a + o
        BY <1>3, <2>1, <3>1, <3>2 DEF Owed
      <4>2. fired'[n] = f \/ fired'[n] = f + 1
        BY <1>4, <3>1, <3>2 DEF TypeInv, TypeOK
      <4>. QED
        BY <3>1, <4>1, <4>2
    <3>3. CASE n # current
      BY <1>4, <3>1, <3>3 DEF TypeInv, TypeOK
    <3>. QED
      BY <3>2, <3>3
  <2>. QED
    BY <1>1, <2>1 DEF FiredOncePerArrival, Effectful
<1>13. BehindPosition(rank)' /\ NextOwed(rank)'
  BY <1>1, <1>2, DefinitionAssumption DEF OnceInv, BehindPosition, NextOwed, NextId
<1>14. l.act = "ERROR" => Owed(StartNode)'
  BY <1>1, <1>2, <1>3, <1>4, <1>7 DEF Owed
<1>. QED
  BY <1>1, <1>2, <1>7, <1>8, <1>10, <1>11, <1>12, <1>13, <1>14, OnceMoves DEF PcValues

\* An arrival at m adds to what m is owed and takes nothing from another node.
LEMMA ArrivalOwes ==
  ASSUME TypeInv, FiredOncePerArrival, NEW m \in Node,
         arrivals' = [arrivals EXCEPT ![m] = @ + 1], UNCHANGED <<fired, orphaned>>
  PROVE  /\ FiredOncePerArrival' /\ Owed(m)'
         /\ \A n \in Node : Owed(n) => Owed(n)'
<1>1. ASSUME NEW n \in Node
      PROVE  /\ Effectful(n) => fired'[n] <= arrivals'[n] + orphaned'[n]
             /\ Owed(n) => Owed(n)'
             /\ n = m => Owed(n)'
  <2>1. PICK f \in Nat, a \in Nat, o \in Nat : f = fired[n] /\ a = arrivals[n] /\ o = orphaned[n]
    BY DEF TypeInv, TypeOK
  <2>2. fired'[n] = f /\ orphaned'[n] = o /\ (arrivals'[n] = a \/ arrivals'[n] = a + 1)
        /\ (n = m => arrivals'[n] = a + 1)
    BY <2>1 DEF TypeInv, TypeOK
  <2>3. Effectful(n) => f <= a + o
    BY <2>1 DEF FiredOncePerArrival
  <2>4. Owed(n) <=> (Effectful(n) => f + 1 <= a + o)
    BY <2>1 DEF Owed
  <2>5. Owed(n)' <=> (Effectful(n) => f + 1 <= arrivals'[n] + o)
    BY <2>2 DEF Owed, Effectful
  <2>. QED
    BY <2>1, <2>2, <2>3, <2>4, <2>5
<1>. QED
  BY <1>1 DEF FiredOncePerArrival, Effectful

\* Storing the checkpoint P -> m hands the debt on to m, which lies ahead.
LEMMA OnceAdvance ==
  ASSUME NEW CONSTANT rank, Forward(rank), TypeInv, OnceInv(rank), NEW r \in Replica,
         \A s \in Replica \ {r} : pc[s] = "idle", pc[r] = "record",
         NEW m \in Sequential!Successors(current), m \in NextId, Advance(r, current, m), WorkerOnly,
         UNCHANGED <<status, current, fired, orphaned>>
  PROVE  OnceInv(rank)'
<1>1. /\ w[r] \in Locals /\ current \in Node /\ StartNode = current
      /\ w[r].ckpt = ckpt /\ ckpt \in Ckpt /\ m # Unset
  BY OnceHere, DefinitionAssumption
<1>2. /\ rpc' = rpc /\ status' = status /\ status' \notin Waiting /\ StartNode' = current
      /\ ckpt' = [ckpt EXCEPT ![current] = m]
  BY <1>1 DEF WorkerOnly, waitVars, OnceInv, NeverWaits, StartNode, Advance
<1>3. ckpt'[current] = m /\ \A n \in Node \ {current} : ckpt'[n] = ckpt[n]
  BY <1>1, <1>2 DEF Ckpt
<1>4. BehindPosition(rank)'
  <2>1. ASSUME NEW n \in Node, ckpt'[n] # Unset PROVE rank[n] <= rank[current]
    <3>1. CASE n = current
      BY <3>1 DEF Forward
    <3>2. CASE n # current
      BY <1>1, <1>3, <2>1, <3>2 DEF OnceInv, BehindPosition
    <3>. QED
      BY <3>1, <3>2
  <2>. QED
    BY <1>2, <2>1 DEF BehindPosition
<1>5. ckpt'[StartNode'] # Unset
  BY <1>1, <1>2, <1>3
<1>6. CASE m = NoNode
  <2>1. PICK l : l = [w[r] EXCEPT !.ckpt = ckpt', !.fresh = TRUE, !.verdict = "COMPLETED"]
    OBVIOUS
  <2>2. l.verdict = "COMPLETED"
    BY <1>1, <2>1 DEF Locals
  <2>3. pc' = [pc EXCEPT ![r] = "finish"] /\ w' = [w EXCEPT ![r] = l] /\ UNCHANGED arrivals
    BY <1>6, <2>1 DEF Advance, TypeInv, TypeOK
  <2>4. pc'[r] = "finish"
    BY <2>3 DEF TypeInv, TypeOK
  <2>5. StartsThere(r)' /\ GoesOn(rank, r)' /\ Executes(r)' /\ Answers(r)'
    BY <2>4 DEF StartsThere, GoesOn, Executes, Answers
  <2>6. FiredOncePerArrival' /\ NextOwed(rank)'
    BY <1>2, <1>3, <1>6, <2>3, DefinitionAssumption DEF OnceInv, FiredOncePerArrival, NextOwed
  <2>. QED
    BY <1>2, <1>4, <1>5, <2>2, <2>3, <2>5, <2>6, OnceMoves DEF PcValues, Waiting
<1>7. CASE m \in Node
  <2>1. rank[current] < rank[m]
    BY <1>1, <1>7, DefinitionAssumption DEF Forward
  <2>2. PICK l : l = [w[r] EXCEPT !.ckpt = ckpt', !.fresh = TRUE, !.cur = m]
    OBVIOUS
  <2>3. l.cur = m /\ l.ckpt = ckpt'
    BY <1>1, <2>2 DEF Locals
  <2>4. /\ pc' = [pc EXCEPT ![r] = "top"] /\ w' = [w EXCEPT ![r] = l]
        /\ arrivals' = [arrivals EXCEPT ![m] = @ + 1]
    BY <1>7, <2>2, DefinitionAssumption DEF Advance, TypeInv, TypeOK
  <2>5. pc'[r] = "top" /\ w'[r] = l
    BY <2>4 DEF TypeInv, TypeOK
  <2>6. FiredOncePerArrival' /\ Owed(m)'
    BY <1>7, <2>4, ArrivalOwes DEF OnceInv
  <2>7. NextOwed(rank)'
    BY <1>2, <1>3, <2>1, <2>6 DEF NextOwed, Owed
  <2>8. StartsThere(r)' /\ GoesOn(rank, r)' /\ Executes(r)' /\ Answers(r)'
    BY <1>2, <2>1, <2>3, <2>5, <2>6 DEF StartsThere, GoesOn, Executes, Answers, Owed
  <2>. QED
    BY <1>2, <1>4, <1>5, <2>4, <2>6, <2>7, <2>8, OnceMoves DEF PcValues
<1>. QED
  BY <1>6, <1>7 DEF NextId

\* A tolerated failure stores nothing: its node stays owed, and the next one is too.
LEMMA OnceTolerated ==
  ASSUME NEW CONSTANT rank, Forward(rank), TypeInv, OnceInv(rank), NEW r \in Replica,
         \A s \in Replica \ {r} : pc[s] = "idle", RecordTolerated(r)
  PROVE  OnceInv(rank)'
<1>1. /\ w[r] \in Locals /\ current \in Node /\ w[r].cur = current /\ StartNode = current
      /\ w[r].ckpt = ckpt /\ ckpt[StartNode] = Unset /\ pc[r] = "record"
  BY OnceHere DEF RecordTolerated
<1>2. /\ rpc' = rpc /\ status' = status /\ status' \notin Waiting /\ StartNode' = StartNode
      /\ current' = current /\ UNCHANGED <<ckpt, fired, orphaned>> /\ WorkerOnly
  BY <1>1 DEF WorkerOnly, waitVars, OnceInv, NeverWaits, StartNode, RecordTolerated
<1>3. Owed(StartNode)
  BY <1>1, OwedHere DEF RecordTolerated, Executed
<1>4. CASE ThenSettle(r, "COMPLETED") /\ UNCHANGED arrivals
  BY <1>2, <1>3, <1>4, OnceSettles DEF Status, Terminal, Waiting
<1>5. CASE /\ Follow[current] # NoNode /\ pc' = [pc EXCEPT ![r] = "top"]
           /\ w' = [w EXCEPT ![r].cur = Follow[current]]
           /\ arrivals' = [arrivals EXCEPT ![Follow[current]] = @ + 1]
  <2>1. PICK m \in Node : m = Follow[current]
    BY <1>1, <1>5, DefinitionAssumption DEF NextId
  <2>2. rank[current] < rank[m]
    BY <1>1, <1>5, <2>1 DEF Forward, RecordTolerated, Sequential!Successors
  <2>3. PICK l : l = [w[r] EXCEPT !.cur = m]
    OBVIOUS
  <2>4. l.cur = m /\ l.ckpt = ckpt
    BY <1>1, <2>3 DEF Locals
  <2>5. w' = [w EXCEPT ![r] = l]
    BY <1>5, <2>1, <2>3 DEF TypeInv, TypeOK
  <2>6. pc'[r] = "top" /\ w'[r] = l
    BY <1>5, <2>5 DEF TypeInv, TypeOK
  <2>7. FiredOncePerArrival' /\ Owed(m)' /\ Owed(StartNode)'
    BY <1>1, <1>2, <1>3, <1>5, <2>1, ArrivalOwes DEF OnceInv, Owed
  <2>8. BehindPosition(rank)' /\ NextOwed(rank)'
    BY <1>1, <1>2, DefinitionAssumption DEF OnceInv, BehindPosition, NextOwed, NextId
  <2>9. StartsThere(r)' /\ GoesOn(rank, r)' /\ Executes(r)' /\ Answers(r)'
    BY <1>1, <1>2, <2>2, <2>4, <2>6, <2>7 DEF StartsThere, GoesOn, Executes, Answers, Owed
  <2>. QED
    BY <1>2, <1>5, <2>5, <2>7, <2>8, <2>9, OnceMoves DEF PcValues
<1>. QED
  BY <1>1, <1>4, <1>5 DEF RecordTolerated

LEMMA OnceRecord ==
  ASSUME NEW CONSTANT rank, Forward(rank), TypeInv, OnceInv(rank), NEW r \in Replica,
         \A s \in Replica \ {r} : pc[s] = "idle",
         \/ RecordNext(r) \/ RecordErrorRoute(r) \/ RecordFailure(r)
         \/ RecordWait(r) \/ RecordEnd(r)
  PROVE  OnceInv(rank)'
<1>1. pc[r] = "record"
  BY DEF RecordNext, RecordErrorRoute, RecordFailure, RecordWait, RecordEnd
<1>2. /\ w[r] \in Locals /\ current \in Node /\ w[r].cur = current /\ StartNode = current
      /\ w[r].ckpt = ckpt
  BY <1>1, OnceHere
<1>3. CASE RecordNext(r)
  <2>1. w[r].to \in Routes[current] /\ w[r].to \in NextId
    BY <1>1, <1>2, <1>3, LocalFields DEF RecordNext, OnceInv, Answers
  <2>. QED
    BY <1>1, <1>2, <1>3, <2>1, OnceAdvance DEF RecordNext, Sequential!Successors
<1>4. CASE RecordErrorRoute(r)
  <2>1. OnError[current] \in NextId /\ OnError[current] # NoNode
    BY <1>2, <1>4, DefinitionAssumption DEF RecordErrorRoute
  <2>. QED
    BY <1>1, <1>2, <1>4, <2>1, OnceAdvance DEF RecordErrorRoute, Sequential!Successors
<1>5. CASE RecordFailure(r)
  <2>1. ckpt[StartNode] = Unset => Owed(StartNode)
    BY <1>5, OwedHere DEF RecordFailure, Executed
  <2>2. /\ ThenSettle(r, "FAILED") /\ WorkerOnly /\ StartNode' = StartNode
        /\ UNCHANGED <<status, ckpt, fired, arrivals, orphaned>>
    BY <1>2, <1>5 DEF RecordFailure, histVars, StartNode
  <2>. QED
    BY <2>1, <2>2, OnceSettles DEF Status, Terminal, Waiting
<1>6. CASE RecordWait(r)
  BY <1>1, <1>6 DEF RecordWait, OnceInv, Answers
<1>7. CASE RecordEnd(r)
  <2>1. Owed(StartNode)
    BY <1>1, <1>2, <1>7 DEF RecordEnd, OnceInv, Answers, Owed
  <2>2. PICK v \in Status \ Waiting : ThenSettle(r, v)
    BY <1>7 DEF RecordEnd, Status, Terminal, Waiting
  <2>3. /\ WorkerOnly /\ StartNode' = StartNode
        /\ UNCHANGED <<status, ckpt, fired, arrivals, orphaned>>
    BY <1>7 DEF RecordEnd, rowVars, histVars, StartNode
  <2>. QED
    BY <2>1, <2>2, <2>3, OnceSettles
<1>. QED
  BY <1>3, <1>4, <1>5, <1>6, <1>7

\* The status write ends the pass; a checkpoint is never cleared here.
LEMMA OnceFinish ==
  ASSUME NEW CONSTANT rank, TypeInv, OnceInv(rank), NEW r \in Replica,
         \A s \in Replica \ {r} : pc[s] = "idle", Finish(r)
  PROVE  OnceInv(rank)'
<1>1. /\ pc' = [pc EXCEPT ![r] = "release"] /\ w' = [w EXCEPT ![r] = w[r]] /\ rpc' = rpc
      /\ status' \notin Waiting /\ StartNode' = StartNode
      /\ UNCHANGED <<ckpt, fired, arrivals, orphaned>>
  BY DEF Finish, WorkerOnly, waitVars, histVars, StartNode, OnceInv, NeverWaits, TypeInv, TypeOK
<1>2. ckpt[StartNode] = Unset => Owed(StartNode)
  BY OwedHere DEF Finish, Executed
<1>. QED
  BY <1>1, <1>2, OnceStays

LEMMA OnceWorker ==
  ASSUME NEW CONSTANT rank, Forward(rank), OnlySteps, WorkerOwnsLease, TypeInv, OnceInv(rank),
         NEW r \in Replica, Worker(r)
  PROVE  OnceInv(rank)'
<1>1. \A s \in Replica \ {r} : pc[s] = "idle"
  BY WorkerKeepsLease, OnlyWorker
<1>2. ~Clear(r)
  BY DEF Clear, OnceInv
<1>. QED
  BY <1>1, <1>2, OnceLoad, OnceBegin, OnceLoopTop, OnceEnter, OnceAttempt, OnceCall,
     OnceTolerated, OnceRecord, OnceFinish DEF Worker

\* Claims, releases and whatever leaves the worker and the row alone.
LEMMA OnceClaim ==
  ASSUME NEW CONSTANT rank, TypeInv, OnceInv(rank), NEW r \in Replica, Claim(r) \/ Release(r)
  PROVE  OnceInv(rank)'
<1>1. /\ StartNode' = StartNode /\ status' = status /\ rpc' = rpc
      /\ UNCHANGED <<current, ckpt, fired, arrivals, orphaned>>
  BY DEF Claim, Release, rowVars, waitVars, histVars, StartNode
<1>2. PICK p \in {"claimed", "idle"} :
        /\ pc' = [pc EXCEPT ![r] = p]
        /\ \E l : w' = [w EXCEPT ![r] = l] /\ (p = "claimed" => l = Locals0)
  <2>1. w = [w EXCEPT ![r] = w[r]]
    BY DEF TypeInv, TypeOK
  <2>. QED
    BY <2>1 DEF Claim, Release
<1>3. /\ pc'[r] = p /\ (p = "claimed" => w'[r] = Locals0)
      /\ \A s \in Replica \ {r} : pc'[s] = pc[s] /\ w'[s] = w[s]
  BY <1>2 DEF TypeInv, TypeOK
<1>4. ~Executed(r) /\ \A s \in Replica : Executed(s)' <=> Executed(s)
  BY <1>3 DEF Claim, Release, Executed
<1>5. PositionOwed'
  BY <1>1, <1>4 DEF OnceInv, PositionOwed, Owed
<1>6. NeverWaits'
  BY <1>1, <1>3 DEF OnceInv, NeverWaits
<1>7. \A s \in Replica : (pc[s] # "clear" /\ StartsThere(s) /\ GoesOn(rank, s) /\ Executes(s) /\ Answers(s))'
  BY <1>1, <1>3 DEF OnceInv, StartsThere, GoesOn, Executes, Answers, Locals0, Owed
<1>. QED
  BY <1>1, <1>5, <1>6, <1>7, RowKept DEF OnceInv

LEMMA OnceKept ==
  ASSUME NEW CONSTANT rank, OnceInv(rank), status' \notin Waiting,
         UNCHANGED <<current, ckpt, fired, arrivals, orphaned, pc, w, rpc>>
  PROVE  OnceInv(rank)'
<1>1. StartNode' = StartNode
  BY DEF StartNode
<1>2. NeverWaits' /\ PositionOwed'
  BY <1>1 DEF OnceInv, NeverWaits, PositionOwed, Executed, Owed
<1>3. \A s \in Replica : (pc[s] # "clear" /\ StartsThere(s) /\ GoesOn(rank, s) /\ Executes(s) /\ Answers(s))'
  BY <1>1 DEF OnceInv, StartsThere, GoesOn, Executes, Answers, Owed
<1>. QED
  BY <1>1, <1>2, <1>3, RowKept DEF OnceInv

\* An execution whose process dies before its result is stored is owed again.
LEMMA OnceCrash ==
  ASSUME NEW CONSTANT rank, OnlySteps, WorkerOwnsLease, TypeInv, OnceInv(rank),
         NEW r \in Replica, Crash(r)
  PROVE  OnceInv(rank)'
<1>1. /\ StartNode' = StartNode /\ status' = status /\ UNCHANGED <<current, ckpt, fired, arrivals>>
      /\ pc' = [pc EXCEPT ![r] = "idle"] /\ w' = [w EXCEPT ![r] = Locals0]
      /\ rpc' = [rpc EXCEPT ![r] = "idle"]
      /\ orphaned' = IF Unrecorded(r) THEN [orphaned EXCEPT ![w[r].cur] = @ + 1] ELSE orphaned
  BY DEF Crash, rowVars, StartNode
<1>2. /\ pc'[r] = "idle" /\ \A s \in Replica \ {r} : pc'[s] = pc[s] /\ w'[s] = w[s]
      /\ \A s \in Replica : rpc'[s] = "idle"
  BY <1>1 DEF TypeInv, TypeOK, OnceInv, NeverWaits
<1>3. NeverWaits'
  BY <1>1, <1>2 DEF OnceInv, NeverWaits
<1>4. pc[r] = "idle" \/ \A s \in Replica \ {r} : pc[s] = "idle"
  BY OnlyWorker
<1>5. CASE Unrecorded(r)
  <2>1. /\ w[r] \in Locals /\ w[r].cur \in NextId /\ w[r].cur # NoNode
    BY <1>5, Here, LocalFields DEF Unrecorded
  <2>2. pc[r] = "record" /\ Effectful(w[r].cur)
    BY <1>5, <2>1 DEF Unrecorded, OnlySteps, NextId
  <2>3. current \in Node /\ w[r].cur = current /\ StartNode = current
        /\ \A s \in Replica \ {r} : pc[s] = "idle"
    BY <1>4, <2>2, OnceHere
  <2>4. orphaned' = [orphaned EXCEPT ![current] = @ + 1]
    BY <1>1, <1>5, <2>3
  <2>5. ASSUME NEW n \in Node
        PROVE  /\ Effectful(n) => fired[n] <= arrivals[n] + orphaned'[n]
               /\ Owed(n) => Owed(n)'
               /\ n = current => Owed(n)'
    <3>1. PICK f \in Nat, a \in Nat, o \in Nat : f = fired[n] /\ a = arrivals[n] /\ o = orphaned[n]
      BY DEF TypeInv, TypeOK
    <3>2. (orphaned'[n] = o \/ orphaned'[n] = o + 1) /\ (n = current => orphaned'[n] = o + 1)
      BY <2>4, <3>1 DEF TypeInv, TypeOK
    <3>3. Effectful(n) => f <= a + o
      BY <3>1 DEF OnceInv, FiredOncePerArrival
    <3>4. Owed(n) <=> (Effectful(n) => f + 1 <= a + o)
      BY <3>1 DEF Owed
    <3>5. Owed(n)' <=> (Effectful(n) => f + 1 <= a + orphaned'[n])
      BY <1>1, <3>1 DEF Owed, Effectful
    <3>. QED
      BY <3>1, <3>2, <3>3, <3>4, <3>5
  <2>6. FiredOncePerArrival'
    BY <1>1, <2>5 DEF FiredOncePerArrival, Effectful
  <2>7. BehindPosition(rank)'
    BY <1>1 DEF OnceInv, BehindPosition
  <2>8. NextOwed(rank)'
    <3>1. CASE ckpt[StartNode] \in Node
      <4>1. PICK m \in Node : m = ckpt[StartNode]
        BY <3>1
      <4>2. Owed(m)' /\ rank[StartNode] < rank[m]
        BY <2>5, <4>1 DEF OnceInv, NextOwed
      <4>. QED
        BY <1>1, <4>1, <4>2 DEF NextOwed
    <3>2. CASE ckpt[StartNode] \notin Node
      BY <1>1, <3>2 DEF NextOwed
    <3>. QED
      BY <3>1, <3>2
  <2>9. Owed(StartNode)'
    BY <1>1, <2>3, <2>5 DEF Owed
  <2>10. PositionOwed'
    BY <2>9 DEF PositionOwed
  <2>11. \A s \in Replica : (pc[s] # "clear" /\ StartsThere(s) /\ GoesOn(rank, s) /\ Executes(s) /\ Answers(s))'
    BY <1>2, <2>3 DEF StartsThere, GoesOn, Executes, Answers
  <2>. QED
    BY <1>3, <2>6, <2>7, <2>8, <2>10, <2>11 DEF OnceInv
<1>6. CASE ~Unrecorded(r)
  <2>1. orphaned' = orphaned
    BY <1>1, <1>6
  <2>2. PositionOwed'
    <3>1. CASE Executed(r)
      <4>1. current \in Node /\ w[r].cur = current /\ StartNode = current
        BY <3>1, OnceHere DEF Executed
      <4>2. ~Effectful(StartNode)
        BY <1>6, <3>1, <4>1, DefinitionAssumption DEF Executed, Unrecorded
      <4>. QED
        BY <1>1, <4>2 DEF PositionOwed, Owed, Effectful
    <3>2. CASE ~Executed(r)
      <4>1. (\A s \in Replica : ~Executed(s))' => \A s \in Replica : ~Executed(s)
        BY <1>2, <3>2 DEF Executed
      <4>. QED
        BY <1>1, <2>1, <4>1 DEF OnceInv, PositionOwed, Owed
    <3>. QED
      BY <3>1, <3>2
  <2>3. \A s \in Replica : (pc[s] # "clear" /\ StartsThere(s) /\ GoesOn(rank, s) /\ Executes(s) /\ Answers(s))'
    BY <1>1, <1>2, <2>1 DEF OnceInv, StartsThere, GoesOn, Executes, Answers, Owed
  <2>. QED
    BY <1>1, <1>3, <2>1, <2>2, <2>3, RowKept DEF OnceInv
<1>. QED
  BY <1>5, <1>6

\* A run without tasks and timers is never woken.
LEMMA NeverWoken ==
  ASSUME NEW CONSTANT rank, OnlySteps, OnceInv(rank), NEW r \in Replica
  PROVE  ~(Deliver(r) \/ TimerScan(r) \/ Resumer(r))
BY DEF OnlySteps, OnceInv, NeverWaits, Waiting, Deliver, TimerScan, Resumer, HumanLoad,
       HumanRoute, HumanGo, TimerMark, TimerGo

\* With an exclusive worker, a node others see runs once per arrival at it in every
\* definition without pauses and cycles, whatever crashes, restarts, reclaims and
\* cancels do (server.go:501-528). With a cycle it fails: the run engine_loop_replay.
THEOREM FiredOnceGoingForward ==
  ASSUME MaxStalls = 0, MaxDbErrors = 0, OnlySteps, NEW CONSTANT rank, Forward(rank)
  PROVE  Spec => []FiredOncePerArrival
<1>1. Init => OnceInv(rank)
  <2>. SUFFICES ASSUME Init PROVE OnceInv(rank)
    OBVIOUS
  <2>1. StartNode = Start /\ Start \in Node /\ \A n \in Node : ckpt[n] = Unset
    BY DefinitionAssumption DEF Init, StartNode, NoCkpt
  <2>2. NeverWaits /\ FiredOncePerArrival /\ BehindPosition(rank)
    BY <2>1 DEF Init, NeverWaits, Waiting, FiredOncePerArrival, BehindPosition
  <2>3. Owed(Start)
    BY <2>1 DEF Init, Owed
  <2>4. PositionOwed /\ NextOwed(rank)
    BY <2>1, <2>3, DefinitionAssumption DEF PositionOwed, NextOwed, NextId
  <2>5. \A r \in Replica : pc[r] # "clear" /\ StartsThere(r) /\ GoesOn(rank, r) /\ Executes(r) /\ Answers(r)
    BY DEF Init, StartsThere, GoesOn, Executes, Answers
  <2>. QED
    BY <2>2, <2>4, <2>5 DEF OnceInv
<1>2. TypeInv /\ WorkerOwnsLease /\ OnceInv(rank) /\ [Next]_vars => OnceInv(rank)'
  <2>. SUFFICES ASSUME TypeInv, WorkerOwnsLease, OnceInv(rank), [Next]_vars PROVE OnceInv(rank)'
    OBVIOUS
  <2>1. ASSUME NEW r \in Replica, Skip(r) \/ Heartbeat(r) \/ HeartbeatError(r) \/ ReadError(r) \/ Reclaim(r)
                 \/ Restart(r) \/ ResumeInFlight(r)
        PROVE  OnceInv(rank)'
    <3>1. UNCHANGED <<status, current, ckpt, fired, arrivals, orphaned, pc, w, rpc>>
      <4>1. ~ReadError(r)
        BY DatabaseAnswers DEF TypeInv, TypeOK
      <4>. QED
        BY <2>1, <4>1 DEF Skip, Heartbeat, HeartbeatError, Reclaim, Restart, ResumeInFlight,
                          rowVars, workVars, waitVars, histVars
    <3>. QED
      BY <3>1, OnceKept DEF OnceInv, NeverWaits
  <2>2. CASE Expire \/ Cancel \/ UNCHANGED vars
    <3>1. /\ UNCHANGED <<current, ckpt, fired, arrivals, orphaned, pc, w, rpc>>
          /\ status' = status \/ status' = "CANCELLED"
      BY <2>2 DEF Expire, Cancel, vars, rowVars, workVars, waitVars, histVars
    <3>. QED
      BY <3>1, OnceKept DEF OnceInv, NeverWaits, Waiting
  <2>. QED
    BY <2>1, <2>2, OnceWorker, OnceClaim, OnceCrash, NeverWoken DEF Next
<1>3. OnceInv(rank) => FiredOncePerArrival
  BY DEF OnceInv
<1>4. Spec => []WorkerOwnsLease
  BY WorkerOwnsLeaseInvariant
<1>. QED
  BY <1>1, <1>2, <1>3, <1>4, TypeInvariant, PTL DEF Spec
-----------------------------------------------------------------------------
(* Runs that pause, while no process dies. *)

\* Nothing goes wrong but users and the registry: no stall, no failed write, no
\* crash, and no decision is delivered twice.
Calm == MaxStalls = 0 /\ MaxDbErrors = 0 /\ MaxCrashes = 0 /\ MaxDuplicates = 0

\* A worker that still acts on the run, and the two kinds of resume.
Acting  == PcValues \ {"idle", "release"}
ByHuman == {"hload", "hroute", "hgo"}
ByTimer == {"tmark", "tgo"}

\* A replica holds the run: it has a queued start, a worker that acts, or a resume.
Holds(r) == queue[r] > 0 \/ pc[r] \in Acting \/ rpc[r] # "idle"

OneHolder ==
  /\ \A r, s \in Replica : Holds(r) /\ Holds(s) => r = s
  /\ \A r \in Replica : /\ queue[r] = 0 \/ queue[r] = 1
                        /\ queue[r] > 0 => pc[r] \notin Acting /\ rpc[r] = "idle"
                        /\ pc[r] \in Acting => rpc[r] = "idle"

AllAlive ==
  /\ \A r \in Replica : up[r] /\ ~recover[r]
  /\ lease # "expired" /\ (lease = "live" => owner \in Replica /\ pc[owner] # "idle")

\* A paused run is held by nobody but a resume of the node it is paused at.
PausesAt(v) ==
  v \in Waiting => current \in Node /\ Kind[current] \in {"human", "timer"} /\ v = PauseStatus(current)
PausedRun ==
  /\ status \in Waiting => \A r \in Replica : queue[r] = 0 /\ pc[r] \notin Acting
  /\ PausesAt(status)
  /\ \A r \in Replica :
       /\ rpc[r] \in ByHuman => status \in {"WAITING_HUMAN", "CANCELLED"}
       /\ rpc[r] \in ByTimer => status \in {"WAITING_TIMER", "CANCELLED"}
       /\ rpc[r] # "idle" => rw[r].node = current

WorkerAtNode ==
  \A r \in Replica :
    /\ pc[r] \in {"clear", "attempt", "call", "record"} => w[r].cur = current
    /\ pc[r] = "record" /\ w[r].act = "WAIT" => Kind[current] \in {"human", "timer"}
    /\ pc[r] = "finish" => PausesAt(w[r].verdict)

\* The task of node n awaits its decision: the run is paused there, or about to be.
Pausing(r) == \/ pc[r] = "record" /\ w[r].act = "WAIT"
              \/ pc[r] = "finish" /\ w[r].verdict = "WAITING_HUMAN"
AwaitedAt(n) ==
  n = current /\ \A r \in Replica : Holds(r) => Pausing(r)

\* Every task has had its decision, but for the one the run is paused at.
OneTask ==
  \A n \in Node : Kind[n] = "human" =>
    \/ deliveries[n] = fired[n]
    \/ fired[n] = deliveries[n] + 1 /\ AwaitedAt(n)

CalmInv == OneHolder /\ AllAlive /\ PausedRun /\ WorkerAtNode /\ OneTask

NoTaskOpen == \A n \in Node : Kind[n] = "human" => deliveries[n] = fired[n]

\* Whoever holds the run and is not about to pause it finds every task decided.
LEMMA HolderFindsNoTask ==
  ASSUME CalmInv, NEW r \in Replica, Holds(r), ~Pausing(r)
  PROVE  NoTaskOpen
BY DEF CalmInv, OneTask, AwaitedAt, NoTaskOpen

LEMMA NoTaskStaysOpen ==
  ASSUME NoTaskOpen, UNCHANGED <<deliveries, fired>>
  PROVE  OneTask'
BY DEF NoTaskOpen, OneTask

\* The holder's worker is alone.
LEMMA ActingAlone ==
  ASSUME CalmInv, NEW r \in Replica, pc[r] \in Acting
  PROVE  /\ status \notin Waiting /\ queue[r] = 0
         /\ \A s \in Replica : /\ rpc[s] = "idle" /\ queue[s] = 0
                               /\ s # r => pc[s] \notin Acting
<1>1. Holds(r) /\ rpc[r] = "idle" /\ queue[r] = 0
  BY DEF CalmInv, OneHolder, Holds
<1>2. \A s \in Replica \ {r} : ~Holds(s)
  BY <1>1 DEF CalmInv, OneHolder
<1>. QED
  BY <1>1, <1>2 DEF CalmInv, OneHolder, PausedRun, Holds

\* A step of the worker: what is left to show.
LEMMA CalmMoves ==
  ASSUME TypeInv, CalmInv, NEW r \in Replica, pc[r] \in Acting, WorkerOnly,
         NEW p \in PcValues \ {"idle"}, NEW l,
         pc' = [pc EXCEPT ![r] = p], w' = [w EXCEPT ![r] = l],
         status' \in Waiting => p = "release", PausesAt(status)',
         p \in {"clear", "attempt", "call", "record"} => l.cur = current',
         p = "record" /\ l.act = "WAIT" => Kind[current'] \in {"human", "timer"},
         p = "finish" => PausesAt(l.verdict)',
         OneTask'
  PROVE  CalmInv'
<1>1. /\ queue' = queue /\ rpc' = rpc /\ rw' = rw /\ up' = up /\ recover' = recover
      /\ lease' = lease /\ owner' = owner
  BY DEF WorkerOnly, hostVars, waitVars, leaseVars
<1>2. pc'[r] = p /\ w'[r] = l /\ \A s \in Replica \ {r} : pc'[s] = pc[s] /\ w'[s] = w[s]
  BY DEF TypeInv, TypeOK
<1>3. \A s \in Replica : rpc[s] = "idle" /\ queue[s] = 0 /\ (s # r => pc[s] \notin Acting)
  BY ActingAlone
<1>4. OneHolder'
  BY <1>1, <1>2, <1>3 DEF OneHolder, Holds
<1>5. AllAlive'
  BY <1>1, <1>2 DEF CalmInv, AllAlive
<1>6. PausedRun'
  BY <1>1, <1>2, <1>3 DEF PausedRun, Acting, ByHuman, ByTimer
<1>7. WorkerAtNode'
  BY <1>2, <1>3 DEF WorkerAtNode, Acting, PcValues
<1>. QED
  BY <1>4, <1>5, <1>6, <1>7 DEF CalmInv

LEMMA InitCalm == Init => CalmInv
<1>. SUFFICES ASSUME Init PROVE CalmInv
  OBVIOUS
<1>1. PICK creator \in Replica : queue = [r \in Replica |-> IF r = creator THEN 1 ELSE 0]
  BY DEF Init
<1>2. OneHolder
  BY <1>1 DEF Init, OneHolder, Holds, Acting
<1>3. AllAlive /\ WorkerAtNode /\ PausedRun
  BY DEF Init, AllAlive, WorkerAtNode, PausedRun, PausesAt, Waiting, ByHuman, ByTimer
<1>4. OneTask
  BY DEF Init, OneTask
<1>. QED
  BY <1>2, <1>3, <1>4 DEF CalmInv

LEMMA CalmSettles ==
  ASSUME TypeInv, CalmInv, NEW r \in Replica, pc[r] \in Acting, WorkerOnly,
         NEW v \in Status, ThenSettle(r, v), UNCHANGED status, PausesAt(v)', OneTask'
  PROVE  CalmInv'
<1>1. PICK l \in Locals : l.verdict = v /\ w' = [w EXCEPT ![r] = l] /\ pc' = [pc EXCEPT ![r] = "finish"]
  BY SettleMoves
<1>2. status' \notin Waiting
  BY ActingAlone
<1>. QED
  BY <1>1, <1>2, CalmMoves DEF PausesAt, PcValues

\* The worker's steps before it has a result: no task is open.
LEMMA CalmEarly ==
  ASSUME TypeInv, CalmInv, NEW r \in Replica,
         \/ Load(r) \/ Begin(r) \/ LoopTop(r) \/ Enter(r) \/ Clear(r) \/ Attempt(r)
  PROVE  CalmInv'
<1>1. pc[r] \in {"claimed", "begin", "top", "enter", "clear", "attempt"} /\ WorkerOnly
  BY DEF Load, Begin, LoopTop, Enter, Clear, Attempt
<1>2. pc[r] \in Acting /\ w[r] \in Locals /\ status \notin Waiting
  BY <1>1, Here, ActingAlone DEF Acting, PcValues
<1>3. OneTask'
  <2>1. NoTaskOpen
    BY <1>1, <1>2, HolderFindsNoTask DEF Holds, Pausing
  <2>2. UNCHANGED <<deliveries, fired>>
    BY DEF Load, Begin, LoopTop, Enter, Clear, Attempt, WorkerOnly, envVars, histVars
  <2>. QED
    BY <2>1, <2>2, NoTaskStaysOpen
<1>4. ASSUME NEW v \in Status \ Waiting, ThenSettle(r, v), UNCHANGED status
      PROVE  CalmInv'
  BY <1>1, <1>2, <1>3, <1>4, CalmSettles DEF PausesAt
<1>5. ASSUME NEW p \in {"begin", "top", "enter", "release"}, NEW l,
             pc' = [pc EXCEPT ![r] = p], w' = [w EXCEPT ![r] = l], status' \notin Waiting
      PROVE  CalmInv'
  BY <1>1, <1>2, <1>3, <1>5, CalmMoves DEF PausesAt, PcValues
<1>6. CASE Load(r)
  <2>1. CASE pc' = [pc EXCEPT ![r] = "release"] /\ UNCHANGED w
    <3>1. w' = [w EXCEPT ![r] = w[r]] /\ status' = status
      BY <1>6, <2>1 DEF Load, rowVars, TypeInv, TypeOK
    <3>. QED
      BY <1>2, <1>5, <2>1, <3>1
  <2>2. CASE ThenSettle(r, "FAILED")
    BY <1>4, <1>6, <2>2 DEF Load, rowVars, Status, Terminal, Waiting
  <2>3. CASE /\ pc' = [pc EXCEPT ![r] = "begin"]
             /\ w' = [w EXCEPT ![r].cur = StartNode, ![r].pending = (status = "PENDING")]
    <3>1. PICK l : l = [w[r] EXCEPT !.cur = StartNode, !.pending = (status = "PENDING")]
      OBVIOUS
    <3>2. w' = [w EXCEPT ![r] = l] /\ status' = status
      BY <1>6, <2>3, <3>1 DEF Load, rowVars, TypeInv, TypeOK
    <3>. QED
      BY <1>2, <1>5, <2>3, <3>2
  <2>. QED
    BY <1>6, <2>1, <2>2, <2>3 DEF Load
<1>7. CASE Begin(r)
  <2>1. PICK l : l = [w[r] EXCEPT !.ckpt = ckpt, !.mark = mark]
    OBVIOUS
  <2>2. w' = [w EXCEPT ![r] = l] /\ pc' = [pc EXCEPT ![r] = "top"] /\ status' \notin Waiting
    BY <1>2, <1>7, <2>1 DEF Begin, Waiting, TypeInv, TypeOK
  <2>. QED
    BY <1>5, <2>2
<1>8. CASE LoopTop(r)
  <2>9. status' = status
    BY <1>8 DEF LoopTop, rowVars
  <2>1. CASE pc' = [pc EXCEPT ![r] = "release"] /\ UNCHANGED w
    <3>1. w' = [w EXCEPT ![r] = w[r]]
      BY <2>1 DEF TypeInv, TypeOK
    <3>. QED
      BY <1>2, <1>5, <2>9, <2>1, <3>1
  <2>2. CASE ThenSettle(r, "FAILED")
    BY <1>4, <2>9, <2>2 DEF Status, Terminal, Waiting
  <2>3. CASE pc' = [pc EXCEPT ![r] = "enter"] /\ w' = [w EXCEPT ![r].steps = @ + 1]
    <3>1. PICK l : l = [w[r] EXCEPT !.steps = w[r].steps + 1]
      OBVIOUS
    <3>2. w' = [w EXCEPT ![r] = l]
      BY <2>3, <3>1 DEF TypeInv, TypeOK
    <3>. QED
      BY <1>2, <1>5, <2>9, <2>3, <3>2
  <2>. QED
    BY <1>8, <2>1, <2>2, <2>3 DEF LoopTop
<1>9. CASE Enter(r)
  <2>1. status' = status /\ current' = w[r].cur
    BY <1>9 DEF Enter
  <2>2. CASE UNCHANGED w /\ \E p \in {"attempt", "clear"} : pc' = [pc EXCEPT ![r] = p]
    <3>1. w' = [w EXCEPT ![r] = w[r]]
      BY <2>2 DEF TypeInv, TypeOK
    <3>. QED
      BY <1>1, <1>2, <1>3, <2>1, <2>2, <3>1, CalmMoves DEF PausesAt, PcValues
  <2>3. CASE ThenSettle(r, "COMPLETED")
    BY <1>4, <2>1, <2>3 DEF Status, Terminal, Waiting
  <2>4. CASE /\ pc' = [pc EXCEPT ![r] = "top"]
             /\ w' = [w EXCEPT ![r].cur = w[r].ckpt[w[r].cur], ![r].skipped = @ \cup {w[r].cur}]
    <3>1. PICK l : l = [w[r] EXCEPT !.cur = w[r].ckpt[w[r].cur], !.skipped = @ \cup {w[r].cur}]
      OBVIOUS
    <3>2. w' = [w EXCEPT ![r] = l]
      BY <2>4, <3>1 DEF TypeInv, TypeOK
    <3>. QED
      BY <1>2, <1>5, <2>1, <2>4, <3>2
  <2>. QED
    BY <1>9, <2>2, <2>3, <2>4 DEF Enter
<1>10. CASE Clear(r)
  <2>1. PICK l : l = [w[r] EXCEPT !.ckpt = [w[r].ckpt EXCEPT ![w[r].cur] = Unset]]
    OBVIOUS
  <2>2. w' = [w EXCEPT ![r] = l]
    BY <1>10, <2>1 DEF Clear, TypeInv, TypeOK
  <2>3. /\ l.cur = current' /\ status' = status /\ pc' = [pc EXCEPT ![r] = "attempt"]
    BY <1>1, <1>2, <1>10, <2>1 DEF Clear, Locals, CalmInv, WorkerAtNode
  <2>. QED
    BY <1>1, <1>2, <1>3, <2>2, <2>3, CalmMoves DEF PausesAt, PcValues
<1>11. CASE Attempt(r)
  <2>1. status' = status /\ current' = w[r].cur
    BY <1>11 DEF Attempt, rowVars, CalmInv, WorkerAtNode
  <2>2. CASE pc' = [pc EXCEPT ![r] = "call"] /\ UNCHANGED w
    <3>1. w' = [w EXCEPT ![r] = w[r]]
      BY <2>2 DEF TypeInv, TypeOK
    <3>. QED
      BY <1>1, <1>2, <1>3, <2>1, <2>2, <3>1, CalmMoves DEF PausesAt, PcValues
  <2>3. CASE pc' = [pc EXCEPT ![r] = "record"] /\ w' = [w EXCEPT ![r].act = "ERROR", ![r].to = NoNode]
    <3>1. PICK l : l = [w[r] EXCEPT !.act = "ERROR", !.to = NoNode]
      OBVIOUS
    <3>2. w' = [w EXCEPT ![r] = l] /\ l.act = "ERROR" /\ l.cur = w[r].cur
      BY <1>2, <2>3, <3>1 DEF TypeInv, TypeOK, Locals
    <3>. QED
      BY <1>1, <1>2, <1>3, <2>1, <2>3, <3>2, CalmMoves DEF PausesAt, PcValues
  <2>. QED
    BY <1>11, <2>2, <2>3 DEF Attempt
<1>. QED
  BY <1>6, <1>7, <1>8, <1>9, <1>10, <1>11

\* The execution of a task node opens its task, at the node the run is at.
LEMMA CalmCall ==
  ASSUME TypeInv, CalmInv, NEW r \in Replica, Call(r)
  PROVE  CalmInv'
<1>1. pc[r] = "call" /\ WorkerOnly /\ status' = status /\ current' = current /\ deliveries' = deliveries
      /\ pc' = [pc EXCEPT ![r] = "record"]
  BY DEF Call, WorkerOnly, rowVars, envVars
<1>2. pc[r] \in Acting /\ w[r] \in Locals /\ status \notin Waiting /\ w[r].cur = current /\ current \in Node
  BY <1>1, Here, ActingAlone DEF Acting, PcValues, InLoop, CalmInv, WorkerAtNode
<1>3. PICK res \in Results(current, w[r].mark) :
        /\ w' = [w EXCEPT ![r].act = res[1], ![r].to = res[2]]
        /\ IF res[1] # "ERROR" /\ Effectful(current)
           THEN fired' = [fired EXCEPT ![current] = @ + 1] ELSE UNCHANGED fired
  BY <1>2 DEF Call
<1>4. /\ res[1] = "WAIT" => Kind[current] \in {"human", "timer"}
      /\ Kind[current] = "human" => res[1] \in {"WAIT", "ERROR"}
  BY <1>2, DefinitionAssumption DEF Results, Kinds
<1>5. PICK l : l = [w[r] EXCEPT !.act = res[1], !.to = res[2]]
  OBVIOUS
<1>6. w' = [w EXCEPT ![r] = l] /\ l.act = res[1] /\ l.cur = current
  BY <1>2, <1>3, <1>5 DEF TypeInv, TypeOK, Locals
<1>7. NoTaskOpen
  BY <1>1, <1>2, HolderFindsNoTask DEF Holds, Pausing
<1>8. OneTask'
  <2>1. CASE fired' = fired
    BY <1>1, <1>7, <2>1, NoTaskStaysOpen
  <2>2. CASE res[1] # "ERROR" /\ fired' = [fired EXCEPT ![current] = @ + 1]
    <3>1. Kind[current] = "human" => fired'[current] = deliveries[current] + 1 /\ AwaitedAt(current)'
      <4>1. pc'[r] = "record" /\ w'[r] = l /\ \A s \in Replica \ {r} : pc'[s] = pc[s]
        BY <1>1, <1>6 DEF TypeInv, TypeOK
      <4>2. \A s \in Replica \ {r} : ~Holds(s)'
        BY <1>1, <1>2, <4>1, ActingAlone DEF WorkerOnly, hostVars, waitVars, Holds
      <4>3. Kind[current] = "human" => Pausing(r)'
        BY <1>4, <1>6, <2>2, <4>1 DEF Pausing
      <4>4. Kind[current] = "human" => AwaitedAt(current)'
        BY <1>1, <4>2, <4>3 DEF AwaitedAt
      <4>5. Kind[current] = "human" => fired'[current] = deliveries[current] + 1
        BY <1>2, <1>7, <2>2 DEF NoTaskOpen, TypeInv, TypeOK
      <4>. QED
        BY <4>4, <4>5
    <3>2. \A n \in Node \ {current} : fired'[n] = fired[n]
      BY <2>2 DEF TypeInv, TypeOK
    <3>. QED
      BY <1>1, <1>7, <3>1, <3>2 DEF OneTask, NoTaskOpen
  <2>. QED
    BY <1>3, <2>1, <2>2
<1>. QED
  BY <1>1, <1>2, <1>4, <1>6, <1>8, CalmMoves DEF PausesAt, PcValues

\* Results that do not pause the run come from a node without an open task.
LEMMA CalmRecord ==
  ASSUME TypeInv, CalmInv, NEW r \in Replica,
         RecordNext(r) \/ RecordErrorRoute(r) \/ RecordTolerated(r) \/ RecordFailure(r) \/ RecordEnd(r)
  PROVE  CalmInv'
<1>1. pc[r] = "record" /\ w[r].act # "WAIT" /\ WorkerOnly
      /\ status' = status /\ deliveries' = deliveries /\ fired' = fired
  BY DEF RecordNext, RecordErrorRoute, RecordTolerated, RecordFailure, RecordEnd, WorkerOnly,
         rowVars, envVars, histVars
<1>2. pc[r] \in Acting /\ w[r] \in Locals /\ status \notin Waiting
  BY <1>1, Here, ActingAlone DEF Acting, PcValues
<1>3. OneTask'
  BY <1>1, <1>2, HolderFindsNoTask, NoTaskStaysOpen DEF Holds, Pausing
<1>4. ASSUME NEW n, NEW m, Advance(r, n, m) PROVE CalmInv'
  <2>1. CASE m = NoNode
    <3>1. PICK l : l = [w[r] EXCEPT !.ckpt = ckpt', !.fresh = TRUE, !.verdict = "COMPLETED"]
      OBVIOUS
    <3>2. w' = [w EXCEPT ![r] = l] /\ l.verdict = "COMPLETED" /\ pc' = [pc EXCEPT ![r] = "finish"]
      BY <1>2, <1>4, <2>1, <3>1 DEF Advance, TypeInv, TypeOK, Locals
    <3>. QED
      BY <1>1, <1>2, <1>3, <3>2, CalmMoves DEF PausesAt, PcValues, Waiting
  <2>2. CASE m # NoNode
    <3>1. PICK l : l = [w[r] EXCEPT !.ckpt = ckpt', !.fresh = TRUE, !.cur = m]
      OBVIOUS
    <3>2. w' = [w EXCEPT ![r] = l] /\ pc' = [pc EXCEPT ![r] = "top"]
      BY <1>4, <2>2, <3>1 DEF Advance, TypeInv, TypeOK
    <3>. QED
      BY <1>1, <1>2, <1>3, <3>2, CalmMoves DEF PausesAt, PcValues
  <2>. QED
    BY <2>1, <2>2
<1>5. ASSUME NEW v \in Status \ Waiting, ThenSettle(r, v) PROVE CalmInv'
  BY <1>1, <1>2, <1>3, <1>5, CalmSettles DEF PausesAt
<1>6. CASE RecordNext(r) \/ RecordErrorRoute(r)
  BY <1>4, <1>6 DEF RecordNext, RecordErrorRoute
<1>7. CASE RecordFailure(r) \/ RecordEnd(r)
  <2>1. \E v \in Status \ Waiting : ThenSettle(r, v)
    BY <1>7 DEF RecordFailure, RecordEnd, Status, Terminal, Waiting
  <2>. QED
    BY <1>5, <2>1
<1>8. CASE RecordTolerated(r)
  <2>1. CASE ThenSettle(r, "COMPLETED")
    BY <1>5, <2>1 DEF Status, Terminal, Waiting
  <2>2. CASE pc' = [pc EXCEPT ![r] = "top"] /\ w' = [w EXCEPT ![r].cur = Follow[w[r].cur]]
    <3>1. PICK l : l = [w[r] EXCEPT !.cur = Follow[w[r].cur]]
      OBVIOUS
    <3>2. w' = [w EXCEPT ![r] = l]
      BY <2>2, <3>1 DEF TypeInv, TypeOK
    <3>. QED
      BY <1>1, <1>2, <1>3, <2>2, <3>2, CalmMoves DEF PausesAt, PcValues
  <2>. QED
    BY <1>8, <2>1, <2>2 DEF RecordTolerated
<1>. QED
  BY <1>6, <1>7, <1>8

\* A pause: the open task stays the one the run is at.
LEMMA CalmWait ==
  ASSUME TypeInv, CalmInv, NEW r \in Replica, RecordWait(r) \/ Finish(r)
  PROVE  CalmInv'
<1>1. /\ pc[r] \in {"record", "finish"} /\ WorkerOnly /\ deliveries' = deliveries /\ fired' = fired
      /\ current' = current
  BY DEF RecordWait, Finish, WorkerOnly, envVars, histVars
<1>2. pc[r] \in Acting /\ w[r] \in Locals /\ status \notin Waiting
  BY <1>1, Here, ActingAlone DEF Acting, PcValues
<1>3. \A s \in Replica : queue'[s] = 0 /\ rpc'[s] = "idle"
  BY <1>1, <1>2, ActingAlone DEF WorkerOnly, hostVars, waitVars
<1>4. CASE RecordWait(r)
  <2>1. /\ w[r].cur = current /\ current \in Node /\ Kind[current] \in {"human", "timer"}
        /\ status' = status /\ ThenSettle(r, PauseStatus(current))
    BY <1>4, Here DEF RecordWait, CalmInv, WorkerAtNode, InLoop
  <2>2. PauseStatus(current) \in Status /\ (Kind[current] = "human" => PauseStatus(current) = "WAITING_HUMAN")
    BY DEF PauseStatus, Status, Waiting
  <2>3. PICK l \in Locals : l.verdict = PauseStatus(current) /\ w' = [w EXCEPT ![r] = l] /\ pc' = [pc EXCEPT ![r] = "finish"]
    BY <2>1, <2>2, SettleMoves
  <2>4. pc'[r] = "finish" /\ w'[r] = l /\ \A s \in Replica \ {r} : pc'[s] \notin Acting
    BY <1>2, <2>3, ActingAlone DEF TypeInv, TypeOK
  <2>5. Kind[current] = "human" => \A s \in Replica : Holds(s)' => Pausing(s)'
    BY <1>3, <2>2, <2>3, <2>4 DEF Holds, Pausing
  <2>6. OneTask'
    BY <1>1, <2>5 DEF CalmInv, OneTask, AwaitedAt
  <2>7. PausesAt(PauseStatus(current))'
    BY <1>1, <2>1 DEF PausesAt, PauseStatus
  <2>. QED
    BY <1>1, <1>2, <2>1, <2>2, <2>6, <2>7, CalmSettles
<1>5. CASE Finish(r)
  <2>1. /\ status' = w[r].verdict /\ pc' = [pc EXCEPT ![r] = "release"]
        /\ w' = [w EXCEPT ![r] = w[r]] /\ pc[r] = "finish"
    BY <1>5 DEF Finish, TypeInv, TypeOK
  <2>2. \A s \in Replica : pc'[s] \notin Acting
    BY <1>2, <2>1, ActingAlone DEF TypeInv, TypeOK, Acting
  <2>3. \A s \in Replica : ~Holds(s)'
    BY <1>3, <2>2 DEF Holds
  <2>4. OneTask'
    BY <1>1, <2>3 DEF CalmInv, OneTask, AwaitedAt
  <2>5. PausesAt(status)'
    BY <1>1, <2>1 DEF CalmInv, WorkerAtNode, PausesAt, PauseStatus
  <2>. QED
    BY <1>1, <1>2, <2>1, <2>4, <2>5, CalmMoves DEF PcValues
<1>. QED
  BY <1>4, <1>5

LEMMA CalmWorker ==
  ASSUME TypeInv, CalmInv, NEW r \in Replica, Worker(r)
  PROVE  CalmInv'
BY CalmEarly, CalmCall, CalmRecord, CalmWait DEF Worker

\* Starting and leasing: the only queued start becomes the only worker.
LEMMA CalmHost ==
  ASSUME Calm, TypeInv, WorkerOwnsLease, CalmInv, NEW r \in Replica,
         Claim(r) \/ Skip(r) \/ Heartbeat(r) \/ Release(r)
  PROVE  CalmInv'
<1>. USE DEF rowVars, leaseVars, hostVars, workVars, waitVars, histVars, envVars
<1>1. UNCHANGED <<status, current, rpc, rw, up, recover, fired, deliveries>>
  BY DEF Claim, Skip, Heartbeat, Release
<1>2. CASE Claim(r) \/ Skip(r)
  <2>1. queue[r] = 1 /\ pc[r] = "idle" /\ rpc[r] = "idle" /\ Holds(r) /\ ~Pausing(r)
    BY <1>2 DEF Claim, Skip, CalmInv, OneHolder, Holds, Pausing
  <2>2. \A s \in Replica \ {r} : ~Holds(s)
    BY <2>1 DEF CalmInv, OneHolder
  <2>3. /\ queue'[r] = 0 /\ \A s \in Replica \ {r} : queue'[s] = queue[s] /\ pc'[s] = pc[s] /\ w'[s] = w[s]
        /\ pc'[r] \in {"idle", "claimed"}
    BY <1>2, <2>1 DEF Claim, Skip, TypeInv, TypeOK
  <2>4. OneTask'
    BY <1>1, <2>1, HolderFindsNoTask, NoTaskStaysOpen
  <2>5. OneHolder'
    BY <1>1, <2>1, <2>2, <2>3 DEF CalmInv, OneHolder, Holds, Acting
  <2>6. AllAlive'
    <3>1. CASE Claim(r)
      BY <1>1, <3>1 DEF CalmInv, AllAlive, Claim, TypeInv, TypeOK
    <3>2. CASE Skip(r)
      BY <1>1, <3>2 DEF CalmInv, AllAlive, Skip
    <3>. QED
      BY <1>2, <3>1, <3>2
  <2>7. status \notin Waiting
    BY <2>1 DEF CalmInv, PausedRun
  <2>8. PausedRun'
    BY <1>1, <2>7 DEF CalmInv, PausedRun, PausesAt, Waiting
  <2>9. WorkerAtNode'
    BY <1>1, <2>3 DEF CalmInv, WorkerAtNode, PausesAt
  <2>. QED
    BY <2>4, <2>5, <2>6, <2>8, <2>9 DEF CalmInv
<1>3. CASE Heartbeat(r) \/ Release(r)
  <2>1. queue' = queue /\ w' = w /\ pc[r] # "idle" /\ owner = r /\ lease = "live"
    BY <1>3 DEF Heartbeat, Release, WorkerOwnsLease
  <2>2. \/ pc' = pc /\ lease' = "live" /\ owner' = owner
        \/ pc' = [pc EXCEPT ![r] = "idle"] /\ lease' = "none" /\ pc[r] = "release"
    BY <1>3, <2>1 DEF Heartbeat, Release, Releases
  <2>3. \A s \in Replica : /\ pc'[s] \in Acting <=> pc[s] \in Acting
                           /\ pc'[s] \in Acting => pc'[s] = pc[s]
    BY <2>2 DEF Acting, TypeInv, TypeOK
  <2>4. \A s \in Replica : /\ Holds(s)' <=> Holds(s)
                           /\ Pausing(s) => Pausing(s)'
    BY <1>1, <2>1, <2>2, <2>3 DEF Holds, Pausing, Acting, TypeInv, TypeOK
  <2>5. OneTask'
    BY <1>1, <2>4 DEF CalmInv, OneTask, AwaitedAt
  <2>6. OneHolder'
    BY <1>1, <2>1, <2>3, <2>4 DEF CalmInv, OneHolder
  <2>7. AllAlive'
    BY <1>1, <2>1, <2>2 DEF CalmInv, AllAlive
  <2>8. PausedRun'
    BY <1>1, <2>1, <2>3 DEF CalmInv, PausedRun, PausesAt
  <2>9. WorkerAtNode'
    BY <1>1, <2>1, <2>3 DEF CalmInv, WorkerAtNode, PausesAt, Acting, PcValues, TypeInv, TypeOK
  <2>. QED
    BY <2>5, <2>6, <2>7, <2>8, <2>9 DEF CalmInv
<1>. QED
  BY <1>2, <1>3

\* Without faults these never happen.
LEMMA CalmNever ==
  ASSUME Calm, TypeInv, WorkerOwnsLease, CalmInv
  PROVE  /\ ~Expire
         /\ \A r \in Replica : ~(HeartbeatError(r) \/ ReadError(r) \/ Reclaim(r) \/ Crash(r) \/ Restart(r) \/ ResumeInFlight(r))
BY DEF Calm, TypeInv, TypeOK, WorkerOwnsLease, CalmInv, AllAlive, Expire, HeartbeatError, ReadError,
       Reclaim, Crash, Restart, ResumeInFlight

\* A decision that is not wasted is the paused node's, and starts the only resume.
LEMMA CalmDeliver ==
  ASSUME Calm, TypeInv, CalmInv, NEW r \in Replica, Deliver(r)
  PROVE  CalmInv'
<1>1. /\ UNCHANGED <<status, current, queue, pc, w, up, recover, lease, owner, fired>>
      /\ rpc[r] = "idle"
  BY DEF Deliver, ResumerOnly, rowVars, leaseVars, workVars, histVars
<1>2. PICK n \in Node :
        /\ Kind[n] = "human" /\ deliveries[n] < fired[n] + 0
        /\ deliveries' = [deliveries EXCEPT ![n] = @ + 1]
        /\ IF status = "WAITING_HUMAN"
           THEN /\ rpc' = [rpc EXCEPT ![r] = "hload"]
                /\ rw' = [rw EXCEPT ![r] = [RLocals0 EXCEPT !.node = n]]
           ELSE UNCHANGED waitVars
  BY DEF Deliver, Calm
<1>3. fired[n] = deliveries[n] + 1 /\ AwaitedAt(n)
  BY <1>2 DEF CalmInv, OneTask, TypeInv, TypeOK
<1>4. \A k \in Node : Kind[k] = "human" => deliveries'[k] = fired'[k]
  <2>1. ASSUME NEW k \in Node, Kind[k] = "human", k # n PROVE deliveries[k] = fired[k]
    BY <1>3, <2>1 DEF CalmInv, OneTask, AwaitedAt
  <2>2. deliveries'[n] = fired[n] /\ \A k \in Node \ {n} : deliveries'[k] = deliveries[k]
    BY <1>2, <1>3 DEF TypeInv, TypeOK
  <2>. QED
    BY <1>1, <2>1, <2>2
<1>5. OneTask'
  BY <1>4 DEF OneTask
<1>6. AllAlive'
  BY <1>1 DEF CalmInv, AllAlive
<1>7. WorkerAtNode'
  BY <1>1 DEF CalmInv, WorkerAtNode, PausesAt
<1>8. CASE status # "WAITING_HUMAN"
  <2>1. rpc' = rpc /\ rw' = rw
    BY <1>2, <1>8 DEF waitVars
  <2>2. OneHolder' /\ PausedRun'
    BY <1>1, <2>1 DEF CalmInv, OneHolder, Holds, PausedRun, PausesAt
  <2>. QED
    BY <1>5, <1>6, <1>7, <2>2 DEF CalmInv
<1>9. CASE status = "WAITING_HUMAN"
  <2>1. /\ rpc'[r] = "hload" /\ rw'[r].node = n
        /\ \A s \in Replica \ {r} : rpc'[s] = rpc[s] /\ rw'[s] = rw[s]
    BY <1>2, <1>9, RLocals0Types DEF TypeInv, TypeOK, RLocals
  <2>2. \A s \in Replica : queue[s] = 0 /\ pc[s] \notin Acting
    BY <1>9 DEF CalmInv, PausedRun, Waiting
  <2>3. \A s \in Replica : ~Holds(s)
    BY <1>3, <2>2 DEF AwaitedAt, Pausing, Acting, PcValues
  <2>4. OneHolder'
    BY <1>1, <2>1, <2>2, <2>3 DEF OneHolder, Holds
  <2>5. n = current
    BY <1>3 DEF AwaitedAt
  <2>6. PausedRun'
    BY <1>1, <1>9, <2>1, <2>2, <2>5 DEF CalmInv, PausedRun, PausesAt, ByHuman, ByTimer
  <2>. QED
    BY <1>5, <1>6, <1>7, <2>4, <2>6 DEF CalmInv
<1>. QED
  BY <1>8, <1>9

\* A due timer is found by one scan, while nobody holds the run.
LEMMA CalmScan ==
  ASSUME Calm, TypeInv, CalmInv, NEW r \in Replica, TimerScan(r)
  PROVE  CalmInv'
<1>1. /\ UNCHANGED <<status, current, queue, pc, w, up, recover, lease, owner, fired, deliveries>>
      /\ status = "WAITING_TIMER"
  BY DEF TimerScan, ResumerOnly, rowVars, leaseVars, workVars, histVars
<1>2. \A s \in Replica : rpc[s] \notin ByTimer
  BY DEF TimerScan, Calm, TypeInv, TypeOK, ByTimer
<1>3. \A s \in Replica : queue[s] = 0 /\ pc[s] \notin Acting /\ rpc[s] = "idle"
  BY <1>1, <1>2 DEF CalmInv, PausedRun, Waiting, ByHuman, ByTimer, TypeInv, TypeOK, RpcValues
<1>4. /\ rpc'[r] = "tmark" /\ rw'[r].node = current
      /\ \A s \in Replica \ {r} : rpc'[s] = "idle" /\ rw'[s] = rw[s]
  BY <1>3, RLocals0Types DEF TimerScan, TypeInv, TypeOK, RLocals
<1>5. OneHolder'
  BY <1>1, <1>3, <1>4 DEF OneHolder, Holds
<1>6. PausedRun'
  BY <1>1, <1>3, <1>4 DEF CalmInv, PausedRun, PausesAt, ByHuman, ByTimer
<1>7. Kind[current] = "timer"
  BY <1>1 DEF CalmInv, PausedRun, PausesAt, PauseStatus, Waiting
<1>8. OneTask'
  BY <1>1, <1>7 DEF CalmInv, OneTask, AwaitedAt
<1>9. AllAlive' /\ WorkerAtNode'
  BY <1>1 DEF CalmInv, AllAlive, WorkerAtNode, PausesAt
<1>. QED
  BY <1>5, <1>6, <1>8, <1>9 DEF CalmInv

\* The resume goes on alone, and ends in a queued start or in a failed run.
LEMMA CalmResumer ==
  ASSUME TypeInv, CalmInv, NEW r \in Replica, Resumer(r)
  PROVE  CalmInv'
<1>1. /\ rpc[r] # "idle" /\ UNCHANGED <<pc, w, up, recover, lease, owner, fired, deliveries>>
  BY DEF Resumer, HumanLoad, HumanRoute, HumanGo, TimerMark, TimerGo, ResumerOnly,
         leaseVars, workVars, histVars, envVars
<1>2. Holds(r) /\ queue[r] = 0 /\ pc[r] \notin Acting
  BY <1>1 DEF Holds, CalmInv, OneHolder
<1>3. \A s \in Replica : /\ s # r => ~Holds(s)
                         /\ queue[s] = 0 /\ pc[s] \notin Acting /\ (s # r => rpc[s] = "idle")
  BY <1>2 DEF CalmInv, OneHolder, Holds
<1>4. OneTask'
  BY <1>1, <1>2, HolderFindsNoTask, NoTaskStaysOpen DEF Pausing, Acting, PcValues
<1>5. AllAlive'
  BY <1>1 DEF CalmInv, AllAlive
<1>6. WorkerAtNode'
  BY <1>1, <1>3 DEF WorkerAtNode, Acting, PcValues
<1>7. ASSUME NEW p \in RpcValues \ {"idle"}, rpc' = [rpc EXCEPT ![r] = p],
             p \in ByHuman <=> rpc[r] \in ByHuman, rw'[r].node = rw[r].node,
             UNCHANGED <<status, current, queue>>
      PROVE  CalmInv'
  <2>1. rpc'[r] = p /\ \A s \in Replica \ {r} : rpc'[s] = "idle"
    BY <1>3, <1>7 DEF TypeInv, TypeOK
  <2>2. OneHolder'
    BY <1>1, <1>3, <1>7, <2>1 DEF OneHolder, Holds
  <2>3. p \in ByTimer <=> rpc[r] \in ByTimer
    BY <1>1, <1>7 DEF ByHuman, ByTimer, RpcValues, TypeInv, TypeOK
  <2>4. PausedRun'
    BY <1>1, <1>3, <1>7, <2>1, <2>3 DEF CalmInv, PausedRun, PausesAt, ByHuman, ByTimer
  <2>. QED
    BY <1>4, <1>5, <1>6, <2>2, <2>4 DEF CalmInv
<1>8. ASSUME rpc' = [rpc EXCEPT ![r] = "idle"], status' \notin Waiting,
             queue' = queue \/ queue' = [queue EXCEPT ![r] = @ + 1]
      PROVE  CalmInv'
  <2>1. \A s \in Replica : rpc'[s] = "idle"
    BY <1>3, <1>8 DEF TypeInv, TypeOK
  <2>2. /\ queue'[r] = 0 \/ queue'[r] = 1
        /\ \A s \in Replica \ {r} : queue'[s] = 0
    BY <1>3, <1>8 DEF TypeInv, TypeOK
  <2>3. OneHolder'
    BY <1>1, <1>3, <2>1, <2>2 DEF OneHolder, Holds
  <2>4. PausedRun'
    BY <1>8, <2>1 DEF PausedRun, PausesAt, ByHuman, ByTimer
  <2>. QED
    BY <1>4, <1>5, <1>6, <2>3, <2>4 DEF CalmInv
<1>9. CASE HumanLoad(r)
  <2>1. rw'[r].node = rw[r].node
    BY <1>9 DEF HumanLoad, TypeInv, TypeOK, RLocals
  <2>. QED
    BY <1>7, <1>9, <2>1 DEF HumanLoad, rowVars, ByHuman, RpcValues
<1>10. CASE HumanRoute(r)
  <2>1. CASE status' = "FAILED" /\ rpc' = [rpc EXCEPT ![r] = "idle"]
    BY <1>8, <1>10, <2>1 DEF HumanRoute, Waiting
  <2>2. CASE /\ rpc' = [rpc EXCEPT ![r] = "hgo"] /\ UNCHANGED status
             /\ \E m \in Routes[rw[r].node] : rw' = [rw EXCEPT ![r].to = m]
    <3>1. rw'[r].node = rw[r].node
      BY <2>2 DEF TypeInv, TypeOK, RLocals
    <3>. QED
      BY <1>7, <1>10, <2>2, <3>1 DEF HumanRoute, ByHuman, RpcValues
  <2>. QED
    BY <1>10, <2>1, <2>2 DEF HumanRoute
<1>11. CASE HumanGo(r)
  BY <1>8, <1>11 DEF HumanGo, Waiting
<1>12. CASE TimerMark(r)
  BY <1>7, <1>12 DEF TimerMark, ByHuman, RpcValues
<1>13. CASE TimerGo(r)
  BY <1>8, <1>13 DEF TimerGo, Waiting
<1>. QED
  BY <1>9, <1>10, <1>11, <1>12, <1>13 DEF Resumer

\* While nothing fails and nobody dies, a run is held by one replica at most: a start,
\* a pass or a resume; and every task but the one it waits for has been decided.
LEMMA StepCalm ==
  ASSUME Calm, TypeInv, WorkerOwnsLease, CalmInv, [Next]_vars
  PROVE  CalmInv'
<1>1. CASE Cancel
  <2>1. /\ UNCHANGED <<current, queue, pc, w, rpc, rw, up, recover, lease, owner, fired, deliveries>>
        /\ status' = "CANCELLED"
    BY <1>1 DEF Cancel, leaseVars, hostVars, workVars, waitVars, histVars
  <2>. QED
    BY <2>1 DEF CalmInv, OneHolder, Holds, AllAlive, PausedRun, PausesAt, WorkerAtNode, Waiting,
                OneTask, AwaitedAt, Pausing, ByHuman, ByTimer
<1>2. CASE UNCHANGED vars
  <2>1. UNCHANGED <<status, current, queue, pc, w, rpc, rw, up, recover, lease, owner, fired, deliveries>>
    BY <1>2 DEF vars, rowVars, leaseVars, hostVars, workVars, waitVars, histVars, envVars
  <2>. QED
    BY <2>1 DEF CalmInv, OneHolder, Holds, AllAlive, PausedRun, PausesAt, WorkerAtNode,
                OneTask, AwaitedAt, Pausing
<1>. QED
  BY <1>1, <1>2, CalmWorker, CalmHost, CalmNever, CalmDeliver, CalmScan, CalmResumer DEF Next

THEOREM CalmRuns ==
  ASSUME Calm
  PROVE  Spec => []CalmInv
<1>1. Spec => []WorkerOwnsLease
  BY WorkerOwnsLeaseInvariant DEF Calm
<1>2. TypeInv /\ WorkerOwnsLease /\ CalmInv /\ [Next]_vars => CalmInv'
  BY StepCalm
<1>. QED
  BY <1>1, <1>2, InitCalm, TypeInvariant, PTL DEF Spec
-----------------------------------------------------------------------------
(* Effects happen once per arrival, also around a cycle and through a pause. *)

\* A pass starts at a node that is owed and not checkpointed.
Clean == ckpt[StartNode] = Unset /\ Owed(StartNode)

Looping == {"top", "enter", "clear", "attempt", "call", "record"}

\* The worker is at a node that is owed until it has executed it. It meets the
\* checkpoint of an earlier lap only after an execution of its own, and clears it.
LapWorker(r) ==
  /\ pc[r] \in {"claimed", "begin"} => Clean /\ (pc[r] = "begin" => w[r].cur = StartNode)
  /\ pc[r] \in Looping => w[r].ckpt = ckpt
  /\ pc[r] \in Looping /\ (pc[r] = "record" => w[r].act = "ERROR") => Owed(w[r].cur)
  /\ pc[r] \in {"top", "enter"} => w[r].fresh \/ ckpt[w[r].cur] = Unset
  /\ pc[r] \in {"attempt", "call", "record"} => ckpt[w[r].cur] = Unset
  /\ pc[r] = "finish" /\ w[r].verdict = "WAITING_TIMER" => Clean

\* What a queued start and a resume lead to is clean.
LapWake(r) ==
  /\ queue[r] > 0 => Clean
  /\ rpc[r] = "hgo" => ckpt[rw[r].to] = Unset
  /\ rpc[r] \in ByTimer => rw[r].ckpt = ckpt /\ Clean

LapInv ==
  /\ FiredOncePerArrival
  /\ status = "WAITING_TIMER" => Clean
  /\ \A r \in Replica : LapWorker(r) /\ LapWake(r)

LEMMA LapRowKept ==
  ASSUME LapInv, UNCHANGED <<current, ckpt, fired, arrivals, orphaned>>
  PROVE  /\ FiredOncePerArrival' /\ StartNode' = StartNode /\ (Clean' <=> Clean)
         /\ \A n : Owed(n)' <=> Owed(n)
<1>1. StartNode' = StartNode
  BY DEF StartNode
<1>. QED
  BY <1>1 DEF LapInv, FiredOncePerArrival, Clean, Owed

\* The holder's worker moves: what is left to show.
LEMMA LapMoves ==
  ASSUME TypeInv, CalmInv, NEW r \in Replica, pc[r] \in Acting, WorkerOnly,
         NEW p \in PcValues \ {"idle"}, pc' = [pc EXCEPT ![r] = p],
         FiredOncePerArrival', status' = "WAITING_TIMER" => Clean', LapWorker(r)'
  PROVE  LapInv'
<1>1. queue' = queue /\ rpc' = rpc
  BY DEF WorkerOnly, hostVars, waitVars
<1>2. \A s \in Replica : rpc[s] = "idle" /\ queue[s] = 0 /\ (s # r => pc[s] \in {"idle", "release"})
  BY ActingAlone DEF Acting, TypeInv, TypeOK
<1>3. \A s \in Replica \ {r} : pc'[s] \in {"idle", "release"}
  BY <1>2 DEF TypeInv, TypeOK
<1>4. \A s \in Replica \ {r} : LapWorker(s)'
  BY <1>3 DEF LapWorker, Looping
<1>5. \A s \in Replica : LapWake(s)'
  BY <1>1, <1>2 DEF LapWake, ByTimer
<1>. QED
  BY <1>4, <1>5 DEF LapInv

\* A pass that ends without a pause owes nothing more.
LEMMA LapSettles ==
  ASSUME TypeInv, CalmInv, LapInv, NEW r \in Replica, pc[r] \in Acting, WorkerOnly,
         NEW v \in Status \ Waiting, ThenSettle(r, v), UNCHANGED status, FiredOncePerArrival'
  PROVE  LapInv'
<1>1. PICK l \in Locals : l.verdict = v /\ w' = [w EXCEPT ![r] = l] /\ pc' = [pc EXCEPT ![r] = "finish"]
  BY SettleMoves
<1>2. pc'[r] = "finish" /\ w'[r] = l
  BY <1>1 DEF TypeInv, TypeOK
<1>3. LapWorker(r)'
  BY <1>1, <1>2 DEF LapWorker, Looping, Waiting
<1>4. status' \notin Waiting
  BY ActingAlone
<1>. QED
  BY <1>1, <1>3, <1>4, LapMoves DEF PcValues, Waiting

\* The worker's steps up to the execution.
LEMMA LapEarly ==
  ASSUME TypeInv, CalmInv, LapInv, NEW r \in Replica, Load(r) \/ Begin(r) \/ LoopTop(r) \/ Attempt(r)
  PROVE  LapInv'
<1>1. pc[r] \in {"claimed", "begin", "top", "attempt"} /\ WorkerOnly
      /\ UNCHANGED <<current, ckpt, fired, arrivals, orphaned>>
  BY DEF Load, Begin, LoopTop, Attempt, rowVars, histVars
<1>2. pc[r] \in Acting /\ w[r] \in Locals /\ status \notin Waiting /\ LapWorker(r)
  BY <1>1, Here, ActingAlone DEF Acting, PcValues, LapInv
<1>3. /\ FiredOncePerArrival' /\ StartNode' = StartNode /\ (Clean' <=> Clean)
      /\ \A n : Owed(n)' <=> Owed(n)
  BY <1>1, LapRowKept
<1>4. ASSUME NEW p \in {"release"}, pc' = [pc EXCEPT ![r] = p], UNCHANGED status PROVE LapInv'
  <2>1. LapWorker(r)'
    BY <1>4 DEF LapWorker, Looping, TypeInv, TypeOK
  <2>. QED
    BY <1>1, <1>2, <1>3, <1>4, <2>1, LapMoves DEF PcValues, Waiting
<1>5. ASSUME NEW p \in {"begin", "top", "enter", "call", "record"}, NEW l,
             pc' = [pc EXCEPT ![r] = p], w' = [w EXCEPT ![r] = l], status' \notin Waiting,
             p = "begin" => Clean /\ l.cur = StartNode,
             p # "begin" => l.ckpt = ckpt /\ Owed(l.cur) /\ (l.fresh \/ ckpt[l.cur] = Unset),
             p \in {"call", "record"} => ckpt[l.cur] = Unset
      PROVE  LapInv'
  <2>1. pc'[r] = p /\ w'[r] = l
    BY <1>5 DEF TypeInv, TypeOK
  <2>2. Owed(w[r].cur)' <=> Owed(l.cur)
    BY <1>1, <2>1 DEF Owed
  <2>3. LapWorker(r)'
    BY <1>1, <1>3, <1>5, <2>1, <2>2 DEF LapWorker, Looping
  <2>. QED
    BY <1>1, <1>2, <1>3, <1>5, <2>3, LapMoves DEF PcValues, Waiting
<1>6. CASE Load(r)
  <2>1. CASE ThenSettle(r, "FAILED")
    BY <1>1, <1>2, <1>3, <1>6, <2>1, LapSettles DEF Load, rowVars, Status, Terminal, Waiting
  <2>2. CASE /\ pc' = [pc EXCEPT ![r] = "begin"]
             /\ w' = [w EXCEPT ![r].cur = StartNode, ![r].pending = (status = "PENDING")]
    <3>1. PICK l : l = [w[r] EXCEPT !.cur = StartNode, !.pending = (status = "PENDING")]
      OBVIOUS
    <3>2. w' = [w EXCEPT ![r] = l] /\ status' = status
      BY <1>6, <2>2, <3>1 DEF Load, rowVars, TypeInv, TypeOK
    <3>3. l.cur = StartNode /\ Clean
      BY <1>2, <1>6, <3>1 DEF Locals, Load, LapWorker
    <3>. QED
      BY <1>2, <1>5, <2>2, <3>2, <3>3
  <2>. QED
    BY <1>4, <1>6, <2>1, <2>2 DEF Load, rowVars
<1>7. CASE Begin(r)
  <2>1. PICK l : l = [w[r] EXCEPT !.ckpt = ckpt, !.mark = mark]
    OBVIOUS
  <2>2. w' = [w EXCEPT ![r] = l] /\ pc' = [pc EXCEPT ![r] = "top"] /\ status' \notin Waiting
    BY <1>2, <1>7, <2>1 DEF Begin, Waiting, TypeInv, TypeOK
  <2>3. l.ckpt = ckpt /\ Owed(l.cur) /\ ckpt[l.cur] = Unset
    BY <1>2, <1>7, <2>1 DEF Locals, Begin, LapWorker, Clean
  <2>. QED
    BY <1>5, <2>2, <2>3
<1>8. CASE LoopTop(r)
  <2>1. status' = status
    BY <1>8 DEF LoopTop, rowVars
  <2>2. CASE ThenSettle(r, "FAILED")
    BY <1>1, <1>2, <1>3, <2>1, <2>2, LapSettles DEF Status, Terminal, Waiting
  <2>3. CASE pc' = [pc EXCEPT ![r] = "enter"] /\ w' = [w EXCEPT ![r].steps = @ + 1]
    <3>1. PICK l : l = [w[r] EXCEPT !.steps = w[r].steps + 1]
      OBVIOUS
    <3>2. w' = [w EXCEPT ![r] = l]
      BY <2>3, <3>1 DEF TypeInv, TypeOK
    <3>3. l.ckpt = ckpt /\ Owed(l.cur) /\ (l.fresh \/ ckpt[l.cur] = Unset)
      BY <1>2, <1>8, <3>1 DEF Locals, LoopTop, LapWorker, Looping
    <3>. QED
      BY <1>2, <1>5, <2>1, <2>3, <3>2, <3>3
  <2>. QED
    BY <1>4, <1>8, <2>1, <2>2, <2>3 DEF LoopTop
<1>9. CASE Attempt(r)
  <2>1. status' = status /\ w[r].ckpt = ckpt /\ Owed(w[r].cur) /\ ckpt[w[r].cur] = Unset
    BY <1>2, <1>9 DEF Attempt, rowVars, LapWorker, Looping
  <2>2. CASE pc' = [pc EXCEPT ![r] = "call"] /\ UNCHANGED w
    <3>1. w' = [w EXCEPT ![r] = w[r]]
      BY <2>2 DEF TypeInv, TypeOK
    <3>. QED
      BY <1>2, <1>5, <2>1, <2>2, <3>1
  <2>3. CASE pc' = [pc EXCEPT ![r] = "record"] /\ w' = [w EXCEPT ![r].act = "ERROR", ![r].to = NoNode]
    <3>1. PICK l : l = [w[r] EXCEPT !.act = "ERROR", !.to = NoNode]
      OBVIOUS
    <3>2. w' = [w EXCEPT ![r] = l] /\ l.cur = w[r].cur /\ l.ckpt = w[r].ckpt
      BY <1>2, <2>3, <3>1 DEF TypeInv, TypeOK, Locals
    <3>. QED
      BY <1>2, <1>5, <2>1, <2>3, <3>2
  <2>. QED
    BY <1>9, <2>2, <2>3 DEF Attempt
<1>. QED
  BY <1>6, <1>7, <1>8, <1>9

\* Entering a node never skips it: an old checkpoint is cleared first.
LEMMA LapEnter ==
  ASSUME TypeInv, CalmInv, LapInv, NEW r \in Replica, Enter(r) \/ Clear(r)
  PROVE  LapInv'
<1>1. pc[r] \in {"enter", "clear"} /\ WorkerOnly /\ UNCHANGED <<status, fired, arrivals, orphaned>>
  BY DEF Enter, Clear, histVars
<1>2. pc[r] \in Acting /\ w[r] \in Locals /\ status \notin Waiting /\ LapWorker(r)
  BY <1>1, Here, ActingAlone DEF Acting, PcValues, LapInv
<1>3. PICK n \in Node : n = w[r].cur
  BY <1>1, Here DEF InLoop
<1>4. w[r].ckpt = ckpt /\ Owed(n) /\ ckpt \in Ckpt
  BY <1>1, <1>2, <1>3 DEF LapWorker, Looping, TypeInv, TypeOK
<1>5. FiredOncePerArrival' /\ Owed(n)'
  BY <1>1, <1>4 DEF LapInv, FiredOncePerArrival, Owed
<1>6. CASE Enter(r)
  <2>1. ckpt' = ckpt /\ (w[r].fresh \/ ckpt[n] = Unset)
    BY <1>2, <1>3, <1>6 DEF Enter, LapWorker
  <2>2. PICK p \in {"attempt", "clear"} : pc' = [pc EXCEPT ![r] = p] /\ w' = w /\ (p = "attempt" => ckpt[n] = Unset)
    BY <1>3, <1>4, <1>6, <2>1 DEF Enter, Checkpointed, Revisited
  <2>3. pc'[r] = p /\ w'[r].cur = n /\ w'[r].ckpt = ckpt
    BY <1>3, <1>4, <2>2 DEF TypeInv, TypeOK
  <2>4. Owed(w[r].cur)'
    BY <1>5, <2>3 DEF Owed
  <2>5. LapWorker(r)'
    BY <2>1, <2>2, <2>3, <2>4 DEF LapWorker
  <2>. QED
    BY <1>1, <1>2, <1>5, <2>2, <2>5, LapMoves DEF PcValues, Waiting
<1>7. CASE Clear(r)
  <2>1. PICK l : l = [w[r] EXCEPT !.ckpt = [w[r].ckpt EXCEPT ![w[r].cur] = Unset]]
    OBVIOUS
  <2>2. l.cur = n /\ l.ckpt = [ckpt EXCEPT ![n] = Unset]
    BY <1>2, <1>3, <1>4, <2>1 DEF Locals
  <2>3. w' = [w EXCEPT ![r] = l] /\ pc' = [pc EXCEPT ![r] = "attempt"]
    BY <1>7, <2>1 DEF Clear, TypeInv, TypeOK
  <2>4. pc'[r] = "attempt" /\ w'[r] = l
    BY <2>3 DEF TypeInv, TypeOK
  <2>5. ckpt' = l.ckpt /\ ckpt'[n] = Unset
    BY <1>4, <1>7, <2>2, <2>4 DEF Clear, Ckpt
  <2>6. Owed(w[r].cur)'
    BY <1>5, <2>2, <2>4 DEF Owed
  <2>7. LapWorker(r)'
    BY <2>2, <2>4, <2>5, <2>6 DEF LapWorker
  <2>. QED
    BY <1>1, <1>2, <1>5, <2>3, <2>7, LapMoves DEF PcValues, Waiting
<1>. QED
  BY <1>6, <1>7

\* The execution uses up what its node was owed.
LEMMA LapCall ==
  ASSUME TypeInv, CalmInv, LapInv, NEW r \in Replica, Call(r)
  PROVE  LapInv'
<1>1. pc[r] = "call" /\ WorkerOnly /\ UNCHANGED <<status, current, ckpt, arrivals, orphaned>>
      /\ pc' = [pc EXCEPT ![r] = "record"]
  BY DEF Call, rowVars
<1>2. pc[r] \in Acting /\ w[r] \in Locals /\ status \notin Waiting /\ LapWorker(r)
  BY <1>1, Here, ActingAlone DEF Acting, PcValues, LapInv
<1>3. PICK n \in Node : n = w[r].cur
  BY <1>1, Here DEF InLoop
<1>4. w[r].ckpt = ckpt /\ Owed(n) /\ ckpt[n] = Unset
  BY <1>1, <1>2, <1>3 DEF LapWorker, Looping
<1>5. PICK res \in Results(n, w[r].mark) :
        /\ w' = [w EXCEPT ![r].act = res[1], ![r].to = res[2]]
        /\ IF res[1] # "ERROR" /\ Effectful(n)
           THEN fired' = [fired EXCEPT ![n] = @ + 1] ELSE UNCHANGED fired
  BY <1>3 DEF Call
<1>6. PICK l : l = [w[r] EXCEPT !.act = res[1], !.to = res[2]]
  OBVIOUS
<1>7. l.cur = n /\ l.ckpt = ckpt /\ l.act = res[1]
  BY <1>2, <1>3, <1>4, <1>6 DEF Locals
<1>8. w' = [w EXCEPT ![r] = l]
  BY <1>5, <1>6 DEF TypeInv, TypeOK
<1>9. pc'[r] = "record" /\ w'[r] = l
  BY <1>1, <1>8 DEF TypeInv, TypeOK
<1>10. FiredOncePerArrival'
  <2>1. ASSUME NEW k \in Node, Effectful(k) PROVE fired'[k] <= arrivals[k] + orphaned[k]
    <3>1. PICK f \in Nat, a \in Nat, o \in Nat : f = fired[k] /\ a = arrivals[k] /\ o = orphaned[k] /\ f <= a + o
      BY <2>1 DEF LapInv, FiredOncePerArrival, TypeInv, TypeOK
    <3>2. CASE k = n
      <4>1. f + 1 <= a + o
        BY <1>4, <2>1, <3>1, <3>2 DEF Owed
      <4>2. fired'[k] = f \/ fired'[k] = f + 1
        BY <1>5, <3>1, <3>2 DEF TypeInv, TypeOK
      <4>. QED
        BY <3>1, <4>1, <4>2
    <3>3. CASE k # n
      BY <1>5, <3>1, <3>3 DEF TypeInv, TypeOK
    <3>. QED
      BY <3>2, <3>3
  <2>. QED
    BY <1>1, <2>1 DEF FiredOncePerArrival, Effectful
<1>11. l.act = "ERROR" => Owed(w[r].cur)'
  BY <1>1, <1>4, <1>5, <1>7, <1>9 DEF Owed
<1>12. LapWorker(r)'
  BY <1>1, <1>4, <1>7, <1>9, <1>11 DEF LapWorker
<1>. QED
  BY <1>1, <1>2, <1>10, <1>12, LapMoves DEF PcValues, Waiting

\* Going on to m: m is owed, and the pass has executed a node of its own.
LEMMA LapAdvance ==
  ASSUME TypeInv, CalmInv, LapInv, NEW r \in Replica, pc[r] = "record",
         NEW n, NEW m \in NextId, Advance(r, n, m), WorkerOnly,
         UNCHANGED <<status, current, fired, orphaned>>
  PROVE  LapInv'
<1>1. pc[r] \in Acting /\ w[r] \in Locals /\ status \notin Waiting
  BY Here, ActingAlone DEF Acting, PcValues
<1>2. CASE m = NoNode
  <2>1. PICK l : l = [w[r] EXCEPT !.ckpt = ckpt', !.fresh = TRUE, !.verdict = "COMPLETED"]
    OBVIOUS
  <2>2. l.verdict = "COMPLETED" /\ w' = [w EXCEPT ![r] = l] /\ UNCHANGED arrivals
        /\ pc' = [pc EXCEPT ![r] = "finish"]
    BY <1>1, <1>2, <2>1 DEF Advance, Locals, TypeInv, TypeOK
  <2>3. pc'[r] = "finish" /\ w'[r] = l
    BY <2>2 DEF TypeInv, TypeOK
  <2>4. LapWorker(r)' /\ FiredOncePerArrival'
    BY <2>2, <2>3 DEF LapWorker, Looping, LapInv, FiredOncePerArrival
  <2>. QED
    BY <1>1, <2>2, <2>4, LapMoves DEF PcValues, Waiting
<1>3. CASE m \in Node
  <2>1. PICK l : l = [w[r] EXCEPT !.ckpt = ckpt', !.fresh = TRUE, !.cur = m]
    OBVIOUS
  <2>2. l.cur = m /\ l.ckpt = ckpt' /\ l.fresh
    BY <1>1, <2>1 DEF Locals
  <2>3. /\ pc' = [pc EXCEPT ![r] = "top"] /\ w' = [w EXCEPT ![r] = l]
        /\ arrivals' = [arrivals EXCEPT ![m] = @ + 1]
    BY <1>3, <2>1, DefinitionAssumption DEF Advance, TypeInv, TypeOK
  <2>4. pc'[r] = "top" /\ w'[r] = l
    BY <2>3 DEF TypeInv, TypeOK
  <2>5. FiredOncePerArrival' /\ Owed(m)'
    BY <1>3, <2>3, ArrivalOwes DEF LapInv
  <2>6. Owed(w[r].cur)'
    BY <2>2, <2>4, <2>5 DEF Owed
  <2>7. LapWorker(r)'
    BY <2>2, <2>4, <2>6 DEF LapWorker
  <2>. QED
    BY <1>1, <2>3, <2>5, <2>7, LapMoves DEF PcValues, Waiting
<1>. QED
  BY <1>2, <1>3 DEF NextId

\* The results of a node, and the status write that ends the pass.
LEMMA LapRecord ==
  ASSUME Tolerant = {}, TypeInv, CalmInv, LapInv, NEW r \in Replica,
         \/ RecordNext(r) \/ RecordErrorRoute(r) \/ RecordTolerated(r) \/ RecordFailure(r)
         \/ RecordWait(r) \/ RecordEnd(r) \/ Finish(r)
  PROVE  LapInv'
<1>1. pc[r] \in {"record", "finish"} /\ WorkerOnly
  BY DEF RecordNext, RecordErrorRoute, RecordTolerated, RecordFailure, RecordWait, RecordEnd, Finish
<1>2. /\ pc[r] \in Acting /\ w[r] \in Locals /\ w[r].to \in NextId /\ status \notin Waiting
      /\ LapWorker(r)
  BY <1>1, Here, LocalFields, ActingAlone DEF Acting, PcValues, LapInv
<1>3. CASE RecordNext(r)
  BY <1>1, <1>2, <1>3, LapAdvance DEF RecordNext
<1>4. CASE RecordErrorRoute(r)
  <2>1. OnError[w[r].cur] \in NextId
    BY <1>4, Here, DefinitionAssumption DEF RecordErrorRoute, InLoop
  <2>. QED
    BY <1>4, <2>1, LapAdvance DEF RecordErrorRoute
<1>5. CASE RecordTolerated(r)
  BY <1>5 DEF RecordTolerated
<1>6. CASE RecordFailure(r) \/ RecordEnd(r)
  <2>1. \E v \in Status \ Waiting : ThenSettle(r, v)
    BY <1>6 DEF RecordFailure, RecordEnd, Status, Terminal, Waiting
  <2>2. status' = status /\ FiredOncePerArrival'
    BY <1>6 DEF RecordFailure, RecordEnd, rowVars, histVars, LapInv, FiredOncePerArrival
  <2>. QED
    BY <1>1, <1>2, <2>1, <2>2, LapSettles
<1>7. CASE RecordWait(r)
  <2>1. /\ w[r].cur = current /\ current \in Node /\ w[r].ckpt = ckpt /\ ckpt[current] = Unset
        /\ Kind[current] \in {"human", "timer"}
    BY <1>2, <1>7, Here DEF RecordWait, CalmInv, WorkerAtNode, InLoop, LapWorker, Looping
  <2>2. UNCHANGED <<status, current, ckpt, fired, arrivals, orphaned>>
    BY <1>7, <2>1 DEF RecordWait, histVars
  <2>3. PauseStatus(current) \in Status
    BY DEF PauseStatus, Status, Waiting
  <2>4. PICK l \in Locals : l.verdict = PauseStatus(current) /\ w' = [w EXCEPT ![r] = l] /\ pc' = [pc EXCEPT ![r] = "finish"]
    BY <1>7, <2>1, <2>3, SettleMoves DEF RecordWait
  <2>5. pc'[r] = "finish" /\ w'[r] = l
    BY <2>4 DEF TypeInv, TypeOK
  <2>6. l.verdict = "WAITING_TIMER" => Clean
    BY <2>1, <2>4, DefinitionAssumption DEF PauseStatus, Clean, StartNode, Owed, Effectful
  <2>7. LapWorker(r)' /\ FiredOncePerArrival'
    BY <2>2, <2>5, <2>6, LapRowKept DEF LapWorker, Looping
  <2>. QED
    BY <1>1, <1>2, <2>2, <2>4, <2>7, LapMoves DEF PcValues, Waiting
<1>8. CASE Finish(r)
  <2>1. /\ status' = w[r].verdict /\ pc[r] = "finish" /\ pc' = [pc EXCEPT ![r] = "release"]
        /\ UNCHANGED <<current, ckpt, fired, arrivals, orphaned>>
    BY <1>8 DEF Finish, histVars
  <2>2. pc'[r] = "release"
    BY <2>1 DEF TypeInv, TypeOK
  <2>3. LapWorker(r)'
    BY <2>2 DEF LapWorker, Looping
  <2>4. FiredOncePerArrival' /\ (status' = "WAITING_TIMER" => Clean')
    BY <1>2, <2>1, LapRowKept DEF LapWorker
  <2>. QED
    BY <1>1, <1>2, <2>1, <2>3, <2>4, LapMoves DEF PcValues
<1>. QED
  BY <1>3, <1>4, <1>5, <1>6, <1>7, <1>8

\* Starts, heartbeats, decisions and cancels leave the row's checkpoints alone.
LEMMA LapOthers ==
  ASSUME TypeInv, LapInv, NEW r \in Replica,
         \/ Claim(r) \/ Skip(r) \/ Heartbeat(r) \/ Release(r) \/ Deliver(r) \/ HumanLoad(r)
         \/ Cancel \/ UNCHANGED vars
  PROVE  LapInv'
<1>. USE DEF vars, rowVars, leaseVars, hostVars, workVars, waitVars, histVars, envVars
<1>1. /\ UNCHANGED <<current, ckpt, fired, arrivals, orphaned>>
      /\ status' = status \/ status' = "CANCELLED"
  BY DEF Claim, Skip, Heartbeat, Release, Deliver, HumanLoad, Cancel, ResumerOnly
<1>2. /\ FiredOncePerArrival' /\ StartNode' = StartNode /\ (Clean' <=> Clean)
      /\ \A n : Owed(n)' <=> Owed(n)
  BY <1>1, LapRowKept
<1>3. \A s \in Replica : LapWorker(s)'
  <2>1. ASSUME NEW s \in Replica, pc'[s] = pc[s], w'[s] = w[s] PROVE LapWorker(s)'
    <3>1. Owed(w[s].cur)' <=> Owed(w[s].cur)
      BY <1>1, <2>1 DEF Owed
    <3>. QED
      BY <1>1, <1>2, <2>1, <3>1 DEF LapInv, LapWorker
  <2>2. CASE Claim(r)
    <3>1. \A s \in Replica \ {r} : pc'[s] = pc[s] /\ w'[s] = w[s]
      BY <2>2 DEF Claim, TypeInv, TypeOK
    <3>2. pc'[r] = "claimed" /\ Clean'
      BY <1>2, <2>2 DEF Claim, LapInv, LapWake, TypeInv, TypeOK
    <3>3. LapWorker(r)'
      BY <3>2 DEF LapWorker, Looping
    <3>. QED
      BY <2>1, <3>1, <3>3
  <2>3. CASE Release(r)
    <3>1. \A s \in Replica \ {r} : pc'[s] = pc[s] /\ w'[s] = w[s]
      BY <2>3 DEF Release, TypeInv, TypeOK
    <3>2. pc'[r] = "idle"
      BY <2>3 DEF Release, TypeInv, TypeOK
    <3>3. LapWorker(r)'
      BY <3>2 DEF LapWorker, Looping
    <3>. QED
      BY <2>1, <3>1, <3>3
  <2>4. CASE ~(Claim(r) \/ Release(r))
    <3>1. pc' = pc /\ w' = w
      BY <2>4 DEF Skip, Heartbeat, Deliver, HumanLoad, Cancel, ResumerOnly
    <3>. QED
      BY <2>1, <3>1
  <2>. QED
    BY <2>2, <2>3, <2>4
<1>4. \A s \in Replica : LapWake(s)'
  <2>1. ASSUME NEW s \in Replica, queue'[s] > 0 => queue[s] > 0,
               rpc'[s] \in {"hload", "hroute"} \/ (rpc'[s] = rpc[s] /\ rw'[s] = rw[s])
        PROVE  LapWake(s)'
    BY <1>1, <1>2, <2>1 DEF LapInv, LapWake, ByTimer
  <2>2. CASE Claim(r) \/ Skip(r)
    <3>1. \A s \in Replica : queue'[s] > 0 => queue[s] > 0
      BY <2>2 DEF Claim, Skip, TypeInv, TypeOK
    <3>. QED
      BY <2>1, <2>2, <3>1 DEF Claim, Skip
  <2>3. CASE Deliver(r) \/ HumanLoad(r)
    <3>1. \A s \in Replica : rpc'[s] \in {"hload", "hroute"} \/ (rpc'[s] = rpc[s] /\ rw'[s] = rw[s])
      BY <2>3 DEF Deliver, HumanLoad, TypeInv, TypeOK
    <3>. QED
      BY <2>1, <2>3, <3>1 DEF Deliver, HumanLoad
  <2>4. CASE ~(Claim(r) \/ Skip(r) \/ Deliver(r) \/ HumanLoad(r))
    <3>1. queue' = queue /\ rpc' = rpc /\ rw' = rw
      BY <2>4 DEF Heartbeat, Release, Cancel
    <3>. QED
      BY <2>1, <3>1
  <2>. QED
    BY <2>2, <2>3, <2>4
<1>. QED
  BY <1>1, <1>2, <1>3, <1>4 DEF LapInv

\* What a resume leads to: the decision's edge, cleared, or the timer's own node.
LEMMA LapWakes ==
  ASSUME Calm, TypeInv, CalmInv, LapInv, NEW r \in Replica,
         HumanRoute(r) \/ HumanGo(r) \/ TimerScan(r) \/ TimerMark(r) \/ TimerGo(r)
  PROVE  LapInv'
<1>1. UNCHANGED <<pc, w, fired, orphaned>>
  BY DEF HumanRoute, HumanGo, TimerScan, TimerMark, TimerGo, ResumerOnly, workVars, histVars
<1>2. \A s \in Replica : pc[s] \notin Acting /\ queue[s] = 0 /\ (s # r => rpc[s] = "idle")
  <2>1. CASE TimerScan(r)
    BY <2>1 DEF TimerScan, Calm, CalmInv, PausedRun, Waiting, ByHuman, ByTimer,
                TypeInv, TypeOK, RpcValues
  <2>2. CASE ~TimerScan(r)
    <3>1. Holds(r) /\ rpc[r] # "idle"
      BY <2>2 DEF HumanRoute, HumanGo, TimerMark, TimerGo, Holds
    <3>2. \A s \in Replica \ {r} : ~Holds(s)
      BY <3>1 DEF CalmInv, OneHolder
    <3>. QED
      BY <3>1, <3>2 DEF CalmInv, OneHolder, Holds
  <2>. QED
    BY <2>1, <2>2
<1>3. \A s \in Replica : LapWorker(s)'
  BY <1>1, <1>2 DEF LapWorker, Looping, Acting, PcValues
<1>4. CASE HumanRoute(r)
  <2>1. status' # "WAITING_TIMER" /\ UNCHANGED <<queue, arrivals>>
    BY <1>4 DEF HumanRoute, ResumerOnly, histVars, CalmInv, PausedRun, ByHuman
  <2>2. CASE rpc' = [rpc EXCEPT ![r] = "idle"]
    <3>1. \A s \in Replica : rpc'[s] = "idle"
      BY <1>2, <2>2 DEF TypeInv, TypeOK
    <3>2. \A s \in Replica : LapWake(s)'
      BY <1>2, <2>1, <3>1 DEF LapWake, ByTimer
    <3>. QED
      BY <1>1, <1>3, <2>1, <3>2 DEF LapInv, FiredOncePerArrival
  <2>3. ASSUME NEW m \in Routes[rw[r].node] \ {NoNode}, rw' = [rw EXCEPT ![r].to = m],
               ckpt' = [rw[r].ckpt EXCEPT ![m] = Unset], rpc' = [rpc EXCEPT ![r] = "hgo"]
        PROVE  LapInv'
    <3>1. rw[r] \in RLocals /\ rw[r].ckpt \in Ckpt /\ m \in Node
      BY <1>4, ResumerHere, DefinitionAssumption DEF HumanRoute, NextId
    <3>2. rpc'[r] = "hgo" /\ rw'[r].to = m /\ ckpt'[m] = Unset
          /\ \A s \in Replica \ {r} : rpc'[s] = "idle"
      BY <1>2, <2>3, <3>1 DEF TypeInv, TypeOK, RLocals, Ckpt
    <3>3. \A s \in Replica : LapWake(s)'
      BY <1>2, <2>1, <3>2 DEF LapWake, ByTimer
    <3>. QED
      BY <1>1, <1>3, <2>1, <3>3 DEF LapInv, FiredOncePerArrival
  <2>. QED
    BY <1>4, <2>2, <2>3 DEF HumanRoute
<1>5. CASE HumanGo(r)
  <2>1. PICK m \in Node : m = rw[r].to
    BY <1>5, ResumerHere DEF HumanGo
  <2>2. /\ status' = "RUNNING" /\ current' = m /\ ckpt' = ckpt
        /\ arrivals' = [arrivals EXCEPT ![m] = @ + 1]
    BY <1>5, <2>1 DEF HumanGo, WakeNode
  <2>3. FiredOncePerArrival' /\ Owed(m)'
    BY <1>1, <2>1, <2>2, ArrivalOwes DEF LapInv
  <2>4. Clean'
    BY <1>5, <2>1, <2>2, <2>3, DefinitionAssumption DEF Clean, StartNode, Owed, LapInv, LapWake, HumanGo
  <2>5. \A s \in Replica : rpc'[s] = "idle"
    BY <1>2, <1>5 DEF HumanGo, TypeInv, TypeOK
  <2>6. \A s \in Replica : LapWake(s)'
    BY <2>4, <2>5 DEF LapWake, ByTimer
  <2>. QED
    BY <1>3, <2>2, <2>3, <2>6 DEF LapInv
<1>6. CASE TimerScan(r) \/ TimerMark(r) \/ TimerGo(r)
  <2>1. Clean /\ UNCHANGED <<current, arrivals>>
    BY <1>6 DEF TimerScan, TimerMark, TimerGo, ResumerOnly, rowVars, histVars, LapInv, LapWake, ByTimer
  <2>2. ckpt' = ckpt
    BY <1>6 DEF TimerScan, TimerMark, TimerGo, rowVars, LapInv, LapWake, ByTimer
  <2>3. Clean' /\ FiredOncePerArrival'
    BY <1>1, <2>1, <2>2, LapRowKept
  <2>4. \A s \in Replica \ {r} : rpc'[s] = "idle"
    BY <1>2, <1>6 DEF TimerScan, TimerMark, TimerGo, TypeInv, TypeOK
  <2>5. rpc'[r] \in {"idle", "tmark", "tgo"} /\ (rpc'[r] \in ByTimer => rw'[r].ckpt = ckpt)
    <3>1. CASE TimerScan(r)
      BY <3>1, RLocals0Types DEF TimerScan, TypeInv, TypeOK, RLocals
    <3>2. CASE TimerMark(r)
      BY <3>2 DEF TimerMark, LapInv, LapWake, ByTimer, TypeInv, TypeOK
    <3>3. CASE TimerGo(r)
      BY <3>3 DEF TimerGo, ByTimer, TypeInv, TypeOK
    <3>. QED
      BY <1>6, <3>1, <3>2, <3>3
  <2>6. \A s \in Replica : LapWake(s)'
    BY <2>2, <2>3, <2>4, <2>5 DEF LapWake, ByTimer
  <2>. QED
    BY <1>3, <2>3, <2>6 DEF LapInv
<1>. QED
  BY <1>4, <1>5, <1>6

\* While nothing fails and nobody dies, a node others see runs once per arrival at it
\* in every definition without tolerated failures: around cycles, through tasks and
\* timers, whatever users cancel (server.go:501-515, 1850-1852). With a crash, a
\* repeated decision or a tolerated failure it does not hold: the README's table.
THEOREM FiredOnceWithoutFaults ==
  ASSUME Calm, Tolerant = {}
  PROVE  Spec => []FiredOncePerArrival
<1>1. Init => LapInv
  <2>. SUFFICES ASSUME Init PROVE LapInv
    OBVIOUS
  <2>1. StartNode = Start /\ Start \in Node /\ ckpt[Start] = Unset
    BY DefinitionAssumption DEF Init, StartNode, NoCkpt
  <2>2. Owed(Start)
    BY <2>1 DEF Init, Owed
  <2>3. FiredOncePerArrival /\ Clean
    BY <2>1, <2>2 DEF Init, FiredOncePerArrival, Clean
  <2>4. \A r \in Replica : LapWorker(r) /\ LapWake(r)
    BY <2>3 DEF Init, LapWorker, LapWake, Looping, ByTimer
  <2>. QED
    BY <2>3, <2>4 DEF LapInv
<1>2. TypeInv /\ WorkerOwnsLease /\ CalmInv /\ LapInv /\ [Next]_vars => LapInv'
  <2>. SUFFICES ASSUME TypeInv, WorkerOwnsLease, CalmInv, LapInv, [Next]_vars PROVE LapInv'
    OBVIOUS
  <2>1. ASSUME NEW r \in Replica, Worker(r) PROVE LapInv'
    BY <2>1, LapEarly, LapEnter, LapCall, LapRecord DEF Worker
  <2>2. CASE Cancel \/ UNCHANGED vars
    BY <2>2, LapOthers, EnvironmentAssumption
  <2>. QED
    BY <2>1, <2>2, LapOthers, LapWakes, CalmNever DEF Next, Resumer
<1>3. LapInv => FiredOncePerArrival
  BY DEF LapInv
<1>4. (Spec => []WorkerOwnsLease) /\ (Spec => []CalmInv)
  BY WorkerOwnsLeaseInvariant, CalmRuns DEF Calm
<1>. QED
  BY <1>1, <1>2, <1>3, <1>4, TypeInvariant, PTL DEF Spec
-----------------------------------------------------------------------------
(* The cluster implements the sequential run. *)

Succ(n) == Sequential!Successors(n)

\* A pass and a resume never overlap, and a resume is of the node the run waits at.
Paced ==
  \A r \in Replica :
    /\ pc[r] \in Acting => status \notin Waiting /\ \A s \in Replica : rpc[s] = "idle"
    /\ rpc[r] \in ByHuman => status \in {"WAITING_HUMAN", "CANCELLED"}
    /\ rpc[r] \in ByTimer => status \in {"WAITING_TIMER", "CANCELLED"}
    /\ rpc[r] # "idle" => rw[r].node = current

LEMMA CalmIsPaced == CalmInv => Paced
<1>. SUFFICES ASSUME CalmInv PROVE Paced
  OBVIOUS
<1>1. \A r \in Replica : pc[r] \in Acting => status \notin Waiting /\ \A s \in Replica : rpc[s] = "idle"
  BY ActingAlone
<1>. QED
  BY <1>1 DEF Paced, CalmInv, PausedRun

\* A worker's step touches its own position and locals only.
LEMMA WorkerAlone ==
  ASSUME TypeInv, NEW r \in Replica, Worker(r)
  PROVE  \A s \in Replica \ {r} : pc'[s] = pc[s] /\ w'[s] = w[s]
<1>. USE DEF TypeInv, TypeOK
<1>1. CASE Load(r) \/ Begin(r) \/ LoopTop(r) \/ Attempt(r) \/ Call(r) \/ Finish(r)
  BY <1>1 DEF Load, Begin, LoopTop, Attempt, Call, Finish, ThenSettle
<1>2. CASE Enter(r) \/ Clear(r)
  BY <1>2 DEF Enter, Clear, ThenSettle
<1>3. CASE RecordNext(r) \/ RecordErrorRoute(r)
  BY <1>3 DEF RecordNext, RecordErrorRoute, Advance
<1>4. CASE RecordTolerated(r) \/ RecordFailure(r) \/ RecordWait(r) \/ RecordEnd(r)
  BY <1>4 DEF RecordTolerated, RecordFailure, RecordWait, RecordEnd, ThenSettle
<1>. QED
  BY <1>1, <1>2, <1>3, <1>4 DEF Worker

\* Where a pass that ends leaves its verdict.
LEMMA SettleHere ==
  ASSUME TypeInv, NEW r \in Replica, NEW v \in Status, ThenSettle(r, v)
  PROVE  pc'[r] = "finish" /\ w'[r].verdict = v
<1>1. PICK l \in Locals : l.verdict = v /\ w' = [w EXCEPT ![r] = l] /\ pc' = [pc EXCEPT ![r] = "finish"]
  BY SettleMoves
<1>. QED
  BY <1>1 DEF TypeInv, TypeOK

\* A run without tasks and timers never pauses, whatever else goes wrong.
NoPause == NeverWaits /\ \A r \in Replica : pc[r] = "record" => w[r].act # "WAIT"

LEMMA WorkerNoPause ==
  ASSUME OnlySteps, TypeInv, NoPause, NEW r \in Replica, Worker(r)
  PROVE  NoPause'
<1>1. status \notin Waiting /\ rpc' = rpc
  BY DEF NoPause, NeverWaits, Worker, Load, Begin, LoopTop, Enter, Clear, Attempt, Call,
         RecordNext, RecordErrorRoute, RecordTolerated, RecordFailure, RecordWait, RecordEnd,
         Finish, WorkerOnly, waitVars
<1>2. \A s \in Replica \ {r} : pc'[s] = pc[s] /\ w'[s] = w[s]
  BY WorkerAlone
<1>3. SUFFICES /\ status' \notin Waiting
               /\ pc'[r] = "finish" => w'[r].verdict \notin Waiting
               /\ pc'[r] = "record" => w'[r].act # "WAIT"
  BY <1>1, <1>2 DEF NoPause, NeverWaits
<1>4. "FAILED" \in Status \ Waiting /\ "COMPLETED" \in Status \ Waiting /\ "RUNNING" \notin Waiting
  BY DEF Status, Terminal, Waiting
<1>5. w[r] \in Locals
  BY Here
<1>6. CASE \E v \in Status \ Waiting : ThenSettle(r, v) /\ status' = status
  BY <1>1, <1>6, SettleHere
<1>7. CASE pc'[r] \notin {"finish", "record"} /\ status' \in {status, "RUNNING"}
  BY <1>1, <1>4, <1>7
<1>8. CASE Load(r) \/ Begin(r) \/ LoopTop(r) \/ Enter(r) \/ Clear(r)
  <2>1. status' \in {status, "RUNNING"} /\ (~Begin(r) => status' = status)
    BY <1>8 DEF Load, Begin, LoopTop, Enter, Clear, rowVars
  <2>2. \/ ~Begin(r) /\ (ThenSettle(r, "FAILED") \/ ThenSettle(r, "COMPLETED"))
        \/ \E p \in {"begin", "top", "enter", "clear", "attempt", "release"} : pc' = [pc EXCEPT ![r] = p]
    BY <1>8 DEF Load, Begin, LoopTop, Enter, Clear
  <2>3. ASSUME NEW p \in {"begin", "top", "enter", "clear", "attempt", "release"}, pc' = [pc EXCEPT ![r] = p]
        PROVE  pc'[r] = p
    BY <2>3 DEF TypeInv, TypeOK
  <2>. QED
    BY <1>4, <1>6, <1>7, <2>1, <2>2, <2>3
<1>9. CASE Attempt(r)
  <2>1. status' = status /\ pc'[r] # "finish" /\ (pc'[r] = "record" => w'[r].act = "ERROR")
    BY <1>5, <1>9 DEF Attempt, rowVars, TypeInv, TypeOK, Locals
  <2>. QED
    BY <1>1, <2>1
<1>10. CASE Call(r)
  <2>1. PICK res \in Results(w[r].cur, w[r].mark) : w' = [w EXCEPT ![r].act = res[1], ![r].to = res[2]]
    BY <1>10 DEF Call
  <2>2. res[1] # "WAIT"
    BY <1>10, <2>1, Here DEF Call, InLoop, OnlySteps, Results
  <2>3. w'[r].act = res[1] /\ pc'[r] = "record" /\ status' = status
    BY <1>5, <1>10, <2>1 DEF Call, rowVars, TypeInv, TypeOK, Locals
  <2>. QED
    BY <1>1, <2>2, <2>3
<1>11. CASE RecordNext(r) \/ RecordErrorRoute(r)
  <2>1. PICK n, m : Advance(r, n, m) /\ status' = status
    BY <1>11 DEF RecordNext, RecordErrorRoute
  <2>2. pc'[r] = "top" \/ (pc'[r] = "finish" /\ w'[r].verdict = "COMPLETED")
    BY <1>5, <2>1 DEF Advance, TypeInv, TypeOK, Locals
  <2>. QED
    BY <1>1, <1>4, <2>1, <2>2
<1>12. CASE RecordTolerated(r)
  <2>1. status' = status /\ (pc'[r] = "top" \/ ThenSettle(r, "COMPLETED"))
    BY <1>12 DEF RecordTolerated, TypeInv, TypeOK
  <2>. QED
    BY <1>1, <1>4, <1>6, <2>1
<1>13. CASE RecordFailure(r) \/ RecordEnd(r)
  <2>1. status' = status /\ (ThenSettle(r, "FAILED") \/ ThenSettle(r, "COMPLETED"))
    BY <1>13 DEF RecordFailure, RecordEnd, rowVars
  <2>. QED
    BY <1>4, <1>6, <2>1
<1>14. CASE RecordWait(r)
  BY <1>14 DEF RecordWait, NoPause
<1>15. CASE Finish(r)
  <2>1. status' = w[r].verdict /\ pc'[r] = "release" /\ pc[r] = "finish"
    BY <1>15 DEF Finish, TypeInv, TypeOK
  <2>. QED
    BY <2>1 DEF NoPause, NeverWaits
<1>. QED
  BY <1>8, <1>9, <1>10, <1>11, <1>12, <1>13, <1>14, <1>15 DEF Worker

THEOREM NeverPauses ==
  ASSUME OnlySteps
  PROVE  Spec => []NoPause
<1>1. Init => NoPause
  BY DEF Init, NoPause, NeverWaits, Waiting
<1>2. TypeInv /\ NoPause /\ [Next]_vars => NoPause'
  <2>. SUFFICES ASSUME TypeInv, NoPause, [Next]_vars PROVE NoPause'
    OBVIOUS
  <2>. USE DEF rowVars, workVars, waitVars
  <2>1. status \notin Waiting /\ \A r \in Replica : rpc[r] = "idle"
    BY DEF NoPause, NeverWaits
  <2>2. ASSUME NEW r \in Replica PROVE ~(Deliver(r) \/ TimerScan(r) \/ Resumer(r))
    BY <2>1 DEF OnlySteps, Waiting, Deliver, TimerScan, Resumer, HumanLoad, HumanRoute, HumanGo,
                TimerMark, TimerGo
  <2>3. CASE Cancel
    BY <2>3 DEF Cancel, NoPause, NeverWaits, Waiting
  <2>4. ASSUME NEW r \in Replica, Claim(r) \/ Release(r) \/ Crash(r) PROVE NoPause'
    <3>1. /\ status' = status /\ (rpc' = rpc \/ rpc' = [rpc EXCEPT ![r] = "idle"])
          /\ pc'[r] \in {"claimed", "idle"}
          /\ \A s \in Replica \ {r} : pc'[s] = pc[s] /\ w'[s] = w[s]
      BY <2>4 DEF Claim, Release, Crash, TypeInv, TypeOK
    <3>2. \A s \in Replica : rpc'[s] = "idle"
      BY <2>1, <3>1 DEF TypeInv, TypeOK
    <3>. QED
      BY <3>1, <3>2 DEF NoPause, NeverWaits
  <2>5. CASE UNCHANGED <<status, pc, w, rpc>>
    BY <2>5 DEF NoPause, NeverWaits
  <2>6. ASSUME NEW r \in Replica, Skip(r) \/ Heartbeat(r) \/ HeartbeatError(r) \/ Reclaim(r)
                 \/ Restart(r) \/ ResumeInFlight(r)
        PROVE  UNCHANGED <<status, pc, w, rpc>>
    BY <2>6 DEF Skip, Heartbeat, HeartbeatError, Reclaim, Restart, ResumeInFlight
  <2>8. ASSUME NEW r \in Replica, ReadError(r) PROVE NoPause'
    <3>1. /\ UNCHANGED <<status, rpc>> /\ pc'[r] \in {"release", "enter", "call"}
          /\ \A s \in Replica \ {r} : pc'[s] = pc[s] /\ w'[s] = w[s]
      BY <2>8 DEF ReadError, TypeInv, TypeOK
    <3>. QED
      BY <2>1, <3>1 DEF NoPause, NeverWaits
  <2>7. Expire \/ UNCHANGED vars => UNCHANGED <<status, pc, w, rpc>>
    BY DEF Expire, vars
  <2>. QED
    BY <2>2, <2>3, <2>4, <2>5, <2>6, <2>7, <2>8, WorkerNoPause DEF Next
<1>. QED
  BY <1>1, <1>2, TypeInvariant, PTL DEF Spec

\* Checkpoints name nodes their node leads to.
OnEdges(cp) == \A n \in Node : cp[n] \in Succ(n) \cup {Unset}

\* The node that a pass enters next; the verdicts that may end it now.
Reaches(n) == n = current \/ n \in IF current = NoNode THEN {Start} ELSE Succ(current)
EndsAs(v) ==
  \/ v = "FAILED" /\ status \notin Terminal
  \/ /\ status = "RUNNING" /\ current \in Node
     /\ \/ v = "COMPLETED" /\ (Kind[current] = "end" \/ NoNode \in Succ(current))
        \/ v = PauseStatus(current) /\ Kind[current] \in {"human", "timer"}

\* A worker in the loop has the run at its node, or on an edge to it.
WalkWorker(r) ==
  /\ pc[r] = "begin" => /\ w[r].cur = StartNode
                        /\ status = IF w[r].pending THEN "PENDING" ELSE "RUNNING"
  /\ pc[r] \in Looping => status = "RUNNING"
  /\ pc[r] \in {"top", "enter"} => Reaches(w[r].cur)
  /\ pc[r] \in {"clear", "attempt", "call", "record"} => w[r].cur = current
  /\ pc[r] = "record" => /\ w[r].act = "NEXT" => w[r].to \in Succ(current)
                         /\ w[r].act = "END" => Kind[current] = "end"
                         /\ w[r].act = "WAIT" => Kind[current] \in {"human", "timer"}
  /\ pc[r] = "finish" => EndsAs(w[r].verdict)

WalkInv ==
  /\ status # "CANCELLED" /\ OnEdges(ckpt)
  /\ \A r \in Replica :
       /\ OnEdges(w[r].ckpt) /\ OnEdges(rw[r].ckpt) /\ WalkWorker(r)
       /\ rpc[r] = "hgo" => rw[r].to \in Routes[current] \ {NoNode}

\* What the run's author sees of a step.
Sees == [Sequential!Next]_<<status, current>>

\* The only worker moves: what is left to show.
LEMMA WalkMoves ==
  ASSUME TypeInv, WorkerOwnsLease, Paced, WalkInv, NEW r \in Replica, Worker(r),
         status' # "CANCELLED", OnEdges(ckpt)', OnEdges(w[r].ckpt)', WalkWorker(r)'
  PROVE  WalkInv'
<1>1. \A s \in Replica \ {r} : pc'[s] = "idle" /\ w'[s] = w[s]
  BY WorkerAlone, WorkerKeepsLease, OnlyWorker
<1>2. pc[r] \in Acting /\ rpc' = rpc /\ rw' = rw
  BY DEF Worker, Load, Begin, LoopTop, Enter, Clear, Attempt, Call,
         RecordNext, RecordErrorRoute, RecordTolerated, RecordFailure, RecordWait, RecordEnd,
         Finish, WorkerOnly, waitVars, Acting, PcValues
<1>3. \A s \in Replica : rpc[s] = "idle"
  BY <1>2 DEF Paced
<1>4. ASSUME NEW s \in Replica
      PROVE  /\ OnEdges(w[s].ckpt)' /\ OnEdges(rw[s].ckpt)' /\ WalkWorker(s)'
             /\ rpc'[s] # "hgo"
  <2>1. OnEdges(rw[s].ckpt)' /\ rpc'[s] # "hgo"
    BY <1>2, <1>3 DEF WalkInv, OnEdges
  <2>2. CASE s # r
    <3>1. OnEdges(w[s].ckpt)'
      BY <1>1, <2>2 DEF WalkInv, OnEdges
    <3>2. WalkWorker(s)'
      BY <1>1, <2>2 DEF WalkWorker, Looping
    <3>. QED
      BY <2>1, <3>1, <3>2
  <2>. QED
    BY <2>1, <2>2
<1>. QED
  BY <1>4 DEF WalkInv

\* A pass that ends with verdict v.
LEMMA WalkSettles ==
  ASSUME TypeInv, WorkerOwnsLease, Paced, WalkInv, NEW r \in Replica, Worker(r),
         NEW v \in Status, ThenSettle(r, v), status' = status, OnEdges(ckpt)', EndsAs(v)'
  PROVE  WalkInv'
<1>1. PICK l \in Locals : /\ l = [w[r] EXCEPT !.verdict = v] /\ l.verdict = v
                          /\ w' = [w EXCEPT ![r] = l] /\ pc' = [pc EXCEPT ![r] = "finish"]
  BY SettleMoves
<1>2. pc'[r] = "finish" /\ w'[r] = l /\ w[r] \in Locals
  BY <1>1 DEF TypeInv, TypeOK
<1>3. l.ckpt = w[r].ckpt
  BY <1>1, <1>2 DEF Locals
<1>4. WalkWorker(r)'
  BY <1>1, <1>2 DEF WalkWorker, Looping
<1>5. OnEdges(w[r].ckpt)'
  BY <1>2, <1>3 DEF WalkInv, OnEdges
<1>6. status' # "CANCELLED"
  BY DEF WalkInv
<1>. QED
  BY <1>4, <1>5, <1>6, WalkMoves

\* The position at which a pass starts, and where an edge leads.
LEMMA StartReached == Reaches(StartNode)
BY DEF Reaches, StartNode

LEMMA WalkPrologue ==
  ASSUME TypeInv, WorkerOwnsLease, Paced, WalkInv, NEW r \in Replica, Load(r) \/ Begin(r)
  PROVE  WalkInv' /\ Sees
<1>. USE DEF rowVars
<1>1. Worker(r) /\ pc[r] \in Acting /\ w[r] \in Locals /\ UNCHANGED <<current, ckpt>>
  BY Here DEF Load, Begin, Worker, Acting, PcValues
<1>2. status \notin Waiting /\ OnEdges(ckpt)' /\ OnEdges(w[r].ckpt) /\ StartNode' = StartNode
  BY <1>1 DEF Paced, WalkInv, OnEdges, StartNode
<1>3. CASE Load(r)
  <2>1. status' = status /\ status' # "CANCELLED"
    BY <1>3 DEF Load, WalkInv
  <2>2. CASE pc' = [pc EXCEPT ![r] = "release"] /\ UNCHANGED w
    <3>1. pc'[r] = "release" /\ w'[r] = w[r]
      BY <2>2 DEF TypeInv, TypeOK
    <3>2. WalkWorker(r)' /\ OnEdges(w[r].ckpt)'
      BY <1>2, <3>1 DEF WalkWorker, Looping, OnEdges
    <3>. QED
      BY <1>1, <1>2, <2>1, <3>2, WalkMoves DEF Sees
  <2>3. CASE status \notin Terminal /\ ThenSettle(r, "FAILED")
    BY <1>1, <1>2, <2>1, <2>3, WalkSettles DEF Sees, EndsAs, Status, Terminal
  <2>4. CASE /\ status \notin Terminal
             /\ pc' = [pc EXCEPT ![r] = "begin"]
             /\ w' = [w EXCEPT ![r].cur = StartNode, ![r].pending = (status = "PENDING")]
    <3>1. /\ pc'[r] = "begin" /\ w'[r].cur = StartNode /\ w'[r].ckpt = w[r].ckpt
          /\ w'[r].pending <=> status = "PENDING"
      BY <1>1, <2>4 DEF TypeInv, TypeOK, Locals
    <3>2. status \in {"PENDING", "RUNNING"}
      BY <1>2, <2>4 DEF TypeInv, TypeOK, Status
    <3>3. WalkWorker(r)' /\ OnEdges(w[r].ckpt)'
      BY <1>2, <2>1, <3>1, <3>2 DEF WalkWorker, Looping, OnEdges
    <3>. QED
      BY <1>1, <1>2, <2>1, <3>3, WalkMoves DEF Sees
  <2>. QED
    BY <1>3, <2>2, <2>3, <2>4 DEF Load
<1>4. CASE Begin(r)
  <2>1. /\ pc'[r] = "top" /\ w'[r].cur = w[r].cur /\ w'[r].ckpt = ckpt
    BY <1>1, <1>4 DEF Begin, TypeInv, TypeOK, Locals
  <2>2. /\ w[r].cur = StartNode /\ status' = "RUNNING"
        /\ status = IF w[r].pending THEN "PENDING" ELSE "RUNNING"
    BY <1>4 DEF Begin, WalkInv, WalkWorker
  <2>3. Reaches(w[r].cur)'
    BY <1>1, <2>1, <2>2, StartReached DEF Reaches
  <2>4. WalkWorker(r)'
    BY <2>1, <2>2, <2>3 DEF WalkWorker, Looping
  <2>5. OnEdges(w[r].ckpt)'
    BY <1>2, <1>1, <2>1 DEF OnEdges
  <2>6. Sees
    BY <1>1, <2>2 DEF Sees, Sequential!Next, Sequential!Begin
  <2>. QED
    BY <1>1, <1>2, <2>2, <2>4, <2>5, <2>6, WalkMoves
<1>. QED
  BY <1>3, <1>4

LEMMA WalkLoopTop ==
  ASSUME TypeInv, WorkerOwnsLease, Paced, WalkInv, NEW r \in Replica, LoopTop(r)
  PROVE  WalkInv' /\ Sees
<1>1. /\ Worker(r) /\ w[r] \in Locals /\ UNCHANGED <<status, current, ckpt>>
      /\ status = "RUNNING" /\ Reaches(w[r].cur) /\ OnEdges(w[r].ckpt) /\ OnEdges(ckpt)'
  BY Here DEF LoopTop, Worker, rowVars, WalkInv, WalkWorker, Looping, OnEdges
<1>2. Sees
  BY <1>1 DEF Sees
<1>3. CASE ThenSettle(r, "FAILED")
  BY <1>1, <1>2, <1>3, WalkSettles DEF EndsAs, Status, Terminal
<1>4. CASE pc'[r] \in {"release", "enter"} /\ w'[r].cur = w[r].cur /\ w'[r].ckpt = w[r].ckpt
  <2>1. WalkWorker(r)' /\ OnEdges(w[r].ckpt)'
    BY <1>1, <1>4 DEF WalkWorker, Looping, Reaches, OnEdges
  <2>. QED
    BY <1>1, <1>2, <2>1, WalkMoves
<1>5. \/ ThenSettle(r, "FAILED")
      \/ pc'[r] \in {"release", "enter"} /\ w'[r].cur = w[r].cur /\ w'[r].ckpt = w[r].ckpt
  BY <1>1 DEF LoopTop, TypeInv, TypeOK, Locals
<1>. QED
  BY <1>3, <1>4, <1>5

\* A node entered is the position, or one edge further.
LEMMA SeesEnter ==
  ASSUME NEW n \in Node, status = "RUNNING", status' = status, Reaches(n), current' = n
  PROVE  Sees
BY DEF Sees, Reaches, Succ, Sequential!Next, Sequential!Enter

LEMMA WalkEnter ==
  ASSUME TypeInv, WorkerOwnsLease, Paced, WalkInv, NEW r \in Replica, Enter(r)
  PROVE  WalkInv' /\ Sees
<1>1. PICK n \in Node : n = w[r].cur
  BY Here DEF Enter, InLoop
<1>2. /\ Worker(r) /\ w[r] \in Locals /\ UNCHANGED <<status, ckpt>> /\ current' = n
      /\ status = "RUNNING" /\ Reaches(n) /\ OnEdges(w[r].ckpt) /\ OnEdges(ckpt)'
  BY <1>1, Here DEF Enter, Worker, WalkInv, WalkWorker, Looping, OnEdges
<1>3. Sees
  BY <1>2, SeesEnter
<1>4. n # NoNode
  BY DefinitionAssumption
<1>5. CASE UNCHANGED w /\ \E p \in {"attempt", "clear"} : pc' = [pc EXCEPT ![r] = p]
  <2>1. pc'[r] \in {"attempt", "clear"} /\ w'[r] = w[r]
    BY <1>5 DEF TypeInv, TypeOK
  <2>2. WalkWorker(r)' /\ OnEdges(w[r].ckpt)'
    BY <1>1, <1>2, <2>1 DEF WalkWorker, Looping, OnEdges
  <2>. QED
    BY <1>2, <1>3, <2>2, WalkMoves
<1>6. CASE Checkpointed(r, n) /\ w[r].ckpt[n] = NoNode /\ ThenSettle(r, "COMPLETED")
  <2>1. NoNode \in Succ(n)
    BY <1>2, <1>6 DEF Checkpointed, OnEdges
  <2>2. EndsAs("COMPLETED")'
    BY <1>2, <2>1 DEF EndsAs, Succ
  <2>. QED
    BY <1>2, <1>3, <1>6, <2>2, WalkSettles DEF Status, Terminal
<1>7. CASE /\ Checkpointed(r, n) /\ pc' = [pc EXCEPT ![r] = "top"]
           /\ w' = [w EXCEPT ![r].cur = w[r].ckpt[n], ![r].skipped = @ \cup {n}]
  <2>1. pc'[r] = "top" /\ w'[r].cur = w[r].ckpt[n] /\ w'[r].ckpt = w[r].ckpt
    BY <1>2, <1>7 DEF TypeInv, TypeOK, Locals
  <2>2. w[r].ckpt[n] \in Succ(n)
    BY <1>2, <1>7 DEF Checkpointed, OnEdges
  <2>3. Reaches(w[r].cur)'
    BY <1>2, <1>4, <2>1, <2>2 DEF Reaches, Succ
  <2>4. WalkWorker(r)' /\ OnEdges(w[r].ckpt)'
    BY <1>2, <2>1, <2>3 DEF WalkWorker, Looping, OnEdges
  <2>. QED
    BY <1>2, <1>3, <2>4, WalkMoves
<1>. QED
  BY <1>1, <1>5, <1>6, <1>7 DEF Enter

\* At its node, the worker clears, looks for a cancel, and executes.
LEMMA WalkAtNode ==
  ASSUME TypeInv, WorkerOwnsLease, Paced, WalkInv, NEW r \in Replica,
         Clear(r) \/ Attempt(r) \/ Call(r)
  PROVE  WalkInv' /\ Sees
<1>1. /\ Worker(r) /\ w[r] \in Locals /\ w[r].ckpt \in Ckpt /\ UNCHANGED <<status, current>>
      /\ status = "RUNNING" /\ w[r].cur = current /\ current \in Node
      /\ OnEdges(w[r].ckpt) /\ OnEdges(ckpt)
  BY Here, LocalFields DEF Clear, Attempt, Call, Worker, rowVars, WalkInv, WalkWorker, Looping, InLoop
<1>2. Sees
  BY <1>1 DEF Sees
<1>3. ASSUME pc'[r] \in {"attempt", "call"}, w'[r].cur = current, OnEdges(ckpt)', OnEdges(w[r].ckpt)'
      PROVE  WalkInv'
  <2>1. WalkWorker(r)'
    BY <1>1, <1>3 DEF WalkWorker, Looping
  <2>. QED
    BY <1>1, <1>3, <2>1, WalkMoves
<1>4. CASE Clear(r)
  <2>1. /\ pc'[r] = "attempt" /\ w'[r].cur = current /\ ckpt' = w'[r].ckpt
        /\ w'[r].ckpt = [w[r].ckpt EXCEPT ![current] = Unset]
    BY <1>1, <1>4 DEF Clear, TypeInv, TypeOK, Locals
  <2>2. OnEdges(w'[r].ckpt)
    BY <1>1, <2>1 DEF OnEdges, Ckpt
  <2>3. OnEdges(ckpt)' /\ OnEdges(w[r].ckpt)'
    BY <2>1, <2>2 DEF OnEdges
  <2>. QED
    BY <1>2, <1>3, <2>1, <2>3
<1>5. CASE Attempt(r)
  <2>1. pc'[r] = "call" /\ w'[r] = w[r] /\ ckpt' = ckpt
    BY <1>1, <1>5 DEF Attempt, rowVars, TypeInv, TypeOK
  <2>2. OnEdges(ckpt)' /\ OnEdges(w[r].ckpt)'
    BY <1>1, <2>1 DEF OnEdges
  <2>. QED
    BY <1>1, <1>2, <1>3, <2>1, <2>2
<1>6. CASE Call(r)
  <2>1. PICK res \in Results(current, w[r].mark) : w' = [w EXCEPT ![r].act = res[1], ![r].to = res[2]]
    BY <1>1, <1>6 DEF Call
  <2>2. /\ pc'[r] = "record" /\ w'[r].cur = current /\ w'[r].ckpt = w[r].ckpt /\ ckpt' = ckpt
        /\ w'[r].act = res[1] /\ w'[r].to = res[2]
    BY <1>1, <1>6, <2>1 DEF Call, rowVars, TypeInv, TypeOK, Locals
  <2>3. /\ res[1] = "NEXT" => res[2] \in Succ(current)
        /\ res[1] = "END" => Kind[current] = "end"
        /\ res[1] = "WAIT" => Kind[current] \in {"human", "timer"}
    BY <1>1, DefinitionAssumption DEF Results, Succ, Sequential!Successors, Kinds
  <2>4. WalkWorker(r)'
    BY <1>1, <2>2, <2>3 DEF WalkWorker, Looping, Succ
  <2>5. OnEdges(ckpt)' /\ OnEdges(w[r].ckpt)'
    BY <1>1, <2>2 DEF OnEdges
  <2>. QED
    BY <1>1, <1>2, <2>4, <2>5, WalkMoves
<1>. QED
  BY <1>4, <1>5, <1>6

\* Where a stored result leads.
LEMMA AdvanceHere ==
  ASSUME TypeInv, NEW r \in Replica, NEW n, NEW m, Advance(r, n, m)
  PROVE  /\ ckpt' = [w[r].ckpt EXCEPT ![n] = m] /\ w'[r].ckpt = ckpt'
         /\ m = NoNode => pc'[r] = "finish" /\ w'[r].verdict = "COMPLETED"
         /\ m # NoNode => pc'[r] = "top" /\ w'[r].cur = m
<1>1. w[r] \in Locals
  BY Here
<1>2. ckpt' = [w[r].ckpt EXCEPT ![n] = m]
  BY DEF Advance
<1>3. CASE m = NoNode
  <2>1. PICK l : l = [w[r] EXCEPT !.ckpt = ckpt', !.fresh = TRUE, !.verdict = "COMPLETED"]
    OBVIOUS
  <2>2. w' = [w EXCEPT ![r] = l] /\ pc' = [pc EXCEPT ![r] = "finish"]
    BY <1>3, <2>1 DEF Advance, TypeInv, TypeOK
  <2>3. l.ckpt = ckpt' /\ l.verdict = "COMPLETED"
    BY <1>1, <2>1 DEF Locals
  <2>. QED
    BY <1>2, <1>3, <2>2, <2>3 DEF TypeInv, TypeOK
<1>4. CASE m # NoNode
  <2>1. PICK l : l = [w[r] EXCEPT !.ckpt = ckpt', !.fresh = TRUE, !.cur = m]
    OBVIOUS
  <2>2. w' = [w EXCEPT ![r] = l] /\ pc' = [pc EXCEPT ![r] = "top"]
    BY <1>4, <2>1 DEF Advance, TypeInv, TypeOK
  <2>3. l.ckpt = ckpt' /\ l.cur = m
    BY <1>1, <2>1 DEF Locals
  <2>. QED
    BY <1>2, <1>4, <2>2, <2>3 DEF TypeInv, TypeOK
<1>. QED
  BY <1>3, <1>4

\* A result that leads along an edge, stored or not.
LEMMA WalkRecord ==
  ASSUME TypeInv, WorkerOwnsLease, Paced, WalkInv, NEW r \in Replica,
         \/ RecordNext(r) \/ RecordErrorRoute(r) \/ RecordTolerated(r)
         \/ RecordFailure(r) \/ RecordWait(r) \/ RecordEnd(r)
  PROVE  WalkInv' /\ Sees
<1>1. PICK n \in Node : n = w[r].cur
  BY Here DEF RecordNext, RecordErrorRoute, RecordTolerated, RecordFailure, RecordWait, RecordEnd, InLoop
<1>2. /\ Worker(r) /\ pc[r] = "record" /\ w[r] \in Locals /\ w[r].ckpt \in Ckpt
      /\ UNCHANGED <<status, current>>
  BY Here, LocalFields DEF RecordNext, RecordErrorRoute, RecordTolerated, RecordFailure, RecordWait, RecordEnd,
                           Worker, rowVars
<1>3. /\ status = "RUNNING" /\ n = current /\ n # NoNode
      /\ OnEdges(w[r].ckpt) /\ OnEdges(ckpt)
      /\ w[r].act = "NEXT" => w[r].to \in Succ(n)
      /\ w[r].act = "END" => Kind[n] = "end"
      /\ w[r].act = "WAIT" => Kind[n] \in {"human", "timer"}
  BY <1>1, <1>2, DefinitionAssumption DEF WalkInv, WalkWorker, Looping
<1>4. Sees
  BY <1>2 DEF Sees
<1>5. ASSUME NEW m \in Succ(n), m # NoNode, pc'[r] = "top", w'[r].cur = m,
             OnEdges(ckpt)', OnEdges(w[r].ckpt)'
      PROVE  WalkInv'
  <2>1. Reaches(m)'
    BY <1>2, <1>3, <1>5 DEF Reaches, Succ
  <2>2. WalkWorker(r)' /\ status' # "CANCELLED"
    BY <1>2, <1>3, <1>5, <2>1 DEF WalkWorker, Looping, Reaches
  <2>. QED
    BY <1>2, <1>5, <2>2, WalkMoves
<1>6. ASSUME NEW m \in Succ(n), Advance(r, n, m) PROVE WalkInv'
  <2>1. ckpt' = [w[r].ckpt EXCEPT ![n] = m] /\ w'[r].ckpt = ckpt'
    BY <1>6, AdvanceHere
  <2>2. OnEdges(ckpt')
    BY <1>2, <1>3, <2>1 DEF OnEdges, Ckpt
  <2>3. OnEdges(ckpt)' /\ OnEdges(w[r].ckpt)'
    BY <2>1, <2>2 DEF OnEdges
  <2>4. CASE m = NoNode
    <3>1. pc'[r] = "finish" /\ w'[r].verdict = "COMPLETED"
      BY <1>6, <2>4, AdvanceHere
    <3>2. EndsAs("COMPLETED")'
      BY <1>2, <1>3, <2>4 DEF EndsAs, Succ
    <3>3. WalkWorker(r)' /\ status' # "CANCELLED"
      BY <1>2, <1>3, <3>1, <3>2 DEF WalkWorker, Looping
    <3>. QED
      BY <1>2, <2>3, <3>3, WalkMoves
  <2>5. CASE m # NoNode
    <3>1. pc'[r] = "top" /\ w'[r].cur = m
      BY <1>6, <2>5, AdvanceHere
    <3>. QED
      BY <1>5, <2>3, <2>5, <3>1
  <2>. QED
    BY <2>4, <2>5
<1>7. ASSUME NEW v \in Status, ThenSettle(r, v), OnEdges(ckpt)', EndsAs(v)'
      PROVE  WalkInv'
  BY <1>2, <1>7, WalkSettles
<1>8. CASE RecordNext(r)
  <2>1. PICK m : m = w[r].to
    OBVIOUS
  <2>2. m \in Succ(n) /\ Advance(r, n, m)
    BY <1>1, <1>3, <1>8, <2>1 DEF RecordNext
  <2>. QED
    BY <1>4, <1>6, <2>2
<1>9. CASE RecordErrorRoute(r)
  <2>1. OnError[n] \in Succ(n)
    BY <1>1, <1>9 DEF RecordErrorRoute, Succ, Sequential!Successors
  <2>2. Advance(r, n, OnError[n])
    BY <1>1, <1>9 DEF RecordErrorRoute
  <2>. QED
    BY <1>4, <1>6, <2>1, <2>2
<1>10. CASE RecordTolerated(r)
  <2>1. Follow[n] \in Succ(n) /\ ckpt' = w[r].ckpt
    BY <1>1, <1>10 DEF RecordTolerated, Succ, Sequential!Successors
  <2>2. OnEdges(ckpt)'
    BY <1>3, <2>1 DEF OnEdges
  <2>3. CASE Follow[n] = NoNode /\ ThenSettle(r, "COMPLETED")
    <3>1. EndsAs("COMPLETED")'
      BY <1>2, <1>3, <2>1, <2>3 DEF EndsAs, Succ
    <3>. QED
      BY <1>4, <1>7, <2>2, <2>3, <3>1 DEF Status, Terminal
  <2>4. CASE /\ Follow[n] # NoNode /\ pc' = [pc EXCEPT ![r] = "top"]
             /\ w' = [w EXCEPT ![r].cur = Follow[n]]
    <3>1. pc'[r] = "top" /\ w'[r].cur = Follow[n] /\ w'[r].ckpt = w[r].ckpt
      BY <1>2, <2>4 DEF TypeInv, TypeOK, Locals
    <3>2. OnEdges(w[r].ckpt)'
      BY <1>3, <3>1 DEF OnEdges
    <3>. QED
      BY <1>4, <1>5, <2>1, <2>2, <2>4, <3>1, <3>2
  <2>. QED
    BY <1>1, <1>10, <2>3, <2>4 DEF RecordTolerated
<1>11. CASE RecordFailure(r)
  <2>1. OnEdges(ckpt)' /\ EndsAs("FAILED")'
    BY <1>2, <1>3, <1>11 DEF RecordFailure, OnEdges, EndsAs, Terminal
  <2>. QED
    BY <1>4, <1>7, <1>11, <2>1 DEF RecordFailure, Status, Terminal
<1>12. CASE RecordWait(r)
  <2>1. OnEdges(ckpt)'
    BY <1>3, <1>12 DEF RecordWait, OnEdges
  <2>2. EndsAs(PauseStatus(n))' /\ PauseStatus(n) \in Status /\ ThenSettle(r, PauseStatus(n))
    BY <1>1, <1>2, <1>3, <1>12 DEF RecordWait, EndsAs, PauseStatus, Status, Waiting
  <2>. QED
    BY <1>4, <1>7, <2>1, <2>2
<1>13. CASE RecordEnd(r)
  <2>1. OnEdges(ckpt)'
    BY <1>3, <1>13 DEF RecordEnd, rowVars, OnEdges
  <2>2. CASE w[r].act = "END" /\ ThenSettle(r, "COMPLETED")
    <3>1. EndsAs("COMPLETED")'
      BY <1>2, <1>3, <2>2 DEF EndsAs
    <3>. QED
      BY <1>4, <1>7, <2>1, <2>2, <3>1 DEF Status, Terminal
  <2>3. CASE ThenSettle(r, "FAILED")
    <3>1. EndsAs("FAILED")'
      BY <1>2, <1>3 DEF EndsAs, Terminal
    <3>. QED
      BY <1>4, <1>7, <2>1, <2>3, <3>1 DEF Status, Terminal
  <2>. QED
    BY <1>13, <2>2, <2>3 DEF RecordEnd
<1>. QED
  BY <1>4, <1>8, <1>9, <1>10, <1>11, <1>12, <1>13

\* The write of the verdict is a step of the author's run.
LEMMA WalkFinish ==
  ASSUME TypeInv, WorkerOwnsLease, Paced, WalkInv, NEW r \in Replica, Finish(r)
  PROVE  WalkInv' /\ Sees
<1>1. /\ Worker(r) /\ w[r] \in Locals /\ UNCHANGED <<current, ckpt>> /\ status' = w[r].verdict
      /\ EndsAs(w[r].verdict) /\ OnEdges(w[r].ckpt) /\ OnEdges(ckpt)
      /\ pc'[r] = "release" /\ w'[r] = w[r]
  BY Here DEF Finish, Worker, WalkInv, WalkWorker, TypeInv, TypeOK
<1>2. status' # "CANCELLED" /\ WalkWorker(r)' /\ OnEdges(ckpt)' /\ OnEdges(w[r].ckpt)'
  BY <1>1 DEF EndsAs, PauseStatus, WalkWorker, Looping, OnEdges
<1>3. Sees
  <2>1. CASE status' = "FAILED" /\ status \notin Terminal
    BY <1>1, <2>1 DEF Sees, Sequential!Next, Sequential!Fail, Sequential!Terminal, Terminal
  <2>2. CASE /\ status' = "COMPLETED" /\ status = "RUNNING" /\ current \in Node
             /\ Kind[current] = "end" \/ NoNode \in Succ(current)
    BY <1>1, <2>2, DefinitionAssumption DEF Sees, Succ, Sequential!Next, Sequential!Complete
  <2>3. CASE /\ status' = PauseStatus(current) /\ status = "RUNNING" /\ current \in Node
             /\ Kind[current] \in {"human", "timer"}
    BY <1>1, <2>3, DefinitionAssumption DEF Sees, PauseStatus, Sequential!Next, Sequential!Pause
  <2>. QED
    BY <1>1, <2>1, <2>2, <2>3 DEF EndsAs
<1>. QED
  BY <1>1, <1>2, <1>3, WalkMoves

LEMMA NoCkptOnEdges == OnEdges(NoCkpt)
BY DEF OnEdges, NoCkpt

\* A worker keeps its place on the walk while the position stays.
LEMMA WalkWorkerKept ==
  ASSUME WalkInv, NEW r \in Replica, pc'[r] = pc[r], w'[r] = w[r], UNCHANGED <<status, current>>
  PROVE  WalkWorker(r)' /\ OnEdges(w[r].ckpt)'
<1>1. StartNode' = StartNode
  BY DEF StartNode
<1>. QED
  BY <1>1 DEF WalkInv, WalkWorker, Looping, Reaches, EndsAs, PauseStatus, OnEdges, Succ

\* What wakes the run, moves it as the author's wake does, or fails it.
LEMMA WalkWakes ==
  ASSUME TypeInv, Paced, Paced', WalkInv, NEW r \in Replica,
         Deliver(r) \/ TimerScan(r) \/ Resumer(r)
  PROVE  WalkInv' /\ Sees
<1>. USE DEF rowVars, workVars
<1>1. /\ UNCHANGED <<pc, w>> /\ status # "CANCELLED" /\ OnEdges(ckpt) /\ OnEdges(rw[r].ckpt)
      /\ \A s \in Replica \ {r} : rw'[s] = rw[s] /\ rpc'[s] = rpc[s]
  BY DEF Deliver, TimerScan, Resumer, HumanLoad, HumanRoute, HumanGo, TimerMark, TimerGo,
         ResumerOnly, waitVars, WalkInv, TypeInv, TypeOK
<1>2. rpc[r] # "idle" =>
        /\ rw[r].node = current /\ \A s \in Replica : pc[s] \notin Acting
        /\ status = IF rpc[r] \in ByHuman THEN "WAITING_HUMAN" ELSE "WAITING_TIMER"
  BY <1>1 DEF Paced, ByHuman, ByTimer, RpcValues, TypeInv, TypeOK
<1>3. ASSUME OnEdges(ckpt)', OnEdges(rw[r].ckpt)', status' # "CANCELLED",
             rpc'[r] = "hgo" => rw'[r].to \in Routes[current'] \ {NoNode},
             UNCHANGED <<status, current>> \/ rpc[r] # "idle",
             UNCHANGED current \/ status' = "RUNNING"
      PROVE  WalkInv'
  <2>1. ASSUME NEW s \in Replica PROVE WalkWorker(s)' /\ OnEdges(w[s].ckpt)'
    <3>1. CASE UNCHANGED <<status, current>>
      BY <1>1, <3>1, WalkWorkerKept
    <3>2. CASE rpc[r] # "idle"
      <4>1. pc'[s] \in {"idle", "release"}
        BY <1>1, <1>2, <3>2 DEF Acting, TypeInv, TypeOK
      <4>2. WalkWorker(s)' /\ OnEdges(w[s].ckpt)'
        BY <1>1, <4>1 DEF WalkInv, WalkWorker, Looping, OnEdges
      <4>. QED
        BY <4>2
    <3>. QED
      BY <1>3, <3>1, <3>2
  <2>2. ASSUME NEW s \in Replica \ {r}
        PROVE  OnEdges(rw[s].ckpt)' /\ (rpc'[s] = "hgo" => rw'[s].to \in Routes[current'] \ {NoNode})
    <3>1. OnEdges(rw[s].ckpt)'
      BY <1>1 DEF WalkInv, OnEdges
    <3>2. CASE UNCHANGED current
      BY <1>1, <3>1, <3>2 DEF WalkInv
    <3>3. CASE status' = "RUNNING"
      BY <3>1, <3>3 DEF Paced, ByHuman
    <3>. QED
      BY <1>3, <3>2, <3>3
  <2>. QED
    BY <1>3, <2>1, <2>2 DEF WalkInv
<1>4. CASE Deliver(r)
  <2>1. UNCHANGED <<status, current, ckpt>>
    BY <1>4 DEF Deliver
  <2>2. OnEdges(ckpt)' /\ Sees
    BY <1>1, <2>1 DEF OnEdges, Sees
  <2>3. CASE UNCHANGED <<rpc, rw>>
    BY <1>1, <1>3, <2>1, <2>2, <2>3 DEF OnEdges, WalkInv
  <2>4. CASE \E n \in Node : /\ rpc' = [rpc EXCEPT ![r] = "hload"]
                             /\ rw' = [rw EXCEPT ![r] = [RLocals0 EXCEPT !.node = n]]
    <3>1. rpc'[r] = "hload" /\ rw'[r].ckpt = NoCkpt
      BY <2>4 DEF TypeInv, TypeOK, RLocals0
    <3>2. OnEdges(rw[r].ckpt)'
      BY <3>1, NoCkptOnEdges DEF OnEdges
    <3>. QED
      BY <1>1, <1>3, <2>1, <2>2, <3>1, <3>2
  <2>. QED
    BY <1>4, <2>3, <2>4 DEF Deliver, waitVars
<1>5. CASE HumanLoad(r) \/ TimerScan(r)
  <2>1. UNCHANGED <<status, current, ckpt>>
    BY <1>5 DEF HumanLoad, TimerScan
  <2>2. OnEdges(ckpt)' /\ Sees
    BY <1>1, <2>1 DEF OnEdges, Sees
  <2>3. rpc'[r] # "hgo" /\ rw'[r].ckpt = ckpt
    <3>1. rw[r] \in RLocals /\ RLocals0 \in RLocals
      BY RLocals0Types, ResumerHere
    <3>2. CASE HumanLoad(r)
      BY <3>1, <3>2 DEF HumanLoad, TypeInv, TypeOK, RLocals
    <3>3. CASE TimerScan(r)
      BY <3>1, <3>3 DEF TimerScan, TypeInv, TypeOK, RLocals
    <3>. QED
      BY <1>5, <3>2, <3>3
  <2>4. OnEdges(rw[r].ckpt)'
    BY <1>1, <2>3 DEF OnEdges
  <2>. QED
    BY <1>1, <1>3, <2>1, <2>2, <2>3, <2>4
<1>6. CASE HumanRoute(r)
  <2>1. rpc[r] = "hroute" /\ status = "WAITING_HUMAN" /\ current' = current /\ rw[r].node = current
    BY <1>2, <1>6 DEF HumanRoute, ByHuman
  <2>2. CASE status' = "FAILED" /\ rpc' = [rpc EXCEPT ![r] = "idle"] /\ UNCHANGED <<ckpt, rw>>
    <3>1. Sees
      BY <2>1, <2>2 DEF Sees, Sequential!Next, Sequential!Fail, Sequential!Terminal
    <3>2. OnEdges(ckpt)' /\ OnEdges(rw[r].ckpt)' /\ rpc'[r] # "hgo"
      BY <1>1, <2>2 DEF OnEdges, TypeInv, TypeOK
    <3>. QED
      BY <1>3, <2>1, <2>2, <3>1, <3>2
  <2>3. ASSUME NEW m \in Routes[rw[r].node] \ {NoNode}, rw' = [rw EXCEPT ![r].to = m],
               ckpt' = [rw[r].ckpt EXCEPT ![m] = Unset], rpc' = [rpc EXCEPT ![r] = "hgo"],
               UNCHANGED status
        PROVE  WalkInv' /\ Sees
    <3>1. rw[r] \in RLocals /\ rw[r].ckpt \in Ckpt
      BY <1>6, ResumerHere DEF HumanRoute
    <3>2. rw'[r].to = m /\ rw'[r].ckpt = rw[r].ckpt
      BY <2>3, <3>1 DEF TypeInv, TypeOK, RLocals
    <3>3. OnEdges(ckpt')
      BY <1>1, <2>3, <3>1 DEF OnEdges, Ckpt
    <3>4. OnEdges(ckpt)' /\ OnEdges(rw[r].ckpt)'
      BY <1>1, <3>2, <3>3 DEF OnEdges
    <3>5. Sees
      BY <2>1, <2>3 DEF Sees
    <3>. QED
      BY <1>3, <2>1, <2>3, <3>2, <3>4, <3>5
  <2>. QED
    BY <1>6, <2>2, <2>3 DEF HumanRoute
<1>7. CASE HumanGo(r)
  <2>1. /\ rpc[r] = "hgo" /\ status = "WAITING_HUMAN" /\ status' = "RUNNING" /\ current' = rw[r].to
        /\ rw[r].to \in Routes[current] \ {NoNode} /\ UNCHANGED <<ckpt, rw>> /\ rpc'[r] = "idle"
    BY <1>2, <1>7 DEF HumanGo, WakeNode, ByHuman, WalkInv, TypeInv, TypeOK
  <2>2. Sees
    BY <2>1 DEF Sees, Sequential!Next, Sequential!Wake
  <2>3. OnEdges(ckpt)' /\ OnEdges(rw[r].ckpt)'
    BY <1>1, <2>1 DEF OnEdges
  <2>. QED
    BY <1>3, <2>1, <2>2, <2>3
<1>8. CASE TimerMark(r)
  <2>1. UNCHANGED <<status, current, rw>> /\ ckpt' = rw[r].ckpt /\ rpc'[r] = "tgo"
    BY <1>8 DEF TimerMark, TypeInv, TypeOK
  <2>2. OnEdges(ckpt)' /\ OnEdges(rw[r].ckpt)' /\ Sees
    BY <1>1, <2>1 DEF OnEdges, Sees
  <2>. QED
    BY <1>1, <1>3, <2>1, <2>2
<1>9. CASE TimerGo(r)
  <2>1. /\ rpc[r] = "tgo" /\ status = "WAITING_TIMER" /\ status' = "RUNNING"
        /\ UNCHANGED <<current, ckpt, rw>> /\ rpc'[r] = "idle"
    BY <1>2, <1>9 DEF TimerGo, ByHuman, TypeInv, TypeOK
  <2>2. Sees
    BY <2>1 DEF Sees, Sequential!Next, Sequential!Wake
  <2>3. OnEdges(ckpt)' /\ OnEdges(rw[r].ckpt)'
    BY <1>1, <2>1 DEF OnEdges
  <2>. QED
    BY <1>3, <2>1, <2>2, <2>3
<1>. QED
  BY <1>4, <1>5, <1>6, <1>7, <1>8, <1>9 DEF Resumer

\* Leases, starts and deaths: the author sees nothing of them.
LEMMA WalkHost ==
  ASSUME TypeInv, WalkInv, NEW r \in Replica,
         \/ Claim(r) \/ Skip(r) \/ Heartbeat(r) \/ HeartbeatError(r) \/ Reclaim(r) \/ Release(r)
         \/ Crash(r) \/ Restart(r) \/ ResumeInFlight(r)
  PROVE  WalkInv' /\ Sees
<1>. USE DEF rowVars, workVars, waitVars
<1>1. UNCHANGED <<status, current, ckpt>>
  BY DEF Claim, Skip, Heartbeat, HeartbeatError, Reclaim, Release, Crash, Restart, ResumeInFlight
<1>2. /\ \A s \in Replica \ {r} : pc'[s] = pc[s] /\ w'[s] = w[s] /\ rpc'[s] = rpc[s] /\ rw'[s] = rw[s]
      /\ \/ pc'[r] = pc[r] /\ w'[r] = w[r]
         \/ pc'[r] = "idle" /\ w'[r] = w[r]
         \/ pc'[r] \in {"idle", "claimed"} /\ w'[r] = Locals0
      /\ (rpc'[r] = rpc[r] /\ rw'[r] = rw[r]) \/ (rpc'[r] = "idle" /\ rw'[r] = RLocals0)
  <2>1. CASE Claim(r)
    BY <2>1 DEF Claim, TypeInv, TypeOK
  <2>2. CASE Release(r)
    BY <2>2 DEF Release, TypeInv, TypeOK
  <2>3. CASE Crash(r)
    BY <2>3 DEF Crash, TypeInv, TypeOK
  <2>4. CASE UNCHANGED <<pc, w, rpc, rw>>
    BY <2>4
  <2>5. ~(Claim(r) \/ Release(r) \/ Crash(r)) => UNCHANGED <<pc, w, rpc, rw>>
    BY DEF Skip, Heartbeat, HeartbeatError, Reclaim, Restart, ResumeInFlight
  <2>. QED
    BY <2>1, <2>2, <2>3, <2>4, <2>5
<1>3. OnEdges(Locals0.ckpt) /\ OnEdges(RLocals0.ckpt)
  BY NoCkptOnEdges DEF Locals0, RLocals0
<1>4. ASSUME NEW s \in Replica PROVE WalkWorker(s)' /\ OnEdges(w[s].ckpt)'
  <2>1. CASE pc'[s] = pc[s] /\ w'[s] = w[s]
    BY <1>1, <2>1, WalkWorkerKept
  <2>2. CASE pc'[s] \in {"idle", "claimed"} /\ (w'[s] = w[s] \/ w'[s] = Locals0)
    <3>1. WalkWorker(s)'
      BY <2>2 DEF WalkWorker, Looping
    <3>2. OnEdges(w[s].ckpt)'
      BY <1>3, <2>2 DEF OnEdges, WalkInv
    <3>. QED
      BY <3>1, <3>2
  <2>. QED
    BY <1>2, <2>1, <2>2
<1>5. ASSUME NEW s \in Replica
      PROVE  OnEdges(rw[s].ckpt)' /\ (rpc'[s] = "hgo" => rw'[s].to \in Routes[current'] \ {NoNode})
  BY <1>1, <1>2, <1>3 DEF OnEdges, WalkInv
<1>6. OnEdges(ckpt)' /\ Sees /\ status' # "CANCELLED"
  BY <1>1 DEF OnEdges, WalkInv, Sees
<1>. QED
  BY <1>4, <1>5, <1>6 DEF WalkInv

LEMMA WalkStays ==
  ASSUME WalkInv, Expire \/ UNCHANGED vars
  PROVE  WalkInv' /\ Sees
<1>1. UNCHANGED <<status, current, ckpt, pc, w, rpc, rw>>
  BY DEF Expire, vars, rowVars, workVars, waitVars
<1>2. \A r \in Replica : WalkWorker(r)' /\ OnEdges(w[r].ckpt)' /\ OnEdges(rw[r].ckpt)'
  BY <1>1, WalkWorkerKept DEF WalkInv, OnEdges
<1>. QED
  BY <1>1, <1>2 DEF WalkInv, OnEdges, Sees

\* Every step is one of the author's run, or invisible to it.
LEMMA WalkStep ==
  ASSUME MaxDbErrors = 0, MaxCancels = 0, TypeInv, WorkerOwnsLease, Paced, Paced', WalkInv,
         [Next]_vars
  PROVE  WalkInv' /\ Sees
<1>1. ~Cancel /\ \A r \in Replica : ~ReadError(r)
  BY DatabaseAnswers DEF Cancel, TypeInv, TypeOK
<1>2. ASSUME NEW r \in Replica, Worker(r) PROVE WalkInv' /\ Sees
  BY <1>2, WalkPrologue, WalkLoopTop, WalkEnter, WalkAtNode, WalkRecord, WalkFinish DEF Worker
<1>. QED
  BY <1>1, <1>2, WalkWakes, WalkHost, WalkStays DEF Next

LEMMA InitWalk == Init => WalkInv /\ Sequential!Init
<1>. SUFFICES ASSUME Init PROVE WalkInv /\ Sequential!Init
  OBVIOUS
<1>1. OnEdges(ckpt) /\ \A r \in Replica : OnEdges(w[r].ckpt) /\ OnEdges(rw[r].ckpt)
  BY NoCkptOnEdges DEF Init, Locals0, RLocals0
<1>. QED
  BY <1>1 DEF Init, WalkInv, WalkWorker, Looping, Sequential!Init

\* Passes and resumes keep apart in a run without pauses, whatever crashes, and in
\* any run while nothing fails.
LEMMA RunsArePaced ==
  ASSUME OnlySteps \/ Calm
  PROVE  Spec => []Paced
<1>1. CASE OnlySteps
  <2>1. NoPause => Paced
    BY DEF NoPause, NeverWaits, Paced, ByHuman, ByTimer
  <2>. QED
    BY <1>1, <2>1, NeverPauses, PTL
<1>2. CASE Calm
  BY <1>2, CalmRuns, CalmIsPaced, PTL
<1>. QED
  BY <1>1, <1>2

\* The cluster implements the run its author drew: one position that walks the edges,
\* a status that moves as WorkflowRun says - of a definition without tasks and timers
\* through any crashes, restarts and reclaims, and of any definition while nothing
\* fails. Nobody cancels: that a cancel is final does not hold (server.go:419, 213).
THEOREM RunIsSequential ==
  ASSUME MaxStalls = 0, MaxDbErrors = 0, MaxCancels = 0, OnlySteps \/ Calm
  PROVE  Spec => SequentialRun
<1>1. TypeInv /\ WorkerOwnsLease /\ Paced /\ Paced' /\ WalkInv /\ [Next]_vars => WalkInv' /\ Sees
  BY WalkStep
<1>2. Spec => []WorkerOwnsLease /\ []Paced
  BY WorkerOwnsLeaseInvariant, RunsArePaced
<1>3. Sees <=> [Sequential!Next]_(Sequential!vars)
  BY DEF Sees, Sequential!vars
<1>. QED
  BY <1>1, <1>2, <1>3, InitWalk, TypeInvariant, PTL DEF Spec, SequentialRun, Sequential!Spec
-----------------------------------------------------------------------------
(* A run in flight is held. *)

\* A pass that ends leaves the run ended; here nobody else writes the status meanwhile.
PassEnds ==
  \A r \in Replica : /\ pc[r] = "finish" => w[r].verdict \in Terminal
                     /\ pc[r] = "release" => status \in Terminal
HeldInv == PassEnds /\ RunIsHeld

\* A worker's step ends the pass with a verdict that ends the run, or goes on.
LEMMA WorkerEnds ==
  ASSUME TypeInv, WorkerOwnsLease, NoPause, PassEnds, NEW r \in Replica, Worker(r)
  PROVE  PassEnds'
<1>1. \A s \in Replica \ {r} : pc[s] = "idle" /\ pc'[s] = pc[s]
  BY WorkerAlone, WorkerKeepsLease, OnlyWorker
<1>2. SUFFICES /\ pc'[r] = "finish" => w'[r].verdict \in Terminal
               /\ pc'[r] = "release" => status' \in Terminal
  BY <1>1 DEF PassEnds
<1>3. w[r] \in Locals /\ ~lost[r] /\ pc \in [Replica -> PcValues]
  BY Here, WorkerKeepsLease DEF WorkerOwnsLease, TypeInv, TypeOK
<1>4. {"FAILED", "COMPLETED", "CANCELLED"} \subseteq Terminal /\ Terminal \subseteq Status
  BY DEF Terminal, Status
<1>5. CASE \E v \in Terminal : ThenSettle(r, v)
  BY <1>4, <1>5, SettleHere
<1>6. CASE pc'[r] \notin {"finish", "release"}
  BY <1>6
<1>7. CASE Load(r)
  <2>1. \/ status' \in Terminal /\ pc'[r] = "release"
        \/ ThenSettle(r, "FAILED") \/ pc'[r] = "begin"
    BY <1>3, <1>7 DEF Load, rowVars
  <2>. QED
    BY <1>4, <1>5, <2>1
<1>8. CASE Begin(r) \/ Clear(r) \/ Attempt(r) \/ Call(r)
  <2>1. pc'[r] \in {"top", "attempt", "record", "call"}
    BY <1>3, <1>8 DEF Begin, Clear, Attempt, Call
  <2>. QED
    BY <1>6, <2>1
<1>9. CASE LoopTop(r)
  <2>1. \/ status' = "CANCELLED" /\ pc'[r] = "release"
        \/ ThenSettle(r, "FAILED") \/ pc'[r] = "enter"
    BY <1>3, <1>9 DEF LoopTop, Stopped, rowVars
  <2>. QED
    BY <1>4, <1>5, <2>1
<1>10. CASE Enter(r)
  <2>1. ThenSettle(r, "COMPLETED") \/ pc'[r] \in {"attempt", "clear", "top"}
    BY <1>3, <1>10 DEF Enter
  <2>. QED
    BY <1>4, <1>5, <1>6, <2>1
<1>11. CASE RecordNext(r) \/ RecordErrorRoute(r)
  <2>1. PICK n, m : Advance(r, n, m)
    BY <1>11 DEF RecordNext, RecordErrorRoute
  <2>2. pc'[r] = "top" \/ (pc'[r] = "finish" /\ w'[r].verdict = "COMPLETED")
    BY <1>3, <2>1 DEF Advance, TypeInv, TypeOK, Locals
  <2>. QED
    BY <1>4, <2>2
<1>12. CASE RecordTolerated(r) \/ RecordFailure(r) \/ RecordEnd(r)
  <2>1. ThenSettle(r, "FAILED") \/ ThenSettle(r, "COMPLETED") \/ pc'[r] = "top"
    BY <1>3, <1>12 DEF RecordTolerated, RecordFailure, RecordEnd
  <2>. QED
    BY <1>4, <1>5, <1>6, <2>1
<1>13. CASE RecordWait(r)
  BY <1>13 DEF RecordWait, NoPause
<1>14. CASE Finish(r)
  <2>1. status' = w[r].verdict /\ pc'[r] = "release" /\ pc[r] = "finish"
    BY <1>3, <1>14 DEF Finish
  <2>. QED
    BY <2>1 DEF PassEnds
<1>. QED
  BY <1>7, <1>8, <1>9, <1>10, <1>11, <1>12, <1>13, <1>14 DEF Worker

\* Claims, releases and crashes hand the run on to its owner.
LEMMA HeldLease ==
  ASSUME StableIds, TypeInv, WorkerOwnsLease, HeldInv, NEW r \in Replica,
         Claim(r) \/ Release(r) \/ Crash(r)
  PROVE  HeldInv'
<1>1. pc \in [Replica -> PcValues] /\ up \in [Replica -> BOOLEAN] /\ status' = status
      /\ r # Free
  BY EnvironmentAssumption DEF TypeInv, TypeOK, Claim, Release, Crash, rowVars
<1>2. /\ pc'[r] \in {"claimed", "idle"}
      /\ \A s \in Replica \ {r} : pc'[s] = pc[s] /\ w'[s] = w[s]
  BY DEF TypeInv, TypeOK, Claim, Release, Crash
<1>3. PassEnds'
  BY <1>1, <1>2 DEF HeldInv, PassEnds
<1>4. CASE Claim(r)
  BY <1>1, <1>3, <1>4 DEF Claim, HeldInv, RunIsHeld
<1>5. CASE Release(r)
  <2>1. status' \notin {"PENDING", "RUNNING"}
    BY <1>1, <1>5 DEF Release, HeldInv, PassEnds, Terminal
  <2>. QED
    BY <1>3, <2>1 DEF HeldInv, RunIsHeld
<1>6. CASE Crash(r)
  <2>1. owner' = owner /\ lease' = lease /\ WillStart(r)'
        /\ \A s \in Replica \ {r} : WillStart(s) => WillStart(s)'
    BY <1>1, <1>6 DEF Crash, WillStart, TypeInv, TypeOK
  <2>2. CASE pc[r] # "idle"
    <3>1. owner = r
      BY <2>2 DEF WorkerOwnsLease
    <3>. QED
      BY <1>1, <1>3, <2>1, <3>1 DEF HeldInv, RunIsHeld
  <2>3. CASE pc[r] = "idle"
    BY <1>1, <1>2, <1>3, <2>1, <2>3 DEF HeldInv, RunIsHeld
  <2>. QED
    BY <2>2, <2>3
<1>. QED
  BY <1>4, <1>5, <1>6

\* A start is dropped only while somebody else has the run.
LEMMA HeldHost ==
  ASSUME MaxDbErrors = 0, TypeInv, WorkerOwnsLease, HeldInv, NEW r \in Replica,
         Skip(r) \/ Heartbeat(r) \/ Reclaim(r) \/ Restart(r)
           \/ ResumeInFlight(r)
  PROVE  HeldInv'
<1>1. UNCHANGED <<status, owner, pc, w>>
  BY DEF Skip, Heartbeat, Reclaim, Restart, ResumeInFlight, rowVars,
         leaseVars, workVars
<1>2. PassEnds'
  BY <1>1 DEF HeldInv, PassEnds
<1>3. lease' = "live" \/ lease' = lease
  BY DEF Skip, Heartbeat, Reclaim, Restart, ResumeInFlight, leaseVars
<1>4. ASSUME \A s \in Replica : WillStart(s) /\ (owner = s \/ owner = Free) => WillStart(s)' \/ status \notin {"PENDING", "RUNNING"}
      PROVE  HeldInv'
  BY <1>1, <1>2, <1>3, <1>4 DEF HeldInv, RunIsHeld
<1>5. /\ up \in [Replica -> BOOLEAN] /\ recover \in [Replica -> BOOLEAN]
      /\ queue \in [Replica -> Nat] /\ dbErrors \in Nat
  BY DEF TypeInv, TypeOK
<1>6. CASE Skip(r)
  <2>1. owner \notin {Free, r}
    BY <1>5, <1>6 DEF Skip, Claimable
  <2>2. \A s \in Replica \ {r} : WillStart(s) => WillStart(s)'
    BY <1>5, <1>6 DEF Skip, WillStart
  <2>. QED
    BY <1>4, <2>1, <2>2
<1>7. CASE Heartbeat(r)
  BY <1>4, <1>7 DEF Heartbeat, WillStart, hostVars
<1>8. CASE Reclaim(r)
  <2>1. \A s \in Replica : WillStart(s) => WillStart(s)'
    BY <1>5, <1>8 DEF Reclaim, WillStart
  <2>. QED
    BY <1>4, <2>1
<1>9. CASE Restart(r)
  <2>1. \A s \in Replica : WillStart(s) => WillStart(s)'
    BY <1>5, <1>9 DEF Restart, WillStart
  <2>. QED
    BY <1>4, <2>1
<1>10. CASE ResumeInFlight(r)
  <2>1. \A s \in Replica \ {r} : WillStart(s) => WillStart(s)'
    BY <1>5, <1>10 DEF ResumeInFlight, WillStart
  <2>2. status \in {"PENDING", "RUNNING"} => WillStart(r)'
    BY <1>5, <1>10 DEF ResumeInFlight, InFlight, WillStart
  <2>. QED
    BY <1>4, <2>1, <2>2
<1>. QED
  BY <1>6, <1>7, <1>8, <1>9, <1>10

\* With owner ids that survive a restart, an exclusive worker and a definition that never
\* pauses, a run in flight is never forgotten (RunIsHeld), however often its replicas
\* crash and whoever cancels, reclaims or restarts: the safety half of Settles. In a run
\* that pauses it fails, for a wake may find the last pass still releasing its lease.
THEOREM RunsAreHeld ==
  ASSUME MaxStalls = 0, MaxDbErrors = 0, StableIds, OnlySteps
  PROVE  Spec => []RunIsHeld
<1>1. Init => HeldInv
  <2>. SUFFICES ASSUME Init PROVE HeldInv
    OBVIOUS
  <2>1. PassEnds
    BY DEF Init, PassEnds
  <2>2. PICK r \in Replica : queue = [s \in Replica |-> IF s = r THEN 1 ELSE 0]
    BY DEF Init
  <2>3. WillStart(r) /\ owner = Free /\ status = "PENDING"
    BY <2>2 DEF WillStart, Init
  <2>. QED
    BY <2>1, <2>3 DEF HeldInv, RunIsHeld
<1>2. TypeInv /\ WorkerOwnsLease /\ NoPause /\ HeldInv /\ [Next]_vars => HeldInv'
  <2>. SUFFICES ASSUME TypeInv, WorkerOwnsLease, NoPause, HeldInv, [Next]_vars PROVE HeldInv'
    OBVIOUS
  <2>1. ASSUME NEW r \in Replica PROVE ~(Deliver(r) \/ TimerScan(r) \/ Resumer(r))
    BY DEF OnlySteps, NoPause, NeverWaits, Waiting, Deliver, TimerScan, Resumer, HumanLoad,
           HumanRoute, HumanGo, TimerMark, TimerGo
  <2>2. ASSUME NEW r \in Replica, Worker(r) PROVE HeldInv'
    <3>1. PassEnds' /\ UNCHANGED <<owner, lease>> /\ pc'[r] # "idle"
      BY <2>2, WorkerEnds, WorkerKeepsLease DEF HeldInv, TypeInv, TypeOK
    <3>2. owner = r /\ lease = "live" /\ r # Free
      BY <2>2, WorkerKeepsLease, EnvironmentAssumption DEF WorkerOwnsLease
    <3>3. status' \in {"PENDING", "RUNNING"} => pc'[r] \notin {"idle", "release"}
      BY <3>1 DEF PassEnds, Terminal
    <3>. QED
      BY <3>1, <3>2, <3>3 DEF HeldInv, RunIsHeld
  <2>3. CASE Expire
    BY <2>3 DEF Expire, rowVars, hostVars, workVars, HeldInv, PassEnds, RunIsHeld, WillStart
  <2>4. CASE Cancel
    BY <2>4 DEF Cancel, leaseVars, hostVars, workVars, HeldInv, PassEnds, RunIsHeld, Terminal
  <2>5. CASE UNCHANGED vars
    BY <2>5 DEF vars, rowVars, leaseVars, hostVars, workVars, HeldInv, PassEnds, RunIsHeld, WillStart
  <2>. QED
    <3>1. \A r \in Replica : ~ReadError(r) /\ ~HeartbeatError(r)
      BY DatabaseAnswers DEF TypeInv, TypeOK
    <3>. QED
      BY <2>1, <2>2, <2>3, <2>4, <2>5, <3>1, HeldLease, HeldHost DEF Next
<1>3. HeldInv => RunIsHeld
  BY DEF HeldInv
<1>4. Spec => []WorkerOwnsLease /\ []NoPause
  BY WorkerOwnsLeaseInvariant, NeverPauses
<1>. QED
  BY <1>1, <1>2, <1>3, <1>4, TypeInvariant, PTL DEF Spec
=============================================================================
