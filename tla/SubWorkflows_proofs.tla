-------------------------- MODULE SubWorkflows_proofs --------------------------
(***************************************************************************)
(* Theorems about the workflow registry, alone and under the runs that     *)
(* read it, and about the runs, for every set of workflows, of requests    *)
(* and of runs, and every bound.                                           *)
(***************************************************************************)
EXTENDS SubWorkflows, FiniteSetTheorems, WellFoundedInduction, TLAPS

(* The registry. *)

RegistrySpec == RegistryInit /\ [][RegistryNext \/ RegistryDies]_registryVars

\* What a request's handler has in its locals, by how far it is.
Locals(q) ==
  /\ q.pc = "idle" <=> q.workflow = NoWorkflow
  /\ q.pc # "idle" => q.workflow \in DOMAIN row
  /\ q.pc \in {"insert", "write"} => q.found \in Row /\ q.found.version >= 1
  /\ q.pc \in {"version1", "insert"} => q.def \in Definition
  /\ q.pc = "version1" => q.status = "none"

Handlers == \A c \in Client : Locals(request[c])

\* A version is stored once, for a workflow that is there.
VersionsAreKeyed ==
  /\ \A v \in versions : v.workflow \in DOMAIN row /\ v.version >= 1
  /\ \A v, u \in versions : v.workflow = u.workflow /\ v.version = u.version => v = u
  /\ \A w \in DOMAIN row : row[w].version >= 1

\* What RowHasItsVersion says of a row, of any copy of one.
Stored(w, r) ==
  \/ [workflow |-> w, version |-> r.version, def |-> r.def] \in versions
  \/ r.version = 1 /\ \A v \in versions : v.workflow = w => v.version # 1

CopiesAreStored ==
  /\ \A w \in DOMAIN row : Stored(w, row[w])
  /\ \A c \in Client : request[c].pc \in {"insert", "write"} => Stored(request[c].workflow, request[c].found)
  /\ \A c \in Client : request[c].pc = "write" /\ request[c].def # NoDefinition
       => [workflow |-> request[c].workflow, version |-> request[c].found.version + 1,
           def |-> request[c].def] \in versions

\* While a creation is between its two statements, whoever has version 1 of that
\* workflow has the definition that is about to be stored.
Creating(c, w) == request[c].pc = "version1" /\ request[c].workflow = w
CreatorsAgree ==
  \A c \in Client, w \in Workflow : Creating(c, w) =>
    /\ \A d \in Client : Creating(d, w) => d = c
    /\ \A v \in versions : v.workflow = w => v.version # 1
    /\ row[w].version = 1 => row[w].def = request[c].def
    /\ \A d \in Client : request[d].workflow = w /\ request[d].pc \in {"insert", "write"}
                         /\ request[d].found.version = 1 => request[d].found.def = request[c].def

\* A workflow whose writes never overlapped has one request at most, which has read
\* what the answers so far promised.
OneAtATime ==
  \A w \in Workflow \ overlapped, c, d \in Client :
    request[c].workflow = w /\ request[d].workflow = w => c = d
PromisesKept ==
  /\ DOMAIN accepted \subseteq DOMAIN row
  /\ \A w \in DOMAIN accepted \ overlapped :
       /\ row[w] = accepted[w]
       /\ \A c \in Client : request[c].workflow = w /\ request[c].pc \in {"insert", "write"}
                            => request[c].found = accepted[w]

RegistryInv ==
  /\ RegistryTypeOK /\ Handlers /\ VersionsAreKeyed /\ CopiesAreStored /\ CreatorsAgree
  /\ OneAtATime /\ PromisesKept
-----------------------------------------------------------------------------
LEMMA RegistryInitially == RegistryInit => RegistryInv
<1>. SUFFICES ASSUME RegistryInit PROVE RegistryInv
  OBVIOUS
<1>. USE RegistryAssumption DEF RegistryInit
<1>1. \A c \in Client : request[c] = Free
  OBVIOUS
<1>2. DOMAIN row = DOMAIN Existing
      /\ \A w \in DOMAIN row : row[w] = [def |-> Existing[w], version |-> 1, status |-> "active"]
  OBVIOUS
<1>3. \A v \in versions : \E w \in DOMAIN row : v = [workflow |-> w, version |-> 1, def |-> row[w].def]
  BY <1>2
<1>4. \A w \in DOMAIN row : [workflow |-> w, version |-> 1, def |-> row[w].def] \in versions
  BY <1>2
<1>5. RegistryTypeOK
  <2>1. \A w \in DOMAIN row : row[w] \in Row /\ w \in Workflow
    BY <1>2 DEF Row, Status
  <2>2. versions \subseteq Version
    BY <1>3, <2>1 DEF Version, Row
  <2>3. request \in [Client -> Request]
    BY DEF Request, Free
  <2>. QED
    BY <2>1, <2>2, <2>3 DEF RegistryTypeOK
<1>6. Handlers
  BY <1>1 DEF Handlers, Locals, Free
<1>7. VersionsAreKeyed
  BY <1>2, <1>3 DEF VersionsAreKeyed
<1>8. CopiesAreStored
  BY <1>1, <1>2, <1>4 DEF CopiesAreStored, Stored, Free
<1>9. CreatorsAgree
  BY <1>1 DEF CreatorsAgree, Creating, Free
<1>10. OneAtATime
  BY <1>1 DEF OneAtATime, Free
<1>11. PromisesKept
  BY <1>1 DEF PromisesKept, Free
<1>. QED
  BY <1>5, <1>6, <1>7, <1>8, <1>9, <1>10, <1>11 DEF RegistryInv

LEMMA CreateRowKeeps ==
  ASSUME RegistryInv, NEW c \in Client, CreateRow(c)
  PROVE  RegistryInv'
<1>. USE RegistryAssumption DEF RegistryInv
<1>1. PICK w \in Workflow \ DOMAIN row, d \in Definition, s \in {"draft", "active"} :
        /\ request[c].pc = "idle"
        /\ request' = [request EXCEPT ![c] = [Free EXCEPT !.pc = "version1", !.workflow = w, !.def = d]]
        /\ edits' = edits + 1
        /\ overlapped' = IF Busy(w) THEN overlapped \cup {w} ELSE overlapped
        /\ Put(w, [def |-> d, version |-> 1, status |-> s])
        /\ UNCHANGED <<versions, cut, refused, accepted>>
  BY DEF CreateRow, Opens
<1>2. /\ request'[c].pc = "version1" /\ request'[c].workflow = w /\ request'[c].def = d
      /\ request'[c].status = "none" /\ request'[c].found = NoDefinition
      /\ request'[c] \in Request
      /\ \A b \in Client \ {c} : request'[b] = request[b]
  BY <1>1 DEF RegistryTypeOK, Free, Request
<1>3. /\ DOMAIN row' = DOMAIN row \cup {w}
      /\ row'[w] = [def |-> d, version |-> 1, status |-> s]
      /\ \A u \in DOMAIN row : row'[u] = row[u]
  BY <1>1 DEF Put
<1>4. \A b \in Client : request[b].workflow # w
  BY <1>1 DEF Handlers, Locals
<1>5. RegistryTypeOK'
  <2>1. row'[w] \in Row
    BY <1>3 DEF Row, Status
  <2>2. request' \in [Client -> Request]
    BY <1>1, <1>2 DEF RegistryTypeOK
  <2>. QED
    BY <1>1, <1>3, <2>1, <2>2 DEF RegistryTypeOK
<1>6. Handlers'
  BY <1>2, <1>3 DEF Handlers, Locals
<1>7. VersionsAreKeyed'
  BY <1>1, <1>3 DEF VersionsAreKeyed
<1>8. CopiesAreStored'
  BY <1>1, <1>2, <1>3 DEF CopiesAreStored, Stored, VersionsAreKeyed
<1>9. CreatorsAgree'
  BY <1>1, <1>2, <1>3, <1>4 DEF CreatorsAgree, Creating, VersionsAreKeyed, Handlers, Locals
<1>10. OneAtATime'
  BY <1>1, <1>2, <1>4 DEF OneAtATime
<1>11. PromisesKept'
  BY <1>1, <1>2, <1>3 DEF PromisesKept
<1>. QED
  BY <1>5, <1>6, <1>7, <1>8, <1>9, <1>10, <1>11

LEMMA CreateVersionKeeps ==
  ASSUME RegistryInv, NEW c \in Client, CreateVersion(c)
  PROVE  RegistryInv'
<1>. USE RegistryAssumption DEF RegistryInv
<1>. DEFINE q == request[c]
<1>1. /\ q.pc = "version1" /\ q \in Request /\ q.workflow \in DOMAIN row /\ q.def \in Definition
      /\ Creating(c, q.workflow) /\ q.workflow \in Workflow
  BY DEF CreateVersion, RegistryTypeOK, Handlers, Locals, Creating
<1>2. /\ versions' = versions \cup {[workflow |-> q.workflow, version |-> 1, def |-> q.def]}
      /\ request' = [request EXCEPT ![c] = Free] /\ UNCHANGED <<row, edits, overlapped, cut, refused>>
      /\ Accept(q.workflow, row[q.workflow])
  BY DEF CreateVersion
<1>3. /\ request'[c] = Free /\ \A b \in Client \ {c} : request'[b] = request[b]
  BY <1>2 DEF RegistryTypeOK
<1>4. /\ DOMAIN accepted' = DOMAIN accepted \cup {q.workflow}
      /\ accepted'[q.workflow] = row[q.workflow]
      /\ \A u \in DOMAIN accepted \ {q.workflow} : accepted'[u] = accepted[u]
  BY <1>2 DEF Accept
<1>5. RegistryTypeOK'
  <2>1. [workflow |-> q.workflow, version |-> 1, def |-> q.def] \in Version
    BY <1>1 DEF Version
  <2>2. Free \in Request
    BY DEF Free, Request
  <2>3. request' \in [Client -> Request]
    BY <1>2, <2>2 DEF RegistryTypeOK
  <2>. QED
    BY <1>1, <1>2, <1>4, <2>1, <2>3 DEF RegistryTypeOK
<1>6. Handlers'
  BY <1>2, <1>3 DEF Handlers, Locals, Free
<1>7. VersionsAreKeyed'
  <2>1. \A v \in versions : v.workflow = q.workflow => v.version # 1
    BY <1>1 DEF CreatorsAgree
  <2>. QED
    BY <1>1, <1>2, <2>1 DEF VersionsAreKeyed
<1>8. CopiesAreStored'
  <2>1. ASSUME NEW w \in Workflow, NEW r, Stored(w, r),
               w = q.workflow /\ r.version = 1 => r.def = q.def
        PROVE  Stored(w, r)'
    BY <1>2, <2>1 DEF Stored
  <2>2. \A w \in DOMAIN row' : Stored(w, row[w])'
    BY <1>1, <1>2, <2>1 DEF CopiesAreStored, CreatorsAgree, RegistryTypeOK
  <2>3. ASSUME NEW b \in Client, request'[b].pc \in {"insert", "write"}
        PROVE  Stored(request[b].workflow, request[b].found)'
    <3>1. request'[b] = request[b] /\ b # c
      BY <1>3, <2>3 DEF Free
    <3>2. request[b].workflow \in Workflow
      BY <2>3, <3>1 DEF Handlers, Locals, RegistryTypeOK
    <3>3. Stored(request[b].workflow, request[b].found)
      BY <2>3, <3>1 DEF CopiesAreStored
    <3>4. request[b].workflow = q.workflow /\ request[b].found.version = 1 => request[b].found.def = q.def
      BY <1>1, <2>3, <3>1 DEF CreatorsAgree
    <3>. QED
      BY <2>1, <3>1, <3>2, <3>3, <3>4
  <2>4. \A b \in Client : request'[b].pc = "write" => request'[b] = request[b]
    BY <1>3 DEF Free
  <2>. QED
    BY <1>2, <2>2, <2>3, <2>4 DEF CopiesAreStored
<1>9. CreatorsAgree'
  BY <1>1, <1>2, <1>3 DEF CreatorsAgree, Creating, Free
<1>10. OneAtATime'
  BY <1>2, <1>3 DEF OneAtATime, Free
<1>11. PromisesKept'
  BY <1>1, <1>2, <1>3, <1>4 DEF PromisesKept, Free, OneAtATime
<1>. QED
  BY <1>5, <1>6, <1>7, <1>8, <1>9, <1>10, <1>11

LEMMA UpdateReadKeeps ==
  ASSUME RegistryInv, NEW c \in Client, UpdateRead(c)
  PROVE  RegistryInv'
<1>. USE RegistryAssumption DEF RegistryInv
<1>1. PICK w \in DOMAIN row, d \in Definition \cup {NoDefinition}, s \in {"none", "active"} :
        /\ request[c].pc = "idle"
        /\ request' = [request EXCEPT ![c] =
             [pc |-> IF d = NoDefinition THEN "write" ELSE "insert", workflow |-> w,
              def |-> d, status |-> s, found |-> row[w]]]
        /\ edits' = edits + 1
        /\ overlapped' = IF Busy(w) THEN overlapped \cup {w} ELSE overlapped
        /\ UNCHANGED <<row, versions, cut, refused, accepted>>
  BY DEF UpdateRead, Opens
<1>2. w \in Workflow /\ row[w] \in Row /\ row[w].version >= 1
  BY DEF RegistryTypeOK, VersionsAreKeyed
<1>3. /\ request'[c].pc = IF d = NoDefinition THEN "write" ELSE "insert"
      /\ request'[c].workflow = w /\ request'[c].def = d /\ request'[c].found = row[w]
      /\ request'[c] \in Request
      /\ \A b \in Client \ {c} : request'[b] = request[b]
  BY <1>1, <1>2 DEF RegistryTypeOK, Request, Status
<1>4. RegistryTypeOK'
  <2>1. request' \in [Client -> Request]
    BY <1>1, <1>3 DEF RegistryTypeOK
  <2>. QED
    BY <1>1, <1>2, <2>1 DEF RegistryTypeOK
<1>5. Handlers'
  BY <1>1, <1>2, <1>3 DEF Handlers, Locals
<1>6. VersionsAreKeyed'
  BY <1>1 DEF VersionsAreKeyed
<1>7. CopiesAreStored'
  BY <1>1, <1>3 DEF CopiesAreStored, Stored
<1>8. CreatorsAgree'
  BY <1>1, <1>2, <1>3 DEF CreatorsAgree, Creating
<1>9. w \notin overlapped' => \A b \in Client : request[b].workflow # w
  BY <1>1 DEF Busy
<1>10. OneAtATime'
  BY <1>1, <1>3, <1>9 DEF OneAtATime
<1>11. PromisesKept'
  BY <1>1, <1>3, <1>9 DEF PromisesKept
<1>. QED
  BY <1>4, <1>5, <1>6, <1>7, <1>8, <1>10, <1>11

LEMMA UpdateInsertKeeps ==
  ASSUME RegistryInv, NEW c \in Client, UpdateInsert(c)
  PROVE  RegistryInv'
<1>. USE RegistryAssumption DEF RegistryInv
<1>. DEFINE q == request[c]  n == q.found.version + 1
            new == [workflow |-> q.workflow, version |-> n, def |-> q.def]
<1>1. /\ q.pc = "insert" /\ q \in Request /\ q.workflow \in DOMAIN row /\ q.workflow \in Workflow
      /\ q.def \in Definition /\ q.found \in Row /\ q.found.version >= 1 /\ q.workflow # NoWorkflow
      /\ UNCHANGED <<row, edits, overlapped, cut, accepted>> /\ refused' \subseteq refused \cup {q.workflow}
  BY DEF UpdateInsert, RegistryTypeOK, Handlers, Locals
<1>2. n \in Nat /\ n >= 2 /\ NewVersion(q) = n
  BY <1>1 DEF Row, NewVersion
<1>3. CASE Taken(q) /\ request' = [request EXCEPT ![c] = Free] /\ UNCHANGED versions
  <2>1. /\ request'[c] = Free /\ \A b \in Client \ {c} : request'[b] = request[b]
    BY <1>3 DEF RegistryTypeOK
  <2>2. RegistryTypeOK'
    <3>1. Free \in Request
      BY DEF Free, Request
    <3>2. request' \in [Client -> Request]
      BY <1>3, <3>1 DEF RegistryTypeOK
    <3>. QED
      BY <1>1, <1>3, <3>2 DEF RegistryTypeOK
  <2>3. Handlers'
    BY <1>1, <2>1 DEF Handlers, Locals, Free
  <2>4. VersionsAreKeyed'
    BY <1>1, <1>3 DEF VersionsAreKeyed
  <2>5. CopiesAreStored'
    BY <1>1, <1>3, <2>1 DEF CopiesAreStored, Stored, Free
  <2>6. CreatorsAgree'
    BY <1>1, <1>3, <2>1 DEF CreatorsAgree, Creating, Free
  <2>7. OneAtATime' /\ PromisesKept'
    BY <1>1, <2>1 DEF OneAtATime, PromisesKept, Free
  <2>. QED
    BY <2>2, <2>3, <2>4, <2>5, <2>6, <2>7
<1>4. CASE /\ ~Taken(q) /\ versions' = versions \cup {new}
           /\ request' = [request EXCEPT ![c].pc = "write"]
  <2>1. /\ request'[c] = [q EXCEPT !.pc = "write"]
        /\ \A b \in Client \ {c} : request'[b] = request[b]
    BY <1>4 DEF RegistryTypeOK
  <2>2. /\ request'[c].pc = "write" /\ request'[c].workflow = q.workflow
        /\ request'[c].def = q.def /\ request'[c].found = q.found /\ request'[c] \in Request
    BY <1>1, <2>1 DEF Request
  <2>11. /\ \A b \in Client : request'[b].workflow = request[b].workflow
         /\ \A b \in Client : request'[b].found = request[b].found
         /\ \A b \in Client : request'[b].pc \in {"insert", "write"} => request[b].pc \in {"insert", "write"}
    BY <1>1, <2>1, <2>2
  <2>3. \A v \in versions : v.workflow = q.workflow => v.version # n
    BY <1>2, <1>4 DEF Taken, VersionsOf
  <2>4. RegistryTypeOK'
    <3>1. new \in Version
      BY <1>1, <1>2 DEF Version
    <3>2. request' \in [Client -> Request]
      BY <1>4, <2>2 DEF RegistryTypeOK
    <3>. QED
      BY <1>1, <1>4, <3>1, <3>2 DEF RegistryTypeOK
  <2>5. Handlers'
    <3>1. Locals(request[c])'
      BY <1>1, <2>2 DEF Locals
    <3>2. \A b \in Client \ {c} : Locals(request[b])'
      BY <1>1, <2>1 DEF Handlers, Locals
    <3>. QED
      BY <3>1, <3>2 DEF Handlers
  <2>6. VersionsAreKeyed'
    BY <1>1, <1>2, <1>4, <2>3 DEF VersionsAreKeyed
  <2>7. CopiesAreStored'
    <3>1. ASSUME NEW w, NEW r, Stored(w, r) PROVE Stored(w, r)'
      BY <1>2, <1>4, <3>1 DEF Stored
    <3>2. \A w \in DOMAIN row' : Stored(w, row[w])'
      BY <1>1, <3>1 DEF CopiesAreStored
    <3>3. \A b \in Client : request'[b].pc \in {"insert", "write"}
            => Stored(request[b].workflow, request[b].found)'
      <4>. SUFFICES ASSUME NEW b \in Client, request'[b].pc \in {"insert", "write"}
                    PROVE  Stored(request[b].workflow, request[b].found)'
        OBVIOUS
      <4>1. /\ request[b].pc \in {"insert", "write"}
            /\ request'[b].workflow = request[b].workflow /\ request'[b].found = request[b].found
        BY <1>1, <2>1, <2>2
      <4>2. Stored(request[b].workflow, request[b].found)
        BY <4>1 DEF CopiesAreStored
      <4>. QED
        BY <3>1, <4>1, <4>2
    <3>4. ASSUME NEW b \in Client, request'[b].pc = "write", request'[b].def # NoDefinition
          PROVE  [workflow |-> request'[b].workflow, version |-> request'[b].found.version + 1,
                  def |-> request'[b].def] \in versions'
      BY <1>4, <2>1, <2>2, <3>4 DEF CopiesAreStored
    <3>. QED
      BY <3>2, <3>3, <3>4 DEF CopiesAreStored
  <2>8. CreatorsAgree'
    BY <1>1, <1>2, <1>4, <2>1, <2>2 DEF CreatorsAgree, Creating
  <2>9. OneAtATime'
    <3>. SUFFICES ASSUME NEW w \in Workflow \ overlapped, NEW a \in Client, NEW b \in Client,
                         request'[a].workflow = w, request'[b].workflow = w
                  PROVE  a = b
      BY <1>1 DEF OneAtATime
    <3>1. request[a].workflow = w /\ request[b].workflow = w
      BY <2>11
    <3>. QED
      BY <3>1 DEF OneAtATime
  <2>10. PromisesKept'
    <3>1. \A w \in DOMAIN accepted \ overlapped, b \in Client :
            request'[b].workflow = w /\ request'[b].pc \in {"insert", "write"} => request'[b].found = accepted[w]
      BY <2>11 DEF PromisesKept
    <3>. QED
      BY <1>1, <3>1 DEF PromisesKept
  <2>. QED
    BY <2>4, <2>5, <2>6, <2>7, <2>8, <2>9, <2>10
<1>. QED
  BY <1>2, <1>3, <1>4 DEF UpdateInsert

LEMMA UpdateWriteKeeps ==
  ASSUME RegistryInv, NEW c \in Client, UpdateWrite(c)
  PROVE  RegistryInv'
<1>. USE RegistryAssumption DEF RegistryInv
<1>. DEFINE q == request[c]  w == q.workflow  m == Merged(q)
<1>1. /\ q.pc = "write" /\ q \in Request /\ w \in DOMAIN row /\ w \in Workflow
      /\ q.found \in Row /\ q.found.version >= 1
      /\ Put(w, m) /\ request' = [request EXCEPT ![c] = Free]
      /\ Accept(w, IF w \in DOMAIN accepted THEN Asked(q) ELSE m)
      /\ UNCHANGED <<versions, edits, overlapped, cut, refused>>
  BY DEF UpdateWrite, RegistryTypeOK, Handlers, Locals
<1>2. /\ m \in Row /\ m.version >= 1
      /\ m.def = (IF q.def = NoDefinition THEN q.found.def ELSE q.def)
      /\ m.version = (IF q.def = NoDefinition THEN q.found.version ELSE q.found.version + 1)
  BY <1>1 DEF Merged, NewVersion, Row, Request
<1>3. /\ DOMAIN row' = DOMAIN row /\ row'[w] = m
      /\ \A u \in DOMAIN row \ {w} : row'[u] = row[u]
  BY <1>1 DEF Put
<1>4. /\ request'[c] = Free /\ \A b \in Client \ {c} : request'[b] = request[b]
  BY <1>1 DEF RegistryTypeOK
<1>5. /\ DOMAIN accepted' = DOMAIN accepted \cup {w}
      /\ accepted'[w] = IF w \in DOMAIN accepted THEN Asked(q) ELSE m
      /\ \A u \in DOMAIN accepted \ {w} : accepted'[u] = accepted[u]
  BY <1>1 DEF Accept
<1>6. RegistryTypeOK'
  <2>1. Free \in Request
    BY DEF Free, Request
  <2>2. request' \in [Client -> Request]
    BY <1>1, <2>1 DEF RegistryTypeOK
  <2>. QED
    BY <1>1, <1>2, <1>3, <1>5, <2>2 DEF RegistryTypeOK
<1>7. Handlers'
  BY <1>3, <1>4 DEF Handlers, Locals, Free
<1>8. VersionsAreKeyed'
  BY <1>1, <1>2, <1>3 DEF VersionsAreKeyed
<1>9. Stored(w, m)
  <2>1. CASE q.def = NoDefinition
    <3>1. Stored(w, q.found)
      BY <1>1 DEF CopiesAreStored
    <3>. QED
      BY <1>2, <2>1, <3>1 DEF Stored
  <2>2. CASE q.def # NoDefinition
    BY <1>1, <1>2, <2>2 DEF CopiesAreStored, Stored
  <2>. QED
    BY <2>1, <2>2
<1>10. CopiesAreStored'
  <2>1. \A u, r : Stored(u, r) => Stored(u, r)'
    BY <1>1 DEF Stored
  <2>2. \A u \in DOMAIN row' : Stored(u, row'[u])
    BY <1>3, <1>9 DEF CopiesAreStored
  <2>3. \A u \in DOMAIN row' : Stored(u, row[u])'
    BY <1>1, <2>2 DEF Stored
  <2>4. \A b \in Client : request'[b].pc \in {"insert", "write"}
          => Stored(request[b].workflow, request[b].found)'
    BY <1>1, <1>4 DEF CopiesAreStored, Stored, Free
  <2>5. \A b \in Client : request'[b].pc = "write" => request'[b] = request[b]
    BY <1>4 DEF Free
  <2>. QED
    BY <1>1, <2>3, <2>4, <2>5 DEF CopiesAreStored
<1>11. CreatorsAgree'
  <2>. SUFFICES ASSUME NEW b \in Client, NEW u \in Workflow, Creating(b, u)'
                PROVE  /\ \A d \in Client : Creating(d, u)' => d = b
                       /\ \A v \in versions' : v.workflow = u => v.version # 1
                       /\ row'[u].version = 1 => row'[u].def = request'[b].def
                       /\ \A d \in Client : request'[d].workflow = u /\ request'[d].pc \in {"insert", "write"}
                            /\ request'[d].found.version = 1 => request'[d].found.def = request'[b].def
    BY DEF CreatorsAgree
  <2>1. Creating(b, u) /\ request'[b] = request[b] /\ b # c
    BY <1>4 DEF Creating, Free
  <2>2. m.version = 1 /\ w = u => m.def = request[b].def
    BY <1>1, <1>2, <2>1 DEF CreatorsAgree, Row
  <2>3. row'[u].version = 1 => row'[u].def = request'[b].def
    BY <1>3, <2>1, <2>2 DEF CreatorsAgree, Creating, Handlers, Locals
  <2>. QED
    BY <1>1, <1>4, <2>1, <2>3 DEF CreatorsAgree, Creating, Free
<1>12. OneAtATime'
  BY <1>1, <1>4 DEF OneAtATime, Free
<1>13. w \in DOMAIN accepted /\ w \notin overlapped => Asked(q) = m
  BY <1>1 DEF PromisesKept, Asked, Merged, NewVersion
<1>14. w \notin overlapped => \A b \in Client : request'[b].workflow # w
  BY <1>1, <1>4 DEF OneAtATime, Free
<1>15. PromisesKept'
  BY <1>1, <1>3, <1>4, <1>5, <1>13, <1>14 DEF PromisesKept, Free
<1>. QED
  BY <1>6, <1>7, <1>8, <1>10, <1>11, <1>12, <1>15

LEMMA ArchiveKeeps ==
  ASSUME RegistryInv, Archive
  PROVE  RegistryInv'
<1>. USE RegistryAssumption DEF RegistryInv
<1>1. PICK w \in DOMAIN row :
        /\ edits' = edits + 1 /\ Put(w, [row[w] EXCEPT !.status = "archived"])
        /\ Accept(w, [(IF w \in DOMAIN accepted THEN accepted[w] ELSE row[w]) EXCEPT !.status = "archived"])
        /\ overlapped' = IF Busy(w) THEN overlapped \cup {w} ELSE overlapped
        /\ UNCHANGED <<versions, request, cut, refused>>
  BY DEF Archive
<1>2. w \in Workflow /\ row[w] \in Row
  BY DEF RegistryTypeOK
<1>3. /\ DOMAIN row' = DOMAIN row
      /\ row'[w] = [row[w] EXCEPT !.status = "archived"]
      /\ \A u \in DOMAIN row \ {w} : row'[u] = row[u]
  BY <1>1 DEF Put
<1>4. row'[w] \in Row /\ \A u \in DOMAIN row : row'[u].version = row[u].version /\ row'[u].def = row[u].def
  BY <1>2, <1>3 DEF Row, Status
<1>5. /\ DOMAIN accepted' = DOMAIN accepted \cup {w}
      /\ accepted'[w] = [(IF w \in DOMAIN accepted THEN accepted[w] ELSE row[w]) EXCEPT !.status = "archived"]
      /\ \A u \in DOMAIN accepted \ {w} : accepted'[u] = accepted[u]
  BY <1>1 DEF Accept
<1>6. RegistryTypeOK'
  BY <1>1, <1>2, <1>3, <1>4, <1>5 DEF RegistryTypeOK
<1>7. Handlers'
  BY <1>1, <1>3 DEF Handlers, Locals
<1>8. VersionsAreKeyed'
  BY <1>1, <1>3, <1>4 DEF VersionsAreKeyed
<1>9. CopiesAreStored'
  BY <1>1, <1>3, <1>4 DEF CopiesAreStored, Stored
<1>10. CreatorsAgree'
  BY <1>1, <1>4 DEF CreatorsAgree, Creating, Handlers, Locals
<1>11. OneAtATime'
  BY <1>1 DEF OneAtATime
<1>12. w \notin overlapped' => w \notin overlapped /\ \A b \in Client : request[b].workflow # w
  BY <1>1 DEF Busy
<1>13. PromisesKept'
  BY <1>1, <1>3, <1>5, <1>12 DEF PromisesKept
<1>. QED
  BY <1>6, <1>7, <1>8, <1>9, <1>10, <1>11, <1>13

\* The process dies between two statements.
LEMMA RegistryDeathKeeps ==
  ASSUME RegistryInv, RegistryDies
  PROVE  RegistryInv'
<1>. USE RegistryAssumption DEF RegistryInv, RegistryDies
<1>1. \A c \in Client : request'[c] = Free
  OBVIOUS
<1>2. RegistryTypeOK'
  <2>1. Free \in Request
    BY DEF Free, Request
  <2>2. cut' \subseteq Workflow
    BY DEF HalfDone, Handlers, Locals, RegistryTypeOK
  <2>. QED
    BY <2>1, <2>2 DEF RegistryTypeOK
<1>3. Handlers' /\ CreatorsAgree' /\ OneAtATime'
  BY <1>1 DEF Handlers, Locals, CreatorsAgree, Creating, OneAtATime, Free
<1>4. VersionsAreKeyed'
  BY DEF VersionsAreKeyed
<1>5. CopiesAreStored'
  BY <1>1 DEF CopiesAreStored, Stored, Free
<1>6. PromisesKept'
  BY <1>1 DEF PromisesKept, Free
<1>. QED
  BY <1>2, <1>3, <1>4, <1>5, <1>6

LEMMA RegistryStep == RegistryInv /\ [RegistryNext \/ RegistryDies]_registryVars => RegistryInv'
<1>. SUFFICES ASSUME RegistryInv, [RegistryNext \/ RegistryDies]_registryVars PROVE RegistryInv'
  OBVIOUS
<1>1. ASSUME NEW c \in Client,
             CreateRow(c) \/ CreateVersion(c) \/ UpdateRead(c) \/ UpdateInsert(c) \/ UpdateWrite(c)
      PROVE  RegistryInv'
  BY <1>1, CreateRowKeeps, CreateVersionKeeps, UpdateReadKeeps, UpdateInsertKeeps, UpdateWriteKeeps
<1>2. CASE Archive
  BY <1>2, ArchiveKeeps
<1>3. CASE RegistryDies
  BY <1>3, RegistryDeathKeeps
<1>4. CASE UNCHANGED registryVars
  BY <1>4 DEF registryVars, RegistryInv, RegistryTypeOK, Handlers, Locals, VersionsAreKeyed, CopiesAreStored,
              Stored, CreatorsAgree, Creating, OneAtATime, PromisesKept
<1>. QED
  BY <1>1, <1>2, <1>3, <1>4 DEF RegistryNext

\* What an update of the definition finds, of a workflow whose writes never overlapped:
\* its request has the row in hand, and the next version is free, unless that is the
\* version the request itself has stored, or one that a process left behind.
FoundIsRow ==
  \A w \in DOMAIN row \ overlapped, c \in Client :
    request[c].workflow = w /\ request[c].pc \in {"insert", "write"} => request[c].found = row[w]
Storing(w) == \E c \in Client : request[c].workflow = w /\ HalfDone(request[c])
NewestIsCurrent ==
  \A w \in DOMAIN row \ (overlapped \cup cut), v \in versions : v.workflow = w =>
    v.version <= row[w].version \/ (v.version = row[w].version + 1 /\ Storing(w))
CutIsForGood ==
  \A w \in cut \ overlapped :
    /\ w \in DOMAIN row /\ ~Storing(w)
    /\ \E v \in versions : v.workflow = w /\ v.version = row[w].version + 1
CutInv == FoundIsRow /\ NewestIsCurrent /\ CutIsForGood /\ refused \subseteq overlapped \cup cut

LEMMA CutInitially == RegistryInit => CutInv
<1>. SUFFICES ASSUME RegistryInit PROVE CutInv
  OBVIOUS
<1>1. \A c \in Client : request[c].pc = "idle"
  BY DEF RegistryInit, Free
<1>2. \A v \in versions : v.version = 1
  BY DEF RegistryInit
<1>3. \A w \in DOMAIN row : row[w].version = 1
  BY DEF RegistryInit
<1>. QED
  BY <1>1, <1>2, <1>3 DEF RegistryInit, CutInv, FoundIsRow, NewestIsCurrent, CutIsForGood

\* A request that does not store a version leaves the workflows of the others alone.
LEMMA CutOpens ==
  ASSUME RegistryInv, RegistryInv', CutInv, NEW c \in Client, NEW w \in Workflow, request[c].pc = "idle",
         request'[c].workflow = w, ~HalfDone(request'[c]),
         w \in DOMAIN row', request'[c].pc \in {"insert", "write"} => request'[c].found = row'[w],
         \A b \in Client \ {c} : request'[b] = request[b],
         overlapped' = IF Busy(w) THEN overlapped \cup {w} ELSE overlapped,
         UNCHANGED <<versions, cut, refused>>, DOMAIN row \subseteq DOMAIN row',
         \A u \in DOMAIN row : row'[u] = row[u], DOMAIN row' \subseteq DOMAIN row \cup {w}
  PROVE  CutInv'
<1>. USE DEF RegistryInv, CutInv
<1>1. \A u \in Workflow : Storing(u)' => Storing(u)
  BY DEF Storing
<1>2. \A u \in Workflow : Storing(u) => Storing(u)'
  BY DEF Storing, HalfDone
<1>3. overlapped \subseteq overlapped' /\ (w \notin overlapped' => \A b \in Client : request[b].workflow # w)
  BY DEF Busy
<1>4. FoundIsRow'
  <2>. SUFFICES ASSUME NEW u \in DOMAIN row' \ overlapped', NEW b \in Client,
                       request'[b].workflow = u, request'[b].pc \in {"insert", "write"}
                PROVE  request'[b].found = row'[u]
    BY DEF FoundIsRow
  <2>1. CASE b = c
    BY <2>1
  <2>2. CASE b # c
    <3>1. request'[b] = request[b]
      BY <2>2
    <3>2. u # w
      BY <1>3, <3>1
    <3>3. u \in DOMAIN row \ overlapped
      BY <1>3, <3>2
    <3>. QED
      BY <3>1, <3>3 DEF FoundIsRow
  <2>. QED
    BY <2>1, <2>2
<1>5. NewestIsCurrent'
  <2>. SUFFICES ASSUME NEW u \in DOMAIN row' \ (overlapped' \cup cut'), NEW v \in versions', v.workflow = u
                PROVE  v.version <= row'[u].version \/ (v.version = row'[u].version + 1 /\ Storing(u)')
    BY DEF NewestIsCurrent
  <2>1. u \in DOMAIN row
    BY DEF VersionsAreKeyed
  <2>2. u \in Workflow /\ u \notin overlapped \cup cut /\ row'[u] = row[u] /\ v \in versions
    BY <1>3, <2>1 DEF RegistryTypeOK
  <2>. QED
    BY <1>2, <2>1, <2>2 DEF NewestIsCurrent
<1>6. CutIsForGood'
  <2>. SUFFICES ASSUME NEW u \in cut' \ overlapped'
                PROVE  /\ u \in DOMAIN row' /\ ~Storing(u)'
                       /\ \E v \in versions' : v.workflow = u /\ v.version = row'[u].version + 1
    BY DEF CutIsForGood
  <2>1. u \in cut \ overlapped /\ u \in Workflow
    BY <1>3 DEF RegistryTypeOK
  <2>. QED
    BY <1>1, <2>1 DEF CutIsForGood
<1>. QED
  BY <1>3, <1>4, <1>5, <1>6

LEMMA CutInsert ==
  ASSUME RegistryInv, RegistryInv', CutInv, NEW c \in Client, UpdateInsert(c)
  PROVE  CutInv'
<1>. USE DEF RegistryInv, CutInv
<1>. DEFINE q == request[c]
<1>0. PICK w : w = q.workflow
  OBVIOUS
<1>1. /\ q.pc = "insert" /\ w \in DOMAIN row /\ w \in Workflow /\ q.def \in Definition
      /\ q.def # NoDefinition /\ UNCHANGED <<row, overlapped, cut>> /\ q \in Request
      /\ q.found \in Row
  BY <1>0, RegistryAssumption DEF UpdateInsert, Handlers, Locals, RegistryTypeOK
<1>2. NewVersion(q) = q.found.version + 1 /\ (w \notin overlapped => q.found = row[w])
  BY <1>0, <1>1 DEF NewVersion, FoundIsRow
<1>3. w \notin overlapped => ~Storing(w)
  <2>. SUFFICES ASSUME w \notin overlapped, NEW b \in Client, request[b].workflow = w, HalfDone(request[b])
                PROVE  FALSE
    BY DEF Storing
  <2>1. b = c
    BY <1>0, <1>1 DEF OneAtATime
  <2>. QED
    BY <1>1, <2>1 DEF HalfDone
<1>4. CASE Taken(q) /\ request' = [request EXCEPT ![c] = Free] /\ UNCHANGED versions
           /\ refused' = refused \cup {w}
  <2>1. request'[c] = Free /\ \A b \in Client \ {c} : request'[b] = request[b]
    BY <1>4 DEF RegistryTypeOK
  <2>2. w \in overlapped \cup cut
    <3>. SUFFICES ASSUME w \notin overlapped, w \notin cut PROVE FALSE
      OBVIOUS
    <3>1. PICK v \in versions : v.workflow = w /\ v.version = row[w].version + 1
      BY <1>0, <1>2, <1>4 DEF Taken, VersionsOf
    <3>2. row[w].version \in Nat
      BY <1>1, <1>2 DEF Row
    <3>. QED
      BY <1>1, <1>3, <3>1, <3>2 DEF NewestIsCurrent
  <2>3. \A u \in Workflow : Storing(u)' <=> Storing(u)
    <3>1. ~HalfDone(request[c]) /\ ~HalfDone(request'[c])
      BY <1>1, <2>1 DEF HalfDone, Free
    <3>. QED
      BY <2>1, <3>1 DEF Storing
  <2>4. FoundIsRow'
    BY <1>1, <2>1 DEF FoundIsRow, Free
  <2>5. NewestIsCurrent'
    BY <1>1, <1>4, <2>3 DEF NewestIsCurrent, RegistryTypeOK
  <2>6. CutIsForGood'
    BY <1>1, <1>4, <2>3 DEF CutIsForGood, RegistryTypeOK
  <2>. QED
    BY <1>1, <1>4, <2>2, <2>4, <2>5, <2>6
<1>5. CASE /\ ~Taken(q) /\ request' = [request EXCEPT ![c].pc = "write"] /\ UNCHANGED refused
           /\ versions' = versions \cup {[workflow |-> w, version |-> NewVersion(q), def |-> q.def]}
  <2>1. /\ \A b \in Client \ {c} : request'[b] = request[b]
        /\ request'[c].pc = "write" /\ request'[c].workflow = w /\ request'[c].def = q.def
        /\ request'[c].found = q.found
    BY <1>0, <1>1, <1>5 DEF RegistryTypeOK, Request
  <2>2. Storing(w)'
    BY <1>1, <2>1 DEF Storing, HalfDone
  <2>3. \A u \in Workflow \ {w} : Storing(u)' <=> Storing(u)
    BY <1>0, <2>1 DEF Storing
  <2>4. w \notin cut \ overlapped
    BY <1>0, <1>2, <1>5 DEF CutIsForGood, Taken, VersionsOf
  <2>5. FoundIsRow'
    <3>. SUFFICES ASSUME NEW u \in DOMAIN row \ overlapped, NEW b \in Client,
                         request'[b].workflow = u, request'[b].pc \in {"insert", "write"}
                  PROVE  request'[b].found = row[u]
      BY <1>1 DEF FoundIsRow
    <3>. QED
      BY <1>0, <1>1, <2>1 DEF FoundIsRow
  <2>6. NewestIsCurrent'
    <3>. SUFFICES ASSUME NEW u \in DOMAIN row \ (overlapped \cup cut), NEW v \in versions', v.workflow = u
                  PROVE  v.version <= row[u].version \/ (v.version = row[u].version + 1 /\ Storing(u)')
      BY <1>1 DEF NewestIsCurrent
    <3>0. u \in Workflow
      BY DEF RegistryTypeOK
    <3>1. CASE v \in versions
      <4>1. v.version <= row[u].version \/ (v.version = row[u].version + 1 /\ Storing(u))
        BY <3>1 DEF NewestIsCurrent
      <4>. QED
        BY <2>2, <2>3, <3>0, <4>1
    <3>2. CASE v = [workflow |-> w, version |-> NewVersion(q), def |-> q.def]
      BY <1>2, <2>2, <3>2
    <3>. QED
      BY <1>5, <3>1, <3>2
  <2>7. CutIsForGood'
    <3>. SUFFICES ASSUME NEW u \in cut \ overlapped
                  PROVE  /\ u \in DOMAIN row /\ ~Storing(u)'
                         /\ \E v \in versions' : v.workflow = u /\ v.version = row[u].version + 1
      BY <1>1 DEF CutIsForGood
    <3>1. u \in Workflow /\ u # w
      BY <2>4 DEF RegistryTypeOK
    <3>. QED
      BY <1>5, <2>3, <3>1 DEF CutIsForGood
  <2>. QED
    BY <1>1, <1>5, <2>5, <2>6, <2>7
<1>. QED
  BY <1>0, <1>1, <1>4, <1>5 DEF UpdateInsert

LEMMA CutWrite ==
  ASSUME RegistryInv, RegistryInv', CutInv, NEW c \in Client, UpdateWrite(c)
  PROVE  CutInv'
<1>. USE DEF RegistryInv, CutInv
<1>. DEFINE q == request[c]
<1>0. PICK w : w = q.workflow
  OBVIOUS
<1>1. /\ q.pc = "write" /\ w \in DOMAIN row /\ w \in Workflow /\ q.found \in Row
      /\ UNCHANGED <<versions, overlapped, cut, refused>> /\ Put(w, Merged(q))
      /\ request' = [request EXCEPT ![c] = Free]
  BY <1>0 DEF UpdateWrite, Handlers, Locals, RegistryTypeOK
<1>2. request'[c] = Free /\ \A b \in Client \ {c} : request'[b] = request[b]
  BY <1>1 DEF RegistryTypeOK
<1>3. /\ DOMAIN row' = DOMAIN row /\ row'[w] = Merged(q)
      /\ \A u \in DOMAIN row \ {w} : row'[u] = row[u]
  BY <1>1 DEF Put
<1>4. w \notin overlapped => q.found = row[w] /\ \A b \in Client \ {c} : request[b].workflow # w
  BY <1>0, <1>1 DEF FoundIsRow, OneAtATime
<1>5. /\ HalfDone(q) => Merged(q).version = q.found.version + 1
      /\ ~HalfDone(q) => Merged(q).version = q.found.version
  BY <1>1 DEF HalfDone, Merged, NewVersion
<1>6. \A u \in Workflow \ {w} : Storing(u)' <=> Storing(u)
  <2>1. ~HalfDone(request'[c])
    BY <1>2 DEF HalfDone, Free
  <2>. QED
    BY <1>0, <1>2, <2>1 DEF Storing
<1>7. w \notin overlapped => ~Storing(w)' /\ (Storing(w) => HalfDone(q))
  BY <1>0, <1>2, <1>4 DEF Storing, HalfDone, Free
<1>8. FoundIsRow'
  BY <1>1, <1>2, <1>3, <1>4 DEF FoundIsRow, Free
<1>9. NewestIsCurrent'
  <2>. SUFFICES ASSUME NEW u \in DOMAIN row \ (overlapped \cup cut), NEW v \in versions, v.workflow = u
                PROVE  v.version <= row'[u].version \/ (v.version = row'[u].version + 1 /\ Storing(u)')
    BY <1>1, <1>3 DEF NewestIsCurrent
  <2>1. v.version <= row[u].version \/ (v.version = row[u].version + 1 /\ Storing(u))
    BY DEF NewestIsCurrent
  <2>2. u \in Workflow /\ row[u].version \in Nat /\ v.version \in Nat
    BY DEF RegistryTypeOK, Row, Version
  <2>3. CASE u = w
    BY <1>3, <1>4, <1>5, <1>7, <2>1, <2>2, <2>3
  <2>4. CASE u # w
    BY <1>3, <1>6, <2>1, <2>2, <2>4
  <2>. QED
    BY <2>3, <2>4
<1>10. CutIsForGood'
  <2>. SUFFICES ASSUME NEW u \in cut \ overlapped
                PROVE  /\ u \in DOMAIN row /\ ~Storing(u)'
                       /\ \E v \in versions : v.workflow = u /\ v.version = row'[u].version + 1
    BY <1>1, <1>3 DEF CutIsForGood
  <2>1. u \in Workflow /\ ~Storing(u) /\ u \in DOMAIN row
    BY DEF CutIsForGood, RegistryTypeOK
  <2>2. CASE u = w
    <3>1. ~HalfDone(q)
      BY <1>0, <2>1, <2>2 DEF Storing
    <3>. QED
      BY <1>3, <1>4, <1>5, <1>7, <2>2, <3>1 DEF CutIsForGood
  <2>3. CASE u # w
    BY <1>3, <1>6, <2>1, <2>3 DEF CutIsForGood
  <2>. QED
    BY <2>2, <2>3
<1>. QED
  BY <1>1, <1>8, <1>9, <1>10

LEMMA CutStep ==
  ASSUME RegistryInv, RegistryInv', CutInv, [RegistryNext \/ RegistryDies]_registryVars
  PROVE  CutInv'
<1>. USE DEF RegistryInv, CutInv
<1>1. ASSUME NEW c \in Client, CreateRow(c) PROVE CutInv'
  <2>1. PICK w \in Workflow \ DOMAIN row, d \in Definition, s \in {"draft", "active"} :
          /\ Opens(c, w, [Free EXCEPT !.pc = "version1", !.workflow = w, !.def = d])
          /\ Put(w, [def |-> d, version |-> 1, status |-> s]) /\ UNCHANGED <<versions, accepted>>
    BY <1>1 DEF CreateRow
  <2>2. /\ request[c].pc = "idle" /\ request'[c].pc = "version1" /\ request'[c].workflow = w
        /\ \A b \in Client \ {c} : request'[b] = request[b]
        /\ overlapped' = (IF Busy(w) THEN overlapped \cup {w} ELSE overlapped) /\ UNCHANGED <<cut, refused>>
    BY <2>1 DEF Opens, Free, RegistryTypeOK
  <2>3. DOMAIN row' = DOMAIN row \cup {w} /\ \A u \in DOMAIN row : row'[u] = row[u]
    BY <2>1 DEF Put
  <2>. QED
    BY <2>1, <2>2, <2>3, CutOpens DEF HalfDone
<1>2. ASSUME NEW c \in Client, UpdateRead(c) PROVE CutInv'
  <2>1. PICK w \in DOMAIN row, d \in Definition \cup {NoDefinition}, s \in {"none", "active"} :
          /\ Opens(c, w, [pc |-> IF d = NoDefinition THEN "write" ELSE "insert", workflow |-> w,
                          def |-> d, status |-> s, found |-> row[w]])
          /\ UNCHANGED <<row, versions, accepted>>
    BY <1>2 DEF UpdateRead
  <2>2. /\ request[c].pc = "idle" /\ ~HalfDone(request'[c]) /\ request'[c].workflow = w
        /\ request'[c].found = row[w]
        /\ \A b \in Client \ {c} : request'[b] = request[b]
        /\ overlapped' = (IF Busy(w) THEN overlapped \cup {w} ELSE overlapped) /\ UNCHANGED <<cut, refused>>
    BY <2>1 DEF Opens, HalfDone, RegistryTypeOK
  <2>3. w \in Workflow
    BY DEF RegistryTypeOK
  <2>. QED
    BY <2>1, <2>2, <2>3, CutOpens
<1>3. ASSUME NEW c \in Client, CreateVersion(c) PROVE CutInv'
  <2>. DEFINE w == request[c].workflow
  <2>1. /\ request[c].pc = "version1" /\ request' = [request EXCEPT ![c] = Free]
        /\ versions' = versions \cup {[workflow |-> w, version |-> 1, def |-> request[c].def]}
        /\ UNCHANGED <<row, overlapped, cut, refused>> /\ w \in DOMAIN row
    BY <1>3 DEF CreateVersion, Handlers, Locals
  <2>2. request'[c] = Free /\ \A b \in Client \ {c} : request'[b] = request[b]
    BY <2>1 DEF RegistryTypeOK
  <2>3. \A u : Storing(u)' <=> Storing(u)
    <3>1. ~HalfDone(request[c]) /\ ~HalfDone(request'[c])
      BY <2>1, <2>2 DEF HalfDone, Free
    <3>. QED
      BY <2>2, <3>1 DEF Storing
  <2>4. FoundIsRow'
    BY <2>1, <2>2 DEF FoundIsRow, Free
  <2>5. NewestIsCurrent'
    BY <2>1, <2>3 DEF NewestIsCurrent, VersionsAreKeyed
  <2>6. CutIsForGood'
    BY <2>1, <2>3 DEF CutIsForGood
  <2>. QED
    BY <2>1, <2>4, <2>5, <2>6
<1>4. CASE Archive
  <2>1. PICK w \in DOMAIN row :
          /\ Put(w, [row[w] EXCEPT !.status = "archived"])
          /\ overlapped' = IF Busy(w) THEN overlapped \cup {w} ELSE overlapped
          /\ UNCHANGED <<versions, request, cut, refused>>
    BY <1>4 DEF Archive
  <2>2. /\ DOMAIN row' = DOMAIN row /\ \A u \in DOMAIN row \ {w} : row'[u] = row[u]
        /\ \A u \in DOMAIN row : row'[u].version = row[u].version
    BY <2>1 DEF Put, RegistryTypeOK, Row
  <2>3. overlapped \subseteq overlapped' /\ (w \notin overlapped' => \A b \in Client : request[b].workflow # w)
    BY <2>1 DEF Busy
  <2>4. FoundIsRow'
    BY <2>1, <2>2, <2>3 DEF FoundIsRow
  <2>5. \A u : Storing(u)' <=> Storing(u)
    BY <2>1 DEF Storing
  <2>6. NewestIsCurrent'
    BY <2>1, <2>2, <2>3, <2>5 DEF NewestIsCurrent
  <2>7. CutIsForGood'
    BY <2>1, <2>2, <2>3, <2>5 DEF CutIsForGood
  <2>. QED
    BY <2>1, <2>3, <2>4, <2>6, <2>7
<1>5. CASE RegistryDies
  <2>1. /\ \A c \in Client : request'[c] = Free
        /\ cut' = cut \cup {request[c].workflow : c \in {b \in Client : HalfDone(request[b])}}
        /\ UNCHANGED <<row, versions, overlapped, refused>>
    BY <1>5 DEF RegistryDies
  <2>2. \A u : ~Storing(u)'
    BY <2>1 DEF Storing, HalfDone, Free
  <2>3. \A u : Storing(u) => u \in cut'
    BY <2>1 DEF Storing
  <2>4. FoundIsRow'
    BY <2>1 DEF FoundIsRow, Free
  <2>5. NewestIsCurrent'
    BY <2>1, <2>3 DEF NewestIsCurrent
  <2>6. CutIsForGood'
    <3>. SUFFICES ASSUME NEW u \in cut' \ overlapped
                  PROVE  u \in DOMAIN row /\ \E v \in versions : v.workflow = u /\ v.version = row[u].version + 1
      BY <2>1, <2>2 DEF CutIsForGood
    <3>1. CASE u \in cut
      BY <3>1 DEF CutIsForGood
    <3>2. CASE u \notin cut
      <4>1. PICK c \in Client : u = request[c].workflow /\ HalfDone(request[c])
        BY <2>1, <3>2
      <4>2. u \in DOMAIN row /\ request[c].found = row[u]
        BY <4>1 DEF HalfDone, Handlers, Locals, FoundIsRow
      <4>3. [workflow |-> u, version |-> row[u].version + 1, def |-> request[c].def] \in versions
        BY <4>1, <4>2 DEF HalfDone, CopiesAreStored
      <4>. QED
        BY <4>2, <4>3
    <3>. QED
      BY <3>1, <3>2
  <2>. QED
    BY <2>1, <2>4, <2>5, <2>6
<1>6. CASE UNCHANGED registryVars
  BY <1>6 DEF registryVars, FoundIsRow, NewestIsCurrent, CutIsForGood, Storing
<1>. QED
  BY <1>1, <1>2, <1>3, <1>4, <1>5, <1>6, CutInsert, CutWrite DEF RegistryNext

LEMMA RegistryInvSuffices == RegistryInv => UpdatesAreWhole
<1>. SUFFICES ASSUME RegistryInv PROVE UpdatesAreWhole
  OBVIOUS
<1>1. RowHasItsVersion
  BY DEF RegistryInv, CopiesAreStored, Stored, RowHasItsVersion, VersionsOf
<1>2. AnswersStand
  BY DEF RegistryInv, PromisesKept, AnswersStand
<1>. QED
  BY <1>1, <1>2 DEF UpdatesAreWhole

\* Whatever requests interleave, and wherever the process dies between two statements,
\* a row's definition is the one stored for its version, and a request that was
\* answered is not undone by one that never overlapped it (store.go:76-180).
THEOREM RegistryIsWhole == RegistrySpec => []UpdatesAreWhole
BY RegistryInitially, RegistryStep, RegistryInvSuffices, PTL DEF RegistrySpec

LEMMA CutInvSuffices == CutInv => UpdatesGoThrough
BY DEF CutInv, CutIsForGood, UpdatesGoThrough, VersionsOf

\* A new definition is refused only to requests that overlap, or after a process died
\* between the two writes of an update; and after that always (store.go:145-181).
THEOREM RefusalsHaveReasons == RegistrySpec => []UpdatesGoThrough
<1>1. RegistryInv /\ RegistryInv' /\ CutInv /\ [RegistryNext \/ RegistryDies]_registryVars => CutInv'
  BY CutStep
<1>. QED
  BY <1>1, RegistryInitially, RegistryStep, CutInitially, CutInvSuffices, PTL DEF RegistrySpec
-----------------------------------------------------------------------------
(* The runs. *)

EngineTypes ==
  /\ runs \in Seq(RunRow) /\ work \in Seq(Work) /\ Len(work) = Len(runs)
  /\ orphans \in Seq(Orphan)
  /\ up \in BOOLEAN /\ arrivals \in Nat /\ faults \in Nat /\ crashes \in Nat

\* What the goroutine of a run is doing fits the row of the run. A run whose goroutine
\* is past the slot is not COMPLETED, whoever cancels it meanwhile.
Fits(w, status) ==
  /\ w.left >= 1
  /\ w.pc = "queued" => w.left = Attempts
  /\ w.pc \in Holding => status \in {"RUNNING", "CANCELLED"} /\ w.def \in Definition
  /\ w.pc = "poll" => w.child \in Ids
  /\ w.pc # "none" => up
Working == (\A i \in Ids : Fits(work[i], runs[i].status)) /\ (orphans # <<>> => up)

\* The depth stored with a run counts the runs above it.
DepthsCount ==
  /\ \A i \in Ids : LET p == runs[i].parent
                    IN /\ p < i
                       /\ runs[i].depth = IF p = 0 THEN 0 ELSE 1 + runs[p].depth
                       /\ runs[i].depth <= MaxDepth
  /\ \A o \in DOMAIN orphans : LET p == orphans[o].parent
                               IN /\ p \in Ids
                                  /\ orphans[o].depth = 1 + runs[p].depth
                                  /\ orphans[o].depth <= MaxDepth

\* The children of a run, the rows attempts it abandoned are still about to store, and
\* the attempts it may yet make before the next crash.
Children(i) == {j \in Ids : runs[j].parent = i}
Promised(i) == {o \in DOMAIN orphans : orphans[o].parent = i}
AllowanceOf(w, status) ==
  IF w.pc = "none" THEN IF up /\ status # "WAITING_HUMAN" THEN 0 ELSE Attempts
  ELSE IF w.pc = "poll" THEN w.left - 1 ELSE w.left
Allowance(i) == AllowanceOf(work[i], runs[i].status)
BudgetKept ==
  \A i \in Ids : Cardinality(Children(i)) + Cardinality(Promised(i)) + Allowance(i)
                 <= Attempts * (1 + crashes)

EngineInv == EngineTypes /\ Working /\ DepthsCount /\ BudgetKept
SubWorkflowsInv == RegistryInv /\ EngineInv
-----------------------------------------------------------------------------
(* Rows, counts, and what one step does to them. *)

LEMMA CountsAreNumbers ==
  ASSUME EngineTypes, NEW i
  PROVE  /\ IsFiniteSet(Children(i)) /\ Cardinality(Children(i)) \in Nat
         /\ IsFiniteSet(Promised(i)) /\ Cardinality(Promised(i)) \in Nat
<1>1. IsFiniteSet(1 .. Len(runs)) /\ IsFiniteSet(1 .. Len(orphans))
  BY FS_Interval DEF EngineTypes
<1>2. Children(i) \subseteq 1 .. Len(runs) /\ Promised(i) \subseteq 1 .. Len(orphans)
  BY DEF Children, Promised, Ids, EngineTypes
<1>3. IsFiniteSet(Children(i)) /\ IsFiniteSet(Promised(i))
  BY <1>1, <1>2, FS_Subset
<1>. QED
  BY <1>3, FS_CardinalityType

LEMMA CountsAfter ==
  ASSUME EngineTypes', NEW i
  PROVE  Cardinality(Promised(i)') \in Nat
<1>1. IsFiniteSet(1 .. Len(orphans'))
  BY FS_Interval DEF EngineTypes
<1>2. Promised(i)' \subseteq 1 .. Len(orphans')
  BY DEF Promised, EngineTypes
<1>. QED
  BY <1>1, <1>2, FS_Subset, FS_CardinalityType

LEMMA AttemptsNat == Attempts \in Nat /\ Attempts >= 1 /\ MaxDepth \in Nat
BY SubWorkflowAssumption

LEMMA AllowanceNat ==
  ASSUME EngineTypes, Working, NEW i \in Ids
  PROVE  Allowance(i) \in Nat
<1>1. work[i] \in Work /\ Fits(work[i], runs[i].status)
  BY DEF EngineTypes, Working, Ids
<1>. QED
  BY <1>1, AttemptsNat DEF Fits, Allowance, AllowanceOf, Work

\* A step that stores a row whose parent is i: one child more for i, none for others.
LEMMA ChildAdded ==
  ASSUME EngineTypes, EngineTypes', Len(runs') = Len(runs) + 1,
         \A j \in Ids : runs'[j].parent = runs[j].parent,
         NEW i
  PROVE  Cardinality(Children(i)') =
           Cardinality(Children(i)) + IF runs'[Len(runs) + 1].parent = i THEN 1 ELSE 0
<1>. DEFINE n == Len(runs) + 1
<1>1. n \in Nat /\ n \notin Children(i) /\ IsFiniteSet(Children(i)) /\ Cardinality(Children(i)) \in Nat
  <2>1. n \in Nat /\ n \notin Children(i)
    BY DEF Children, Ids, EngineTypes
  <2>. QED
    BY <2>1, CountsAreNumbers
<1>2. CASE runs'[n].parent = i
  <2>1. Children(i)' = Children(i) \cup {n}
    BY <1>2 DEF Children, Ids, EngineTypes
  <2>2. Cardinality(Children(i) \cup {n}) = Cardinality(Children(i)) + 1
    BY <1>1, FS_AddElement
  <2>. QED
    BY <1>2, <2>1, <2>2
<1>3. CASE runs'[n].parent # i
  <2>1. Children(i)' = Children(i)
    BY <1>3 DEF Children, Ids, EngineTypes
  <2>. QED
    BY <1>1, <1>3, <2>1
<1>. QED
  BY <1>2, <1>3

LEMMA ChildrenKept ==
  ASSUME Len(runs') = Len(runs), \A j \in Ids : runs'[j].parent = runs[j].parent, NEW i
  PROVE  Children(i)' = Children(i)
BY DEF Children, Ids

\* An attempt is abandoned on its way to StartRun.
LEMMA PromiseAdded ==
  ASSUME EngineTypes, NEW o \in Orphan, orphans' = Append(orphans, o), NEW i
  PROVE  Cardinality(Promised(i)') = Cardinality(Promised(i)) + IF o.parent = i THEN 1 ELSE 0
<1>. DEFINE n == Len(orphans) + 1
<1>1. n \in Nat /\ n \notin Promised(i) /\ IsFiniteSet(Promised(i)) /\ Cardinality(Promised(i)) \in Nat
  <2>1. n \in Nat /\ n \notin Promised(i)
    BY DEF Promised, EngineTypes
  <2>. QED
    BY <2>1, CountsAreNumbers
<1>2. /\ DOMAIN orphans' = 1 .. n /\ DOMAIN orphans = 1 .. Len(orphans) /\ Len(orphans) \in Nat
      /\ orphans'[n] = o
      /\ \A k \in 1 .. Len(orphans) : orphans'[k] = orphans[k]
  BY DEF EngineTypes
<1>3. CASE o.parent = i
  <2>1. Promised(i)' = Promised(i) \cup {n}
    BY <1>2, <1>3 DEF Promised
  <2>2. Cardinality(Promised(i) \cup {n}) = Cardinality(Promised(i)) + 1
    BY <1>1, FS_AddElement
  <2>. QED
    BY <1>3, <2>1, <2>2
<1>4. CASE o.parent # i
  <2>1. Promised(i)' = Promised(i)
    BY <1>2, <1>4 DEF Promised
  <2>. QED
    BY <1>1, <1>4, <2>1
<1>. QED
  BY <1>3, <1>4

\* The first of the abandoned attempts arrives: the others move up one place.
LEMMA PromiseTaken ==
  ASSUME EngineTypes, orphans # <<>>, orphans' = Tail(orphans), NEW i
  PROVE  Cardinality(Promised(i)) = Cardinality(Promised(i)') + IF Head(orphans).parent = i THEN 1 ELSE 0
<1>. DEFINE n == Len(orphans)  Rest1 == Promised(i) \ {1}  shift == [k \in Rest1 |-> k - 1]
<1>1. /\ n \in Nat /\ n >= 1 /\ DOMAIN orphans = 1 .. n /\ DOMAIN orphans' = 1 .. n - 1
      /\ \A k \in 1 .. n - 1 : orphans'[k] = orphans[k + 1]
      /\ Head(orphans) = orphans[1]
  BY DEF EngineTypes
<1>2. IsFiniteSet(Promised(i)) /\ Cardinality(Promised(i)) \in Nat
  BY CountsAreNumbers
<1>3. Rest1 = {k \in 2 .. n : orphans[k].parent = i}
  BY <1>1 DEF Promised
<1>4. Promised(i)' = {k \in 1 .. n - 1 : orphans[k + 1].parent = i}
  BY <1>1 DEF Promised
<1>5. shift \in Bijection(Rest1, Promised(i)')
  <2>1. \A k \in Rest1 : shift[k] = k - 1 /\ k - 1 \in Promised(i)'
    BY <1>1, <1>3, <1>4
  <2>2. shift \in [Rest1 -> Promised(i)']
    BY <2>1
  <2>3. \A k \in Rest1, l \in Rest1 : shift[k] = shift[l] => k = l
    BY <1>1, <1>3, <2>1
  <2>4. \A k \in Promised(i)' : k + 1 \in Rest1 /\ shift[k + 1] = k
    BY <1>1, <1>3, <1>4
  <2>5. shift \in Surjection(Rest1, Promised(i)')
    BY <2>2, <2>4 DEF Surjection
  <2>6. shift \in Injection(Rest1, Promised(i)')
    BY <2>2, <2>3 DEF Injection, IsInjective
  <2>. QED
    BY <2>5, <2>6 DEF Bijection
<1>6. IsFiniteSet(Rest1)
  BY <1>2, FS_Subset
<1>7. Cardinality(Promised(i)') = Cardinality(Rest1)
  <2>1. ExistsBijection(Rest1, Promised(i)')
    BY <1>5, Zenon DEF ExistsBijection
  <2>. HIDE DEF Rest1
  <2>. QED
    BY <1>6, <2>1, FS_Bijection
<1>8. Cardinality(Rest1) = IF 1 \in Promised(i) THEN Cardinality(Promised(i)) - 1 ELSE Cardinality(Promised(i))
  BY <1>2, FS_RemoveElement
<1>9. 1 \in Promised(i) <=> Head(orphans).parent = i
  BY <1>1 DEF Promised
<1>. QED
  BY <1>2, <1>7, <1>8, <1>9

RunStatus == {"PENDING", "RUNNING", "WAITING_HUMAN"} \cup Terminal

LEMMA StatusSet ==
  ASSUME EngineTypes, NEW i \in Ids, NEW s \in RunStatus
  PROVE  LET rs == [runs EXCEPT ![i].status = s]
         IN /\ rs \in Seq(RunRow) /\ Len(rs) = Len(runs)
            /\ rs[i].status = s
            /\ \A j \in Ids : rs[j].parent = runs[j].parent /\ rs[j].depth = runs[j].depth
            /\ \A j \in Ids \ {i} : rs[j] = runs[j]
<1>. DEFINE rs == [runs EXCEPT ![i].status = s]
<1>1. /\ runs \in Seq(RunRow) /\ Len(runs) \in Nat /\ Ids = 1 .. Len(runs)
      /\ \A j \in Ids : runs[j] \in RunRow
  BY DEF EngineTypes, Ids
<1>2. [runs[i] EXCEPT !.status = s] \in RunRow
  BY <1>1 DEF RunRow, RunStatus, Terminal
<1>3. rs = [runs EXCEPT ![i] = [runs[i] EXCEPT !.status = s]]
  OBVIOUS
<1>4. rs \in Seq(RunRow) /\ Len(rs) = Len(runs)
  BY <1>1, <1>2, <1>3
<1>5. rs[i] = [runs[i] EXCEPT !.status = s] /\ \A j \in Ids \ {i} : rs[j] = runs[j]
  BY <1>1, <1>3
<1>6. /\ rs[i].status = s /\ rs[i].parent = runs[i].parent /\ rs[i].depth = runs[i].depth
  BY <1>1, <1>5 DEF RunRow
<1>. QED
  BY <1>1, <1>4, <1>5, <1>6

LEMMA WorkSet ==
  ASSUME EngineTypes, NEW i \in Ids, NEW w \in Work
  PROVE  LET ws == [work EXCEPT ![i] = w]
         IN /\ ws \in Seq(Work) /\ Len(ws) = Len(runs)
            /\ ws[i] = w /\ \A j \in Ids \ {i} : ws[j] = work[j]
BY DEF EngineTypes, Ids

\* The tree of runs is the same, and abandoned attempts are where it says.
LEMMA TreeKept ==
  ASSUME EngineTypes, DepthsCount, Len(runs') = Len(runs),
         \A j \in Ids : runs'[j].parent = runs[j].parent /\ runs'[j].depth = runs[j].depth,
         \A o \in DOMAIN orphans' : /\ orphans'[o].parent \in Ids
                                    /\ orphans'[o].depth = 1 + runs[orphans'[o].parent].depth
                                    /\ orphans'[o].depth <= MaxDepth
  PROVE  DepthsCount'
<1>1. Ids' = Ids /\ Ids = 1 .. Len(runs) /\ Len(runs) \in Nat
  BY DEF Ids, EngineTypes
<1>2. \A i \in Ids : runs[i].parent \in Nat
  <2>1. \A i \in Ids : runs[i] \in RunRow
    BY <1>1 DEF EngineTypes
  <2>. QED
    BY <2>1 DEF RunRow
<1>3. ASSUME NEW i \in Ids
      PROVE  LET p == runs'[i].parent
             IN /\ p < i /\ runs'[i].depth = IF p = 0 THEN 0 ELSE 1 + runs'[p].depth
                /\ runs'[i].depth <= MaxDepth
  <2>1. /\ runs[i].parent < i /\ runs[i].depth <= MaxDepth
        /\ runs[i].depth = IF runs[i].parent = 0 THEN 0 ELSE 1 + runs[runs[i].parent].depth
    BY DEF DepthsCount
  <2>2. runs[i].parent # 0 => runs[i].parent \in Ids
    BY <1>1, <1>2, <2>1
  <2>. QED
    BY <2>1, <2>2
<1>. QED
  BY <1>1, <1>3 DEF DepthsCount

\* One row is stored, for a root or for a child of a run that is there.
LEMMA TreeGrows ==
  ASSUME EngineTypes, DepthsCount, Len(runs') = Len(runs) + 1,
         \A j \in Ids : runs'[j].parent = runs[j].parent /\ runs'[j].depth = runs[j].depth,
         NEW r, runs'[Len(runs) + 1] = r, r.parent \in Ids \cup {0},
         r.depth = IF r.parent = 0 THEN 0 ELSE 1 + runs[r.parent].depth, r.depth <= MaxDepth,
         \A o \in DOMAIN orphans' : /\ orphans'[o].parent \in Ids
                                    /\ orphans'[o].depth = 1 + runs[orphans'[o].parent].depth
                                    /\ orphans'[o].depth <= MaxDepth
  PROVE  DepthsCount'
<1>1. Ids' = Ids \cup {Len(runs) + 1} /\ Ids = 1 .. Len(runs) /\ Len(runs) \in Nat
  BY DEF Ids, EngineTypes
<1>2. \A i \in Ids : runs[i].parent \in Nat
  <2>1. \A i \in Ids : runs[i] \in RunRow
    BY <1>1 DEF EngineTypes
  <2>. QED
    BY <2>1 DEF RunRow
<1>3. ASSUME NEW i \in Ids'
      PROVE  LET p == runs'[i].parent
             IN /\ p < i /\ runs'[i].depth = IF p = 0 THEN 0 ELSE 1 + runs'[p].depth
                /\ runs'[i].depth <= MaxDepth
  <2>1. CASE i \in Ids
    <3>1. /\ runs[i].parent < i /\ runs[i].depth <= MaxDepth
          /\ runs[i].depth = IF runs[i].parent = 0 THEN 0 ELSE 1 + runs[runs[i].parent].depth
      BY <2>1 DEF DepthsCount
    <3>2. runs[i].parent # 0 => runs[i].parent \in Ids
      BY <1>1, <1>2, <2>1, <3>1
    <3>. QED
      BY <2>1, <3>1, <3>2
  <2>2. CASE i = Len(runs) + 1
    BY <1>1, <2>2
  <2>. QED
    BY <1>1, <2>1, <2>2
<1>. QED
  BY <1>1, <1>3 DEF DepthsCount

\* The run i moves and its tree does not, and what it adds to the attempts it abandoned
\* it takes from those to come.
LEMMA RunMoves ==
  ASSUME EngineInv, NEW i \in Ids,
         NEW r \in RunRow, r.parent = runs[i].parent, r.depth = runs[i].depth,
         NEW w \in Work, runs' = [runs EXCEPT ![i] = r], work' = [work EXCEPT ![i] = w],
         UNCHANGED <<up, arrivals, crashes>>, faults' \in Nat, Fits(w, r.status),
         orphans' \in Seq(Orphan), orphans' # <<>> => up,
         \A o \in DOMAIN orphans' : /\ orphans'[o].parent \in Ids
                                    /\ orphans'[o].depth = 1 + runs[orphans'[o].parent].depth
                                    /\ orphans'[o].depth <= MaxDepth,
         \A j \in Ids : Cardinality(Promised(j)') + (IF j = i THEN AllowanceOf(w, r.status) ELSE Allowance(j))
                        <= Cardinality(Promised(j)) + Allowance(j)
  PROVE  EngineInv'
<1>1. EngineTypes /\ Working /\ DepthsCount /\ BudgetKept
  BY DEF EngineInv
<1>2. /\ runs' \in Seq(RunRow) /\ Len(runs') = Len(runs) /\ runs'[i] = r
      /\ \A j \in Ids \ {i} : runs'[j] = runs[j]
  BY <1>1 DEF EngineTypes, Ids
<1>3. \A j \in Ids : runs'[j].parent = runs[j].parent /\ runs'[j].depth = runs[j].depth
  BY <1>2
<1>4. /\ work' \in Seq(Work) /\ Len(work') = Len(runs)
      /\ work'[i] = w /\ \A j \in Ids \ {i} : work'[j] = work[j]
  BY <1>1, WorkSet
<1>5. Ids' = Ids
  BY <1>2 DEF Ids
<1>6. EngineTypes'
  BY <1>1, <1>2, <1>4 DEF EngineTypes
<1>7. Working'
  BY <1>1, <1>2, <1>4, <1>5 DEF Working, Fits
<1>8. DepthsCount'
  BY <1>1, <1>2, <1>3, TreeKept
<1>9. BudgetKept'
  <2>1. \A j \in Ids : Children(j)' = Children(j)
    BY <1>2, <1>3, ChildrenKept
  <2>2. \A j \in Ids : Allowance(j)' = IF j = i THEN AllowanceOf(w, r.status) ELSE Allowance(j)
    BY <1>2, <1>4 DEF Allowance, AllowanceOf
  <2>3. \A j \in Ids : Allowance(j) \in Nat
    BY <1>1, AllowanceNat
  <2>4. AllowanceOf(w, r.status) \in Nat
    BY AttemptsNat DEF AllowanceOf, Fits, Work
  <2>5. Attempts * (1 + crashes) \in Nat
    BY <1>1, AttemptsNat DEF EngineTypes
  <2>6. \A j \in Ids : Cardinality(Children(j)) \in Nat /\ Cardinality(Promised(j)) \in Nat
    BY <1>1, CountsAreNumbers
  <2>7. \A j \in Ids : Cardinality(Promised(j)') \in Nat
    BY <1>6, CountsAfter
  <2>8. ASSUME NEW j \in Ids
        PROVE  Cardinality(Children(j)') + Cardinality(Promised(j)') + Allowance(j)' <= Attempts * (1 + crashes)
    <3>1. Cardinality(Children(j)) + Cardinality(Promised(j)) + Allowance(j) <= Attempts * (1 + crashes)
      BY <1>1 DEF BudgetKept
    <3>2. /\ Allowance(j)' \in Nat
          /\ Cardinality(Promised(j)') + Allowance(j)' <= Cardinality(Promised(j)) + Allowance(j)
      BY <2>2, <2>3, <2>4
    <3>3. Children(j)' = Children(j)
      BY <2>1
    <3>. QED
      BY <2>3, <2>5, <2>6, <2>7, <3>1, <3>2, <3>3
  <2>. QED
    BY <1>5, <2>8 DEF BudgetKept
<1>. QED
  BY <1>6, <1>7, <1>8, <1>9 DEF EngineInv

\* The attempts abandoned so far are where the tree says.
LEMMA OrphansKept ==
  ASSUME EngineInv, UNCHANGED orphans
  PROVE  /\ orphans' \in Seq(Orphan) /\ (orphans' # <<>> => up)
         /\ \A o \in DOMAIN orphans' : /\ orphans'[o].parent \in Ids
                                       /\ orphans'[o].depth = 1 + runs[orphans'[o].parent].depth
                                       /\ orphans'[o].depth <= MaxDepth
         /\ \A j \in Ids : Promised(j)' = Promised(j) /\ Cardinality(Promised(j)) \in Nat
<1>1. EngineTypes /\ Working /\ DepthsCount
  BY DEF EngineInv
<1>2. \A j \in Ids : Promised(j)' = Promised(j) /\ Cardinality(Promised(j)) \in Nat
  BY <1>1, CountsAreNumbers DEF Promised
<1>3. orphans' \in Seq(Orphan) /\ (orphans' # <<>> => up)
  BY <1>1 DEF EngineTypes, Working
<1>. QED
  BY <1>1, <1>2, <1>3 DEF DepthsCount

\* The run i moves and nothing else does, without more attempts to come than before.
LEMMA OneRunMoves ==
  ASSUME EngineInv, NEW i \in Ids, NEW s \in RunStatus, NEW w \in Work,
         runs' = [runs EXCEPT ![i].status = s], work' = [work EXCEPT ![i] = w],
         UNCHANGED <<orphans, up, arrivals, crashes>>, faults' \in Nat,
         Fits(w, s), AllowanceOf(w, s) <= Allowance(i)
  PROVE  EngineInv'
<1>1. EngineTypes /\ Working
  BY DEF EngineInv
<1>2. PICK r : r = [runs[i] EXCEPT !.status = s]
  OBVIOUS
<1>3. r \in RunRow /\ r.status = s /\ r.parent = runs[i].parent /\ r.depth = runs[i].depth
  <2>1. runs[i] \in RunRow
    BY <1>1 DEF EngineTypes, Ids
  <2>. QED
    BY <1>2, <2>1 DEF RunRow, RunStatus, Terminal
<1>4. runs' = [runs EXCEPT ![i] = r]
  BY <1>2
<1>5. Fits(w, r.status)
  BY <1>3
<1>6. \A j \in Ids : Cardinality(Promised(j)') + (IF j = i THEN AllowanceOf(w, r.status) ELSE Allowance(j))
                     <= Cardinality(Promised(j)) + Allowance(j)
  <2>1. \A j \in Ids : Promised(j)' = Promised(j) /\ Cardinality(Promised(j)) \in Nat /\ Allowance(j) \in Nat
    BY <1>1, OrphansKept, AllowanceNat
  <2>2. AllowanceOf(w, s) \in Nat
    BY AttemptsNat DEF AllowanceOf, Fits, Work
  <2>. QED
    BY <1>3, <2>1, <2>2
<1>. QED
  BY <1>3, <1>4, <1>5, <1>6, OrphansKept, RunMoves

\* A row is stored and queued, at the cost of an attempt, or of one that was abandoned,
\* if it has a parent.
LEMMA RowStored ==
  ASSUME EngineInv, EngineTypes', NEW n, n = Len(runs) + 1, Len(runs') = Len(runs) + 1,
         \A j \in Ids : runs'[j].parent = runs[j].parent /\ runs'[j].depth = runs[j].depth,
         \A j \in Ids : Fits(work[j], runs[j].status)',
         up, UNCHANGED <<up, crashes>>, work'[n] = Queued,
         NEW r, runs'[n] = r, r.parent \in Ids \cup {0},
         r.depth = IF r.parent = 0 THEN 0 ELSE 1 + runs[r.parent].depth, r.depth <= MaxDepth,
         \A o \in DOMAIN orphans' : \E u \in DOMAIN orphans : orphans'[o] = orphans[u],
         \A j \in Ids : Cardinality(Promised(j)') + Allowance(j)' + (IF r.parent = j THEN 1 ELSE 0)
                        <= Cardinality(Promised(j)) + Allowance(j)
  PROVE  EngineInv'
<1>. USE DEF EngineInv
<1>1. Ids' = Ids \cup {n} /\ Len(runs) \in Nat /\ Ids = 1 .. Len(runs) /\ n \notin Ids /\ n # 0
  BY DEF Ids, EngineTypes
<1>2. Queued.left = Attempts /\ Queued.pc = "queued"
  BY DEF Queued, NoWork
<1>3. Working'
  <2>1. Fits(work[n], runs[n].status)'
    BY <1>2, AttemptsNat DEF Fits, Holding
  <2>. QED
    BY <1>1, <2>1 DEF Working
<1>4. DepthsCount'
  <2>1. \A o \in DOMAIN orphans' : /\ orphans'[o].parent \in Ids
                                   /\ orphans'[o].depth = 1 + runs[orphans'[o].parent].depth
                                   /\ orphans'[o].depth <= MaxDepth
    BY DEF DepthsCount
  <2>. QED
    BY <2>1, TreeGrows
<1>5. Attempts * (1 + crashes) \in Nat /\ Attempts <= Attempts * (1 + crashes)
  BY AttemptsNat DEF EngineTypes
<1>6. \A j : /\ Cardinality(Children(j)) \in Nat /\ Cardinality(Promised(j)) \in Nat
             /\ Cardinality(Promised(j)') \in Nat
  BY CountsAreNumbers, CountsAfter
<1>7. ASSUME NEW j \in Ids
      PROVE  Cardinality(Children(j)') + Cardinality(Promised(j)') + Allowance(j)' <= Attempts * (1 + crashes)
  <2>1. Cardinality(Children(j)') = Cardinality(Children(j)) + IF r.parent = j THEN 1 ELSE 0
    BY ChildAdded
  <2>2. Cardinality(Children(j)) + Cardinality(Promised(j)) + Allowance(j) <= Attempts * (1 + crashes)
    BY DEF BudgetKept
  <2>3. Allowance(j) \in Nat
    BY AllowanceNat
  <2>4. Allowance(j)' \in Nat
    <3>1. work'[j] \in Work /\ Fits(work[j], runs[j].status)'
      BY <1>1 DEF EngineTypes
    <3>. QED
      BY <3>1, AttemptsNat DEF Fits, Allowance, AllowanceOf, Work
  <2>5. r.parent = j => Cardinality(Promised(j)') + Allowance(j)' + 1 <= Cardinality(Promised(j)) + Allowance(j)
    OBVIOUS
  <2>6. r.parent # j => Cardinality(Promised(j)') + Allowance(j)' <= Cardinality(Promised(j)) + Allowance(j)
    BY <1>6, <2>4
  <2>. QED
    BY <1>5, <1>6, <2>1, <2>2, <2>3, <2>4, <2>5, <2>6
<1>8. Cardinality(Children(n)') + Cardinality(Promised(n)') + Allowance(n)' <= Attempts * (1 + crashes)
  <2>1. Children(n) = {}
    <3>1. \A j \in Ids : runs[j].parent < j
      BY DEF DepthsCount
    <3>2. \A j \in Ids : runs[j] \in RunRow
      BY <1>1 DEF EngineTypes
    <3>3. \A j \in Ids : runs[j].parent \in Nat
      BY <3>2 DEF RunRow
    <3>. QED
      BY <1>1, <3>1, <3>3 DEF Children
  <2>2. Cardinality(Children(n)') = 0
    <3>1. Cardinality(Children(n)') = Cardinality(Children(n)) + IF r.parent = n THEN 1 ELSE 0
      BY ChildAdded
    <3>2. r.parent # n
      BY <1>1
    <3>3. Cardinality(Children(n)) = 0
      BY <2>1, FS_EmptySet
    <3>. QED
      BY <3>1, <3>2, <3>3
  <2>3. Promised(n)' = {}
    BY <1>1 DEF Promised, DepthsCount
  <2>4. Cardinality(Promised(n)') = 0
    BY <2>3, FS_EmptySet
  <2>5. Allowance(n)' = Attempts
    BY <1>2 DEF Allowance, AllowanceOf
  <2>. QED
    BY <1>5, <2>2, <2>4, <2>5, AttemptsNat
<1>9. BudgetKept'
  BY <1>1, <1>7, <1>8 DEF BudgetKept
<1>. QED
  BY <1>3, <1>4, <1>9

LEMMA NewRowType ==
  ASSUME NEW w \in Workflow, NEW d \in Nat, NEW p \in Nat
  PROVE  /\ NewRunRow(w, d, p) \in RunRow /\ NewRunRow(w, d, p).parent = p
         /\ NewRunRow(w, d, p).depth = d
BY DEF NewRunRow, RunRow

LEMMA QueuedType == Queued \in Work /\ NoWork \in Work
BY AttemptsNat DEF Queued, NoWork, Work, Holding

LEMMA ArriveKeeps ==
  ASSUME RegistryInv, EngineInv, Arrive
  PROVE  EngineInv'
<1>. USE DEF EngineInv
<1>1. PICK w \in DOMAIN row : runs' = Append(runs, NewRunRow(w, 0, 0)) /\ work' = Append(work, Queued)
  BY DEF Arrive, Started
<1>2. /\ up /\ UNCHANGED <<orphans, up, faults, crashes>> /\ arrivals' = arrivals + 1
  BY DEF Arrive
<1>. DEFINE r == NewRunRow(w, 0, 0)
<1>3. r \in RunRow /\ r.parent = 0 /\ r.depth = 0
  BY NewRowType DEF RegistryInv, RegistryTypeOK
<1>. HIDE DEF r
<1>4. /\ runs' \in Seq(RunRow) /\ Len(runs') = Len(runs) + 1 /\ runs'[Len(runs) + 1] = r
      /\ \A j \in Ids : runs'[j] = runs[j]
  BY <1>1, <1>3 DEF EngineTypes, Ids, r
<1>5. /\ work' \in Seq(Work) /\ Len(work') = Len(runs) + 1 /\ work'[Len(runs) + 1] = Queued
      /\ \A j \in Ids : work'[j] = work[j]
  BY <1>1, QueuedType DEF EngineTypes, Ids
<1>6. EngineTypes'
  BY <1>2, <1>4, <1>5 DEF EngineTypes
<1>7. \A j \in Ids : Fits(work[j], runs[j].status)'
  BY <1>2, <1>4, <1>5 DEF Working, Fits, Ids, EngineTypes
<1>8. \A j \in Ids : Cardinality(Promised(j)') + Allowance(j)' + (IF r.parent = j THEN 1 ELSE 0)
                        <= Cardinality(Promised(j)) + Allowance(j)
  <2>1. \A j \in Ids : j # 0 /\ Promised(j)' = Promised(j)
    BY <1>2 DEF Ids, Promised
  <2>2. \A j \in Ids : Allowance(j)' = Allowance(j)
    BY <1>2, <1>4, <1>5 DEF Allowance, AllowanceOf
  <2>3. \A j \in Ids : Cardinality(Promised(j)) \in Nat /\ Allowance(j) \in Nat
    BY CountsAreNumbers, AllowanceNat
  <2>. QED
    BY <1>3, <2>1, <2>2, <2>3
<1>. QED
  BY <1>2, <1>3, <1>4, <1>5, <1>6, <1>7, <1>8, AttemptsNat, RowStored

LEMMA LateStartKeeps ==
  ASSUME RegistryInv, EngineInv, LateStart
  PROVE  EngineInv'
<1>. USE DEF EngineInv
<1>. DEFINE r == Head(orphans)
<1>1. /\ orphans # <<>> /\ orphans' = Tail(orphans) /\ UNCHANGED <<up, faults, arrivals, crashes>> /\ up
  BY DEF LateStart, EngineOnly, Working
<1>2. /\ orphans \in Seq(Orphan) /\ Len(orphans) >= 1 /\ r = orphans[1] /\ r \in Orphan
      /\ orphans' \in Seq(Orphan)
      /\ \A o \in DOMAIN orphans' : o + 1 \in DOMAIN orphans /\ orphans'[o] = orphans[o + 1]
      /\ 1 \in DOMAIN orphans
  BY <1>1 DEF EngineTypes
<1>3. /\ r.parent \in Ids /\ r.depth = 1 + runs[r.parent].depth /\ r.depth <= MaxDepth
  BY <1>2 DEF DepthsCount
<1>4. \A j : Cardinality(Promised(j)) = Cardinality(Promised(j)') + IF r.parent = j THEN 1 ELSE 0
  BY <1>1, PromiseTaken
<1>5. \A j : /\ Cardinality(Children(j)) \in Nat /\ Cardinality(Promised(j)) \in Nat
  BY CountsAreNumbers
<1>6. \A j \in Ids : Allowance(j) \in Nat
  BY AllowanceNat
<1>7. CASE UNCHANGED <<runs, work>>
  <2>1. EngineTypes'
    BY <1>1, <1>2, <1>7 DEF EngineTypes
  <2>2. Working'
    BY <1>1, <1>7 DEF Working, Fits, Ids
  <2>3. DepthsCount'
    <3>1. \A o \in DOMAIN orphans' : /\ orphans'[o].parent \in Ids
                                     /\ orphans'[o].depth = 1 + runs[orphans'[o].parent].depth
                                     /\ orphans'[o].depth <= MaxDepth
      BY <1>2 DEF DepthsCount
    <3>. QED
      BY <1>7, <3>1, TreeKept
  <2>4. BudgetKept'
    <3>1. \A j : Cardinality(Promised(j)') \in Nat
      BY <2>1, CountsAfter
    <3>2. Ids' = Ids /\ \A j \in Ids : Children(j)' = Children(j) /\ Allowance(j)' = Allowance(j)
      BY <1>1, <1>7 DEF Ids, Children, Allowance, AllowanceOf
    <3>3. ASSUME NEW j \in Ids
          PROVE  Cardinality(Children(j)') + Cardinality(Promised(j)') + Allowance(j)' <= Attempts * (1 + crashes')
      <4>1. Cardinality(Children(j)) + Cardinality(Promised(j)) + Allowance(j) <= Attempts * (1 + crashes)
        BY DEF BudgetKept
      <4>2. Attempts * (1 + crashes) \in Nat
        BY AttemptsNat DEF EngineTypes
      <4>. QED
        BY <1>1, <1>4, <1>5, <1>6, <3>1, <3>2, <4>1, <4>2
    <3>. QED
      BY <3>2, <3>3 DEF BudgetKept
  <2>. QED
    BY <2>1, <2>2, <2>3, <2>4
<1>8. CASE Get(r.workflow) # NoDefinition /\ Started(runs, work, r)
  <2>1. r \in RunRow
    <3>1. r.workflow \in Workflow
      BY <1>8 DEF Get, RegistryInv, RegistryTypeOK
    <3>. QED
      BY <1>2, <3>1 DEF Orphan, RunRow
  <2>. HIDE DEF r
  <2>2. /\ runs' \in Seq(RunRow) /\ Len(runs') = Len(runs) + 1 /\ runs'[Len(runs) + 1] = r
        /\ \A j \in Ids : runs'[j] = runs[j]
    BY <1>8, <2>1 DEF EngineTypes, Ids, Started
  <2>3. /\ work' \in Seq(Work) /\ Len(work') = Len(runs) + 1 /\ work'[Len(runs) + 1] = Queued
        /\ \A j \in Ids : work'[j] = work[j]
    BY <1>8, QueuedType DEF EngineTypes, Ids, Started
  <2>4. EngineTypes'
    BY <1>1, <1>2, <2>2, <2>3 DEF EngineTypes
  <2>5. \A j \in Ids : Fits(work[j], runs[j].status)'
    BY <1>1, <2>2, <2>3 DEF Working, Fits, Ids, EngineTypes
  <2>6. \A j \in Ids : Cardinality(Promised(j)') + Allowance(j)' + (IF r.parent = j THEN 1 ELSE 0)
                          <= Cardinality(Promised(j)) + Allowance(j)
    <3>1. \A j \in Ids : Allowance(j)' = Allowance(j)
      BY <1>1, <2>2, <2>3 DEF Allowance, AllowanceOf
    <3>2. \A j : Cardinality(Promised(j)') \in Nat
      BY <2>4, CountsAfter
    <3>. QED
      BY <1>4, <1>5, <1>6, <3>1, <3>2
  <2>7. r.parent # 0
    BY <1>3 DEF Ids
  <2>. QED
    BY <1>1, <1>2, <1>3, <2>2, <2>3, <2>4, <2>5, <2>6, <2>7, RowStored
<1>. QED
  BY <1>7, <1>8 DEF LateStart

LEMMA SameRow ==
  ASSUME EngineTypes, NEW i \in Ids
  PROVE  /\ runs = [runs EXCEPT ![i].status = runs[i].status] /\ runs[i].status \in RunStatus
         /\ work = [work EXCEPT ![i] = work[i]] /\ work[i] \in Work
<1>1. runs \in Seq(RunRow) /\ work \in Seq(Work) /\ i \in 1 .. Len(runs) /\ i \in 1 .. Len(work)
  BY DEF EngineTypes, Ids
<1>2. runs[i] \in RunRow /\ work[i] \in Work
  BY <1>1
<1>3. runs[i] = [runs[i] EXCEPT !.status = runs[i].status]
  BY <1>2 DEF RunRow
<1>4. runs = [runs EXCEPT ![i] = runs[i]] /\ work = [work EXCEPT ![i] = work[i]]
  BY <1>1
<1>5. runs[i].status \in RunStatus
  BY <1>2 DEF RunRow, RunStatus
<1>. QED
  BY <1>2, <1>3, <1>4, <1>5

\* A run that ends, or that waits for a person, has no attempts to come before a crash
\* or an answer.
LEMMA EndsMoves ==
  ASSUME EngineInv, NEW i \in Ids, NEW s \in Terminal \cup {"WAITING_HUMAN"}, Ends(i, s),
         s = "WAITING_HUMAN" => work[i].pc = "queued",
         UNCHANGED <<orphans, up, arrivals, crashes>>, faults' \in Nat
  PROVE  EngineInv'
<1>. USE DEF EngineInv
<1>1. Fits(NoWork, s)
  BY AttemptsNat DEF Fits, NoWork, Holding
<1>2. Fits(work[i], runs[i].status)
  BY DEF Working
<1>3. AllowanceOf(NoWork, s) <= Allowance(i)
  <2>1. CASE s = "WAITING_HUMAN"
    BY <1>2, <2>1, AttemptsNat DEF AllowanceOf, Allowance, NoWork, Fits
  <2>2. CASE s # "WAITING_HUMAN" /\ up
    BY <2>2, AllowanceNat DEF AllowanceOf, NoWork
  <2>3. CASE ~up
    BY <1>2, <2>3, AttemptsNat DEF AllowanceOf, Allowance, NoWork, Fits
  <2>. QED
    BY <2>1, <2>2, <2>3
<1>4. /\ s \in RunStatus /\ runs' = [runs EXCEPT ![i].status = s] /\ work' = [work EXCEPT ![i] = NoWork]
  BY DEF Ends, RunStatus
<1>. QED
  BY <1>1, <1>3, <1>4, QueuedType, OneRunMoves

\* What remains of an attempt that failed.
LEMMA FailsLeads ==
  ASSUME EngineInv, NEW i \in Ids, work[i].pc \in Holding, Fails(i)
  PROVE  \E s \in RunStatus, w \in Work :
           /\ runs' = [runs EXCEPT ![i].status = s] /\ work' = [work EXCEPT ![i] = w]
           /\ Fits(w, s) /\ w.pc \in {"start", "none"} /\ (w.pc = "none" => s # "WAITING_HUMAN") /\ up
           /\ AllowanceOf(w, s) = work[i].left - 1
<1>. USE DEF EngineInv
<1>1. /\ work[i] \in Work /\ runs[i].status \in RunStatus /\ Fits(work[i], runs[i].status) /\ up
      /\ runs = [runs EXCEPT ![i].status = runs[i].status]
  BY SameRow DEF Working, Fits, Holding
<1>4. work[i].left \in 0 .. Attempts /\ work[i].left >= 1 /\ work[i].def \in Definition \cup {NoDefinition}
  BY <1>1 DEF Work, Fits
<1>2. CASE MoreAttempts(i)
  <2>. DEFINE w == [work[i] EXCEPT !.pc = "start", !.left = @ - 1, !.child = 0]
  <2>5. work[i].left - 1 \in 0 .. Attempts /\ work[i].left - 1 >= 1
    BY <1>2, <1>4, AttemptsNat DEF MoreAttempts
  <2>1. /\ w.pc = "start" /\ w.left = work[i].left - 1 /\ w.def = work[i].def
        /\ w \in Work /\ w.left >= 1
    BY <1>1, <1>4, <2>5 DEF Work, Holding
  <2>2. work' = [work EXCEPT ![i] = w] /\ runs' = runs
    BY <1>2 DEF Fails
  <2>3. Fits(w, runs[i].status)
    BY <1>1, <2>1 DEF Fits, Holding
  <2>4. AllowanceOf(w, runs[i].status) = work[i].left - 1
    BY <2>1 DEF AllowanceOf
  <2>. HIDE DEF w
  <2>. QED
    BY <1>1, <2>1, <2>2, <2>3, <2>4
<1>3. CASE ~MoreAttempts(i)
  <2>1. runs' = [runs EXCEPT ![i].status = "FAILED"] /\ work' = [work EXCEPT ![i] = NoWork]
    BY <1>3 DEF Fails, Ends
  <2>2. "FAILED" \in RunStatus /\ NoWork \in Work /\ NoWork.pc = "none"
    BY QueuedType DEF RunStatus, Terminal, NoWork
  <2>3. Fits(NoWork, "FAILED")
    BY AttemptsNat DEF Fits, NoWork, Holding
  <2>4. work[i].left = 1
    <3>1. ~(work[i].left > 1)
      BY <1>3 DEF MoreAttempts
    <3>. QED
      BY <1>4, <3>1, AttemptsNat
  <2>5. AllowanceOf(NoWork, "FAILED") = work[i].left - 1
    BY <1>1, <2>2, <2>4 DEF AllowanceOf
  <2>. QED
    BY <1>1, <2>1, <2>2, <2>3, <2>5
<1>. QED
  BY <1>2, <1>3

LEMMA FailsKeeps ==
  ASSUME EngineInv, NEW i \in Ids, work[i].pc \in Holding, Fails(i),
         UNCHANGED <<orphans, up, arrivals, crashes>>, faults' \in Nat
  PROVE  EngineInv'
<1>1. PICK s \in RunStatus, w \in Work :
           /\ runs' = [runs EXCEPT ![i].status = s] /\ work' = [work EXCEPT ![i] = w]
           /\ Fits(w, s) /\ AllowanceOf(w, s) = work[i].left - 1
  BY FailsLeads
<1>2. AllowanceOf(w, s) <= Allowance(i)
  <2>1. work[i] \in Work
    BY SameRow DEF EngineInv
  <2>. QED
    BY <1>1, <2>1, AttemptsNat DEF Allowance, AllowanceOf, Holding, Work
<1>. QED
  BY <1>1, <1>2, OneRunMoves

LEMMA PassKeeps ==
  ASSUME RegistryInv, EngineInv, NEW i \in Ids, Pass(i)
  PROVE  EngineInv'
<1>. USE DEF EngineInv
<1>. DEFINE d == Get(runs[i].workflow)
<1>1. /\ work[i].pc = "queued" /\ UNCHANGED <<orphans, up, arrivals, crashes>> /\ faults' \in Nat
  BY DEF Pass, EngineOnly, Fault, EngineTypes
<1>2. /\ work[i] \in Work /\ runs[i].status \in RunStatus /\ Fits(work[i], runs[i].status) /\ up
      /\ runs = [runs EXCEPT ![i].status = runs[i].status]
  BY <1>1, SameRow DEF Working, Fits
<1>3. CASE runs[i].status \in Terminal /\ work' = [work EXCEPT ![i] = NoWork] /\ UNCHANGED runs
  <2>1. Fits(NoWork, runs[i].status) /\ NoWork.pc = "none"
    BY AttemptsNat DEF Fits, NoWork, Holding
  <2>2. AllowanceOf(NoWork, runs[i].status) <= Allowance(i)
    BY <1>2, <1>3, <2>1, AllowanceNat DEF AllowanceOf, Terminal
  <2>. QED
    BY <1>1, <1>2, <1>3, <2>1, <2>2, QueuedType, OneRunMoves
<1>4. CASE Ends(i, "FAILED") \/ Ends(i, "COMPLETED") \/ Ends(i, "WAITING_HUMAN")
  BY <1>1, <1>4, EndsMoves DEF Terminal
<1>5. CASE /\ runs' = [runs EXCEPT ![i].status = "RUNNING"] /\ d # NoDefinition
           /\ work' = [work EXCEPT ![i].pc = "start", ![i].def = d]
           /\ d \in Definition
  <2>. DEFINE w == [work[i] EXCEPT !.pc = "start", !.def = d]
  <2>1. /\ w \in Work /\ w.pc = "start" /\ w.left = work[i].left /\ w.def = d
    BY <1>2, <1>5 DEF Work, Holding
  <2>2. work' = [work EXCEPT ![i] = w]
    BY <1>5
  <2>3. Fits(w, "RUNNING")
    BY <1>2, <1>5, <2>1 DEF Fits
  <2>4. AllowanceOf(w, "RUNNING") <= Allowance(i)
    BY <1>1, <1>2, <2>1 DEF AllowanceOf, Allowance, Work
  <2>5. "RUNNING" \in RunStatus
    BY DEF RunStatus
  <2>. HIDE DEF w
  <2>. QED
    BY <1>1, <1>5, <2>1, <2>2, <2>3, <2>4, <2>5, OneRunMoves
<1>6. d # NoDefinition => d \in Definition
  BY DEF Get, RegistryInv, RegistryTypeOK, Row
<1>. QED
  BY <1>3, <1>4, <1>5, <1>6 DEF Pass

\* What StartRun is asked to store for run i, which is not too deep.
LEMMA ChildType ==
  ASSUME EngineInv, NEW i \in Ids, work[i].pc = "start", ~TooDeep(i)
  PROVE  /\ Child(i).parent = i /\ Child(i).depth = 1 + runs[i].depth /\ Child(i).depth <= MaxDepth
         /\ Child(i) \in Orphan
         /\ work[i].def.callee \in Workflow => Child(i) \in RunRow
<1>1. /\ work[i].def \in Definition /\ runs[i].depth \in Nat /\ i \in Nat
  <2>1. runs[i] \in RunRow /\ i \in Nat /\ Fits(work[i], runs[i].status)
    BY DEF EngineInv, EngineTypes, Working, Ids
  <2>. QED
    BY <2>1 DEF RunRow, Fits, Holding
<1>2. work[i].def.callee \in Workflow \cup {NoWorkflow}
  BY <1>1, SubWorkflowAssumption
<1>3. runs[i].depth + 1 \in Nat /\ runs[i].depth + 1 <= MaxDepth
  BY <1>1, AttemptsNat DEF TooDeep
<1>. QED
  BY <1>1, <1>2, <1>3 DEF Child, ChildDepth, NewRunRow, Orphan, RunRow

\* The child is stored and the step goes on, waiting for it or done.
LEMMA ChildStored ==
  ASSUME RegistryInv, EngineInv, NEW i \in Ids, work[i].pc = "start", ~TooDeep(i),
         Get(work[i].def.callee) # NoDefinition, UNCHANGED <<orphans, up, arrivals, crashes, faults>>,
         NEW s \in RunStatus, NEW w \in Work,
         Started([runs EXCEPT ![i].status = s], [work EXCEPT ![i] = w], Child(i)),
         Fits(w, s)', AllowanceOf(w, s)' + 1 <= Allowance(i), AllowanceOf(w, s)' \in Nat
  PROVE  EngineInv'
<1>. DEFINE rs == [runs EXCEPT ![i].status = s]  ws == [work EXCEPT ![i] = w]  r == Child(i)
<1>1. EngineTypes /\ Working /\ DepthsCount /\ BudgetKept
  BY DEF EngineInv
<1>2. /\ rs \in Seq(RunRow) /\ Len(rs) = Len(runs) /\ rs[i].status = s
      /\ \A j \in Ids : rs[j].parent = runs[j].parent /\ rs[j].depth = runs[j].depth
      /\ \A j \in Ids \ {i} : rs[j] = runs[j]
  BY <1>1, StatusSet
<1>3. /\ ws \in Seq(Work) /\ Len(ws) = Len(runs)
      /\ ws[i] = w /\ \A j \in Ids \ {i} : ws[j] = work[j]
  BY <1>1, WorkSet
<1>4. /\ r \in RunRow /\ r.parent = i /\ r.depth = 1 + runs[i].depth /\ r.depth <= MaxDepth /\ i # 0
  <2>1. work[i].def.callee \in Workflow
    BY DEF Get, RegistryInv, RegistryTypeOK
  <2>. QED
    BY <2>1, ChildType DEF Ids
<1>5. runs' = Append(rs, r) /\ work' = Append(ws, Queued) /\ Ids = 1 .. Len(runs) /\ Len(runs) \in Nat
  BY <1>1 DEF Started, Ids, EngineTypes
<1>. HIDE DEF rs, ws, r
<1>6. PICK n : n = Len(runs) + 1
  OBVIOUS
<1>7. /\ runs' \in Seq(RunRow) /\ Len(runs') = n /\ runs'[n] = r
      /\ \A j \in Ids : runs'[j] = rs[j]
  BY <1>2, <1>4, <1>5, <1>6
<1>8. /\ work' \in Seq(Work) /\ Len(work') = n /\ work'[n] = Queued
      /\ \A j \in Ids : work'[j] = ws[j]
  BY <1>3, <1>5, <1>6, QueuedType
<1>9. EngineTypes'
  BY <1>1, <1>7, <1>8 DEF EngineTypes
<1>10. \A j \in Ids : runs'[j].parent = runs[j].parent /\ runs'[j].depth = runs[j].depth
  BY <1>2, <1>7
<1>11. Ids \subseteq Ids'
  BY <1>5, <1>6, <1>7 DEF Ids
<1>12. \A j \in Ids : Fits(work[j], runs[j].status)'
  <2>1. Fits(work[i], runs[i].status)'
    BY <1>2, <1>3, <1>7, <1>8 DEF Fits
  <2>2. ASSUME NEW j \in Ids \ {i} PROVE Fits(work[j], runs[j].status)'
    <3>1. work'[j] = work[j] /\ runs'[j] = runs[j] /\ Fits(work[j], runs[j].status)
      BY <1>1, <1>2, <1>3, <1>7, <1>8 DEF Working
    <3>. QED
      BY <1>11, <3>1 DEF Fits
  <2>. QED
    BY <2>1, <2>2
<1>13. \A j \in Ids : Cardinality(Promised(j)') + Allowance(j)' + (IF r.parent = j THEN 1 ELSE 0)
                      <= Cardinality(Promised(j)) + Allowance(j)
  <2>1. \A j \in Ids : Promised(j)' = Promised(j) /\ Cardinality(Promised(j)) \in Nat /\ Allowance(j) \in Nat
    BY <1>1, CountsAreNumbers, AllowanceNat DEF Promised
  <2>2. Allowance(i)' + 1 <= Allowance(i) /\ Allowance(i)' \in Nat
    BY <1>2, <1>3, <1>7, <1>8 DEF Allowance, AllowanceOf
  <2>3. \A j \in Ids \ {i} : Allowance(j)' = Allowance(j)
    BY <1>2, <1>3, <1>7, <1>8 DEF Allowance, AllowanceOf
  <2>4. ASSUME NEW j \in Ids
        PROVE  Cardinality(Promised(j)') + Allowance(j)' + (IF r.parent = j THEN 1 ELSE 0)
                      <= Cardinality(Promised(j)) + Allowance(j)
    BY <1>4, <2>1, <2>2, <2>3
  <2>. QED
    BY <2>4
<1>14. \A o \in DOMAIN orphans' : \E u \in DOMAIN orphans : orphans'[o] = orphans[u]
  OBVIOUS
<1>15. up
  BY <1>1 DEF Working, Fits
<1>16. r.parent \in Ids \cup {0} /\ r.depth = IF r.parent = 0 THEN 0 ELSE 1 + runs[r.parent].depth
  BY <1>4
<1>. QED
  BY <1>4, <1>6, <1>7, <1>8, <1>9, <1>10, <1>12, <1>13, <1>14, <1>15, <1>16, RowStored

LEMMA StartKeeps ==
  ASSUME RegistryInv, EngineInv, NEW i \in Ids, Start(i)
  PROVE  EngineInv'
<1>1. work[i].pc = "start" /\ UNCHANGED <<orphans, up, arrivals, crashes>> /\ faults' \in Nat
  BY DEF Start, EngineOnly, Fault, EngineInv, EngineTypes
<1>2. /\ work[i] \in Work /\ runs[i].status \in RunStatus /\ Fits(work[i], runs[i].status) /\ up
      /\ runs = [runs EXCEPT ![i].status = runs[i].status]
      /\ EngineTypes /\ Len(runs) \in Nat
  BY <1>1, SameRow DEF EngineInv, EngineTypes, Working, Fits
<1>3. work[i].left \in Nat /\ work[i].left >= 1 /\ Allowance(i) = work[i].left
      /\ runs[i].status \in {"RUNNING", "CANCELLED"}
  BY <1>1, <1>2 DEF Work, Fits, Allowance, AllowanceOf, Holding
<1>4. CASE Ends(i, "FAILED")
  BY <1>1, <1>4, EndsMoves DEF Terminal
<1>5. CASE Fails(i)
  BY <1>1, <1>5, FailsKeeps DEF Holding
<1>6. CASE /\ ~TooDeep(i) /\ Get(work[i].def.callee) # NoDefinition /\ UNCHANGED faults
           /\ work[i].def.kind = "sync"
           /\ Started([runs EXCEPT ![i].status = runs[i].status],
                      [work EXCEPT ![i] = [work[i] EXCEPT !.pc = "poll", !.child = Len(runs) + 1]], Child(i))
  <2>1. PICK w : w = [work[i] EXCEPT !.pc = "poll", !.child = Len(runs) + 1]
    OBVIOUS
  <2>2. PICK s \in RunStatus : s = runs[i].status
    BY <1>2
  <2>3. /\ w \in Work /\ w.pc = "poll" /\ w.left = work[i].left /\ w.child = Len(runs) + 1
        /\ w.def = work[i].def /\ w.def \in Definition
    <3>1. Len(runs) + 1 \in Nat
      BY <1>2
    <3>. QED
      BY <1>1, <1>2, <2>1, <3>1 DEF Work, Holding, Fits
  <2>4. Started([runs EXCEPT ![i].status = s], [work EXCEPT ![i] = w], Child(i))
    BY <1>6, <2>1, <2>2
  <2>5. Len(runs') = Len(runs) + 1
    BY <1>2, <1>6, StatusSet DEF Started
  <2>6. Fits(w, s)'
    BY <1>1, <1>2, <1>3, <2>2, <2>3, <2>5 DEF Fits, Ids, Holding
  <2>7. AllowanceOf(w, s)' = work[i].left - 1
    BY <2>3 DEF AllowanceOf
  <2>8. AllowanceOf(w, s)' + 1 <= Allowance(i) /\ AllowanceOf(w, s)' \in Nat
    BY <1>3, <2>7
  <2>. QED
    BY <1>1, <1>6, <2>3, <2>4, <2>6, <2>8, ChildStored
<1>7. CASE /\ ~TooDeep(i) /\ Get(work[i].def.callee) # NoDefinition /\ UNCHANGED faults
           /\ Started([runs EXCEPT ![i].status = "COMPLETED"], [work EXCEPT ![i] = NoWork], Child(i))
  <2>1. NoWork.pc = "none" /\ "COMPLETED" \in RunStatus /\ NoWork.left = Attempts
    BY DEF NoWork, RunStatus, Terminal
  <2>2. Fits(NoWork, "COMPLETED")'
    BY <2>1, AttemptsNat DEF Fits, Holding
  <2>3. AllowanceOf(NoWork, "COMPLETED")' = 0
    BY <1>1, <1>2, <2>1 DEF AllowanceOf
  <2>4. AllowanceOf(NoWork, "COMPLETED")' + 1 <= Allowance(i) /\ AllowanceOf(NoWork, "COMPLETED")' \in Nat
    BY <1>3, <2>3
  <2>. QED
    BY <1>1, <1>7, <2>1, <2>2, <2>4, QueuedType, ChildStored
<1>. QED
  <2>1. [runs EXCEPT ![i].status = @] = [runs EXCEPT ![i].status = runs[i].status]
    OBVIOUS
  <2>. QED
    BY <1>4, <1>5, <1>6, <1>7, <2>1, Zenon DEF Start

LEMMA PollKeeps ==
  ASSUME EngineInv, NEW i \in Ids, Poll(i)
  PROVE  EngineInv'
<1>1. work[i].pc = "poll" /\ UNCHANGED <<orphans, up, arrivals, crashes>> /\ faults' \in Nat
  BY DEF Poll, Fault, EngineOnly, EngineInv, EngineTypes
<1>2. CASE Ends(i, "COMPLETED")
  BY <1>1, <1>2, EndsMoves DEF Terminal
<1>3. CASE Fails(i)
  BY <1>1, <1>3, FailsKeeps DEF Holding
<1>. QED
  BY <1>2, <1>3 DEF Poll

\* An attempt given up on its way to StartRun is a promise of a child in its place.
LEMMA GiveUpKeeps ==
  ASSUME EngineInv, NEW i \in Ids, GiveUp(i)
  PROVE  EngineInv'
<1>1. Fails(i) /\ UNCHANGED <<up, arrivals, crashes>> /\ faults' \in Nat
  BY DEF GiveUp, EngineOnly, EngineInv, EngineTypes
<1>2. CASE Deadline(i) /\ UNCHANGED orphans
  BY <1>1, <1>2, FailsKeeps DEF Deadline, Holding
<1>3. CASE work[i].pc = "start" /\ ~TooDeep(i) /\ orphans' = Append(orphans, Child(i))
  <2>1. EngineTypes /\ Working /\ DepthsCount
    BY DEF EngineInv
  <2>2. PICK s \in RunStatus, w \in Work :
           /\ runs' = [runs EXCEPT ![i].status = s] /\ work' = [work EXCEPT ![i] = w]
           /\ Fits(w, s) /\ up /\ AllowanceOf(w, s) = work[i].left - 1
    BY <1>1, <1>3, FailsLeads DEF Holding
  <2>3. PICK o \in Orphan : o = Child(i)
    BY <1>3, ChildType
  <2>4. o.parent = i /\ o.depth = 1 + runs[i].depth /\ o.depth <= MaxDepth
    BY <1>3, <2>3, ChildType
  <2>5. PICK r : r = [runs[i] EXCEPT !.status = s]
    OBVIOUS
  <2>6. r \in RunRow /\ r.status = s /\ r.parent = runs[i].parent /\ r.depth = runs[i].depth
    <3>1. runs[i] \in RunRow
      BY <2>1 DEF EngineTypes, Ids
    <3>. QED
      BY <2>5, <3>1 DEF RunRow, RunStatus, Terminal
  <2>7. runs' = [runs EXCEPT ![i] = r]
    BY <2>2, <2>5
  <2>8. orphans' = Append(orphans, o)
    BY <1>3, <2>3
  <2>9. orphans' \in Seq(Orphan)
    BY <2>1, <2>8 DEF EngineTypes
  <2>10. \A u \in DOMAIN orphans' : /\ orphans'[u].parent \in Ids
                                     /\ orphans'[u].depth = 1 + runs[orphans'[u].parent].depth
                                     /\ orphans'[u].depth <= MaxDepth
    <3>1. /\ DOMAIN orphans' = 1 .. Len(orphans) + 1 /\ DOMAIN orphans = 1 .. Len(orphans)
          /\ Len(orphans) \in Nat /\ orphans'[Len(orphans) + 1] = o
          /\ \A u \in 1 .. Len(orphans) : orphans'[u] = orphans[u]
      BY <2>1, <2>8 DEF EngineTypes
    <3>. QED
      BY <2>1, <2>4, <3>1 DEF DepthsCount
  <2>11. \A j \in Ids : Cardinality(Promised(j)') + (IF j = i THEN AllowanceOf(w, r.status) ELSE Allowance(j))
                        <= Cardinality(Promised(j)) + Allowance(j)
    <3>1. \A j \in Ids : Cardinality(Promised(j)') = Cardinality(Promised(j)) + IF j = i THEN 1 ELSE 0
      BY <2>1, <2>4, <2>8, PromiseAdded
    <3>2. \A j \in Ids : Cardinality(Promised(j)) \in Nat /\ Allowance(j) \in Nat
      BY <2>1, CountsAreNumbers, AllowanceNat
    <3>3. Allowance(i) = work[i].left
      BY <1>3 DEF Allowance, AllowanceOf
    <3>. QED
      BY <2>2, <2>6, <3>1, <3>2, <3>3
  <2>12. Fits(w, r.status) /\ (orphans' # <<>> => up)
    BY <2>2, <2>6
  <2>. QED
    BY <1>1, <2>2, <2>6, <2>7, <2>9, <2>10, <2>11, <2>12, RunMoves
<1>. QED
  BY <1>2, <1>3 DEF GiveUp

LEMMA AnswerKeeps ==
  ASSUME EngineInv, NEW i \in Ids, Answer(i)
  PROVE  EngineInv'
<1>1. EngineTypes /\ Working
  BY DEF EngineInv
<1>2. /\ up /\ runs[i].status = "WAITING_HUMAN" /\ UNCHANGED <<orphans, up, arrivals, crashes, faults>>
      /\ runs' = [runs EXCEPT ![i].status = "RUNNING", ![i].answered = TRUE]
      /\ work' = [work EXCEPT ![i] = Queued]
  BY DEF Answer, EngineOnly
<1>3. PICK r : r = [runs[i] EXCEPT !.status = "RUNNING", !.answered = TRUE]
  OBVIOUS
<1>4. r \in RunRow /\ r.status = "RUNNING" /\ r.parent = runs[i].parent /\ r.depth = runs[i].depth
  <2>1. runs[i] \in RunRow
    BY <1>1 DEF EngineTypes, Ids
  <2>. QED
    BY <1>3, <2>1 DEF RunRow
<1>5. runs' = [runs EXCEPT ![i] = r]
  BY <1>2, <1>3
<1>6. Queued.pc = "queued" /\ Queued.left = Attempts
  BY DEF Queued, NoWork
<1>7. Fits(Queued, r.status)
  BY <1>2, <1>6, AttemptsNat DEF Fits, Holding
<1>8. Allowance(i) = Attempts /\ AllowanceOf(Queued, r.status) = Attempts
  <2>1. work[i] \in Work /\ Fits(work[i], runs[i].status)
    BY <1>1 DEF EngineTypes, Working, Ids
  <2>. QED
    BY <1>2, <1>6, <2>1 DEF Allowance, AllowanceOf, Fits, Holding, Work
<1>9. \A j \in Ids : Cardinality(Promised(j)') + (IF j = i THEN AllowanceOf(Queued, r.status) ELSE Allowance(j))
                     <= Cardinality(Promised(j)) + Allowance(j)
  <2>1. \A j \in Ids : Promised(j)' = Promised(j) /\ Cardinality(Promised(j)) \in Nat /\ Allowance(j) \in Nat
    BY <1>1, <1>2, OrphansKept, AllowanceNat
  <2>. QED
    BY <1>8, <2>1
<1>10. faults' \in Nat
  BY <1>1, <1>2 DEF EngineTypes
<1>. QED
  BY <1>2, <1>4, <1>5, <1>7, <1>9, <1>10, QueuedType, OrphansKept, RunMoves

LEMMA CancelKeeps ==
  ASSUME EngineInv, NEW i \in Ids, Cancel(i)
  PROVE  EngineInv'
<1>1. EngineTypes /\ Working
  BY DEF EngineInv
<1>2. /\ up /\ UNCHANGED <<work, orphans, up, arrivals, crashes>> /\ faults' \in Nat
      /\ runs' = [runs EXCEPT ![i].status = "CANCELLED"]
  BY <1>1 DEF Cancel, EngineOnly, Fault, EngineTypes
<1>3. work' = [work EXCEPT ![i] = work[i]] /\ work[i] \in Work /\ Fits(work[i], runs[i].status)
  BY <1>1, <1>2, SameRow DEF Working
<1>4. Fits(work[i], "CANCELLED") /\ "CANCELLED" \in RunStatus
  BY <1>3 DEF Fits, RunStatus, Terminal
<1>5. AllowanceOf(work[i], "CANCELLED") <= Allowance(i)
  BY <1>2, <1>3, AttemptsNat DEF AllowanceOf, Allowance, Work, Fits
<1>. QED
  BY <1>2, <1>3, <1>4, <1>5, OneRunMoves

\* The process dies: what it owed is lost, and every run may make its attempts again.
LEMMA CrashKeeps ==
  ASSUME EngineInv, Crash
  PROVE  EngineInv'
<1>1. EngineTypes /\ Working /\ DepthsCount /\ BudgetKept
  BY DEF EngineInv
<1>2. /\ runs' = runs /\ arrivals' = arrivals /\ crashes' = crashes + 1 /\ faults' \in Nat
      /\ up' = FALSE /\ work' = [i \in Ids |-> NoWork] /\ orphans' = <<>>
  BY <1>1 DEF Crash, Fault, EngineTypes
<1>3. Ids' = Ids /\ Ids = 1 .. Len(runs) /\ Len(runs) \in Nat
  BY <1>1, <1>2 DEF Ids, EngineTypes
<1>4. work' \in Seq(Work) /\ Len(work') = Len(runs) /\ \A i \in Ids : work'[i] = NoWork
  BY <1>2, <1>3, QueuedType
<1>5. EngineTypes'
  <2>1. orphans' \in Seq(Orphan)
    BY <1>2
  <2>2. /\ runs' \in Seq(RunRow) /\ Len(runs') = Len(runs)
        /\ up' \in BOOLEAN /\ arrivals' \in Nat /\ faults' \in Nat /\ crashes' \in Nat
    <3>1. runs \in Seq(RunRow) /\ arrivals \in Nat /\ crashes \in Nat
      BY <1>1 DEF EngineTypes
    <3>2. runs' = runs /\ arrivals' = arrivals /\ crashes' = crashes + 1 /\ faults' \in Nat /\ up' = FALSE
      BY <1>2
    <3>3. up' \in BOOLEAN
      BY <3>2, Zenon
    <3>4. crashes' \in Nat
      BY <3>1, <3>2
    <3>. QED
      BY <3>1, <3>2, <3>3, <3>4, Zenon
  <2>3. work' \in Seq(Work) /\ Len(work') = Len(runs')
    BY <1>4, <2>2
  <2>. QED
    BY <2>1, <2>2, <2>3, Zenon DEF EngineTypes
<1>6. NoWork.pc = "none" /\ NoWork.left = Attempts
  BY DEF NoWork
<1>7. Working'
  BY <1>2, <1>3, <1>4, <1>6, AttemptsNat DEF Working, Fits, Holding
<1>8. DepthsCount'
  BY <1>1, <1>2, <1>3, TreeKept
<1>9. BudgetKept'
  <2>1. \A i \in Ids : Children(i)' = Children(i)
    BY <1>2, ChildrenKept
  <2>2. \A i \in Ids : Promised(i)' = {}
    BY <1>2 DEF Promised
  <2>3. \A i \in Ids : Allowance(i)' = Attempts
    BY <1>2, <1>4, <1>6 DEF Allowance, AllowanceOf
  <2>4. \A i \in Ids : /\ Cardinality(Children(i)) \in Nat /\ Cardinality(Promised(i)) \in Nat
                       /\ Allowance(i) \in Nat
    BY <1>1, CountsAreNumbers, AllowanceNat
  <2>5. /\ Attempts * (1 + crashes') = Attempts * (1 + crashes) + Attempts
        /\ Attempts * (1 + crashes) \in Nat
    BY <1>1, <1>2, AttemptsNat DEF EngineTypes
  <2>6. ASSUME NEW i \in Ids
        PROVE  Cardinality(Children(i)') + Cardinality(Promised(i)') + Allowance(i)' <= Attempts * (1 + crashes')
    <3>1. Cardinality(Children(i)) + Cardinality(Promised(i)) + Allowance(i) <= Attempts * (1 + crashes)
      BY <1>1 DEF BudgetKept
    <3>2. Cardinality(Promised(i)') = 0
      BY <2>2, FS_EmptySet
    <3>. QED
      BY <2>1, <2>3, <2>4, <2>5, <3>1, <3>2, AttemptsNat
  <2>. QED
    BY <1>3, <2>6 DEF BudgetKept
<1>. QED
  BY <1>5, <1>7, <1>8, <1>9 DEF EngineInv

\* The runs in flight are queued again, with the attempts the crash gave them.
LEMMA RestartKeeps ==
  ASSUME EngineInv, Restart
  PROVE  EngineInv'
<1>1. EngineTypes /\ Working /\ DepthsCount /\ BudgetKept
  BY DEF EngineInv
<1>2. /\ UNCHANGED <<runs, orphans, arrivals, faults, crashes>> /\ up = FALSE /\ up' = TRUE
      /\ work' = [i \in Ids |-> IF i \in InFlight /\ ~PassedOver(i) THEN Queued ELSE NoWork]
  BY <1>1 DEF Restart, EngineTypes
<1>3. Ids' = Ids /\ Ids = 1 .. Len(runs) /\ Len(runs) \in Nat
  BY <1>1, <1>2 DEF Ids, EngineTypes
<1>4. /\ work' \in Seq(Work) /\ Len(work') = Len(runs)
      /\ \A i \in Ids : work'[i] \in {Queued, NoWork}
  BY <1>2, <1>3, QueuedType
<1>5. EngineTypes'
  BY <1>1, <1>2, <1>4 DEF EngineTypes
<1>6. NoWork.pc = "none" /\ NoWork.left = Attempts /\ Queued.pc = "queued" /\ Queued.left = Attempts
  BY DEF NoWork, Queued
<1>7. Working'
  BY <1>2, <1>3, <1>4, <1>6, AttemptsNat DEF Working, Fits, Holding
<1>8. DepthsCount'
  BY <1>1, <1>2, <1>3, TreeKept DEF DepthsCount
<1>9. BudgetKept'
  <2>1. \A i \in Ids : Children(i)' = Children(i) /\ Promised(i)' = Promised(i)
    BY <1>2, ChildrenKept DEF Promised
  <2>2. \A i \in Ids : Allowance(i) = Attempts
    BY <1>1, <1>2 DEF Working, Fits, Allowance, AllowanceOf
  <2>3. \A i \in Ids : Allowance(i)' \in {0, Attempts}
    BY <1>2, <1>4, <1>6 DEF Allowance, AllowanceOf
  <2>4. \A i \in Ids : Cardinality(Children(i)) \in Nat /\ Cardinality(Promised(i)) \in Nat
    BY <1>1, CountsAreNumbers
  <2>5. Attempts * (1 + crashes) \in Nat /\ crashes' = crashes
    BY <1>1, <1>2, AttemptsNat DEF EngineTypes
  <2>6. ASSUME NEW i \in Ids
        PROVE  Cardinality(Children(i)') + Cardinality(Promised(i)') + Allowance(i)' <= Attempts * (1 + crashes')
    <3>1. Cardinality(Children(i)) + Cardinality(Promised(i)) + Allowance(i) <= Attempts * (1 + crashes)
      BY <1>1 DEF BudgetKept
    <3>2. Children(i)' = Children(i) /\ Promised(i)' = Promised(i)
      BY <2>1
    <3>. QED
      BY <2>2, <2>3, <2>4, <2>5, <3>1, <3>2, AttemptsNat
  <2>. QED
    BY <1>3, <2>6 DEF BudgetKept
<1>. QED
  BY <1>5, <1>7, <1>8, <1>9 DEF EngineInv
-----------------------------------------------------------------------------
(* The system. *)

LEMMA SubWorkflowsInit == Init => SubWorkflowsInv
<1>. SUFFICES ASSUME Init PROVE SubWorkflowsInv
  OBVIOUS
<1>1. RegistryInv
  BY RegistryInitially DEF Init
<1>2. /\ runs = <<>> /\ work = <<>> /\ orphans = <<>> /\ up = TRUE
      /\ arrivals = 0 /\ faults = 0 /\ crashes = 0
  BY DEF Init
<1>3. Ids = {} /\ DOMAIN orphans = {}
  BY <1>2 DEF Ids
<1>4. EngineTypes
  <2>1. runs \in Seq(RunRow) /\ work \in Seq(Work) /\ orphans \in Seq(Orphan)
    BY <1>2
  <2>. QED
    BY <1>2, <2>1 DEF EngineTypes
<1>5. Working /\ DepthsCount /\ BudgetKept
  BY <1>2, <1>3 DEF Working, DepthsCount, BudgetKept
<1>. QED
  BY <1>1, <1>4, <1>5 DEF SubWorkflowsInv, EngineInv

\* Each step of the system is one of the registry's or leaves the registry alone.
LEMMA RegistryFollows == [Next]_vars => [RegistryNext \/ RegistryDies]_registryVars
<1>. SUFFICES ASSUME [Next]_vars PROVE [RegistryNext \/ RegistryDies]_registryVars
  OBVIOUS
<1>1. ASSUME NEW i \in Ids, Pass(i) \/ Start(i) \/ Poll(i) \/ GiveUp(i) \/ Answer(i) \/ Cancel(i)
      PROVE  UNCHANGED registryVars
  BY <1>1 DEF Pass, Start, Poll, GiveUp, Answer, Cancel, EngineOnly
<1>2. CASE Arrive \/ LateStart \/ Restart
  BY <1>2 DEF Arrive, LateStart, Restart, EngineOnly
<1>3. CASE Crash
  BY <1>3 DEF Crash
<1>4. CASE RegistryNext \/ UNCHANGED vars
  BY <1>4 DEF vars
<1>. QED
  BY <1>1, <1>2, <1>3, <1>4, Zenon DEF Next, Engine

LEMMA SubWorkflowsStep == SubWorkflowsInv /\ [Next]_vars => SubWorkflowsInv'
<1>. SUFFICES ASSUME RegistryInv, EngineInv, [Next]_vars PROVE RegistryInv' /\ EngineInv'
  BY DEF SubWorkflowsInv
<1>1. RegistryInv'
  BY RegistryFollows, RegistryStep
<1>2. ASSUME NEW i \in Ids, Pass(i) \/ Start(i) \/ Poll(i) \/ GiveUp(i)
      PROVE  EngineInv'
  BY <1>2, PassKeeps, StartKeeps, PollKeeps, GiveUpKeeps
<1>3. ASSUME NEW i \in Ids, Answer(i) \/ Cancel(i)
      PROVE  EngineInv'
  BY <1>3, AnswerKeeps, CancelKeeps
<1>4. CASE Arrive \/ LateStart \/ Restart \/ Crash
  BY <1>1, <1>4, ArriveKeeps, LateStartKeeps, RestartKeeps, CrashKeeps
<1>5. CASE UNCHANGED engineVars
  BY <1>1, <1>5 DEF engineVars, EngineInv, EngineTypes, Working, Fits, DepthsCount, BudgetKept, Children, Promised,
              Allowance, AllowanceOf, Ids
<1>. QED
  BY <1>1, <1>2, <1>3, <1>4, <1>5, Zenon DEF Next, Engine, vars

LEMMA SubWorkflowsInvariant == Spec => []SubWorkflowsInv
BY SubWorkflowsInit, SubWorkflowsStep, PTL DEF Spec

\* The registry keeps its word also while runs read it and its process dies under them.
THEOREM RegistryIsWholeUnderRuns == Spec => []UpdatesAreWhole
<1>1. SubWorkflowsInv => UpdatesAreWhole
  BY RegistryInvSuffices DEF SubWorkflowsInv
<1>. QED
  BY <1>1, SubWorkflowsInvariant, PTL

\* So do the reasons for which it refuses a definition.
THEOREM RefusalsHaveReasonsUnderRuns == Spec => []UpdatesGoThrough
<1>1. /\ SubWorkflowsInv /\ SubWorkflowsInv' /\ CutInv /\ [Next]_vars => CutInv'
      /\ Init => CutInv
  BY RegistryFollows, CutStep, CutInitially DEF SubWorkflowsInv, Init
<1>. QED
  BY <1>1, SubWorkflowsInvariant, CutInvSuffices, PTL DEF Spec

-----------------------------------------------------------------------------
(* What follows from the invariant. *)

LEMMA LeastNumber ==
  ASSUME NEW T, T \subseteq Nat, T # {}
  PROVE  \E x \in T : \A y \in T : x <= y
<1>1. PICK x \in T : \A y \in T : <<y, x>> \notin OpToRel(<, Nat)
  BY NatLessThanWellFounded, WFMin, Zenon
<1>2. ASSUME NEW y \in T PROVE x <= y
  <2>1. <<y, x>> \notin {ss \in Nat \X Nat : ss[1] < ss[2]}
    BY <1>1, Zenon DEF OpToRel
  <2>2. <<y, x>> \in Nat \X Nat /\ <<y, x>>[1] = y /\ <<y, x>>[2] = x
    OBVIOUS
  <2>3. ~(y < x)
    BY <2>1, <2>2, Zenon
  <2>. QED
    BY <2>3
<1>. QED
  BY <1>2

\* A run has one child per attempt, and its attempts again for every crash, however
\* cancels, deadlines and late starts fall (server.go:216-293, subworkflow.go:80-136);
\* and no chain of runs is longer than the limit, whatever comes to call what
\* (subworkflow.go:59-78): the level of a run, counted over its ancestors, is the depth
\* its input carries.
THEOREM ChildrenBoundedAlways == Spec => []ChildrenBounded
<1>1. ASSUME EngineInv PROVE ChildrenBounded
  <2>. DEFINE level[i \in Ids] == IF runs[i].parent = 0 THEN 0 ELSE 1 + level[runs[i].parent]
              depth == [i \in Ids |-> runs[i].depth]
  <2>1. EngineTypes /\ Working /\ DepthsCount /\ BudgetKept /\ Ids = 1 .. Len(runs) /\ Len(runs) \in Nat
    BY <1>1 DEF EngineInv, EngineTypes, Ids
  <2>2. \A i \in Ids : /\ runs[i].parent \in Nat /\ runs[i].parent < i
                       /\ runs[i].parent = 0 \/ runs[i].parent \in Ids
                       /\ depth[i] = IF runs[i].parent = 0 THEN 0 ELSE 1 + depth[runs[i].parent]
    <3>1. \A i \in Ids : runs[i] \in RunRow
      BY <2>1 DEF EngineTypes
    <3>2. \A i \in Ids : runs[i].parent \in Nat /\ runs[i].parent < i
      BY <2>1, <3>1 DEF RunRow, DepthsCount
    <3>3. \A i \in Ids : runs[i].parent = 0 \/ runs[i].parent \in Ids
      BY <2>1, <3>2
    <3>. QED
      BY <2>1, <3>2, <3>3 DEF DepthsCount
  <2>3. depth = [i \in Ids |-> IF runs[i].parent = 0 THEN 0 ELSE 1 + depth[runs[i].parent]]
    BY <2>2
  <2>4. level = [i \in Ids |-> IF runs[i].parent = 0 THEN 0 ELSE 1 + level[runs[i].parent]]
    BY <2>3, Zenon
  <2>5. \A i \in Ids : level[i] <= MaxDepth
    <3>. HIDE DEF level
    <3>1. ASSUME NEW i \in Ids, level[i] # depth[i] PROVE FALSE
      <4>. DEFINE T == {j \in Ids : level[j] # depth[j]}
      <4>1. T # {} /\ T \subseteq Nat
        <5>1. i \in T
          BY <3>1, Zenon
        <5>2. \A j \in T : j \in Nat
          BY <2>1
        <5>. QED
          BY <5>1, <5>2, Zenon
      <4>2. PICK x \in T : \A y \in T : x <= y
        <5>. HIDE DEF T
        <5>. QED
          BY <4>1, LeastNumber
      <4>3. runs[x].parent # 0 => level[runs[x].parent] = depth[runs[x].parent]
        <5>. HIDE DEF depth
        <5>1. x \in Ids /\ \A y \in Ids : level[y] # depth[y] => x <= y
          BY <4>2
        <5>2. x \in Nat /\ runs[x].parent \in Nat /\ runs[x].parent < x
          BY <2>1, <2>2, <5>1
        <5>3. runs[x].parent # 0 => runs[x].parent \in Ids
          BY <2>2, <5>1
        <5>. QED
          BY <5>1, <5>2, <5>3
      <4>. QED
        BY <2>2, <2>4, <4>2, <4>3
    <3>. QED
      BY <2>1, <3>1 DEF DepthsCount
  <2>6. ASSUME NEW i \in Ids PROVE Cardinality({j \in Ids : runs[j].parent = i}) <= Attempts * (1 + crashes)
    <3>1. /\ Cardinality(Children(i)) \in Nat /\ Cardinality(Promised(i)) \in Nat /\ Allowance(i) \in Nat
          /\ Attempts * (1 + crashes) \in Nat
      BY <2>1, CountsAreNumbers, AllowanceNat, AttemptsNat DEF EngineTypes
    <3>2. Cardinality(Children(i)) + Cardinality(Promised(i)) + Allowance(i) <= Attempts * (1 + crashes)
      BY <2>1 DEF BudgetKept
    <3>3. Cardinality(Children(i)) <= Attempts * (1 + crashes)
      BY <3>1, <3>2
    <3>. QED
      BY <3>3 DEF Children
  <2>. QED
    BY <2>5, <2>6, Zenon DEF ChildrenBounded
<1>2. SubWorkflowsInv => ChildrenBounded
  BY <1>1 DEF SubWorkflowsInv
<1>. QED
  BY <1>2, SubWorkflowsInvariant, PTL

-----------------------------------------------------------------------------
(* Nobody is forgotten. *)

Tended(w, status) == status \in {"PENDING", "RUNNING"} => w.pc # "none"
WaitsForItsOwn(i) ==
  /\ work[i].child \in Ids /\ work[i].child > i
  /\ runs[work[i].child].parent = i
Tending ==
  /\ up => \A i \in Ids \ passed : Tended(work[i], runs[i].status)
  /\ passed \subseteq Ids /\ (passed # {} => Len(runs) > RestartLimit)
  /\ \A i \in Ids : work[i].pc = "poll" => WaitsForItsOwn(i)

\* The run i moves, and does not begin to wait.
LEMMA MovesAreTended ==
  ASSUME EngineTypes, Tending, NEW i \in Ids,
         NEW r, r.parent = runs[i].parent, NEW w,
         runs' = [runs EXCEPT ![i] = r], work' = [work EXCEPT ![i] = w], UNCHANGED <<up, passed>>,
         up => Tended(w, r.status), w.pc # "poll"
  PROVE  Tending'
<1>1. Ids = 1 .. Len(runs) /\ runs \in Seq(RunRow) /\ work \in Seq(Work) /\ Len(work) = Len(runs)
  BY DEF EngineTypes, Ids
<1>2. Ids' = Ids
  BY <1>1 DEF Ids
<1>3. /\ runs'[i] = r /\ work'[i] = w
      /\ \A j \in Ids \ {i} : runs'[j] = runs[j] /\ work'[j] = work[j]
  BY <1>1
<1>4. \A j \in Ids : runs'[j].parent = runs[j].parent
  BY <1>3
<1>5. ASSUME NEW j \in Ids, work'[j].pc = "poll"
      PROVE  WaitsForItsOwn(j)'
  BY <1>2, <1>3, <1>4, <1>5 DEF Tending, WaitsForItsOwn
<1>6. ASSUME up, NEW j \in Ids \ passed
      PROVE  Tended(work'[j], runs'[j].status)
  BY <1>3, <1>6 DEF Tending
<1>7. Len(runs') = Len(runs)
  BY <1>1
<1>. QED
  BY <1>2, <1>5, <1>6, <1>7 DEF Tending

LEMMA StatusesAreTended ==
  ASSUME EngineTypes, Tending, NEW i \in Ids, NEW s \in RunStatus, NEW w,
         runs' = [runs EXCEPT ![i].status = s], work' = [work EXCEPT ![i] = w], UNCHANGED <<up, passed>>,
         up => Tended(w, s), w.pc # "poll"
  PROVE  Tending'
<1>1. PICK r : r = [runs[i] EXCEPT !.status = s]
  OBVIOUS
<1>2. runs[i] \in RunRow
  BY DEF EngineTypes, Ids
<1>3. r.status = s /\ r.parent = runs[i].parent /\ runs' = [runs EXCEPT ![i] = r]
  BY <1>1, <1>2 DEF RunRow
<1>. QED
  BY <1>3, MovesAreTended

\* A row is stored and queued; who begins to wait waits for it.
LEMMA RowsAreTended ==
  ASSUME EngineTypes, Tending, up, UNCHANGED <<up, passed>>, NEW n, n = Len(runs) + 1, Len(runs') = n,
         \A j \in Ids : runs'[j].parent = runs[j].parent,
         work'[n] = Queued, \A j \in Ids \ passed : Tended(work'[j], runs'[j].status),
         \A j \in Ids : work'[j].pc = "poll" =>
           work'[j] = work[j] \/ (work'[j].child = n /\ runs'[n].parent = j)
  PROVE  Tending'
<1>1. /\ Len(runs) \in Nat /\ Ids = 1 .. Len(runs)
  BY DEF EngineTypes, Ids
<1>2. Ids' = Ids \cup {n} /\ \A j \in Ids : n > j
  BY <1>1 DEF Ids
<1>3. work'[n].pc = "queued"
  BY DEF Queued, NoWork
<1>4. ASSUME NEW j \in Ids, work'[j].pc = "poll"
      PROVE  WaitsForItsOwn(j)'
  <2>1. CASE work'[j] = work[j]
    <3>1. PICK c : c = work[j].child
      OBVIOUS
    <3>2. c \in Ids /\ c > j /\ runs[c].parent = j
      BY <1>4, <2>1, <3>1 DEF Tending, WaitsForItsOwn
    <3>. QED
      BY <1>2, <2>1, <3>1, <3>2 DEF WaitsForItsOwn
  <2>2. CASE work'[j].child = n /\ runs'[n].parent = j
    BY <1>2, <2>2 DEF WaitsForItsOwn
  <2>. QED
    BY <1>4, <2>1, <2>2
<1>5. \A j \in Ids' \ passed : Tended(work'[j], runs'[j].status)
  BY <1>2, <1>3 DEF Tended
<1>6. \A j \in Ids' : work'[j].pc = "poll" => WaitsForItsOwn(j)'
  BY <1>2, <1>3, <1>4
<1>7. passed \subseteq Ids' /\ (passed # {} => Len(runs') > RestartLimit)
  BY <1>1, <1>2, SubWorkflowAssumption DEF Tending
<1>. QED
  BY <1>5, <1>6, <1>7 DEF Tending

LEMMA EndsTended ==
  ASSUME EngineTypes, Tending, NEW i \in Ids, NEW s \in Terminal \cup {"WAITING_HUMAN"},
         Ends(i, s), UNCHANGED <<up, passed>>
  PROVE  Tending'
<1>1. s \in RunStatus /\ Tended(NoWork, s) /\ NoWork.pc = "none"
  BY DEF RunStatus, Terminal, Tended, NoWork
<1>. QED
  BY <1>1, StatusesAreTended DEF Ends

LEMMA FailsTended ==
  ASSUME EngineInv, Tending, NEW i \in Ids, work[i].pc \in Holding, Fails(i), UNCHANGED <<up, passed>>
  PROVE  Tending'
<1>1. EngineTypes
  BY DEF EngineInv
<1>2. CASE MoreAttempts(i)
  <2>1. PICK w : w = [work[i] EXCEPT !.pc = "start", !.left = @ - 1, !.child = 0]
    OBVIOUS
  <2>2. w.pc = "start"
    BY <1>1, <2>1, SameRow DEF Work
  <2>3. runs' = [runs EXCEPT ![i].status = runs[i].status] /\ work' = [work EXCEPT ![i] = w]
    BY <1>1, <1>2, <2>1, SameRow DEF Fails
  <2>. QED
    BY <1>1, <2>2, <2>3, SameRow, StatusesAreTended DEF Tended
<1>3. CASE ~MoreAttempts(i)
  BY <1>1, <1>3, EndsTended DEF Fails, Terminal
<1>. QED
  BY <1>2, <1>3

LEMMA StartTended ==
  ASSUME RegistryInv, EngineInv, Tending, NEW i \in Ids, Start(i)
  PROVE  Tending'
<1>1. work[i].pc = "start" /\ UNCHANGED <<up, passed>> /\ EngineTypes /\ up
  BY DEF Start, EngineOnly, EngineInv, Working, Fits
<1>2. ASSUME NEW s \in RunStatus, NEW w \in Work, Tended(w, s),
             w.pc = "poll" => w.child = Len(runs) + 1, ~TooDeep(i),
             Started([runs EXCEPT ![i].status = s], [work EXCEPT ![i] = w], Child(i))
      PROVE  Tending'
  <2>1. PICK rs : rs = [runs EXCEPT ![i].status = s]
    OBVIOUS
  <2>2. PICK ws : ws = [work EXCEPT ![i] = w]
    OBVIOUS
  <2>3. /\ rs \in Seq(RunRow) /\ Len(rs) = Len(runs) /\ rs[i].status = s
        /\ \A j \in Ids : rs[j].parent = runs[j].parent
        /\ \A j \in Ids \ {i} : rs[j] = runs[j]
    BY <1>1, <2>1, StatusSet
  <2>4. /\ ws \in Seq(Work) /\ Len(ws) = Len(runs) /\ ws[i] = w
        /\ \A j \in Ids \ {i} : ws[j] = work[j]
    BY <1>1, <2>2, WorkSet
  <2>5. PICK c : c = Child(i)
    OBVIOUS
  <2>6. c.parent = i
    BY <1>1, <1>2, <2>5, ChildType
  <2>7. runs' = Append(rs, c) /\ work' = Append(ws, Queued)
    BY <1>2, <2>1, <2>2, <2>5 DEF Started
  <2>8. PICK n : n = Len(runs) + 1
    OBVIOUS
  <2>9. Len(runs) \in Nat /\ Ids = 1 .. Len(runs)
    BY <1>1 DEF EngineTypes, Ids
  <2>10. /\ Len(runs') = n /\ runs'[n] = c /\ work'[n] = Queued
         /\ \A j \in Ids : runs'[j] = rs[j] /\ work'[j] = ws[j]
    BY <2>3, <2>4, <2>7, <2>8, <2>9
  <2>11. \A j \in Ids \ passed : Tended(work'[j], runs'[j].status)
    <3>1. \A j \in Ids \ (passed \cup {i}) : Tended(work[j], runs[j].status)
      BY <1>1 DEF Tending
    <3>. QED
      BY <1>2, <2>3, <2>4, <2>10, <3>1
  <2>12. \A j \in Ids : runs'[j].parent = runs[j].parent
    BY <2>3, <2>10
  <2>13. \A j \in Ids : work'[j].pc = "poll" =>
           work'[j] = work[j] \/ (work'[j].child = n /\ runs'[n].parent = j)
    BY <1>2, <2>4, <2>6, <2>8, <2>10
  <2>. QED
    BY <1>1, <2>8, <2>10, <2>11, <2>12, <2>13, RowsAreTended
<1>3. CASE Ends(i, "FAILED")
  BY <1>1, <1>3, EndsTended DEF Terminal
<1>4. CASE Fails(i)
  BY <1>1, <1>4, FailsTended DEF Holding
<1>5. CASE ~TooDeep(i) /\ Started([runs EXCEPT ![i].status = runs[i].status],
                [work EXCEPT ![i] = [work[i] EXCEPT !.pc = "poll", !.child = Len(runs) + 1]], Child(i))
  <2>1. PICK w : w = [work[i] EXCEPT !.pc = "poll", !.child = Len(runs) + 1]
    OBVIOUS
  <2>2. Len(runs) + 1 \in Nat /\ work[i] \in Work /\ runs[i].status \in RunStatus
    BY <1>1, SameRow DEF EngineTypes
  <2>3. w \in Work /\ w.pc = "poll" /\ w.child = Len(runs) + 1
    BY <2>1, <2>2 DEF Work, Holding
  <2>4. PICK t \in RunStatus : t = runs[i].status
    BY <2>2
  <2>5. Tended(w, t) /\ Started([runs EXCEPT ![i].status = t], [work EXCEPT ![i] = w], Child(i))
    BY <1>5, <2>1, <2>3, <2>4 DEF Tended
  <2>. QED
    BY <1>2, <1>5, <2>3, <2>5
<1>6. CASE ~TooDeep(i) /\ Started([runs EXCEPT ![i].status = "COMPLETED"], [work EXCEPT ![i] = NoWork], Child(i))
  <2>1. NoWork.pc = "none" /\ "COMPLETED" \in RunStatus /\ Tended(NoWork, "COMPLETED")
    BY DEF NoWork, RunStatus, Terminal, Tended
  <2>. QED
    BY <1>2, <1>6, <2>1, QueuedType
<1>. QED
  <2>1. [runs EXCEPT ![i].status = @] = [runs EXCEPT ![i].status = runs[i].status]
    OBVIOUS
  <2>. QED
    BY <1>3, <1>4, <1>5, <1>6, <2>1, Zenon DEF Start

LEMMA StoredTended ==
  ASSUME EngineTypes, Tending, up, UNCHANGED <<up, passed>>, NEW r, Started(runs, work, r), r \in RunRow
  PROVE  Tending'
<1>1. /\ Len(runs) \in Nat /\ Ids = 1 .. Len(runs) /\ runs \in Seq(RunRow)
      /\ work \in Seq(Work) /\ Len(work) = Len(runs)
  BY DEF EngineTypes, Ids
<1>2. PICK n : n = Len(runs) + 1
  OBVIOUS
<1>3. /\ Len(runs') = n /\ work'[n] = Queued
      /\ \A j \in Ids : runs'[j] = runs[j] /\ work'[j] = work[j]
  BY <1>1, <1>2 DEF Started
<1>4. \A j \in Ids \ passed : Tended(work'[j], runs'[j].status)
  BY <1>3 DEF Tending
<1>. QED
  BY <1>2, <1>3, <1>4, RowsAreTended

LEMMA PassTended ==
  ASSUME EngineInv, Tending, NEW i \in Ids, Pass(i)
  PROVE  Tending'
<1>1. EngineTypes /\ UNCHANGED <<up, passed>> /\ work[i] \in Work /\ runs[i].status \in RunStatus
      /\ runs = [runs EXCEPT ![i].status = runs[i].status]
  BY SameRow DEF EngineInv, Pass, EngineOnly
<1>2. CASE runs[i].status \in Terminal /\ work' = [work EXCEPT ![i] = NoWork] /\ UNCHANGED runs
  <2>1. Tended(NoWork, runs[i].status) /\ NoWork.pc = "none"
    BY <1>2 DEF Tended, Terminal, NoWork
  <2>. QED
    BY <1>1, <1>2, <2>1, StatusesAreTended
<1>3. CASE Ends(i, "FAILED") \/ Ends(i, "COMPLETED") \/ Ends(i, "WAITING_HUMAN")
  BY <1>1, <1>3, EndsTended DEF Terminal
<1>4. ASSUME NEW d, runs' = [runs EXCEPT ![i].status = "RUNNING"],
             work' = [work EXCEPT ![i].pc = "start", ![i].def = d]
      PROVE  Tending'
  <2>1. PICK w : w = [work[i] EXCEPT !.pc = "start", !.def = d]
    OBVIOUS
  <2>2. w.pc = "start" /\ work' = [work EXCEPT ![i] = w] /\ "RUNNING" \in RunStatus
    BY <1>1, <1>4, <2>1 DEF Work, RunStatus
  <2>. QED
    BY <1>1, <1>4, <2>2, StatusesAreTended DEF Tended
<1>. QED
  BY <1>2, <1>3, <1>4 DEF Pass

LEMMA OutsideTended ==
  ASSUME EngineInv, Tending, NEW i \in Ids, Answer(i) \/ Cancel(i)
  PROVE  Tending'
<1>1. EngineTypes /\ UNCHANGED <<up, passed>> /\ runs[i] \in RunRow
  BY DEF EngineInv, EngineTypes, Ids, Answer, Cancel, EngineOnly
<1>2. CASE Answer(i)
  <2>1. PICK r : r = [runs[i] EXCEPT !.status = "RUNNING", !.answered = TRUE]
    OBVIOUS
  <2>2. r.parent = runs[i].parent /\ runs' = [runs EXCEPT ![i] = r] /\ work' = [work EXCEPT ![i] = Queued]
    BY <1>1, <1>2, <2>1 DEF Answer, RunRow
  <2>3. Queued.pc = "queued"
    BY DEF Queued, NoWork
  <2>. QED
    BY <1>1, <2>2, <2>3, MovesAreTended DEF Tended
<1>3. CASE Cancel(i)
  <2>1. /\ runs' = [runs EXCEPT ![i].status = "CANCELLED"] /\ UNCHANGED work
        /\ "CANCELLED" \notin {"PENDING", "RUNNING"}
    BY <1>3 DEF Cancel
  <2>6. EngineTypes
    BY <1>1
  <2>7. PICK s \in RunStatus : s = "CANCELLED"
    BY DEF RunStatus, Terminal
  <2>8. PICK rs : rs = [runs EXCEPT ![i].status = s]
    OBVIOUS
  <2>9. /\ rs \in Seq(RunRow) /\ Len(rs) = Len(runs) /\ rs[i].status = s
        /\ \A j \in Ids : rs[j].parent = runs[j].parent /\ rs[j].depth = runs[j].depth
        /\ \A j \in Ids \ {i} : rs[j] = runs[j]
    BY <2>6, <2>8, StatusSet
  <2>2. /\ Len(runs') = Len(runs) /\ runs'[i].status = "CANCELLED"
        /\ \A j \in Ids : runs'[j].parent = runs[j].parent
        /\ \A j \in Ids \ {i} : runs'[j] = runs[j]
    BY <2>1, <2>7, <2>8, <2>9
  <2>3. Ids' = Ids
    BY <2>2 DEF Ids
  <2>4. \A j \in Ids : runs'[j].status \in {"PENDING", "RUNNING"} => runs[j].status \in {"PENDING", "RUNNING"}
    BY <2>1, <2>2
  <2>5. \A j \in Ids : work[j].pc = "poll" =>
          work[j].child \in Ids /\ work[j].child > j /\ runs'[work[j].child].parent = j
    BY <2>2 DEF Tending, WaitsForItsOwn
  <2>10. up => \A j \in Ids \ passed : Tended(work[j], runs'[j].status)
    BY <2>4 DEF Tending, Tended
  <2>11. \A j \in Ids' : work'[j].pc = "poll" => WaitsForItsOwn(j)'
    BY <2>1, <2>3, <2>5 DEF WaitsForItsOwn
  <2>12. passed' \subseteq Ids' /\ (passed' # {} => Len(runs') > RestartLimit)
    BY <1>1, <2>2, <2>3 DEF Tending
  <2>. QED
    BY <1>1, <2>1, <2>3, <2>10, <2>11, <2>12 DEF Tending
<1>. QED
  BY <1>2, <1>3

\* A restart passes a run over only when it reads as many as it reads of one status.
LEMMA PassingOverTakesMore ==
  ASSUME EngineTypes, NEW i \in Ids, PassedOver(i)
  PROVE  Len(runs) > RestartLimit
<1>. DEFINE younger == {j \in Ids : j > i /\ runs[j].status = runs[i].status}
<1>0. Ids = 1 .. Len(runs) /\ Len(runs) \in Nat
  BY DEF EngineTypes, Ids
<1>1. i \in 1 .. Len(runs) /\ i \in Nat /\ 1 <= Len(runs)
  BY <1>0
<1>2. IsFiniteSet(Ids) /\ Cardinality(Ids) = Len(runs)
  <2>1. 1 \in Int /\ Len(runs) \in Int
    BY <1>0
  <2>2. IsFiniteSet(1 .. Len(runs)) /\ Cardinality(1 .. Len(runs)) = IF 1 > Len(runs) THEN 0 ELSE Len(runs) - 1 + 1
    BY <2>1, FS_Interval
  <2>. QED
    BY <1>0, <1>1, <2>2
<1>3. IsFiniteSet(younger) /\ Cardinality(younger) \in Nat
  BY <1>2, FS_Subset, FS_CardinalityType
<1>4. i \notin younger /\ younger \cup {i} \subseteq Ids
  BY <1>0, <1>1
<1>5. IsFiniteSet(younger \cup {i}) /\ Cardinality(younger \cup {i}) = Cardinality(younger) + 1
  BY <1>3, <1>4, FS_AddElement
<1>6. Cardinality(younger \cup {i}) <= Cardinality(Ids)
  BY <1>2, <1>4, FS_Subset
<1>. QED
  BY <1>0, <1>2, <1>3, <1>5, <1>6, SubWorkflowAssumption DEF PassedOver

LEMMA ProcessTended ==
  ASSUME EngineInv, Tending, Crash \/ Restart
  PROVE  Tending'
<1>1. Ids' = Ids /\ runs' = runs
  BY DEF Crash, Restart, Ids
<1>2. NoWork.pc = "none" /\ Queued.pc = "queued"
  BY DEF NoWork, Queued
<1>3. CASE Crash
  <2>1. /\ up' = FALSE /\ passed' = passed
        /\ \A j \in Ids : work'[j] = NoWork
    BY <1>3 DEF Crash
  <2>. QED
    BY <1>1, <1>2, <2>1 DEF Tending
<1>4. CASE Restart
  <2>1. /\ passed' = {j \in InFlight : PassedOver(j)}
        /\ \A j \in Ids : work'[j] = IF j \in InFlight /\ ~PassedOver(j) THEN Queued ELSE NoWork
    BY <1>4 DEF Restart
  <2>2. passed' \subseteq Ids
    BY <2>1 DEF InFlight
  <2>3. \A j \in Ids \ passed' : Tended(work'[j], runs[j].status)
    BY <1>2, <2>1 DEF InFlight, Tended
  <2>4. passed' # {} => Len(runs) > RestartLimit
    BY <2>1, <2>2, PassingOverTakesMore DEF EngineInv
  <2>5. \A j \in Ids : work'[j].pc # "poll"
    BY <1>2, <2>1
  <2>. QED
    BY <1>1, <2>2, <2>3, <2>4, <2>5 DEF Tending
<1>. QED
  BY <1>3, <1>4

LEMMA LateTended ==
  ASSUME RegistryInv, EngineInv, Tending, LateStart
  PROVE  Tending'
<1>1. EngineTypes /\ UNCHANGED <<up, passed>> /\ up /\ orphans \in Seq(Orphan) /\ orphans # <<>>
  BY DEF EngineInv, EngineTypes, Working, LateStart, EngineOnly
<1>2. CASE Get(Head(orphans).workflow) = NoDefinition
  <2>1. UNCHANGED <<runs, work, up, passed>>
    BY <1>1, <1>2 DEF LateStart
  <2>. QED
    BY <2>1 DEF Tending, WaitsForItsOwn, Ids
<1>3. CASE Get(Head(orphans).workflow) # NoDefinition
  <2>1. PICK o : o = Head(orphans)
    OBVIOUS
  <2>2. o \in Orphan
    BY <1>1, <2>1
  <2>3. o.workflow \in Workflow
    BY <1>3, <2>1 DEF Get, RegistryInv, RegistryTypeOK
  <2>4. o \in RunRow
    BY <2>2, <2>3 DEF Orphan, RunRow
  <2>5. Started(runs, work, o)
    BY <1>3, <2>1 DEF LateStart
  <2>. QED
    BY <1>1, <2>4, <2>5, StoredTended
<1>. QED
  BY <1>2, <1>3

\* What all of these keep, in every behaviour.
LEMMA AlwaysTending == Spec => []Tending
<1>1. Init => Tending
  BY DEF Init, Tending, Ids
<1>2. SubWorkflowsInv /\ Tending /\ [Next]_vars => Tending'
  <2>. SUFFICES ASSUME RegistryInv, EngineInv, Tending, [Next]_vars PROVE Tending'
    BY DEF SubWorkflowsInv
  <2>1. EngineTypes
    BY DEF EngineInv
  <2>2. ASSUME NEW i \in Ids, Poll(i) \/ GiveUp(i) PROVE Tending'
    <3>1. UNCHANGED <<up, passed>>
      BY <2>2 DEF Poll, GiveUp, EngineOnly
    <3>2. work[i].pc \in Holding /\ (Ends(i, "COMPLETED") \/ Fails(i))
      BY <2>2 DEF Poll, GiveUp, Deadline, Holding
    <3>. QED
      BY <2>1, <3>1, <3>2, EndsTended, FailsTended DEF Terminal
  <2>3. CASE Arrive
    <3>1. PICK v \in DOMAIN row : Started(runs, work, NewRunRow(v, 0, 0))
      BY <2>3 DEF Arrive
    <3>2. NewRunRow(v, 0, 0) \in RunRow /\ up /\ UNCHANGED <<up, passed>>
      BY <2>3, NewRowType DEF Arrive, RegistryInv, RegistryTypeOK
    <3>. QED
      BY <2>1, <3>1, <3>2, StoredTended
  <2>4. CASE UNCHANGED engineVars
    BY <2>4 DEF engineVars, Tending, WaitsForItsOwn, Ids
  <2>. QED
    BY <2>2, <2>3, <2>4, PassTended, StartTended, OutsideTended, ProcessTended, LateTended, Zenon DEF Next, Engine, vars
<1>. QED
  BY <1>1, <1>2, SubWorkflowsInvariant, PTL DEF Spec

\* Hence, whatever crashes, is cancelled, gives up or arrives late, and however definitions
\* change under the runs, every run in flight has a goroutine while the process is up, but
\* for those a restart passed over, which takes more than RestartLimit runs; and a step
\* only ever waits for a later run (NobodyIsForgotten): the safety half of ComesToRest,
\* which is a liveness property and stays with TLC.
THEOREM NobodyIsForgottenAlways == Spec => []NobodyIsForgotten
<1>1. Tending => NobodyIsForgotten
  <2>1. Tending => (up => \A i \in InFlight \ passed : work[i].pc # "none")
    BY DEF Tending, Tended, InFlight
  <2>. QED
    BY <2>1 DEF Tending, WaitsForItsOwn, NobodyIsForgotten
<1>. QED
  BY <1>1, AlwaysTending, PTL

\* Every variable keeps its type.
THEOREM TypesCorrect == Spec => []TypeOK
<1>1. SubWorkflowsInv /\ Tending => TypeOK
  BY DEF SubWorkflowsInv, RegistryInv, EngineInv, EngineTypes, Tending, TypeOK
<1>. QED
  BY <1>1, SubWorkflowsInvariant, AlwaysTending, PTL
=============================================================================
