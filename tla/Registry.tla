-------------------------------- MODULE Registry --------------------------------
(***************************************************************************)
(* The workflow registry: a row per workflow and a row per version, which  *)
(* its handlers read and write one statement at a time, on as many         *)
(* connections as there are requests. A module that runs the definitions   *)
(* extends this one.                                                       *)
(***************************************************************************)
EXTENDS Naturals, FiniteSets

CONSTANTS
  Workflow, NoWorkflow,
  Definition, NoDefinition, \* what a body may define; NoDefinition: the body leaves it out
  Existing,                 \* [a set of workflows -> Definition]: what is there at the start
  Client,                   \* requests that may be under way at the same time
  MaxEdits                  \* requests in all

ASSUME RegistryAssumption ==
  /\ NoWorkflow \notin Workflow /\ NoDefinition \notin Definition
  /\ DOMAIN Existing \subseteq Workflow
  /\ \A w \in DOMAIN Existing : Existing[w] \in Definition
  /\ MaxEdits \in Nat

VARIABLES
  row,       \* workflows: [a set of workflows -> definition, current_version, status]
  versions,  \* workflow_versions: a set of rows, UNIQUE(workflow_id, version)
  request,   \* [Client -> the handler's position and locals]
  edits,
  overlapped, \* history: two writes of one workflow were under way together
  cut,       \* history: an update died after it had stored its version
  refused,   \* history: an update of the definition was refused
  accepted   \* history: per workflow, what the last answered request made of it

registryVars == <<row, versions, request, edits, overlapped, cut, refused, accepted>>

Status == {"draft", "active", "archived"}
Row == [def : Definition, version : Nat, status : Status]
Version == [workflow : Workflow, version : Nat, def : Definition]
Request == [pc : {"idle", "version1", "read", "insert", "write"}, workflow : Workflow \cup {NoWorkflow},
            def : Definition \cup {NoDefinition}, status : Status \cup {"none"},
            found : Row \cup {NoDefinition}]
Free == [pc |-> "idle", workflow |-> NoWorkflow, def |-> NoDefinition, status |-> "none",
         found |-> NoDefinition]

RegistryTypeOK ==
  /\ DOMAIN row \subseteq Workflow /\ \A w \in DOMAIN row : row[w] \in Row
  /\ versions \subseteq Version /\ request \in [Client -> Request]
  /\ edits \in Nat
  /\ overlapped \subseteq Workflow /\ cut \subseteq Workflow /\ refused \subseteq Workflow
  /\ DOMAIN accepted \subseteq Workflow

RegistryInit ==
  /\ row = [w \in DOMAIN Existing |-> [def |-> Existing[w], version |-> 1, status |-> "active"]]
  /\ versions = {[workflow |-> w, version |-> 1, def |-> Existing[w]] : w \in DOMAIN Existing}
  /\ request = [c \in Client |-> Free]
  /\ edits = 0 /\ overlapped = {} /\ cut = {} /\ refused = {} /\ accepted = row

VersionsOf(w) == {v \in versions : v.workflow = w}
Put(w, r) == row' = [u \in DOMAIN row \cup {w} |-> IF u = w THEN r ELSE row[u]]
Accept(w, r) == accepted' = [u \in DOMAIN accepted \cup {w} |-> IF u = w THEN r ELSE accepted[u]]

\* What the body asks for, applied to what the answers so far have promised.
Asked(q) ==
  LET was == accepted[q.workflow]
  IN [def     |-> IF q.def = NoDefinition THEN was.def ELSE q.def,
      version |-> IF q.def = NoDefinition THEN was.version ELSE was.version + 1,
      status  |-> IF q.status = "none" THEN was.status ELSE q.status]

Busy(w) == {c \in Client : request[c].workflow = w} # {}
Opens(c, w, body) ==
  /\ request[c].pc = "idle" /\ edits < MaxEdits
  /\ edits' = edits + 1 /\ request' = [request EXCEPT ![c] = body]
  /\ overlapped' = IF Busy(w) THEN overlapped \cup {w} ELSE overlapped
  /\ UNCHANGED <<cut, refused>>
-----------------------------------------------------------------------------
(* The handlers. *)

\* Create: the row with version 1, then the version. The caller learns the id last,
\* but a list shows the row before that.
CreateRow(c) ==
  \E w \in Workflow \ DOMAIN row, d \in Definition, s \in {"draft", "active"} :
    /\ Opens(c, w, [Free EXCEPT !.pc = "version1", !.workflow = w, !.def = d])
    /\ Put(w, [def |-> d, version |-> 1, status |-> s])
    /\ UNCHANGED <<versions, accepted>>

CreateVersion(c) ==
  LET q == request[c]
  IN /\ q.pc = "version1"
     /\ versions' = versions \cup {[workflow |-> q.workflow, version |-> 1, def |-> q.def]}
     /\ request' = [request EXCEPT ![c] = Free]
     /\ UNCHANGED row /\ Accept(q.workflow, row[q.workflow])
     /\ UNCHANGED <<edits, overlapped, cut, refused>>

\* Update with a definition, a status, both or neither (a new name): the row is read first.
UpdateRead(c) ==
  \E w \in DOMAIN row, d \in Definition \cup {NoDefinition}, s \in {"none", "active"} :
    /\ Opens(c, w, [pc |-> IF d = NoDefinition THEN "write" ELSE "insert", workflow |-> w,
                    def |-> d, status |-> s, found |-> row[w]])
    /\ UNCHANGED <<row, versions, accepted>>

\* With a definition: INSERT of the next version, which the UNIQUE constraint may
\* refuse; the handler answers 404 then.
NewVersionAlways(q) == q.found.version + 1
NewVersion(q) == IF q.def = NoDefinition THEN q.found.version ELSE q.found.version + 1
Taken(q) == \E v \in VersionsOf(q.workflow) : v.version = NewVersion(q)

UpdateInsert(c) ==
  LET q == request[c]
  IN /\ q.pc = "insert"
     /\ \/ /\ Taken(q) /\ request' = [request EXCEPT ![c] = Free] /\ UNCHANGED versions
           /\ refused' = refused \cup {q.workflow}
        \/ /\ ~Taken(q) /\ UNCHANGED refused
           /\ versions' = versions \cup
                {[workflow |-> q.workflow, version |-> NewVersion(q), def |-> q.def]}
           /\ request' = [request EXCEPT ![c].pc = "write"]
     /\ UNCHANGED <<row, edits, overlapped, cut, accepted>>

\* The whole row is written from what was read and what the body gave.
MergedOldVersion(q) == [def     |-> IF q.def = NoDefinition THEN q.found.def ELSE q.def,
                        version |-> q.found.version,
                        status  |-> IF q.status = "none" THEN q.found.status ELSE q.status]
Merged(q) == [def     |-> IF q.def = NoDefinition THEN q.found.def ELSE q.def,
              version |-> NewVersion(q),
              status  |-> IF q.status = "none" THEN q.found.status ELSE q.status]

UpdateWrite(c) ==
  LET q == request[c]
  IN /\ q.pc = "write"
     /\ Put(q.workflow, Merged(q))
     /\ Accept(q.workflow, IF q.workflow \in DOMAIN accepted THEN Asked(q) ELSE Merged(q))
     /\ request' = [request EXCEPT ![c] = Free]
     /\ UNCHANGED <<versions, edits, overlapped, cut, refused>>

\* Delete archives; the row and its definition stay.
Archive ==
  \E w \in DOMAIN row :
    /\ edits < MaxEdits /\ edits' = edits + 1
    /\ Put(w, [row[w] EXCEPT !.status = "archived"])
    /\ Accept(w, [(IF w \in DOMAIN accepted THEN accepted[w] ELSE row[w])
                   EXCEPT !.status = "archived"])
    /\ overlapped' = IF Busy(w) THEN overlapped \cup {w} ELSE overlapped
    /\ UNCHANGED <<versions, request, cut, refused>>

\* The process dies between two statements; a version may be stored that no row has.
HalfDone(q) == q.pc = "write" /\ q.def # NoDefinition
RegistryDies ==
  /\ request' = [c \in Client |-> Free]
  /\ cut' = cut \cup {request[c].workflow : c \in {b \in Client : HalfDone(request[b])}}
  /\ UNCHANGED <<row, versions, edits, overlapped, refused, accepted>>

RegistryNext ==
  \/ \E c \in Client : CreateRow(c) \/ CreateVersion(c) \/ UpdateRead(c) \/ UpdateInsert(c) \/ UpdateWrite(c)
  \/ Archive

\* GetByID: what a client, or the engine, is given.
Get(w) == IF w \in DOMAIN row THEN row[w].def ELSE NoDefinition
-----------------------------------------------------------------------------
(* Properties. *)

\* Whatever requests interleave and wherever the process dies, a row's definition is
\* the one stored for its current version; only a creation that was cut short leaves a
\* version 1 that is not stored (store.go Create, Update).
RowHasItsVersion ==
  \A w \in DOMAIN row :
    \/ [workflow |-> w, version |-> row[w].version, def |-> row[w].def] \in versions
    \/ row[w].version = 1 /\ \A v \in VersionsOf(w) : v.version # 1

\* What requests were answered to have done is what the row says, also after requests
\* that were refused or died half-way, unless two of them overlapped: a request reads
\* the row and later writes all of it (store.go:147-180).
AnswersStand ==
  \A w \in DOMAIN accepted \ overlapped : ~Busy(w) => row[w] = accepted[w]

\* Both together: a row never shows half an update, and none that was acknowledged is lost.
UpdatesAreWhole == RowHasItsVersion /\ AnswersStand

\* A new definition is refused only to a request that overlapped another one, or after a
\* process died between the two writes of an update: the version it left is the next one
\* (UNIQUE, store.go:145-157), so from then on every new definition is refused.
UpdatesGoThrough ==
  /\ refused \subseteq overlapped \cup cut
  /\ \A w \in cut \ overlapped : \E v \in VersionsOf(w) : v.version = row[w].version + 1
=============================================================================
