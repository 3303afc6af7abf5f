-------------------------- MODULE PollTriggers_proofs --------------------------
(***************************************************************************)
(* Theorems about polling triggers, for every set of items and replicas,   *)
(* every cap and every bound: the types always; and, as long as a live     *)
(* holder of the coordinator lease renews it, that a new item that counts  *)
(* as seen has its run, and that no more items than the dedup window holds *)
(* start one run each and the backlog none.                                *)
(***************************************************************************)
EXTENDS PollTriggers, FiniteSetTheorems, TLAPS

Seen(r) == ToSet(w[r].seen)
Polling(r) == w[r].pc \in {"fetch", "items", "mark"}
Reading(r) == w[r].pc \in {"items", "mark"}

\* The source has never listed more items than the window holds.
WindowIsWide == IsFiniteSet(Item) /\ Cardinality(Item) <= Window
-----------------------------------------------------------------------------
(* Where the loop stands. *)

OneAtATime == \A r \in Replica : w[r].pc # "idle" => r \in alive /\ owner = r /\ live

\* Every key, every run and all that a poll has still to look at is of an item that the
\* source lists.
Listed ==
  /\ ToSet(row.seen) \subseteq ToSet(source) /\ backlog \subseteq ToSet(source)
  /\ \A r \in Replica : Seen(r) \subseteq ToSet(source)
  /\ \A r \in Replica : w[r].pc = "items" => ToSet(w[r].rest) \subseteq ToSet(source)
  /\ \A i \in Item : fired[i] > 0 => i \in ToSet(source)

\* A poll works on the row: it knows its keys, and whether it is the first.
PollsTheRow ==
  /\ ~row.polled => row.seen = <<>>
  /\ ~row.exists => row = NoRow
  /\ \A r \in Replica : Polling(r) =>
       row.exists /\ ToSet(row.seen) \subseteq Seen(r) /\ w[r].first = ~row.polled

LoopInv == TypeOK /\ OneAtATime /\ Listed /\ PollsTheRow
-----------------------------------------------------------------------------
(* No item is skipped. *)

\* What counts as seen has a run, in the row and in the poll under way; and nothing is
\* owed while the first poll is to come.
SeenHaveRuns ==
  ~Dropped =>
    /\ \A i \in owed : i \in ToSet(row.seen) => fired[i] > 0
    /\ \A i \in owed, r \in Replica : Polling(r) /\ i \in Seen(r) => fired[i] > 0
    /\ ~row.polled /\ ~fireOnFirst => owed = {}

SkipInv == LoopInv /\ SeenHaveRuns
-----------------------------------------------------------------------------
(* No item is fired again. *)

\* A key is recorded once.
Distinct(s) == \A a, b \in 1 .. Len(s) : s[a] = s[b] => a = b
KeysAreDistinct == Distinct(row.seen) /\ \A r \in Replica : Distinct(w[r].seen)

\* The row or the poll under way remembers the item.
Remembered(i) == i \in ToSet(row.seen) \/ \E r \in Replica : Reading(r) /\ i \in Seen(r)

\* The first poll will have met every item that has a run, or is of the backlog.
FirstPollMeetsAll ==
  \A r \in Replica : Reading(r) /\ w[r].first /\ ~fireOnFirst =>
    /\ w[r].pc = "items"
    /\ \A i \in Item : fired[i] > 0 \/ i \in backlog => i \in Seen(r) \cup ToSet(w[r].rest)

\* An item that has used its runs up is remembered, unless the row was made anew, and then
\* the first poll meets it.
UsedUpIsRemembered ==
  /\ toggles = 0 /\ ~active => ~row.exists
  /\ ~Forgotten =>
       \A i \in Item :
         /\ fired[i] <= 1 + cuts
         /\ fired[i] > cuts /\ (row.polled \/ toggles + outages = 0) => Remembered(i)

\* The backlog is remembered, once the first poll is over.
BacklogIsRemembered ==
  ~fireOnFirst /\ errors = 0 /\ row.polled => backlog \subseteq ToSet(row.seen)

OnceInv ==
  /\ LoopInv /\ KeysAreDistinct /\ FirstPollMeetsAll /\ UsedUpIsRemembered /\ BacklogIsRemembered
-----------------------------------------------------------------------------
(* Lemmas about sequences. *)

LEMMA ElementsOfEmpty == ToSet(<<>>) = {}
BY DEF ToSet

LEMMA ElementsOfAppend ==
  ASSUME NEW S, NEW s \in Seq(S), NEW e \in S
  PROVE  Append(s, e) \in Seq(S) /\ ToSet(Append(s, e)) = ToSet(s) \cup {e}
<1>1. PICK n \in Nat : n = Len(s)
  OBVIOUS
<1>2. PICK a : a = Append(s, e)
  OBVIOUS
<1>3. a \in Seq(S) /\ Len(a) = n + 1 /\ a[n + 1] = e /\ \A k \in 1 .. n : a[k] = s[k]
  BY <1>1, <1>2
<1>4. DOMAIN a = 1 .. n + 1 /\ DOMAIN s = 1 .. n
  BY <1>1, <1>3
<1>5. ToSet(a) = {a[k] : k \in 1 .. n + 1} /\ ToSet(s) = {s[k] : k \in 1 .. n}
  BY <1>4 DEF ToSet
<1>6. \A x : x \in ToSet(a) <=> x \in ToSet(s) \cup {e}
  BY <1>1, <1>3, <1>5
<1>. QED
  BY <1>2, <1>3, <1>6

LEMMA ElementsOfHeadAndTail ==
  ASSUME NEW S, NEW s \in Seq(S), s # <<>>
  PROVE  Head(s) \in S /\ Tail(s) \in Seq(S) /\ ToSet(s) = {Head(s)} \cup ToSet(Tail(s))
<1>1. PICK n \in Nat : n = Len(s) /\ n >= 1
  OBVIOUS
<1>2. PICK t : t = Tail(s)
  OBVIOUS
<1>3. t \in Seq(S) /\ Len(t) = n - 1 /\ Head(s) = s[1] /\ \A k \in 1 .. n - 1 : t[k] = s[k + 1]
  BY <1>1, <1>2
<1>4. DOMAIN t = 1 .. n - 1 /\ DOMAIN s = 1 .. n
  BY <1>1, <1>3
<1>5. ToSet(t) = {t[k] : k \in 1 .. n - 1} /\ ToSet(s) = {s[k] : k \in 1 .. n}
  BY <1>4 DEF ToSet
<1>6. \A x \in ToSet(s) : x = Head(s) \/ x \in ToSet(t)
  <2>1. ASSUME NEW k \in 1 .. n, k # 1 PROVE s[k] \in ToSet(t)
    <3>1. k - 1 \in 1 .. n - 1 /\ t[k - 1] = s[k]
      BY <1>1, <1>3, <2>1
    <3>. QED
      BY <1>5, <3>1
  <2>. QED
    BY <1>3, <1>5, <2>1
<1>7. Head(s) \in ToSet(s) /\ \A x \in ToSet(t) : x \in ToSet(s)
  <2>1. ASSUME NEW k \in 1 .. n - 1 PROVE t[k] \in ToSet(s)
    <3>1. k + 1 \in 1 .. n /\ t[k] = s[k + 1]
      BY <1>1, <1>3, <2>1
    <3>. QED
      BY <1>5, <3>1
  <2>2. s[1] \in ToSet(s)
    BY <1>1, <1>5
  <2>. QED
    BY <1>3, <1>5, <2>1, <2>2
<1>8. s[1] \in S
  BY <1>1
<1>. QED
  BY <1>2, <1>3, <1>6, <1>7, <1>8

LEMMA ElementsOfPrepend ==
  ASSUME NEW S, NEW s \in Seq(S), NEW e \in S
  PROVE  <<e>> \o s \in Seq(S) /\ ToSet(<<e>> \o s) = ToSet(s) \cup {e}
<1>1. PICK a : a = <<e>> \o s
  OBVIOUS
<1>2. a \in Seq(S) /\ a # <<>> /\ Head(a) = e /\ Tail(a) = s
  BY <1>1
<1>. QED
  BY <1>1, <1>2, ElementsOfHeadAndTail

\* The window keeps keys that were there, and all of them while it is wide enough.
LEMMA LastKeysKeep ==
  ASSUME NEW s \in Seq(Item)
  PROVE  /\ LastKeys(s) \in Seq(Item) /\ ToSet(LastKeys(s)) \subseteq ToSet(s)
         /\ Len(s) <= Window => LastKeys(s) = s
<1>1. PICK n \in Nat : n = Len(s)
  OBVIOUS
<1>2. Window \in Nat /\ Window >= 1
  BY PollAssumption
<1>3. CASE n <= Window
  BY <1>1, <1>2, <1>3 DEF LastKeys
<1>4. CASE n > Window
  <2>1. PICK m \in 1 .. n : m = n - Window + 1
    BY <1>1, <1>2, <1>4
  <2>2. PICK a : a = SubSeq(s, m, n)
    OBVIOUS
  <2>3. LastKeys(s) = a
    BY <1>1, <1>4, <2>1, <2>2 DEF LastKeys
  <2>4. a \in Seq(Item) /\ Len(a) = n - m + 1 /\ \A k \in 1 .. n - m + 1 : a[k] = s[m + k - 1]
    BY <1>1, <1>2, <2>1, <2>2
  <2>5. \A k \in 1 .. n - m + 1 : m + k - 1 \in 1 .. n
    BY <2>1
  <2>6. DOMAIN a = 1 .. n - m + 1 /\ DOMAIN s = 1 .. n
    BY <1>1, <2>4
  <2>7. ToSet(a) = {a[k] : k \in 1 .. n - m + 1} /\ ToSet(s) = {s[k] : k \in 1 .. n}
    BY <2>6 DEF ToSet
  <2>8. ToSet(a) \subseteq ToSet(s)
    BY <2>4, <2>5, <2>7
  <2>. QED
    BY <1>1, <1>2, <1>4, <2>3, <2>4, <2>8
<1>. QED
  BY <1>1, <1>2, <1>3, <1>4

LEMMA DistinctAppend ==
  ASSUME NEW S, NEW s \in Seq(S), Distinct(s), NEW e \in S, e \notin ToSet(s)
  PROVE  Distinct(Append(s, e))
<1>1. PICK n \in Nat : n = Len(s)
  OBVIOUS
<1>2. PICK a : a = Append(s, e)
  OBVIOUS
<1>3. a \in Seq(S) /\ Len(a) = n + 1 /\ a[n + 1] = e /\ \A k \in 1 .. n : a[k] = s[k]
  BY <1>1, <1>2
<1>4. \A k \in 1 .. n : s[k] # e
  BY <1>1 DEF ToSet
<1>5. ASSUME NEW i \in 1 .. n + 1, NEW j \in 1 .. n + 1, a[i] = a[j] PROVE i = j
  BY <1>1, <1>3, <1>4, <1>5 DEF Distinct
<1>. QED
  BY <1>2, <1>3, <1>5 DEF Distinct

\* There are no more distinct keys than items.
LEMMA DistinctFit ==
  ASSUME NEW S, IsFiniteSet(S), NEW s \in Seq(S), Distinct(s)
  PROVE  Len(s) <= Cardinality(S)
<1>1. PICK n \in Nat : n = Len(s)
  OBVIOUS
<1>2. s \in Injection(1 .. n, S)
  BY <1>1 DEF Injection, IsInjective, Distinct
<1>3. Cardinality(1 .. n) = n
  BY FS_Interval
<1>. QED
  BY <1>1, <1>2, <1>3, FS_Injection
-----------------------------------------------------------------------------
(* What the loop's steps do to its position and to the row. *)

LEMMA NoRowTypes ==
  /\ NoRow \in Row /\ ~NoRow.exists /\ ~NoRow.polled /\ NoRow.seen = <<>>
  /\ NewRow \in Row /\ NewRow.exists /\ ~NewRow.polled /\ NewRow.seen = <<>>
  /\ Idle \in Loop /\ Idle.pc = "idle" /\ Idle.seen = <<>>
<1>1. <<>> \in Seq(Item) /\ 0 \in 0 .. MaxPerPoll
  BY PollAssumption
<1>2. NoRow \in Row /\ NoRow.seen = <<>> /\ NewRow \in Row /\ NewRow.seen = <<>>
  BY <1>1 DEF NoRow, NewRow, Row
<1>3. ~NoRow.exists /\ ~NoRow.polled /\ NewRow.exists /\ ~NewRow.polled
  BY DEF NoRow, NewRow
<1>4. Idle \in Loop /\ Idle.pc = "idle" /\ Idle.seen = <<>>
  BY <1>1 DEF Idle, Loop
<1>. QED
  BY <1>2, <1>3, <1>4

\* MarkPolled stores the keys in a row that is still there.
LEMMA Stored ==
  ASSUME row \in Row, NEW keys \in Seq(Item), MarkPolled(keys)
  PROVE  /\ row' \in Row /\ row'.exists = row.exists
         /\ ~row.exists => row' = row
         /\ row.exists => row'.seen = keys /\ row'.polled
<1>1. PICK m : m = [row EXCEPT !.seen = keys, !.polled = TRUE, !.due = FALSE]
  OBVIOUS
<1>2. m \in Row /\ m.exists = row.exists /\ m.seen = keys /\ m.polled = TRUE
  BY <1>1 DEF Row
<1>3. row' = IF row.exists THEN m ELSE row
  BY <1>1 DEF MarkPolled
<1>. QED
  BY <1>2, <1>3

LEMMA LoopFields ==
  ASSUME TypeOK, NEW r \in Replica
  PROVE  /\ w \in [Replica -> Loop] /\ w[r] \in Loop
         /\ w[r].seen \in Seq(Item) /\ w[r].rest \in Seq(Item)
         /\ w[r].first \in BOOLEAN /\ w[r].count \in 0 .. MaxPerPoll
<1>1. w \in [Replica -> Loop] /\ w[r] \in Loop
  BY DEF TypeOK
<1>. QED
  BY <1>1 DEF Loop

LEMMA TickMoves ==
  ASSUME TypeOK, NEW r \in Replica, Tick(r)
  PROVE  /\ w' \in [Replica -> Loop] /\ (\A p \in Replica \ {r} : w'[p] = w[p])
         /\ w[r].pc = "idle" /\ w'[r].pc \in {"reconcile", "list"} /\ w'[r].seen = w[r].seen
<1>1. ASSUME NEW c \in {"reconcile", "list"}, Goto(r, c)
      PROVE  /\ w' \in [Replica -> Loop] /\ (\A p \in Replica \ {r} : w'[p] = w[p])
             /\ w'[r].pc = c /\ w'[r].seen = w[r].seen
  <2>1. PICK l : l = [w[r] EXCEPT !.pc = c]
    OBVIOUS
  <2>2. l \in Loop /\ l.pc = c /\ l.seen = w[r].seen
    BY <1>1, <2>1, LoopFields DEF Loop
  <2>3. w' = [w EXCEPT ![r] = l]
    BY <1>1, <2>1, LoopFields DEF Goto
  <2>. QED
    BY <2>2, <2>3, LoopFields
<1>2. w[r].pc = "idle" /\ (Goto(r, "reconcile") \/ Goto(r, "list"))
  BY DEF Tick, At
<1>. QED
  BY <1>1, <1>2

LEMMA ReconcileMoves ==
  ASSUME TypeOK, NEW r \in Replica, Reconcile(r)
  PROVE  /\ w' \in [Replica -> Loop] /\ (\A p \in Replica \ {r} : w'[p] = w[p])
         /\ w[r].pc = "reconcile" /\ w'[r].pc = "list" /\ w'[r].seen = w[r].seen
<1>1. PICK l : l = [w[r] EXCEPT !.pc = "list"]
  OBVIOUS
<1>2. l \in Loop /\ l.pc = "list" /\ l.seen = w[r].seen
  BY <1>1, LoopFields DEF Loop
<1>3. w' = [w EXCEPT ![r] = l] /\ w[r].pc = "reconcile"
  BY <1>1, LoopFields DEF Reconcile, Goto, At
<1>. QED
  BY <1>2, <1>3, LoopFields

LEMMA ListMoves ==
  ASSUME TypeOK, NEW r \in Replica, List(r)
  PROVE  /\ w' \in [Replica -> Loop] /\ (\A p \in Replica \ {r} : w'[p] = w[p])
         /\ w[r].pc = "list"
         /\ \/ w'[r] = Idle
            \/ /\ row.exists /\ w'[r].pc = "fetch" /\ w'[r].seen = row.seen
               /\ w'[r].first = (row.seen = <<>> /\ ~row.polled)
<1>1. PICK b \in BOOLEAN : b = (row.seen = <<>> /\ ~row.polled)
  BY Zenon
<1>2. PICK l : l = [Idle EXCEPT !.pc = "fetch", !.seen = row.seen, !.first = b]
  OBVIOUS
<1>3. row.seen \in Seq(Item)
  BY DEF TypeOK, Row
<1>4. l \in Loop /\ l.pc = "fetch" /\ l.seen = row.seen /\ l.first = b
  BY <1>2, <1>3, NoRowTypes DEF Loop
<1>5. w' = [w EXCEPT ![r] = IF row.exists /\ row.due THEN l ELSE Idle] /\ w[r].pc = "list"
  BY <1>1, <1>2 DEF List, At
<1>. QED
  BY <1>1, <1>4, <1>5, LoopFields, NoRowTypes

LEMMA FetchMoves ==
  ASSUME TypeOK, NEW r \in Replica, Fetch(r)
  PROVE  /\ w' \in [Replica -> Loop] /\ (\A p \in Replica \ {r} : w'[p] = w[p])
         /\ w[r].pc = "fetch"
         /\ \/ /\ w'[r].pc = "items" /\ w'[r].rest = source
               /\ w'[r].seen = w[r].seen /\ w'[r].first = w[r].first /\ UNCHANGED <<row, errors>>
            \/ w'[r] = Idle /\ MarkPolled(w[r].seen) /\ errors' = errors + 1
<1>1. PICK l : l = [w[r] EXCEPT !.pc = "items", !.rest = source]
  OBVIOUS
<1>2. source \in Seq(Item)
  BY DEF TypeOK
<1>3. l \in Loop /\ l.pc = "items" /\ l.rest = source /\ l.seen = w[r].seen /\ l.first = w[r].first
  BY <1>1, <1>2, LoopFields DEF Loop
<1>4. w[r].pc = "fetch"
  BY DEF Fetch, At
<1>5. \/ w' = [w EXCEPT ![r] = l] /\ UNCHANGED <<row, errors>>
      \/ w' = [w EXCEPT ![r] = Idle] /\ MarkPolled(w[r].seen) /\ errors' = errors + 1
  BY <1>1, LoopFields DEF Fetch
<1>. QED
  BY <1>3, <1>4, <1>5, LoopFields, NoRowTypes

LEMMA MarkMoves ==
  ASSUME TypeOK, NEW r \in Replica, Mark(r)
  PROVE  /\ w' \in [Replica -> Loop] /\ (\A p \in Replica \ {r} : w'[p] = w[p])
         /\ w'[r] = Idle /\ MarkPolled(LastKeys(w[r].seen))
         /\ w[r].pc = "mark" \/ (w[r].pc = "items" /\ w[r].rest = <<>>)
<1>1. w' = [w EXCEPT ![r] = Idle] /\ MarkPolled(LastKeys(w[r].seen))
      /\ (w[r].pc = "mark" \/ (w[r].pc = "items" /\ w[r].rest = <<>>))
  BY DEF Mark
<1>. QED
  BY <1>1, LoopFields, NoRowTypes

\* One item: a key that was there is passed over; another is recorded, and then seeded,
\* dropped or fired.
LEMMA ItemMoves ==
  ASSUME TypeOK, NEW r \in Replica, EachItem(r), NEW i, i = Head(w[r].rest)
  PROVE  /\ w' \in [Replica -> Loop] /\ (\A p \in Replica \ {r} : w'[p] = w[p])
         /\ i \in Item /\ ToSet(w[r].rest) = {i} \cup ToSet(w'[r].rest)
         /\ w[r].pc = "items" /\ w'[r].first = w[r].first
         /\ \/ /\ i \in Seen(r) /\ w'[r].seen = w[r].seen /\ w'[r].pc = "items"
               /\ UNCHANGED <<fired, failures, capped>>
            \/ /\ i \notin Seen(r) /\ w'[r].seen = Append(w[r].seen, i)
               /\ \/ /\ Seeds(w[r]) /\ w'[r].pc = "items" /\ UNCHANGED <<fired, failures, capped>>
                  \/ /\ ~Seeds(w[r]) /\ w'[r].pc = "mark" /\ capped' = TRUE
                     /\ UNCHANGED <<fired, failures>>
                  \/ /\ ~Seeds(w[r]) /\ w'[r].pc = "items" /\ UNCHANGED capped
                     /\ \/ fired' = [fired EXCEPT ![i] = @ + 1] /\ UNCHANGED failures
                        \/ failures' = failures + 1 /\ UNCHANGED fired
<1>1. PICK l : l = w[r]
  OBVIOUS
<1>2. l \in Loop /\ l.rest # <<>> /\ l.rest \in Seq(Item) /\ l.seen \in Seq(Item)
      /\ l.count \in 0 .. MaxPerPoll /\ w[r].pc = "items"
  BY <1>1, LoopFields DEF EachItem, At
<1>3. i \in Item /\ Tail(l.rest) \in Seq(Item) /\ ToSet(l.rest) = {i} \cup ToSet(Tail(l.rest))
  BY <1>1, <1>2, ElementsOfHeadAndTail
<1>4. PICK s : s = Append(l.seen, i)
  OBVIOUS
<1>5. s \in Seq(Item)
  BY <1>2, <1>3, <1>4
<1>6. PICK passed : passed = [l EXCEPT !.rest = Tail(l.rest)]
  OBVIOUS
<1>7. passed \in Loop /\ passed.rest = Tail(l.rest) /\ passed.seen = l.seen /\ passed.pc = "items"
      /\ passed.first = l.first /\ passed.count = l.count
  BY <1>1, <1>2, <1>3, <1>6 DEF Loop
<1>8. PICK noted : noted = [passed EXCEPT !.seen = s]
  OBVIOUS
<1>9. noted \in Loop /\ noted.rest = Tail(l.rest) /\ noted.seen = s /\ noted.pc = "items"
      /\ noted.first = l.first /\ noted.count = l.count
  BY <1>5, <1>7, <1>8 DEF Loop
<1>10. PICK dropped : dropped = [noted EXCEPT !.pc = "mark"]
  OBVIOUS
<1>11. dropped \in Loop /\ dropped.rest = Tail(l.rest) /\ dropped.seen = s /\ dropped.pc = "mark"
       /\ dropped.first = l.first
  BY <1>9, <1>10 DEF Loop
<1>12. PICK started : started = [noted EXCEPT !.count = noted.count + 1]
  OBVIOUS
<1>13. ~CapReached(l) => /\ started \in Loop /\ started.rest = Tail(l.rest) /\ started.seen = s
                         /\ started.pc = "items" /\ started.first = l.first
  <2>1. ~CapReached(l) => l.count + 1 \in 0 .. MaxPerPoll
    BY <1>2, PollAssumption DEF CapReached
  <2>. QED
    BY <1>9, <1>12, <2>1 DEF Loop
<1>14. \/ IsSeen(l, i) /\ w' = [w EXCEPT ![r] = passed] /\ UNCHANGED <<fired, failures, capped>>
       \/ ~IsSeen(l, i) /\ Seeds(l) /\ w' = [w EXCEPT ![r] = noted] /\ UNCHANGED <<fired, failures, capped>>
       \/ /\ ~IsSeen(l, i) /\ ~Seeds(l) /\ w' = [w EXCEPT ![r] = dropped]
          /\ capped' = TRUE /\ UNCHANGED <<fired, failures>>
       \/ /\ ~IsSeen(l, i) /\ ~Seeds(l) /\ ~CapReached(l) /\ w' = [w EXCEPT ![r] = started]
          /\ \/ fired' = [fired EXCEPT ![i] = @ + 1] /\ UNCHANGED failures
             \/ failures' = failures + 1 /\ UNCHANGED fired
          /\ UNCHANGED capped
  <2>1. passed = [l EXCEPT !.rest = Tail(@)] /\ noted = [passed EXCEPT !.seen = Append(@, i)]
        /\ started = [noted EXCEPT !.count = @ + 1]
    <3>1. passed = [l EXCEPT !.rest = Tail(@)]
      BY <1>2, <1>6 DEF Loop
    <3>2. noted = [passed EXCEPT !.seen = Append(@, i)]
      BY <1>4, <1>7, <1>8 DEF Loop
    <3>3. started = [noted EXCEPT !.count = @ + 1]
      BY <1>9, <1>12 DEF Loop
    <3>. QED
      BY <3>1, <3>2, <3>3
  <2>. QED
    BY <1>1, <1>10, <2>1 DEF EachItem
<1>15. IsSeen(l, i) <=> i \in Seen(r)
  BY <1>1 DEF IsSeen, Seen
<1>. QED
  BY <1>1, <1>2, <1>3, <1>4, <1>7, <1>9, <1>11, <1>13, <1>14, <1>15, LoopFields

\* A poll ends before its keys are stored.
CutShort(r) == MarkFails(r) \/ Crash(r)

LEMMA CutMoves ==
  ASSUME TypeOK, NEW r \in Replica, CutShort(r)
  PROVE  w' \in [Replica -> Loop] /\ (\A p \in Replica \ {r} : w'[p] = w[p]) /\ w'[r] = Idle
<1>1. w' = [w EXCEPT ![r] = Idle]
  BY DEF CutShort, MarkFails, Crash
<1>. QED
  BY <1>1, LoopFields, NoRowTypes
-----------------------------------------------------------------------------
(* Types. *)

\* The world outside the loop.
World ==
  \/ \E r \in Replica : Restart(r)
  \/ LeaseLapses /\ UNCHANGED <<active, source, row, w, histVars, envVars>>
  \/ IntervalPasses \/ NewItem \/ Toggle \/ UNCHANGED vars

LEMMA StepsAre ==
  ASSUME [Next]_vars
  PROVE  \/ \E r \in Replica : \/ Tick(r) \/ Reconcile(r) \/ List(r) \/ Fetch(r) \/ EachItem(r)
                               \/ Mark(r) \/ CutShort(r)
         \/ World
BY DEF Next, World, CutShort

\* It leaves the loop and what the loop has stored alone; what the source lists only grows,
\* and what is new is owed once the first poll is over, or with fire_on_first.
LEMMA WorldLeaves ==
  ASSUME TypeOK, World
  PROVE  /\ UNCHANGED <<w, fireOnFirst, fired, backlog, capped, outages, errors, failures, cuts>>
         /\ row' \in Row /\ row'.seen = row.seen /\ row'.polled = row.polled
         /\ row'.exists = row.exists /\ (~row.exists => row' = row)
         /\ source' \in Seq(Item) /\ ToSet(source) \subseteq ToSet(source')
         /\ \/ toggles' = toggles /\ active' = active
            \/ toggles' = toggles + 1 /\ active' = ~active
         /\ \/ owed' = owed
            \/ \E i \in Item \ ToSet(source) : owed' = owed \cup {i} /\ (fireOnFirst \/ row.polled)
<1>1. row \in Row /\ source \in Seq(Item)
  BY DEF TypeOK
<1>2. ASSUME UNCHANGED <<active, source, row, w, histVars, envVars>>
      PROVE  /\ UNCHANGED <<w, fireOnFirst, fired, backlog, capped, outages, errors, failures, cuts>>
             /\ UNCHANGED <<row, source, active, toggles, owed>>
  BY <1>2 DEF histVars, envVars
<1>3. CASE IntervalPasses
  <2>1. PICK m : m = [row EXCEPT !.due = TRUE]
    OBVIOUS
  <2>2. row' = m /\ row.exists
    BY <1>3, <2>1 DEF IntervalPasses
  <2>3. m \in Row /\ m.seen = row.seen /\ m.polled = row.polled /\ m.exists = row.exists
    BY <1>1, <2>1 DEF Row
  <2>4. UNCHANGED <<w, fireOnFirst, fired, backlog, capped, outages, errors, failures, cuts>>
        /\ UNCHANGED <<source, active, toggles, owed>>
    BY <1>3 DEF IntervalPasses, histVars, envVars
  <2>. QED
    BY <1>1, <2>2, <2>3, <2>4
<1>4. CASE NewItem
  <2>1. PICK i \in Item \ ToSet(source) :
          /\ source' \in {<<i>> \o source, Append(source, i)}
          /\ owed' = IF active /\ row.exists /\ (fireOnFirst \/ row.polled) THEN owed \cup {i} ELSE owed
    BY <1>4 DEF NewItem
  <2>2. source' \in Seq(Item) /\ ToSet(source) \subseteq ToSet(source')
    <3>1. <<i>> \o source \in Seq(Item) /\ ToSet(<<i>> \o source) = ToSet(source) \cup {i}
      BY <1>1, <2>1, ElementsOfPrepend
    <3>2. Append(source, i) \in Seq(Item) /\ ToSet(Append(source, i)) = ToSet(source) \cup {i}
      BY <1>1, <2>1, ElementsOfAppend
    <3>. QED
      BY <2>1, <3>1, <3>2
  <2>3. UNCHANGED <<w, fireOnFirst, fired, backlog, capped, outages, errors, failures, cuts>>
        /\ UNCHANGED <<active, row, toggles>>
    BY <1>4 DEF NewItem, envVars
  <2>. QED
    BY <1>1, <2>1, <2>2, <2>3
<1>5. CASE Toggle
  BY <1>1, <1>5 DEF Toggle, histVars
<1>6. CASE \E r \in Replica : Restart(r)
  BY <1>1, <1>2, <1>6 DEF Restart
<1>7. CASE UNCHANGED vars
  BY <1>1, <1>2, <1>7 DEF vars
<1>. QED
  BY <1>1, <1>2, <1>3, <1>4, <1>5, <1>6, <1>7 DEF World

\* The reconciler keeps the row, makes it or prunes it.
LEMMA Reconciled ==
  ASSUME TypeOK, NEW r \in Replica, Reconcile(r)
  PROVE  /\ \/ UNCHANGED <<row, backlog, owed>>
            \/ /\ ~row.exists /\ active /\ row' = NewRow /\ backlog' = ToSet(source)
               /\ owed' = IF fireOnFirst THEN ToSet(source) ELSE owed
            \/ /\ row' = NoRow /\ backlog' = backlog
               /\ \/ owed' = {}
                  \/ owed' = owed /\ outages' = outages + 1
         /\ UNCHANGED outages =>
              \/ UNCHANGED row /\ active /\ row.exists
              \/ ~row.exists /\ active /\ row' = NewRow
              \/ ~active /\ row' = NoRow /\ owed' = {}
         /\ outages' \in {outages, outages + 1}
         /\ UNCHANGED <<active, source, fireOnFirst, fired, capped, errors, failures, toggles, cuts>>
<1>1. outages \in Nat
  BY DEF TypeOK
<1>2. outages + 1 # outages
  BY <1>1
<1>. QED
  BY <1>2 DEF Reconcile, Wanted, Prune

\* The lease and the replicas.
LEMMA LeaseTypes ==
  ASSUME TypeOK, [Next]_vars
  PROVE  LeaseTypeOK'
<1>. USE DEF LeaseTypeOK
<1>1. LeaseTypeOK /\ LeaseTypeOK
  BY DEF TypeOK
<1>2. ASSUME NEW r \in Replica, Tick(r) PROVE LeaseTypeOK'
  <2>1. owner' = r /\ alive' = alive
    BY <1>2 DEF Tick, AcquireSingletonLease
  <2>2. live' = TRUE
    BY <1>2 DEF Tick, AcquireSingletonLease
  <2>3. live' \in BOOLEAN
    BY <2>2, Zenon
  <2>. QED
    BY <1>1, <2>1, <2>3
<1>3. CASE UNCHANGED leaseVars
  BY <1>1, <1>3 DEF leaseVars
<1>4. ASSUME NEW r \in Replica, Reconcile(r) \/ List(r) \/ Fetch(r) \/ EachItem(r) \/ Mark(r)
      PROVE  LeaseTypeOK'
  BY <1>3, <1>4 DEF Reconcile, List, Fetch, EachItem, Mark
<1>5. ASSUME NEW r \in Replica, CutShort(r) PROVE LeaseTypeOK'
  BY <1>1, <1>3, <1>5 DEF CutShort, MarkFails, Crash, Dies
<1>6. ASSUME NEW r \in Replica, Restart(r) PROVE LeaseTypeOK'
  BY <1>1, <1>6 DEF Restart, Returns
<1>7. CASE LeaseLapses
  <2>1. live' = FALSE
    BY <1>7 DEF LeaseLapses
  <2>2. live' \in BOOLEAN
    BY <2>1, Zenon
  <2>. QED
    BY <1>1, <1>7, <2>2 DEF LeaseLapses
<1>8. CASE IntervalPasses \/ NewItem \/ Toggle \/ UNCHANGED vars
  BY <1>3, <1>8 DEF IntervalPasses, NewItem, Toggle, vars
<1>. QED
  BY <1>2, <1>4, <1>5, <1>6, <1>7, <1>8 DEF Next, CutShort

LEMMA TypeInit == Init => TypeOK
<1>. SUFFICES ASSUME Init PROVE TypeOK
  OBVIOUS
<1>1. LeaseTypeOK
  <2>1. live = FALSE
    BY DEF Init, LeaseInit
  <2>2. live \in BOOLEAN
    BY <2>1, Zenon
  <2>. QED
    BY <2>2 DEF Init, LeaseInit, LeaseTypeOK
<1>2. active \in BOOLEAN /\ fireOnFirst \in BOOLEAN
  BY DEF Init
<1>3. capped = FALSE
  BY DEF Init
<1>4. capped \in BOOLEAN
  BY <1>3, Zenon
<1>5. source \in Seq(Item)
  <2>1. source = <<>> \/ \E i \in Item : source = <<i>>
    BY DEF Init
  <2>2. <<>> \in Seq(Item) /\ \A i \in Item : <<i>> \in Seq(Item)
    OBVIOUS
  <2>. QED
    BY <2>1, <2>2
<1>6. row \in Row /\ w \in [Replica -> Loop] /\ fired \in [Item -> Nat] /\ backlog \subseteq Item
      /\ owed \subseteq Item
  BY NoRowTypes DEF Init
<1>7. outages \in Nat /\ errors \in Nat /\ failures \in Nat /\ toggles \in Nat /\ cuts \in Nat
  BY DEF Init
<1>. QED
  BY <1>1, <1>2, <1>4, <1>5, <1>6, <1>7 DEF TypeOK

LEMMA TypeStep == TypeOK /\ [Next]_vars => TypeOK'
<1>. SUFFICES ASSUME TypeOK, [Next]_vars PROVE TypeOK'
  OBVIOUS
<1>1. /\ active \in BOOLEAN /\ source \in Seq(Item) /\ row \in Row /\ w \in [Replica -> Loop]
      /\ fired \in [Item -> Nat] /\ backlog \subseteq Item /\ owed \subseteq Item
      /\ fireOnFirst \in BOOLEAN /\ capped \in BOOLEAN
      /\ outages \in Nat /\ errors \in Nat /\ failures \in Nat /\ toggles \in Nat /\ cuts \in Nat
  BY DEF TypeOK
<1>2. LeaseTypeOK'
  BY LeaseTypes
<1>3. ToSet(source) \subseteq Item
  BY <1>1 DEF ToSet
<1>4. ASSUME NEW r \in Replica, Tick(r) \/ List(r) PROVE TypeOK'
  <2>1. UNCHANGED <<active, source, row, fired, backlog, owed, fireOnFirst, capped,
                    outages, errors, failures, toggles, cuts>>
    BY <1>4 DEF Tick, List, histVars, envVars
  <2>2. w' \in [Replica -> Loop]
    BY <1>4, TickMoves, ListMoves
  <2>. QED
    BY <1>1, <1>2, <2>1, <2>2 DEF TypeOK
<1>5. ASSUME NEW r \in Replica, Reconcile(r) PROVE TypeOK'
  <2>1. UNCHANGED <<active, source, fireOnFirst, fired, capped, errors, failures, toggles, cuts>>
        /\ outages' \in {outages, outages + 1}
    BY <1>5, Reconciled
  <2>2. row' \in {row, NewRow, NoRow} /\ backlog' \in {backlog, ToSet(source)}
        /\ owed' \in {owed, ToSet(source), {}}
    BY <1>5, Reconciled
  <2>3. row' \in Row /\ backlog' \subseteq Item /\ owed' \subseteq Item
    BY <1>1, <1>3, <2>2, NoRowTypes
  <2>4. outages' \in Nat
    BY <1>1, <2>1
  <2>5. w' \in [Replica -> Loop]
    BY <1>5, ReconcileMoves
  <2>. QED
    BY <1>1, <1>2, <2>1, <2>3, <2>4, <2>5 DEF TypeOK
<1>6. ASSUME NEW r \in Replica, Fetch(r) PROVE TypeOK'
  <2>1. UNCHANGED <<active, source, fireOnFirst, fired, backlog, owed, capped, outages, failures,
                    toggles, cuts>>
    BY <1>6 DEF Fetch, histVars
  <2>2. /\ w' \in [Replica -> Loop]
        /\ \/ UNCHANGED <<row, errors>>
           \/ MarkPolled(w[r].seen) /\ errors' = errors + 1
    BY <1>6, FetchMoves
  <2>3. w[r].seen \in Seq(Item)
    BY LoopFields
  <2>4. row' \in Row
    BY <1>1, <2>2, <2>3, Stored
  <2>5. errors' \in Nat
    BY <1>1, <2>2
  <2>. QED
    BY <1>1, <1>2, <2>1, <2>2, <2>4, <2>5 DEF TypeOK
<1>7. ASSUME NEW r \in Replica, EachItem(r) PROVE TypeOK'
  <2>1. UNCHANGED <<active, source, row, fireOnFirst, backlog, owed, outages, errors, toggles, cuts>>
    BY <1>7 DEF EachItem
  <2>2. PICK i : i = Head(w[r].rest)
    OBVIOUS
  <2>3. w' \in [Replica -> Loop] /\ i \in Item
        /\ fired' \in {fired, [fired EXCEPT ![i] = @ + 1]} /\ failures' \in {failures, failures + 1}
    BY <1>7, <2>2, ItemMoves
  <2>4. capped' = capped \/ capped' = TRUE
    BY <1>7, <2>2, ItemMoves
  <2>5. capped' \in BOOLEAN
    BY <1>1, <2>4, Zenon
  <2>6. fired' \in [Item -> Nat] /\ failures' \in Nat
    BY <1>1, <2>3
  <2>. QED
    BY <1>1, <1>2, <2>1, <2>3, <2>5, <2>6 DEF TypeOK
<1>8. ASSUME NEW r \in Replica, Mark(r) PROVE TypeOK'
  <2>1. UNCHANGED <<active, source, fired, backlog, owed, fireOnFirst, capped,
                    outages, errors, failures, toggles, cuts>>
    BY <1>8 DEF Mark, histVars, envVars
  <2>2. w' \in [Replica -> Loop] /\ MarkPolled(LastKeys(w[r].seen))
    BY <1>8, MarkMoves
  <2>3. LastKeys(w[r].seen) \in Seq(Item)
    BY LoopFields, LastKeysKeep
  <2>4. row' \in Row
    BY <1>1, <2>2, <2>3, Stored
  <2>. QED
    BY <1>1, <1>2, <2>1, <2>2, <2>4 DEF TypeOK
<1>9. ASSUME NEW r \in Replica, CutShort(r) PROVE TypeOK'
  <2>1. UNCHANGED <<active, source, row, fired, backlog, owed, fireOnFirst, capped,
                    outages, errors, failures, toggles>> /\ cuts' = cuts + 1
    BY <1>9 DEF CutShort, MarkFails, Crash, histVars
  <2>2. w' \in [Replica -> Loop]
    BY <1>9, CutMoves
  <2>. QED
    BY <1>1, <1>2, <2>1, <2>2 DEF TypeOK
<1>10. CASE World
  <2>1. UNCHANGED <<w, fireOnFirst, fired, backlog, capped, outages, errors, failures, cuts>>
        /\ row' \in Row /\ source' \in Seq(Item) /\ toggles' \in {toggles, toggles + 1}
    BY <1>10, WorldLeaves
  <2>2. owed' \subseteq Item
    BY <1>1, <1>10, WorldLeaves
  <2>3. active' = active \/ active' = ~active
    BY <1>10, WorldLeaves
  <2>4. active' \in BOOLEAN
    BY <1>1, <2>3, Zenon
  <2>5. toggles' \in Nat
    BY <1>1, <2>1
  <2>. QED
    BY <1>1, <1>2, <2>1, <2>2, <2>4, <2>5 DEF TypeOK
<1>. QED
  BY <1>4, <1>5, <1>6, <1>7, <1>8, <1>9, <1>10, StepsAre

\* Every variable has its type, however many replicas poll at a time (TypeOK).
THEOREM TypesCorrect == Spec => []TypeOK
BY TypeInit, TypeStep, PTL DEF Spec
-----------------------------------------------------------------------------
(* Where the loop stands. *)

LEMMA OneAtATimeStep ==
  ASSUME ~Stalls, TypeOK, OneAtATime, [Next]_vars
  PROVE  OneAtATime'
<1>1. ASSUME NEW r \in Replica, Tick(r) PROVE OneAtATime'
  <2>1. Acquirable(r) /\ owner' = r /\ live' /\ alive' = alive /\ r \in alive
    BY <1>1 DEF Tick, AcquireSingletonLease, At
  <2>2. \A p \in Replica \ {r} : w[p].pc = "idle"
    BY <2>1, CoordinatorAssumption DEF OneAtATime, Acquirable
  <2>. QED
    BY <1>1, <2>1, <2>2, TickMoves DEF OneAtATime
<1>2. ASSUME NEW r \in Replica, UNCHANGED leaseVars, w[r].pc # "idle",
             \A p \in Replica \ {r} : w'[p] = w[p]
      PROVE  OneAtATime'
  BY <1>2 DEF OneAtATime, leaseVars
<1>3. ASSUME NEW r \in Replica, Reconcile(r) \/ List(r) \/ Fetch(r) PROVE OneAtATime'
  <2>1. UNCHANGED leaseVars
    BY <1>3 DEF Reconcile, List, Fetch
  <2>2. w[r].pc # "idle" /\ \A p \in Replica \ {r} : w'[p] = w[p]
    BY <1>3, ReconcileMoves, ListMoves, FetchMoves
  <2>. QED
    BY <1>2, <2>1, <2>2
<1>4. ASSUME NEW r \in Replica, EachItem(r) PROVE OneAtATime'
  <2>1. PICK i : i = Head(w[r].rest)
    OBVIOUS
  <2>2. w[r].pc # "idle" /\ \A p \in Replica \ {r} : w'[p] = w[p]
    BY <1>4, <2>1, ItemMoves
  <2>. QED
    BY <1>2, <1>4, <2>2 DEF EachItem
<1>5. ASSUME NEW r \in Replica, Mark(r) PROVE OneAtATime'
  <2>1. w[r].pc # "idle" /\ \A p \in Replica \ {r} : w'[p] = w[p]
    BY <1>5, MarkMoves
  <2>. QED
    BY <1>2, <1>5, <2>1 DEF Mark
<1>6. ASSUME NEW r \in Replica, CutShort(r) PROVE OneAtATime'
  BY <1>6, CutMoves, NoRowTypes DEF CutShort, MarkFails, Crash, Dies, OneAtATime
<1>7. ASSUME NEW r \in Replica, Restart(r) PROVE OneAtATime'
  BY <1>7 DEF Restart, Returns, OneAtATime
<1>8. CASE LeaseLapses /\ UNCHANGED w
  BY <1>8 DEF LeaseLapses, OneAtATime
<1>9. CASE IntervalPasses \/ NewItem \/ Toggle \/ UNCHANGED vars
  <2>1. UNCHANGED leaseVars /\ UNCHANGED w
    BY <1>9 DEF IntervalPasses, NewItem, Toggle, vars
  <2>. QED
    BY <2>1 DEF OneAtATime, leaseVars
<1>. QED
  BY <1>1, <1>3, <1>4, <1>5, <1>6, <1>7, <1>8, <1>9 DEF Next, CutShort

LEMMA LoopFacts ==
  ASSUME LoopInv
  PROVE  /\ TypeOK /\ OneAtATime /\ Listed /\ PollsTheRow
         /\ row \in Row /\ row.seen \in Seq(Item) /\ source \in Seq(Item)
         /\ fired \in [Item -> Nat] /\ owed \subseteq Item /\ backlog \subseteq Item
         /\ outages \in Nat /\ errors \in Nat /\ failures \in Nat /\ toggles \in Nat /\ cuts \in Nat
         /\ \A p, q \in Replica : w[p].pc # "idle" /\ w[q].pc # "idle" => p = q
<1>1. TypeOK /\ OneAtATime /\ Listed /\ PollsTheRow
  BY DEF LoopInv
<1>2. row \in Row /\ source \in Seq(Item) /\ fired \in [Item -> Nat] /\ owed \subseteq Item
      /\ backlog \subseteq Item
      /\ outages \in Nat /\ errors \in Nat /\ failures \in Nat /\ toggles \in Nat /\ cuts \in Nat
  BY <1>1 DEF TypeOK
<1>3. row.seen \in Seq(Item)
  BY <1>2 DEF Row
<1>4. \A p, q \in Replica : w[p].pc # "idle" /\ w[q].pc # "idle" => p = q
  BY <1>1 DEF OneAtATime
<1>. QED
  BY <1>1, <1>2, <1>3, <1>4

\* A step of the loop that leaves the row alone.
LEMMA LoopQuiet ==
  ASSUME LoopInv, NEW r \in Replica, UNCHANGED <<source, row, fired, backlog>>,
         \A p \in Replica \ {r} : w'[p] = w[p],
         ToSet(w'[r].seen) \subseteq ToSet(source),
         w'[r].pc = "items" => ToSet(w'[r].rest) \subseteq ToSet(source),
         Polling(r)' => /\ row.exists /\ ToSet(row.seen) \subseteq ToSet(w'[r].seen)
                        /\ w'[r].first = ~row.polled
  PROVE  Listed' /\ PollsTheRow'
<1>1. Listed'
  BY LoopFacts DEF Listed, Seen
<1>2. PollsTheRow'
  BY LoopFacts DEF PollsTheRow, Polling, Seen
<1>. QED
  BY <1>1, <1>2

\* A step that replaces the row while no other replica polls.
LEMMA LoopStores ==
  ASSUME LoopInv, NEW r \in Replica, w[r].pc # "idle", UNCHANGED <<source, fired>>,
         \A p \in Replica \ {r} : w'[p] = w[p], ~Polling(r)', w'[r].pc # "items",
         ToSet(w'[r].seen) \subseteq ToSet(source),
         ToSet(row'.seen) \subseteq ToSet(source), backlog' \subseteq ToSet(source),
         ~row'.polled => row'.seen = <<>>, ~row'.exists => row' = NoRow
  PROVE  Listed' /\ PollsTheRow'
<1>1. Listed'
  BY LoopFacts DEF Listed, Seen
<1>2. \A p \in Replica : ~Polling(p)'
  BY LoopFacts DEF Polling
<1>3. PollsTheRow'
  BY <1>2 DEF PollsTheRow
<1>. QED
  BY <1>1, <1>3

LEMMA LoopStep == ~Stalls /\ LoopInv /\ [Next]_vars => LoopInv'
<1>. SUFFICES ASSUME ~Stalls, LoopInv, [Next]_vars PROVE Listed' /\ PollsTheRow'
  BY TypeStep, OneAtATimeStep, LoopFacts DEF LoopInv
<1>1. TypeOK /\ Listed /\ PollsTheRow
  BY LoopFacts
<1>2. ASSUME NEW r \in Replica, Tick(r) PROVE Listed' /\ PollsTheRow'
  <2>1. UNCHANGED <<source, row, fired, backlog>>
    BY <1>2 DEF Tick, histVars
  <2>2. (\A p \in Replica \ {r} : w'[p] = w[p]) /\ w'[r].seen = w[r].seen
        /\ w'[r].pc \in {"reconcile", "list"}
    BY <1>1, <1>2, TickMoves
  <2>3. ToSet(w'[r].seen) \subseteq ToSet(source) /\ ~Polling(r)' /\ w'[r].pc # "items"
    BY <1>1, <2>2 DEF Listed, Seen, Polling
  <2>. QED
    BY <2>1, <2>2, <2>3, LoopQuiet
<1>3. ASSUME NEW r \in Replica, Reconcile(r) PROVE Listed' /\ PollsTheRow'
  <2>1. UNCHANGED <<source, fired>>
        /\ \/ UNCHANGED <<row, backlog>>
           \/ row' = NewRow /\ backlog' = ToSet(source)
           \/ row' = NoRow /\ backlog' = backlog
    BY <1>1, <1>3, Reconciled
  <2>2. (\A p \in Replica \ {r} : w'[p] = w[p]) /\ w'[r].seen = w[r].seen
        /\ w'[r].pc = "list" /\ w[r].pc # "idle"
    BY <1>1, <1>3, ReconcileMoves
  <2>3. ToSet(w'[r].seen) \subseteq ToSet(source) /\ ~Polling(r)' /\ w'[r].pc # "items"
    BY <1>1, <2>2 DEF Listed, Seen, Polling
  <2>4. ToSet(row'.seen) \subseteq ToSet(source) /\ backlog' \subseteq ToSet(source)
    BY <1>1, <2>1, NoRowTypes, ElementsOfEmpty DEF Listed
  <2>5. (~row'.polled => row'.seen = <<>>) /\ (~row'.exists => row' = NoRow)
    BY <1>1, <2>1, NoRowTypes DEF PollsTheRow
  <2>. QED
    BY <2>1, <2>2, <2>3, <2>4, <2>5, LoopStores
<1>4. ASSUME NEW r \in Replica, List(r) PROVE Listed' /\ PollsTheRow'
  <2>1. UNCHANGED <<source, row, fired, backlog>>
    BY <1>4 DEF List, histVars
  <2>2. /\ \A p \in Replica \ {r} : w'[p] = w[p]
        /\ \/ w'[r].seen = <<>> /\ w'[r].pc = "idle"
           \/ /\ row.exists /\ w'[r].pc = "fetch" /\ w'[r].seen = row.seen
              /\ w'[r].first = (row.seen = <<>> /\ ~row.polled)
    BY <1>1, <1>4, ListMoves, NoRowTypes
  <2>3. ToSet(w'[r].seen) \subseteq ToSet(source) /\ w'[r].pc # "items"
    BY <1>1, <2>2, ElementsOfEmpty DEF Listed
  <2>4. Polling(r)' => /\ row.exists /\ ToSet(row.seen) \subseteq ToSet(w'[r].seen)
                       /\ w'[r].first = ~row.polled
    BY <1>1, <2>2 DEF PollsTheRow, Polling
  <2>. QED
    BY <2>1, <2>2, <2>3, <2>4, LoopQuiet
<1>5. ASSUME NEW r \in Replica, Fetch(r) PROVE Listed' /\ PollsTheRow'
  <2>1. UNCHANGED <<source, fired, backlog>>
    BY <1>5 DEF Fetch, histVars
  <2>2. /\ \A p \in Replica \ {r} : w'[p] = w[p]
        /\ w[r].pc = "fetch" /\ Polling(r)
    BY <1>1, <1>5, FetchMoves DEF Polling
  <2>3. CASE /\ w'[r].pc = "items" /\ w'[r].rest = source
             /\ w'[r].seen = w[r].seen /\ w'[r].first = w[r].first /\ UNCHANGED row
    <3>1. ToSet(w'[r].seen) \subseteq ToSet(source)
      BY <1>1, <2>3 DEF Listed, Seen
    <3>2. row.exists /\ ToSet(row.seen) \subseteq ToSet(w'[r].seen) /\ w'[r].first = ~row.polled
      BY <1>1, <2>2, <2>3 DEF PollsTheRow, Seen
    <3>. QED
      BY <2>1, <2>2, <2>3, <3>1, <3>2, LoopQuiet
  <2>4. CASE w'[r] = Idle /\ MarkPolled(w[r].seen)
    <3>1. row.exists /\ row'.exists /\ row'.seen = w[r].seen /\ row'.polled
      BY <1>1, <2>2, <2>4, Stored, LoopFields, LoopFacts DEF PollsTheRow
    <3>2. ToSet(row'.seen) \subseteq ToSet(source) /\ backlog' \subseteq ToSet(source)
      BY <1>1, <2>1, <3>1 DEF Listed, Seen
    <3>3. ToSet(w'[r].seen) \subseteq ToSet(source) /\ ~Polling(r)' /\ w'[r].pc # "items"
      BY <2>4, NoRowTypes, ElementsOfEmpty DEF Polling
    <3>. QED
      BY <2>1, <2>2, <3>1, <3>2, <3>3, LoopStores
  <2>. QED
    BY <1>1, <1>5, <2>3, <2>4, FetchMoves
<1>6. ASSUME NEW r \in Replica, EachItem(r) PROVE Listed' /\ PollsTheRow'
  <2>1. UNCHANGED <<source, row, backlog>>
    BY <1>6 DEF EachItem
  <2>2. PICK i : i = Head(w[r].rest)
    OBVIOUS
  <2>3. /\ \A p \in Replica \ {r} : w'[p] = w[p]
        /\ i \in Item /\ ToSet(w[r].rest) = {i} \cup ToSet(w'[r].rest)
        /\ w[r].pc = "items" /\ w'[r].first = w[r].first
        /\ w'[r].seen \in {w[r].seen, Append(w[r].seen, i)}
        /\ fired' \in {fired, [fired EXCEPT ![i] = @ + 1]}
    BY <1>1, <1>6, <2>2, ItemMoves
  <2>4. ToSet(Append(w[r].seen, i)) = ToSet(w[r].seen) \cup {i}
    BY <1>1, <2>3, LoopFields, ElementsOfAppend
  <2>5. i \in ToSet(source) /\ ToSet(w'[r].rest) \subseteq ToSet(source)
    BY <1>1, <2>3 DEF Listed
  <2>6. ToSet(w'[r].seen) \subseteq ToSet(source)
    BY <1>1, <2>3, <2>4, <2>5 DEF Listed, Seen
  <2>7. \A j \in Item : fired'[j] > 0 => j \in ToSet(source)
    BY <2>3, <2>5, LoopFacts DEF Listed
  <2>8. Listed'
    BY <1>1, <2>1, <2>3, <2>5, <2>6, <2>7 DEF Listed, Seen
  <2>9. row.exists /\ ToSet(row.seen) \subseteq ToSet(w'[r].seen) /\ w'[r].first = ~row.polled
    BY <1>1, <2>3, <2>4 DEF PollsTheRow, Polling, Seen
  <2>10. PollsTheRow'
    BY <1>1, <2>1, <2>3, <2>9 DEF PollsTheRow, Polling, Seen
  <2>. QED
    BY <2>8, <2>10
<1>7. ASSUME NEW r \in Replica, Mark(r) PROVE Listed' /\ PollsTheRow'
  <2>1. UNCHANGED <<source, fired, backlog>>
    BY <1>7 DEF Mark, histVars
  <2>2. /\ \A p \in Replica \ {r} : w'[p] = w[p]
        /\ w'[r] = Idle /\ MarkPolled(LastKeys(w[r].seen)) /\ Polling(r) /\ w[r].pc # "idle"
    BY <1>1, <1>7, MarkMoves DEF Polling
  <2>3. LastKeys(w[r].seen) \in Seq(Item) /\ ToSet(LastKeys(w[r].seen)) \subseteq ToSet(w[r].seen)
    BY <1>1, LoopFields, LastKeysKeep
  <2>4. row.exists /\ row'.exists /\ row'.seen = LastKeys(w[r].seen) /\ row'.polled
    BY <1>1, <2>2, <2>3, Stored, LoopFacts DEF PollsTheRow
  <2>5. ToSet(row'.seen) \subseteq ToSet(source) /\ backlog' \subseteq ToSet(source)
    BY <1>1, <2>1, <2>3, <2>4 DEF Listed, Seen
  <2>6. ToSet(w'[r].seen) \subseteq ToSet(source) /\ ~Polling(r)' /\ w'[r].pc # "items"
    BY <2>2, NoRowTypes, ElementsOfEmpty DEF Polling
  <2>. QED
    BY <2>1, <2>2, <2>4, <2>5, <2>6, LoopStores
<1>8. ASSUME NEW r \in Replica, CutShort(r) PROVE Listed' /\ PollsTheRow'
  <2>1. UNCHANGED <<source, row, fired, backlog>>
    BY <1>8 DEF CutShort, MarkFails, Crash, histVars
  <2>2. (\A p \in Replica \ {r} : w'[p] = w[p]) /\ w'[r] = Idle
    BY <1>1, <1>8, CutMoves
  <2>3. ToSet(w'[r].seen) \subseteq ToSet(source) /\ ~Polling(r)' /\ w'[r].pc # "items"
    BY <2>2, NoRowTypes, ElementsOfEmpty DEF Polling
  <2>. QED
    BY <2>1, <2>2, <2>3, LoopQuiet
<1>9. CASE World
  <2>1. UNCHANGED <<w, fired, backlog>> /\ row'.seen = row.seen /\ row'.polled = row.polled
        /\ row'.exists = row.exists /\ (~row.exists => row' = row)
        /\ ToSet(source) \subseteq ToSet(source')
    BY <1>1, <1>9, WorldLeaves
  <2>2. Listed'
    BY <1>1, <2>1 DEF Listed, Seen
  <2>3. PollsTheRow'
    BY <1>1, <2>1 DEF PollsTheRow, Polling, Seen
  <2>. QED
    BY <2>2, <2>3
<1>. QED
  BY <1>2, <1>3, <1>4, <1>5, <1>6, <1>7, <1>8, <1>9, StepsAre

LEMMA LoopInit == Init => LoopInv
<1>. SUFFICES ASSUME Init PROVE LoopInv
  OBVIOUS
<1>1. row = NoRow /\ backlog = {} /\ \A i \in Item : fired[i] = 0
  BY DEF Init
<1>2. \A r \in Replica : w[r] = Idle
  BY DEF Init
<1>3. Listed /\ PollsTheRow /\ OneAtATime
  BY <1>1, <1>2, NoRowTypes, ElementsOfEmpty DEF Listed, PollsTheRow, OneAtATime, Polling, Seen
<1>. QED
  BY <1>3, TypeInit DEF LoopInv
-----------------------------------------------------------------------------
(* No item is skipped. *)

\* What counts as seen, in the row or in a poll, has a run if it is owed one.
AllRun(keys) == \A i \in owed : i \in ToSet(keys) => fired[i] > 0

LEMMA SkipFacts ==
  ASSUME SkipInv
  PROVE  /\ LoopInv
         /\ ~Dropped => /\ AllRun(row.seen) /\ (~row.polled /\ ~fireOnFirst => owed = {})
                        /\ \A r \in Replica : Polling(r) => AllRun(w[r].seen)
BY DEF SkipInv, SeenHaveRuns, AllRun, Seen

LEMMA SkipStep == ~Stalls /\ SkipInv /\ [Next]_vars => SkipInv'
<1>. SUFFICES ASSUME ~Stalls, SkipInv, [Next]_vars, ~Dropped'
              PROVE  /\ AllRun(row.seen)' /\ (~row.polled /\ ~fireOnFirst => owed = {})'
                     /\ \A r \in Replica : Polling(r)' => AllRun(w[r].seen)'
  BY LoopStep DEF SkipInv, SeenHaveRuns, AllRun, Seen
<1>1. LoopInv /\ TypeOK /\ Listed /\ PollsTheRow
      /\ capped' = FALSE /\ failures' = 0 /\ outages' = 0
      /\ capped \in BOOLEAN /\ failures \in Nat /\ outages \in Nat
  <2>1. ~capped' /\ ~(failures' > 0) /\ ~(outages' > 0) /\ TypeOK' /\ TypeOK
    BY LoopStep, LoopFacts DEF SkipInv, LoopInv, Dropped
  <2>2. capped' \in BOOLEAN /\ failures' \in Nat /\ outages' \in Nat
        /\ capped \in BOOLEAN /\ failures \in Nat /\ outages \in Nat
    BY <2>1 DEF TypeOK
  <2>3. capped' = FALSE
    BY <2>1, <2>2, Zenon
  <2>4. failures' = 0 /\ outages' = 0
    BY <2>1, <2>2
  <2>. QED
    BY <2>2, <2>3, <2>4, LoopFacts DEF SkipInv
<1>2. ASSUME UNCHANGED <<capped, failures, outages>>
      PROVE  /\ AllRun(row.seen) /\ (~row.polled /\ ~fireOnFirst => owed = {})
             /\ \A r \in Replica : Polling(r) => AllRun(w[r].seen)
  BY <1>1, <1>2, SkipFacts DEF Dropped
<1>3. ASSUME NEW r \in Replica, Tick(r)
      PROVE  /\ AllRun(row.seen)' /\ (~row.polled /\ ~fireOnFirst => owed = {})'
             /\ \A p \in Replica : Polling(p)' => AllRun(w[p].seen)'
  <2>1. UNCHANGED <<row, fireOnFirst, fired, owed, capped, failures, outages>>
    BY <1>3 DEF Tick, histVars, envVars
  <2>2. (\A p \in Replica \ {r} : w'[p] = w[p]) /\ ~Polling(r)'
    BY <1>1, <1>3, TickMoves DEF Polling
  <2>. QED
    BY <1>2, <2>1, <2>2 DEF AllRun, Polling
<1>4. ASSUME NEW r \in Replica, Reconcile(r)
      PROVE  /\ AllRun(row.seen)' /\ (~row.polled /\ ~fireOnFirst => owed = {})'
             /\ \A p \in Replica : Polling(p)' => AllRun(w[p].seen)'
  <2>1. UNCHANGED <<fireOnFirst, fired, capped, failures>> /\ outages' \in {outages, outages + 1}
    BY <1>1, <1>4, Reconciled
  <2>2. UNCHANGED outages
    BY <1>1, <2>1
  <2>3. \/ UNCHANGED <<row, owed>>
        \/ ~row.exists /\ row' = NewRow /\ owed' = IF fireOnFirst THEN ToSet(source) ELSE owed
        \/ row' = NoRow /\ owed' = {}
    <3>1. outages' # outages + 1
      BY <1>1, <2>2
    <3>. QED
      BY <1>1, <1>4, <3>1, Reconciled
  <2>4. \A p \in Replica : ~Polling(p)'
    <3>1. (\A p \in Replica \ {r} : w'[p] = w[p]) /\ w[r].pc # "idle" /\ ~Polling(r)'
      BY <1>1, <1>4, ReconcileMoves DEF Polling
    <3>. QED
      BY <1>1, <3>1, LoopFacts DEF Polling
  <2>5. AllRun(row.seen) /\ (~row.polled /\ ~fireOnFirst => owed = {})
    BY <1>2, <2>1, <2>2
  <2>6. ~row.exists => ~row.polled
    BY <1>1, NoRowTypes DEF PollsTheRow
  <2>7. AllRun(row.seen)'
    BY <2>1, <2>3, <2>5, NoRowTypes, ElementsOfEmpty DEF AllRun
  <2>8. (~row.polled /\ ~fireOnFirst => owed = {})'
    BY <2>1, <2>3, <2>5, <2>6, NoRowTypes
  <2>. QED
    BY <2>4, <2>7, <2>8
<1>5. ASSUME NEW r \in Replica, List(r)
      PROVE  /\ AllRun(row.seen)' /\ (~row.polled /\ ~fireOnFirst => owed = {})'
             /\ \A p \in Replica : Polling(p)' => AllRun(w[p].seen)'
  <2>1. UNCHANGED <<row, fireOnFirst, fired, owed, capped, failures, outages>>
    BY <1>5 DEF List, histVars, envVars
  <2>2. (\A p \in Replica \ {r} : w'[p] = w[p]) /\ (Polling(r)' => w'[r].seen = row.seen)
    BY <1>1, <1>5, ListMoves, NoRowTypes DEF Polling
  <2>. QED
    BY <1>2, <2>1, <2>2 DEF AllRun, Polling
<1>6. ASSUME NEW r \in Replica, Fetch(r)
      PROVE  /\ AllRun(row.seen)' /\ (~row.polled /\ ~fireOnFirst => owed = {})'
             /\ \A p \in Replica : Polling(p)' => AllRun(w[p].seen)'
  <2>1. UNCHANGED <<fireOnFirst, fired, owed, capped, failures, outages>>
    BY <1>6 DEF Fetch, histVars
  <2>2. /\ \A p \in Replica \ {r} : w'[p] = w[p]
        /\ Polling(r)
        /\ \/ w'[r].seen = w[r].seen /\ UNCHANGED row
           \/ w'[r] = Idle /\ MarkPolled(w[r].seen)
    BY <1>1, <1>6, FetchMoves DEF Polling
  <2>3. CASE w'[r].seen = w[r].seen /\ UNCHANGED row
    BY <1>2, <2>1, <2>2, <2>3 DEF AllRun, Polling
  <2>4. CASE w'[r] = Idle /\ MarkPolled(w[r].seen)
    <3>1. row'.seen = w[r].seen /\ row'.polled
      BY <1>1, <2>2, <2>4, Stored, LoopFields, LoopFacts DEF PollsTheRow
    <3>2. ~Polling(r)'
      BY <2>4, NoRowTypes DEF Polling
    <3>. QED
      BY <1>2, <2>1, <2>2, <3>1, <3>2 DEF AllRun, Polling
  <2>. QED
    BY <2>2, <2>3, <2>4
<1>7. ASSUME NEW r \in Replica, EachItem(r)
      PROVE  /\ AllRun(row.seen)' /\ (~row.polled /\ ~fireOnFirst => owed = {})'
             /\ \A p \in Replica : Polling(p)' => AllRun(w[p].seen)'
  <2>1. UNCHANGED <<row, fireOnFirst, owed, outages>>
    BY <1>7 DEF EachItem
  <2>2. PICK i : i = Head(w[r].rest)
    OBVIOUS
  <2>3. /\ \A p \in Replica \ {r} : w'[p] = w[p]
        /\ i \in Item /\ w[r].pc = "items" /\ Polling(r) /\ w[r].pc # "idle"
    BY <1>1, <1>7, <2>2, ItemMoves DEF Polling
  <2>4. \/ w'[r].seen = w[r].seen /\ UNCHANGED <<fired, failures, capped>>
        \/ /\ w'[r].seen = Append(w[r].seen, i) /\ UNCHANGED <<failures, capped>>
           /\ \/ Seeds(w[r]) /\ UNCHANGED fired
              \/ fired' = [fired EXCEPT ![i] = @ + 1]
    <3>1. capped' # TRUE
      BY <1>1
    <3>2. failures' # failures + 1
      <4>1. failures \in Nat /\ failures' = 0
        BY <1>1
      <4>. QED
        BY <4>1
    <3>. QED
      BY <1>1, <1>7, <2>2, <3>1, <3>2, ItemMoves
  <2>5. AllRun(row.seen) /\ (~row.polled /\ ~fireOnFirst => owed = {}) /\ AllRun(w[r].seen)
    BY <1>2, <2>1, <2>3, <2>4
  <2>6. \A j \in Item : fired[j] > 0 => fired'[j] > 0
    <3>1. fired \in [Item -> Nat]
      BY <1>1, LoopFacts
    <3>2. fired' = fired \/ fired' = [fired EXCEPT ![i] = @ + 1]
      BY <2>4
    <3>. QED
      BY <2>3, <3>1, <3>2
  <2>7. ToSet(Append(w[r].seen, i)) = ToSet(w[r].seen) \cup {i}
    BY <1>1, <2>3, LoopFields, ElementsOfAppend
  <2>8. Seeds(w[r]) => owed = {}
    BY <1>1, <2>3, <2>5 DEF Seeds, PollsTheRow
  <2>9. owed \subseteq Item
    BY <1>1, LoopFacts
  <2>10. AllRun(w[r].seen)'
    <3>1. fired' = [fired EXCEPT ![i] = @ + 1] => fired'[i] > 0
      BY <1>1, <2>3, LoopFacts
    <3>. QED
      BY <2>1, <2>4, <2>5, <2>6, <2>7, <2>8, <2>9, <3>1 DEF AllRun
  <2>11. \A p \in Replica \ {r} : ~Polling(p)'
    BY <1>1, <2>3, LoopFacts DEF Polling
  <2>12. AllRun(row.seen)'
    BY <2>1, <2>5, <2>6, <2>9 DEF AllRun
  <2>. QED
    BY <2>1, <2>5, <2>10, <2>11, <2>12
<1>8. ASSUME NEW r \in Replica, Mark(r)
      PROVE  /\ AllRun(row.seen)' /\ (~row.polled /\ ~fireOnFirst => owed = {})'
             /\ \A p \in Replica : Polling(p)' => AllRun(w[p].seen)'
  <2>1. UNCHANGED <<fireOnFirst, fired, owed, capped, failures, outages>>
    BY <1>8 DEF Mark, histVars, envVars
  <2>2. /\ \A p \in Replica \ {r} : w'[p] = w[p]
        /\ MarkPolled(LastKeys(w[r].seen)) /\ Polling(r) /\ ~Polling(r)'
    BY <1>1, <1>8, MarkMoves, NoRowTypes DEF Polling
  <2>3. LastKeys(w[r].seen) \in Seq(Item) /\ ToSet(LastKeys(w[r].seen)) \subseteq ToSet(w[r].seen)
    BY <1>1, LoopFields, LastKeysKeep
  <2>4. row'.seen = LastKeys(w[r].seen) /\ row'.polled
    BY <1>1, <2>2, <2>3, Stored, LoopFacts DEF PollsTheRow
  <2>. QED
    BY <1>2, <2>1, <2>2, <2>3, <2>4 DEF AllRun, Polling
<1>9. ASSUME NEW r \in Replica, CutShort(r)
      PROVE  /\ AllRun(row.seen)' /\ (~row.polled /\ ~fireOnFirst => owed = {})'
             /\ \A p \in Replica : Polling(p)' => AllRun(w[p].seen)'
  <2>1. UNCHANGED <<row, fireOnFirst, fired, owed, capped, failures, outages>>
    BY <1>9 DEF CutShort, MarkFails, Crash, histVars
  <2>2. (\A p \in Replica \ {r} : w'[p] = w[p]) /\ ~Polling(r)'
    BY <1>1, <1>9, CutMoves, NoRowTypes DEF Polling
  <2>. QED
    BY <1>2, <2>1, <2>2 DEF AllRun, Polling
<1>10. CASE World
  <2>1. UNCHANGED <<w, fireOnFirst, fired, capped, failures, outages>>
        /\ row'.seen = row.seen /\ row'.polled = row.polled
        /\ \/ owed' = owed
           \/ \E i \in Item \ ToSet(source) : owed' = owed \cup {i} /\ (fireOnFirst \/ row.polled)
    BY <1>1, <1>10, WorldLeaves
  <2>2. \A i \in owed' \ owed : i \notin ToSet(source)
    BY <2>1
  <2>3. ToSet(row.seen) \subseteq ToSet(source)
        /\ \A r \in Replica : ToSet(w[r].seen) \subseteq ToSet(source)
    BY <1>1 DEF Listed, Seen
  <2>4. AllRun(row.seen)' /\ \A r \in Replica : Polling(r)' => AllRun(w[r].seen)'
    BY <1>2, <2>1, <2>2, <2>3 DEF AllRun, Polling
  <2>5. (~row.polled /\ ~fireOnFirst => owed = {})'
    BY <1>2, <2>1
  <2>. QED
    BY <2>4, <2>5
<1>. QED
  BY <1>3, <1>4, <1>5, <1>6, <1>7, <1>8, <1>9, <1>10, StepsAre

\* While a live holder of the coordinator lease renews it, an item that came after the first
\* poll (or any, with fire_on_first) is recorded as seen only when a run was started for it,
\* apart from the three ways in which the code is known to drop one (NothingSkipped): for
\* every dedup window, with crashes, failed polls and lease takeovers at any point.
THEOREM NothingSkippedUnlessStalled == ASSUME ~Stalls PROVE Spec => []NothingSkipped
<1>1. Init => SkipInv
  <2>. SUFFICES ASSUME Init PROVE SkipInv
    OBVIOUS
  <2>1. owed = {}
    BY DEF Init
  <2>. QED
    BY <2>1, LoopInit DEF SkipInv, SeenHaveRuns
<1>2. SkipInv /\ [Next]_vars => SkipInv'
  BY SkipStep
<1>3. SkipInv => NothingSkipped
  BY DEF SkipInv, SeenHaveRuns, NothingSkipped
<1>. QED
  BY <1>1, <1>2, <1>3, PTL DEF Spec
-----------------------------------------------------------------------------
(* No item is fired again. *)

\* The window is wide enough for every key.
LEMMA WindowKeepsAll ==
  ASSUME WindowIsWide, NEW s \in Seq(Item), Distinct(s)
  PROVE  LastKeys(s) = s
<1>1. Len(s) <= Cardinality(Item) /\ Len(s) \in Nat
  BY DistinctFit DEF WindowIsWide
<1>2. Cardinality(Item) \in Nat /\ Cardinality(Item) <= Window /\ Window \in Nat
  BY FS_CardinalityType, PollAssumption DEF WindowIsWide
<1>3. Len(s) <= Window
  BY <1>1, <1>2
<1>. QED
  BY <1>3, LastKeysKeep

LEMMA OnceFacts ==
  ASSUME OnceInv
  PROVE  /\ LoopInv /\ TypeOK /\ OneAtATime /\ Listed /\ PollsTheRow
         /\ KeysAreDistinct /\ FirstPollMeetsAll /\ UsedUpIsRemembered /\ BacklogIsRemembered
         /\ row \in Row /\ row.seen \in Seq(Item) /\ source \in Seq(Item)
         /\ fired \in [Item -> Nat] /\ backlog \subseteq Item
         /\ outages \in Nat /\ errors \in Nat /\ failures \in Nat /\ toggles \in Nat /\ cuts \in Nat
         /\ \A p, q \in Replica : w[p].pc # "idle" /\ w[q].pc # "idle" => p = q
<1>1. LoopInv /\ KeysAreDistinct /\ FirstPollMeetsAll /\ UsedUpIsRemembered /\ BacklogIsRemembered
  BY DEF OnceInv
<1>. QED
  BY <1>1, LoopFacts

LEMMA DistinctStep ==
  ASSUME WindowIsWide, OnceInv, [Next]_vars
  PROVE  KeysAreDistinct'
<1>1. TypeOK /\ Distinct(row.seen) /\ \A r \in Replica : Distinct(w[r].seen)
  BY OnceFacts DEF KeysAreDistinct
<1>2. Distinct(<<>>)
  BY DEF Distinct
<1>3. ASSUME NEW r \in Replica, \A p \in Replica \ {r} : w'[p] = w[p],
             Distinct(w'[r].seen), Distinct(row'.seen)
      PROVE  KeysAreDistinct'
  BY <1>1, <1>3 DEF KeysAreDistinct
<1>4. ASSUME NEW r \in Replica, NEW keys, keys = w[r].seen, MarkPolled(keys) PROVE Distinct(row'.seen)
  <2>1. row'.seen = row.seen \/ row'.seen = keys
    BY <1>1, <1>4, Stored, LoopFields, OnceFacts
  <2>. QED
    BY <1>1, <1>4, <2>1
<1>5. ASSUME NEW r \in Replica, Tick(r) PROVE KeysAreDistinct'
  BY <1>1, <1>3, <1>5, TickMoves DEF Tick
<1>6. ASSUME NEW r \in Replica, Reconcile(r) PROVE KeysAreDistinct'
  <2>1. row' \in {row, NewRow, NoRow}
    BY <1>1, <1>6, Reconciled
  <2>2. Distinct(row'.seen)
    BY <1>1, <1>2, <2>1, NoRowTypes
  <2>. QED
    BY <1>1, <1>3, <1>6, <2>2, ReconcileMoves
<1>7. ASSUME NEW r \in Replica, List(r) PROVE KeysAreDistinct'
  <2>1. w'[r].seen = <<>> \/ w'[r].seen = row.seen
    BY <1>1, <1>7, ListMoves, NoRowTypes
  <2>2. Distinct(w'[r].seen)
    BY <1>1, <1>2, <2>1
  <2>. QED
    BY <1>1, <1>3, <1>7, <2>2, ListMoves DEF List
<1>8. ASSUME NEW r \in Replica, Fetch(r) PROVE KeysAreDistinct'
  <2>1. \/ w'[r].seen = w[r].seen /\ UNCHANGED row
        \/ w'[r].seen = <<>> /\ MarkPolled(w[r].seen)
    BY <1>1, <1>8, FetchMoves, NoRowTypes
  <2>2. Distinct(w'[r].seen) /\ Distinct(row'.seen)
    BY <1>1, <1>2, <1>4, <2>1
  <2>. QED
    BY <1>1, <1>3, <1>8, <2>2, FetchMoves
<1>9. ASSUME NEW r \in Replica, EachItem(r) PROVE KeysAreDistinct'
  <2>1. PICK i : i = Head(w[r].rest)
    OBVIOUS
  <2>2. /\ \A p \in Replica \ {r} : w'[p] = w[p]
        /\ i \in Item
        /\ w'[r].seen = w[r].seen \/ (i \notin Seen(r) /\ w'[r].seen = Append(w[r].seen, i))
    BY <1>1, <1>9, <2>1, ItemMoves
  <2>3. i \notin Seen(r) => Distinct(Append(w[r].seen, i))
    BY <1>1, <2>2, LoopFields, DistinctAppend DEF Seen
  <2>4. UNCHANGED row
    BY <1>9 DEF EachItem
  <2>. QED
    BY <1>1, <1>3, <2>2, <2>3, <2>4
<1>10. ASSUME NEW r \in Replica, Mark(r) PROVE KeysAreDistinct'
  <2>1. LastKeys(w[r].seen) = w[r].seen
    BY <1>1, LoopFields, WindowKeepsAll
  <2>2. (\A p \in Replica \ {r} : w'[p] = w[p]) /\ w'[r].seen = <<>> /\ MarkPolled(w[r].seen)
    BY <1>1, <1>10, <2>1, MarkMoves, NoRowTypes
  <2>. QED
    BY <1>2, <1>3, <1>4, <2>2
<1>11. ASSUME NEW r \in Replica, CutShort(r) PROVE KeysAreDistinct'
  <2>1. (\A p \in Replica \ {r} : w'[p] = w[p]) /\ w'[r].seen = <<>>
    BY <1>1, <1>11, CutMoves, NoRowTypes
  <2>. QED
    BY <1>1, <1>2, <1>3, <1>11, <2>1 DEF CutShort, MarkFails, Crash
<1>12. CASE World
  BY <1>1, <1>12, WorldLeaves DEF KeysAreDistinct
<1>. QED
  BY <1>5, <1>6, <1>7, <1>8, <1>9, <1>10, <1>11, <1>12, StepsAre

LEMMA FirstStep ==
  ASSUME OnceInv, [Next]_vars
  PROVE  FirstPollMeetsAll'
<1>1. TypeOK /\ Listed /\ FirstPollMeetsAll
  BY OnceFacts
<1>2. ASSUME NEW r \in Replica, w[r].pc # "idle" \/ UNCHANGED <<fired, backlog>>,
             \A p \in Replica \ {r} : w'[p] = w[p], ~Reading(r)', UNCHANGED fireOnFirst
      PROVE  FirstPollMeetsAll'
  <2>1. \A p \in Replica : Reading(p)' => p # r /\ w'[p] = w[p] /\ Reading(p) /\ w[p].pc # "idle"
    BY <1>2 DEF Reading
  <2>2. CASE w[r].pc # "idle"
    BY <1>2, <2>1, <2>2, OnceFacts DEF FirstPollMeetsAll
  <2>3. CASE UNCHANGED <<fired, backlog>>
    BY <1>1, <1>2, <2>1, <2>3 DEF FirstPollMeetsAll, Seen
  <2>. QED
    BY <1>2, <2>2, <2>3
<1>3. ASSUME NEW r \in Replica, Tick(r) \/ List(r) \/ CutShort(r) PROVE FirstPollMeetsAll'
  <2>1. UNCHANGED <<fireOnFirst, fired, backlog>>
    BY <1>3 DEF Tick, List, CutShort, MarkFails, Crash, histVars
  <2>2. (\A p \in Replica \ {r} : w'[p] = w[p]) /\ ~Reading(r)'
    BY <1>1, <1>3, TickMoves, ListMoves, CutMoves, NoRowTypes DEF Reading
  <2>. QED
    BY <1>2, <2>1, <2>2
<1>4. ASSUME NEW r \in Replica, Reconcile(r) PROVE FirstPollMeetsAll'
  <2>1. UNCHANGED fireOnFirst
    BY <1>1, <1>4, Reconciled
  <2>2. (\A p \in Replica \ {r} : w'[p] = w[p]) /\ ~Reading(r)' /\ w[r].pc # "idle"
    BY <1>1, <1>4, ReconcileMoves DEF Reading
  <2>. QED
    BY <1>2, <2>1, <2>2
<1>5. ASSUME NEW r \in Replica, Mark(r) PROVE FirstPollMeetsAll'
  <2>1. UNCHANGED <<fireOnFirst, fired, backlog>>
    BY <1>5 DEF Mark, histVars
  <2>2. (\A p \in Replica \ {r} : w'[p] = w[p]) /\ ~Reading(r)'
    BY <1>1, <1>5, MarkMoves, NoRowTypes DEF Reading
  <2>. QED
    BY <1>2, <2>1, <2>2
<1>6. ASSUME NEW r \in Replica, Fetch(r) PROVE FirstPollMeetsAll'
  <2>1. UNCHANGED <<fireOnFirst, fired, backlog>>
    BY <1>6 DEF Fetch, histVars
  <2>2. /\ \A p \in Replica \ {r} : w'[p] = w[p]
        /\ (w'[r].pc = "items" /\ w'[r].rest = source) \/ w'[r] = Idle
    BY <1>1, <1>6, FetchMoves
  <2>3. CASE w'[r] = Idle
    BY <1>2, <2>1, <2>2, <2>3, NoRowTypes DEF Reading
  <2>4. CASE w'[r].pc = "items" /\ w'[r].rest = source
    <3>1. \A i \in Item : fired[i] > 0 \/ i \in backlog => i \in ToSet(w'[r].rest)
      BY <1>1, <2>4 DEF Listed
    <3>. QED
      BY <1>1, <2>1, <2>2, <2>4, <3>1 DEF FirstPollMeetsAll, Reading, Seen
  <2>. QED
    BY <2>2, <2>3, <2>4
<1>7. ASSUME NEW r \in Replica, EachItem(r) PROVE FirstPollMeetsAll'
  <2>1. UNCHANGED <<fireOnFirst, backlog>>
    BY <1>7 DEF EachItem
  <2>2. PICK i : i = Head(w[r].rest)
    OBVIOUS
  <2>3. /\ \A p \in Replica \ {r} : w'[p] = w[p]
        /\ i \in Item /\ ToSet(w[r].rest) = {i} \cup ToSet(w'[r].rest)
        /\ w[r].pc = "items" /\ w'[r].first = w[r].first
    BY <1>1, <1>7, <2>2, ItemMoves
  <2>4. \A p \in Replica \ {r} : ~Reading(p)'
    BY <2>3, OnceFacts DEF Reading
  <2>5. ASSUME w'[r].first, ~fireOnFirst
        PROVE  /\ w'[r].pc = "items" /\ UNCHANGED fired
               /\ \/ i \in Seen(r) /\ w'[r].seen = w[r].seen
                  \/ w'[r].seen = Append(w[r].seen, i)
    <3>1. Seeds(w[r])
      BY <2>3, <2>5 DEF Seeds
    <3>. QED
      BY <1>1, <1>7, <2>2, <3>1, ItemMoves
  <2>6. ToSet(Append(w[r].seen, i)) = ToSet(w[r].seen) \cup {i}
    BY <1>1, <2>3, LoopFields, ElementsOfAppend
  <2>7. ASSUME w'[r].first, ~fireOnFirst
        PROVE  \A j \in Item : fired'[j] > 0 \/ j \in backlog => j \in ToSet(w'[r].seen) \cup ToSet(w'[r].rest)
    <3>1. Reading(r) /\ w[r].first
      BY <2>3, <2>7 DEF Reading
    <3>2. \A j \in Item : fired[j] > 0 \/ j \in backlog => j \in ToSet(w[r].seen) \cup ToSet(w[r].rest)
      BY <1>1, <2>7, <3>1 DEF FirstPollMeetsAll, Seen
    <3>. QED
      BY <2>3, <2>5, <2>6, <2>7, <3>2 DEF Seen
  <2>. QED
    BY <2>1, <2>4, <2>5, <2>7 DEF FirstPollMeetsAll, Seen
<1>8. CASE World
  BY <1>1, <1>8, WorldLeaves DEF FirstPollMeetsAll, Reading, Seen
<1>. QED
  BY <1>3, <1>4, <1>5, <1>6, <1>7, <1>8, StepsAre

\* A step that forgets nothing and starts nothing.
LEMMA OnceQuiet ==
  ASSUME OnceInv, UNCHANGED <<fireOnFirst, fired, backlog>>,
         row'.seen = row.seen, row'.polled = row.polled, row'.exists = row.exists,
         outages' \in {outages, outages + 1}, errors' \in {errors, errors + 1},
         cuts' \in {cuts, cuts + 1},
         \/ toggles' = toggles /\ active' = active
         \/ toggles' = toggles + 1,
         cuts' = cuts => \A p \in Replica : Reading(p) => Reading(p)' /\ Seen(p) \subseteq Seen(p)'
  PROVE  UsedUpIsRemembered' /\ BacklogIsRemembered'
<1>1. outages \in Nat /\ errors \in Nat /\ toggles \in Nat /\ cuts \in Nat /\ fired \in [Item -> Nat]
  BY OnceFacts
<1>2. (errors' = 0 => errors = 0) /\ (toggles' = 0 => toggles = 0 /\ active' = active)
  BY <1>1
<1>3. (toggles' + outages' = 0 => toggles + outages = 0) /\ (Forgotten => Forgotten')
  BY <1>1 DEF Forgotten
<1>4. BacklogIsRemembered'
  BY <1>2, OnceFacts DEF BacklogIsRemembered
<1>5. (toggles = 0 /\ ~active => ~row.exists)'
  BY <1>2, OnceFacts DEF UsedUpIsRemembered
<1>6. ASSUME ~Forgotten', NEW i \in Item
      PROVE  /\ fired[i] <= 1 + cuts'
             /\ fired[i] > cuts' /\ (row'.polled \/ toggles' + outages' = 0) => Remembered(i)'
  <2>1. /\ fired[i] <= 1 + cuts /\ fired[i] \in Nat
        /\ fired[i] > cuts /\ (row.polled \/ toggles + outages = 0) => Remembered(i)
    BY <1>1, <1>3, <1>6, OnceFacts DEF UsedUpIsRemembered
  <2>2. CASE cuts' = cuts + 1
    BY <1>1, <2>1, <2>2
  <2>3. CASE cuts' = cuts
    <3>1. Remembered(i) => Remembered(i)'
      BY <2>3 DEF Remembered
    <3>. QED
      BY <1>3, <2>1, <2>3, <3>1
  <2>. QED
    BY <2>2, <2>3
<1>. QED
  BY <1>4, <1>5, <1>6 DEF UsedUpIsRemembered

LEMMA OnceReconcile ==
  ASSUME OnceInv, NEW r \in Replica, Reconcile(r)
  PROVE  UsedUpIsRemembered' /\ BacklogIsRemembered'
<1>1. outages \in Nat /\ errors \in Nat /\ toggles \in Nat /\ cuts \in Nat /\ fired \in [Item -> Nat]
      /\ PollsTheRow /\ TypeOK
  BY OnceFacts
<1>2. /\ UNCHANGED <<active, source, fireOnFirst, fired, capped, errors, failures, toggles, cuts>>
      /\ outages' \in {outages, outages + 1}
      /\ \/ UNCHANGED <<row, backlog, owed>>
         \/ ~row.exists /\ active /\ row' = NewRow
         \/ row' = NoRow
  BY <1>1, Reconciled
<1>3. \A p \in Replica : ~Reading(p)
  <2>1. w[r].pc = "reconcile"
    BY <1>1, ReconcileMoves
  <2>. QED
    BY <2>1, OnceFacts DEF Reading
<1>4. CASE UNCHANGED <<row, backlog, owed>>
  BY <1>2, <1>3, <1>4, OnceQuiet
<1>5. CASE (~row.exists /\ active /\ row' = NewRow) \/ row' = NoRow
  <2>1. ~row'.polled /\ row'.seen = <<>>
    BY <1>5, NoRowTypes
  <2>2. BacklogIsRemembered'
    BY <2>1 DEF BacklogIsRemembered
  <2>3. (toggles = 0 /\ ~active => ~row.exists)'
    BY <1>2, <1>5, NoRowTypes
  <2>4. toggles' + outages' = 0 => ~row.exists /\ toggles + outages = 0
    <3>1. ASSUME toggles' + outages' = 0 PROVE ~row.exists /\ toggles + outages = 0
      <4>1. UNCHANGED outages /\ toggles = 0 /\ outages = 0
        <5>1. toggles' = toggles /\ outages' \in {outages, outages + 1}
          BY <1>2
        <5>2. outages \in Nat /\ toggles \in Nat
          BY <1>1
        <5>3. PICK t \in Nat, o \in Nat : t = toggles /\ o = outages
          BY <5>2
        <5>4. toggles' = t /\ (outages' = o \/ outages' = o + 1) /\ t + outages' = 0
          BY <3>1, <5>1, <5>3
        <5>5. t = 0 /\ o = 0 /\ outages' = o
          BY <5>4
        <5>. QED
          BY <5>3, <5>5
      <4>2. ~row.exists \/ (~active /\ row' = NoRow)
        BY <1>1, <1>5, <4>1, Reconciled, NoRowTypes
      <4>3. ~active => ~row.exists
        BY <4>1, OnceFacts DEF UsedUpIsRemembered
      <4>. QED
        BY <4>1, <4>2, <4>3
    <3>. QED
      BY <3>1
  <2>5. Forgotten => Forgotten'
    <3>1. toggles' = toggles /\ outages' \in {outages, outages + 1} /\ errors' = errors
          /\ fireOnFirst' = fireOnFirst
      BY <1>2
    <3>2. outages \in Nat /\ toggles \in Nat
      BY <1>1
    <3>3. toggles + outages > 0 => toggles' + outages' > 0
      <4>1. PICK t \in Nat, o \in Nat : t = toggles /\ o = outages
        BY <3>2
      <4>2. toggles' = t /\ (outages' = o \/ outages' = o + 1)
        BY <3>1, <4>1
      <4>3. t + o > 0 => t + outages' > 0
        BY <4>2
      <4>4. toggles' + outages' = t + outages'
        BY <4>2
      <4>. QED
        BY <4>1, <4>3, <4>4
    <3>. QED
      BY <3>1, <3>3 DEF Forgotten
  <2>6. ASSUME ~Forgotten', NEW i \in Item
        PROVE  /\ fired[i] <= 1 + cuts
               /\ fired[i] > cuts /\ (row'.polled \/ toggles' + outages' = 0) => Remembered(i)'
    <3>1. /\ fired[i] <= 1 + cuts
          /\ fired[i] > cuts /\ (row.polled \/ toggles + outages = 0) => Remembered(i)
      BY <2>5, <2>6, OnceFacts DEF UsedUpIsRemembered
    <3>2. ~row.exists => ~Remembered(i)
      BY <1>1, <1>3, NoRowTypes, ElementsOfEmpty DEF Remembered, PollsTheRow
    <3>. QED
      BY <2>1, <2>4, <3>1, <3>2
  <2>7. UsedUpIsRemembered'
    BY <1>2, <2>3, <2>6 DEF UsedUpIsRemembered
  <2>. QED
    BY <2>2, <2>7
<1>. QED
  BY <1>2, <1>4, <1>5

\* The keys of the poll under way are stored: the poll has failed before it looked at an item,
\* or the first poll has met all of them.
LEMMA OnceStores ==
  ASSUME OnceInv, NEW r \in Replica, w[r].pc # "idle", row.exists,
         UNCHANGED <<active, fireOnFirst, fired, backlog, outages, toggles, cuts>>,
         errors' \in {errors, errors + 1},
         row'.exists, row'.polled, row'.seen = w[r].seen, ToSet(row.seen) \subseteq Seen(r),
         ~row.polled /\ ~fireOnFirst /\ errors' = errors =>
           \A i \in Item : fired[i] > 0 \/ i \in backlog => i \in Seen(r),
         ~row.polled /\ errors' # errors => ~Reading(r)
  PROVE  UsedUpIsRemembered' /\ BacklogIsRemembered'
<1>1. outages \in Nat /\ errors \in Nat /\ toggles \in Nat /\ cuts \in Nat /\ fired \in [Item -> Nat]
      /\ backlog \subseteq Item
  BY OnceFacts
<1>2. ToSet(row'.seen) = Seen(r)
  BY DEF Seen
<1>3. BacklogIsRemembered'
  <2>1. ASSUME ~fireOnFirst, errors' = 0 PROVE backlog \subseteq Seen(r)
    <3>1. errors = 0 /\ errors' = errors
      BY <1>1, <2>1
    <3>2. row.polled => backlog \subseteq ToSet(row.seen)
      BY <2>1, <3>1, OnceFacts DEF BacklogIsRemembered
    <3>. QED
      BY <1>1, <2>1, <3>1, <3>2
  <2>. QED
    BY <1>2, <2>1 DEF BacklogIsRemembered
<1>4. (toggles = 0 /\ ~active => ~row.exists)'
  BY OnceFacts DEF UsedUpIsRemembered
<1>5. Forgotten => Forgotten'
  BY <1>1 DEF Forgotten
<1>6. ASSUME ~Forgotten', NEW i \in Item, fired[i] > cuts PROVE i \in Seen(r)
  <2>1. (row.polled \/ toggles + outages = 0) => Remembered(i)
    BY <1>5, <1>6, OnceFacts DEF UsedUpIsRemembered
  <2>2. Remembered(i) => i \in Seen(r)
    BY OnceFacts DEF Remembered, Reading
  <2>3. CASE ~row.polled /\ toggles + outages # 0
    <3>1. toggles + outages > 0
      BY <1>1, <2>3
    <3>2. ~fireOnFirst /\ ~(errors' > 0)
      BY <1>6, <3>1 DEF Forgotten
    <3>3. errors' = errors /\ fired[i] > 0
      BY <1>1, <1>6, <3>2
    <3>. QED
      BY <2>3, <3>2, <3>3
  <2>. QED
    BY <2>1, <2>2, <2>3
<1>7. UsedUpIsRemembered'
  <2>1. ~Forgotten' => \A i \in Item : fired[i] <= 1 + cuts
    BY <1>5, OnceFacts DEF UsedUpIsRemembered
  <2>. QED
    BY <1>2, <1>4, <1>6, <2>1 DEF UsedUpIsRemembered, Remembered
<1>. QED
  BY <1>3, <1>7

LEMMA OnceFetch ==
  ASSUME OnceInv, NEW r \in Replica, Fetch(r)
  PROVE  UsedUpIsRemembered' /\ BacklogIsRemembered'
<1>1. TypeOK /\ PollsTheRow /\ errors \in Nat
  BY OnceFacts
<1>2. UNCHANGED <<active, fireOnFirst, fired, backlog, outages, toggles, cuts>>
  BY DEF Fetch, histVars
<1>3. /\ \A p \in Replica \ {r} : w'[p] = w[p]
      /\ w[r].pc = "fetch" /\ Polling(r) /\ ~Reading(r)
      /\ \/ UNCHANGED <<row, errors>>
         \/ MarkPolled(w[r].seen) /\ errors' = errors + 1
  BY <1>1, FetchMoves DEF Polling, Reading
<1>4. CASE UNCHANGED <<row, errors>>
  <2>1. \A p \in Replica : Reading(p) => Reading(p)' /\ Seen(p) \subseteq Seen(p)'
    BY <1>3 DEF Reading, Seen
  <2>. QED
    BY <1>2, <1>4, <2>1, OnceQuiet
<1>5. CASE MarkPolled(w[r].seen) /\ errors' = errors + 1
  <2>1. row.exists /\ ToSet(row.seen) \subseteq Seen(r)
    BY <1>1, <1>3 DEF PollsTheRow
  <2>2. row'.exists /\ row'.polled /\ row'.seen = w[r].seen
    BY <1>1, <1>5, <2>1, Stored, LoopFields, OnceFacts
  <2>3. errors' # errors
    BY <1>1, <1>5
  <2>. QED
    BY <1>2, <1>3, <1>5, <2>1, <2>2, <2>3, OnceStores
<1>. QED
  BY <1>3, <1>4, <1>5

LEMMA OnceMark ==
  ASSUME WindowIsWide, OnceInv, NEW r \in Replica, Mark(r)
  PROVE  UsedUpIsRemembered' /\ BacklogIsRemembered'
<1>1. TypeOK /\ PollsTheRow /\ Distinct(w[r].seen)
  BY OnceFacts DEF KeysAreDistinct
<1>2. UNCHANGED <<active, fireOnFirst, fired, backlog, outages, errors, toggles, cuts>>
  BY DEF Mark, histVars, envVars
<1>3. LastKeys(w[r].seen) = w[r].seen
  BY <1>1, LoopFields, WindowKeepsAll
<1>4. /\ MarkPolled(w[r].seen) /\ Polling(r) /\ Reading(r) /\ w[r].pc # "idle"
      /\ w[r].pc = "mark" \/ (w[r].pc = "items" /\ w[r].rest = <<>>)
  BY <1>1, <1>3, MarkMoves DEF Polling, Reading
<1>5. row.exists /\ ToSet(row.seen) \subseteq Seen(r) /\ w[r].first = ~row.polled
  BY <1>1, <1>4 DEF PollsTheRow
<1>6. row'.exists /\ row'.polled /\ row'.seen = w[r].seen
  BY <1>1, <1>4, <1>5, Stored, LoopFields, OnceFacts
<1>7. ~row.polled /\ ~fireOnFirst => \A i \in Item : fired[i] > 0 \/ i \in backlog => i \in Seen(r)
  <2>1. ASSUME ~row.polled, ~fireOnFirst
        PROVE  \A i \in Item : fired[i] > 0 \/ i \in backlog => i \in Seen(r)
    <3>1. /\ w[r].pc = "items"
          /\ \A i \in Item : fired[i] > 0 \/ i \in backlog => i \in Seen(r) \cup ToSet(w[r].rest)
      BY <1>4, <1>5, <2>1, OnceFacts DEF FirstPollMeetsAll
    <3>2. w[r].rest = <<>>
      BY <1>4, <3>1
    <3>. QED
      BY <3>1, <3>2, ElementsOfEmpty
  <2>. QED
    BY <2>1
<1>. QED
  BY <1>2, <1>4, <1>5, <1>6, <1>7, OnceStores

\* A run is started for an item that the row, the only poll and so nobody remembers.
LEMMA FiredIsNew ==
  ASSUME OnceInv, NEW r \in Replica, NEW i \in Item, w[r].pc = "items",
         i \notin Seen(r), ~Seeds(w[r])
  PROVE  /\ ~Remembered(i)
         /\ fireOnFirst \/ row.polled
         /\ ~Forgotten => fired[i] <= cuts
         /\ ~fireOnFirst /\ errors = 0 => i \notin backlog
<1>1. PollsTheRow /\ fired[i] \in Nat /\ cuts \in Nat /\ outages \in Nat /\ toggles \in Nat
  BY OnceFacts
<1>2. Polling(r) /\ Reading(r)
  BY DEF Polling, Reading
<1>3. ToSet(row.seen) \subseteq Seen(r) /\ w[r].first = ~row.polled
  BY <1>1, <1>2 DEF PollsTheRow
<1>4. ~Remembered(i)
  BY <1>3, OnceFacts DEF Remembered, Reading
<1>5. fireOnFirst \/ row.polled
  BY <1>3 DEF Seeds
<1>6. ~Forgotten => fired[i] <= cuts
  <2>1. ASSUME ~Forgotten PROVE fired[i] <= cuts
    <3>1. row.polled \/ toggles + outages = 0
      BY <1>1, <1>5, <2>1 DEF Forgotten
    <3>2. ~(fired[i] > cuts)
      BY <1>4, <2>1, <3>1, OnceFacts DEF UsedUpIsRemembered
    <3>. QED
      BY <1>1, <3>2
  <2>. QED
    BY <2>1
<1>7. ~fireOnFirst /\ errors = 0 => i \notin backlog
  BY <1>3, <1>5, OnceFacts DEF BacklogIsRemembered
<1>. QED
  BY <1>4, <1>5, <1>6, <1>7

LEMMA OnceItem ==
  ASSUME OnceInv, NEW r \in Replica, EachItem(r)
  PROVE  UsedUpIsRemembered' /\ BacklogIsRemembered'
<1>1. TypeOK /\ fired \in [Item -> Nat] /\ cuts \in Nat
  BY OnceFacts
<1>2. UNCHANGED <<active, row, fireOnFirst, backlog, outages, errors, toggles, cuts>>
  BY DEF EachItem
<1>3. PICK i : i = Head(w[r].rest)
  OBVIOUS
<1>4. /\ \A p \in Replica \ {r} : w'[p] = w[p]
      /\ i \in Item /\ w[r].pc = "items" /\ w'[r].pc \in {"items", "mark"}
      /\ \/ w'[r].seen = w[r].seen /\ UNCHANGED fired
         \/ /\ i \notin Seen(r) /\ w'[r].seen = Append(w[r].seen, i)
            /\ \/ UNCHANGED fired
               \/ ~Seeds(w[r]) /\ fired' = [fired EXCEPT ![i] = @ + 1]
  BY <1>1, <1>3, ItemMoves
<1>5. ToSet(Append(w[r].seen, i)) = ToSet(w[r].seen) \cup {i}
  BY <1>1, <1>4, LoopFields, ElementsOfAppend
<1>6. \A p \in Replica : Reading(p) => Reading(p)' /\ Seen(p) \subseteq Seen(p)'
  BY <1>4, <1>5 DEF Reading, Seen
<1>7. CASE UNCHANGED fired
  BY <1>2, <1>6, <1>7, OnceQuiet
<1>8. CASE i \notin Seen(r) /\ w'[r].seen = Append(w[r].seen, i) /\ ~Seeds(w[r])
           /\ fired' = [fired EXCEPT ![i] = @ + 1]
  <2>1. ~Forgotten => fired[i] <= cuts
    BY <1>4, <1>8, FiredIsNew
  <2>2. BacklogIsRemembered'
    BY <1>2, OnceFacts DEF BacklogIsRemembered
  <2>3. Remembered(i)'
    BY <1>4, <1>5, <1>8 DEF Remembered, Reading, Seen
  <2>4. fired'[i] = fired[i] + 1 /\ fired[i] \in Nat /\ \A j \in Item \ {i} : fired'[j] = fired[j]
    BY <1>1, <1>4, <1>8
  <2>5. \A j \in Item : Remembered(j) => Remembered(j)'
    BY <1>2, <1>6 DEF Remembered
  <2>6. ASSUME ~Forgotten, NEW j \in Item
        PROVE  /\ fired'[j] <= 1 + cuts
               /\ fired'[j] > cuts /\ (row.polled \/ toggles + outages = 0) => Remembered(j)'
    <3>1. CASE j = i
      BY <1>1, <2>1, <2>3, <2>4, <2>6, <3>1
    <3>2. CASE j # i
      BY <2>4, <2>5, <2>6, <3>2, OnceFacts DEF UsedUpIsRemembered
    <3>. QED
      BY <3>1, <3>2
  <2>7. Forgotten' <=> Forgotten
    BY <1>2 DEF Forgotten
  <2>8. UsedUpIsRemembered'
    BY <1>2, <2>6, <2>7, OnceFacts DEF UsedUpIsRemembered
  <2>. QED
    BY <2>2, <2>8
<1>. QED
  BY <1>4, <1>7, <1>8

LEMMA OnceStep == ~Stalls /\ WindowIsWide /\ OnceInv /\ [Next]_vars => OnceInv'
<1>. SUFFICES ASSUME ~Stalls, WindowIsWide, OnceInv, [Next]_vars
              PROVE  UsedUpIsRemembered' /\ BacklogIsRemembered'
  BY LoopStep, DistinctStep, FirstStep, OnceFacts DEF OnceInv
<1>1. TypeOK
  BY OnceFacts
<1>2. ASSUME NEW r \in Replica, Tick(r) PROVE UsedUpIsRemembered' /\ BacklogIsRemembered'
  <2>1. UNCHANGED <<active, row, fireOnFirst, fired, backlog, outages, errors, toggles, cuts>>
    BY <1>2 DEF Tick, histVars, envVars
  <2>2. \A p \in Replica : Reading(p) => Reading(p)' /\ Seen(p) \subseteq Seen(p)'
    BY <1>1, <1>2, TickMoves DEF Reading, Seen
  <2>. QED
    BY <2>1, <2>2, OnceQuiet
<1>3. ASSUME NEW r \in Replica, List(r) PROVE UsedUpIsRemembered' /\ BacklogIsRemembered'
  <2>1. UNCHANGED <<active, row, fireOnFirst, fired, backlog, outages, errors, toggles, cuts>>
    BY <1>3 DEF List, histVars, envVars
  <2>2. \A p \in Replica : Reading(p) => Reading(p)' /\ Seen(p) \subseteq Seen(p)'
    BY <1>1, <1>3, ListMoves DEF Reading, Seen
  <2>. QED
    BY <2>1, <2>2, OnceQuiet
<1>4. ASSUME NEW r \in Replica, CutShort(r) PROVE UsedUpIsRemembered' /\ BacklogIsRemembered'
  <2>1. UNCHANGED <<active, row, fireOnFirst, fired, backlog, outages, errors, toggles>>
        /\ cuts' = cuts + 1
    BY <1>4 DEF CutShort, MarkFails, Crash, histVars
  <2>2. cuts' # cuts
    BY <2>1, OnceFacts
  <2>. QED
    BY <2>1, <2>2, OnceQuiet
<1>5. CASE World
  <2>1. UNCHANGED <<w, fireOnFirst, fired, backlog, outages, errors, cuts>>
        /\ row'.seen = row.seen /\ row'.polled = row.polled /\ row'.exists = row.exists
        /\ \/ toggles' = toggles /\ active' = active
           \/ toggles' = toggles + 1
    BY <1>1, <1>5, WorldLeaves
  <2>2. \A p \in Replica : Reading(p) => Reading(p)' /\ Seen(p) \subseteq Seen(p)'
    BY <2>1 DEF Reading, Seen
  <2>. QED
    BY <2>1, <2>2, OnceQuiet
<1>. QED
  BY <1>2, <1>3, <1>4, <1>5, OnceReconcile, OnceFetch, OnceItem, OnceMark, StepsAre

LEMMA OnceInit == Init => OnceInv
<1>. SUFFICES ASSUME Init PROVE OnceInv
  OBVIOUS
<1>1. row = NoRow /\ (\A i \in Item : fired[i] = 0) /\ cuts = 0
  BY DEF Init
<1>2. \A r \in Replica : w[r] = Idle
  BY DEF Init
<1>3. KeysAreDistinct
  BY <1>1, <1>2, NoRowTypes DEF KeysAreDistinct, Distinct
<1>4. FirstPollMeetsAll /\ UsedUpIsRemembered /\ BacklogIsRemembered
  BY <1>1, <1>2, NoRowTypes DEF FirstPollMeetsAll, UsedUpIsRemembered, BacklogIsRemembered, Reading
<1>. QED
  BY <1>3, <1>4, LoopInit DEF OnceInv

\* While a live holder of the coordinator lease renews it and the dedup window holds every
\* item the source has listed, a new item that counts as seen has its run, and only one, with
\* one more for each poll that was cut short in between (OneRunPerItem), whatever polls fail,
\* whoever takes over the lease and however the workflow is switched off and on.
THEOREM OneRunPerItemInTheWindow ==
  ASSUME ~Stalls, WindowIsWide PROVE Spec => []OneRunPerItem
<1>1. OnceInv /\ [Next]_vars => OnceInv'
  BY OnceStep
<1>2. OnceInv => FiredOnce
  BY OnceFacts DEF UsedUpIsRemembered, FiredOnce
<1>3. Spec => []NothingSkipped
  BY NothingSkippedUnlessStalled
<1>4. Spec => []FiredOnce
  BY <1>1, <1>2, OnceInit, PTL DEF Spec
<1>5. FiredOnce /\ NothingSkipped => OneRunPerItem
  BY DEF OneRunPerItem
<1>. QED
  BY <1>3, <1>4, <1>5, PTL

\* Under the same two conditions, and as long as no poll has failed, no step starts a run for
\* what the source listed when the trigger was enabled (BacklogNotReplayed).
THEOREM BacklogKeptInTheWindow ==
  ASSUME ~Stalls, WindowIsWide PROVE Spec => BacklogNotReplayed
<1>1. OnceInv /\ [Next]_vars => OnceInv'
  BY OnceStep
<1>2. OnceInv /\ [Next]_vars =>
        [~fireOnFirst /\ errors = 0 => \A i \in backlog : fired'[i] = fired[i]]_fired
  <2>. SUFFICES ASSUME OnceInv, [Next]_vars, ~fireOnFirst, errors = 0, NEW j \in backlog
                PROVE  fired'[j] = fired[j]
    OBVIOUS
  <2>1. TypeOK /\ fired \in [Item -> Nat] /\ j \in Item
    BY OnceFacts
  <2>2. ASSUME NEW r \in Replica, EachItem(r) PROVE fired'[j] = fired[j]
    <3>1. PICK i : i = Head(w[r].rest)
      OBVIOUS
    <3>2. /\ i \in Item /\ w[r].pc = "items"
          /\ \/ UNCHANGED fired
             \/ i \notin Seen(r) /\ ~Seeds(w[r]) /\ fired' = [fired EXCEPT ![i] = @ + 1]
      BY <2>1, <2>2, <3>1, ItemMoves
    <3>3. i \notin Seen(r) /\ ~Seeds(w[r]) => i # j
      BY <3>2, FiredIsNew
    <3>. QED
      BY <2>1, <3>2, <3>3
  <2>3. ASSUME NEW r \in Replica, Tick(r) \/ Reconcile(r) \/ List(r) \/ Fetch(r) \/ Mark(r) \/ CutShort(r)
        PROVE  UNCHANGED fired
    BY <2>1, <2>3, Reconciled DEF Tick, List, Fetch, Mark, CutShort,
                                 MarkFails, Crash, histVars
  <2>. QED
    BY <2>1, <2>2, <2>3, WorldLeaves, StepsAre
<1>. QED
  BY <1>1, <1>2, OnceInit, PTL DEF Spec, BacklogNotReplayed
=============================================================================
