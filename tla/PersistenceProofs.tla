------------------------- MODULE PersistenceProofs -------------------------
(***************************************************************************)
(* Theorems about Persistence, for any number of processes, tasks and      *)
(* records and whatever UTC offsets their clocks show: a checkpoint is     *)
(* stored once, a load is fresh and the loads of a process do not go back. *)
(*                                                                         *)
(* That get_latest_for_task finds a row at all, in a table of any length,  *)
(* is an invariant here: a row that is appended either beats the latest    *)
(* one of its task or leaves it the latest.                                *)
(***************************************************************************)
EXTENDS Persistence, TLAPS

(* The order of the query: row i comes before row j in the result. *)
Beats(i, j) ==
    \/ TextBefore(checkpoints[j].at, checkpoints[i].at)
    \/ checkpoints[j].at = checkpoints[i].at /\ j < i

IsLatest(i, t) == i \in RowsOf(t) /\ \A j \in RowsOf(t) \ {i} : Beats(i, j)

(* Every task that has checkpoints has a latest one. *)
HasLatest == \A t \in Tasks : RowsOf(t) # {} => \E i \in RowsOf(t) : IsLatest(i, t)

(* A writer that has checked its task may rely on it: no row is deleted. *)
CheckedHasTask ==
    \A p \in Processes : At(p, "checked") => tasks[op[p].row.task] > 0

(* What a load has seen is still there. *)
SinceInv ==
    \A p \in Processes :
        /\ At(p, "loading") => op[p].since <= Len(checkpoints)
                               /\ op[p].version <= tasks[op[p].task]
        /\ loaded[p] # None =>
              /\ loaded[p].since <= Len(checkpoints)
              /\ loaded[p].version <= tasks[loaded[p].task]
              /\ \E i \in DOMAIN checkpoints : loaded[p].row = checkpoints[i]
        /\ At(p, "loading") /\ loaded[p] # None /\ loaded[p].task = op[p].task
              => loaded[p].version <= op[p].version

(* The query is for the task that was read. *)
RowOfTask == \A p \in Processes : loaded[p] # None => loaded[p].row.task = loaded[p].task

(* The tables only grow. *)
Grows ==
    /\ \A t \in Tasks : tasks[t] <= tasks'[t]
    /\ Len(checkpoints) <= Len(checkpoints')
    /\ \A i \in DOMAIN checkpoints : i \in DOMAIN checkpoints' /\ checkpoints'[i] = checkpoints[i]

StoreInv ==
    /\ TypeOK
    /\ StoredOnce
    /\ HasLatest
    /\ CheckedHasTask
    /\ SinceInv
    /\ RowOfTask

----------------------------------------------------------------------------
(* The order of the texts is total. *)

LEMMA Numbers ==
    /\ Limit \in Nat /\ MaxClock \in Nat /\ MaxCheckpoints \in Nat
    /\ MaxSaves \in Nat /\ MaxAudit \in Nat
    /\ \A offset \in Offsets : offset \in Nat
<1>1. \A n \in {Limit, MaxClock, MaxCheckpoints, MaxSaves, MaxAudit} : n \in Nat
    BY StoreAssumption
<1>2. QED
    BY <1>1, StoreAssumption

LEMMA StampParts ==
    ASSUME NEW a \in Stamp
    PROVE  /\ a = [instant |-> a.instant, offset |-> a.offset]
           /\ a.instant \in Nat /\ a.offset \in Nat /\ a.offset \in Offsets
<1>1. a.instant \in 0 .. MaxClock /\ a.offset \in Offsets
    BY DEF Stamp
<1>2. QED
    BY <1>1, Numbers DEF Stamp

LEMMA TextTotal ==
    ASSUME NEW a \in Stamp, NEW b \in Stamp
    PROVE  TextBefore(a, b) \/ TextBefore(b, a) \/ a = b
<1>1. /\ a = [instant |-> a.instant, offset |-> a.offset] /\ a.instant \in Nat /\ a.offset \in Nat
      /\ b = [instant |-> b.instant, offset |-> b.offset] /\ b.instant \in Nat /\ b.offset \in Nat
    BY StampParts
<1>2. CASE a.instant = b.instant /\ a.offset = b.offset
    BY <1>1, <1>2
<1>3. CASE ~(a.instant = b.instant /\ a.offset = b.offset)
    BY <1>1, <1>3 DEF TextBefore
<1>4. QED
    BY <1>2, <1>3

LEMMA TextTransitive ==
    ASSUME NEW a \in Stamp, NEW b \in Stamp, NEW c \in Stamp,
           TextBefore(a, b), TextBefore(b, c)
    PROVE  TextBefore(a, c)
<1>1. /\ a.instant \in Nat /\ a.offset \in Nat /\ b.instant \in Nat /\ b.offset \in Nat
      /\ c.instant \in Nat /\ c.offset \in Nat
    BY StampParts
<1>2. QED
    BY <1>1 DEF TextBefore

(* What the query returns. *)
LEMMA LatestFound ==
    ASSUME HasLatest, NEW t \in Tasks, RowsOf(t) # {}
    PROVE  IsLatest(Latest(t), t)
<1>1. PICK i \in RowsOf(t) : IsLatest(i, t)
    BY DEF HasLatest
<1>2. \A j \in RowsOf(t) \ {i} : \/ TextBefore(checkpoints[j].at, checkpoints[i].at)
                                 \/ checkpoints[j].at = checkpoints[i].at /\ j < i
    BY <1>1 DEF IsLatest, Beats
<1>3. /\ Latest(t) \in RowsOf(t)
      /\ \A j \in RowsOf(t) \ {Latest(t)} :
            \/ TextBefore(checkpoints[j].at, checkpoints[Latest(t)].at)
            \/ checkpoints[j].at = checkpoints[Latest(t)].at /\ j < Latest(t)
    BY <1>2 DEF Latest
<1>4. QED
    BY <1>3 DEF IsLatest, Beats

----------------------------------------------------------------------------
(* Types. *)

LEMMA TypeInit == Init => TypeOK
    BY StoreAssumption DEF Init, TypeOK

LEMMA TypeNext == TypeOK /\ HasLatest /\ [Next]_vars => TypeOK'
<1> SUFFICES ASSUME TypeOK, HasLatest, [Next]_vars PROVE TypeOK'
    OBVIOUS
<1> USE StoreAssumption, Numbers
<1>1. CASE Tick
    BY <1>1 DEF Tick, TypeOK
<1>2. ASSUME NEW t \in Tasks, SaveTask(t) PROVE TypeOK'
    BY <1>2 DEF SaveTask, TypeOK
<1>3. ASSUME NEW offset \in Offsets, AppendAudit(offset) PROVE TypeOK'
  <2>1. [instant |-> clock, offset |-> offset] \in Stamp
      BY DEF TypeOK, Stamp
  <2>2. QED
      BY <1>3, <2>1 DEF AppendAudit, TypeOK
<1>4. ASSUME NEW p \in Processes, NEW t \in Tasks, LoadTask(p, t) PROVE TypeOK'
  <2>1. CASE tasks[t] = 0
      BY <1>4, <2>1 DEF LoadTask, TypeOK
  <2>2. CASE tasks[t] # 0
    <3>1. [stage |-> "loading", task |-> t, version |-> tasks[t], since |-> Len(checkpoints)] \in Ops
        BY <2>2 DEF Ops, TypeOK
    <3>2. QED
        BY <1>4, <2>2, <3>1 DEF LoadTask, TypeOK
  <2>3. QED
      BY <2>1, <2>2
<1>5. ASSUME NEW p \in Processes, NEW t \in Tasks, NEW offset \in Offsets, Construct(p, t, offset)
      PROVE  TypeOK'
  <2>1. [instant |-> clock, offset |-> offset] \in Stamp
      BY DEF TypeOK, Stamp
  <2>2. [id |-> drafts + 1, task |-> t, at |-> [instant |-> clock, offset |-> offset]] \in Row
      BY <1>5, <2>1 DEF Row, Construct, TypeOK
  <2>3. [stage |-> "drafted",
         row |-> [id |-> drafts + 1, task |-> t, at |-> [instant |-> clock, offset |-> offset]]] \in Ops
      BY <2>2 DEF Ops
  <2>4. QED
      BY <1>5, <2>3 DEF Construct, TypeOK
<1>6. ASSUME NEW p \in Processes, CheckTask(p) PROVE TypeOK'
  <2>1. op[p] \in [stage : {"drafted", "checked"}, row : Row]
      BY <1>6 DEF CheckTask, At, TypeOK, Ops
  <2>2. [op[p] EXCEPT !.stage = "checked"] \in Ops
      BY <2>1 DEF Ops
  <2>3. QED
      BY <1>6, <2>2 DEF CheckTask, TypeOK
<1>7. ASSUME NEW p \in Processes, SaveCheckpoint(p) PROVE TypeOK'
  <2>1. op[p] \in [stage : {"drafted", "checked"}, row : Row]
      BY <1>7 DEF SaveCheckpoint, At, TypeOK, Ops
  <2>2. [op[p] EXCEPT !.stage = "drafted"] \in Ops /\ op[p].row \in Row
      BY <2>1 DEF Ops
  <2>3. checkpoints' \in Seq(Row)
    <3>1. UNCHANGED checkpoints \/ checkpoints' = Append(checkpoints, op[p].row)
        BY <1>7 DEF SaveCheckpoint
    <3>2. checkpoints \in Seq(Row)
        BY DEF TypeOK
    <3>3. QED
        BY <2>2, <3>1, <3>2
  <2>4. op' \in [Processes -> Ops \cup {None}]
    <3>1. \/ op' = [op EXCEPT ![p] = None]
          \/ op' = [op EXCEPT ![p] = [op[p] EXCEPT !.stage = "drafted"]]
        BY <1>7 DEF SaveCheckpoint
    <3>2. CASE op' = [op EXCEPT ![p] = None]
        BY <3>2 DEF TypeOK
    <3>3. CASE op' = [op EXCEPT ![p] = [op[p] EXCEPT !.stage = "drafted"]]
        BY <2>2, <3>3 DEF TypeOK
    <3>4. QED
        BY <3>1, <3>2, <3>3
  <2>5. QED
      BY <1>7, <2>3, <2>4 DEF SaveCheckpoint, TypeOK
<1>8. ASSUME NEW p \in Processes, LoadCheckpoint(p) PROVE TypeOK'
  <2>1. op[p] \in [stage : {"loading"}, task : Tasks, version : 1 .. MaxSaves, since : Nat]
      BY <1>8 DEF LoadCheckpoint, At, TypeOK, Ops
  <2>2. CASE RowsOf(op[p].task) = {}
      BY <1>8, <2>2 DEF LoadCheckpoint, TypeOK
  <2>3. CASE RowsOf(op[p].task) # {}
    <3>1. Latest(op[p].task) \in DOMAIN checkpoints
        BY <2>1, <2>3, LatestFound DEF IsLatest, RowsOf
    <3>2. checkpoints[Latest(op[p].task)] \in Row
        BY <3>1 DEF TypeOK
    <3>3. [task |-> op[p].task, version |-> op[p].version,
           row |-> checkpoints[Latest(op[p].task)], since |-> op[p].since] \in Snapshot
        BY <2>1, <3>2 DEF Snapshot
    <3>4. QED
        BY <1>8, <2>3, <3>3 DEF LoadCheckpoint, TypeOK
  <2>4. QED
      BY <2>2, <2>3
<1>9. ASSUME NEW p \in Processes, Crash(p) PROVE TypeOK'
    BY <1>9 DEF Crash, TypeOK
<1>10. CASE UNCHANGED vars
    BY <1>10 DEF vars, TypeOK
<1>11. QED
    BY <1>1, <1>2, <1>3, <1>4, <1>5, <1>6, <1>7, <1>8, <1>9, <1>10 DEF Next

----------------------------------------------------------------------------
(* The table of checkpoints only grows, by one new row of a known task. *)

(* What a save adds: nothing, or a row with an id of its own. *)
AddsRow(row) ==
    /\ checkpoints' = Append(checkpoints, row)
    /\ \A i \in DOMAIN checkpoints : checkpoints[i].id # row.id
    /\ tasks[row.task] > 0
    /\ row \in Row

LEMMA TableStep ==
    ASSUME TypeOK, CheckedHasTask, [Next]_vars
    PROVE  UNCHANGED checkpoints \/ \E row : AddsRow(row)
<1>1. ASSUME NEW p \in Processes, SaveCheckpoint(p)
      PROVE  UNCHANGED checkpoints \/ \E row : AddsRow(row)
  <2>1. op[p].row \in Row /\ tasks[op[p].row.task] > 0
      BY <1>1 DEF SaveCheckpoint, At, TypeOK, Ops, CheckedHasTask
  <2>2. UNCHANGED checkpoints \/ AddsRow(op[p].row)
      BY <1>1, <2>1 DEF SaveCheckpoint, AddsRow
  <2>3. QED
      BY <2>2
<1>2. QED
    BY <1>1 DEF Next, vars, Tick, SaveTask, AppendAudit, LoadTask, Construct, CheckTask,
                LoadCheckpoint, Crash

LEMMA TasksStep ==
    ASSUME TypeOK, [Next]_vars
    PROVE  \A t \in Tasks : tasks[t] <= tasks'[t]
<1>1. ASSUME NEW s \in Tasks, SaveTask(s) PROVE \A t \in Tasks : tasks[t] <= tasks'[t]
    BY <1>1, Numbers DEF SaveTask, TypeOK
<1>2. CASE UNCHANGED tasks
    BY <1>2, Numbers DEF TypeOK
<1>3. QED
    BY <1>1, <1>2 DEF Next, vars, Tick, AppendAudit, LoadTask, Construct, CheckTask,
                SaveCheckpoint, LoadCheckpoint, Crash

LEMMA TasksTyped ==
    ASSUME TypeOK, [Next]_vars
    PROVE  \A t \in Tasks : tasks[t] \in Nat /\ tasks'[t] \in Nat
<1>1. ASSUME NEW s \in Tasks, SaveTask(s)
      PROVE  \A t \in Tasks : tasks[t] \in Nat /\ tasks'[t] \in Nat
    BY <1>1, Numbers DEF SaveTask, TypeOK
<1>2. CASE UNCHANGED tasks
    BY <1>2, Numbers DEF TypeOK
<1>3. QED
    BY <1>1, <1>2 DEF Next, vars, Tick, AppendAudit, LoadTask, Construct, CheckTask,
                SaveCheckpoint, LoadCheckpoint, Crash

LEMMA RowParts ==
    ASSUME TypeOK
    PROVE  \A i \in DOMAIN checkpoints :
              /\ checkpoints[i] \in Row
              /\ checkpoints[i].task \in Tasks
              /\ checkpoints[i].at \in Stamp
<1>1. checkpoints \in Seq(Row)
    BY DEF TypeOK
<1>2. \A i \in DOMAIN checkpoints : checkpoints[i] \in Row
    BY <1>1
<1>3. QED
    BY <1>2 DEF Row

(* The rows after a save. *)
LEMMA Appended ==
    ASSUME TypeOK, NEW row, AddsRow(row)
    PROVE  /\ Len(checkpoints') = Len(checkpoints) + 1
           /\ DOMAIN checkpoints = 1 .. Len(checkpoints)
           /\ Len(checkpoints) \in Nat
           /\ DOMAIN checkpoints' = DOMAIN checkpoints \cup {Len(checkpoints) + 1}
           /\ \A i \in DOMAIN checkpoints : checkpoints'[i] = checkpoints[i]
           /\ checkpoints'[Len(checkpoints) + 1] = row
<1>1. checkpoints \in Seq(Row) /\ row \in Row
    BY DEF TypeOK, AddsRow
<1>2. checkpoints' = Append(checkpoints, row)
    BY DEF AddsRow
<1>3. QED
    BY <1>1, <1>2

LEMMA GrowsNext == TypeOK /\ CheckedHasTask /\ [Next]_vars => Grows
<1> SUFFICES ASSUME TypeOK, CheckedHasTask, [Next]_vars PROVE Grows
    OBVIOUS
<1>1. CASE UNCHANGED checkpoints
  <2>1. Len(checkpoints) \in Nat
      BY DEF TypeOK
  <2>2. QED
      BY <1>1, <2>1, TasksStep DEF Grows
<1>2. ASSUME NEW row, AddsRow(row) PROVE Grows
    BY <1>2, Appended, TasksStep DEF Grows
<1>3. QED
    BY <1>1, <1>2, TableStep

(* StoredOnce. *)
LEMMA StoredNext == TypeOK /\ CheckedHasTask /\ StoredOnce /\ [Next]_vars => StoredOnce'
<1> SUFFICES ASSUME TypeOK, CheckedHasTask, StoredOnce, [Next]_vars PROVE StoredOnce'
    OBVIOUS
<1>1. \A t \in Tasks : tasks[t] > 0 => tasks'[t] > 0
    BY TasksStep, TasksTyped DEF TypeOK
<1>2. \A i \in DOMAIN checkpoints : checkpoints[i] \in Row /\ checkpoints[i].task \in Tasks
    BY RowParts
<1>3. CASE UNCHANGED checkpoints
    BY <1>1, <1>2, <1>3 DEF StoredOnce
<1>4. ASSUME NEW row, AddsRow(row) PROVE StoredOnce'
  <2>1. row.task \in Tasks /\ tasks[row.task] > 0
        /\ \A i \in DOMAIN checkpoints : checkpoints[i].id # row.id
      BY <1>4 DEF AddsRow, Row
  <2>2. QED
      BY <1>1, <1>2, <1>4, <2>1, Appended DEF StoredOnce
<1>5. QED
    BY <1>3, <1>4, TableStep

(* HasLatest: a new row beats the latest one of its task or not. *)
LEMMA LatestNext ==
    TypeOK /\ CheckedHasTask /\ HasLatest /\ [Next]_vars => HasLatest'
<1> SUFFICES ASSUME TypeOK, CheckedHasTask, HasLatest, [Next]_vars PROVE HasLatest'
    OBVIOUS
<1>1. CASE UNCHANGED checkpoints
    BY <1>1 DEF HasLatest, RowsOf, IsLatest, Beats
<1>2. ASSUME NEW row, AddsRow(row), NEW t \in Tasks, RowsOf(t)' # {}
      PROVE  \E i \in RowsOf(t)' : IsLatest(i, t)'
  <2>0. PICK n : n = Len(checkpoints) + 1
      OBVIOUS
  <2>1. /\ \A i \in DOMAIN checkpoints : i < n /\ i \in Nat /\ checkpoints'[i] = checkpoints[i]
        /\ DOMAIN checkpoints' = DOMAIN checkpoints \cup {n}
        /\ n \notin DOMAIN checkpoints /\ checkpoints'[n] = row
    <3>1. /\ DOMAIN checkpoints = 1 .. Len(checkpoints) /\ Len(checkpoints) \in Nat
          /\ DOMAIN checkpoints' = DOMAIN checkpoints \cup {n} /\ checkpoints'[n] = row
          /\ \A i \in DOMAIN checkpoints : checkpoints'[i] = checkpoints[i]
        BY <1>2, <2>0, Appended
    <3>2. \A i \in 1 .. Len(checkpoints) : i < n /\ i \in Nat
        BY <2>0, <3>1
    <3>3. n \notin 1 .. Len(checkpoints)
        BY <2>0, <3>1
    <3>4. QED
        BY <3>1, <3>2, <3>3
  <2>2. \A i \in DOMAIN checkpoints : checkpoints[i].at \in Stamp
      BY RowParts
  <2>3. row.at \in Stamp
      BY <1>2 DEF AddsRow, Row
  <2>4. RowsOf(t)' = IF row.task = t THEN RowsOf(t) \cup {n} ELSE RowsOf(t)
      BY <2>1 DEF RowsOf
  <2>5. RowsOf(t) \subseteq DOMAIN checkpoints
      BY DEF RowsOf
  <2>6. CASE row.task # t
    <3>1. PICK i \in RowsOf(t) : IsLatest(i, t)
        BY <1>2, <2>4, <2>6 DEF HasLatest
    <3>2. IsLatest(i, t)'
        BY <2>1, <2>4, <2>5, <2>6, <3>1 DEF IsLatest, Beats
    <3>3. QED
        BY <3>1, <3>2, <2>4, <2>6
  <2>7. CASE row.task = t /\ RowsOf(t) = {}
    <3>1. IsLatest(n, t)'
        BY <2>4, <2>7 DEF IsLatest
    <3>2. QED
        BY <2>4, <2>7, <3>1
  <2>8. CASE row.task = t /\ RowsOf(t) # {}
    <3>1. PICK i \in RowsOf(t) : IsLatest(i, t)
        BY <2>8 DEF HasLatest
    <3>2. CASE TextBefore(row.at, checkpoints[i].at)
      <4>1. IsLatest(i, t)'
          BY <2>1, <2>4, <2>5, <2>8, <3>1, <3>2 DEF IsLatest, Beats
      <4>2. QED
          BY <4>1, <3>1, <2>4
    <3>3. CASE ~TextBefore(row.at, checkpoints[i].at)
      <4>1. TextBefore(checkpoints[i].at, row.at) \/ checkpoints[i].at = row.at
          BY <2>2, <2>3, <2>5, <3>3, TextTotal
      <4>2. ASSUME NEW j \in RowsOf(t)
            PROVE  TextBefore(checkpoints[j].at, row.at) \/ checkpoints[j].at = row.at
        <5>1. \/ TextBefore(checkpoints[j].at, checkpoints[i].at)
              \/ checkpoints[j].at = checkpoints[i].at
            BY <3>1 DEF IsLatest, Beats
        <5>2. /\ checkpoints[i].at \in Stamp
              /\ checkpoints[j].at \in Stamp
            BY <2>2, <2>5
        <5>3. QED
            BY <2>3, <4>1, <5>1, <5>2, TextTransitive
      <4>3. IsLatest(n, t)'
        <5>1. \A j \in RowsOf(t) : Beats(n, j)'
            BY <2>1, <2>5, <4>2 DEF Beats
        <5>2. QED
            BY <2>4, <2>8, <5>1 DEF IsLatest
      <4>4. QED
          BY <2>4, <2>8, <4>3
    <3>4. QED
        BY <3>2, <3>3
  <2>9. QED
      BY <2>6, <2>7, <2>8
<1>3. QED
    BY <1>1, <1>2, TableStep DEF HasLatest

----------------------------------------------------------------------------
(* What a step does to one process. *)

(* The process begins to load: it has read the task. *)
Began(q) ==
    \E t \in Tasks :
        /\ op'[q] = [stage |-> "loading", task |-> t, version |-> tasks[t],
                     since |-> Len(checkpoints)]
        /\ op[q] = None
        /\ tasks[t] > 0
        /\ UNCHANGED <<tasks, checkpoints, loaded>>

(* The process gets a snapshot: it has read the checkpoint. *)
Got(q) ==
    /\ At(q, "loading")
    /\ RowsOf(op[q].task) # {}
    /\ loaded'[q] = [task |-> op[q].task, version |-> op[q].version,
                     row |-> checkpoints[Latest(op[q].task)], since |-> op[q].since]
    /\ op'[q] = None
    /\ UNCHANGED <<tasks, checkpoints>>

LEMMA OpParts ==
    ASSUME TypeOK, NEW q \in Processes
    PROVE  /\ At(q, "drafted") \/ At(q, "checked") =>
                 /\ op[q].row \in Row /\ op[q].row.task \in Tasks
                 /\ op[q] \in [stage : {"drafted", "checked"}, row : Row]
           /\ At(q, "loading") =>
                 /\ op[q].task \in Tasks /\ op[q].version \in Nat /\ op[q].since \in Nat
           /\ loaded[q] # None =>
                 /\ loaded[q].task \in Tasks /\ loaded[q].version \in Nat
                 /\ loaded[q].since \in Nat /\ loaded[q].row \in Row
<1>1. op[q] # None => op[q] \in Ops
    BY DEF TypeOK
<1>2. loaded[q] # None => loaded[q] \in Snapshot
    BY DEF TypeOK
<1>3. \A n \in 1 .. MaxSaves : n \in Nat
    BY Numbers
<1>4. QED
    BY <1>1, <1>2, <1>3 DEF Ops, Snapshot, Row, At

(* What may become of its operation and of its snapshot. *)
Moves(q) ==
    /\ At(q, "checked")' =>
          \/ op'[q] = op[q]
          \/ At(q, "drafted") /\ op'[q].row = op[q].row /\ tasks[op[q].row.task] > 0
    /\ At(q, "loading")' => Began(q) \/ (op'[q] = op[q] /\ loaded'[q] = loaded[q])
    /\ loaded'[q] # None => (loaded'[q] = loaded[q] \/ Got(q))

LEMMA ProcessStep == ASSUME TypeOK, [Next]_vars, NEW q \in Processes PROVE Moves(q)
<1> USE DEF Moves
<1>0. op \in [Processes -> Ops \cup {None}] /\ loaded \in [Processes -> Snapshot \cup {None}]
    BY DEF TypeOK
<1>1. ASSUME op'[q] = op[q], loaded'[q] = loaded[q] PROVE Moves(q)
    BY <1>1
<1>2. ASSUME NEW t \in Tasks, LoadTask(q, t) PROVE Moves(q)
  <2>1. CASE tasks[t] = 0
      BY <1>0, <1>2, <2>1 DEF LoadTask, At
  <2>2. CASE tasks[t] # 0
    <3>1. tasks[t] > 0
        BY <2>2, TasksTyped
    <3>2. Began(q)
        BY <1>0, <1>2, <2>2, <3>1 DEF LoadTask, Began
    <3>3. loaded'[q] = loaded[q] /\ op'[q].stage = "loading"
        BY <1>0, <1>2, <2>2 DEF LoadTask
    <3>4. QED
        BY <3>2, <3>3 DEF At
  <2>3. QED
      BY <2>1, <2>2
<1>3. ASSUME NEW t \in Tasks, NEW offset \in Offsets, Construct(q, t, offset) PROVE Moves(q)
  <2>1. loaded'[q] = loaded[q] /\ op'[q].stage = "drafted"
      BY <1>0, <1>3 DEF Construct
  <2>2. QED
      BY <2>1 DEF At
<1>4. CASE CheckTask(q)
  <2>1. loaded'[q] = loaded[q]
      BY <1>4 DEF CheckTask
  <2>2. CASE tasks[op[q].row.task] = 0
      BY <1>0, <1>4, <2>1, <2>2 DEF CheckTask, At
  <2>3. CASE tasks[op[q].row.task] # 0
    <3>1. op'[q] = [op[q] EXCEPT !.stage = "checked"]
        BY <1>0, <1>4, <2>3 DEF CheckTask
    <3>2. op[q] \in [stage : {"drafted", "checked"}, row : Row] /\ op[q].row.task \in Tasks
        BY <1>4, OpParts DEF CheckTask
    <3>3. op'[q].stage = "checked" /\ op'[q].row = op[q].row
        BY <3>1, <3>2
    <3>4. tasks[op[q].row.task] > 0
        BY <2>3, <3>2, TasksTyped
    <3>5. QED
        BY <1>4, <2>1, <3>3, <3>4 DEF CheckTask, At
  <2>4. QED
      BY <2>2, <2>3
<1>5. CASE SaveCheckpoint(q)
  <2>1. loaded'[q] = loaded[q]
      BY <1>5 DEF SaveCheckpoint
  <2>2. op'[q] = None \/ op'[q] = [op[q] EXCEPT !.stage = "drafted"]
      BY <1>0, <1>5 DEF SaveCheckpoint
  <2>3. op[q] \in [stage : {"drafted", "checked"}, row : Row]
      BY <1>5, OpParts DEF SaveCheckpoint
  <2>4. op'[q] = None \/ op'[q].stage = "drafted"
      BY <2>2, <2>3
  <2>5. QED
      BY <2>1, <2>4 DEF At
<1>6. CASE LoadCheckpoint(q)
  <2>1. op'[q] = None
      BY <1>0, <1>6 DEF LoadCheckpoint
  <2>2. loaded'[q] # None => Got(q)
      BY <1>0, <1>6 DEF LoadCheckpoint, Got
  <2>3. QED
      BY <2>1, <2>2 DEF At
<1>7. CASE Crash(q)
    BY <1>0, <1>7 DEF Crash, At
<1>8. ASSUME NEW p \in Processes, p # q,
             \/ \E t \in Tasks : LoadTask(p, t)
             \/ \E t \in Tasks, offset \in Offsets : Construct(p, t, offset)
             \/ CheckTask(p) \/ SaveCheckpoint(p) \/ LoadCheckpoint(p) \/ Crash(p)
      PROVE  op'[q] = op[q] /\ loaded'[q] = loaded[q]
    BY <1>0, <1>8 DEF LoadTask, Construct, CheckTask, SaveCheckpoint, LoadCheckpoint, Crash
<1>9. ASSUME Tick \/ (\E t \in Tasks : SaveTask(t)) \/ (\E offset \in Offsets : AppendAudit(offset))
             \/ UNCHANGED vars
      PROVE  Moves(q)
  <2>1. op'[q] = op[q] /\ loaded'[q] = loaded[q]
      BY <1>9 DEF Tick, SaveTask, AppendAudit, vars
  <2>2. QED
      BY <1>1, <2>1
<1> HIDE DEF Moves
<1> DEFINE Steps(p) ==
        \/ \E t \in Tasks : LoadTask(p, t)
        \/ \E t \in Tasks, offset \in Offsets : Construct(p, t, offset)
        \/ CheckTask(p) \/ SaveCheckpoint(p) \/ LoadCheckpoint(p) \/ Crash(p)
<1>10. Moves(q)
  <2>1. \/ Tick \/ (\E t \in Tasks : SaveTask(t)) \/ (\E offset \in Offsets : AppendAudit(offset))
        \/ UNCHANGED vars
        \/ \E p \in Processes : Steps(p)
      BY DEF Next
  <2>2. CASE Tick \/ (\E t \in Tasks : SaveTask(t)) \/ (\E offset \in Offsets : AppendAudit(offset))
             \/ UNCHANGED vars
      BY <1>9, <2>2
  <2>3. ASSUME NEW p \in Processes, Steps(p) PROVE Moves(q)
    <3>1. CASE p = q
      <4>1. Steps(q)
          BY <2>3, <3>1
      <4>2. QED
          BY <4>1, <1>2, <1>3, <1>4, <1>5, <1>6, <1>7
    <3>2. CASE p # q
        BY <1>1, <1>8, <2>3, <3>2
    <3>3. QED
        BY <3>1, <3>2
  <2>4. QED
      BY <2>1, <2>2, <2>3
<1>11. QED
    BY <1>10

(* CheckedHasTask: the check and the save are two transactions, and nothing *)
(* deletes a task between them.                                             *)
LEMMA CheckedNext == TypeOK /\ CheckedHasTask /\ [Next]_vars => CheckedHasTask'
<1> SUFFICES ASSUME TypeOK, CheckedHasTask, [Next]_vars, NEW q \in Processes, At(q, "checked")'
             PROVE  tasks'[op'[q].row.task] > 0
    BY DEF CheckedHasTask
<1>1. \A t \in Tasks : tasks[t] > 0 => tasks'[t] > 0
    BY TasksStep, TasksTyped
<1>2. CASE op'[q] = op[q]
  <2>1. At(q, "checked")
      BY <1>2 DEF At
  <2>2. op[q].row.task \in Tasks /\ tasks[op[q].row.task] > 0
      BY <2>1, OpParts DEF CheckedHasTask
  <2>3. QED
      BY <1>1, <1>2, <2>2
<1>3. CASE At(q, "drafted") /\ op'[q].row = op[q].row /\ tasks[op[q].row.task] > 0
    BY <1>1, <1>3, OpParts
<1>4. QED
    BY <1>2, <1>3, ProcessStep DEF Moves

(* SinceInv: what a process read stays true of the tables. *)
LEMMA SinceNext ==
    TypeOK /\ CheckedHasTask /\ HasLatest /\ SinceInv /\ [Next]_vars => SinceInv'
<1> SUFFICES ASSUME TypeOK, CheckedHasTask, HasLatest, SinceInv, [Next]_vars, NEW q \in Processes
             PROVE  /\ At(q, "loading")' => op'[q].since <= Len(checkpoints')
                                             /\ op'[q].version <= tasks'[op'[q].task]
                    /\ loaded'[q] # None =>
                          /\ loaded'[q].since <= Len(checkpoints')
                          /\ loaded'[q].version <= tasks'[loaded'[q].task]
                          /\ \E i \in DOMAIN checkpoints' : loaded'[q].row = checkpoints'[i]
                    /\ At(q, "loading")' /\ loaded'[q] # None /\ loaded'[q].task = op'[q].task
                          => loaded'[q].version <= op'[q].version
    BY DEF SinceInv
<1>1. /\ \A t \in Tasks : tasks[t] <= tasks'[t] /\ tasks[t] \in Nat /\ tasks'[t] \in Nat
      /\ Len(checkpoints) \in Nat /\ Len(checkpoints') \in Nat
      /\ Len(checkpoints) <= Len(checkpoints')
      /\ \A i \in DOMAIN checkpoints : i \in DOMAIN checkpoints' /\ checkpoints'[i] = checkpoints[i]
    BY GrowsNext, TasksTyped, TypeNext DEF Grows, TypeOK
<1>2. At(q, "loading") =>
         /\ op[q].since <= Len(checkpoints) /\ op[q].version <= tasks[op[q].task]
         /\ op[q].task \in Tasks /\ op[q].version \in Nat /\ op[q].since \in Nat
    BY OpParts DEF SinceInv
<1>3. loaded[q] # None =>
         /\ loaded[q].since <= Len(checkpoints) /\ loaded[q].version <= tasks[loaded[q].task]
         /\ loaded[q].task \in Tasks /\ loaded[q].version \in Nat /\ loaded[q].since \in Nat
         /\ \E i \in DOMAIN checkpoints : loaded[q].row = checkpoints[i]
    BY OpParts DEF SinceInv
<1>4. loaded[q] # None =>
         /\ loaded[q].since <= Len(checkpoints') /\ loaded[q].version <= tasks'[loaded[q].task]
         /\ \E i \in DOMAIN checkpoints' : loaded[q].row = checkpoints'[i]
  <2>1. loaded[q] # None =>
           loaded[q].since <= Len(checkpoints') /\ loaded[q].version <= tasks'[loaded[q].task]
      BY <1>1, <1>3
  <2>2. loaded[q] # None => \E i \in DOMAIN checkpoints' : loaded[q].row = checkpoints'[i]
      BY <1>1, <1>3
  <2>3. QED
      BY <2>1, <2>2
<1>5. At(q, "loading")' => op'[q].since <= Len(checkpoints') /\ op'[q].version <= tasks'[op'[q].task]
  <2>1. CASE Began(q)
      BY <1>1, <2>1 DEF Began
  <2>2. CASE op'[q] = op[q] /\ At(q, "loading")'
      BY <1>1, <1>2, <2>2 DEF At
  <2>3. QED
      BY <2>1, <2>2, ProcessStep DEF Moves
<1>6. loaded'[q] # None =>
         /\ loaded'[q].since <= Len(checkpoints') /\ loaded'[q].version <= tasks'[loaded'[q].task]
         /\ \E i \in DOMAIN checkpoints' : loaded'[q].row = checkpoints'[i]
  <2>1. CASE Got(q)
    <3>1. Latest(op[q].task) \in DOMAIN checkpoints
        BY <1>2, <2>1, LatestFound DEF Got, IsLatest, RowsOf
    <3>2. QED
        BY <1>1, <1>2, <2>1, <3>1 DEF Got
  <2>2. CASE loaded'[q] = loaded[q]
      BY <1>4, <2>2
  <2>3. QED
      BY <2>1, <2>2, ProcessStep DEF Moves
<1>7. At(q, "loading")' /\ loaded'[q] # None /\ loaded'[q].task = op'[q].task
         => loaded'[q].version <= op'[q].version
  <2>1. CASE Began(q)
      BY <1>1, <1>3, <2>1 DEF Began
  <2>2. CASE op'[q] = op[q] /\ loaded'[q] = loaded[q]
      BY <2>2 DEF At, SinceInv
  <2>3. QED
      BY <2>1, <2>2, ProcessStep DEF Moves
<1>8. QED
    BY <1>5, <1>6, <1>7

LEMMA RowOfTaskNext ==
    TypeOK /\ HasLatest /\ RowOfTask /\ [Next]_vars => RowOfTask'
<1> SUFFICES ASSUME TypeOK, HasLatest, RowOfTask, [Next]_vars,
                    NEW q \in Processes, loaded'[q] # None
             PROVE  loaded'[q].row.task = loaded'[q].task
    BY DEF RowOfTask
<1>1. CASE Got(q)
  <2>1. op[q].task \in Tasks
      BY <1>1, OpParts DEF Got
  <2>2. checkpoints[Latest(op[q].task)].task = op[q].task
      BY <1>1, <2>1, LatestFound DEF Got, IsLatest, RowsOf
  <2>3. QED
      BY <1>1, <2>2 DEF Got
<1>2. CASE loaded'[q] = loaded[q]
    BY <1>2 DEF RowOfTask
<1>3. QED
    BY <1>1, <1>2, ProcessStep DEF Moves

----------------------------------------------------------------------------
(* The invariant. *)

LEMMA StoreInit == Init => StoreInv
<1> SUFFICES ASSUME Init PROVE StoreInv
    OBVIOUS
<1>1. /\ checkpoints = <<>> /\ DOMAIN checkpoints = {}
      /\ \A p \in Processes : op[p] = None /\ loaded[p] = None
    BY DEF Init
<1>2. StoredOnce /\ HasLatest
    BY <1>1 DEF StoredOnce, HasLatest, RowsOf
<1>3. CheckedHasTask /\ SinceInv /\ RowOfTask
    BY <1>1 DEF CheckedHasTask, SinceInv, RowOfTask, At
<1>4. QED
    BY <1>2, <1>3, TypeInit DEF StoreInv

LEMMA StoreNext == StoreInv /\ [Next]_vars => StoreInv'
    BY TypeNext, StoredNext, LatestNext, CheckedNext, SinceNext, RowOfTaskNext DEF StoreInv

LEMMA StoreAlways == Spec => []StoreInv
    BY StoreInit, StoreNext, PTL DEF Spec

(* Types, for every size of the tables. *)
THEOREM Typed == Spec => []TypeOK
<1>1. StoreInv => TypeOK
    BY DEF StoreInv
<1>2. QED
    BY <1>1, StoreAlways, PTL

(* A checkpoint is stored once and only for a known task, whatever repeats *)
(* of a write and crashes of writers there are.                            *)
THEOREM Once == Spec => []StoredOnce
<1>1. StoreInv => StoredOnce
    BY DEF StoreInv
<1>2. QED
    BY <1>1, StoreAlways, PTL

----------------------------------------------------------------------------
(* Freshness. *)

(* The row the query returns is not behind any other of its task. *)
LEMMA LatestNotBehind ==
    ASSUME TypeOK, HasLatest, NEW t \in Tasks, NEW j \in RowsOf(t)
    PROVE  NotBehind(checkpoints[Latest(t)].at, checkpoints[j].at)
<1>1. IsLatest(Latest(t), t)
    BY LatestFound
<1> DEFINE a == checkpoints[j].at
           b == checkpoints[Latest(t)].at
<1>2. TextBefore(a, b) \/ a = b
    BY <1>1 DEF IsLatest, Beats
<1>3. j \in DOMAIN checkpoints /\ Latest(t) \in DOMAIN checkpoints
    BY <1>1 DEF IsLatest, RowsOf
<1>4. a \in Stamp /\ b \in Stamp
    BY <1>3, RowParts
<1> HIDE DEF a, b
<1>5. a.instant \in Nat /\ b.instant \in Nat /\ a.offset \in Nat /\ b.offset \in Nat
    BY <1>4, StampParts
<1>6. NotBehind(b, a)
    BY <1>2, <1>5 DEF TextBefore, NotBehind
<1>7. QED
    BY <1>6 DEF a, b

(* A load is fresh: the row it got is not behind any row that was there    *)
(* when it began.                                                          *)
LEMMA FreshNext ==
    ASSUME StoreInv, FreshLoad, [Next]_vars
    PROVE  FreshLoad'
<1>1. TypeOK /\ HasLatest /\ CheckedHasTask /\ SinceInv
    BY DEF StoreInv
<1> SUFFICES ASSUME NEW q \in Processes, loaded'[q] # None, NEW i \in 1 .. loaded'[q].since,
                    checkpoints'[i].task = loaded'[q].task
             PROVE  NotBehind(loaded'[q].row.at, checkpoints'[i].at)
    BY DEF FreshLoad
<1>2. \A j \in DOMAIN checkpoints : checkpoints'[j] = checkpoints[j]
    BY <1>1, GrowsNext DEF Grows
<1>3. DOMAIN checkpoints = 1 .. Len(checkpoints) /\ Len(checkpoints) \in Nat
    BY <1>1 DEF TypeOK
<1>4. CASE Got(q)
  <2>1. /\ op[q].since \in Nat /\ op[q].since <= Len(checkpoints) /\ op[q].task \in Tasks
        /\ loaded'[q].since = op[q].since /\ loaded'[q].task = op[q].task
        /\ loaded'[q].row = checkpoints[Latest(op[q].task)]
      BY <1>1, <1>4, OpParts DEF Got, SinceInv
  <2>2. i \in DOMAIN checkpoints
      BY <1>3, <2>1
  <2>3. i \in RowsOf(op[q].task)
      BY <1>2, <2>1, <2>2 DEF RowsOf
  <2>4. QED
      BY <1>1, <1>2, <2>1, <2>2, <2>3, LatestNotBehind
<1>5. CASE loaded'[q] = loaded[q]
  <2>1. loaded[q].since <= Len(checkpoints) /\ loaded[q].since \in Nat
      BY <1>1, <1>5, OpParts DEF SinceInv
  <2>2. i \in DOMAIN checkpoints /\ i \in 1 .. loaded[q].since
      BY <1>3, <1>5, <2>1
  <2>3. QED
      BY <1>2, <1>5, <2>2 DEF FreshLoad
<1>6. QED
    BY <1>1, <1>4, <1>5, ProcessStep DEF Moves

(* What a load returns is not behind what was stored when it began, for    *)
(* any number of writers and any offsets.                                  *)
THEOREM Fresh == Spec => []FreshLoad
<1>1. Init => FreshLoad
    BY DEF Init, FreshLoad
<1>2. StoreInv /\ FreshLoad /\ [Next]_vars => FreshLoad'
    BY FreshNext
<1>3. QED
    BY <1>1, <1>2, StoreAlways, PTL DEF Spec

(* The step of LoadsMonotonic. *)
Forward ==
    \A p \in Processes :
        /\ loaded[p] # None
        /\ loaded'[p] # None
        /\ loaded'[p].task = loaded[p].task
        => /\ loaded[p].version <= loaded'[p].version
           /\ NotBehind(loaded'[p].row.at, loaded[p].row.at)

LEMMA ForwardStep == ASSUME StoreInv, [Next]_vars PROVE Forward
<1>1. TypeOK /\ HasLatest /\ SinceInv /\ RowOfTask
    BY DEF StoreInv
<1> SUFFICES ASSUME NEW q \in Processes, loaded[q] # None, loaded'[q] # None,
                    loaded'[q].task = loaded[q].task
             PROVE  /\ loaded[q].version <= loaded'[q].version
                    /\ NotBehind(loaded'[q].row.at, loaded[q].row.at)
    BY DEF Forward
<1>2. loaded[q].version \in Nat /\ loaded[q].row \in Row
    BY <1>1, OpParts
<1>3. CASE loaded'[q] = loaded[q]
  <2>1. loaded[q].row.at \in Stamp
      BY <1>2 DEF Row
  <2>2. loaded[q].row.at.instant \in Nat /\ loaded[q].row.at.offset \in Nat
      BY <2>1, StampParts
  <2>3. NotBehind(loaded[q].row.at, loaded[q].row.at)
      BY <2>2 DEF NotBehind
  <2>4. QED
      BY <1>2, <1>3, <2>3
<1>4. CASE Got(q)
  <2>1. loaded'[q].version = op[q].version /\ loaded'[q].task = op[q].task
        /\ loaded'[q].row = checkpoints[Latest(op[q].task)] /\ At(q, "loading")
      BY <1>4 DEF Got
  <2>2. loaded[q].version <= op[q].version /\ op[q].task \in Tasks
      BY <1>1, <2>1, OpParts DEF SinceInv
  <2>3. PICK i \in DOMAIN checkpoints : loaded[q].row = checkpoints[i]
      BY <1>1 DEF SinceInv
  <2>4. i \in RowsOf(op[q].task)
      BY <1>1, <2>1, <2>3 DEF RowsOf, RowOfTask
  <2>5. NotBehind(loaded'[q].row.at, loaded[q].row.at)
      BY <1>1, <2>1, <2>2, <2>3, <2>4, LatestNotBehind
  <2>6. QED
      BY <2>1, <2>2, <2>5
<1>5. QED
    BY <1>1, <1>3, <1>4, ProcessStep DEF Moves

(* The loads of a process do not go back in time. *)
THEOREM Monotonic == Spec => LoadsMonotonic
<1>1. StoreInv /\ [Next]_vars => [Forward]_vars
    BY ForwardStep
<1>2. Spec => [][Forward]_vars
    BY <1>1, StoreAlways, PTL DEF Spec
<1>3. QED
    BY <1>2 DEF LoadsMonotonic, Forward

----------------------------------------------------------------------------
(* Where all clocks show one UTC offset, as the default of recorded_at does. *)

SameOffset == \A a, b \in Offsets : a = b

(* The checkpoint of a load is at least as recent as each that was stored  *)
(* when it began.                                                          *)
NewestLoad ==
    \A p \in Processes :
        loaded[p] # None =>
            \A i \in 1 .. loaded[p].since :
                checkpoints[i].task = loaded[p].task =>
                    checkpoints[i].at.instant <= loaded[p].row.at.instant

(* With one offset a fresh load is one of the newest instant. *)
THEOREM Newest == SameOffset /\ Spec => []NewestLoad
<1> SUFFICES ASSUME SameOffset PROVE Spec => []NewestLoad
    OBVIOUS
<1>1. ASSUME StoreInv, FreshLoad, NEW p \in Processes, loaded[p] # None,
             NEW i \in 1 .. loaded[p].since, checkpoints[i].task = loaded[p].task
      PROVE  checkpoints[i].at.instant <= loaded[p].row.at.instant
  <2>1. TypeOK /\ SinceInv
      BY <1>1 DEF StoreInv
  <2>2. /\ loaded[p].since \in Nat /\ loaded[p].since <= Len(checkpoints)
        /\ loaded[p].row \in Row
      BY <1>1, <2>1, OpParts DEF SinceInv
  <2>3. DOMAIN checkpoints = 1 .. Len(checkpoints) /\ Len(checkpoints) \in Nat
      BY <2>1 DEF TypeOK
  <2>4. i \in DOMAIN checkpoints
      BY <2>2, <2>3
  <2>5. checkpoints[i].at \in Stamp /\ loaded[p].row.at \in Stamp
      BY <2>1, <2>2, <2>4, RowParts DEF Row
  <2>6. NotBehind(loaded[p].row.at, checkpoints[i].at)
      BY <1>1 DEF FreshLoad
  <2>7. /\ checkpoints[i].at.instant \in Nat /\ loaded[p].row.at.instant \in Nat
        /\ checkpoints[i].at.offset \in Nat
        /\ checkpoints[i].at.offset = loaded[p].row.at.offset
      BY <2>5, StampParts DEF SameOffset
  <2>8. QED
      BY <2>6, <2>7 DEF NotBehind
<1>2. StoreInv /\ FreshLoad => NewestLoad
    BY <1>1 DEF NewestLoad
<1>3. QED
    BY <1>2, StoreAlways, Fresh, PTL

=============================================================================
