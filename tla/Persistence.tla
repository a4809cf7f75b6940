---------------------------- MODULE Persistence ----------------------------
(***************************************************************************)
(* The SQLite store (persistence/sqlite.py) and the two services on top of *)
(* it: CheckpointPersistenceService, which reads the task before it saves  *)
(* the checkpoint, and RepositoryBackedRecoverySnapshotLoader, which reads *)
(* the task and then its latest checkpoint.  Several processes have the    *)
(* database open, each with a connection of its own.  Every statement is   *)
(* one transaction, and what these services do takes two.  A process may   *)
(* crash between them.                                                     *)
(*                                                                         *)
(* A recorded_at is the instant at which the record was constructed, by a  *)
(* clock that shows a UTC offset; the table stores and orders its ISO      *)
(* text.  Rows are sequences in rowid order.  JSON payloads are left out;  *)
(* a task counts how often it was saved, in place of its state.            *)
(***************************************************************************)
EXTENDS Naturals, Sequences, FiniteSets

CONSTANTS
    Processes,       \* connections
    Tasks,           \* task ids
    None,
    Offsets,         \* UTC offsets of the datetimes given, in clock units
    Limit,           \* limit of list_recent
    MaxClock,        \* bound: instants
    MaxCheckpoints,  \* bound: CheckpointRecords constructed
    MaxSaves,        \* bound: saves of one task
    MaxAudit         \* bound: audit events

ASSUME StoreAssumption ==
    /\ Offsets \subseteq Nat
    /\ {Limit, MaxClock, MaxCheckpoints, MaxSaves, MaxAudit} \subseteq Nat
    /\ None \notin Tasks

VARIABLES
    clock,        \* the present instant
    tasks,        \* table tasks: how often each was saved, 0 if it has no row
    checkpoints,  \* table checkpoints
    audit,        \* table audit_events
    drafts,       \* CheckpointRecords constructed so far; they number the ids
    op,           \* per process: the operation it is in the middle of
    loaded        \* per process: the last RecoverySnapshot it got, or None

vars == <<clock, tasks, checkpoints, audit, drafts, op, loaded>>

Stamp == [instant : 0 .. MaxClock, offset : Offsets]
Row   == [id : 1 .. MaxCheckpoints, task : Tasks, at : Stamp]

(* A snapshot: the task with the state it was read in, a row, and how many *)
(* rows the table had when the load began (history).                       *)
Snapshot == [task : Tasks, version : 1 .. MaxSaves, row : Row, since : Nat]

Ops == [stage : {"drafted", "checked"}, row : Row]
       \cup [stage : {"loading"}, task : Tasks, version : 1 .. MaxSaves, since : Nat]

----------------------------------------------------------------------------
(* The queries. *)

(* The order of two ISO texts: the local time first, then the offset. *)
TextBefore(a, b) ==
    \/ a.instant + a.offset < b.instant + b.offset
    \/ a.instant + a.offset = b.instant + b.offset /\ a.offset < b.offset

RowsOf(task) == {i \in DOMAIN checkpoints : checkpoints[i].task = task}

(* Mutant: ordered by rowid alone. *)
MutantLatestByRowid(task) ==
    CHOOSE i \in RowsOf(task) : \A j \in RowsOf(task) : j <= i

(* Mutant: ORDER BY recorded_at ASC. *)
MutantLatestAscending(task) ==
    CHOOSE i \in RowsOf(task) :
        \A j \in RowsOf(task) \ {i} :
            \/ TextBefore(checkpoints[i].at, checkpoints[j].at)
            \/ checkpoints[j].at = checkpoints[i].at /\ j < i

(* get_latest_for_task: ORDER BY recorded_at DESC, rowid DESC LIMIT 1 *)
Latest(task) ==
    CHOOSE i \in RowsOf(task) :
        \A j \in RowsOf(task) \ {i} :
            \/ TextBefore(checkpoints[j].at, checkpoints[i].at)
            \/ checkpoints[j].at = checkpoints[i].at /\ j < i

(* list_recent: ORDER BY recorded_at ASC, event_id ASC LIMIT limit *)
ListRecent ==
    {i \in DOMAIN audit :
        Cardinality({j \in DOMAIN audit \ {i} :
                        \/ TextBefore(audit[j], audit[i])
                        \/ audit[j] = audit[i] /\ j < i}) < Limit}

----------------------------------------------------------------------------
(* The operations. *)

Init ==
    /\ clock = 0
    /\ tasks = [t \in Tasks |-> 0]
    /\ checkpoints = <<>>
    /\ audit = <<>>
    /\ drafts = 0
    /\ op = [p \in Processes |-> None]
    /\ loaded = [p \in Processes |-> None]

Tick ==
    /\ clock < MaxClock
    /\ clock' = clock + 1
    /\ UNCHANGED <<tasks, checkpoints, audit, drafts, op, loaded>>

(* SqliteTaskRepository.save: insert or update *)
SaveTask(t) ==
    /\ tasks[t] < MaxSaves
    /\ tasks' = [tasks EXCEPT ![t] = @ + 1]
    /\ UNCHANGED <<clock, checkpoints, audit, drafts, op, loaded>>

(* SqliteAuditEventRepository.append *)
AppendAudit(offset) ==
    /\ Len(audit) < MaxAudit
    /\ audit' = Append(audit, [instant |-> clock, offset |-> offset])
    /\ UNCHANGED <<clock, tasks, checkpoints, drafts, op, loaded>>

(* A CheckpointRecord is constructed: its recorded_at is taken here, before *)
(* anything is stored.                                                      *)
Construct(p, t, offset) ==
    /\ op[p] = None
    /\ drafts < MaxCheckpoints
    /\ drafts' = drafts + 1
    /\ op' = [op EXCEPT ![p] =
                 [stage |-> "drafted",
                  row   |-> [id   |-> drafts + 1,
                             task |-> t,
                             at   |-> [instant |-> clock, offset |-> offset]]]]
    /\ UNCHANGED <<clock, tasks, checkpoints, audit, loaded>>

At(p, stage) == op[p] # None /\ op[p].stage = stage

(* write_checkpoint, up to the save; ValueError if the task is missing *)
CheckTask(p) ==
    /\ At(p, "drafted")
    /\ op' = [op EXCEPT ![p] = IF tasks[op[p].row.task] = 0
                               THEN None
                               ELSE [op[p] EXCEPT !.stage = "checked"]]
    /\ UNCHANGED <<clock, tasks, checkpoints, audit, drafts, loaded>>

(* Mutant: the primary key is not enforced. *)
MutantSaveCheckpointTwice(p) ==
    /\ At(p, "checked")
    /\ Len(checkpoints) <= MaxCheckpoints
    /\ checkpoints' = Append(checkpoints, op[p].row)
    /\ op' \in {[op EXCEPT ![p] = None],
                [op EXCEPT ![p] = [op[p] EXCEPT !.stage = "drafted"]]}
    /\ UNCHANGED <<clock, tasks, audit, drafts, loaded>>

(* SqliteCheckpointRepository.save: a plain INSERT, refused by the primary *)
(* key when the id is there.  A caller that does not learn of its success  *)
(* may write the same record again.                                        *)
SaveCheckpoint(p) ==
    /\ At(p, "checked")
    /\ IF \E i \in DOMAIN checkpoints : checkpoints[i].id = op[p].row.id
       THEN /\ op' = [op EXCEPT ![p] = None]
            /\ UNCHANGED checkpoints
       ELSE /\ checkpoints' = Append(checkpoints, op[p].row)
            /\ op' \in {[op EXCEPT ![p] = None],
                        [op EXCEPT ![p] = [op[p] EXCEPT !.stage = "drafted"]]}
    /\ UNCHANGED <<clock, tasks, audit, drafts, loaded>>

(* load_latest, the first query; None if there is no such task *)
LoadTask(p, t) ==
    /\ op[p] = None
    /\ IF tasks[t] = 0
       THEN /\ loaded' = [loaded EXCEPT ![p] = None]
            /\ UNCHANGED op
       ELSE /\ op' = [op EXCEPT ![p] = [stage   |-> "loading",
                                        task    |-> t,
                                        version |-> tasks[t],
                                        since   |-> Len(checkpoints)]]
            /\ UNCHANGED loaded
    /\ UNCHANGED <<clock, tasks, checkpoints, audit, drafts>>

(* load_latest, the second query; None if there is no checkpoint *)
LoadCheckpoint(p) ==
    /\ At(p, "loading")
    /\ loaded' = [loaded EXCEPT ![p] =
                     IF RowsOf(op[p].task) = {} THEN None
                     ELSE [task    |-> op[p].task,
                           version |-> op[p].version,
                           row     |-> checkpoints[Latest(op[p].task)],
                           since   |-> op[p].since]]
    /\ op' = [op EXCEPT ![p] = None]
    /\ UNCHANGED <<clock, tasks, checkpoints, audit, drafts>>

(* The process dies; the tables keep what was committed. *)
Crash(p) ==
    /\ op[p] # None
    /\ op' = [op EXCEPT ![p] = None]
    /\ loaded' = [loaded EXCEPT ![p] = None]
    /\ UNCHANGED <<clock, tasks, checkpoints, audit, drafts>>

Next ==
    \/ Tick
    \/ \E t \in Tasks : SaveTask(t)
    \/ \E offset \in Offsets : AppendAudit(offset)
    \/ \E p \in Processes :
          \/ \E t \in Tasks : LoadTask(p, t)
          \/ \E t \in Tasks, offset \in Offsets : Construct(p, t, offset)
          \/ CheckTask(p) \/ SaveCheckpoint(p) \/ LoadCheckpoint(p) \/ Crash(p)

Spec == Init /\ [][Next]_vars

----------------------------------------------------------------------------
(* Properties. *)

TypeOK ==
    /\ clock \in 0 .. MaxClock
    /\ tasks \in [Tasks -> 0 .. MaxSaves]
    /\ checkpoints \in Seq(Row)
    /\ audit \in Seq(Stamp)
    /\ drafts \in 0 .. MaxCheckpoints
    /\ op \in [Processes -> Ops \cup {None}]
    /\ loaded \in [Processes -> Snapshot \cup {None}]

(* A checkpoint is stored once, however often its write is repeated or the *)
(* writer crashes between the check of the task and the save, and only for *)
(* a task that has a row, as its foreign key wants.                        *)
StoredOnce ==
    \A i, j \in DOMAIN checkpoints :
        /\ checkpoints[i].id = checkpoints[j].id => i = j
        /\ tasks[checkpoints[i].task] > 0

(* b is at least as recent as a, or older by at most the difference of the *)
(* UTC offsets they show; with one offset that is the order of instants.   *)
NotBehind(b, a) == a.instant + a.offset <= b.instant + b.offset

(* A recovery snapshot is no older than what was stored when its load      *)
(* began: its checkpoint is not behind any of those, though processes      *)
(* store checkpoints in another order than they took the times, write      *)
(* between the two reads, and show different offsets, which the query      *)
(* compares as text.                                                       *)
FreshLoad ==
    \A p \in Processes :
        loaded[p] # None =>
            \A i \in 1 .. loaded[p].since :
                checkpoints[i].task = loaded[p].task =>
                    NotBehind(loaded[p].row.at, checkpoints[i].at)

(* Recovery does not go back in time: a process that loads the same task   *)
(* again gets no older state of it, nor a checkpoint behind the one it got *)
(* before.                                                                 *)
LoadsMonotonic ==
    [][\A p \in Processes :
          /\ loaded[p] # None
          /\ loaded'[p] # None
          /\ loaded'[p].task = loaded[p].task
          => /\ loaded[p].version <= loaded'[p].version
             /\ NotBehind(loaded'[p].row.at, loaded[p].row.at)]_vars

(* "Return recent audit events": no event is left out in favour of an      *)
(* older one.  Violated: see the findings.                                 *)
RecentMeansNewest ==
    \A i \in ListRecent, j \in DOMAIN audit \ ListRecent :
        audit[j].instant <= audit[i].instant

=============================================================================
