----------------------------- MODULE Migrations -----------------------------
(***************************************************************************)
(* persistence/migrations.py: processes that start on one database, of     *)
(* releases that may differ, and bring its schema up to date.  On          *)
(* PostgreSQL a session lock makes them take turns; on SQLite only each    *)
(* migration's own transaction does.                                       *)
(***************************************************************************)
EXTENDS Integers, FiniteSets

CONSTANTS
    Processes,
    Versions,     \* 1..n: the migrations of the newest release
    MaxStarts     \* bound: starts of one process

VARIABLES
    shared,       \* the dialect is PostgreSQL (no file to back up)
    installed,    \* the database existed before: it holds rows worth a backup
    table,        \* schema_migrations: the versions recorded
    effects,      \* history: how often each migration's changes were committed
    latest,       \* process -> the newest migration of its release
    lock,         \* holder of MIGRATE_LOCK, or "none"
    pc,           \* process -> "down", "locked", "apply", "up", "refused", "failed"
    todo,         \* process -> versions still to apply
    fresh,        \* process -> nothing applied yet (not applied)
    backups,      \* version -> the newest version its .pre-v file holds, or -1
    starts

vars == <<shared, installed, table, effects, latest, lock, pc, todo, fresh, backups, starts>>

Newest(s) == IF s = {} THEN 0 ELSE CHOOSE v \in s : \A u \in s : u <= v
Oldest(s) == CHOOSE v \in s : \A u \in s : v <= u

current_version == Newest(table)

Init ==
    /\ shared \in BOOLEAN /\ installed \in BOOLEAN
    /\ table \in (IF installed THEN {{1}} ELSE {{}}) /\ effects = [v \in Versions |-> IF v \in table THEN 1 ELSE 0]
    /\ latest \in [Processes -> {Newest(Versions) - 1, Newest(Versions)}]
    /\ lock = "none" /\ pc = [p \in Processes |-> "down"]
    /\ todo = [p \in Processes |-> {}] /\ fresh = [p \in Processes |-> TRUE]
    /\ backups = [v \in Versions |-> -1] /\ starts = [p \in Processes |-> 0]

-----------------------------------------------------------------------------
(* mutant: the list is made while another process may hold the lock *)
migrate_late(p) ==
    /\ pc[p] = "down" /\ starts[p] < MaxStarts
    /\ pc' = [pc EXCEPT ![p] = "locked"] /\ starts' = [starts EXCEPT ![p] = @ + 1]
    /\ UNCHANGED <<shared, installed, table, effects, latest, lock, todo, fresh, backups>>

(* migrate: PostgreSQL takes the lock before anything is read              *)
migrate(p) ==
    /\ pc[p] = "down" /\ starts[p] < MaxStarts
    /\ shared => lock = "none"
    /\ lock' = IF shared THEN p ELSE lock
    /\ pc' = [pc EXCEPT ![p] = "locked"] /\ starts' = [starts EXCEPT ![p] = @ + 1]
    /\ UNCHANGED <<shared, installed, table, effects, latest, todo, fresh, backups>>

Unlocked(p) == lock' = IF lock = p THEN "none" ELSE lock

(* mutant: a database of a newer release has nothing pending *)
pending_lenient(p) ==
    /\ pc[p] = "locked"
    /\ LET left == {v \in Versions : v <= latest[p] /\ v > current_version} IN
          /\ todo' = [todo EXCEPT ![p] = left]
          /\ pc' = [pc EXCEPT ![p] = IF left = {} THEN "up" ELSE "apply"]
          /\ IF left = {} THEN Unlocked(p) ELSE UNCHANGED lock
    /\ fresh' = [fresh EXCEPT ![p] = TRUE]
    /\ UNCHANGED <<shared, installed, table, effects, latest, backups, starts>>

(* pending: a schema newer than this release is refused                    *)
pending(p) ==
    /\ pc[p] = "locked"
    /\ LET left == {v \in Versions : v <= latest[p] /\ v > current_version} IN
          IF current_version > latest[p]
          THEN pc' = [pc EXCEPT ![p] = "refused"] /\ Unlocked(p) /\ UNCHANGED todo
          ELSE /\ todo' = [todo EXCEPT ![p] = left]
               /\ pc' = [pc EXCEPT ![p] = IF left = {} THEN "up" ELSE "apply"]
               /\ IF left = {} THEN Unlocked(p) ELSE UNCHANGED lock
    /\ fresh' = [fresh EXCEPT ![p] = TRUE]
    /\ UNCHANGED <<shared, installed, table, effects, latest, backups, starts>>

_has_user_data == table # {} \/ installed

(* backup_database: before the first pending migration, of a file only     *)
backup_database(p) ==
    /\ pc[p] = "apply" /\ fresh[p] /\ ~shared /\ _has_user_data
    /\ backups' = [backups EXCEPT ![Oldest(todo[p])] = current_version]
    /\ fresh' = [fresh EXCEPT ![p] = FALSE]
    /\ UNCHANGED <<shared, installed, table, effects, latest, lock, pc, todo, starts>>

(* mutant *)
_apply_unrecorded(p) ==
    /\ pc[p] = "apply" /\ (fresh[p] => shared \/ ~_has_user_data)
    /\ LET v == Oldest(todo[p]) IN
          /\ table' = table \union {v} /\ effects' = [effects EXCEPT ![v] = @ + 1]
          /\ todo' = [todo EXCEPT ![p] = @ \ {v}]
          /\ pc' = [pc EXCEPT ![p] = IF todo'[p] = {} THEN "up" ELSE "apply"]
          /\ IF todo'[p] = {} THEN Unlocked(p) ELSE UNCHANGED lock
          /\ fresh' = [fresh EXCEPT ![p] = FALSE]
    /\ UNCHANGED <<shared, installed, latest, backups, starts>>

(* One migration and its row in one transaction.  A row that is already    *)
(* there is a constraint error: everything is rolled back and raised.      *)
_apply(p) ==
    /\ pc[p] = "apply" /\ (fresh[p] => shared \/ ~_has_user_data)
    /\ LET v == Oldest(todo[p]) IN
          IF v \in table
          THEN /\ pc' = [pc EXCEPT ![p] = "failed"] /\ Unlocked(p)
               /\ UNCHANGED <<table, effects, todo, fresh>>
          ELSE /\ table' = table \union {v} /\ effects' = [effects EXCEPT ![v] = @ + 1]
               /\ todo' = [todo EXCEPT ![p] = @ \ {v}]
               /\ pc' = [pc EXCEPT ![p] = IF todo'[p] = {} THEN "up" ELSE "apply"]
               /\ IF todo'[p] = {} THEN Unlocked(p) ELSE UNCHANGED lock
               /\ fresh' = [fresh EXCEPT ![p] = FALSE]
    /\ UNCHANGED <<shared, installed, latest, backups, starts>>

(* A process ends anywhere: its open transaction and its session lock go.  *)
(* It may be started again, as another release.                            *)
Crash(p) ==
    /\ pc[p] # "down"
    /\ pc' = [pc EXCEPT ![p] = "down"] /\ Unlocked(p)
    /\ todo' = [todo EXCEPT ![p] = {}] /\ fresh' = [fresh EXCEPT ![p] = TRUE]
    /\ \E n \in {Newest(Versions) - 1, Newest(Versions)} : latest' = [latest EXCEPT ![p] = n]
    /\ UNCHANGED <<shared, installed, table, effects, backups, starts>>

Next ==
    \E p \in Processes :
        \/ migrate(p) \/ pending(p) \/ backup_database(p) \/ _apply(p) \/ Crash(p)

Spec == Init /\ [][Next]_vars

-----------------------------------------------------------------------------
(* _apply: whatever processes start together, crash and start again, a     *)
(* migration's changes are committed once and in order, so the newest      *)
(* recorded version stands for all before it.                              *)
AppliedOnceInOrder ==
    /\ table = 1..current_version
    /\ \A v \in Versions : effects[v] = IF v \in table THEN 1 ELSE 0

(* pending: a process that is up understands the schema, as far as it was  *)
(* when the process looked: it is up only with everything of its release   *)
(* applied, and never started on a newer schema than its own.              *)
StartsUnderstood ==
    \A p \in Processes :
       (pc[p] # "up" /\ pc'[p] = "up") =>
          /\ latest[p] <= current_version'
          /\ pc[p] = "locked" => current_version <= latest[p]

(* migrate: with the lock, processes that start together all start; none   *)
(* fails because another one was faster.                                   *)
TakeTurns == shared => \A p \in Processes : pc[p] # "failed"

(* persistence/migrations.py says that before the first pending migration  *)
(* touches an existing database a consistent backup is written: the file   *)
(* named for v holds the database as it was before v.                      *)
BackupIsBefore == \A v \in Versions : backups[v] < v
=============================================================================
