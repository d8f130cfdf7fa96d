------------------------------ MODULE Backups ------------------------------
(***************************************************************************)
(* backup.py: snapshots of the SQLite database and restoring one, beside a *)
(* server that may still run.  A database is the set of transactions in    *)
(* its file and in its write-ahead log; SQLite folds the log into the file *)
(* when the last connection closes.                                        *)
(***************************************************************************)
EXTENDS Integers, FiniteSets

CONSTANTS
    MaxTxns,      \* bound: transactions
    MaxSeconds    \* bound: the clock that names what was set aside

VARIABLES
    committed,    \* history: every transaction that was committed
    exists, main, wal,    \* the target: whether it is there, its file, its log
    conn,         \* the server's connection: "none", "open", "moved" (to the file set aside)
    backup,       \* [there, txns, state]: the newest snapshot
    pc,           \* restore: "idle", "verified", "probed", "moved", "cleared"
    kept,         \* second -> transactions in .pre-restore-<second>, or NoFile
    aside,        \* the second whose file this restore made
    tail,         \* what only the server's connection still holds of a removed log
    now,
    overlapped,   \* history: a connection was open during a restore
    collided      \* history: two restores used one name

vars == <<committed, exists, main, wal, conn, backup, pc, kept, aside, tail, now, overlapped, collided>>

NoFile == {0}

Init ==
    /\ committed = {} /\ exists = TRUE /\ main = {} /\ wal = {} /\ conn = "none"
    /\ backup = [there |-> FALSE, txns |-> {}, state |-> "ok"]
    /\ pc = "idle" /\ kept = [s \in 0..MaxSeconds |-> NoFile] /\ aside = 0 /\ tail = {} /\ now = 0
    /\ overlapped = FALSE /\ collided = FALSE

Tick == now < MaxSeconds /\ now' = now + 1
        /\ UNCHANGED <<committed, exists, main, wal, conn, backup, pc, kept, aside, tail, overlapped, collided>>

-----------------------------------------------------------------------------
(* get_db: connect (a missing file is created), commit, close              *)
Connect ==
    /\ conn = "none" /\ conn' = "open" /\ exists' = TRUE
    /\ overlapped' = (overlapped \/ pc \notin {"idle", "verified"})
    /\ UNCHANGED <<committed, main, wal, backup, pc, kept, aside, tail, now, collided>>

Commit ==
    /\ conn # "none" /\ Cardinality(committed) < MaxTxns
    /\ LET t == Cardinality(committed) + 1 IN
          /\ committed' = committed \union {t}
          /\ IF conn = "open" THEN wal' = wal \union {t} /\ UNCHANGED tail
                              ELSE tail' = tail \union {t} /\ UNCHANGED wal
    /\ UNCHANGED <<exists, main, conn, backup, pc, kept, aside, now, overlapped, collided>>

Close ==
    /\ conn # "none" /\ conn' = "none"
    /\ IF conn = "open"
       THEN main' = main \union wal /\ wal' = {} /\ UNCHANGED <<kept, tail>>
       ELSE kept' = [kept EXCEPT ![aside] = @ \union tail] /\ tail' = {} /\ UNCHANGED <<main, wal>>
    /\ UNCHANGED <<committed, exists, backup, pc, aside, now, overlapped, collided>>

(* the server is killed: its log stays, unless it has been removed         *)
Kill ==
    /\ conn # "none" /\ conn' = "none" /\ tail' = {}
    /\ UNCHANGED <<committed, exists, main, wal, backup, pc, kept, aside, now, overlapped, collided>>

-----------------------------------------------------------------------------
(* What verify reports of a file: problems are lack of a readable database *)
(* or of the migrations table, failed integrity, a newer schema, missing   *)
(* append-only guards, checkpoints whose checksum fails.  An older schema  *)
(* is reported too and is no error: it will be migrated.                   *)
Problems == {"unreadable", "corrupt", "foreign", "newer", "unguarded", "bad checkpoint"}
Reported == Problems \union {"older"}
verify(b) == b.there /\ b.state \notin Problems

(* create: the online backup reads file and log in one read transaction;   *)
(* the file it wrote is verified and the report kept beside it             *)
create ==
    /\ ~backup.there /\ exists
    /\ backup' = [there |-> TRUE, txns |-> main \union wal, state |-> "ok"]
    /\ UNCHANGED <<committed, exists, main, wal, conn, pc, kept, aside, tail, now, overlapped, collided>>

(* the copy is kept for months on a disk: it may rot, be replaced by one   *)
(* of another release or be thrown away                                    *)
Damage ==
    /\ backup.there /\ pc = "idle"
    /\ \/ \E s \in Reported : backup' = [backup EXCEPT !.state = s]
       \/ backup' = [backup EXCEPT !.there = FALSE]
    /\ UNCHANGED <<committed, exists, main, wal, conn, pc, kept, aside, tail, now, overlapped, collided>>

(* restore: refuses a backup that does not verify; the name is made now    *)
restore ==
    /\ pc = "idle" /\ verify(backup)
    /\ pc' = "verified" /\ aside' = now
    /\ UNCHANGED <<committed, exists, main, wal, conn, backup, kept, tail, now, overlapped, collided>>

(* BEGIN EXCLUSIVE in WAL mode fails only while another connection writes; *)
(* one that is open between its statements does not stop it.  Closing the  *)
(* probe folds the log if it was the last connection.                      *)
Probe ==
    /\ pc = "verified" /\ exists
    /\ pc' = "probed" /\ overlapped' = (overlapped \/ conn # "none")
    /\ IF conn = "none" THEN main' = main \union wal /\ wal' = {} ELSE UNCHANGED <<main, wal>>
    /\ UNCHANGED <<committed, exists, conn, backup, kept, aside, tail, now, collided>>

ProbeRefused ==
    /\ pc = "verified" /\ conn = "open" /\ pc' = "idle"
    /\ UNCHANGED <<committed, exists, main, wal, conn, backup, kept, aside, tail, now, overlapped, collided>>

(* mutant: the old file is removed instead *)
MoveAway ==
    /\ pc = "probed" /\ pc' = "moved"
    /\ exists' = FALSE /\ main' = {}
    /\ conn' = IF conn = "open" THEN "moved" ELSE conn
    /\ UNCHANGED <<committed, wal, backup, kept, aside, tail, now, overlapped, collided>>

(* shutil.move: the file goes aside, over one of the same name             *)
Move ==
    /\ pc = "probed" /\ pc' = "moved"
    /\ collided' = (collided \/ kept[aside] # NoFile)
    /\ kept' = [kept EXCEPT ![aside] = main]
    /\ exists' = FALSE /\ main' = {}
    /\ conn' = IF conn = "open" THEN "moved" ELSE conn
    /\ UNCHANGED <<committed, wal, backup, aside, tail, now, overlapped>>

(* -wal and -shm are removed, also where no target was                     *)
Unlink ==
    /\ pc = "moved" \/ (pc = "verified" /\ ~exists)
    /\ pc' = "cleared" /\ wal' = {}
    /\ tail' = IF conn = "moved" THEN tail \union wal ELSE tail
    /\ UNCHANGED <<committed, exists, main, conn, backup, kept, aside, now, overlapped, collided>>

Copy ==
    /\ pc = "cleared" /\ pc' = "idle"
    /\ exists' = TRUE /\ main' = backup.txns
    /\ UNCHANGED <<committed, wal, conn, backup, kept, aside, tail, now, overlapped, collided>>

(* the command dies between two of its steps                               *)
RestoreDies ==
    /\ pc # "idle" /\ pc' = "idle"
    /\ UNCHANGED <<committed, exists, main, wal, conn, backup, kept, aside, tail, now, overlapped, collided>>

Next ==
    \/ Tick \/ Connect \/ Commit \/ Close \/ Kill \/ create \/ Damage
    \/ restore \/ Probe \/ ProbeRefused \/ Move \/ Unlink \/ Copy \/ RestoreDies

Spec == Init /\ [][Next]_vars

-----------------------------------------------------------------------------
Files == main \union wal \union tail \union UNION {kept[s] : s \in 0..MaxSeconds}

(* backup.restore: whatever a restore, a crash in the middle of one or the *)
(* one after it does, no committed transaction disappears from all files   *)
(* unless a connection was open meanwhile or two restores shared a second. *)
GoneOnlyByOverlap == committed \subseteq Files \/ overlapped \/ collided

(* backup.py: "The database being replaced is kept beside it, never        *)
(* deleted": what was set aside stays, and holds what was committed.       *)
KeptForGood == committed \subseteq Files

(* backup.py: a restore "refuses while another process holds the database  *)
(* open".                                                                  *)
RefusesWhileOpen == [][(pc = "verified" /\ pc' = "probed") => conn = "none"]_vars
=============================================================================
