----------------------------- MODULE MCRecords ------------------------------
(* What PatchQuest keeps and how it is kept right, for TLC: memories,       *)
(* profiles, calendars, lineage, episodes, the schema,                       *)
(* backups and run histories. They share no state, so a behaviour is about  *)
(* one of them (focus), and they share the variables v1, v2, ... of which   *)
(* each uses the first few.                                                 *)
EXTENDS Naturals

VARIABLES focus, v1, v2, v3, v4, v5, v6, v7, v8, v9, v10, v11, v12, v13

vars == <<focus, v1, v2, v3, v4, v5, v6, v7, v8, v9, v10, v11, v12, v13>>

Me == INSTANCE Memory WITH
    Processes <- {"p", "q"}, Values <- {1, 2}, Sources <- {"test_result", "agent_inference"},
    MaxRows <- 2,
    rows <- v1, ops <- v2
Pr == INSTANCE RepoProfile WITH
    Processes <- {"p", "q"}, Layouts <- {1, 2, 3}, Bare <- {2}, Trees <- {1, 2},
    layout <- v1, tree <- v2, field <- v3, stored <- v4, removed <- v5, torn <- v6, job <- v7
Ca == INSTANCE Calendar WITH
    Tasks <- {"t", "u"}, MaxEvents <- 3,
    provider <- v1, store <- v2, ids <- v3, job <- v4, gone <- v5, old <- v6
Li == INSTANCE Lineage WITH
    MaxRuns <- 2, Steps <- 3, MaxCrashes <- 1, MaxLost <- 1,
    runs <- v1, row <- v2, pc <- v3, cp <- v4, calls <- v5, sessions <- v6, used <- v7, began <- v8,
    disturbed <- v9, written <- v10, drifted <- v11, crashes <- v12, unrecorded <- v13
Gy == INSTANCE Gym WITH
    max_steps <- 3, patch_size_cap <- 1, MaxEpisodes <- 2,
    ws <- v1, first <- v2, episode <- v3, recorded <- v4, final <- v5, episodes <- v6
Mi == INSTANCE Migrations WITH
    Processes <- {"p", "q"}, Versions <- {1, 2, 3}, MaxStarts <- 2,
    shared <- v1, installed <- v2, table <- v3, effects <- v4, latest <- v5, lock <- v6, pc <- v7,
    todo <- v8, fresh <- v9, backups <- v10, starts <- v11
Ba == INSTANCE Backups WITH
    MaxTxns <- 2, MaxSeconds <- 1,
    committed <- v1, exists <- v2, main <- v3, wal <- v4, conn <- v5, backup <- v6, pc <- v7,
    kept <- v8, aside <- v9, tail <- v10, now <- v11, overlapped <- v12, collided <- v13
Hi == INSTANCE History WITH
    MaxEvents <- 6, MaxOthers <- 4, MaxCheckpoints <- 2,
    ledger <- v1, row <- v2, at <- v3, cps <- v4, bundle <- v5, wrote <- v6, sound <- v7

Init ==
    \/ focus = "memory" /\ Me!Init /\ v3 = 0 /\ v4 = 0 /\ v5 = 0 /\ v6 = 0 /\ v7 = 0 /\ v8 = 0 /\ v9 = 0 /\ v10 = 0 /\ v11 = 0 /\ v12 = 0 /\ v13 = 0
    \/ focus = "profile" /\ Pr!Init /\ v8 = 0 /\ v9 = 0 /\ v10 = 0 /\ v11 = 0 /\ v12 = 0 /\ v13 = 0
    \/ focus = "calendar" /\ Ca!Init /\ v7 = 0 /\ v8 = 0 /\ v9 = 0 /\ v10 = 0 /\ v11 = 0 /\ v12 = 0 /\ v13 = 0
    \/ focus = "lineage" /\ Li!Init
    \/ focus = "gym" /\ Gy!Init /\ v7 = 0 /\ v8 = 0 /\ v9 = 0 /\ v10 = 0 /\ v11 = 0 /\ v12 = 0 /\ v13 = 0
    \/ focus = "migrations" /\ Mi!Init /\ v12 = 0 /\ v13 = 0
    \/ focus = "backups" /\ Ba!Init
    \/ focus = "history" /\ Hi!Init /\ v8 = 0 /\ v9 = 0 /\ v10 = 0 /\ v11 = 0 /\ v12 = 0 /\ v13 = 0
Next ==
    \/ focus = "memory" /\ Me!Next /\ UNCHANGED <<focus, v3, v4, v5, v6, v7, v8, v9, v10, v11, v12, v13>>
    \/ focus = "profile" /\ Pr!Next /\ UNCHANGED <<focus, v8, v9, v10, v11, v12, v13>>
    \/ focus = "calendar" /\ Ca!Next /\ UNCHANGED <<focus, v7, v8, v9, v10, v11, v12, v13>>
    \/ focus = "lineage" /\ Li!Next /\ UNCHANGED <<focus>>
    \/ focus = "gym" /\ Gy!Next /\ UNCHANGED <<focus, v7, v8, v9, v10, v11, v12, v13>>
    \/ focus = "migrations" /\ Mi!Next /\ UNCHANGED <<focus, v12, v13>>
    \/ focus = "backups" /\ Ba!Next /\ UNCHANGED <<focus>>
    \/ focus = "history" /\ Hi!Next /\ UNCHANGED <<focus, v8, v9, v10, v11, v12, v13>>
Spec == Init /\ [][Next]_vars
-----------------------------------------------------------------------------
(* Memories, repository profiles and calendar events: what a person or a    *)
(* better source wrote is neither overwritten nor revived by a writer that  *)
(* read before, and detection is honest about what it saw.                  *)
PeoplesWordStays ==
    \* persistence/memories.put: a key has one value; two processes that both found
    \* nothing do not both insert.
    /\ [](focus = "memory" => Me!OneActive)
    \* put: a write never replaces a record of higher authority, whatever was written
    \* since it read.
    /\ [][focus = "memory" => Me!AuthorityKept]_vars
    \* What was superseded, forgotten, stale or expired does not come back by itself.
    /\ [][focus = "memory" => Me!NeverRevived]_vars
    \* repo_profile.refresh: when the fingerprint says nothing changed, the fields
    \* a manifest gives are those of the manifests now, unless they changed and changed back
    \* between the hash and the detection.
    /\ [](focus = "profile" => Pr!FingerprintIsHonest)
    \* A detection refresh never replaces a person's value.
    /\ [][focus = "profile" => Pr!PersonsValueStays]_vars
    \* An event somebody deleted does not come back by an update that had listed it,
    \* except with CalDAV.
    /\ [](focus = "calendar" => Ca!NeverBack)
    \* delete_scheduled_task_events leaves no event of the task that was there when it
    \* listed.
    /\ [](focus = "calendar" => Ca!TaskEventsGo)

(* Replays, forks, checkpoints and exported histories: a replay never       *)
(* writes and is answered in order, a fork repeats nothing of its parent,   *)
(* and what is restored or imported is what was recorded.                   *)
HistoryIsKept ==
    \* create_child: a replay never writes the repository, however often it is
    \* interrupted and resumed.
    /\ (focus = "lineage" => Li!ReplaysNeverWrite)
    \* fork: what the parent had done at the fork point is not done again.
    /\ (focus = "lineage" => Li!ForkKeepsItsStart)
    \* Replay: unless one of the runs was resumed or the record of an answer was lost
    \* (_record swallows that), step n is answered with what was recorded for step n.
    /\ (focus = "lineage" => Li!ReplaysInOrder)
    \* latest_valid gives the newest checkpoint that is as it was written.
    /\ (focus = "history" => Hi!NewestIntact)
    \* import_run: the history of a run that ended in its first attempt replays as well
    \* as the original did.
    /\ (focus = "history" => Hi!FinishedImportReplays)

(* Migrations and backups: each migration is committed once and in order    *)
(* whoever starts and crashes, a process comes up only on a schema it       *)
(* knows, and a restore loses nothing outside an overlap.                   *)
StorageSurvives ==
    \* migrations._apply: a migration's changes are committed once and in order,
    \* whatever starts together and crashes.
    /\ [](focus = "migrations" => Mi!AppliedOnceInOrder)
    \* migrate: with the lock, processes that start together all start.
    /\ [](focus = "migrations" => Mi!TakeTurns)
    \* pending: a process comes up only with everything of its release applied, and not
    \* on a newer schema.
    /\ [][focus = "migrations" => Mi!StartsUnderstood]_vars
    \* backup.restore: no committed transaction disappears from all files unless a
    \* connection was open or two restores shared a second.
    /\ [](focus = "backups" => Ba!GoneOnlyByOverlap)

(* rl/: the test rewards of an episode sum to the change of the measured    *)
(* fraction, and a recorded success is one of the oracle.                   *)
RewardsAddUp ==
    \* rl/reward.py: the test rewards of an episode sum to the last measured fraction
    \* less the pristine one.
    /\ (focus = "gym" => Gy!Telescopes)
    \* _score_final: a recorded success means the code is right, and the oracle is
    \* rewarded once, at the end.
    /\ (focus = "gym" => Gy!SuccessIsReal)
=============================================================================
