------------------------------ MODULE Lineage ------------------------------
(***************************************************************************)
(* Forks and replays: child runs that start from another run's checkpoint  *)
(* or repeat it with its recorded model answers (runtime/lineage.py,       *)
(* runtime/replay.py, agents/providers_recorded.py, TaskService.fork and   *)
(* replay).  A run makes one model call per step; the process may die at   *)
(* any time and the run is resumed from its newest checkpoint.             *)
(***************************************************************************)
EXTENDS Integers, Sequences, FiniteSets

CONSTANTS
    MaxRuns,     \* bound: runs are 1..MaxRuns, in the order they are created
    Steps,       \* model calls of a complete run
    MaxCrashes,  \* bound: crashes
    MaxLost      \* bound: runs with answers that could not be recorded

VARIABLES
    runs,        \* number of runs created
    row,         \* [1..MaxRuns -> the row]: kind, parent, promote (agent.promote_policy), status
    pc,          \* [1..MaxRuns -> steps the execution has completed]
    cp,          \* [1..MaxRuns -> steps completed at the newest checkpoint; -1: none]
    calls,       \* [1..MaxRuns -> model_calls: the steps answered, in order]
    sessions,    \* [1..MaxRuns -> answers left to the replay; <<0>>: no session yet]: in memory
    used,        \* [1..MaxRuns -> the recorded step each step of a replay was answered with]
    began,       \* [1..MaxRuns -> pc when it was created]: history
    disturbed,   \* runs that were resumed after a crash: history
    unrecorded,  \* runs with an answer whose record could not be written: history
    written,     \* runs whose patch was promoted to the repository
    drifted,     \* the repository changed in a way that conflicts with the checkpoints
    crashes

vars == <<runs, row, pc, cp, calls, sessions, used, began, disturbed, unrecorded, written, drifted, crashes>>

Ids == 1..MaxRuns
None == 0
NoSession == <<None>>
Fresh == [kind |-> "none", parent |-> None, promote |-> "auto", status |-> "none"]
Roles == [s \in 1..Steps |-> IF s = 1 THEN "planner" ELSE "coder"]

Init ==
    /\ runs = 1
    /\ row = [r \in Ids |-> IF r = 1 THEN [Fresh EXCEPT !.kind = "run", !.status = "running"] ELSE Fresh]
    /\ pc = [r \in Ids |-> 0]
    /\ cp = [r \in Ids |-> -1]
    /\ calls = [r \in Ids |-> <<>>]
    /\ sessions = [r \in Ids |-> NoSession]
    /\ used = [r \in Ids |-> [s \in 1..Steps |-> None]]
    /\ began = [r \in Ids |-> 0]
    /\ disturbed = {} /\ unrecorded = {} /\ written = {} /\ drifted = FALSE /\ crashes = 0

-----------------------------------------------------------------------------
(* the bug of a child that takes the given overrides and not its parent's  *)
create_bare_child(parent, kind, overrides, from) ==
    LET c == runs + 1 IN
    /\ runs < MaxRuns /\ runs' = c
    /\ row' = [row EXCEPT ![c] = [kind |-> kind, parent |-> parent, status |-> "running",
                                  promote |-> "auto"]]
    /\ cp' = [cp EXCEPT ![c] = from]
    /\ pc' = [pc EXCEPT ![c] = IF from < 0 THEN 0 ELSE from]
    /\ began' = [began EXCEPT ![c] = pc'[c]]

(* create_child: the overrides of the parent, changed by those given; a    *)
(* fork owns a copy of the checkpoint it starts from                       *)
create_child(parent, kind, overrides, from) ==
    LET c == runs + 1 IN
    /\ runs < MaxRuns /\ runs' = c
    /\ row' = [row EXCEPT ![c] = [kind |-> kind, parent |-> parent, status |-> "running",
                                  promote |-> IF overrides = "none" THEN row[parent].promote ELSE overrides]]
    /\ cp' = [cp EXCEPT ![c] = from]
    /\ pc' = [pc EXCEPT ![c] = IF from < 0 THEN 0 ELSE from]
    /\ began' = [began EXCEPT ![c] = pc'[c]]

(* the bug of a fork whose checkpoint stays with the parent *)
fork_unowned(r, overrides) ==
    /\ row[r].status # "none" /\ cp[r] >= 0
    /\ \E accept_drift \in BOOLEAN : drifted => accept_drift
    /\ LET c == runs + 1 IN
       /\ runs < MaxRuns /\ runs' = c
       /\ row' = [row EXCEPT ![c] = [kind |-> "fork", parent |-> r, status |-> "running", promote |-> row[r].promote]]
       /\ pc' = [pc EXCEPT ![c] = cp[r]]
       /\ began' = [began EXCEPT ![c] = cp[r]]
       /\ UNCHANGED cp
    /\ UNCHANGED <<calls, sessions, used, disturbed, unrecorded, written, drifted, crashes>>

(* fork: needs a usable checkpoint, and a person's word when the           *)
(* repository moved under it                                               *)
fork(r, overrides) ==
    /\ row[r].status # "none" /\ cp[r] >= 0
    /\ \E accept_drift \in BOOLEAN : drifted => accept_drift
    /\ create_child(r, "fork", overrides, cp[r])
    /\ UNCHANGED <<calls, sessions, used, disturbed, unrecorded, written, drifted, crashes>>

(* ensure_replayable *)
ensure_replayable(r) == calls[r] # <<>>

(* replay, in the modes MODEL and LIVE: a child from the start that never  *)
(* promotes                                                                *)
REPLAY_OVERRIDES == "never"

replay(r, mode) ==
    /\ row[r].status # "none"
    /\ mode = "model" => ensure_replayable(r)
    /\ create_child(r, mode, REPLAY_OVERRIDES, -1)
    /\ UNCHANGED <<calls, sessions, used, disturbed, unrecorded, written, drifted, crashes>>

-----------------------------------------------------------------------------
(* _record: the answer as a row of model_calls.  When the row cannot be      *)
(* written the failure is logged and the run goes on.                       *)
_record(r) ==
    \/ /\ calls' = [calls EXCEPT ![r] = Append(@, pc[r] + 1)]
       /\ UNCHANGED unrecorded
    \/ /\ Cardinality(unrecorded) < MaxLost
       /\ unrecorded' = unrecorded \union {r}
       /\ UNCHANGED calls

(* load_recording: the successful calls in the order they were made        *)
load_recording(r) == calls[row[r].parent]

(* the bug of a session that takes its answers from the wrong end, whoever asks *)
complete_last(r) ==
    LET queue == IF sessions[r] = NoSession THEN load_recording(r) ELSE sessions[r]
    IN  IF queue = <<>>
        THEN /\ row' = [row EXCEPT ![r].status = "failed"]
             /\ UNCHANGED <<pc, calls, used, sessions, unrecorded>>
        ELSE /\ used' = [used EXCEPT ![r][pc[r] + 1] = queue[Len(queue)]]
             /\ sessions' = [sessions EXCEPT ![r] = SubSeq(queue, 1, Len(queue) - 1)]
             /\ pc' = [pc EXCEPT ![r] = @ + 1]
             /\ _record(r)
             /\ UNCHANGED row

(* RecordedProvider.complete: the next recorded answer, if it is for the   *)
(* role that is asked; otherwise the replay diverged and the run fails     *)
complete(r) ==
    LET queue == IF sessions[r] = NoSession THEN load_recording(r) ELSE sessions[r]
    IN  IF queue = <<>> \/ Roles[Head(queue)] # Roles[pc[r] + 1]
        THEN /\ row' = [row EXCEPT ![r].status = "failed"]
             /\ UNCHANGED <<pc, calls, used, sessions, unrecorded>>
        ELSE /\ used' = [used EXCEPT ![r][pc[r] + 1] = Head(queue)]
             /\ sessions' = [sessions EXCEPT ![r] = Tail(queue)]
             /\ pc' = [pc EXCEPT ![r] = @ + 1]
             /\ _record(r)
             /\ UNCHANGED row

(* a step of the run with its model call                                   *)
Step(r) ==
    /\ row[r].status = "running" /\ pc[r] < Steps
    /\ IF row[r].kind = "model"
       THEN complete(r)
       ELSE /\ pc' = [pc EXCEPT ![r] = @ + 1]
            /\ _record(r)
            /\ UNCHANGED <<row, used, sessions>>
    /\ UNCHANGED <<runs, cp, began, disturbed, written, drifted, crashes>>

Checkpoint(r) ==
    /\ row[r].status = "running" /\ cp[r] < pc[r]
    /\ cp' = [cp EXCEPT ![r] = pc[r]]
    /\ UNCHANGED <<runs, row, pc, calls, sessions, used, began, disturbed, unrecorded, written, drifted, crashes>>

(* the end of a run: promotion unless its overrides forbid it.  finish     *)
(* ends the session of a replay.                                           *)
Finish(r) ==
    /\ row[r].status = "running" /\ pc[r] = Steps
    /\ row' = [row EXCEPT ![r].status = "completed"]
    /\ written' = IF row[r].promote = "auto" THEN written \union {r} ELSE written
    /\ sessions' = [sessions EXCEPT ![r] = NoSession]
    /\ UNCHANGED <<runs, pc, cp, calls, used, began, disturbed, unrecorded, drifted, crashes>>

(* the process dies: runs are interrupted, sessions are gone               *)
Crash ==
    /\ crashes < MaxCrashes
    /\ crashes' = crashes + 1
    /\ row' = [r \in Ids |-> IF row[r].status = "running" THEN [row[r] EXCEPT !.status = "interrupted"] ELSE row[r]]
    /\ sessions' = [r \in Ids |-> NoSession]
    /\ UNCHANGED <<runs, pc, cp, calls, used, began, disturbed, unrecorded, written, drifted>>

(* resume: the row's overrides again, from the newest checkpoint or the start *)
resume(r) ==
    /\ row[r].status = "interrupted"
    /\ row' = [row EXCEPT ![r].status = "running"]
    /\ pc' = [pc EXCEPT ![r] = IF cp[r] < 0 THEN 0 ELSE cp[r]]
    /\ used' = [used EXCEPT ![r] = [s \in 1..Steps |-> IF s <= pc'[r] THEN @[s] ELSE None]]
    /\ disturbed' = disturbed \union {r}
    /\ UNCHANGED <<runs, cp, calls, sessions, began, unrecorded, written, drifted, crashes>>

Drift ==
    /\ ~drifted
    /\ drifted' = TRUE
    /\ UNCHANGED <<runs, row, pc, cp, calls, sessions, used, began, disturbed, unrecorded, written, crashes>>

Next ==
    \/ \E r \in Ids : \/ Step(r) \/ Checkpoint(r) \/ Finish(r) \/ resume(r)
                      \/ \E o \in {"none", "never", "auto"} : fork(r, o)
                      \/ \E m \in {"model", "live"} : replay(r, m)
    \/ Crash \/ Drift

Spec == Init /\ [][Next]_vars

-----------------------------------------------------------------------------
(* A replay never writes the repository, whatever it replays and however   *)
(* often it is interrupted and resumed: its override is in its row.        *)
ReplaysNeverWrite == \A r \in written : row[r].kind \notin {"model", "live"}

(* A fork never does again what its parent had done at the fork point,     *)
(* even when it is interrupted before its first checkpoint.                *)
ForkKeepsItsStart == \A r \in Ids : row[r].kind = "fork" => pc[r] >= began[r]

(* As long as neither run was resumed and every answer of the parent was   *)
(* recorded, step n of a model replay is answered with what was recorded   *)
(* for step n.                                                             *)
ReplaysInOrder ==
    \A r \in Ids : row[r].kind = "model" /\ {r, row[r].parent} \intersect disturbed = {}
        /\ row[r].parent \notin unrecorded /\ row[row[r].parent].kind # "fork"
        => \A s \in 1..Steps : used[r][s] \in {None, s}

(* docs/replay.md: model answers are the recorded ones, in order.          *)
RecordedAnswersInOrder ==
    \A r \in Ids : row[r].kind = "model" /\ row[row[r].parent].kind # "fork"
        => \A s \in 1..Steps : used[r][s] \in {None, s}
=============================================================================
