------------------------------ MODULE Scheduler -----------------------------
(***************************************************************************)
(* The scheduler, scheduler/scheduler.py and scheduler_loop.py: one row of *)
(* scheduled_tasks, its history, and the server whose loop polls it.       *)
(* run_due_tasks and run_task_now do not await before they have created    *)
(* the background task of the run, so within one server only a crash or an *)
(* exception comes between their transactions (`call`).                    *)
(***************************************************************************)
EXTENDS Naturals

CONSTANTS MaxEdits,   \* bound on what people do
          MaxCrashes

VARIABLES
  recurring,  \* schedule_type # 'one_shot'
  status, enabled,
  next_run,   \* next_run_at: "null", "later" or "due"
  expr_ok,    \* compute_next_run accepts schedule_expr and timezone
  open,       \* rows of scheduled_run_history with status 'started'
  executing,  \* background runs of this process
  call,       \* where _execute_task is: idle, insert, report, record, advance
  auto,       \* ... and whether the loop or a person called it
  failing,    \* ... and whether the provider is not configured
  fired,      \* history: runs the loop made since next_run_at was written, less those
              \* that a crash cut off before their history row,
  stopped, broken, edits, crashes  \* last told to stop, something failed

vars == <<recurring, status, enabled, next_run, expr_ok, open, executing, call, auto, failing,
          fired, stopped, broken, edits, crashes>>
clock == <<recurring, next_run, expr_ok>>
calls == <<call, auto, failing>>

Init ==
  /\ recurring \in BOOLEAN /\ status = "active" /\ enabled = TRUE
  /\ next_run = "later" /\ expr_ok = TRUE /\ open = 0 /\ executing = 0
  /\ call = "idle" /\ auto = FALSE /\ failing = FALSE
  /\ fired = 0 /\ stopped = FALSE /\ broken = FALSE /\ edits = 0 /\ crashes = 0
-----------------------------------------------------------------------------
\* of the environment: whether the provider of the task is configured now
_provider_config_error == BOOLEAN
Enter(byLoop) ==
  call' = "insert" /\ auto' = byLoop /\ failing' \in _provider_config_error

get_due_tasks == enabled /\ status = "active" /\ next_run = "due"
\* by the history, not by what executes
_is_task_already_running == open > 0

\* mutant of run_due_tasks: a task that is shown as active is due
run_active_tasks ==
  /\ call = "idle" /\ status = "active" /\ next_run = "due" /\ open = 0
  /\ Enter(TRUE)
  /\ UNCHANGED <<status, enabled, open, executing, fired, stopped, broken, edits, crashes>> /\ UNCHANGED clock

\* mutant of run_due_tasks: a run under way is no reason to wait
run_overlapping_tasks ==
  /\ call = "idle" /\ get_due_tasks
  /\ Enter(TRUE)
  /\ UNCHANGED <<status, enabled, open, executing, fired, stopped, broken, edits, crashes>> /\ UNCHANGED clock

\* the loop, and into _execute_task
run_due_tasks ==
  /\ call = "idle" /\ get_due_tasks /\ ~_is_task_already_running
  /\ Enter(TRUE)
  /\ UNCHANGED <<status, enabled, open, executing, fired, stopped, broken, edits, crashes>> /\ UNCHANGED clock

\* a person runs any task there is, paused, completed or deleted
run_task_now ==
  /\ call = "idle" /\ edits < MaxEdits /\ edits' = edits + 1
  /\ Enter(FALSE)
  /\ UNCHANGED <<status, enabled, open, executing, fired, stopped, broken, crashes>> /\ UNCHANGED clock

\* the run's row and 'running' in one transaction
Insert ==
  /\ call = "insert" /\ ~failing /\ call' = "record"
  /\ status' = "running"
  /\ fired' = IF auto THEN fired + 1 ELSE fired
  /\ UNCHANGED <<auto, failing, enabled, open, executing, stopped, broken, edits, crashes>>
  /\ UNCHANGED clock

\* mutant of Record: a history row that does not say 'started'
RecordClosed ==
  /\ call = "record" /\ ~failing /\ call' = "advance"
  /\ UNCHANGED <<auto, failing, status, enabled, open, executing, fired, stopped, broken, edits, crashes>>
  /\ UNCHANGED clock

\* record_history
Record ==
  /\ call = "record" /\ ~failing /\ call' = "advance"
  /\ open' = open + 1
  /\ UNCHANGED <<auto, failing, status, enabled, executing, fired, stopped, broken, edits, crashes>>
  /\ UNCHANGED clock

\* the failed run, its report, and a history row that is closed from the start are three transactions;
\* none changes the status of the task
_execute_provider_failure ==
  /\ failing
  /\ \/ call = "insert" /\ call' = "report"
     \/ call = "report" /\ call' = "record"
     \/ call = "record" /\ call' = "advance"
  /\ UNCHANGED <<auto, failing, status, enabled, open, executing, fired, stopped, broken, edits, crashes>>
  /\ UNCHANGED clock

\* mutant of Advance: next_run_at is cleared for every type
AdvanceClears ==
  /\ call = "advance" /\ (recurring => expr_ok) /\ call' = "idle"
  /\ IF recurring THEN status' = "active" /\ UNCHANGED enabled ELSE status' = "completed" /\ enabled' = FALSE
  /\ next_run' = "null"
  /\ executing' = IF failing THEN executing ELSE executing + 1
  /\ fired' = 0
  /\ UNCHANGED <<recurring, expr_ok, auto, failing, open, stopped, broken, edits, crashes>>

\* _advance_task_schedule, then the background task of the run
Advance ==
  /\ call = "advance" /\ (recurring => expr_ok) /\ call' = "idle"
  /\ IF recurring THEN status' = "active" /\ next_run' = "later" /\ UNCHANGED enabled
     ELSE status' = "completed" /\ next_run' = "null" /\ enabled' = FALSE
  /\ executing' = IF failing THEN executing ELSE executing + 1
  /\ fired' = 0
  /\ UNCHANGED <<recurring, expr_ok, auto, failing, open, stopped, broken, edits, crashes>>

\* compute_next_run raises: the loop logs it, the run is never executed
AdvanceRaises ==
  /\ call = "advance" /\ recurring /\ ~expr_ok /\ call' = "idle"
  /\ broken' = TRUE
  /\ UNCHANGED <<auto, failing, status, enabled, open, executing, fired, stopped, edits, crashes>>
  /\ UNCHANGED clock

\* mutant of _run_and_record: only a run that returns is recorded
_run_and_forget == \E raises \in BOOLEAN :
  /\ call = "idle" /\ executing > 0 /\ executing' = executing - 1
  /\ open' = IF raises THEN open ELSE open - 1
  /\ UNCHANGED <<status, enabled, fired, stopped, broken, edits, crashes>> /\ UNCHANGED <<clock, calls>>

update_history_status == open' = open - 1

\* a run ends, well or with an exception: its history row is closed
_run_and_record ==
  /\ call = "idle" /\ executing > 0 /\ executing' = executing - 1 /\ update_history_status
  /\ UNCHANGED <<status, enabled, fired, stopped, broken, edits, crashes>> /\ UNCHANGED <<clock, calls>>

Person == call = "idle" /\ edits < MaxEdits /\ edits' = edits + 1
rest == <<open, executing, broken, crashes>>

pause_task ==
  /\ Person /\ status \in {"active", "running"}
  /\ status' = "paused" /\ enabled' = FALSE /\ stopped' = TRUE
  /\ UNCHANGED <<fired, clock, calls, rest>>

\* resume looks at no status; a one-shot expression is the time itself, perhaps past
resume_task ==
  /\ Person /\ expr_ok
  /\ status' = "active" /\ enabled' = TRUE /\ stopped' = FALSE /\ fired' = 0
  /\ next_run' \in IF recurring THEN {"later"} ELSE {"later", "due"}
  /\ UNCHANGED <<recurring, expr_ok, calls, rest>>

delete_task ==
  /\ Person /\ status' = "deleted" /\ enabled' = FALSE /\ stopped' = TRUE
  /\ UNCHANGED <<fired, clock, calls, rest>>

\* update_task writes the columns given to it: the expression is not tried
update_task ==
  /\ Person
  /\ \/ expr_ok' \in BOOLEAN /\ UNCHANGED <<next_run, enabled, stopped, fired>>
     \/ next_run' \in {"later", "due"} /\ fired' = 0 /\ UNCHANGED <<expr_ok, enabled, stopped>>
     \/ enabled' \in BOOLEAN /\ stopped' = ~enabled' /\ UNCHANGED <<next_run, expr_ok, fired>>
  /\ UNCHANGED <<recurring, status, calls, rest>>

TimePasses ==
  /\ call = "idle" /\ next_run = "later" /\ next_run' = "due"
  /\ UNCHANGED <<recurring, expr_ok, status, enabled, stopped, edits, fired, calls, rest>>

\* the server dies and is started again: recover_interrupted_runs makes 'running' tasks active,
\* and leaves their history rows open
Crash ==
  /\ crashes < MaxCrashes /\ crashes' = crashes + 1
  /\ broken' = (broken \/ executing > 0 \/ call # "idle")
  /\ executing' = 0 /\ call' = "idle"
  /\ status' = IF status = "running" THEN "active" ELSE status
  /\ fired' = IF call = "record" /\ auto /\ ~failing THEN fired - 1 ELSE fired
  /\ UNCHANGED <<auto, failing, enabled, open, stopped, edits>> /\ UNCHANGED clock

_execute_task == Insert \/ Record \/ _execute_provider_failure \/ Advance \/ AdvanceRaises
Next == \/ run_due_tasks \/ run_task_now \/ _execute_task \/ _run_and_record
        \/ pause_task \/ resume_task \/ delete_task \/ update_task \/ TimePasses \/ Crash

Spec == Init /\ [][Next]_vars
-----------------------------------------------------------------------------
\* The loop starts no run of a task while another of its runs executes in this process
\* (_is_task_already_running reads the history, not the executions).
LoopNeverOverlaps == call # "idle" /\ auto => executing = 0

\* A value of next_run_at starts at most one run by the loop, even when the server dies between the
\* transactions of _execute_task and the restart makes the task active again: the open history row
\* holds the loop back.  Only a crash after the run's row and before its history row makes the
\* restarted loop fire the slot once more; the first run then stays 'created' and is never executed.
OncePerSlot == fired <= 1

\* A paused or deleted task is not started by the loop, though running it by hand makes its
\* status 'active' again (_advance_task_schedule leaves `enabled` alone).
StoppedNeverFires == (call = "idle" /\ call' = "insert" /\ auto') => ~stopped

\* A task is left 'running' only by a schedule that cannot be computed, and with an open history
\* row that nobody will close only by that or by a crash.
StuckOnlyByFailure ==
  /\ call = "idle" /\ ~broken => status # "running" /\ open = executing
  /\ call = "idle" /\ status = "running" => open > executing

\* A recurring task keeps firing while it is enabled, nothing failed, and nobody stops it.
Fires == call # "idle" /\ auto
Excused == ~recurring \/ ~enabled \/ status \notin {"active", "running"} \/ ~expr_ok \/ broken
=============================================================================
