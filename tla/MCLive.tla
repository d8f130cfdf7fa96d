------------------------------- MODULE MCLive -------------------------------
(* What must eventually happen, for TLC: deliveries, scheduled tasks, event *)
(* streams, approvals, model calls, executions and commands. They share no  *)
(* state here, so a behaviour is about one of them (focus), and they share  *)
(* the variables v1, v2, ... of which each uses the first few.              *)
EXTENDS Naturals, Sequences

VARIABLES focus, v1, v2, v3, v4, v5, v6, v7, v8, v9, v10, v11, v12, v13, v14, v15

vars == <<focus, v1, v2, v3, v4, v5, v6, v7, v8, v9, v10, v11, v12, v13, v14, v15>>

Out == INSTANCE Outbound WITH
    Deliveries <- {"d"}, Senders <- {"s", "t"}, max_attempts <- 2, MaxAbandoned <- 2,
    status <- v1, attempts <- v2, due <- v3, sending <- v4, attempt <- v5, posted <- v6,
    posts <- v7, lapsed <- v8, abandoned <- v9
Sch == INSTANCE Scheduler WITH
    MaxEdits <- 3, MaxCrashes <- 1,
    recurring <- v1, status <- v2, enabled <- v3, next_run <- v4, expr_ok <- v5, open <- v6,
    executing <- v7, call <- v8, auto <- v9, failing <- v10, fired <- v11, stopped <- v12,
    broken <- v13, edits <- v14, crashes <- v15
Str == INSTANCE EventStream WITH
    QUEUE_MAX <- 2, MaxEvents <- 4,
    ledger <- v1, status <- v2, active <- v3, queue <- v4, dropped <- v5, stream <- v6, todo <- v7,
    quiet <- v8, last <- v9, sent <- v10
App == INSTANCE Approvals WITH
    Requests <- {"q"}, Commands <- {"safe", "wild", "bad"}, Grantable <- {"safe"},
    Blocked <- {"bad"}, Denied <- {}, MaxCrashes <- 1,
    status <- v1, decision <- v2, command <- v3, edited <- v4, late <- v5, grants <- v6, pc <- v7,
    req <- v8, cmd <- v9, event <- v10, result <- v11, cancelled <- v12, crashes <- v13, ran <- v14,
    acted <- v15
Mod == INSTANCE ModelCalls WITH
    Chains <- [1..2 -> [local : BOOLEAN, schema : {TRUE}]], Configs <- [allow_cloud : {FALSE},
    allow_capability_downgrade : {TRUE}, structured_output : {"auto", "off"}], max_model_calls <- 2,
    max_retries <- 3, format_repair_attempts <- 1,
    chain <- v1, cfg <- v2, pc <- v3, at <- v4, attempt <- v5, overflow_retries <- v6,
    constrain <- v7, attempts_left <- v8, reply <- v9, model_calls <- v10, retries <- v11,
    unreliable <- v12
Exe == INSTANCE Execution WITH
    Policies <- {"on_green"}, max_commands <- 3, max_patch_attempts <- 2,
    max_repair_rounds <- 1, MaxFaults <- 1, Rewritings <- {"rewritten"},
    policy <- v1, read_only <- v2, status <- v3, at <- v4, step <- v5, ctx <- v6, cp <- v7,
    local <- v8, faults <- v9, spent <- v10, landed <- v11
San == INSTANCE Sandbox WITH
    LIMIT <- 2, PIPE <- 2, MaxOutput <- 4,
    docker <- v1, pc <- v2, child <- v3, kin <- v4, stray <- v5, written <- v6, total <- v7,
    kept <- v8, due <- v9, cancel <- v10, flag <- v11, container <- v12, late <- v13,
    rmFails <- v14, result <- v15

\* what the steps of each leave alone
OutRest == UNCHANGED <<focus, v10, v11, v12, v13, v14, v15>>
SchRest == UNCHANGED <<focus>>
StrRest == UNCHANGED <<focus, v11, v12, v13, v14, v15>>
AppRest == UNCHANGED <<focus>>
ModRest == UNCHANGED <<focus, v13, v14, v15>>
ExeRest == UNCHANGED <<focus, v12, v13, v14, v15>>
SanRest == UNCHANGED <<focus>>

Init ==
    \/ focus = "outbound" /\ Out!Init /\ v10 = 0 /\ v11 = 0 /\ v12 = 0 /\ v13 = 0 /\ v14 = 0 /\ v15 = 0
    \/ focus = "scheduler" /\ Sch!Init
    \/ focus = "stream" /\ Str!Init /\ v11 = 0 /\ v12 = 0 /\ v13 = 0 /\ v14 = 0 /\ v15 = 0
    \/ focus = "approvals" /\ App!Init
    \/ focus = "calls" /\ Mod!Init /\ v13 = 0 /\ v14 = 0 /\ v15 = 0
    \/ focus = "execution" /\ Exe!Init /\ v12 = 0 /\ v13 = 0 /\ v14 = 0 /\ v15 = 0
    \/ focus = "sandbox" /\ San!Init
Next ==
    \/ focus = "outbound" /\ Out!Next /\ OutRest
    \/ focus = "scheduler" /\ Sch!Next /\ SchRest
    \/ focus = "stream" /\ Str!Next /\ StrRest
    \/ focus = "approvals" /\ App!Next /\ AppRest
    \/ focus = "calls" /\ Mod!Next /\ ModRest
    \/ focus = "execution" /\ Exe!Next /\ ExeRest
    \/ focus = "sandbox" /\ San!Next /\ SanRest
Spec == Init /\ [][Next]_vars
\* Delays and leases run out, and an attempt ends because the HTTP client has a timeout. That a
\* delivery is claimed is not assumed: nothing in the program calls deliver_due (see Polled).
AttemptsEnd == /\ \A d \in {"d"} : WF_vars(focus = "outbound" /\ Out!BecomesDue(d) /\ OutRest)
               /\ \A w \in {"s", "t"} :
                    WF_vars(focus = "outbound" /\ (Out!_send(w) \/ Out!Delivered(w) \/ Out!Failed(w)) /\ OutRest)
\* The scheduler's loop polls, its calls end, runs end (they have time limits), time passes.
LoopPolls == /\ WF_vars(focus = "scheduler" /\ Sch!run_due_tasks /\ SchRest)
             /\ WF_vars(focus = "scheduler" /\ Sch!_execute_task /\ SchRest)
             /\ WF_vars(focus = "scheduler" /\ Sch!_run_and_record /\ SchRest)
             /\ WF_vars(focus = "scheduler" /\ Sch!TimePasses /\ SchRest)
\* The generator runs whenever its client reads; a task that ended leaves by its callback.
ClientReads == /\ WF_vars(focus = "stream" /\ Str!Client /\ StrRest)
               /\ WF_vars(focus = "stream" /\ Str!_complete_run /\ StrRest)
               /\ WF_vars(focus = "stream" /\ Str!_cleanup /\ StrRest)
\* The timers of an approval fire, and the event loop wakes who waited.
TimersFire == /\ WF_vars(focus = "approvals" /\ App!Woken /\ AppRest)
              /\ WF_vars(focus = "approvals" /\ App!TimedOut /\ AppRest)
              /\ \A q \in {"q"} : WF_vars(focus = "approvals" /\ App!Lapse(q) /\ AppRest)
\* Every model request ends, at the latest by its timeout; sleeps end.
RequestsEnd == /\ WF_vars(focus = "calls" /\ Mod!Engine /\ ModRest)
               /\ WF_vars(focus = "calls" /\ Mod!Provider /\ ModRest)
\* The event loop goes on. That a run whose process died is resumed is not assumed: that takes a person.
LoopRuns == WF_vars(focus = "execution" /\ Exe!_execute /\ ExeRest)
\* The operating system runs the runner and its reader thread, and the deadline comes.
SystemRuns == /\ WF_vars(focus = "sandbox" /\ San!Runner /\ SanRest)
              /\ WF_vars(focus = "sandbox" /\ San!Capture /\ SanRest)
              /\ WF_vars(focus = "sandbox" /\ San!Deadline /\ SanRest)
FairSpec == /\ Spec /\ AttemptsEnd /\ LoopPolls /\ ClientReads /\ TimersFire
            /\ RequestsEnd /\ LoopRuns /\ SystemRuns

\* Somebody calls deliver_due again and again, in one of the processes at least.
Polled == \E w \in {"s", "t"} : WF_vars(focus = "outbound" /\ Out!Claim(w, "d") /\ OutRest)
-----------------------------------------------------------------------------
(* Outbound deliveries and the scheduler: a request is counted before it    *)
(* leaves; the cap, the final states and one run per slot of a schedule     *)
(* hold outside the named gaps.                                             *)
WorkIsCounted ==
    \* outbound.claim: every request is counted before it leaves, so that no crash hides
    \* one.
    /\ [](focus = "outbound" => Out!CountedBeforeSent)
    \* outbound._finish: attempts pass the cap only by attempts that never reached
    \* _finish, or that lost their lease.
    /\ [](focus = "outbound" => Out!CappedUnlessCut)
    \* outbound._finish: while no lease has run out, DELIVERED and DEAD are final.
    /\ [][focus = "outbound" => Out!FinalUnlessLapsed]_vars
    \* run_due_tasks starts no run of a task while another of its runs executes in this
    \* process.
    /\ [](focus = "scheduler" => Sch!LoopNeverOverlaps)
    \* _execute_task: a value of next_run_at starts at most one run by the loop, even
    \* when the server dies between its transactions, other than before the history row.
    /\ [](focus = "scheduler" => Sch!OncePerSlot)
    \* _run_and_record: a task is left running only by a schedule that cannot be computed,
    \* and with an open history row only by that or a crash.
    /\ [](focus = "scheduler" => Sch!StuckOnlyByFailure)
    \* get_due_tasks: a paused or deleted task is not started by the loop, though
    \* running it by hand makes its status active again.
    /\ [][focus = "scheduler" => Sch!StoppedNeverFires]_vars

(* The event stream and sandboxed commands: a client is sent every event of *)
(* the bus once and in order, and a finished command leaves no process, no  *)
(* container and a true result.                                             *)
NothingIsLeftBehind ==
    \* TaskService.stream: the client sees events in the order of the ledger, none
    \* twice.
    /\ (focus = "stream" => Str!InOrderOnce)
    \* TaskService.stream: what the cursor passes without sending is exactly what never
    \* came by the bus or what a full queue dropped.
    /\ (focus = "stream" => Str!MissesOnlyOffBus)
    \* executor._run: when a command is over, nothing of its process group is left.
    /\ (focus = "sandbox" => San!NothingSurvives)
    \* DockerRuntime.run_command: a command that timed out or was cancelled leaves no
    \* container, unless the daemon was late or refused.
    /\ (focus = "sandbox" => San!ContainerIsRemoved)
    \* _Capture: success means the command ended well by itself, and output not marked
    \* truncated is whole.
    /\ (focus = "sandbox" => San!ResultIsTrue)

(* Deliveries become final, schedules keep firing, streams of ended runs    *)
(* end, a wait for a person ends, calls to a model end, every execution of  *)
(* a run ends, and every command ends.                                      *)
WorkEnds ==
    \* deliver_due: as long as somebody calls it, no delivery stays PENDING; it is
    \* delivered or dead-lettered, whatever processes die.
    /\ Polled => ((focus = "outbound" /\ Out!Pending("d")) ~> (focus = "outbound" => Out!Final("d")))
    \* _advance_task_schedule: a recurring task keeps firing while it is enabled,
    \* nothing failed, and nobody stops it.
    /\ []<>(focus = "scheduler" => (Sch!Fires \/ Sch!Excused))
    \* TaskService.stream: a stream whose run is over ends, by the run's last event or
    \* by the status of the row after a silence.
    /\ ((focus = "stream" /\ Str!RunOver) ~> (focus = "stream" => Str!Ended))
    \* _request_approval: a person is waited for at most approval_timeout_seconds.
    /\ ((focus = "approvals" /\ App!Waits) ~> (focus = "approvals" => ~App!Waits))
    \* _call_role: no mix of retries, shrinks, failovers and repairs goes on for ever.
    /\ ((focus = "calls" /\ Mod!Charged) ~> (focus = "calls" => Mod!Idle))
    \* RunStateMachine._execute: every loop of an execution has its limit, so every
    \* execution ends, with the run or with its process.
    /\ ((focus = "execution" /\ Exe!Running) ~> (focus = "execution" => ~Exe!Running))
    \* executor._run: every command ends, whatever it and its children do.
    /\ ((focus = "sandbox" /\ San!Waiting) ~> (focus = "sandbox" => San!Over))
=============================================================================
