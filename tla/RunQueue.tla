------------------------------ MODULE RunQueue ------------------------------
(***************************************************************************)
(* The durable run queue: runs, the leases workers hold on them, the       *)
(* executions those leases fence, and what happens when a process stalls   *)
(* or dies.  It follows backend/patchquest:                                *)
(*                                                                         *)
(*   runtime/queue.py        enqueue, claim, heartbeat, release            *)
(*   runtime/worker.py       the loop of one worker                        *)
(*   database.py             fenced, _check_fence                          *)
(*   application/service.py  launch, resume, start_claimed, cancel         *)
(*   recovery.py             recovery when an API server starts            *)
(*                                                                         *)
(* Three kinds of process share the database.  Workers execute runs they   *)
(* claim, one at a time, under a lease.  Servers are API processes: in     *)
(* queue mode they queue runs and execute only replays, otherwise they     *)
(* execute every run in their own event loop.  Clis are `patchquest run`   *)
(* and `patchquest resume`, which always execute in their own process.     *)
(* Only the executions of a worker are fenced.                             *)
(*                                                                         *)
(* One transaction is one step.  Time is abstracted: lease_expired[r]      *)
(* stands for lease_expires_at < now and may become true whenever a lease  *)
(* is held, so a worker may stall for any length of time at any point.     *)
(***************************************************************************)
EXTENDS Naturals, RunStatus

CONSTANTS
  Runs,        \* the rows of table runs
  Workers,     \* ids of worker processes
  Servers,     \* API server processes
  Clis,        \* command-line processes
  NoOne,       \* SQL NULL
  QueueMode,   \* config.queue_mode: do servers hand runs to the worker pool?
  MaxAttempt   \* bound on runs.attempt

Locals == Servers \cup Clis
Procs  == Workers \cup Locals

ASSUME ProcAssumption ==
  /\ Workers \cap Servers = {} /\ Workers \cap Clis = {} /\ Servers \cap Clis = {}
  /\ NoOne \notin Procs /\ NoOne \notin Runs
ASSUME BoundAssumption == MaxAttempt \in Nat /\ QueueMode \in BOOLEAN

VARIABLES
  \* the columns of table runs
  status, attempt, lease_owner, lease_epoch, lease_expired,
  before,      \* before[r]: the runs with an earlier queued_at that r was queued behind
  log,         \* what the order of the ledger's events shows, see LogEntry
  \* the processes
  machines,    \* the RunStateMachines being executed, see Machine
  loop,        \* where the loop of each worker is
  held,        \* the claim each worker's loop is handling
  plan,        \* the resume a process has planned and not committed
  up           \* which servers and command-line processes are running

row   == <<status, attempt, before>>
lease == <<lease_owner, lease_epoch, lease_expired>>
procs == <<loop, held, plan, up>>
vars  == <<row, lease, log, machines, procs>>

(***************************************************************************)
(* A machine is one execution of a run.  epoch is the epoch of the claim   *)
(* it runs under, 0 for an execution that holds no lease.  mode is where   *)
(* the machine is: spawned ("new"), executing ("run"), waiting for a       *)
(* person ("wait"), answered with cancel_run ("told"), cancelled ("stop"), *)
(* or about to record its last event ("end").  A machine cancelled while   *)
(* it is new ("early") goes on as one whose cancel no row shows            *)
(* ("unsaid").                                                             *)
(***************************************************************************)
Modes == {"new", "early", "run", "wait", "told", "stop", "unsaid", "end"}
Machine == [proc : Procs, run : Runs, epoch : Nat, attempt : Nat, mode : Modes]

(***************************************************************************)
(* newest is the attempt recorded with the run's last event, highest the   *)
(* largest attempt recorded so far; author and epoch are the worker and    *)
(* the claim of the last event a worker's execution wrote.                 *)
(***************************************************************************)
LogEntry == [newest : Nat, highest : Nat, author : Workers \cup {NoOne}, epoch : Nat]

Claimed == [run : Runs, kind : {"start", "recover"}, epoch : Nat]
Plan == [run : Runs, attempt : Nat]

TypeOK ==
  /\ status \in [Runs -> RunStatus]
  /\ attempt \in [Runs -> Nat]
  /\ lease_owner \in [Runs -> Workers \cup {NoOne}]
  /\ lease_epoch \in [Runs -> Nat]
  /\ lease_expired \in [Runs -> BOOLEAN]
  /\ before \in [Runs -> SUBSET Runs]
  /\ log \in [Runs -> LogEntry]
  /\ machines \subseteq Machine
  /\ loop \in [Workers -> {"poll", "start", "execute", "recover", "dead", "down"}]
  /\ held \in [Workers -> Claimed \cup {NoOne}]
  /\ plan \in [Procs -> Plan \cup {NoOne}]
  /\ up \in [Locals -> BOOLEAN]

Init ==
  /\ status = [r \in Runs |-> "created"]
  /\ attempt = [r \in Runs |-> 1]
  /\ lease_owner = [r \in Runs |-> NoOne]
  /\ lease_epoch = [r \in Runs |-> 0]
  /\ lease_expired = [r \in Runs |-> FALSE]
  /\ before = [r \in Runs |-> {}]
  /\ log = [r \in Runs |-> [newest |-> 1, highest |-> 1, author |-> NoOne, epoch |-> 0]]
  /\ machines = {}
  /\ loop = [w \in Workers |-> "poll"]
  /\ held = [w \in Workers |-> NoOne]
  /\ plan = [p \in Procs |-> NoOne]
  /\ up = [p \in Locals |-> TRUE]
-----------------------------------------------------------------------------
(***************************************************************************)
(* Building blocks.                                                        *)
(***************************************************************************)
Larger(a, b) == IF a >= b THEN a ELSE b

\* ledger.append of an event of attempt a, written by worker w under its claim of epoch e
Authored(r, a, w, e) ==
  [newest |-> a, highest |-> Larger(log[r].highest, a), author |-> w, epoch |-> e]

\* the same, written by anybody else
Recorded(r, a) == Authored(r, a, log[r].author, log[r].epoch)

\* mutant of Fence: the worker never installs its fence
FenceNotInstalled(x) == TRUE

\* may this execution's transactions commit?  (epoch 0: no fence is set)
Fence(x) ==
  \/ x.epoch = 0
  \/ lease_owner[x.run] = x.proc /\ lease_epoch[x.run] = x.epoch

\* queued_at = now: r goes behind every run in the queue
ToQueueEnd(r) ==
  before' = [q \in Runs |-> IF q = r THEN {p \in Runs \ {r} : status[p] = "queued"}
                                    ELSE before[q] \ {r}]

ClearLease(r) ==
  /\ lease_owner' = [lease_owner EXCEPT ![r] = NoOne]
  /\ lease_expired' = [lease_expired EXCEPT ![r] = FALSE]
  /\ UNCHANGED lease_epoch

HasMachine(p, r) == \E x \in machines : x.proc = p /\ x.run = r

\* r was just created, or the process that created it died before it handed r over
Unstarted(r) == status[r] = "created" /\ \A x \in machines : x.run # r
-----------------------------------------------------------------------------
(***************************************************************************)
(* Starting runs.                                                          *)
(***************************************************************************)
\* TaskService.enqueue, queue.enqueue: hand a created run to the pool.  The
\* transition records attempt 1, the default of its parameter.
Enqueue(r) ==
  /\ \E p \in Servers : up[p] /\ QueueMode
  /\ Unstarted(r)
  /\ status' = [status EXCEPT ![r] = "queued"]
  /\ ToQueueEnd(r)
  /\ log' = [log EXCEPT ![r] = Recorded(r, 1)]
  /\ ClearLease(r)
  /\ UNCHANGED <<attempt, machines, procs>>

\* may process p continue a run itself?
InProcess(p) == p \in Clis \/ (p \in Servers /\ ~QueueMode)

\* mutant of Launch: the run may already be executing
LaunchAgain(p, r) ==
  /\ up[p] /\ plan[p] = NoOne
  /\ status[r] = "created"
  /\ machines' = machines \cup {[proc |-> p, run |-> r, epoch |-> 0, attempt |-> 1, mode |-> "new"]}
  /\ UNCHANGED <<row, lease, log, procs>>

\* TaskService.launch, _spawn from replay, and from fork without defer: a task of
\* this process will execute r, unfenced.  Replays and the agents of workflows
\* run here even in queue mode.
Launch(p, r) ==
  /\ up[p] /\ plan[p] = NoOne
  /\ Unstarted(r)
  /\ machines' = machines \cup {[proc |-> p, run |-> r, epoch |-> 0, attempt |-> 1, mode |-> "new"]}
  /\ UNCHANGED <<row, lease, log, procs>>
-----------------------------------------------------------------------------
(***************************************************************************)
(* queue.claim: the oldest queued run, or, when nothing is queued, a run   *)
(* whose lease has expired.                                                *)
(***************************************************************************)
\* mutant of OldestQueued: ORDER BY queued_at DESC
NewestQueued(r) ==
  /\ status[r] = "queued"
  /\ \A q \in Runs : status[q] = "queued" => r \notin before[q]

OldestQueued(r) ==
  /\ status[r] = "queued"
  /\ \A q \in before[r] : status[q] # "queued"

ClaimStart(w, r) ==
  /\ loop[w] = "poll"
  /\ OldestQueued(r)
  /\ LET e == lease_epoch[r] + 1 IN
       /\ status' = [status EXCEPT ![r] = "running"]
       /\ lease_owner' = [lease_owner EXCEPT ![r] = w]
       /\ lease_epoch' = [lease_epoch EXCEPT ![r] = e]
       /\ lease_expired' = [lease_expired EXCEPT ![r] = FALSE]
       /\ log' = [log EXCEPT ![r] = Authored(r, attempt[r], w, e)]
       /\ held' = [held EXCEPT ![w] = [run |-> r, kind |-> "start", epoch |-> e]]
  /\ loop' = [loop EXCEPT ![w] = "start"]
  /\ UNCHANGED <<attempt, before, machines, plan, up>>

\* does worker w still hold the lease its claim got?
Holds(w) == lease_owner[held[w].run] = w /\ lease_epoch[held[w].run] = held[w].epoch

\* Worker._execute up to its loop, start_claimed: the execution begins.  Its reads
\* are fenced; a LeaseLost here is not caught and ends the worker's loop.
StartClaimed(w) ==
  /\ loop[w] = "start"
  /\ IF Holds(w)
       THEN /\ loop' = [loop EXCEPT ![w] = "execute"]
            /\ machines' = machines \cup
                 {[proc |-> w, run |-> held[w].run, epoch |-> held[w].epoch,
                   attempt |-> attempt[held[w].run], mode |-> "run"]}
            /\ UNCHANGED held
       ELSE /\ loop' = [loop EXCEPT ![w] = "dead"]
            /\ held' = [held EXCEPT ![w] = NoOne]
            /\ UNCHANGED machines
  /\ UNCHANGED <<row, lease, log, plan, up>>

\* a run taken back after its executor stopped: the user's cancel is honoured,
\* anything else becomes resumable
AfterLoss(s) == IF s = "cancel_requested" THEN "cancelled" ELSE "interrupted"

\* mutant of ClaimRecover: the lease stays in the row
RecoverKeepsLease(w, r) ==
  /\ loop[w] = "poll"
  /\ \A q \in Runs : status[q] # "queued"
  /\ status[r] \in LIVE /\ lease_owner[r] # NoOne /\ lease_expired[r]
  /\ status' = [status EXCEPT ![r] = AfterLoss(@)]
  /\ log' = [log EXCEPT ![r] = Recorded(r, attempt[r])]
  /\ loop' = [loop EXCEPT ![w] = "recover"]
  /\ held' = [held EXCEPT ![w] = [run |-> r, kind |-> "recover", epoch |-> 0]]
  /\ UNCHANGED <<attempt, before, lease, machines, plan, up>>

\* mutant of ClaimRecover: only running runs are looked for
RecoverRunningOnly(w, r) ==
  /\ loop[w] = "poll"
  /\ \A q \in Runs : status[q] # "queued"
  /\ status[r] = "running" /\ lease_owner[r] # NoOne /\ lease_expired[r]
  /\ status' = [status EXCEPT ![r] = AfterLoss(@)]
  /\ ClearLease(r)
  /\ log' = [log EXCEPT ![r] = Recorded(r, attempt[r])]
  /\ loop' = [loop EXCEPT ![w] = "recover"]
  /\ held' = [held EXCEPT ![w] = [run |-> r, kind |-> "recover", epoch |-> 0]]
  /\ UNCHANGED <<attempt, before, machines, plan, up>>

ClaimRecover(w, r) ==
  /\ loop[w] = "poll"
  /\ \A q \in Runs : status[q] # "queued"
  /\ status[r] \in LIVE /\ lease_owner[r] # NoOne /\ lease_expired[r]
  /\ status' = [status EXCEPT ![r] = AfterLoss(@)]
  /\ ClearLease(r)
  /\ log' = [log EXCEPT ![r] = Recorded(r, attempt[r])]
  /\ loop' = [loop EXCEPT ![w] = "recover"]
  /\ held' = [held EXCEPT ![w] = [run |-> r, kind |-> "recover", epoch |-> 0]]
  /\ UNCHANGED <<attempt, before, machines, plan, up>>
-----------------------------------------------------------------------------
(***************************************************************************)
(* TaskService.resume.  Planning, reading the attempt and committing are    *)
(* separate transactions of one process, which does nothing else between   *)
(* them: what was read may be stale when it is used.  An attempt of 0 has  *)
(* not been read yet.                                                      *)
(***************************************************************************)
MayPlan(p, r) ==
  /\ plan[p] = NoOne
  /\ \/ p \in Workers /\ loop[p] = "recover" /\ held[p].run = r
     \/ p \in Locals /\ up[p] /\ ~HasMachine(p, r)

\* plan_resume finds the run interrupted and safe to continue
PlanResume(p, r) ==
  /\ MayPlan(p, r)
  /\ status[r] = "interrupted"
  /\ attempt[r] < MaxAttempt
  /\ plan' = [plan EXCEPT ![p] = [run |-> r, attempt |-> 0]]
  /\ UNCHANGED <<row, lease, log, machines, loop, held, up>>

\* get_run, and machine.attempt
ReadAttempt(p) ==
  /\ plan[p] # NoOne
  /\ plan[p].attempt = 0
  /\ attempt[plan[p].run] < MaxAttempt
  /\ plan' = [plan EXCEPT ![p].attempt = attempt[plan[p].run] + 1]
  /\ UNCHANGED <<row, lease, log, machines, loop, held, up>>

\* the resume is ready to be committed
Planned(p) == plan[p] # NoOne /\ plan[p].attempt # 0

\* NotResumable: the run is no longer interrupted, or its plan needs a person
RecoveryBlocked(w) ==
  /\ loop[w] = "recover" /\ plan[w] = NoOne
  /\ loop' = [loop EXCEPT ![w] = "poll"]
  /\ held' = [held EXCEPT ![w] = NoOne]
  /\ UNCHANGED <<row, lease, log, machines, plan, up>>

\* what the resuming process does next: a worker polls again
Resumed(p) ==
  /\ plan' = [plan EXCEPT ![p] = NoOne]
  /\ IF p \in Workers
       THEN /\ loop' = [loop EXCEPT ![p] = "poll"]
            /\ held' = [held EXCEPT ![p] = NoOne]
       ELSE UNCHANGED <<loop, held>>
  /\ UNCHANGED up

\* run_resume_requested of attempt a, then a status change of attempt 1
Requeued(r, a) ==
  [newest |-> 1, highest |-> Larger(log[r].highest, a), author |-> log[r].author, epoch |-> log[r].epoch]

\* resume(defer=True): back to the queue.  run_resume_requested records the
\* new attempt; the transition that follows it records attempt 1.
ResumeDeferred(p) ==
  /\ p \in Workers \/ (p \in Servers /\ QueueMode)
  /\ Planned(p)
  /\ LET r == plan[p].run IN
       /\ can_transition(status[r], "queued")
       /\ status' = [status EXCEPT ![r] = "queued"]
       /\ attempt' = [attempt EXCEPT ![r] = plan[p].attempt]
       /\ ToQueueEnd(r)
       /\ log' = [log EXCEPT ![r] = Requeued(r, plan[p].attempt)]
       /\ ClearLease(r)
  /\ Resumed(p)
  /\ UNCHANGED machines

\* resume(defer=False): continue in this process, unfenced
ResumeHere(p) ==
  /\ InProcess(p)
  /\ Planned(p)
  /\ LET r == plan[p].run IN
       /\ can_transition(status[r], "running")
       /\ status' = [status EXCEPT ![r] = "running"]
       /\ attempt' = [attempt EXCEPT ![r] = plan[p].attempt]
       /\ log' = [log EXCEPT ![r] = Recorded(r, plan[p].attempt)]
       /\ machines' = machines \cup {[proc |-> p, run |-> r, epoch |-> 0,
                                      attempt |-> plan[p].attempt, mode |-> "run"]}
  /\ Resumed(p)
  /\ UNCHANGED <<before, lease>>

\* IllegalTransition rolls the resume back.  Worker._recover does not catch it:
\* the loop of that worker ends, its process stays up.
ResumeRefused(p) ==
  /\ Planned(p)
  /\ ~ can_transition(status[plan[p].run],
                      IF p \in Workers \/ ~InProcess(p) THEN "queued" ELSE "running")
  /\ plan' = [plan EXCEPT ![p] = NoOne]
  /\ IF p \in Workers
       THEN /\ loop' = [loop EXCEPT ![p] = "dead"]
            /\ held' = [held EXCEPT ![p] = NoOne]
       ELSE UNCHANGED <<loop, held>>
  /\ UNCHANGED <<row, lease, log, machines, up>>
-----------------------------------------------------------------------------
(***************************************************************************)
(* The steps of an execution.  Each is one transaction, committed only if  *)
(* the fence holds (get_db, _check_fence).                                 *)
(***************************************************************************)
\* mutant of MayStep: transactions commit without _check_fence
MayStepUnchecked(x) == plan[x.proc] = NoOne

MayStep(x) == plan[x.proc] = NoOne /\ Fence(x)

\* an event written by the execution x
Wrote(x) ==
  IF x.epoch = 0 THEN Recorded(x.run, x.attempt)
                 ELSE Authored(x.run, x.attempt, x.proc, x.epoch)

\* _move: change the status if the table allows it, else write nothing
Move(x, target) ==
  IF can_transition(status[x.run], target)
    THEN /\ status' = [status EXCEPT ![x.run] = target]
         /\ log' = [log EXCEPT ![x.run] = Wrote(x)]
    ELSE UNCHANGED <<status, log>>

Becomes(x, mode) == machines' = (machines \ {x}) \cup {[x EXCEPT !.mode = mode]}

Executing(x) == x \in machines /\ MayStep(x) /\ UNCHANGED <<attempt, before, lease, procs>>

\* the start of _execute.  restore_checkpoint may have run before it.
Begin(x) ==
  /\ Executing(x)
  /\ x.mode \in {"new", "early"}
  /\ Move(x, "running")
  /\ Becomes(x, IF x.mode = "new" THEN "run" ELSE "unsaid")

\* _emit, _checkpoint, _update_run_phase: progress inside a phase, or the workspace
\* made for a checkpoint, or the expiry of an approval
Emit(x) ==
  /\ Executing(x)
  /\ x.mode \notin {"told", "end"}
  /\ log' = [log EXCEPT ![x.run] = Wrote(x)]
  /\ UNCHANGED <<status, machines>>

\* _request_approval up to its wait
RequestApproval(x) ==
  /\ Executing(x)
  /\ x.mode = "run"
  /\ Move(x, "waiting_approval")
  /\ Becomes(x, "wait")

\* _request_approval after its wait: a decision, or the timeout
ApprovalResolved(x) ==
  /\ Executing(x)
  /\ x.mode = "wait"
  /\ Move(x, "running")
  /\ \E answer \in {"run", "told"} : Becomes(x, answer)

\* RunStateMachine.cancel.  TaskService.cancel finds only machines of its own
\* process, so an execution of a worker is cancelled by a cancel_run decision alone.
\* A run that has not begun cannot be moved to cancel_requested.
Cancel(x) ==
  /\ Executing(x)
  /\ x.mode = "told" \/ (x.proc \in Locals /\ x.mode \in {"new", "run", "wait", "unsaid"})
  /\ Move(x, "cancel_requested")
  /\ Becomes(x, IF x.mode = "new" THEN "early" ELSE "stop")

\* _complete_run and _fail_run up to their event.  After a cancel the run completes
\* only if the patch had landed.
Finish(x) ==
  /\ Executing(x)
  /\ x.mode \in {"run", "stop", "unsaid"}
  /\ \E target \in {"completed", "failed"} \cup (IF x.mode = "run" THEN {} ELSE {"cancelled"}) :
       Move(x, target)
  /\ Becomes(x, "end")

\* run_completed or run_failed is recorded, a transaction later
LastEvent(x) ==
  /\ Executing(x)
  /\ x.mode = "end"
  /\ log' = [log EXCEPT ![x.run] = Wrote(x)]
  /\ machines' = machines \ {x}
  /\ UNCHANGED status

\* a transaction of a worker that was replaced rolls back with LeaseLost
LeaseLost(x) ==
  /\ x \in machines /\ ~Fence(x)
  /\ machines' = machines \ {x}
  /\ UNCHANGED <<row, lease, log, procs>>

\* restore_checkpoint raises, or a write of _fail_run fails: the task ends and the
\* row stays as it was
TaskRaises(x) ==
  /\ x \in machines
  /\ machines' = machines \ {x}
  /\ UNCHANGED <<row, lease, log, procs>>
-----------------------------------------------------------------------------
(***************************************************************************)
(* The rest of a worker's loop, time, and processes that stop and start.   *)
(***************************************************************************)
Own(w) == {x \in machines : x.proc = w}

\* the heartbeat of Worker._execute: renew the lease, or abandon the execution.
\* An expired lease nobody has taken is renewed like any other.
Heartbeat(w) ==
  /\ loop[w] = "execute"
  /\ Own(w) # {}
  /\ IF Holds(w)
       THEN /\ lease_expired' = [lease_expired EXCEPT ![held[w].run] = FALSE]
            /\ UNCHANGED <<machines, loop, held>>
       ELSE /\ machines' = machines \ Own(w)
            /\ loop' = [loop EXCEPT ![w] = "poll"]
            /\ held' = [held EXCEPT ![w] = NoOne]
            /\ UNCHANGED lease_expired
  /\ UNCHANGED <<row, lease_owner, lease_epoch, log, plan, up>>

\* queue.release once the task is done, whatever the task left in the row
Release(w) ==
  /\ loop[w] = "execute"
  /\ Own(w) = {}
  /\ IF Holds(w) THEN ClearLease(held[w].run) ELSE UNCHANGED lease
  /\ loop' = [loop EXCEPT ![w] = "poll"]
  /\ held' = [held EXCEPT ![w] = NoOne]
  /\ UNCHANGED <<row, log, machines, plan, up>>

\* a database error in claim, start_claimed, heartbeat, resume or release escapes
\* run_forever.  The process stays up, and an execution it had goes on unattended.
LoopRaises(w) ==
  /\ loop[w] \in {"poll", "start", "execute", "recover"}
  /\ loop' = [loop EXCEPT ![w] = "dead"]
  /\ held' = [held EXCEPT ![w] = NoOne]
  /\ plan' = [plan EXCEPT ![w] = NoOne]
  /\ UNCHANGED <<row, lease, log, machines, up>>

Expire(r) ==
  /\ lease_owner[r] # NoOne /\ ~lease_expired[r]
  /\ lease_expired' = [lease_expired EXCEPT ![r] = TRUE]
  /\ UNCHANGED <<row, lease_owner, lease_epoch, log, machines, procs>>

\* a worker is killed, or told to stop: it keeps the lease of a run in progress
StopWorker(w) ==
  /\ loop[w] # "down"
  /\ loop' = [loop EXCEPT ![w] = "down"]
  /\ held' = [held EXCEPT ![w] = NoOne]
  /\ plan' = [plan EXCEPT ![w] = NoOne]
  /\ machines' = machines \ Own(w)
  /\ UNCHANGED <<row, lease, log, up>>

StartWorker(w) ==
  /\ loop[w] = "down"
  /\ loop' = [loop EXCEPT ![w] = "poll"]
  /\ UNCHANGED <<row, lease, log, machines, held, plan, up>>

KillLocal(p) ==
  /\ up[p]
  /\ up' = [up EXCEPT ![p] = FALSE]
  /\ plan' = [plan EXCEPT ![p] = NoOne]
  /\ machines' = machines \ Own(p)
  /\ UNCHANGED <<row, lease, log, loop, held>>

\* mutant of StartServer: leased runs are recovered too
StartServerRecoversAll(p) ==
  /\ ~up[p]
  /\ up' = [up EXCEPT ![p] = TRUE]
  /\ LET dead == {r \in Runs : status[r] \in LIVE} IN
       /\ status' = [r \in Runs |-> IF r \in dead THEN AfterLoss(status[r]) ELSE status[r]]
       /\ log' = [r \in Runs |-> IF r \in dead THEN Recorded(r, attempt[r]) ELSE log[r]]
  /\ UNCHANGED <<attempt, before, lease, machines, loop, held, plan>>

\* recovery.recover_interrupted_runs, at the start of an API server: every active
\* run without a lease is taken to be dead
StartServer(p) ==
  /\ ~up[p]
  /\ up' = [up EXCEPT ![p] = TRUE]
  /\ LET dead == {r \in Runs : status[r] \in LIVE /\ lease_owner[r] = NoOne} IN
       /\ status' = [r \in Runs |-> IF r \in dead THEN AfterLoss(status[r]) ELSE status[r]]
       /\ log' = [r \in Runs |-> IF r \in dead THEN Recorded(r, attempt[r]) ELSE log[r]]
  /\ UNCHANGED <<attempt, before, lease, machines, loop, held, plan>>

StartCli(p) ==
  /\ ~up[p]
  /\ up' = [up EXCEPT ![p] = TRUE]
  /\ UNCHANGED <<row, lease, log, machines, loop, held, plan>>
-----------------------------------------------------------------------------
Claim(w) == \E r \in Runs : ClaimStart(w, r) \/ ClaimRecover(w, r)

Execution ==
  \E x \in machines :
    \/ Begin(x) \/ Emit(x) \/ RequestApproval(x) \/ ApprovalResolved(x) \/ Cancel(x)
    \/ Finish(x) \/ LastEvent(x) \/ LeaseLost(x) \/ TaskRaises(x)

WorkerLoop ==
  \E w \in Workers :
    \/ Claim(w) \/ StartClaimed(w) \/ RecoveryBlocked(w) \/ Heartbeat(w)
    \/ Release(w) \/ LoopRaises(w) \/ StopWorker(w) \/ StartWorker(w)

Resume ==
  \E p \in Procs :
    \/ \E r \in Runs : PlanResume(p, r)
    \/ ReadAttempt(p) \/ ResumeDeferred(p) \/ ResumeHere(p) \/ ResumeRefused(p)

Local ==
  \/ \E r \in Runs : Enqueue(r) \/ Expire(r)
  \/ \E p \in Locals : KillLocal(p) \/ (\E r \in Runs : Launch(p, r))
  \/ \E p \in Servers : StartServer(p)
  \/ \E p \in Clis : StartCli(p)

Next == Execution \/ WorkerLoop \/ Resume \/ Local

\* run_forever polls until it is told to stop
Fairness == \A w \in Workers : WF_vars(Claim(w))

Spec == Init /\ [][Next]_vars
-----------------------------------------------------------------------------
(***************************************************************************)
(* What the queue keeps true.                                              *)
(***************************************************************************)
\* A run that waits to be claimed or resumed carries no lease: enqueue, claim and
\* recovery clear it in the transaction that changes the status (queue.py).  A
\* lease left there would make the next owner's epoch look like an older one's.
LeaseMatchesStatus ==
  \A r \in Runs : lease_owner[r] # NoOne => status[r] \in LIVE \cup TERMINAL

\* At most one execution of a run can commit anything, however many stalled and
\* replaced executions still believe they own it (database.fenced, _check_fence).
OneWriter ==
  \A x, y \in machines : x.run = y.run /\ Fence(x) /\ Fence(y) => x = y

StatusesOf ==
  [new |-> {"created"}, early |-> {"created"}, run |-> {"running"}, told |-> {"running"},
   wait |-> {"waiting_approval"}, stop |-> {"cancel_requested"}, unsaid |-> {"running"},
   end |-> TERMINAL]

\* An execution that can still commit finds the status it left: nobody else moves a
\* run under a live fence, so _move never skips a change of it as no longer legal
\* (but for the cancel of a run that has not begun).
MachineKnowsStatus ==
  \A x \in machines : Fence(x) => status[x.run] \in StatusesOf[x.mode]

\* The queue implements the abstract promise of a lease.
Ownership == INSTANCE RunOwnership WITH
  holder   <- lease_owner,
  epoch    <- lease_epoch,
  author   <- [r \in Runs |-> log[r].author],
  version  <- [r \in Runs |-> log[r].epoch],
  finished <- [r \in Runs |-> status[r] \in TERMINAL]

\* Only the holder of the lease writes a run's history, under an epoch of its own,
\* and a finished run is not claimed again: every step of the queue is a step of
\* RunOwnership or leaves its state alone.
ImplementsOwnership == Ownership!Spec

\* Worker w goes on polling and stays alive.
KeepsPolling(w) ==
  /\ <>[](loop[w] \notin {"dead", "down"})
  /\ []<>(loop[w] = "poll")

\* A queued run is claimed once a worker keeps polling: claim takes the oldest first,
\* so newer runs and recovered ones cannot pass it for ever (queue.claim).
QueuedIsClaimed ==
  \A w \in Workers, r \in Runs :
    KeepsPolling(w) => (status[r] = "queued" ~> status[r] # "queued")

Recoverable(r) == status[r] \in LIVE /\ lease_owner[r] # NoOne /\ lease_expired[r]

\* A run whose lease has expired is taken back, or its lease renewed, once a worker
\* keeps polling and the queue stays empty; claim prefers queued runs (queue.claim).
ExpiredIsTakenBack ==
  \A w \in Workers, r \in Runs :
    KeepsPolling(w) /\ <>[](\A q \in Runs : status[q] # "queued")
      => (Recoverable(r) ~> ~Recoverable(r))

-----------------------------------------------------------------------------
(***************************************************************************)
(* Statements the repository's documents and comments make about the       *)
(* queue, and which the code does not keep: TLC refutes each in the        *)
(* instance the README names.  OnlyFinishedRunsReleased has a run of its   *)
(* own.                                                                    *)
(***************************************************************************)

\* runtime/replay.py:70-71 reports "attempt number went backwards" as damage to the
\* history: the attempts of a run's events never decrease.
AttemptsNeverGoBack == \A r \in Runs : log[r].newest = log[r].highest

\* runtime/queue.py:9, of release: "give a finished run's lease back".  A lease is
\* released only when the run has finished.
OnlyFinishedRunsReleased ==
  [][\A w \in Workers : Release(w) /\ Holds(w) => status[held[w].run] \in TERMINAL]_vars

\* recovery.py:3: "after a restart no run marked active is actually running".  What a
\* starting server takes back is not being executed.
OnlyDeadRunsRecovered ==
  [][(\E p \in Servers : ~up[p] /\ up'[p])
       => \A x \in machines : status'[x.run] = status[x.run]]_vars

\* docs/operations.md:11: runs with expired leases "are waiting to be recovered by the
\* next worker that polls".  Such a run is recovered as long as a worker keeps polling,
\* however busy the queue is.
ExpiredIsTakenBackUnderLoad ==
  \A w \in Workers, r \in Runs : KeepsPolling(w) => (Recoverable(r) ~> ~Recoverable(r))
=============================================================================
