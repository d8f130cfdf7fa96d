--------------------------- MODULE RunQueueProofs ---------------------------
(***************************************************************************)
(* The safety of the queue, for any number of runs, workers and attempts,  *)
(* in the two deployments of docs/deployment.md: a pool of workers         *)
(* (queue_mode), and one API server that executes runs itself.  There is   *)
(* no command-line execution beside them.                                  *)
(***************************************************************************)
EXTENDS RunQueue, TLAPS

OneServer == Clis = {} /\ \A p, q \in Servers : p = q
PoolDeployment == QueueMode /\ OneServer
ServerDeployment == ~QueueMode /\ OneServer /\ Workers = {}

\* An execution of a worker belongs to a claim that was made and to a loop that is
\* executing it, or that has died and left it behind.  An unfenced execution is a
\* replay or a workflow's agent in the running server, on a run without a lease.
MachineShape ==
  \A x \in machines :
    /\ x.epoch = 0 => /\ x.proc \in Servers /\ up[x.proc]
                      /\ lease_owner[x.run] = NoOne
    /\ x.epoch # 0 => /\ x.proc \in Workers
                      /\ x.epoch <= lease_epoch[x.run]
                      /\ loop[x.proc] \in {"execute", "dead"}

\* a worker has one execution at a time
OnePerWorker ==
  \A x, y \in machines : x.proc = y.proc /\ x.epoch # 0 /\ y.epoch # 0 => x = y

\* a claim whose execution has not begun
ClaimShape ==
  \A w \in Workers : loop[w] = "start" =>
    /\ held[w] \in Claimed /\ held[w].epoch # 0
    /\ held[w].epoch <= lease_epoch[held[w].run]
    /\ Holds(w) => status[held[w].run] = "running"

\* only a worker that is recovering a run has planned a resume, and a run that
\* somebody plans to resume has been started
PlanShape ==
  /\ \A w \in Workers : plan[w] # NoOne => loop[w] = "recover"
  /\ \A p \in Procs : plan[p] # NoOne => status[plan[p].run] # "created"

\* the last event of an execution in the history is the newest claim's
LogShape ==
  \A r \in Runs :
    /\ log[r].epoch = lease_epoch[r]
    /\ lease_owner[r] # NoOne => log[r].author = lease_owner[r]

IInv ==
  /\ TypeOK /\ LeaseMatchesStatus /\ OneWriter /\ MachineKnowsStatus
  /\ MachineShape /\ OnePerWorker /\ ClaimShape /\ LogShape /\ PlanShape
-----------------------------------------------------------------------------
(***************************************************************************)
(* Facts about the status table.                                           *)
(***************************************************************************)
\* The terminal statuses are the three the documents name (domain/runs.py TERMINAL).
LEMMA TerminalStatuses == TERMINAL = {"completed", "failed", "cancelled"}
BY DEF TERMINAL, TRANSITIONS, RunStatus

\* No change of a terminal status is legal (domain/runs.py TERMINAL).
LEMMA TerminalStays ==
  ASSUME NEW s \in TERMINAL, NEW t
  PROVE  ~can_transition(s, t)
BY DEF can_transition, TERMINAL

\* Only a created or interrupted run may be queued (domain/runs.py TRANSITIONS).
LEMMA QueuedFrom ==
  ASSUME NEW s \in RunStatus, can_transition(s, "queued")
  PROVE  s \in {"created", "interrupted"}
BY DEF can_transition, TRANSITIONS, RunStatus

\* Every change an execution asks for is legal from the status it believes in, but
\* for the cancel of a run that has not begun (domain/runs.py TRANSITIONS,
\* state_machine._move).
LEMMA LegalMoves ==
  /\ can_transition("created", "running") /\ ~can_transition("created", "cancel_requested")
  /\ can_transition("running", "waiting_approval")
  /\ can_transition("waiting_approval", "running")
  /\ can_transition("running", "cancel_requested")
  /\ can_transition("waiting_approval", "cancel_requested")
  /\ \A t \in {"completed", "failed", "cancelled"} :
       can_transition("running", t) /\ can_transition("cancel_requested", t)
BY DEF can_transition, TRANSITIONS

\* What an execution believes of its run's status, mode by mode (state_machine.py).
LEMMA BelievedStatus ==
  /\ StatusesOf["new"] = {"created"} /\ StatusesOf["early"] = {"created"}
  /\ StatusesOf["run"] = {"running"} /\ StatusesOf["told"] = {"running"}
  /\ StatusesOf["unsaid"] = {"running"} /\ StatusesOf["wait"] = {"waiting_approval"}
  /\ StatusesOf["stop"] = {"cancel_requested"} /\ StatusesOf["end"] = TERMINAL
BY DEF StatusesOf

\* What recovery makes of a live run is not live (queue.claim, recovery.py).
LEMMA LossTyping == \A s : AfterLoss(s) \in {"cancelled", "interrupted"}
BY DEF AfterLoss
-----------------------------------------------------------------------------
(***************************************************************************)
(* Type correctness.                                                       *)
(***************************************************************************)
\* Events of any kind leave a well-typed ledger summary (persistence/ledger.py append).
LEMMA LogTyping ==
  ASSUME TypeOK, NEW r \in Runs, NEW a \in Nat, NEW w \in Workers \cup {NoOne}, NEW e \in Nat
  PROVE  /\ Recorded(r, a) \in LogEntry
         /\ Requeued(r, a) \in LogEntry
         /\ Authored(r, a, w, e) \in LogEntry
         /\ Recorded(r, a).epoch = log[r].epoch /\ Recorded(r, a).author = log[r].author
         /\ Requeued(r, a).epoch = log[r].epoch /\ Requeued(r, a).author = log[r].author
         /\ Authored(r, a, w, e).epoch = e /\ Authored(r, a, w, e).author = w
BY DEF TypeOK, LogEntry, Recorded, Requeued, Authored, Larger

\* An event of an execution that may commit keeps author and epoch of the newest
\* claim in step (state_machine._emit under database.fenced).
LEMMA WroteTyping ==
  ASSUME TypeOK, MachineShape, NEW x \in machines
  PROVE  /\ Wrote(x) \in LogEntry
         /\ x.epoch = 0 => Wrote(x).epoch = log[x.run].epoch /\ Wrote(x).author = log[x.run].author
         /\ x.epoch # 0 => Wrote(x).epoch = x.epoch /\ Wrote(x).author = x.proc
<1>1. x.run \in Runs /\ x.attempt \in Nat /\ x.epoch \in Nat
  BY DEF TypeOK, Machine
<1>2. CASE x.epoch = 0
  BY <1>1, <1>2, LogTyping DEF Wrote
<1>3. CASE x.epoch # 0
  BY <1>1, <1>3, LogTyping DEF Wrote, MachineShape
<1>. QED  BY <1>2, <1>3

\* The shape of the initial state (a fresh database, every process idle).
LEMMA InitIInv == Init => IInv
BY BoundAssumption, ProcAssumption
   DEF Init, IInv, TypeOK, LeaseMatchesStatus, OneWriter, MachineKnowsStatus, MachineShape,
       OnePerWorker, ClaimShape, LogShape, PlanShape, LogEntry, RunStatus, Procs

\* The steps of an execution keep the types (state_machine.py).
LEMMA ExecutionTyping ==
  ASSUME TypeOK, MachineShape, NEW x \in machines,
         \/ Begin(x) \/ Emit(x) \/ RequestApproval(x) \/ ApprovalResolved(x) \/ Cancel(x)
         \/ Finish(x) \/ LastEvent(x) \/ LeaseLost(x) \/ TaskRaises(x)
  PROVE  TypeOK'
<1>0. x.run \in Runs /\ x \in Machine /\ Wrote(x) \in LogEntry
  BY WroteTyping DEF TypeOK, Machine
<1>1. ASSUME NEW t \in RunStatus, Move(x, t)
      PROVE  status' \in [Runs -> RunStatus] /\ log' \in [Runs -> LogEntry]
  BY <1>0, <1>1 DEF Move, TypeOK
<1>2. ASSUME NEW m \in Modes, Becomes(x, m)
      PROVE  machines' \subseteq Machine
  <2>1. [x EXCEPT !.mode = m] \in Machine
    BY <1>0 DEF Machine
  <2>. QED  BY <1>2, <2>1 DEF Becomes, TypeOK
<1>3. CASE Emit(x)
  BY <1>0, <1>3 DEF Emit, Executing, TypeOK, lease, procs
<1>4. CASE RequestApproval(x)
  BY <1>1, <1>2, <1>4 DEF RequestApproval, Executing, TypeOK, lease, procs, RunStatus, Modes
<1>5. CASE ApprovalResolved(x)
  BY <1>1, <1>2, <1>5 DEF ApprovalResolved, Executing, TypeOK, lease, procs, RunStatus, Modes
<1>6. CASE Cancel(x)
  BY <1>1, <1>2, <1>6 DEF Cancel, Executing, TypeOK, lease, procs, RunStatus, Modes
<1>7. CASE Finish(x)
  BY <1>1, <1>2, <1>7 DEF Finish, Executing, TypeOK, lease, procs, RunStatus, Modes
<1>9. CASE Begin(x)
  BY <1>1, <1>2, <1>9 DEF Begin, Executing, TypeOK, lease, procs, RunStatus, Modes
<1>10. CASE LastEvent(x)
  BY <1>0, <1>10 DEF LastEvent, Executing, TypeOK, lease, procs
<1>8. CASE LeaseLost(x) \/ TaskRaises(x)
  BY <1>8 DEF LeaseLost, TaskRaises, TypeOK, row, lease, procs
<1>. QED  BY <1>3, <1>4, <1>5, <1>6, <1>7, <1>8, <1>9, <1>10

\* The loop of a worker keeps the types (worker.py, queue.py).
LEMMA WorkerTyping ==
  ASSUME TypeOK, NEW w \in Workers,
         \/ Claim(w) \/ StartClaimed(w) \/ RecoveryBlocked(w) \/ Heartbeat(w)
         \/ Release(w) \/ LoopRaises(w) \/ StopWorker(w) \/ StartWorker(w),
         ClaimShape, MachineShape
  PROVE  TypeOK'
<1>1. ASSUME NEW r \in Runs, ClaimStart(w, r)
      PROVE  TypeOK'
  <2>1. lease_epoch[r] + 1 \in Nat /\ attempt[r] \in Nat
    BY DEF TypeOK
  <2>2. Authored(r, attempt[r], w, lease_epoch[r] + 1) \in LogEntry
    BY <2>1, LogTyping
  <2>3. [run |-> r, kind |-> "start", epoch |-> lease_epoch[r] + 1] \in Claimed
    BY <2>1 DEF Claimed
  <2>. QED  BY <1>1, <2>1, <2>2, <2>3 DEF ClaimStart, TypeOK, RunStatus
<1>2. ASSUME NEW r \in Runs, ClaimRecover(w, r)
      PROVE  TypeOK'
  <2>1. Recorded(r, attempt[r]) \in LogEntry
    BY LogTyping DEF TypeOK
  <2>2. [run |-> r, kind |-> "recover", epoch |-> 0] \in Claimed
    BY DEF Claimed
  <2>3. AfterLoss(status[r]) \in RunStatus
    BY LossTyping DEF RunStatus
  <2>. QED  BY <1>2, <2>1, <2>2, <2>3 DEF ClaimRecover, ClearLease, TypeOK
<1>3. CASE StartClaimed(w)
  <2>1. held[w] \in Claimed
    BY <1>3 DEF StartClaimed, ClaimShape
  <2>2. [proc |-> w, run |-> held[w].run, epoch |-> held[w].epoch,
         attempt |-> attempt[held[w].run], mode |-> "run"] \in Machine
    BY <2>1 DEF Machine, Modes, Claimed, TypeOK, Procs
  <2>. QED  BY <1>3, <2>2, Zenon DEF StartClaimed, TypeOK, row, lease
<1>4. CASE RecoveryBlocked(w)
  BY <1>4 DEF RecoveryBlocked, TypeOK, row, lease
<1>5. CASE Heartbeat(w)
  BY <1>5, ZenonT(60) DEF Heartbeat, Own, TypeOK, row
<1>6. CASE Release(w)
  BY <1>6, ZenonT(60) DEF Release, ClearLease, TypeOK, row, lease
<1>7. CASE LoopRaises(w) \/ StopWorker(w) \/ StartWorker(w)
  BY <1>7 DEF LoopRaises, StopWorker, StartWorker, Own, TypeOK, row, lease, Procs
<1>. QED  BY <1>1, <1>2, <1>3, <1>4, <1>5, <1>6, <1>7 DEF Claim

\* Resuming keeps the types (service.resume).
LEMMA ResumeTyping ==
  ASSUME TypeOK, NEW p \in Procs,
         \/ \E r \in Runs : PlanResume(p, r)
         \/ ReadAttempt(p) \/ ResumeDeferred(p) \/ ResumeHere(p) \/ ResumeRefused(p)
  PROVE  TypeOK'
<1>1. plan[p] # NoOne => plan[p] \in Plan
  BY DEF TypeOK
<1>2. ASSUME NEW r \in Runs, PlanResume(p, r)
      PROVE  TypeOK'
  <2>1. [run |-> r, attempt |-> 0] \in Plan
    BY DEF Plan
  <2>. QED  BY <1>2, <2>1 DEF PlanResume, TypeOK, row, lease
<1>3. CASE ReadAttempt(p)
  <2>1. [plan[p] EXCEPT !.attempt = attempt[plan[p].run] + 1] \in Plan
    BY <1>1, <1>3 DEF ReadAttempt, Plan, TypeOK
  <2>2. plan' = [plan EXCEPT ![p] = [plan[p] EXCEPT !.attempt = attempt[plan[p].run] + 1]]
    BY <1>3 DEF ReadAttempt
  <2>. QED  BY <1>3, <2>1, <2>2 DEF ReadAttempt, TypeOK, row, lease
<1>4. CASE ResumeDeferred(p)
  <2>1. plan[p].run \in Runs /\ Requeued(plan[p].run, plan[p].attempt) \in LogEntry
    BY <1>1, <1>4, LogTyping, ZenonT(60) DEF ResumeDeferred, Planned, Plan, TypeOK
  <2>2. status' \in [Runs -> RunStatus] /\ attempt' \in [Runs -> Nat] /\ log' \in [Runs -> LogEntry]
    BY <1>1, <1>4, <2>1, Zenon DEF ResumeDeferred, Planned, Plan, TypeOK, RunStatus
  <2>3. /\ lease_owner' \in [Runs -> Workers \cup {NoOne}] /\ lease_epoch' \in [Runs -> Nat]
        /\ lease_expired' \in [Runs -> BOOLEAN] /\ before' \in [Runs -> SUBSET Runs]
    BY <1>4, <2>1 DEF ResumeDeferred, ClearLease, ToQueueEnd, TypeOK
  <2>. QED  BY <1>4, <2>2, <2>3, ZenonT(30) DEF ResumeDeferred, Resumed, TypeOK
<1>5. CASE ResumeHere(p)
  <2>1. plan[p].run \in Runs /\ Recorded(plan[p].run, plan[p].attempt) \in LogEntry
    BY <1>1, <1>5, LogTyping, ZenonT(60) DEF ResumeHere, Planned, Plan, TypeOK
  <2>2. [proc |-> p, run |-> plan[p].run, epoch |-> 0, attempt |-> plan[p].attempt, mode |-> "run"] \in Machine
    BY <1>1, <1>5 DEF ResumeHere, Planned, Plan, Machine, Modes
  <2>3. status' \in [Runs -> RunStatus] /\ attempt' \in [Runs -> Nat] /\ log' \in [Runs -> LogEntry]
    BY <1>1, <1>5, <2>1 DEF ResumeHere, Planned, Plan, TypeOK, RunStatus
  <2>. QED  BY <1>5, <2>2, <2>3, ZenonT(30) DEF ResumeHere, Resumed, TypeOK, lease
<1>6. CASE ResumeRefused(p)
  BY <1>6 DEF ResumeRefused, TypeOK, row, lease
<1>. QED  BY <1>2, <1>3, <1>4, <1>5, <1>6

\* Submissions, time and the processes keep the types (service.py, recovery.py).
LEMMA LocalTyping ==
  ASSUME TypeOK, Local
  PROVE  TypeOK'
<1>0. Locals \subseteq Procs /\ Servers \subseteq Locals /\ Clis \subseteq Locals
  BY DEF Procs, Locals
<1>1. ASSUME NEW r \in Runs, Enqueue(r)
      PROVE  TypeOK'
  <2>1. Recorded(r, 1) \in LogEntry
    BY LogTyping
  <2>. QED  BY <1>1, <2>1 DEF Enqueue, ToQueueEnd, ClearLease, TypeOK, procs, RunStatus
<1>2. ASSUME NEW r \in Runs, Expire(r)
      PROVE  TypeOK'
  BY <1>2 DEF Expire, TypeOK, row, procs
<1>3. ASSUME NEW p \in Locals, KillLocal(p)
      PROVE  TypeOK'
  BY <1>0, <1>3 DEF KillLocal, Own, TypeOK, row, lease
<1>4. ASSUME NEW p \in Locals, NEW r \in Runs, Launch(p, r)
      PROVE  TypeOK'
  <2>1. [proc |-> p, run |-> r, epoch |-> 0, attempt |-> 1, mode |-> "new"] \in Machine
    BY <1>0 DEF Machine, Modes
  <2>. QED  BY <1>4, <2>1 DEF Launch, TypeOK, row, lease, procs
<1>5. ASSUME NEW p \in Servers, StartServer(p)
      PROVE  TypeOK'
  <2>1. \A r \in Runs : Recorded(r, attempt[r]) \in LogEntry /\ AfterLoss(status[r]) \in RunStatus
    BY LogTyping, LossTyping, ZenonT(60) DEF TypeOK, RunStatus
  <2>2. status' \in [Runs -> RunStatus] /\ log' \in [Runs -> LogEntry]
    BY <1>5, <2>1 DEF StartServer, TypeOK
  <2>. QED  BY <1>0, <1>5, <2>2 DEF StartServer, TypeOK, lease
<1>6. ASSUME NEW p \in Clis, StartCli(p)
      PROVE  TypeOK'
  BY <1>0, <1>6 DEF StartCli, TypeOK, row, lease
<1>. QED  BY <1>1, <1>2, <1>3, <1>4, <1>5, <1>6 DEF Local
-----------------------------------------------------------------------------
(***************************************************************************)
(* The inductive invariant.                                                *)
(***************************************************************************)
Shape ==
  /\ LeaseMatchesStatus /\ OneWriter /\ MachineKnowsStatus
  /\ MachineShape /\ OnePerWorker /\ ClaimShape /\ LogShape

\* The run of an execution that may commit waits neither for a claim nor for a
\* resume, and no claim on it still has to begin its execution (worker._execute).
LEMMA Fenced ==
  ASSUME IInv, NEW x \in machines, Fence(x)
  PROVE  /\ status[x.run] \notin {"queued", "interrupted"}
         /\ \A w \in Workers : loop[w] = "start" /\ held[w].run = x.run => ~Holds(w)
<1>1. x.mode \in Modes /\ x.run \in Runs /\ x.epoch \in Nat
  BY DEF IInv, TypeOK, Machine
<1>2. status[x.run] \notin {"queued", "interrupted"}
  BY <1>1, BelievedStatus, TerminalStatuses DEF IInv, MachineKnowsStatus, Modes
<1>3. ASSUME NEW w \in Workers, loop[w] = "start", held[w].run = x.run, Holds(w)
      PROVE  FALSE
  <2>1. lease_owner[x.run] = w /\ w # NoOne
    BY <1>3, ProcAssumption DEF Holds, Procs
  <2>2. x.epoch # 0
    BY <2>1 DEF IInv, MachineShape
  <2>3. x.proc = w
    BY <2>1, <2>2 DEF Fence
  <2>. QED  BY <1>3, <2>2, <2>3 DEF IInv, MachineShape
<1>. QED  BY <1>2, <1>3

\* A change of the status of a run by the one execution that may commit, which goes
\* on in another mode (state_machine._move).
LEMMA ExecutionGoesOn ==
  ASSUME IInv, NEW x \in machines, Fence(x), UNCHANGED <<lease, procs>>,
         NEW m \in Modes, NEW s \in StatusesOf[m],
         machines' = (machines \ {x}) \cup {[x EXCEPT !.mode = m]},
         status' = [status EXCEPT ![x.run] = s],
         s = status[x.run] \/ s \in LIVE \cup TERMINAL,
         log' = log \/ log' = [log EXCEPT ![x.run] = Wrote(x)]
  PROVE  Shape'
<1> DEFINE y == [x EXCEPT !.mode = m]
<1>0. /\ x \in Machine /\ x.run \in Runs /\ x.epoch \in Nat
      /\ y.proc = x.proc /\ y.run = x.run /\ y.epoch = x.epoch /\ y.mode = m
  BY DEF IInv, TypeOK, Machine
<1>2. machines' = (machines \ {x}) \cup {y}
  OBVIOUS
<1>3. \A z : Fence(z)' <=> Fence(z)
  BY DEF Fence, lease
<1>4. \A z \in machines : z.run = x.run /\ Fence(z) => z = x
  BY DEF IInv, OneWriter
<1> HIDE DEF y
<1>5. LeaseMatchesStatus'
  BY <1>0 DEF IInv, LeaseMatchesStatus, TypeOK, lease
<1>6. OneWriter'
  BY <1>0, <1>2, <1>3, <1>4 DEF IInv, OneWriter, Fence
<1>7. MachineKnowsStatus'
  <2>1. \A z \in machines : z.run \in Runs
    BY DEF IInv, TypeOK, Machine
  <2>. QED  BY <1>0, <1>2, <1>3, <1>4, <2>1 DEF IInv, MachineKnowsStatus, TypeOK
<1>8. MachineShape'
  BY <1>0, <1>2 DEF IInv, MachineShape, lease, procs
<1>9. OnePerWorker'
  BY <1>0, <1>2 DEF IInv, OnePerWorker
<1>10. ClaimShape'
  <2>1. \A w \in Workers : loop[w] = "start" /\ held[w].run = x.run => ~Holds(w)
    BY Fenced
  <2>2. \A w \in Workers : loop[w] = "start" => held[w].run \in Runs
    BY DEF IInv, ClaimShape, Claimed
  <2>. QED  BY <2>1, <2>2 DEF IInv, ClaimShape, Holds, TypeOK, lease, procs
<1>11. LogShape'
  <2>1. Wrote(x).epoch = lease_epoch[x.run] /\ (lease_owner[x.run] # NoOne => Wrote(x).author = lease_owner[x.run])
    BY <1>0, WroteTyping DEF IInv, LogShape, Fence
  <2>. QED  BY <1>0, <2>1 DEF IInv, LogShape, TypeOK, lease
<1>. QED  BY <1>5, <1>6, <1>7, <1>8, <1>9, <1>10, <1>11 DEF Shape

\* Executions that end, whatever ended them, while statuses and leases stay
\* (state_machine.abandon, worker._abandon, a killed process).
LEMMA FewerMachines ==
  ASSUME IInv, machines' \subseteq machines, UNCHANGED <<status, lease, log>>,
         \A x \in machines' : x.epoch = 0 => up'[x.proc],
         \A x \in machines' : x.epoch # 0 => loop'[x.proc] \in {"execute", "dead"},
         \A w \in Workers : loop'[w] = "start" => loop[w] = "start" /\ held'[w] = held[w]
  PROVE  Shape'
<1>1. \A z : Fence(z)' <=> Fence(z)
  BY DEF Fence, lease
<1>2. LeaseMatchesStatus' /\ LogShape'
  BY DEF IInv, LeaseMatchesStatus, LogShape, lease
<1>3. OneWriter' /\ MachineKnowsStatus' /\ OnePerWorker'
  BY <1>1 DEF IInv, OneWriter, MachineKnowsStatus, OnePerWorker
<1>4. MachineShape'
  BY DEF IInv, MachineShape, lease
<1>5. ClaimShape'
  BY DEF IInv, ClaimShape, Holds, lease
<1>. QED  BY <1>2, <1>3, <1>4, <1>5 DEF Shape

\* The steps of an execution keep the invariant (state_machine.py).
LEMMA ExecutionShape ==
  ASSUME IInv, NEW x \in machines,
         \/ Begin(x) \/ Emit(x) \/ RequestApproval(x) \/ ApprovalResolved(x) \/ Cancel(x)
         \/ Finish(x) \/ LastEvent(x) \/ LeaseLost(x) \/ TaskRaises(x)
  PROVE  Shape'
<1>0. x \in Machine /\ x.run \in Runs /\ x.mode \in Modes
  BY DEF IInv, TypeOK, Machine
<1>1. ASSUME Executing(x)
      PROVE  Fence(x) /\ UNCHANGED <<lease, procs>> /\ status[x.run] \in StatusesOf[x.mode]
  BY <1>1 DEF Executing, MayStep, IInv, MachineKnowsStatus
<1> DEFINE Goes(m, s) ==
      /\ m \in Modes /\ s \in StatusesOf[m] /\ Becomes(x, m)
      /\ status' = [status EXCEPT ![x.run] = s]
      /\ s = status[x.run] \/ s \in LIVE \cup TERMINAL
      /\ log' = log \/ log' = [log EXCEPT ![x.run] = Wrote(x)]
<1>2. ASSUME NEW m, NEW s, Executing(x), Goes(m, s)
      PROVE  Shape'
  BY <1>1, <1>2, ExecutionGoesOn, ZenonT(60) DEF Becomes
<1> HIDE DEF Goes
<1>3. CASE Begin(x)
  <2>1. status[x.run] = "created" /\ can_transition(status[x.run], "running")
    BY <1>1, <1>3, BelievedStatus, LegalMoves DEF Begin
  <2>2. CASE x.mode = "new"
    <3>1. Goes("run", "running")
      BY <1>3, <2>1, <2>2, BelievedStatus DEF Begin, Move, Goes, Modes, LIVE
    <3>. QED  BY <1>2, <1>3, <3>1 DEF Begin
  <2>3. CASE x.mode # "new"
    <3>1. Goes("unsaid", "running")
      BY <1>3, <2>1, <2>3, BelievedStatus DEF Begin, Move, Goes, Modes, LIVE
    <3>. QED  BY <1>2, <1>3, <3>1 DEF Begin
  <2>. QED  BY <2>2, <2>3
<1>4. CASE Emit(x)
  <2>1. [x EXCEPT !.mode = x.mode] = x
    BY <1>0 DEF Machine
  <2>2. Becomes(x, x.mode)
    BY <1>4, <2>1 DEF Emit, Becomes
  <2>3. status' = [status EXCEPT ![x.run] = status[x.run]]
    BY <1>0, <1>4 DEF Emit, IInv, TypeOK
  <2>4. Goes(x.mode, status[x.run])
    BY <1>0, <1>1, <1>4, <2>2, <2>3, ZenonT(60) DEF Emit, Goes
  <2>. QED  BY <1>2, <1>4, <2>4 DEF Emit
<1>5. CASE RequestApproval(x)
  <2>1. can_transition(status[x.run], "waiting_approval")
    BY <1>1, <1>5, BelievedStatus, LegalMoves DEF RequestApproval
  <2>2. Goes("wait", "waiting_approval")
    BY <1>5, <2>1, BelievedStatus DEF RequestApproval, Move, Goes, Modes, LIVE
  <2>. QED  BY <1>2, <1>5, <2>2 DEF RequestApproval
<1>6. CASE ApprovalResolved(x)
  <2>1. can_transition(status[x.run], "running")
    BY <1>1, <1>6, BelievedStatus, LegalMoves DEF ApprovalResolved
  <2>2. PICK m \in {"run", "told"} : Becomes(x, m)
    BY <1>6 DEF ApprovalResolved
  <2>3. Goes(m, "running")
    BY <1>6, <2>1, <2>2, BelievedStatus DEF ApprovalResolved, Move, Goes, Modes, LIVE
  <2>. QED  BY <1>2, <1>6, <2>3 DEF ApprovalResolved
<1>8. CASE Cancel(x)
  <2>1. CASE x.mode = "new"
    <3>1. status[x.run] = "created" /\ ~can_transition(status[x.run], "cancel_requested")
      BY <1>1, <1>8, <2>1, BelievedStatus, LegalMoves DEF Cancel
    <3>2. UNCHANGED <<status, log>> /\ Becomes(x, "early")
      BY <1>8, <2>1, <3>1, Zenon DEF Cancel, Move
    <3>3. Goes("early", "created")
      BY <1>0, <3>1, <3>2, BelievedStatus DEF Goes, Modes, IInv, TypeOK
    <3>. QED  BY <1>2, <1>8, <3>3 DEF Cancel
  <2>2. CASE x.mode # "new"
    <3>1. can_transition(status[x.run], "cancel_requested")
      BY <1>1, <1>8, <2>2, BelievedStatus, LegalMoves, ZenonT(30) DEF Cancel
    <3>2. Goes("stop", "cancel_requested")
      BY <1>8, <2>2, <3>1, BelievedStatus DEF Cancel, Move, Goes, Modes, LIVE
    <3>. QED  BY <1>2, <1>8, <3>2 DEF Cancel
  <2>. QED  BY <2>1, <2>2
<1>9. CASE Finish(x)
  <2>1. PICK t \in {"completed", "failed", "cancelled"} : Move(x, t)
    BY <1>9, Zenon DEF Finish
  <2>2. can_transition(status[x.run], t)
    BY <1>1, <1>9, BelievedStatus, LegalMoves, ZenonT(30) DEF Finish
  <2>3. Goes("end", t)
    BY <1>9, <2>1, <2>2, BelievedStatus, TerminalStatuses DEF Finish, Move, Goes, Modes
  <2>. QED  BY <1>2, <1>9, <2>3 DEF Finish
<1>10. CASE LastEvent(x)
  <2>1. /\ Fence(x) /\ machines' = machines \ {x} /\ UNCHANGED <<status, lease, procs>>
        /\ log' = [log EXCEPT ![x.run] = Wrote(x)]
    BY <1>1, <1>10 DEF LastEvent
  <2>2. \A z : Fence(z)' <=> Fence(z)
    BY <2>1 DEF Fence, lease
  <2>3. LeaseMatchesStatus'
    BY <2>1, Zenon DEF IInv, LeaseMatchesStatus, lease
  <2>4. OneWriter' /\ OnePerWorker' /\ MachineShape' /\ MachineKnowsStatus'
    BY <2>1, <2>2, Zenon DEF IInv, OneWriter, OnePerWorker, MachineShape, MachineKnowsStatus, lease, procs
  <2>5. ClaimShape'
    BY <2>1 DEF IInv, ClaimShape, Holds, lease, procs
  <2>6. LogShape'
    <3>1. Wrote(x).epoch = lease_epoch[x.run] /\ (lease_owner[x.run] # NoOne => Wrote(x).author = lease_owner[x.run])
      BY <1>0, <2>1, WroteTyping, ZenonT(30) DEF IInv, LogShape, Fence
    <3>. QED  BY <1>0, <2>1, <3>1, Zenon DEF IInv, LogShape, TypeOK, lease
  <2>. QED  BY <2>3, <2>4, <2>5, <2>6 DEF Shape
<1>7. CASE LeaseLost(x) \/ TaskRaises(x)
  BY <1>7, FewerMachines, Zenon DEF LeaseLost, TaskRaises, IInv, MachineShape, row, procs
<1>. QED  BY <1>3, <1>4, <1>5, <1>6, <1>7, <1>8, <1>9, <1>10

\* The loop of a worker keeps the invariant (worker.py, queue.py).
LEMMA WorkerShape ==
  ASSUME IInv, NEW w \in Workers,
         \/ Claim(w) \/ StartClaimed(w) \/ RecoveryBlocked(w) \/ Heartbeat(w)
         \/ Release(w) \/ LoopRaises(w) \/ StopWorker(w) \/ StartWorker(w)
  PROVE  Shape'
<1>0. /\ w # NoOne /\ w \notin Servers
      /\ \A x \in machines : x.run \in Runs /\ x.epoch \in Nat
      /\ \A v \in Workers : loop[v] = "start" => held[v].run \in Runs /\ held[v].epoch \in Nat
  BY ProcAssumption, Zenon DEF IInv, TypeOK, Machine, ClaimShape, Claimed, Procs
<1>1. ASSUME loop[w] \notin {"execute", "dead"} PROVE \A x \in machines : x.proc # w
  BY <1>0, <1>1 DEF IInv, MachineShape
<1>2. ASSUME NEW r \in Runs, ClaimStart(w, r)
      PROVE  Shape'
  <2>1. status[r] = "queued" /\ lease_owner[r] = NoOne
    BY <1>2, TerminalStatuses, ZenonT(30) DEF ClaimStart, OldestQueued, IInv, LeaseMatchesStatus, LIVE
  <2>2. \A x \in machines : x.run = r => ~Fence(x) /\ x.epoch # 0
    BY <2>1, Fenced, Zenon DEF Fence
  <2>3. /\ lease_owner' = [lease_owner EXCEPT ![r] = w] /\ lease_epoch' = [lease_epoch EXCEPT ![r] = lease_epoch[r] + 1]
        /\ status' = [status EXCEPT ![r] = "running"] /\ machines' = machines /\ up' = up
        /\ loop' = [loop EXCEPT ![w] = "start"]
        /\ held' = [held EXCEPT ![w] = [run |-> r, kind |-> "start", epoch |-> lease_epoch[r] + 1]]
        /\ log' = [log EXCEPT ![r] = Authored(r, attempt[r], w, lease_epoch[r] + 1)]
    BY <1>2 DEF ClaimStart
  <2>a. \A q \in Runs : /\ lease_owner'[q] = IF q = r THEN w ELSE lease_owner[q]
                        /\ lease_epoch'[q] = IF q = r THEN lease_epoch[r] + 1 ELSE lease_epoch[q]
                        /\ status'[q] = IF q = r THEN "running" ELSE status[q]
                        /\ lease_epoch[q] \in Nat
    BY <2>3 DEF IInv, TypeOK
  <2>b. \A v \in Workers : loop'[v] = IF v = w THEN "start" ELSE loop[v]
    BY <2>3 DEF IInv, TypeOK
  <2>c. MachineShape
    BY Zenon DEF IInv
  <2>4. \A x \in machines : x.run = r => ~Fence(x)'
    <3>1. ASSUME NEW x \in machines, x.run = r
          PROVE  x.epoch # 0 /\ x.epoch <= lease_epoch[r] /\ x.epoch \in Nat
      BY <1>0, <2>2, <2>c, <3>1 DEF MachineShape
    <3>2. ASSUME NEW x \in machines, x.run = r
          PROVE  x.epoch # 0 /\ lease_epoch'[x.run] # x.epoch
      BY <2>a, <3>1, <3>2
    <3>. QED  BY <3>2, <2>3 DEF Fence
  <2>5. \A x \in machines : x.run # r => (Fence(x)' <=> Fence(x))
    BY <1>0, <2>a DEF Fence
  <2>6. LeaseMatchesStatus'
    BY <2>3, Zenon DEF IInv, LeaseMatchesStatus, TypeOK, LIVE
  <2>7. OneWriter' /\ OnePerWorker'
    BY <2>3, <2>4, <2>5, ZenonT(30) DEF IInv, OneWriter, OnePerWorker
  <2>8. MachineKnowsStatus'
    BY <1>0, <2>3, <2>4, <2>5, ZenonT(30) DEF IInv, MachineKnowsStatus, TypeOK
  <2>9. MachineShape'
    <3>1. loop[w] = "poll"
      BY <1>2 DEF ClaimStart
    <3>2. \A x \in machines : x.proc # w
      BY <1>1, <3>1, Zenon
    <3>3. ASSUME NEW x \in machines
          PROVE  /\ x.epoch = 0 => x.proc \in Servers /\ up'[x.proc] /\ lease_owner'[x.run] = NoOne
                 /\ x.epoch # 0 => /\ x.proc \in Workers /\ x.epoch <= lease_epoch'[x.run]
                                   /\ loop'[x.proc] \in {"execute", "dead"}
      <4>1. CASE x.epoch = 0
        BY <1>0, <2>2, <2>3, <2>a, <2>c, <4>1, ZenonT(60) DEF MachineShape
      <4>2. CASE x.epoch # 0
        <5>1. /\ x.proc \in Workers /\ x.epoch <= lease_epoch[x.run]
              /\ loop[x.proc] \in {"execute", "dead"}
          BY <2>c, <4>2 DEF MachineShape
        <5>2. x.run \in Runs /\ x.epoch \in Nat /\ x.proc # w
          BY <1>0, <3>2
        <5>3. lease_epoch[x.run] <= lease_epoch'[x.run] /\ lease_epoch[x.run] \in Nat /\ lease_epoch'[x.run] \in Nat
          BY <2>a, <5>2
        <5>4. loop'[x.proc] = loop[x.proc]
          BY <2>b, <5>1, <5>2
        <5>5. x.epoch <= lease_epoch'[x.run]
          BY <5>1, <5>2, <5>3
        <5>6. loop'[x.proc] \in {"execute", "dead"}
          BY <5>1, <5>4
        <5>. QED  BY <4>2, <5>1, <5>5, <5>6
      <4>. QED  BY <4>1, <4>2
    <3>. QED  BY <2>3, <3>3, Zenon DEF MachineShape
  <2>10. ClaimShape'
    <3>1. ASSUME NEW v \in Workers \ {w}, loop'[v] = "start"
          PROVE  /\ held'[v] \in Claimed /\ held'[v].epoch # 0
                 /\ held'[v].epoch <= lease_epoch'[held'[v].run]
                 /\ Holds(v)' => status'[held'[v].run] = "running"
      <4>1. loop[v] = "start" /\ held'[v] = held[v]
        BY <2>3, <3>1 DEF IInv, TypeOK
      <4>2. ClaimShape /\ v # w /\ v \in Workers
        BY DEF IInv
      <4>3. held[v] \in Claimed /\ held[v].epoch # 0 /\ held[v].epoch <= lease_epoch[held[v].run]
        BY <4>1, <4>2 DEF ClaimShape
      <4>4. held[v].run \in Runs /\ held[v].epoch \in Nat
        BY <4>3 DEF Claimed
      <4>5. Holds(v)' => held[v].run # r /\ Holds(v)
        BY <2>a, <4>1, <4>2, <4>4, Zenon DEF Holds
      <4>6. Holds(v)' => status'[held[v].run] = "running"
        BY <2>a, <4>1, <4>2, <4>4, <4>5, Zenon DEF ClaimShape
      <4>7. held[v].epoch <= lease_epoch'[held[v].run]
        BY <2>a, <4>3, <4>4
      <4>. QED  BY <4>1, <4>3, <4>6, <4>7
    <3>2. held'[w] = [run |-> r, kind |-> "start", epoch |-> lease_epoch[r] + 1]
      BY <2>3 DEF IInv, TypeOK
    <3>3. /\ held'[w].run = r /\ held'[w].epoch = lease_epoch[r] + 1
          /\ lease_epoch'[r] = lease_epoch[r] + 1 /\ lease_epoch[r] \in Nat /\ status'[r] = "running"
      BY <2>3, <3>2 DEF IInv, TypeOK
    <3>4. held'[w] \in Claimed
      <4>1. lease_epoch[r] + 1 \in Nat
        BY <3>3
      <4>. QED  BY <3>2, <4>1 DEF Claimed
    <3>5. /\ held'[w].epoch # 0 /\ held'[w].epoch <= lease_epoch'[held'[w].run]
          /\ status'[held'[w].run] = "running"
      BY <3>3
    <3>. QED  BY <3>1, <3>4, <3>5 DEF ClaimShape
  <2>11. LogShape'
    <3>1. /\ Authored(r, attempt[r], w, lease_epoch[r] + 1).epoch = lease_epoch[r] + 1
          /\ Authored(r, attempt[r], w, lease_epoch[r] + 1).author = w
      BY Zenon DEF Authored
    <3>. QED  BY <2>3, <3>1, ZenonT(30) DEF IInv, LogShape, TypeOK
  <2>. QED  BY <2>6, <2>7, <2>8, <2>9, <2>10, <2>11, Zenon DEF Shape
<1>3. ASSUME NEW r \in Runs, ClaimRecover(w, r)
      PROVE  Shape'
  <2>1. lease_owner[r] # NoOne /\ loop[w] = "poll"
    BY <1>3, Zenon DEF ClaimRecover
  <2>2. /\ lease_owner' = [lease_owner EXCEPT ![r] = NoOne] /\ lease_epoch' = lease_epoch
        /\ machines' = machines /\ up' = up
        /\ status' = [status EXCEPT ![r] = AfterLoss(status[r])]
        /\ log' = [log EXCEPT ![r] = Recorded(r, attempt[r])]
        /\ loop' = [loop EXCEPT ![w] = "recover"]
        /\ held' = [held EXCEPT ![w] = [run |-> r, kind |-> "recover", epoch |-> 0]]
    BY <1>3, Zenon DEF ClaimRecover, ClearLease
  <2>3. \A x \in machines : x.run = r => x.epoch # 0 /\ x.proc # NoOne
    BY <2>1, ProcAssumption, Zenon DEF IInv, MachineShape, Procs
  <2>4. \A x \in machines : x.run = r => ~Fence(x)'
    BY <2>2, <2>3, Zenon DEF Fence, IInv, TypeOK
  <2>5. \A x \in machines : x.run # r => (Fence(x)' <=> Fence(x))
    BY <1>0, <2>2, Zenon DEF Fence, IInv, TypeOK
  <2>6. LeaseMatchesStatus'
    BY <2>2, ZenonT(30) DEF IInv, LeaseMatchesStatus, TypeOK
  <2>7. OneWriter' /\ OnePerWorker'
    BY <2>2, <2>4, <2>5, ZenonT(30) DEF IInv, OneWriter, OnePerWorker
  <2>8. MachineKnowsStatus'
    BY <1>0, <2>2, <2>4, <2>5, ZenonT(30) DEF IInv, MachineKnowsStatus, TypeOK
  <2>9. MachineShape'
    BY <1>0, <1>1, <2>1, <2>2, ZenonT(30) DEF IInv, MachineShape, TypeOK
  <2>10. ClaimShape'
    <3>1. ASSUME NEW v \in Workers, loop'[v] = "start"
          PROVE  loop[v] = "start" /\ held'[v] = held[v] /\ v # NoOne
      BY <2>2, <3>1, ProcAssumption, ZenonT(30) DEF IInv, TypeOK, Procs
    <3>. QED  BY <1>0, <2>2, <3>1, ZenonT(30) DEF IInv, ClaimShape, Holds, TypeOK
  <2>11. LogShape'
    <3>1. Recorded(r, attempt[r]).epoch = log[r].epoch
      BY Zenon DEF Recorded, Authored
    <3>. QED  BY <2>2, <3>1, Zenon DEF IInv, LogShape, TypeOK
  <2>. QED  BY <2>6, <2>7, <2>8, <2>9, <2>10, <2>11 DEF Shape
<1>4. CASE StartClaimed(w) /\ Holds(w)
  <2> DEFINE y == [proc |-> w, run |-> held[w].run, epoch |-> held[w].epoch,
                   attempt |-> attempt[held[w].run], mode |-> "run"]
  <2>1. /\ loop[w] = "start" /\ machines' = machines \cup {y} /\ loop' = [loop EXCEPT ![w] = "execute"]
        /\ UNCHANGED <<held, row, lease, log, up>>
    BY <1>4, ZenonT(30) DEF StartClaimed
  <2>2. /\ held[w].run \in Runs /\ held[w].epoch # 0 /\ held[w].epoch <= lease_epoch[held[w].run]
        /\ status[held[w].run] = "running" /\ lease_owner[held[w].run] = w
    BY <1>0, <1>4, <2>1, Zenon DEF IInv, ClaimShape, Holds
  <2>3. y.proc = w /\ y.run = held[w].run /\ y.epoch = held[w].epoch /\ y.mode = "run"
    BY Zenon
  <2> HIDE DEF y
  <2>4. \A x \in machines : x.proc # w
    BY <1>1, <2>1, Zenon
  <2>5. \A x \in machines : x.run = held[w].run => ~Fence(x)
    BY <1>0, <2>2, <2>4, Zenon DEF Fence, IInv, MachineShape
  <2>6. \A x : Fence(x)' <=> Fence(x)
    BY <2>1, Zenon DEF Fence, lease
  <2>7. LeaseMatchesStatus' /\ LogShape'
    BY <2>1, Zenon DEF IInv, LeaseMatchesStatus, LogShape, row, lease
  <2>8. OneWriter'
    BY <2>1, <2>3, <2>5, <2>6, ZenonT(30) DEF IInv, OneWriter
  <2>9. OnePerWorker'
    BY <2>1, <2>3, <2>4 DEF IInv, OnePerWorker
  <2>10. MachineKnowsStatus'
    <3>1. status' = status /\ status[y.run] \in StatusesOf[y.mode]
      BY <2>1, <2>2, <2>3, BelievedStatus, Zenon DEF row
    <3>. QED  BY <2>1, <2>6, <3>1, Zenon DEF IInv, MachineKnowsStatus
  <2>11. MachineShape'
    BY <2>1, <2>2, <2>3, <2>4, Zenon DEF IInv, MachineShape, TypeOK, lease
  <2>12. ClaimShape'
    BY <2>1, Zenon DEF IInv, ClaimShape, Holds, TypeOK, row, lease
  <2>. QED  BY <2>7, <2>8, <2>9, <2>10, <2>11, <2>12, Zenon DEF Shape
<1>5. CASE StartClaimed(w) /\ ~Holds(w)
  <2>1. /\ loop[w] = "start" /\ machines' = machines /\ loop' = [loop EXCEPT ![w] = "dead"]
        /\ held' = [held EXCEPT ![w] = NoOne] /\ UNCHANGED <<status, lease, log, up>>
    BY <1>5, Zenon DEF StartClaimed, row
  <2>. QED  BY <1>0, <2>1, FewerMachines, ZenonT(30) DEF IInv, MachineShape, TypeOK
<1>6. CASE RecoveryBlocked(w) \/ LoopRaises(w) \/ StopWorker(w) \/ StartWorker(w)
  <2>1. /\ machines' \subseteq machines /\ UNCHANGED <<status, lease, log, up>>
        /\ loop'[w] \in {"poll", "dead", "down"}
        /\ loop'[w] \in {"poll", "down"} => \A x \in machines' : x.proc # w
        /\ \A v \in Workers \ {w} : loop'[v] = loop[v] /\ held'[v] = held[v]
    BY <1>1, <1>6, ZenonT(30) DEF RecoveryBlocked, LoopRaises, StopWorker, StartWorker, Own, IInv, TypeOK, row
  <2>. QED  BY <1>0, <2>1, FewerMachines, ZenonT(30) DEF IInv, MachineShape
<1>7. CASE Heartbeat(w)
  <2>1. CASE Holds(w)
    <3>1. UNCHANGED <<status, lease_owner, lease_epoch, log, machines, loop, held, up>>
      BY <1>7, <2>1, ZenonT(30) DEF Heartbeat, row
    <3>2. \A x : Fence(x)' <=> Fence(x)
      BY <3>1, ZenonT(30) DEF Fence
    <3>. QED  BY <3>1, <3>2, Zenon DEF IInv, Shape, LeaseMatchesStatus, OneWriter, MachineKnowsStatus, MachineShape,
                  OnePerWorker, ClaimShape, LogShape, Holds
  <2>2. CASE ~Holds(w)
    <3>1. /\ machines' = machines \ Own(w) /\ UNCHANGED <<status, lease, log, up>>
          /\ loop' = [loop EXCEPT ![w] = "poll"] /\ held' = [held EXCEPT ![w] = NoOne]
      BY <1>7, <2>2, Zenon DEF Heartbeat, row, lease
    <3>. QED  BY <1>0, <3>1, FewerMachines, ZenonT(30) DEF IInv, MachineShape, TypeOK, Own
  <2>. QED  BY <2>1, <2>2
<1>8. CASE Release(w)
  <2>0. \A x \in machines : x.proc # w
    BY <1>8 DEF Release, Own
  <2>1. CASE Holds(w)
    <3> DEFINE r == held[w].run
    <3>1. /\ UNCHANGED <<status, lease_epoch, log, machines, up>>
          /\ loop' = [loop EXCEPT ![w] = "poll"] /\ held' = [held EXCEPT ![w] = NoOne]
          /\ lease_owner' = [lease_owner EXCEPT ![r] = NoOne] /\ lease_owner[r] = w
      BY <1>8, <2>1, Zenon DEF Release, ClearLease, Holds, row
    <3> HIDE DEF r
    <3>2. \A q \in Runs : lease_owner'[q] = IF q = r THEN NoOne ELSE lease_owner[q]
      BY <3>1, Zenon DEF IInv, TypeOK
    <3>3. \A x \in machines : x.run = r => x.epoch # 0 /\ x.proc # NoOne
      BY <1>0, <3>1, ProcAssumption, Zenon DEF IInv, MachineShape, Procs
    <3>4. \A x \in machines : Fence(x)' => Fence(x)
      BY <1>0, <3>1, <3>2, <3>3, Zenon DEF Fence
    <3>5. LeaseMatchesStatus' /\ LogShape'
      BY <3>1, <3>2, Zenon DEF IInv, LeaseMatchesStatus, LogShape
    <3>6. OneWriter' /\ MachineKnowsStatus' /\ OnePerWorker'
      BY <3>1, <3>4, Zenon DEF IInv, OneWriter, MachineKnowsStatus, OnePerWorker
    <3>7. MachineShape'
      BY <1>0, <2>0, <3>1, <3>2, ZenonT(30) DEF IInv, MachineShape, TypeOK
    <3>8. ClaimShape'
      <4>1. ASSUME NEW v \in Workers, loop'[v] = "start"
            PROVE  loop[v] = "start" /\ held'[v] = held[v] /\ v # NoOne
        BY <3>1, <4>1, ProcAssumption DEF IInv, TypeOK, Procs
      <4>2. ClaimShape
        BY DEF IInv
      <4>3. ASSUME NEW v \in Workers, loop'[v] = "start"
            PROVE  Holds(v)' => Holds(v)
        BY <1>0, <3>1, <3>2, <4>1, <4>3, ZenonT(30) DEF Holds
      <4>. QED  BY <3>1, <4>1, <4>2, <4>3, ZenonT(30) DEF ClaimShape
    <3>. QED  BY <3>5, <3>6, <3>7, <3>8, Zenon DEF Shape
  <2>2. CASE ~Holds(w)
    <3>1. /\ UNCHANGED <<status, lease, log, machines, up>>
          /\ loop' = [loop EXCEPT ![w] = "poll"] /\ held' = [held EXCEPT ![w] = NoOne]
      BY <1>8, <2>2 DEF Release, row
    <3>. QED  BY <1>0, <2>0, <3>1, FewerMachines, Zenon DEF IInv, MachineShape, TypeOK
  <2>. QED  BY <2>1, <2>2
<1>. QED  BY <1>2, <1>3, <1>4, <1>5, <1>6, <1>7, <1>8 DEF Claim

\* Resuming keeps the invariant (service.resume).
LEMMA ResumeShape ==
  ASSUME IInv, NEW p \in Procs,
         \/ \E r \in Runs : PlanResume(p, r)
         \/ ReadAttempt(p) \/ ResumeDeferred(p) \/ ResumeRefused(p)
  PROVE  Shape'
<1>0. /\ \A x \in machines : x.run \in Runs /\ x.epoch \in Nat /\ x.proc \in Procs
      /\ \A v \in Workers : loop[v] = "start" => held[v].run \in Runs
  BY Zenon DEF IInv, TypeOK, Machine, ClaimShape, Claimed
<1>1. CASE (\E r \in Runs : PlanResume(p, r)) \/ ReadAttempt(p)
  <2>1. UNCHANGED <<status, lease, log, machines, loop, held, up>>
    BY <1>1, Zenon DEF PlanResume, ReadAttempt, row
  <2>. QED  BY <2>1, FewerMachines, Zenon DEF IInv, MachineShape
<1>3. CASE ResumeRefused(p)
  <2>1. /\ UNCHANGED <<status, lease, log, machines, up>>
        /\ p \in Workers => loop' = [loop EXCEPT ![p] = "dead"] /\ held' = [held EXCEPT ![p] = NoOne]
        /\ p \notin Workers => UNCHANGED <<loop, held>>
    BY <1>3, Zenon DEF ResumeRefused, row
  <2>. QED  BY <2>1, FewerMachines, ZenonT(60) DEF IInv, MachineShape, TypeOK
<1>4. CASE ResumeDeferred(p)
  <2> DEFINE r == plan[p].run
  <2>0. r \in Runs /\ status[r] \in RunStatus
    BY <1>4, Zenon DEF ResumeDeferred, Planned, IInv, TypeOK, Plan
  <2>1. status[r] \in {"created", "interrupted"}
    BY <1>4, <2>0, QueuedFrom, Zenon DEF ResumeDeferred
  <2>2. /\ status' = [status EXCEPT ![r] = "queued"] /\ lease_epoch' = lease_epoch
        /\ lease_owner' = [lease_owner EXCEPT ![r] = NoOne]
        /\ log' = [log EXCEPT ![r] = Requeued(r, plan[p].attempt)]
        /\ machines' = machines /\ up' = up
        /\ p \in Workers => loop' = [loop EXCEPT ![p] = "poll"] /\ held' = [held EXCEPT ![p] = NoOne]
        /\ p \notin Workers => UNCHANGED <<loop, held>>
    BY <1>4, Zenon DEF ResumeDeferred, ClearLease, Resumed
  <2>3. Requeued(r, plan[p].attempt).epoch = log[r].epoch
    BY ZenonT(30) DEF Requeued
  <2> HIDE DEF r
  <2>4. lease_owner[r] = NoOne
    BY <2>0, <2>1, TerminalStatuses, Zenon DEF IInv, LeaseMatchesStatus, LIVE
  <2>5. lease_owner' = lease_owner
    BY <2>0, <2>2, <2>4, Zenon DEF IInv, TypeOK
  <2>6. \A x : Fence(x)' <=> Fence(x)
    BY <2>2, <2>5, Zenon DEF Fence
  <2>7. \A x \in machines : Fence(x) => x.run # r
    <3>1. status[r] # "created"
      BY <1>4, ZenonT(30) DEF ResumeDeferred, Planned, IInv, PlanShape, r
    <3>. QED  BY <2>1, <3>1, Fenced, Zenon
  <2>8. p \in Workers => \A x \in machines : x.proc # p
    <3>1. p \in Workers => loop[p] = "recover" /\ p \notin Servers
      BY <1>4, ProcAssumption, Zenon DEF ResumeDeferred, Planned, IInv, PlanShape
    <3>. QED  BY <3>1, ZenonT(30) DEF IInv, MachineShape
  <2>9. LeaseMatchesStatus'
    BY <2>0, <2>2, <2>4, <2>5 DEF IInv, LeaseMatchesStatus, TypeOK
  <2>10. OneWriter' /\ OnePerWorker'
    BY <2>2, <2>6, Zenon DEF IInv, OneWriter, OnePerWorker
  <2>11. MachineKnowsStatus'
    BY <1>0, <2>2, <2>6, <2>7, ZenonT(30) DEF IInv, MachineKnowsStatus, TypeOK
  <2>12. MachineShape'
    BY <2>2, <2>5, <2>8, Zenon DEF IInv, MachineShape, TypeOK
  <2>13. ClaimShape'
    <3>1. ASSUME NEW v \in Workers, loop'[v] = "start"
          PROVE  loop[v] = "start" /\ held'[v] = held[v] /\ v # NoOne
      BY <2>2, <3>1, ProcAssumption DEF IInv, TypeOK, Procs
    <3>2. ClaimShape /\ \A q \in Runs : status'[q] = IF q = r THEN "queued" ELSE status[q]
      BY <2>0, <2>2 DEF IInv, TypeOK
    <3>3. lease_epoch' = lease_epoch
      BY <2>2, Zenon
    <3>4. ASSUME NEW v \in Workers, loop'[v] = "start"
          PROVE  /\ held'[v] \in Claimed /\ held'[v].epoch # 0
                 /\ held'[v].epoch <= lease_epoch'[held'[v].run]
                 /\ Holds(v)' => status'[held'[v].run] = "running"
      <4>1. loop[v] = "start" /\ held'[v] = held[v] /\ v # NoOne
        BY <3>1, <3>4, Zenon
      <4>2. held[v] \in Claimed /\ held[v].epoch # 0 /\ held[v].epoch <= lease_epoch[held[v].run]
        BY <3>2, <4>1, Zenon DEF ClaimShape
      <4>3. Holds(v)' => Holds(v)
        BY <2>5, <3>3, <4>1, Zenon DEF Holds
      <4>4. Holds(v) => held[v].run # r
        BY <2>4, <4>1, Zenon DEF Holds
      <4>5. Holds(v) => status[held[v].run] = "running"
        BY <3>2, <4>1, Zenon DEF ClaimShape
      <4>6. held[v].run \in Runs
        BY <1>0, <4>1
      <4>7. Holds(v)' => status'[held[v].run] = "running"
        BY <3>2, <4>3, <4>4, <4>5, <4>6, Zenon
      <4>. QED  BY <3>3, <4>1, <4>2, <4>7, Zenon
    <3>. QED  BY <3>4, Zenon DEF ClaimShape
  <2>14. LogShape'
    BY <2>0, <2>2, <2>3, <2>5, <2>4, Zenon DEF IInv, LogShape, TypeOK
  <2>. QED  BY <2>9, <2>10, <2>11, <2>12, <2>13, <2>14 DEF Shape
<1>. QED  BY <1>1, <1>3, <1>4, Zenon

\* Submissions, time and the processes keep the invariant (service.py, recovery.py).
LEMMA LocalShape ==
  ASSUME IInv, OneServer, Local
  PROVE  Shape'
<1>0. /\ \A x \in machines : x.run \in Runs /\ x.epoch \in Nat /\ x.proc \in Procs
      /\ \A v \in Workers : v # NoOne /\ v \notin Servers /\ (loop[v] = "start" => held[v].run \in Runs)
      /\ Locals = Servers
  BY ProcAssumption DEF IInv, TypeOK, Machine, ClaimShape, Claimed, Procs, OneServer, Locals
<1>1. ASSUME NEW r \in Runs, Enqueue(r)
      PROVE  Shape'
  <2>1. /\ Unstarted(r) /\ status[r] = "created"
        /\ status' = [status EXCEPT ![r] = "queued"] /\ lease_epoch' = lease_epoch
        /\ lease_owner' = [lease_owner EXCEPT ![r] = NoOne]
        /\ log' = [log EXCEPT ![r] = Recorded(r, 1)]
        /\ UNCHANGED <<machines, loop, held, up>>
    BY <1>1 DEF Enqueue, Unstarted, ClearLease, procs
  <2>2. lease_owner[r] = NoOne
    BY <2>1, TerminalStatuses DEF IInv, LeaseMatchesStatus, LIVE
  <2>3. lease_owner' = lease_owner
    BY <2>1, <2>2, Zenon DEF IInv, TypeOK
  <2>4. \A x : Fence(x)' <=> Fence(x)
    BY <2>1, <2>3 DEF Fence
  <2>5. \A x \in machines : x.run # r
    BY <2>1 DEF Unstarted
  <2>6. Recorded(r, 1).epoch = log[r].epoch
    BY Zenon DEF Recorded, Authored
  <2>7. LeaseMatchesStatus' /\ LogShape'
    BY <2>1, <2>2, <2>3, <2>6, ZenonT(30) DEF IInv, LeaseMatchesStatus, LogShape, TypeOK
  <2>8. OneWriter' /\ OnePerWorker' /\ MachineShape'
    BY <2>1, <2>3, <2>4, ZenonT(30) DEF IInv, OneWriter, OnePerWorker, MachineShape
  <2>9. MachineKnowsStatus'
    BY <1>0, <2>1, <2>4, <2>5, Zenon DEF IInv, MachineKnowsStatus, TypeOK
  <2>10. ClaimShape'
    <3>1. ClaimShape
      BY DEF IInv
    <3>2. DOMAIN status = Runs
      BY DEF IInv, TypeOK
    <3>3. ASSUME NEW w \in Workers, loop[w] = "start"
          PROVE  Holds(w)' => status'[held[w].run] = "running"
      <4>1. held[w].run \in Runs
        BY <1>0, <3>3, Zenon
      <4>2. Holds(w)' <=> Holds(w)
        BY <2>1, <2>3, Zenon DEF Holds
      <4>3. Holds(w) => status[held[w].run] = "running"
        BY <3>1, <3>3 DEF ClaimShape
      <4>4. held[w].run # r => status'[held[w].run] = status[held[w].run]
        BY <2>1, <3>2, <4>1, Zenon
      <4>. QED  BY <2>1, <4>2, <4>3, <4>4
    <3>. QED  BY <2>1, <3>1, <3>3 DEF ClaimShape
  <2>. QED  BY <2>7, <2>8, <2>9, <2>10 DEF Shape
<1>2. ASSUME NEW r \in Runs, Expire(r)
      PROVE  Shape'
  <2>1. UNCHANGED <<status, lease_owner, lease_epoch, log, machines, loop, held, up>>
    BY <1>2 DEF Expire, row, procs
  <2>2. \A x : Fence(x)' <=> Fence(x)
    BY <2>1, Zenon DEF Fence
  <2>. QED  BY <2>1, <2>2, Zenon DEF IInv, Shape, LeaseMatchesStatus, OneWriter, MachineKnowsStatus, MachineShape,
                OnePerWorker, ClaimShape, LogShape, Holds
<1>3. ASSUME NEW p \in Locals, KillLocal(p)
      PROVE  Shape'
  <2>1. /\ machines' = machines \ Own(p) /\ UNCHANGED <<status, lease, log, loop, held>>
        /\ up' = [up EXCEPT ![p] = FALSE]
    BY <1>3 DEF KillLocal, row
  <2>. QED  BY <1>0, <2>1, FewerMachines, Zenon DEF IInv, MachineShape, Own, TypeOK
<1>4. ASSUME NEW p \in Locals, NEW r \in Runs, Launch(p, r)
      PROVE  Shape'
  <2> DEFINE y == [proc |-> p, run |-> r, epoch |-> 0, attempt |-> 1, mode |-> "new"]
  <2>1. /\ Unstarted(r) /\ status[r] = "created" /\ up[p] /\ machines' = machines \cup {y}
        /\ UNCHANGED <<status, lease, log, procs>>
    BY <1>4, Zenon DEF Launch, Unstarted, row
  <2>2. y.proc = p /\ y.run = r /\ y.epoch = 0 /\ y.mode = "new"
    BY Zenon
  <2> HIDE DEF y
  <2>3. lease_owner[r] = NoOne
    BY <2>1, TerminalStatuses, ZenonT(30) DEF IInv, LeaseMatchesStatus, LIVE
  <2>4. \A x : Fence(x)' <=> Fence(x)
    BY <2>1, Zenon DEF Fence, lease
  <2>5. \A x \in machines : x.run # r
    BY <2>1, Zenon DEF Unstarted
  <2>6. LeaseMatchesStatus' /\ LogShape' /\ ClaimShape'
    BY <2>1, ZenonT(30) DEF IInv, LeaseMatchesStatus, LogShape, ClaimShape, Holds, lease, procs
  <2>7. OneWriter' /\ OnePerWorker'
    BY <2>1, <2>2, <2>4, <2>5, ZenonT(30) DEF IInv, OneWriter, OnePerWorker
  <2>8. MachineShape'
    BY <1>0, <2>1, <2>2, <2>3, Zenon DEF IInv, MachineShape, lease, procs
  <2>9. MachineKnowsStatus'
    BY <2>1, <2>2, <2>4, BelievedStatus DEF IInv, MachineKnowsStatus
  <2>. QED  BY <2>6, <2>7, <2>8, <2>9, Zenon DEF Shape
<1>5. ASSUME NEW p \in Servers, StartServer(p)
      PROVE  Shape'
  <2>1. /\ ~up[p] /\ UNCHANGED <<lease, machines, loop, held>> /\ up' = [up EXCEPT ![p] = TRUE]
        /\ \A r \in Runs : status[r] \in LIVE /\ lease_owner[r] = NoOne
             => status'[r] = AfterLoss(status[r]) /\ log'[r] = Recorded(r, attempt[r])
        /\ \A r \in Runs : ~(status[r] \in LIVE /\ lease_owner[r] = NoOne)
             => status'[r] = status[r] /\ log'[r] = log[r]
    BY <1>5, Zenon DEF StartServer
  <2>2. \A x \in machines : x.epoch # 0
    BY <2>1 DEF IInv, MachineShape, OneServer
  <2>3. \A x : Fence(x)' <=> Fence(x)
    BY <2>1 DEF Fence, lease
  <2>4. \A x \in machines : Fence(x) => lease_owner[x.run] # NoOne
    BY <1>0, <2>2, ProcAssumption DEF Fence
  <2>5. \A r \in Runs : Recorded(r, attempt[r]).epoch = log[r].epoch
    BY Zenon DEF Recorded, Authored
  <2>6. LeaseMatchesStatus' /\ LogShape'
    BY <2>1, <2>5, ZenonT(30) DEF IInv, LeaseMatchesStatus, LogShape, lease
  <2>7. OneWriter' /\ OnePerWorker'
    BY <2>1, <2>3, ZenonT(30) DEF IInv, OneWriter, OnePerWorker
  <2>8. MachineKnowsStatus'
    BY <1>0, <2>1, <2>3, <2>4, Zenon DEF IInv, MachineKnowsStatus
  <2>9. MachineShape'
    BY <2>1, <2>2, ZenonT(30) DEF IInv, MachineShape, lease
  <2>10. ClaimShape'
    BY <1>0, <2>1, Zenon DEF IInv, ClaimShape, Holds, lease
  <2>. QED  BY <2>6, <2>7, <2>8, <2>9, <2>10, Zenon DEF Shape
<1>. QED  BY <1>1, <1>2, <1>3, <1>4, <1>5 DEF Local, OneServer

\* A run that has been started is never a created one again (domain/runs.py TRANSITIONS).
LEMMA NeverCreatedAgain ==
  ASSUME IInv, Next, NEW r \in Runs, status'[r] = "created"
  PROVE  status[r] = "created"
<1>1. CASE Execution
  BY <1>1, ZenonT(60) DEF Execution, Begin, Emit, RequestApproval, ApprovalResolved, Cancel, Finish, LastEvent, LeaseLost,
       TaskRaises, Move, row, IInv, TypeOK
<1>2. CASE WorkerLoop
  <2>1. PICK w \in Workers :
          \/ Claim(w) \/ StartClaimed(w) \/ RecoveryBlocked(w) \/ Heartbeat(w)
          \/ Release(w) \/ LoopRaises(w) \/ StopWorker(w) \/ StartWorker(w)
    BY <1>2 DEF WorkerLoop
  <2>2. CASE Claim(w)
    BY <2>2, LossTyping DEF Claim, ClaimStart, ClaimRecover, IInv, TypeOK
  <2>3. CASE ~Claim(w)
    BY <2>1, <2>3, Zenon DEF StartClaimed, RecoveryBlocked, Heartbeat, Release, LoopRaises, StopWorker, StartWorker, row
  <2>. QED  BY <2>2, <2>3
<1>3. CASE Resume
  BY <1>3, ZenonT(30) DEF Resume, PlanResume, ReadAttempt, ResumeDeferred, ResumeHere, ResumeRefused, row, IInv, TypeOK
<1>4. CASE Local
  <2>1. CASE \E p \in Servers : StartServer(p)
    BY <2>1, LossTyping, Zenon DEF StartServer
  <2>2. CASE \E q \in Runs : Enqueue(q)
    BY <2>2 DEF Enqueue, IInv, TypeOK
  <2>3. CASE UNCHANGED status
    BY <2>3
  <2>. QED  BY <1>4, <2>1, <2>2, <2>3, ZenonT(30) DEF Local, Expire, KillLocal, Launch, StartCli, row
<1>. QED  BY <1>1, <1>2, <1>3, <1>4 DEF Next

\* Only a recovering worker ever has a resume planned, and only for a run that was
\* started (worker._recover, plan_resume).
LEMMA PlanKept ==
  ASSUME IInv, Next
  PROVE  PlanShape'
<1> DEFINE Step(p) == \/ plan'[p] = NoOne
                      \/ /\ plan[p] # NoOne /\ plan'[p].run = plan[p].run
                         /\ p \in Workers => loop'[p] = loop[p]
                      \/ /\ plan'[p] \in Plan /\ status[plan'[p].run] = "interrupted"
                         /\ p \in Workers => loop'[p] = "recover"
<1>0. /\ Workers \cap Locals = {} /\ Workers \subseteq Procs /\ Locals \subseteq Procs
      /\ \A p \in Procs : plan[p] # NoOne => plan[p] \in Plan
  BY ProcAssumption, Zenon DEF Locals, Procs, IInv, TypeOK
<1>1. \A p \in Procs : Step(p)
  <2>1. CASE Execution
    BY <2>1, ZenonT(30) DEF Execution, Begin, Emit, RequestApproval, ApprovalResolved, Cancel, Finish, LastEvent, LeaseLost,
         TaskRaises, Executing, procs
  <2>2. ASSUME NEW w \in Workers,
               \/ Claim(w) \/ StartClaimed(w) \/ RecoveryBlocked(w) \/ Heartbeat(w)
               \/ Release(w) \/ LoopRaises(w) \/ StopWorker(w) \/ StartWorker(w)
        PROVE  \A p \in Procs : Step(p)
    <3>1. /\ \A v \in Workers \ {w} : loop'[v] = loop[v]
          /\ \A v \in Procs \ {w} : plan'[v] = plan[v]
          /\ plan'[w] # NoOne => plan'[w] = plan[w] /\ (loop[w] = "recover" => loop'[w] = "recover")
      BY <1>0, <2>2, ZenonT(60) DEF Claim, ClaimStart, ClaimRecover, StartClaimed, RecoveryBlocked, Heartbeat, Release,
           LoopRaises, StopWorker, StartWorker, IInv, TypeOK
    <3>. QED  BY <3>1, Zenon DEF IInv, PlanShape
  <2>3. ASSUME NEW q \in Procs, NEW r \in Runs, PlanResume(q, r)
        PROVE  \A p \in Procs : Step(p)
    <3>1. [run |-> r, attempt |-> 0] \in Plan
      BY DEF Plan
    <3>. QED  BY <1>0, <2>3, <3>1 DEF PlanResume, MayPlan, IInv, TypeOK
  <2>4. ASSUME NEW q \in Procs, ReadAttempt(q)
        PROVE  \A p \in Procs : Step(p)
    <3>1. plan[q] \in Plan /\ plan' = [plan EXCEPT ![q] = [plan[q] EXCEPT !.attempt = attempt[plan[q].run] + 1]]
      BY <1>0, <2>4 DEF ReadAttempt
    <3>2. plan'[q].run = plan[q].run /\ \A p \in Procs \ {q} : plan'[p] = plan[p]
      BY <3>1 DEF Plan, IInv, TypeOK
    <3>. QED  BY <2>4, <3>2 DEF ReadAttempt
  <2>5. ASSUME NEW q \in Procs, ResumeDeferred(q) \/ ResumeHere(q) \/ ResumeRefused(q)
        PROVE  \A p \in Procs : Step(p)
    <3>1. /\ plan' = [plan EXCEPT ![q] = NoOne]
          /\ q \notin Workers => loop' = loop
          /\ q \in Workers => \E l \in {"poll", "dead"} : loop' = [loop EXCEPT ![q] = l]
      BY <2>5, Zenon DEF ResumeDeferred, ResumeHere, ResumeRefused, Resumed
    <3>2. plan \in [Procs -> Plan \cup {NoOne}] /\ DOMAIN loop = Workers
      BY DEF IInv, TypeOK
    <3>3. plan'[q] = NoOne /\ \A p \in Procs \ {q} : plan'[p] = plan[p]
      BY <3>1, <3>2
    <3>4. \A v \in Workers \ {q} : loop'[v] = loop[v]
      BY <3>1, <3>2, Zenon
    <3>. QED  BY <3>3, <3>4, ZenonT(30)
  <2>6. CASE Local
    BY <1>0, <2>6, Zenon DEF Local, Enqueue, Expire, KillLocal, Launch, StartServer, StartCli, procs, IInv, TypeOK
  <2>. QED  BY <2>1, <2>2, <2>3, <2>4, <2>5, <2>6, ZenonT(30) DEF Next, WorkerLoop, Resume
<1>2. ASSUME NEW p \in Procs, plan'[p] # NoOne
      PROVE  status'[plan'[p].run] # "created"
  <2>1. plan'[p].run \in Runs /\ status[plan'[p].run] # "created"
    BY <1>0, <1>1, <1>2, Zenon DEF IInv, PlanShape, Plan
  <2>. QED  BY <2>1, NeverCreatedAgain
<1>3. \A w \in Workers : plan'[w] # NoOne => loop'[w] = "recover"
  BY <1>0, <1>1 DEF IInv, PlanShape
<1>. QED  BY <1>2, <1>3 DEF PlanShape

\* The invariant is kept when nothing happens, and by every step but a resume that
\* continues the run in the server itself.
LEMMA NextIInv ==
  ASSUME OneServer, IInv, [Next]_vars, \A p \in Procs : ~ResumeHere(p)
  PROVE  IInv'
<1>1. CASE UNCHANGED vars
  <2>1. TypeOK' /\ PlanShape'
    BY <1>1, Zenon DEF vars, row, lease, procs, IInv, TypeOK, PlanShape
  <2>2. Shape'
    BY <1>1, FewerMachines, Zenon DEF vars, row, lease, procs, IInv, MachineShape
  <2>. QED  BY <2>1, <2>2, Zenon DEF IInv, Shape
<1>2. CASE Next
  <2>1. PlanShape'
    BY <1>2, PlanKept
  <2>2. CASE Execution
    <3>1. TypeOK' /\ Shape'
      BY <2>2, ExecutionTyping, ExecutionShape DEF Execution, IInv
    <3>. QED  BY <2>1, <3>1 DEF IInv, Shape
  <2>3. CASE WorkerLoop
    <3>1. TypeOK' /\ Shape'
      BY <2>3, WorkerTyping, WorkerShape DEF WorkerLoop, IInv
    <3>. QED  BY <2>1, <3>1 DEF IInv, Shape
  <2>4. CASE Resume
    <3>1. TypeOK' /\ Shape'
      BY <2>4, ResumeTyping, ResumeShape, Zenon DEF Resume, IInv
    <3>. QED  BY <2>1, <3>1 DEF IInv, Shape
  <2>5. CASE Local
    <3>1. TypeOK' /\ Shape'
      BY <2>5, LocalTyping, LocalShape DEF IInv
    <3>. QED  BY <2>1, <3>1 DEF IInv, Shape
  <2>. QED  BY <1>2, <2>2, <2>3, <2>4, <2>5 DEF Next
<1>. QED  BY <1>1, <1>2

\* the pool does not execute resumed runs in the server
LEMMA PoolDefers ==
  ASSUME PoolDeployment
  PROVE  OneServer /\ \A p \in Procs : ~ResumeHere(p)
BY BoundAssumption DEF ResumeHere, InProcess, PoolDeployment, OneServer

\* In the worker pool a lease is carried only by runs that are being executed or have
\* ended, at most one execution of a run can commit, and that execution sees the
\* status it left (queue.py, worker.py, database.fenced).
THEOREM PoolSafety ==
  ASSUME PoolDeployment
  PROVE  Spec => [](TypeOK /\ LeaseMatchesStatus /\ OneWriter /\ MachineKnowsStatus)
<1>1. IInv /\ [Next]_vars => IInv'
  BY NextIInv, PoolDefers
<1>2. IInv => TypeOK /\ LeaseMatchesStatus /\ OneWriter /\ MachineKnowsStatus
  BY DEF IInv
<1>. QED  BY InitIInv, <1>1, <1>2, PTL DEF Spec

\* A run that waits to be claimed or resumed carries no lease, for any number of runs,
\* workers and API clients of the pool (queue.enqueue, claim, recovery).
THEOREM WaitingRunsAreUnleased ==
  ASSUME PoolDeployment
  PROVE  Spec => []LeaseMatchesStatus
BY PoolSafety, PTL

\* An execution that can still commit finds the status it left: nobody else moves a run
\* under a live fence, so _move skips no change as illegal (state_machine._move).
THEOREM WritersKnowTheStatus ==
  ASSUME PoolDeployment
  PROVE  Spec => []MachineKnowsStatus
BY PoolSafety, PTL
-----------------------------------------------------------------------------
(***************************************************************************)
(* One server that executes runs itself: no lease and no fence keeps two   *)
(* executions apart, only what the process knows of its own tasks.         *)
(***************************************************************************)
\* a run whose resume is planned is executed by nobody, until the plan is carried out
PlansAlone ==
  \A p \in Servers : plan[p] # NoOne => up[p] /\ \A x \in machines : x.run # plan[p].run

\* without workers every execution is the server's, and no run is leased
LEMMA ServerShape ==
  ASSUME ServerDeployment, IInv
  PROVE  /\ Procs = Servers /\ Locals = Servers
         /\ \A x \in machines : x.epoch = 0 /\ x.proc \in Servers /\ x.run \in Runs /\ Fence(x)
         /\ \A r \in Runs : lease_owner[r] = NoOne
<1>1. Procs = Servers /\ Locals = Servers
  BY DEF ServerDeployment, OneServer, Procs, Locals
<1>2. \A x \in machines : x.epoch = 0 /\ x.proc \in Servers
  BY Zenon DEF ServerDeployment, IInv, MachineShape
<1>3. \A x \in machines : x.run \in Runs
  BY DEF IInv, TypeOK, Machine
<1>4. \A r \in Runs : lease_owner[r] = NoOne
  BY DEF ServerDeployment, IInv, TypeOK
<1>. QED  BY <1>1, <1>2, <1>3, <1>4, Zenon DEF Fence

\* resume(defer=False): the planned run has no execution, so it gets its only one
LEMMA ResumedAlone ==
  ASSUME ServerDeployment, IInv, PlansAlone, NEW p \in Procs, ResumeHere(p)
  PROVE  Shape'
<1> DEFINE r == plan[p].run
           y == [proc |-> p, run |-> r, epoch |-> 0, attempt |-> plan[p].attempt, mode |-> "run"]
<1>1. /\ plan[p] # NoOne /\ status' = [status EXCEPT ![r] = "running"]
      /\ log' = [log EXCEPT ![r] = Recorded(r, plan[p].attempt)]
      /\ machines' = machines \cup {y} /\ UNCHANGED <<lease, up>>
  BY Zenon DEF ResumeHere, Planned, Resumed
<1>2. r \in Runs /\ p \in Servers
  BY <1>1, ServerShape, Zenon DEF IInv, TypeOK, Plan
<1>3. y.proc = p /\ y.run = r /\ y.epoch = 0 /\ y.mode = "run"
  BY Zenon
<1>4. Recorded(r, plan[p].attempt).epoch = log[r].epoch
  BY Zenon DEF Recorded, Authored
<1>5. up[p] /\ \A x \in machines : x.run # r
  BY <1>1, <1>2, Zenon DEF PlansAlone
<1> HIDE DEF r, y
<1>6. \A q \in Runs : status'[q] = IF q = r THEN "running" ELSE status[q]
  BY <1>1, <1>2, Zenon DEF IInv, TypeOK
<1>7. \A q \in Runs : lease_owner'[q] = NoOne /\ log'[q].epoch = lease_epoch'[q]
  BY <1>1, <1>2, <1>4, ServerShape, Zenon DEF IInv, TypeOK, LogShape, lease
<1>8. LeaseMatchesStatus' /\ LogShape' /\ ClaimShape'
  BY <1>7, Zenon DEF LeaseMatchesStatus, LogShape, ClaimShape, ServerDeployment
<1>9. OneWriter'
  <2>1. \A x, z \in machines : x.run = z.run => x = z
    BY ServerShape, Zenon DEF IInv, OneWriter
  <2>. QED  BY <1>1, <1>3, <1>5, <2>1, Zenon DEF OneWriter
<1>10. OnePerWorker' /\ MachineShape'
  BY <1>1, <1>2, <1>3, <1>5, <1>7, ServerShape, Zenon DEF OnePerWorker, MachineShape, IInv
<1>11. MachineKnowsStatus'
  <2>1. \A x \in machines : status'[x.run] \in StatusesOf[x.mode]
    BY <1>5, <1>6, ServerShape, Zenon DEF IInv, MachineKnowsStatus
  <2>2. status'[y.run] \in StatusesOf[y.mode]
    BY <1>2, <1>3, <1>6, BelievedStatus, Zenon
  <2>. QED  BY <1>1, <2>1, <2>2, Zenon DEF MachineKnowsStatus
<1>. QED  BY <1>8, <1>9, <1>10, <1>11 DEF Shape

\* the server does nothing else while it resumes, so nothing begins to execute the run
LEMMA PlansAloneNext ==
  ASSUME ServerDeployment, IInv, PlansAlone, [Next]_vars
  PROVE  PlansAlone'
<1>0. /\ Procs = Servers /\ Locals = Servers /\ Workers = {} /\ Clis = {} /\ ~QueueMode
      /\ \A p, q \in Servers : p = q
      /\ \A x \in machines : x.proc \in Servers
      /\ plan \in [Servers -> Plan \cup {NoOne}] /\ up \in [Servers -> BOOLEAN]
  BY ServerShape, Zenon DEF ServerDeployment, OneServer, IInv, TypeOK
<1>1. CASE UNCHANGED vars
  BY <1>1, Zenon DEF vars, procs, PlansAlone
<1>2. CASE Execution
  <2>1. PICK x \in machines : /\ plan' = plan /\ up' = up
                              /\ machines' \subseteq machines \/ \E m : Becomes(x, m)
    BY <1>2, ZenonT(30) DEF Execution, Begin, Emit, RequestApproval, ApprovalResolved, Cancel, Finish, LastEvent,
         LeaseLost, TaskRaises, Executing, procs
  <2>2. \A m : [x EXCEPT !.mode = m].run = x.run
    BY DEF IInv, TypeOK, Machine
  <2>3. \A z \in machines' : \E u \in machines : u.run = z.run
    BY <2>1, <2>2, Zenon DEF Becomes
  <2>4. ASSUME NEW p \in Servers, plan[p] # NoOne PROVE \A z \in machines' : z.run # plan[p].run
    BY <2>3, <2>4, Zenon DEF PlansAlone
  <2>. QED  BY <2>1, <2>4, Zenon DEF PlansAlone
<1>3. CASE WorkerLoop
  BY <1>0, <1>3, Zenon DEF WorkerLoop
<1>4. ASSUME NEW p \in Servers, NEW r \in Runs, PlanResume(p, r)
      PROVE  PlansAlone'
  <2>1. up[p] /\ \A x \in machines : x.run # r
    BY <1>0, <1>4, Zenon DEF PlanResume, MayPlan, HasMachine
  <2>2. plan'[p] = [run |-> r, attempt |-> 0] /\ UNCHANGED <<machines, up>>
    BY <1>0, <1>4, Zenon DEF PlanResume
  <2>3. plan'[p].run = r
    BY <2>2
  <2>. QED  BY <1>0, <2>1, <2>2, <2>3, Zenon DEF PlansAlone
<1>5. ASSUME NEW p \in Servers, ReadAttempt(p)
      PROVE  PlansAlone'
  <2>1. plan[p] \in Plan /\ plan[p] # NoOne /\ UNCHANGED <<machines, up>>
        /\ plan'[p] = [plan[p] EXCEPT !.attempt = attempt[plan[p].run] + 1]
    BY <1>0, <1>5, Zenon DEF ReadAttempt
  <2>2. plan'[p].run = plan[p].run
    BY <2>1 DEF Plan
  <2>. QED  BY <1>0, <2>1, <2>2, Zenon DEF PlansAlone
<1>6. ASSUME NEW p \in Servers, ResumeDeferred(p) \/ ResumeHere(p) \/ ResumeRefused(p)
      PROVE  PlansAlone'
  <2>1. plan' = [plan EXCEPT ![p] = NoOne]
    BY <1>6, Zenon DEF ResumeDeferred, ResumeHere, ResumeRefused, Resumed
  <2>. QED  BY <1>0, <2>1, Zenon DEF PlansAlone
<1>7. CASE Local
  <2>1. ASSUME NEW p \in Servers, KillLocal(p) PROVE PlansAlone'
    BY <1>0, <2>1, Zenon DEF KillLocal, PlansAlone
  <2>2. ASSUME NEW p \in Servers, NEW r \in Runs, Launch(p, r) PROVE PlansAlone'
    BY <1>0, <2>2, Zenon DEF Launch, PlansAlone, procs
  <2>3. ASSUME NEW p \in Servers, StartServer(p) PROVE PlansAlone'
    BY <1>0, <2>3, Zenon DEF StartServer, PlansAlone
  <2>4. ASSUME NEW r \in Runs, Enqueue(r) \/ Expire(r) PROVE PlansAlone'
    BY <2>4, Zenon DEF Enqueue, Expire, PlansAlone, procs
  <2>. QED  BY <1>0, <1>7, <2>1, <2>2, <2>3, <2>4, Zenon DEF Local
<1>. QED  BY <1>0, <1>1, <1>2, <1>3, <1>4, <1>5, <1>6, <1>7, Zenon DEF Next, Resume

\* In a server without a queue no two tasks ever execute one run, and the one there is
\* finds the status it left, however often the server dies, interrupts what it finds at
\* its start and resumes it (TaskService.launch and resume, recovery.py).
THEOREM OneExecutionPerRun ==
  ASSUME ServerDeployment
  PROVE  Spec => [](OneWriter /\ MachineKnowsStatus)
<1>1. Init => IInv /\ PlansAlone
  <2>1. Init => PlansAlone
    BY Zenon DEF Init, PlansAlone, Procs, Locals
  <2>. QED  BY <2>1, InitIInv
<1>2. IInv /\ PlansAlone /\ [Next]_vars => (IInv /\ PlansAlone)'
  <2> SUFFICES ASSUME IInv, PlansAlone, [Next]_vars PROVE IInv'
    BY PlansAloneNext, Zenon
  <2>1. CASE \A p \in Procs : ~ResumeHere(p)
    BY <2>1, NextIInv, Zenon DEF ServerDeployment
  <2>2. ASSUME NEW p \in Procs, ResumeHere(p) PROVE IInv'
    <3>1. TypeOK' /\ Shape'
      BY <2>2, ResumeTyping, ResumedAlone, Zenon DEF IInv
    <3>2. PlanShape'
      BY <2>2, PlanKept, Zenon DEF Next, Resume
    <3>. QED  BY <3>1, <3>2, Zenon DEF IInv, Shape
  <2>. QED  BY <2>1, <2>2, Zenon
<1>3. IInv => OneWriter /\ MachineKnowsStatus
  BY DEF IInv
<1>. QED  BY <1>1, <1>2, <1>3, PTL DEF Spec
-----------------------------------------------------------------------------
(***************************************************************************)
(* The pool implements RunOwnership.                                       *)
(***************************************************************************)
\* A step that moves no lease, leaves the author of every history alone and ends only
\* runs nobody holds.
LEMMA QuietStep ==
  ASSUME TypeOK', UNCHANGED <<lease_owner, lease_epoch>>,
         \A r \in Runs : log'[r].author = log[r].author /\ log'[r].epoch = log[r].epoch,
         \A r \in Runs : \/ status'[r] \in TERMINAL <=> status[r] \in TERMINAL
                         \/ status'[r] \in TERMINAL /\ lease_owner[r] = NoOne
  PROVE  Ownership!FinishUnheld
<1>1. /\ [r \in Runs |-> log[r].author]' = [r \in Runs |-> log[r].author]
      /\ [r \in Runs |-> log[r].epoch]' = [r \in Runs |-> log[r].epoch]
  OBVIOUS
<1>2. [r \in Runs |-> status[r] \in TERMINAL]' \in [Runs -> BOOLEAN]
  OBVIOUS
<1>3. ASSUME NEW r \in Runs,
             ([q \in Runs |-> status[q] \in TERMINAL]')[r] # [q \in Runs |-> status[q] \in TERMINAL][r]
      PROVE  ([q \in Runs |-> status[q] \in TERMINAL]')[r] /\ lease_owner[r] = NoOne
  <2>1. ([q \in Runs |-> status[q] \in TERMINAL]')[r] = (status'[r] \in TERMINAL)
    BY Zenon
  <2>2. [q \in Runs |-> status[q] \in TERMINAL][r] = (status[r] \in TERMINAL)
    BY Zenon
  <2>3. ~(status'[r] \in TERMINAL <=> status[r] \in TERMINAL)
    BY <1>3, <2>1, <2>2
  <2>. QED  BY <2>1, <2>3, ZenonT(60)
<1>. QED  BY <1>1, <1>2, <1>3, Zenon DEF Ownership!FinishUnheld

\* A transaction of an execution that may commit is a write by the holder of the
\* lease, or happens outside the pool (database.fenced).
LEMMA ExecutionWrites ==
  ASSUME IInv, TypeOK', NEW x \in machines, Fence(x), UNCHANGED lease,
         log' = log \/ log' = [log EXCEPT ![x.run] = Wrote(x)],
         \A r \in Runs \ {x.run} : status'[r] = status[r],
         status[x.run] \in TERMINAL => status'[x.run] \in TERMINAL
  PROVE  Ownership!FinishUnheld \/ Ownership!Write(x.run)
<1>0. x.run \in Runs /\ x.epoch \in Nat
  BY Zenon DEF IInv, TypeOK, Machine
<1>2. CASE x.epoch = 0
  <2>1. lease_owner[x.run] = NoOne
    BY <1>2 DEF IInv, MachineShape
  <2>2. \A r \in Runs : log'[r].author = log[r].author /\ log'[r].epoch = log[r].epoch
    <3>1. Wrote(x).epoch = log[x.run].epoch /\ Wrote(x).author = log[x.run].author
      BY <1>2, WroteTyping, Zenon DEF IInv
    <3>2. DOMAIN log = Runs
      BY Zenon DEF IInv, TypeOK
    <3>. QED  BY <1>0, <3>1, <3>2, Zenon
  <2>3. \A r \in Runs : \/ status'[r] \in TERMINAL <=> status[r] \in TERMINAL
                        \/ status'[r] \in TERMINAL /\ lease_owner[r] = NoOne
    BY <1>0, <2>1, Zenon
  <2>. QED  BY <2>2, <2>3, QuietStep, Zenon DEF lease
<1>3. CASE x.epoch # 0
  <2>1. lease_owner[x.run] = x.proc /\ lease_epoch[x.run] = x.epoch /\ x.proc # NoOne
    BY <1>3, ProcAssumption, Zenon DEF Fence, IInv, MachineShape, Procs
  <2>2. Wrote(x).author = lease_owner[x.run] /\ Wrote(x).epoch = lease_epoch[x.run]
    BY <1>3, <2>1, WroteTyping, Zenon DEF IInv
  <2>3. log[x.run].author = lease_owner[x.run] /\ log[x.run].epoch = lease_epoch[x.run]
    BY <1>0, <2>1, Zenon DEF IInv, LogShape
  <2>4. \A r \in Runs : log'[r].author = log[r].author /\ log'[r].epoch = log[r].epoch
    BY <1>0, <2>2, <2>3, Zenon DEF IInv, TypeOK
  <2>5. /\ [r \in Runs |-> log[r].author]' = [[r \in Runs |-> log[r].author] EXCEPT ![x.run] = lease_owner[x.run]]
        /\ [r \in Runs |-> log[r].epoch]' = [[r \in Runs |-> log[r].epoch] EXCEPT ![x.run] = lease_epoch[x.run]]
    BY <1>0, <2>3, <2>4, Zenon
  <2>6. \E f \in {status[x.run] \in TERMINAL, TRUE} :
          [r \in Runs |-> status[r] \in TERMINAL]' = [[r \in Runs |-> status[r] \in TERMINAL] EXCEPT ![x.run] = f]
    <3>1. CASE status'[x.run] \in TERMINAL
      <4>1. [r \in Runs |-> status[r] \in TERMINAL]' = [[r \in Runs |-> status[r] \in TERMINAL] EXCEPT ![x.run] = TRUE]
        BY <1>0, <3>1, ZenonT(60)
      <4>. QED  BY <4>1
    <3>2. CASE status'[x.run] \notin TERMINAL
      <4>1. [r \in Runs |-> status[r] \in TERMINAL]'
              = [[r \in Runs |-> status[r] \in TERMINAL] EXCEPT ![x.run] = (status[x.run] \in TERMINAL)]
        BY <1>0, <3>2
      <4>. QED  BY <4>1
    <3>. QED  BY <3>1, <3>2, Zenon
  <2>7. Ownership!Write(x.run)
    BY <1>0, <2>1, <2>5, <2>6, Zenon DEF Ownership!Write, Ownership!MayFinish, lease
  <2>. QED  BY <2>7, Zenon
<1>. QED  BY <1>2, <1>3, Zenon

\* The lease of a run is cleared: its holder gives it back or loses it (queue.claim,
\* queue.release).
LEMMA DropStep ==
  ASSUME TypeOK, NEW r \in Runs, lease_owner[r] # NoOne, UNCHANGED lease_epoch,
         lease_owner' = [lease_owner EXCEPT ![r] = NoOne],
         \A q \in Runs : log'[q].author = log[q].author /\ log'[q].epoch = log[q].epoch,
         \A q \in Runs \ {r} : status'[q] = status[q],
         status[r] \in TERMINAL => status'[r] \in TERMINAL
  PROVE  Ownership!Drop(r)
<1>1. /\ [q \in Runs |-> log[q].author]' = [q \in Runs |-> log[q].author]
      /\ [q \in Runs |-> log[q].epoch]' = [q \in Runs |-> log[q].epoch]
  OBVIOUS
<1>2. \E f \in {status[r] \in TERMINAL, TRUE} :
        [q \in Runs |-> status[q] \in TERMINAL]' = [[q \in Runs |-> status[q] \in TERMINAL] EXCEPT ![r] = f]
  <2>1. CASE status'[r] \in TERMINAL
    <3>1. [q \in Runs |-> status[q] \in TERMINAL]' = [[q \in Runs |-> status[q] \in TERMINAL] EXCEPT ![r] = TRUE]
      BY <2>1, ZenonT(60)
    <3>. QED  BY <3>1
  <2>2. CASE status'[r] \notin TERMINAL
    <3>1. [q \in Runs |-> status[q] \in TERMINAL]'
            = [[q \in Runs |-> status[q] \in TERMINAL] EXCEPT ![r] = (status[r] \in TERMINAL)]
      BY <2>2
    <3>. QED  BY <3>1
  <2>. QED  BY <2>1, <2>2, Zenon
<1>. QED  BY <1>1, <1>2, ZenonT(60) DEF Ownership!Drop, Ownership!MayFinish

\* Every step of the pool is a step of the abstract ownership, or leaves it alone.
LEMMA StepRefines ==
  ASSUME PoolDeployment, IInv, IInv', [Next]_vars
  PROVE  Ownership!Next \/ UNCHANGED Ownership!vars
<1> USE DEF Ownership!Next
<1>0. TypeOK /\ TypeOK'
  BY DEF IInv
<1>1. ASSUME UNCHANGED <<lease_owner, lease_epoch, log, status>>
      PROVE  UNCHANGED Ownership!vars
  BY <1>1 DEF Ownership!vars
<1>2. CASE UNCHANGED vars
  BY <1>1, <1>2 DEF vars, row, lease
<1>3. CASE Execution
  <2>1. PICK x \in machines :
          \/ Begin(x) \/ Emit(x) \/ RequestApproval(x) \/ ApprovalResolved(x) \/ Cancel(x)
          \/ Finish(x) \/ LastEvent(x) \/ LeaseLost(x) \/ TaskRaises(x)
    BY <1>3 DEF Execution
  <2>2. CASE LeaseLost(x) \/ TaskRaises(x)
    BY <1>1, <2>2 DEF LeaseLost, TaskRaises, row, lease
  <2>3. CASE ~LeaseLost(x) /\ ~TaskRaises(x)
    <3>0. x.run \in Runs
      BY Zenon DEF IInv, TypeOK, Machine
    <3>1. Fence(x) /\ UNCHANGED lease
      BY <2>1, <2>3, Zenon DEF Begin, Emit, RequestApproval, ApprovalResolved, Cancel, Finish, LastEvent, Executing, MayStep
    <3>2. \/ \E t \in RunStatus : Move(x, t)
          \/ UNCHANGED status /\ log' = [log EXCEPT ![x.run] = Wrote(x)]
      BY <2>1, <2>3, Zenon DEF Begin, Emit, RequestApproval, ApprovalResolved, Cancel, Finish, LastEvent, RunStatus
    <3>3. /\ log' = log \/ log' = [log EXCEPT ![x.run] = Wrote(x)]
          /\ \A r \in Runs \ {x.run} : status'[r] = status[r]
      BY <1>0, <3>2, Zenon DEF Move, TypeOK
    <3>5. status[x.run] \in TERMINAL => status'[x.run] \in TERMINAL
      BY <1>0, <3>0, <3>2, TerminalStays, Zenon DEF Move, TypeOK
    <3>4. Ownership!FinishUnheld \/ Ownership!Write(x.run)
      BY <1>0, <3>1, <3>3, <3>5, ExecutionWrites, Zenon
    <3>. QED  BY <3>0, <3>4
  <2>. QED  BY <2>1, <2>2, <2>3
<1>4. ASSUME NEW w \in Workers,
             \/ Claim(w) \/ StartClaimed(w) \/ RecoveryBlocked(w) \/ Heartbeat(w)
             \/ Release(w) \/ LoopRaises(w) \/ StopWorker(w) \/ StartWorker(w)
      PROVE  Ownership!Next \/ UNCHANGED Ownership!vars
  <2>0. w # NoOne
    BY ProcAssumption DEF Procs
  <2>1. ASSUME NEW r \in Runs, ClaimStart(w, r)
        PROVE  Ownership!Acquire(w, r)
    <3>1. status[r] = "queued" /\ lease_owner[r] = NoOne /\ status[r] \notin TERMINAL
      BY <2>1, TerminalStatuses, Zenon DEF ClaimStart, OldestQueued, IInv, LeaseMatchesStatus, LIVE
    <3>2. /\ Authored(r, attempt[r], w, lease_epoch[r] + 1).author = w
          /\ Authored(r, attempt[r], w, lease_epoch[r] + 1).epoch = lease_epoch[r] + 1
      BY DEF Authored
    <3>3. /\ lease_owner' = [lease_owner EXCEPT ![r] = w] /\ lease_epoch' = [lease_epoch EXCEPT ![r] = lease_epoch[r] + 1]
          /\ status' = [status EXCEPT ![r] = "running"]
          /\ log' = [log EXCEPT ![r] = Authored(r, attempt[r], w, lease_epoch[r] + 1)]
      BY <2>1 DEF ClaimStart
    <3>4. /\ [q \in Runs |-> log[q].author]' = [[q \in Runs |-> log[q].author] EXCEPT ![r] = w]
          /\ [q \in Runs |-> log[q].epoch]' = [[q \in Runs |-> log[q].epoch] EXCEPT ![r] = lease_epoch[r] + 1]
      BY <1>0, <3>2, <3>3, Zenon DEF TypeOK
    <3>5. \A q \in Runs : status'[q] \in TERMINAL <=> status[q] \in TERMINAL
      BY <1>0, <3>1, <3>3, TerminalStatuses, ZenonT(30) DEF TypeOK
    <3>6. [q \in Runs |-> status[q] \in TERMINAL]' = [q \in Runs |-> status[q] \in TERMINAL]
      BY <3>5
    <3>. QED  BY <3>1, <3>3, <3>4, <3>6, Zenon DEF Ownership!Acquire
  <2>2. ASSUME NEW r \in Runs, ClaimRecover(w, r)
        PROVE  Ownership!Drop(r)
    <3>1. /\ lease_owner[r] # NoOne /\ lease_owner' = [lease_owner EXCEPT ![r] = NoOne] /\ UNCHANGED lease_epoch
          /\ log' = [log EXCEPT ![r] = Recorded(r, attempt[r])] /\ status[r] \in LIVE
          /\ status' = [status EXCEPT ![r] = AfterLoss(status[r])]
      BY <2>2, ZenonT(30) DEF ClaimRecover, ClearLease
    <3>2. Recorded(r, attempt[r]).author = log[r].author /\ Recorded(r, attempt[r]).epoch = log[r].epoch
      BY Zenon DEF Recorded, Authored
    <3>3. \A q \in Runs : log'[q].author = log[q].author /\ log'[q].epoch = log[q].epoch
      BY <1>0, <3>1, <3>2 DEF TypeOK
    <3>4. status[r] \notin TERMINAL
      BY <3>1, TerminalStatuses, Zenon DEF LIVE
    <3>. QED  BY <1>0, <3>1, <3>3, <3>4, DropStep, ZenonT(60) DEF TypeOK
  <2>3. CASE StartClaimed(w) \/ RecoveryBlocked(w) \/ LoopRaises(w) \/ StopWorker(w) \/ StartWorker(w)
    BY <1>1, <2>3, ZenonT(30) DEF StartClaimed, RecoveryBlocked, LoopRaises, StopWorker, StartWorker, row, lease
  <2>4. CASE Heartbeat(w)
    BY <1>1, <2>4, Zenon DEF Heartbeat, row
  <2>5. CASE Release(w)
    <3>1. CASE Holds(w) /\ held[w].run \in Runs
      <4>0. PICK r \in Runs : r = held[w].run
        BY <3>1, Zenon
      <4>1. UNCHANGED <<status, log, lease_epoch>> /\ lease_owner' = [lease_owner EXCEPT ![r] = NoOne]
        BY <2>5, <3>1, <4>0, Zenon DEF Release, ClearLease, row
      <4>2. Ownership!Drop(r)
        BY <1>0, <2>0, <3>1, <4>0, <4>1, DropStep, ZenonT(60) DEF Holds
      <4>. QED  BY <4>2
    <3>2. CASE ~(Holds(w) /\ held[w].run \in Runs)
      <4>1. /\ UNCHANGED <<status, log, lease_epoch>>
            /\ \/ lease_owner' = lease_owner
               \/ lease_owner' = [lease_owner EXCEPT ![held[w].run] = NoOne] /\ held[w].run \notin Runs
        BY <2>5, <3>2 DEF Release, ClearLease, row, lease
      <4>2. lease_owner' = lease_owner
        BY <1>0, <4>1 DEF TypeOK
      <4>. QED  BY <1>1, <4>1, <4>2, Zenon
    <3>. QED  BY <3>1, <3>2
  <2>. QED  BY <1>4, <2>1, <2>2, <2>3, <2>4, <2>5 DEF Claim
<1>5. ASSUME NEW p \in Procs,
             \/ \E r \in Runs : PlanResume(p, r)
             \/ ReadAttempt(p) \/ ResumeDeferred(p) \/ ResumeHere(p) \/ ResumeRefused(p)
      PROVE  Ownership!Next \/ UNCHANGED Ownership!vars
  <2>1. CASE (\E r \in Runs : PlanResume(p, r)) \/ ReadAttempt(p) \/ ResumeRefused(p)
    BY <1>1, <2>1, Zenon DEF PlanResume, ReadAttempt, ResumeRefused, row, lease
  <2>2. CASE ResumeHere(p)
    BY <2>2, PoolDefers, Zenon
  <2>3. CASE ResumeDeferred(p)
    <3>1. PICK r \in Runs : r = plan[p].run
      BY <2>3, Zenon DEF ResumeDeferred, Planned, IInv, TypeOK, Plan
    <3>2. /\ can_transition(status[r], "queued") /\ status' = [status EXCEPT ![r] = "queued"]
          /\ lease_owner' = [lease_owner EXCEPT ![r] = NoOne] /\ lease_epoch' = lease_epoch
          /\ log' = [log EXCEPT ![r] = Requeued(r, plan[p].attempt)]
      BY <2>3, <3>1, Zenon DEF ResumeDeferred, ClearLease
    <3>3. status[r] \in {"created", "interrupted"}
      BY <1>0, <3>2, QueuedFrom, ZenonT(30) DEF TypeOK
    <3>4. Requeued(r, plan[p].attempt).author = log[r].author /\ Requeued(r, plan[p].attempt).epoch = log[r].epoch
      BY DEF Requeued
    <3>5. lease_owner[r] = NoOne
      BY <3>3, TerminalStatuses, ZenonT(30) DEF IInv, LeaseMatchesStatus, LIVE
    <3>6. UNCHANGED <<lease_owner, lease_epoch>>
      BY <1>0, <3>2, <3>5, ZenonT(30) DEF TypeOK
    <3>7. \A q \in Runs : log'[q].author = log[q].author /\ log'[q].epoch = log[q].epoch
      BY <1>0, <3>2, <3>4, ZenonT(30) DEF TypeOK
    <3>8. \A q \in Runs : status'[q] \in TERMINAL <=> status[q] \in TERMINAL
      BY <1>0, <3>2, <3>3, TerminalStatuses, ZenonT(30) DEF TypeOK
    <3>9. Ownership!FinishUnheld
      BY <1>0, <3>6, <3>7, <3>8, QuietStep, Zenon
    <3>. QED  BY <3>9, Zenon
  <2>. QED  BY <1>5, <2>1, <2>2, <2>3
<1>6. CASE Local
  <2>1. ASSUME NEW r \in Runs, Enqueue(r)
        PROVE  Ownership!FinishUnheld
    <3>1. /\ status[r] = "created" /\ status' = [status EXCEPT ![r] = "queued"]
          /\ lease_owner' = [lease_owner EXCEPT ![r] = NoOne] /\ lease_epoch' = lease_epoch
          /\ log' = [log EXCEPT ![r] = Recorded(r, 1)]
      BY <2>1 DEF Enqueue, Unstarted, ClearLease
    <3>2. Recorded(r, 1).author = log[r].author /\ Recorded(r, 1).epoch = log[r].epoch
      BY DEF Recorded, Authored
    <3>3. lease_owner[r] = NoOne
      BY <3>1, TerminalStatuses, Zenon DEF IInv, LeaseMatchesStatus, LIVE
    <3>4. UNCHANGED <<lease_owner, lease_epoch>>
      BY <1>0, <3>1, <3>3, ZenonT(30) DEF TypeOK
    <3>5. \A q \in Runs : log'[q].author = log[q].author /\ log'[q].epoch = log[q].epoch
      BY <1>0, <3>1, <3>2, ZenonT(30) DEF TypeOK
    <3>6. \A q \in Runs : status'[q] \in TERMINAL <=> status[q] \in TERMINAL
      BY <1>0, <3>1, TerminalStatuses, Zenon DEF TypeOK
    <3>. QED  BY <1>0, <3>4, <3>5, <3>6, QuietStep
  <2>2. ASSUME NEW r \in Runs, Expire(r)
        PROVE  UNCHANGED Ownership!vars
    BY <1>1, <2>2 DEF Expire, row
  <2>3. ASSUME NEW p \in Locals, KillLocal(p)
        PROVE  UNCHANGED Ownership!vars
    BY <1>1, <2>3, Zenon DEF KillLocal, row, lease
  <2>4. ASSUME NEW p \in Locals, NEW r \in Runs, Launch(p, r)
        PROVE  UNCHANGED Ownership!vars
    BY <1>1, <2>4, Zenon DEF Launch, row, lease
  <2>5. ASSUME NEW p \in Servers, StartServer(p)
        PROVE  Ownership!FinishUnheld
    <3>1. /\ UNCHANGED <<lease_owner, lease_epoch>>
          /\ \A r \in Runs : \/ status'[r] = status[r] /\ log'[r] = log[r]
                             \/ /\ status[r] \in LIVE /\ lease_owner[r] = NoOne
                                /\ log'[r] = Recorded(r, attempt[r])
      BY <2>5, ZenonT(30) DEF StartServer, lease
    <3>2. \A r \in Runs : /\ Recorded(r, attempt[r]).author = log[r].author
                          /\ Recorded(r, attempt[r]).epoch = log[r].epoch
      BY ZenonT(30) DEF Recorded, Authored
    <3>3. \A q \in Runs : log'[q].author = log[q].author /\ log'[q].epoch = log[q].epoch
      BY <3>1, <3>2, Zenon
    <3>4. \A r \in Runs : \/ status'[r] \in TERMINAL <=> status[r] \in TERMINAL
                          \/ status'[r] \in TERMINAL /\ lease_owner[r] = NoOne
      BY <3>1, TerminalStatuses, Zenon DEF LIVE
    <3>. QED  BY <1>0, <3>1, <3>3, <3>4, QuietStep, ZenonT(30)
  <2>. QED  BY <1>6, <2>1, <2>2, <2>3, <2>4, <2>5, Zenon DEF Local, PoolDeployment, OneServer
<1>. QED  BY <1>2, <1>3, <1>4, <1>5, <1>6 DEF Next, WorkerLoop, Resume

\* The initial state of the pool is one of the abstract ownership.
LEMMA InitRefines == Init => Ownership!Init
<1> SUFFICES ASSUME Init PROVE Ownership!Init
  OBVIOUS
<1>1. \A r \in Runs : log[r].author = NoOne /\ log[r].epoch = 0 /\ status[r] \notin TERMINAL
  BY TerminalStatuses DEF Init
<1>2. [r \in Runs |-> status[r] \in TERMINAL] \in [Runs -> BOOLEAN]
  OBVIOUS
<1>3. \A r \in Runs : ~ [q \in Runs |-> status[q] \in TERMINAL][r]
  BY <1>1, ZenonT(60)
<1>. QED  BY <1>1, <1>2, <1>3 DEF Init, Ownership!Init

\* The pool implements the abstract promise of a lease: only the present holder of a
\* run writes its history, every holder under an epoch of its own, and a finished run
\* stays finished and is not acquired again (queue.py, database.fenced).
THEOREM PoolImplementsOwnership ==
  ASSUME PoolDeployment
  PROVE  Spec => ImplementsOwnership
<1>1. IInv /\ [Next]_vars => IInv'
  BY NextIInv, PoolDefers
<1>2. IInv /\ IInv' /\ [Next]_vars => [Ownership!Next]_(Ownership!vars)
  BY StepRefines
<1>. QED  BY InitIInv, InitRefines, <1>1, <1>2, PTL DEF Spec, ImplementsOwnership, Ownership!Spec
=============================================================================
