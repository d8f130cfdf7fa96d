----------------------------- MODULE Approvals -----------------------------
(***************************************************************************)
(* How a command of a run gets a person's approval: the rows and grants of *)
(* persistence/approvals.py, the wait of RunStateMachine._request_approval *)
(* and the gate of RunStateMachine._exec around it.  Decisions arrive in   *)
(* the process that executes the run, which wakes it, or in another one    *)
(* (the command line), which only writes the row.                          *)
(***************************************************************************)
EXTENDS Naturals, TLAPS

CONSTANTS
  Requests,      \* approval ids
  Commands,
  Grantable,     \* commands whose effect is in GRANTABLE
  Blocked,       \* commands of RiskLevel.BLOCKED
  Denied,        \* commands whose effect the policy chain answers with DENY
  MaxCrashes     \* bound: executions of the run that die

VARIABLES
  status, decision, command, edited,  \* columns of approvals; edited is modified_command
  late,                               \* expires_at <= now
  grants,                             \* approval_grants of the run, by command
  pc, req, cmd,                       \* the task of the run: where it is, what it asks for
  event, result,                      \* _approval_events[req].is_set(), _approval_results[req]
  cancelled,                          \* _cancelled.is_set()
  crashes,
  ran, acted                          \* history: what was executed and why, outcomes acted on

rows == <<status, decision, command, edited, late, grants>>
machine == <<pc, req, cmd, event, result, cancelled>>
vars == <<rows, machine, crashes, ran, acted>>

APPROVING == {"APPROVE_ONCE", "APPROVE_FOR_RUN", "MODIFY"}
Decisions == APPROVING \cup {"DENY", "CANCEL_RUN"}
STATUS_FOR(d) ==
  CASE d \in APPROVING -> "approved" [] d = "DENY" -> "denied" [] OTHER -> "cancelled"

NoRequest == "none"
NoDecision == "none"
NoCommand == "none"

TypeOK ==
  /\ status \in [Requests -> {"new", "pending", "approved", "denied", "cancelled", "expired"}]
  /\ decision \in [Requests -> Decisions \cup {NoDecision}]
  /\ command \in [Requests -> Commands \cup {NoCommand}]
  /\ edited \in [Requests -> Commands \cup {NoCommand}]
  /\ late \in [Requests -> BOOLEAN]
  /\ grants \subseteq Commands
  /\ pc \in {"idle", "ask", "wait", "run", "dead", "ended"}
  /\ req \in Requests \cup {NoRequest} /\ cmd \in Commands \cup {NoCommand}
  /\ event \in BOOLEAN /\ result \in Decisions \cup {NoDecision} /\ cancelled \in BOOLEAN
  /\ crashes \in Nat
  /\ ran \subseteq [command: Commands, by: Requests \cup {NoRequest}]
  /\ acted \in [Requests -> Decisions \cup {NoDecision}]

Init ==
  /\ status = [q \in Requests |-> "new"] /\ decision = [q \in Requests |-> NoDecision]
  /\ command = [q \in Requests |-> NoCommand] /\ edited = [q \in Requests |-> NoCommand]
  /\ late = [q \in Requests |-> FALSE] /\ grants = {}
  /\ pc = "idle" /\ req = NoRequest /\ cmd = NoCommand
  /\ event = FALSE /\ result = NoDecision /\ cancelled = FALSE
  /\ crashes = 0 /\ ran = {} /\ acted = [q \in Requests |-> NoDecision]
-----------------------------------------------------------------------------
\* _exec for a command that must be asked about: refused outright, or has_grant is read
_exec(c) ==
  /\ pc = "idle" /\ ~cancelled /\ c \notin Blocked \cup Denied
  /\ cmd' = c
  /\ IF c \in grants THEN pc' = "run" /\ req' = NoRequest ELSE pc' = "ask" /\ req' = req
  /\ UNCHANGED <<rows, event, result, cancelled, crashes, ran, acted>>

request(q) ==
  /\ pc = "ask" /\ status[q] = "new"
  /\ status' = [status EXCEPT ![q] = "pending"] /\ command' = [command EXCEPT ![q] = cmd]
  /\ pc' = "wait" /\ req' = q /\ event' = FALSE /\ result' = NoDecision
  /\ UNCHANGED <<decision, edited, late, grants, cmd, cancelled, crashes, ran, acted>>

Allowed(q, d, m) ==
  /\ d = "APPROVE_FOR_RUN" => command[q] \in Grantable
  /\ m \in IF d = "MODIFY" THEN Commands ELSE {NoCommand}

Write(q, d, m) ==
  /\ status' = [status EXCEPT ![q] = STATUS_FOR(d)]
  /\ decision' = [decision EXCEPT ![q] = d] /\ edited' = [edited EXCEPT ![q] = m]
  /\ grants' = IF d = "APPROVE_FOR_RUN" THEN grants \cup {command[q]} ELSE grants
  /\ UNCHANGED <<command, late, pc, req, cmd, cancelled, crashes, ran, acted>>

\* mutant of decide: the row is not read again in the transaction that writes it
decide_over(q, d, m, here) ==
  /\ status[q] # "new" /\ ~late[q] /\ Allowed(q, d, m)
  /\ Write(q, d, m)
  /\ IF here /\ pc = "wait" /\ req = q
       THEN event' = TRUE /\ result' = d ELSE UNCHANGED <<event, result>>

\* mutant of decide: every decision to approve is remembered
decide_remembering(q, d, m, here) ==
  /\ status[q] = "pending" /\ ~late[q] /\ Allowed(q, d, m)
  /\ status' = [status EXCEPT ![q] = STATUS_FOR(d)]
  /\ decision' = [decision EXCEPT ![q] = d] /\ edited' = [edited EXCEPT ![q] = m]
  /\ grants' = IF d \in APPROVING THEN grants \cup {command[q]} ELSE grants
  /\ IF here /\ pc = "wait" /\ req = q
       THEN event' = TRUE /\ result' = d ELSE UNCHANGED <<event, result>>
  /\ UNCHANGED <<command, late, pc, req, cmd, cancelled, crashes, ran, acted>>

\* TaskService.decide in the process of the run (here) or in another; resolve_approval
\* stores a result only for the request the run waits on
decide(q, d, m, here) ==
  /\ status[q] = "pending" /\ ~late[q] /\ Allowed(q, d, m)
  /\ Write(q, d, m)
  /\ IF here /\ pc = "wait" /\ req = q
       THEN event' = TRUE /\ result' = d ELSE UNCHANGED <<event, result>>

\* expires_at of a request passes
Lapse(q) ==
  /\ status[q] # "new" /\ ~late[q] /\ late' = [late EXCEPT ![q] = TRUE]
  /\ UNCHANGED <<status, decision, command, edited, grants, machine, crashes, ran, acted>>

cancel ==
  /\ pc \notin {"dead", "ended"} /\ ~cancelled
  /\ cancelled' = TRUE /\ event' = TRUE
  /\ UNCHANGED <<rows, pc, req, cmd, result, crashes, ran, acted>>

\* the tail of _request_approval: the decision d of the request is acted on
Act(d) ==
  /\ acted' = [acted EXCEPT ![req] = d]
  /\ LET to_run == IF d = "MODIFY" THEN edited[req] ELSE cmd IN
       IF d \in APPROVING /\ to_run \notin Blocked
         THEN pc' = "run" /\ cmd' = to_run /\ req' = req
         ELSE pc' = "idle" /\ cmd' = NoCommand /\ req' = NoRequest
  /\ cancelled' = (cancelled \/ d = "CANCEL_RUN")
  /\ event' = FALSE /\ result' = NoDecision

\* the event was set, by a decision or by cancel
Woken ==
  /\ pc = "wait" /\ event
  /\ Act(IF cancelled \/ result = NoDecision THEN "DENY" ELSE result)
  /\ UNCHANGED <<rows, crashes, ran>>

\* mutant of TimedOut: what the row says by now is not looked at
TimedOutBlindly ==
  /\ pc = "wait" /\ late[req]
  /\ status' = IF status[req] = "pending" THEN [status EXCEPT ![req] = "expired"] ELSE status
  /\ Act("DENY")
  /\ UNCHANGED <<decision, command, edited, late, grants, crashes, ran>>

\* mutant of TimedOut: only a request that is still pending can time out
TimedOutIfPending ==
  /\ pc = "wait" /\ late[req] /\ status[req] = "pending"
  /\ status' = [status EXCEPT ![req] = "expired"]
  /\ Act("DENY")
  /\ UNCHANGED <<decision, command, edited, late, grants, crashes, ran>>

\* the timer: expire() and, when a decision landed first, _outcome_from_db
TimedOut ==
  /\ pc = "wait" /\ late[req]
  /\ status' = IF status[req] = "pending" THEN [status EXCEPT ![req] = "expired"] ELSE status
  /\ Act(IF cancelled \/ status[req] = "pending" THEN "DENY" ELSE decision[req])
  /\ UNCHANGED <<decision, command, edited, late, grants, crashes, ran>>

\* _run_in_runtime
Run ==
  /\ pc = "run" /\ ran' = ran \cup {[command |-> cmd, by |-> req]}
  /\ pc' = "idle" /\ req' = NoRequest /\ cmd' = NoCommand
  /\ UNCHANGED <<rows, event, result, cancelled, crashes, acted>>

\* _interruptible cancels the phase; a row that is pending stays so
Unwind ==
  /\ pc \in {"idle", "ask", "wait", "run"} /\ cancelled
  /\ pc' = "ended" /\ req' = NoRequest /\ cmd' = NoCommand /\ event' = FALSE /\ result' = NoDecision
  /\ UNCHANGED <<rows, cancelled, crashes, ran, acted>>

Crash ==
  /\ pc \notin {"dead", "ended"} /\ crashes < MaxCrashes /\ crashes' = crashes + 1
  /\ pc' = "dead" /\ req' = NoRequest /\ cmd' = NoCommand
  /\ event' = FALSE /\ result' = NoDecision /\ cancelled' = FALSE
  /\ UNCHANGED <<rows, ran, acted>>

\* a new machine for the run: nothing of the old wait is remembered, grants are
Resume ==
  /\ pc = "dead" /\ pc' = "idle"
  /\ UNCHANGED <<rows, req, cmd, event, result, cancelled, crashes, ran, acted>>

Next ==
  \/ \E c \in Commands : _exec(c)
  \/ \E q \in Requests : request(q) \/ Lapse(q)
  \/ \E q \in Requests, d \in Decisions, m \in Commands \cup {NoCommand}, here \in BOOLEAN :
       decide(q, d, m, here)
  \/ cancel \/ Woken \/ TimedOut \/ Run \/ Unwind \/ Crash \/ Resume

Spec == Init /\ [][Next]_vars
-----------------------------------------------------------------------------
\* Every command that ran was justified: by the approved row of its own request,
\* with the command that row names (the edit, for MODIFY, unless it is a blocked one),
\* or by a grant, which only an APPROVE_FOR_RUN of the same grantable command makes.
RanMeansApproved ==
  \A r \in ran :
    IF r.by # NoRequest
      THEN /\ status[r.by] = "approved"
           /\ r.command = IF decision[r.by] = "MODIFY" THEN edited[r.by] ELSE command[r.by]
           /\ r.command \notin Blocked
      ELSE \E q \in Requests : /\ decision[q] = "APPROVE_FOR_RUN" /\ command[q] = r.command
                               /\ r.command \in Grantable

\* The first answer stands: once a request is decided or expired, no later decision and
\* no timeout changes its row (the guarded UPDATEs of decide and expire).
AnswerStands ==
  \A q \in Requests :
    status[q] \notin {"new", "pending"}
      => <<status'[q], decision'[q], edited'[q]>> = <<status[q], decision[q], edited[q]>>
FirstAnswerStands == [][AnswerStands]_vars

\* The run acts on what the row says, whichever of decision, timeout and other process
\* came first: an approval or a CANCEL_RUN is the row's own, and a denial is the row's,
\* or its expiry, or the run was cancelled.
FollowsTheRow ==
  \A q \in Requests :
    (acted'[q] # acted[q])
      => IF acted'[q] = "DENY" THEN \/ status'[q] \in {"denied", "expired"} \/ cancelled
                               ELSE decision'[q] = acted'[q]
ActsOnTheRow == [][FollowsTheRow]_vars

\* A person is waited for at most approval_timeout_seconds: a wait ends.
Waits == pc = "wait"

\* docs/policy.md on DENY of command.run: "blocks it".  The command an approver edited
\* is not put to the policy chain again.
DeniedNeverRuns == \A r \in ran : r.command \notin Denied

-----------------------------------------------------------------------------
(***************************************************************************)
(* Approvals for any number of requests, commands and crashes.  The only   *)
(* hypothesis is that the value for "no request" is not a request.         *)
(***************************************************************************)

\* A row without a decision is new, pending or expired; a decision fixes the status.
RowShape ==
  \A q \in Requests :
    /\ status[q] \in {"new", "pending", "expired"} => decision[q] = NoDecision
    /\ decision[q] \in APPROVING => status[q] = "approved"
    /\ status[q] = "approved" => decision[q] \in APPROVING
    /\ status[q] \in {"approved", "denied", "cancelled"} => decision[q] \in Decisions
    /\ decision[q] = "DENY" => status[q] = "denied"
    /\ decision[q] = "MODIFY" => edited[q] \in Commands
    /\ status[q] # "new" => command[q] \in Commands

\* Somebody approved the command for the run.
Remembered(c) ==
  \E q \in Requests : decision[q] = "APPROVE_FOR_RUN" /\ command[q] = c /\ c \in Grantable

\* The request q lets the command c run.
Justified(q, c) ==
  /\ status[q] = "approved" /\ c \notin Blocked
  /\ c = IF decision[q] = "MODIFY" THEN edited[q] ELSE command[q]

GrantShape == \A c \in grants : Remembered(c)

\* What the task of the run knows: its command is not a blocked one, the request it waits
\* on is its own and a result is the row's decision, and what it is about to run is justified.
TaskShape ==
  /\ pc \in {"ask", "wait"} => cmd \in Commands \ Blocked
  /\ pc = "wait" => req \in Requests /\ status[req] \notin {"new", "expired"} /\ command[req] = cmd
  /\ (pc = "wait" /\ result # NoDecision) => decision[req] = result
  /\ (pc = "wait" /\ event) => cancelled \/ result # NoDecision
  /\ pc = "run" => cmd \in Commands
  /\ (pc = "run" /\ req # NoRequest) => req \in Requests /\ Justified(req, cmd)
  /\ (pc = "run" /\ req = NoRequest) => Remembered(cmd)

RanShape ==
  \A r \in ran : IF r.by # NoRequest THEN Justified(r.by, r.command) ELSE Remembered(r.command)

IInv == TypeOK /\ RowShape /\ GrantShape /\ TaskShape /\ RanShape
-----------------------------------------------------------------------------
\* A settled row: decided or expired.
Settled(q) == status[q] \notin {"new", "pending"}

\* Every step leaves settled rows alone, and the command of every row that exists.
Kept ==
  \A q \in Requests :
    /\ Settled(q) => status'[q] = status[q] /\ decision'[q] = decision[q] /\ edited'[q] = edited[q]
    /\ status[q] # "new" => command'[q] = command[q] /\ status'[q] # "new"

\* The UPDATEs of decide and expire are guarded by the status, so rows are kept.
LEMMA RowsAreKept == IInv /\ [Next]_vars => Kept
<1> SUFFICES ASSUME IInv, [Next]_vars PROVE Kept
  OBVIOUS
<1>1. ASSUME NEW q \in Requests, request(q) PROVE Kept
  BY <1>1 DEF Kept, Settled, request, IInv, TypeOK
<1>2. ASSUME NEW q \in Requests, NEW d \in Decisions, NEW m \in Commands \cup {NoCommand},
             NEW here \in BOOLEAN, decide(q, d, m, here)
      PROVE  Kept
  <2>1. STATUS_FOR(d) # "new"
    BY DEF STATUS_FOR
  <2>. QED  BY <1>2, <2>1 DEF Kept, Settled, decide, Write, IInv, TypeOK
<1>3. CASE TimedOut
  <2>1. req \in Requests
    BY <1>3 DEF IInv, TaskShape, TimedOut
  <2>. QED  BY <1>3, <2>1 DEF Kept, Settled, TimedOut, IInv, TypeOK
<1>4. ASSUME NEW q \in Requests, Lapse(q) PROVE Kept
  BY <1>4 DEF Kept, Settled, Lapse
<1>5. CASE (\E c \in Commands : _exec(c)) \/ cancel \/ Woken \/ Run \/ Unwind \/ Crash \/ Resume
  BY <1>5 DEF Kept, Settled, _exec, cancel, Woken, Run, Unwind, Crash, Resume, rows
<1>6. CASE UNCHANGED vars
  BY <1>6 DEF Kept, Settled, vars, rows
<1>. QED  BY <1>1, <1>2, <1>3, <1>4, <1>5, <1>6 DEF Next

\* What a settled row justified stays justified, and what was remembered stays so.
LEMMA ReasonsLast ==
  ASSUME IInv, Kept
  PROVE  /\ \A c : Remembered(c) => Remembered(c)'
         /\ \A q \in Requests : \A c : Justified(q, c) => Justified(q, c)'
<1>1. ASSUME NEW c, Remembered(c) PROVE Remembered(c)'
  <2>1. PICK q \in Requests : decision[q] = "APPROVE_FOR_RUN" /\ command[q] = c /\ c \in Grantable
    BY <1>1 DEF Remembered
  <2>2. status[q] = "approved"
    BY <2>1 DEF IInv, RowShape, APPROVING
  <2>. QED  BY <2>1, <2>2 DEF Kept, Settled, Remembered
<1>2. ASSUME NEW q \in Requests, NEW c, Justified(q, c) PROVE Justified(q, c)'
  BY <1>2 DEF Justified, Kept, Settled
<1>. QED  BY <1>1, <1>2

\* Acting on a decision of the request the task waits on.
LEMMA ActingIsJustified ==
  ASSUME IInv, pc = "wait", NEW d \in Decisions, Act(d), Kept, "none" \notin Requests,
         d \in APPROVING => status[req] = "approved" /\ decision[req] = d
  PROVE  /\ pc' \in {"idle", "run"} /\ req' \in Requests \cup {NoRequest}
         /\ cmd' \in Commands \cup {NoCommand} /\ event' = FALSE /\ result' = NoDecision
         /\ cancelled' \in BOOLEAN
         /\ acted' \in [Requests -> Decisions \cup {NoDecision}]
         /\ TaskShape'
<1> DEFINE to_run == IF d = "MODIFY" THEN edited[req] ELSE cmd
<1>1. req \in Requests /\ command[req] = cmd /\ cmd \in Commands \ Blocked
  BY DEF IInv, TaskShape
<1>2. d \in APPROVING => to_run \in Commands
  BY <1>1 DEF IInv, RowShape
<1>3. CASE d \in APPROVING /\ to_run \notin Blocked
  <2>1. pc' = "run" /\ cmd' = to_run /\ req' = req
    BY <1>3 DEF Act
  <2>2. Justified(req, to_run)
    BY <1>1, <1>3 DEF Justified
  <2>3. Justified(req, cmd)'
    <3>1. \A q \in Requests : \A c : Justified(q, c) => Justified(q, c)'
      BY ReasonsLast
    <3>2. PICK q \in Requests, c \in Commands : q = req /\ c = to_run
      BY <1>1, <1>2, <1>3
    <3>3. Justified(q, c)'
      BY <2>2, <3>1, <3>2
    <3>. QED  BY <2>1, <3>2, <3>3 DEF Justified
  <2>4. req' # NoRequest
    BY <1>1, <2>1 DEF NoRequest
  <2>. QED  BY <1>1, <1>2, <1>3, <2>1, <2>3, <2>4 DEF Act, TaskShape, IInv, TypeOK
<1>4. CASE ~(d \in APPROVING /\ to_run \notin Blocked)
  <2>1. pc' = "idle" /\ cmd' = NoCommand /\ req' = NoRequest
    BY <1>4 DEF Act
  <2>. QED  BY <1>1, <2>1 DEF Act, TaskShape, IInv, TypeOK
<1>. QED  BY <1>3, <1>4, Zenon

LEMMA Initially == Init => IInv
<1> SUFFICES ASSUME Init PROVE IInv
  OBVIOUS
<1>1. TypeOK
  BY Zenon DEF Init, TypeOK, Decisions, APPROVING
<1>2. RowShape /\ GrantShape
  BY DEF Init, RowShape, GrantShape, APPROVING, NoDecision
<1>3. TaskShape /\ RanShape
  BY DEF Init, TaskShape, RanShape
<1>. QED  BY <1>1, <1>2, <1>3 DEF IInv

\* Steps that only move the task: from idle to asking or running, and out of the phase.
LEMMA TaskMoves ==
  ASSUME IInv, Kept, UNCHANGED <<rows, acted>>, crashes' \in Nat,
         (\E c \in Commands : _exec(c)) \/ cancel \/ Run \/ Unwind \/ Crash \/ Resume \/ UNCHANGED vars
  PROVE  IInv'
<1>1. TypeOK'
  <2>1. CASE Run
    <3>1. cmd \in Commands
      BY <2>1 DEF IInv, TaskShape, Run
    <3>. QED  BY <2>1, <3>1 DEF Run, IInv, TypeOK, rows
  <2>2. CASE (\E c \in Commands : _exec(c)) \/ cancel \/ Unwind \/ Crash \/ Resume \/ UNCHANGED vars
    BY <2>2, Zenon DEF _exec, cancel, Unwind, Crash, Resume, IInv, TypeOK, rows, machine, vars
  <2>. QED  BY <2>1, <2>2
<1>2. RowShape' /\ GrantShape'
  BY DEF RowShape, GrantShape, Remembered, rows, IInv
<1>3. TaskShape'
  <2>1. ASSUME NEW c \in Commands, _exec(c) PROVE TaskShape'
    BY <2>1 DEF _exec, TaskShape, Justified, Remembered, GrantShape, IInv, rows
  <2>2. CASE cancel \/ Run \/ Unwind \/ Crash \/ Resume \/ UNCHANGED vars
    BY <2>2 DEF cancel, Run, Unwind, Crash, Resume, vars, machine, TaskShape, Justified, Remembered, IInv, rows
  <2>. QED  BY <2>1, <2>2
<1>4. RanShape'
  <2>1. CASE Run
    BY <2>1 DEF Run, TaskShape, RanShape, Justified, Remembered, IInv, rows
  <2>2. CASE ran' = ran
    BY <2>2 DEF RanShape, Justified, Remembered, IInv, rows
  <2>. QED  BY <2>1, <2>2 DEF _exec, cancel, Unwind, Crash, Resume, vars
<1>. QED  BY <1>1, <1>2, <1>3, <1>4 DEF IInv

\* RanShape is kept by every step that runs nothing.
LEMMA RanStays == ASSUME IInv, Kept, ran' = ran PROVE RanShape'
<1>1. /\ \A c : Remembered(c) => Remembered(c)'
      /\ \A q \in Requests : \A c : Justified(q, c) => Justified(q, c)'
  BY ReasonsLast
<1>. QED  BY <1>1 DEF RanShape, IInv, TypeOK

LEMMA Preserved == ASSUME "none" \notin Requests PROVE IInv /\ [Next]_vars => IInv'
<1> SUFFICES ASSUME IInv, [Next]_vars PROVE IInv'
  OBVIOUS
<1>0. Kept
  BY RowsAreKept
<1>1. ASSUME NEW q \in Requests, request(q) PROVE IInv'
  <2>1. TypeOK'
    BY <1>1, Zenon DEF request, IInv, TypeOK
  <2>2. RowShape'
    BY <1>1 DEF request, IInv, RowShape, TaskShape, TypeOK
  <2>3. GrantShape'
    BY <1>0, <1>1, ReasonsLast DEF request, IInv, GrantShape
  <2>4. TaskShape'
    BY <1>1 DEF request, IInv, TaskShape, TypeOK
  <2>5. RanShape'
    BY <1>0, <1>1, RanStays DEF request
  <2>. QED  BY <2>1, <2>2, <2>3, <2>4, <2>5 DEF IInv
<1>2. ASSUME NEW q \in Requests, NEW d \in Decisions, NEW m \in Commands \cup {NoCommand},
             NEW here \in BOOLEAN, decide(q, d, m, here)
      PROVE  IInv'
  <2>0. /\ STATUS_FOR(d) \in {"approved", "denied", "cancelled"}
        /\ STATUS_FOR(d) = "approved" <=> d \in APPROVING
        /\ d = "DENY" => STATUS_FOR(d) = "denied"
    BY DEF STATUS_FOR, Decisions, APPROVING
  <2>a. \A x \in Requests \ {q} :
          status'[x] = status[x] /\ decision'[x] = decision[x] /\ edited'[x] = edited[x]
    BY <1>2 DEF decide, Write, IInv, TypeOK
  <2>b. /\ status'[q] = STATUS_FOR(d) /\ decision'[q] = d /\ edited'[q] = m /\ command' = command
        /\ status[q] = "pending" /\ decision[q] = NoDecision /\ command[q] \in Commands
        /\ d = "MODIFY" => m \in Commands
        /\ d = "APPROVE_FOR_RUN" => command[q] \in Grantable
    BY <1>2 DEF decide, Write, Allowed, IInv, RowShape, TypeOK
  <2>1. TypeOK'
    BY <1>2, <2>0, <2>b, Zenon DEF decide, Write, IInv, TypeOK, Allowed
  <2>2. RowShape'
    BY <2>0, <2>a, <2>b DEF IInv, RowShape
  <2>3. GrantShape'
    <3>1. \A c \in grants : Remembered(c)'
      BY <1>0, ReasonsLast DEF IInv, GrantShape
    <3>2. d = "APPROVE_FOR_RUN" => Remembered(command[q])'
      BY <2>b DEF Remembered
    <3>. QED  BY <1>2, <3>1, <3>2 DEF decide, Write, GrantShape
  <2>4. TaskShape'
    <3>1. pc' = pc /\ cmd' = cmd /\ req' = req
      BY <1>2 DEF decide, Write
    <3>2. pc = "wait" => (result' # NoDecision => decision'[req] = result')
                          /\ status'[req] \notin {"new", "expired"}
      <4>1. CASE req = q
        BY <1>2, <4>1, <2>0, <2>b DEF decide, IInv, TaskShape, Decisions, APPROVING, NoDecision
      <4>2. CASE req # q
        BY <1>2, <4>2, <2>a DEF decide, IInv, TaskShape
      <4>. QED  BY <4>1, <4>2
    <3>5. (pc = "wait" /\ event') => cancelled' \/ result' # NoDecision
      BY <1>2, Zenon DEF decide, Write, IInv, TaskShape, Decisions, APPROVING, NoDecision
    <3>3. pc = "run" /\ req # NoRequest => Justified(req, cmd)'
      BY <2>a, <2>b, <3>1 DEF IInv, TaskShape, Justified
    <3>4. pc = "run" /\ req = NoRequest => Remembered(cmd)'
      <4>1. \A c : Remembered(c) => Remembered(c)'
        BY <1>0, ReasonsLast
      <4>2. pc = "run" => cmd \in Commands
        BY DEF IInv, TaskShape
      <4>. QED  BY <3>1, <4>1, <4>2 DEF IInv, TaskShape, Remembered
    <3>. QED  BY <2>b, <3>1, <3>2, <3>3, <3>4, <3>5 DEF IInv, TaskShape
  <2>5. RanShape'
    BY <1>0, <1>2, RanStays DEF decide, Write
  <2>. QED  BY <2>1, <2>2, <2>3, <2>4, <2>5 DEF IInv
<1>3. ASSUME NEW q \in Requests, Lapse(q) PROVE IInv'
  BY <1>3 DEF Lapse, machine, IInv, TypeOK, RowShape, GrantShape, TaskShape, RanShape, Justified, Remembered
<1>4. CASE Woken \/ TimedOut
  <2>1. pc = "wait" /\ req \in Requests /\ status[req] # "new"
    BY <1>4 DEF Woken, TimedOut, IInv, TaskShape
  <2>2. PICK d \in Decisions : Act(d) /\ (d \in APPROVING => decision[req] = d)
    <3>1. CASE Woken
      <4> DEFINE d == IF cancelled \/ result = NoDecision THEN "DENY" ELSE result
      <4>1. d \in Decisions /\ (d \in APPROVING => decision[req] = d)
        BY <2>1 DEF IInv, TypeOK, TaskShape, Decisions, APPROVING
      <4>. QED  BY <3>1, <4>1 DEF Woken
    <3>2. CASE TimedOut
      <4> DEFINE d == IF cancelled \/ status[req] = "pending" THEN "DENY" ELSE decision[req]
      <4>1. status[req] # "pending" => decision[req] \in Decisions
        BY <2>1, <3>2 DEF TimedOut, IInv, TypeOK, RowShape, TaskShape
      <4>2. d \in Decisions /\ (d \in APPROVING => decision[req] = d)
        BY <4>1 DEF Decisions, APPROVING
      <4>. QED  BY <3>2, <4>2 DEF TimedOut
    <3>. QED  BY <1>4, <3>1, <3>2
  <2>3. d \in APPROVING => status[req] = "approved" /\ decision[req] = d
    BY <2>1, <2>2 DEF IInv, RowShape
  <2>4. /\ pc' \in {"idle", "run"} /\ req' \in Requests \cup {NoRequest}
        /\ cmd' \in Commands \cup {NoCommand} /\ event' = FALSE /\ result' = NoDecision
        /\ cancelled' \in BOOLEAN
        /\ acted' \in [Requests -> Decisions \cup {NoDecision}]
        /\ TaskShape'
    BY <1>0, <2>1, <2>2, <2>3, ActingIsJustified, Zenon
  <2>5. /\ UNCHANGED <<decision, command, edited, late, grants, crashes, ran>>
        /\ \/ status' = status
           \/ status' = [status EXCEPT ![req] = "expired"] /\ status[req] = "pending"
    BY <1>4 DEF Woken, TimedOut, rows
  <2>6. TypeOK'
    BY <2>1, <2>4, <2>5, Zenon DEF IInv, TypeOK
  <2>7. RowShape'
    BY <2>1, <2>5 DEF IInv, RowShape, TypeOK
  <2>8. GrantShape'
    BY <1>0, <2>5, ReasonsLast DEF IInv, GrantShape
  <2>9. RanShape'
    BY <1>0, <2>5, RanStays
  <2>. QED  BY <2>4, <2>6, <2>7, <2>8, <2>9 DEF IInv
<1>5. CASE (\E c \in Commands : _exec(c)) \/ cancel \/ Run \/ Unwind \/ Crash \/ Resume \/ UNCHANGED vars
  <2>1. UNCHANGED <<rows, acted>> /\ crashes' \in Nat
    BY <1>5 DEF _exec, cancel, Run, Unwind, Crash, Resume, vars, IInv, TypeOK
  <2>. QED  BY <1>0, <1>5, <2>1, TaskMoves
<1>. QED  BY <1>1, <1>2, <1>3, <1>4, <1>5 DEF Next

LEMMA Invariant == ASSUME "none" \notin Requests PROVE Spec => []IInv
<1>1. Init => IInv
  BY Initially
<1>2. IInv /\ [Next]_vars => IInv'
  BY Preserved
<1>. QED  BY <1>1, <1>2, PTL DEF Spec
-----------------------------------------------------------------------------
\* Nothing that had to be asked about runs without a person's approval of it
\* (RunStateMachine._exec), for any commands, requests, crashes and deciding processes.
THEOREM OnlyApprovedRuns == ASSUME "none" \notin Requests PROVE Spec => []RanMeansApproved
<1>1. IInv => RanMeansApproved
  BY DEF IInv, RanShape, RanMeansApproved, Justified, Remembered
<1>. QED  BY <1>1, Invariant, PTL

\* The first answer to a request stands (decide and expire of persistence/approvals.py).
THEOREM AnswersStand == ASSUME "none" \notin Requests PROVE Spec => FirstAnswerStands
<1>1. IInv /\ [Next]_vars => [AnswerStands]_vars
  BY RowsAreKept DEF Kept, Settled, AnswerStands
<1>. QED  BY <1>1, Invariant, PTL DEF Spec, FirstAnswerStands

\* Whatever comes first, decision, timeout or cancel, the run acts on what the row says
\* (the tail of _request_approval).
THEOREM RunActsOnTheRow == ASSUME "none" \notin Requests PROVE Spec => ActsOnTheRow
<1>1. ASSUME IInv, [Next]_vars, NEW q \in Requests, acted'[q] # acted[q]
      PROVE  IF acted'[q] = "DENY" THEN \/ status'[q] \in {"denied", "expired"} \/ cancelled
                                   ELSE decision'[q] = acted'[q]
  <2>1. Woken \/ TimedOut
    BY <1>1, Zenon DEF Next, _exec, request, Lapse, decide, Write, cancel, Run, Unwind, Crash, Resume, vars
  <2>2. req \in Requests /\ status[req] \notin {"new", "expired"}
    BY <1>1, <2>1 DEF Woken, TimedOut, IInv, TaskShape
  <2>3. CASE Woken
    <3>1. PICK d : /\ acted' = [acted EXCEPT ![req] = d] /\ decision' = decision /\ status' = status
                   /\ d = IF cancelled \/ result = NoDecision THEN "DENY" ELSE result
      BY <2>3, Zenon DEF Woken, Act, rows
    <3>2. q = req /\ acted'[q] = d
      BY <1>1, <2>2, <3>1 DEF IInv, TypeOK
    <3>3. cancelled \/ (result # NoDecision /\ decision[req] = result)
      BY <1>1, <2>3 DEF Woken, IInv, TaskShape
    <3>. QED  BY <1>1, <2>2, <3>1, <3>2, <3>3 DEF IInv, RowShape
  <2>4. CASE TimedOut
    <3>1. PICK d : /\ acted' = [acted EXCEPT ![req] = d] /\ decision' = decision
                   /\ d = IF cancelled \/ status[req] = "pending" THEN "DENY" ELSE decision[req]
      BY <2>4, Zenon DEF TimedOut, Act
    <3>2. q = req /\ acted'[q] = d
      BY <1>1, <2>2, <3>1 DEF IInv, TypeOK
    <3>3. status'[req] = IF status[req] = "pending" THEN "expired" ELSE status[req]
      BY <1>1, <2>2, <2>4 DEF TimedOut, IInv, TypeOK
    <3>. QED  BY <1>1, <2>2, <3>1, <3>2, <3>3 DEF IInv, RowShape
  <2>. QED  BY <2>1, <2>3, <2>4
<1>2. IInv /\ [Next]_vars => [FollowsTheRow]_vars
  BY <1>1 DEF FollowsTheRow
<1>. QED  BY <1>2, Invariant, PTL DEF Spec, ActsOnTheRow
=============================================================================
