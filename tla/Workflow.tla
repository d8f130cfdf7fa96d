------------------------------ MODULE Workflow ------------------------------
(***************************************************************************)
(* The durable workflow engine, workflows/engine.py: one workflow run, the *)
(* rows of its steps, and the engine process that advances it and may die  *)
(* between any two transactions.                                           *)
(*                                                                         *)
(* The engine is asyncio code.  advance(), cancel() and resolve() of a run *)
(* hold its lock; decide() and deliver_event() commit their transaction    *)
(* without it.  Coroutines interleave only where one awaits, and advance   *)
(* awaits only a connector (lock.at in Awaits): everywhere else only a     *)
(* crash can come between two transactions.                                *)
(*                                                                         *)
(* The rows of one pass are read before the first is handled, so a row may *)
(* be stale when its turn comes: `todo` holds what was read.               *)
(***************************************************************************)
EXTENDS WorkflowGraph

CONSTANTS
  Definitions,       \* the workflows a run may be started from, by name
  MaxVisits,         \* bound on max_visits
  max_attempts,      \* RetryPolicy.max_attempts
  allow_unapproved_writes,
  LostResponses,     \* may a connector call take effect and still raise?
  MaxCrashes         \* bound on the crashes of the engine's process

ASSUME WorkflowAssumption ==
  /\ MaxVisits \in Nat \ {0} /\ max_attempts \in Nat \ {0} /\ MaxCrashes \in Nat
  /\ LostResponses \in BOOLEAN /\ allow_unapproved_writes \in BOOLEAN

\* what parse makes sure of: lists, and max_visits between 1 and its limit
ASSUME DefinitionsAssumption ==
  \A w \in DOMAIN Definitions : LET d == Definitions[w] IN
    /\ Len(d.nodes) \in Nat /\ DOMAIN d.nodes = 1..Len(d.nodes) /\ IsFiniteSet(d.edges)
    /\ \A i \in DOMAIN d.nodes : d.nodes[i].max_visits \in 1..MaxVisits

ACTIVE_STEP  == {"pending", "running", "waiting"}
TERMINAL_RUN == {"completed", "failed", "cancelled"}
AGENT_TERMINAL == {"completed", "failed", "cancelled"}
StepStatus == ACTIVE_STEP \cup {"none", "succeeded", "failed", "skipped", "uncertain"}
Awaits == {"find", "io", "reply"}
Places == {"free", "pass", "create", "override", "link", "launch", "start", "fire", "cancel"} \cup Awaits

\* what the engine asks of a definition, for each of them
NodeOf     == [w \in DOMAIN Definitions |-> [n \in Ids(Definitions[w]) |-> node(Definitions[w], n)]]
AncestorsOf == [w \in DOMAIN Definitions |-> [n \in Ids(Definitions[w]) |-> _ancestors(Definitions[w], n)]]
LoopingOf  == [w \in DOMAIN Definitions |-> cycle_nodes(Definitions[w])]
ProblemsOf == [w \in DOMAIN Definitions |-> validate(Definitions[w], allow_unapproved_writes)]

VARIABLES
  wf,       \* the definition the run stays on, a name
  db,       \* its rows: the run's status, the newest row of each node, see Init
  child,    \* child[n][v]: the agent run made for visit v of node n
  spawned,  \* how many runs were created for it
  effects,  \* how often the action of visit v of n took effect (0, 1 or 2 for more)
  retried,  \* the visits of actions a person asked to repeat
  lock,     \* where the coroutine that holds the run's lock is
  todo,     \* the rows read at the start of the pass and not handled yet
  moved,    \* has anything changed in this pass?
  up, crashes

Visits == 1..MaxVisits
Steps == DOMAIN NodeOf[wf]
Node_(n) == NodeOf[wf][n]
proc == <<lock, todo, moved>>
vars == <<wf, db, child, spawned, effects, retried, proc, up, crashes>>

NoRow == [visit |-> 0, id |-> 0, status |-> "none", due |-> FALSE, linked |-> FALSE]
NoTask == [node |-> "", id |-> 0, visit |-> 0, was |-> "none"]
Free  == [at |-> "free", row |-> NoTask, tries |-> 0, kids |-> {}]
Pass  == [Free EXCEPT !.at = "pass"]

Init ==
  /\ wf \in DOMAIN Definitions
  /\ db = [run |-> "none", step |-> [n \in Steps |-> NoRow], next |-> 1,
           approved |-> {},      \* approval nodes with a row whose decision is 'approved'
           outputs |-> {}]       \* nodes with a succeeded row: what _context offers
  /\ child = [n \in Steps |-> [v \in Visits |-> "none"]]
  /\ spawned = [n \in Steps |-> [v \in Visits |-> 0]]
  /\ effects = [n \in Steps |-> [v \in Visits |-> 0]]
  /\ retried = {}
  /\ lock = Free /\ todo = {} /\ moved = FALSE
  /\ up = TRUE /\ crashes = 0
-----------------------------------------------------------------------------
(* The helpers of the engine, as functions of the rows.                    *)

Position(n) == CHOOSE i \in DOMAIN Definitions[wf].nodes : Definitions[wf].nodes[i].id = n

\* _new_step, once for each of `targets`, in the order of the definition
NewSteps(d, targets) ==
  [d EXCEPT !.next = @ + Cardinality(targets),
            !.step = [n \in Steps |->
                        IF n \notin targets THEN @[n]
                        ELSE [visit |-> @[n].visit + 1, status |-> "pending", due |-> FALSE, linked |-> FALSE,
                              id |-> d.next + Cardinality({t \in targets : Position(t) < Position(n)})]]]

SetStatus(d, n, status) ==
  [d EXCEPT !.step[n].status = status,
            !.outputs = IF status = "succeeded" THEN @ \cup {n} ELSE @]

\* UPDATE ... WHERE id = row.id; the rows of earlier visits are not kept
SetRow(d, row, status) ==
  IF d.step[row.node].id = row.id THEN SetStatus(d, row.node, status) ELSE d

SkipActive(d) ==
  [d EXCEPT !.step = [n \in Steps |->
      IF @[n].status \in ACTIVE_STEP THEN [@[n] EXCEPT !.status = "skipped"] ELSE @[n]]]

_fail_run(d) == [SkipActive(d) EXCEPT !.run = "failed"]

Targets(n, labels) == {e.target : e \in {e \in outgoing(Definitions[wf], n) : e.when \in labels}}
Arriving(d, n, labels) == {t \in Targets(n, labels) : d.step[t].status \notin ACTIVE_STEP \cup {"uncertain"}}
Spent(d, targets) == {t \in targets : d.step[t].visit >= Node_(t).max_visits}
Fired(d, n, labels) == Arriving(d, n, labels) \ Spent(d, Arriving(d, n, labels)) # {}

\* mutant of _fire: nobody counts the visits
_fire_forever(d, n, labels) == NewSteps(d, Arriving(d, n, labels))

\* a target that is on its way is left alone; one without visits left fails the run
\* when it is on a loop and is skipped when it is a join that has run
_fire(d, n, labels) ==
  LET fresh == Arriving(d, n, labels) IN
  IF Spent(d, fresh) \cap LoopingOf[wf] # {} THEN _fail_run(d) ELSE NewSteps(d, fresh \ Spent(d, fresh))

FireOrFail(d, n, labels) == IF Fired(d, n, labels) THEN _fire(d, n, labels) ELSE _fail_run(_fire(d, n, labels))

_step_failed(d, row) ==
  LET failed == SetRow(d, row, "failed") IN
  IF Node_(row.node).handles /\ "failed" \in LabelsFrom(Definitions[wf], row.node)
    THEN _fire(failed, row.node, {"failed"}) ELSE _fail_run(failed)

_settle(d) ==
  LET statuses == {d.step[n].status : n \in Steps} IN
  [d EXCEPT !.run = IF @ \in TERMINAL_RUN THEN @
                    ELSE IF statuses \cap {"pending", "running"} # {} THEN "running"
                    ELSE IF statuses \cap {"waiting", "uncertain"} # {} THEN "waiting"
                    ELSE "completed"]

_approver(d, n) == AncestorsOf[wf][n] \cap d.approved # {}

\* what rendering the templates of a node may give: a node that has not succeeded is
\* not available, and what a node's output holds is not known before the run
Renders(n) == IF Node_(n).refs = {} THEN {TRUE}
              ELSE {ok \in BOOLEAN : ok => Node_(n).refs \subseteq db.outputs}
-----------------------------------------------------------------------------
(* start, advance and the passes over the rows.                            *)

\* start: validated again, whatever was checked when the definition was saved
start ==
  /\ up /\ lock.at \in Awaits \cup {"free"} /\ db.run = "none"
  /\ ProblemsOf[wf] = {}
  /\ db' = NewSteps([db EXCEPT !.run = "running"], entries(Definitions[wf]))
  /\ UNCHANGED <<wf, child, spawned, effects, retried, proc, up, crashes>>

Snapshot(d) ==
  {[node |-> n, id |-> d.step[n].id, visit |-> d.step[n].visit, was |-> d.step[n].status] :
     n \in {n \in Steps : d.step[n].status \in ACTIVE_STEP}}

\* tick, or the last line of start, decide, resolve and deliver_event
advance ==
  /\ up /\ lock.at = "free" /\ db.run \in {"running", "waiting"}
  /\ lock' = Pass /\ todo' = Snapshot(db) /\ moved' = FALSE
  /\ UNCHANGED <<wf, db, child, spawned, effects, retried, up, crashes>>

\* the pass is over: read the rows again if anything changed, else settle the run
EndOfPass ==
  /\ up /\ lock.at = "pass" /\ todo = {}
  /\ IF moved THEN todo' = Snapshot(db) /\ moved' = FALSE /\ UNCHANGED <<db, lock>>
     ELSE db' = _settle(db) /\ lock' = Free /\ UNCHANGED <<todo, moved>>
  /\ UNCHANGED <<wf, child, spawned, effects, retried, up, crashes>>

\* rows are handled in the order of their ids
Takes(row, type, was) ==
  /\ up /\ lock.at = "pass"
  /\ row \in todo /\ \A other \in todo : row.id <= other.id
  /\ Node_(row.node).type = type /\ row.was \in was

\* the handler of `row` returned `changed`; the loop goes on unless the run has ended
Return(row, d, changed) ==
  /\ db' = d
  /\ lock' = IF d.run \in TERMINAL_RUN THEN Free ELSE Pass
  /\ todo' = IF d.run \in TERMINAL_RUN THEN {} ELSE todo \ {row}
  /\ moved' = (d.run \notin TERMINAL_RUN /\ (moved \/ changed))

\* the handler goes on at `at` with its next transaction or await
Stage(row, at) == lock' = [Free EXCEPT !.at = at, !.row = row] /\ todo' = todo \ {row} /\ UNCHANGED moved

Quiet == UNCHANGED <<wf, child, spawned, effects, retried, up, crashes>>

_condition == \E row \in todo :
  /\ Takes(row, "condition", ACTIVE_STEP)
  /\ \/ \E label \in {"true", "false"} :
          /\ TRUE \in Renders(row.node)
          /\ Return(row, _fire(SetRow(db, row, "succeeded"), row.node, {label}), TRUE)
     \/ FALSE \in Renders(row.node) /\ Return(row, _step_failed(db, row), TRUE)
  /\ Quiet

\* a pending approval, wait or timer starts to wait; its templates may not render
StartsWaiting == \E row \in todo, type \in {"approval", "wait_event", "timer"} :
  /\ Takes(row, type, {"pending"})
  /\ \E ok \in IF type = "timer" THEN {TRUE} ELSE Renders(row.node) :
       Return(row, IF ok THEN SetRow(db, row, "waiting") ELSE _step_failed(db, row), TRUE)
  /\ Quiet

\* has wake_at passed for this row? (of a row that has a successor, not known)
Due(row) == IF Node_(row.node).type # "timer" /\ ~Node_(row.node).timeout THEN {FALSE}
            ELSE IF db.step[row.node].id = row.id THEN {db.step[row.node].due}
            ELSE BOOLEAN

StillWaits(row) == db.step[row.node].id = row.id /\ db.step[row.node].status = "waiting"

_approval == \E row \in todo :
  /\ Takes(row, "approval", {"waiting"})
  /\ LET label == IF "timeout" \in LabelsFrom(Definitions[wf], row.node) THEN "timeout" ELSE "denied"
     IN \/ TRUE \in Due(row) /\ Return(row, IF StillWaits(row) THEN FireOrFail(SetRow(db, row, "succeeded"), row.node, {label})
                                   ELSE db, TRUE)
        \/ FALSE \in Due(row) /\ Return(row, db, FALSE)
  /\ Quiet

_timer == \E row \in todo :
  /\ Takes(row, "timer", {"waiting"})
  /\ \/ TRUE \in Due(row) /\ Return(row, _fire(SetRow(db, row, "succeeded"), row.node, {"always"}), TRUE)
     \/ FALSE \in Due(row) /\ Return(row, db, FALSE)
  /\ Quiet

\* the row is failed only if it still waits, but the timeout is followed either way
_wait_event == \E row \in todo :
  /\ Takes(row, "wait_event", {"waiting"})
  /\ LET d == IF StillWaits(row) THEN SetRow(db, row, "failed") ELSE db
     IN \/ TRUE \in Due(row) /\ Return(row, IF "timeout" \in LabelsFrom(Definitions[wf], row.node)
                                     THEN _fire(d, row.node, {"timeout"}) ELSE _fail_run(d), TRUE)
        \/ FALSE \in Due(row) /\ Return(row, db, FALSE)
  /\ Quiet

\* the linked agent runs of rows in one of `statuses`
Children(d, statuses) ==
  {n \in Steps : d.step[n].status \in statuses /\ d.step[n].linked}

\* _end: the others are skipped and the run is over; its children are cancelled next
_end == \E row \in todo :
  /\ Takes(row, "end", ACTIVE_STEP)
  /\ db' = [SkipActive(SetRow(db, row, "succeeded")) EXCEPT
              !.run = IF Node_(row.node).result = "failure" THEN "failed" ELSE "completed"]
  /\ lock' = [Free EXCEPT !.at = "cancel", !.kids = Children(db, {"waiting"})]
  /\ todo' = {} /\ moved' = FALSE
  /\ Quiet

\* service.cancel for each child, best effort (RunQueue models how a run is cancelled)
CancelChildren ==
  /\ up /\ lock.at = "cancel"
  /\ child' = [n \in Steps |-> [v \in Visits |->
       IF n \in lock.kids /\ v = db.step[n].visit /\ child[n][v] \notin AGENT_TERMINAL
         THEN "cancelled" ELSE child[n][v]]]
  /\ lock' = Free
  /\ UNCHANGED <<wf, db, spawned, effects, retried, todo, moved, up, crashes>>
-----------------------------------------------------------------------------
(* _agent.  The intent is committed before the run is created; the run's   *)
(* created_by marker is how a later pass finds it.                         *)

SetChild(row, status) == child' = [child EXCEPT ![row.node][row.visit] = status]

AgentIntent == \E row \in todo :
  /\ Takes(row, "agent", {"pending"})
  /\ \/ /\ TRUE \in Renders(row.node)
        /\ db' = SetRow(db, row, "running") /\ Stage(row, "create")
     \/ FALSE \in Renders(row.node) /\ Return(row, _step_failed(db, row), TRUE)
  /\ Quiet

CreateChild ==
  /\ up /\ lock.at = "create"
  /\ LET row == lock.row IN
     \/ /\ SetChild(row, "created")
        /\ spawned' = [spawned EXCEPT ![row.node][row.visit] = @ + 1]
        /\ lock' = [lock EXCEPT !.at = IF Node_(row.node).overrides THEN "override" ELSE "link"]
        /\ UNCHANGED <<db, todo, moved>>
     \/ Return(row, _step_failed(db, row), TRUE) /\ UNCHANGED <<child, spawned>>
  /\ UNCHANGED <<wf, effects, retried, up, crashes>>

\* overrides that do not validate fail the step; the run that was created stays
OverrideChild ==
  /\ up /\ lock.at = "override"
  /\ \/ lock' = [lock EXCEPT !.at = "link"] /\ UNCHANGED <<db, todo, moved>>
     \/ Return(lock.row, _step_failed(db, lock.row), TRUE)
  /\ Quiet

\* _link_child, with the launch of a run that is not active
LinkChild ==
  /\ up /\ lock.at = "link"
  /\ db' = LET d == SetRow(db, lock.row, "waiting") IN
           [d EXCEPT !.step[lock.row.node].linked = d.step[lock.row.node].id = lock.row.id]
  /\ lock' = [lock EXCEPT !.at = "launch"]
  /\ UNCHANGED <<wf, child, spawned, effects, retried, todo, moved, up, crashes>>

LaunchChild ==
  /\ up /\ lock.at = "launch"
  /\ IF child[lock.row.node][lock.row.visit] = "created" THEN SetChild(lock.row, "active") ELSE UNCHANGED child
  /\ Return(lock.row, db, TRUE)
  /\ UNCHANGED <<wf, spawned, effects, retried, up, crashes>>

\* mutant of AgentFound: a run that was created is not looked for
AgentForgotten == \E row \in todo :
  /\ Takes(row, "agent", {"running"})
  /\ Return(row, SetRow(db, row, "pending"), TRUE)
  /\ Quiet

\* mutant of AgentFound: nothing to link, so nothing to do
AgentLeft == \E row \in todo :
  /\ Takes(row, "agent", {"running"})
  /\ IF child[row.node][row.visit] = "none" THEN Return(row, db, FALSE)
     ELSE Stage(row, "link") /\ UNCHANGED db
  /\ Quiet

\* the engine died between intent and link: link the run that was created, if any
AgentFound == \E row \in todo :
  /\ Takes(row, "agent", {"running"})
  /\ IF child[row.node][row.visit] = "none" THEN Return(row, SetRow(db, row, "pending"), TRUE)
     ELSE Stage(row, "link") /\ UNCHANGED db
  /\ Quiet

AgentPolled == \E row \in todo :
  /\ Takes(row, "agent", {"waiting"})
  /\ LET status == child[row.node][row.visit] IN
     \/ status = "created" /\ Stage(row, "launch") /\ UNCHANGED db
     \/ status = "completed" /\ Return(row, _fire(SetRow(db, row, "succeeded"), row.node, {"always"}), TRUE)
     \/ status \in {"failed", "cancelled"} /\ Return(row, _step_failed(db, row), TRUE)
     \/ status \in {"active", "interrupted"} /\ Return(row, db, FALSE)
  /\ Quiet
-----------------------------------------------------------------------------
(* _action.  Policy, the boundary and the gate are read on every entry; an *)
(* intent ('running') found by a new pass means the engine died in a call. *)

Refused(n, verdict) ==
  \/ verdict = "deny"
  \/ /\ verdict = "approval_required" \/ Node_(n).effect \in REQUIRES_APPROVAL_EFFECTS
     /\ ~_approver(db, n) /\ ~allow_unapproved_writes

\* mutant of _action: no second look at the gate, validation has seen it
_action_trusting == \E row \in todo :
  /\ Takes(row, "action", {"pending", "running"})
  /\ \E verdict \in {"allow", "deny"} :
       IF verdict = "deny" THEN Return(row, _step_failed(db, row), TRUE)
       ELSE Stage(row, IF row.was = "running" THEN "find" ELSE "start") /\ UNCHANGED db
  /\ Quiet

_action == \E row \in todo :
  /\ Takes(row, "action", {"pending", "running"})
  /\ \E verdict \in {"allow", "approval_required", "deny"} :
       IF Refused(row.node, verdict) THEN Return(row, _step_failed(db, row), TRUE)
       ELSE Stage(row, IF row.was = "running" THEN "find" ELSE "start") /\ UNCHANGED db
  /\ Quiet

Key(row) == effects[row.node][row.visit]

\* mutant of Reconcile: what may have happened is simply done again
ReconcileBlindly ==
  /\ up /\ lock.at = "find"
  /\ lock' = [lock EXCEPT !.at = "start"]
  /\ UNCHANGED <<db, todo, moved>> /\ Quiet

\* find_existing has answered: it happened; it may have, and cannot be repeated; or it
\* is performed (again).  A catalog without the connection finds nothing
Reconcile ==
  /\ up /\ lock.at = "find"
  /\ \E connected \in BOOLEAN : LET info == Node_(lock.row.node) IN
     IF connected /\ info.recorded /\ Key(lock.row) > 0
       THEN /\ db' = SetRow(db, lock.row, "succeeded")
            /\ lock' = [lock EXCEPT !.at = "fire"] /\ UNCHANGED <<todo, moved>>
     ELSE IF ~info.idempotent THEN Return(lock.row, SetRow(db, lock.row, "uncertain"), TRUE)
     ELSE lock' = [lock EXCEPT !.at = "start"] /\ UNCHANGED <<db, todo, moved>>
  /\ Quiet

StartAction ==
  /\ up /\ lock.at = "start"
  /\ \/ /\ TRUE \in Renders(lock.row.node)
        /\ db' = SetRow(db, lock.row, "running")
        /\ lock' = [lock EXCEPT !.at = "io", !.tries = 1] /\ UNCHANGED <<todo, moved>>
     \/ FALSE \in Renders(lock.row.node) /\ Return(lock.row, _step_failed(db, lock.row), TRUE)
  /\ Quiet

\* mutant of Perform: the connector does not look for what it made
PerformAgain ==
  /\ up /\ lock.at = "io"
  /\ effects' = [effects EXCEPT ![lock.row.node][lock.row.visit] = IF @ = 0 THEN 1 ELSE 2]
  /\ lock' = [lock EXCEPT !.at = "reply"]
  /\ UNCHANGED <<wf, db, child, spawned, retried, todo, moved, up, crashes>>

\* the connector acts; one that keeps a record looks for it first (Connector.perform)
Perform ==
  /\ up /\ lock.at = "io"
  /\ effects' = IF Node_(lock.row.node).recorded /\ Key(lock.row) > 0 THEN effects
                ELSE [effects EXCEPT ![lock.row.node][lock.row.visit] = IF @ = 0 THEN 1 ELSE 2]
  /\ lock' = [lock EXCEPT !.at = "reply"]
  /\ UNCHANGED <<wf, db, child, spawned, retried, todo, moved, up, crashes>>

\* run_with_retry: the attempt raised, before it had an effect or after it.  A retryable
\* failure is tried again; nobody tells it that the effect is uncertain
AttemptFails ==
  /\ up
  /\ lock.at = "io" \/ (lock.at = "reply" /\ LostResponses)
  /\ \/ /\ lock.tries < max_attempts
        /\ lock' = [lock EXCEPT !.at = "io", !.tries = @ + 1] /\ UNCHANGED <<db, todo, moved>>
     \/ Return(lock.row, _step_failed(db, lock.row), TRUE)
  /\ Quiet

\* _succeed, whatever has become of the run during the call
Succeeded ==
  /\ up /\ lock.at = "reply"
  /\ db' = SetRow(db, lock.row, "succeeded")
  /\ lock' = [lock EXCEPT !.at = "fire"]
  /\ UNCHANGED <<todo, moved>> /\ Quiet

\* the transaction after it
FireNext ==
  /\ up /\ lock.at = "fire"
  /\ Return(lock.row, _fire(db, lock.row.node, {"always"}), TRUE)
  /\ Quiet

\* find_existing raises: the exception leaves advance and tick, the row stays 'running'
FindRaises ==
  /\ up /\ lock.at = "find"
  /\ lock' = Free /\ todo' = {} /\ moved' = FALSE
  /\ UNCHANGED db /\ Quiet
-----------------------------------------------------------------------------
(* People, events, time, children and the process.                         *)

\* another coroutine runs while advance awaits a connector, or holds the lock itself
Interleaves == up /\ lock.at \in Awaits \cup {"free"}
Outside == UNCHANGED <<proc, up, crashes>>

\* mutant of decide: the answer is taken whatever state the step is in
decide_late == \E n \in Steps, approve \in BOOLEAN :
  /\ Interleaves
  /\ Node_(n).type = "approval" /\ db.step[n].status \in {"waiting", "succeeded"}
  /\ LET d == SetStatus(db, n, "succeeded") IN
     db' = IF approve THEN _fire([d EXCEPT !.approved = @ \cup {n}], n, {"always", "approved"})
           ELSE FireOrFail(d, n, {"denied"})
  /\ UNCHANGED <<wf, child, spawned, effects, retried>> /\ Outside

\* decide: the first answer wins
decide == \E n \in Steps, approve \in BOOLEAN :
  /\ Interleaves
  /\ Node_(n).type = "approval" /\ db.step[n].status = "waiting"
  /\ LET d == SetStatus(db, n, "succeeded") IN
     db' = IF approve THEN _fire([d EXCEPT !.approved = @ \cup {n}], n, {"always", "approved"})
           ELSE FireOrFail(d, n, {"denied"})
  /\ UNCHANGED <<wf, child, spawned, effects, retried>> /\ Outside

\* deliver_event: a matching event wakes the step that waits for it
deliver_event == \E n \in Steps :
  /\ Interleaves
  /\ Node_(n).type = "wait_event" /\ db.step[n].status = "waiting"
  /\ db' = _fire(SetStatus(db, n, "succeeded"), n, {"always"})
  /\ UNCHANGED <<wf, child, spawned, effects, retried>> /\ Outside

\* mutant of cancel: without the run's lock
cancel_at_once ==
  /\ Interleaves /\ db.run \in {"running", "waiting"}
  /\ db' = [SkipActive(db) EXCEPT !.run = "cancelled"]
  /\ UNCHANGED <<lock, todo, moved>> /\ Quiet

cancel ==
  /\ up /\ lock.at = "free" /\ db.run \in {"running", "waiting"}
  /\ db' = [SkipActive(db) EXCEPT !.run = "cancelled"]
  /\ lock' = [Free EXCEPT !.at = "cancel", !.kids = Children(db, {"waiting", "running"})]
  /\ UNCHANGED <<todo, moved>> /\ Quiet

\* resolve: a person says what became of an uncertain action, even of an ended run
resolve == \E n \in Steps, outcome \in {"happened", "retry", "failed"} :
  /\ up /\ lock.at = "free" /\ db.step[n].status = "uncertain"
  /\ LET new == CASE outcome = "happened" -> "succeeded" [] outcome = "retry" -> "pending" [] OTHER -> "failed"
         d == SetStatus(db, n, new)
     IN db' = IF outcome = "happened" THEN _fire(d, n, {"always"}) ELSE d
  /\ retried' = IF outcome = "retry" THEN retried \cup {<<n, db.step[n].visit>>} ELSE retried
  /\ UNCHANGED <<wf, child, spawned, effects>> /\ Outside

\* the clock passes a row's wake_at
WakeTime == \E n \in Steps :
  /\ Node_(n).type = "timer" \/ Node_(n).timeout
  /\ ~db.step[n].due
  /\ db.step[n].status = "waiting" \/ \E row \in todo : row.id = db.step[n].id /\ row.was = "waiting"
  /\ db' = [db EXCEPT !.step[n].due = TRUE]
  /\ UNCHANGED <<wf, child, spawned, effects, retried>> /\ Outside

\* a child run ends, or is resumed after its process died (see RunQueue)
ChildMoves == \E n \in Steps, v \in Visits :
  /\ up
  /\ \/ child[n][v] = "active" /\ \E end \in AGENT_TERMINAL : child' = [child EXCEPT ![n][v] = end]
     \/ child[n][v] = "interrupted" /\ child' = [child EXCEPT ![n][v] = "active"]
  /\ UNCHANGED <<wf, db, spawned, effects, retried>> /\ Outside

\* the process dies with whatever it holds in memory; its agent runs are interrupted
Crash ==
  /\ up /\ crashes < MaxCrashes
  /\ up' = FALSE /\ crashes' = crashes + 1
  /\ lock' = Free /\ todo' = {} /\ moved' = FALSE
  /\ \E back \in {"interrupted", "created"} :     \* "created": its task had not begun
       child' = [n \in Steps |-> [v \in Visits |-> IF child[n][v] = "active" THEN back ELSE child[n][v]]]
  /\ UNCHANGED <<wf, db, spawned, effects, retried>>

Restart == ~up /\ up' = TRUE /\ UNCHANGED <<wf, db, child, spawned, effects, retried, proc, crashes>>

\* the steps of a pass: the engine's own progress
Handle ==
  \/ EndOfPass \/ _condition \/ StartsWaiting \/ _approval \/ _timer \/ _wait_event \/ _end
  \/ CancelChildren \/ AgentIntent \/ CreateChild \/ OverrideChild \/ LinkChild \/ LaunchChild
  \/ AgentFound \/ AgentPolled \/ _action \/ Reconcile \/ FindRaises \/ StartAction
  \/ Perform \/ AttemptFails \/ Succeeded \/ FireNext

Next ==
  \/ start \/ advance \/ Handle
  \/ decide \/ deliver_event \/ cancel \/ resolve \/ WakeTime \/ ChildMoves \/ Crash \/ Restart

Spec == Init /\ [][Next]_vars

\* the background loop calls tick for ever, a pass runs to its end, a dead process is
\* started again, and a connector that is asked again and again answers once; people,
\* events and agents owe nothing
FairSpec == /\ Spec /\ WF_vars(advance) /\ WF_vars(Handle) /\ WF_vars(Restart)
            /\ SF_vars(Reconcile)
-----------------------------------------------------------------------------
TypeOK ==
  /\ db \in [run : {"none", "running", "waiting"} \cup TERMINAL_RUN, next : Nat,
             step : [Steps -> [visit : 0..MaxVisits, id : Nat, status : StepStatus,
                                 due : BOOLEAN, linked : BOOLEAN]],
             approved : SUBSET Steps, outputs : SUBSET Steps]
  /\ child \in [Steps -> [Visits -> AGENT_TERMINAL \cup {"none", "created", "active", "interrupted"}]]
  /\ spawned \in [Steps -> [Visits -> Nat]] /\ effects \in [Steps -> [Visits -> 0..2]]
  /\ retried \subseteq (Steps \X Visits)
  /\ lock.at \in Places /\ lock.tries \in 0..max_attempts
  /\ moved \in BOOLEAN /\ up \in BOOLEAN /\ crashes \in 0..MaxCrashes

Gates(n) == {a \in AncestorsOf[wf][n] : Node_(a).type = "approval"}

(***************************************************************************)
(* engine.py, "checked again here": an action that needs an approval has   *)
(* had an effect only if an approval before it was given, whatever was     *)
(* denied, timed out, retried or interrupted on the way.                   *)
(***************************************************************************)
GateHolds ==
  \A n \in Steps :
    Node_(n).effect \in REQUIRES_APPROVAL_EFFECTS /\ (\E v \in Visits : effects[n][v] > 0)
      => Gates(n) \cap db.approved # {}

(***************************************************************************)
(* The idempotency key: a connector that can find what it made has made it *)
(* once for each visit, through crashes, lost responses and retries.       *)
(***************************************************************************)
RecordedOnce == \A n \in Steps, v \in Visits : Node_(n).recorded => effects[n][v] <= 1

(***************************************************************************)
(* Intent before creation, found again by created_by: no visit of an agent *)
(* node has two agent runs, wherever the engine died.                      *)
(***************************************************************************)
ChildOnce == \A n \in Steps, v \in Visits : spawned[n][v] <= 1

(***************************************************************************)
(* What a step makes outside (an issue, a message, an agent run) is made   *)
(* once for each visit.  Where nothing can tell, "before it ever repeats   *)
(* it": an action that is not idempotent and has had its effect is         *)
(* performed again only by run_with_retry in the same call, or when a      *)
(* person asked for it.                                                    *)
(***************************************************************************)
MadeOnce ==
  /\ [](RecordedOnce /\ ChildOnce)
  /\ [][\A n \in Steps, v \in Visits :
          effects[n][v] = 1 /\ effects'[n][v] = 2 =>
            Node_(n).idempotent \/ <<n, v>> \in retried \/ lock.tries > 1]_vars

(***************************************************************************)
(* A run that has ended stays as it ended: a decision, an event or the end *)
(* of a call that arrives late does not bring it back.  Only a person who  *)
(* settles an uncertain action can still turn the end into a failure,      *)
(* when its success leads into a loop that is used up.  And a run that was *)
(* cancelled or has completed does nothing more outside: cancel and _end   *)
(* hold the lock, so no call is in flight, and no later pass starts one.   *)
(***************************************************************************)
EndedIsQuiet ==
  [][/\ db.run \in TERMINAL_RUN /\ db'.run # db.run =>
          db'.run = "failed" /\ \E n \in Steps : db.step[n].status = "uncertain" /\ db'.step[n].status = "succeeded"
     /\ db.run \in {"completed", "cancelled"} => UNCHANGED <<effects, spawned>>]_vars

(***************************************************************************)
(* No wake-up is lost: however the engine dies, a run comes to a state in  *)
(* which it has ended or all that is left waits for a person, an event, a  *)
(* clock or an agent run.                                                  *)
(***************************************************************************)
ComesToRest ==
  (db.run \in {"running", "waiting"})
    ~> (db.run \in TERMINAL_RUN \/ \A n \in Steps : db.step[n].status \notin {"pending", "running"})

(***************************************************************************)
(* engine.py:3, docs/workflows.md: after any crash, advance "continues     *)
(* exactly where the run was".  A run that completed without reaching an   *)
(* end node has followed every step that succeeded.                        *)
(***************************************************************************)
CompletedMeansFollowed ==
  db.run = "completed" /\ (\A n \in Steps : Node_(n).type = "end" => db.step[n].status # "succeeded") =>
    \A n \in Steps : db.step[n].status = "succeeded" =>
      \A t \in Targets(n, {"always"}) : db.step[t].visit > 0

(***************************************************************************)
(* runtime/retry.py:9: "Never repeat an operation that may already have    *)
(* had an external effect unless it is idempotent."                        *)
(***************************************************************************)
NeverRepeated == \A n \in Steps, v \in Visits :
  effects[n][v] = 2 => Node_(n).idempotent \/ <<n, v>> \in retried
=============================================================================
