---------------------------- MODULE EventStream ----------------------------
(***************************************************************************)
(* TaskService.stream: one client follows the events of one run.  The      *)
(* ledger is the record; the event bus of this process carries the events  *)
(* that the run's own machine writes here.  An approval's decision, and    *)
(* everything a worker in another process writes, is only in the ledger.   *)
(***************************************************************************)
EXTENDS Integers, Sequences, SequencesExt

CONSTANTS
    QUEUE_MAX,   \* asyncio.Queue(maxsize=1000)
    MaxEvents    \* bound: events of the run before it ends

VARIABLES
    ledger,      \* run_events: a sequence of [via, type]; an event's id is its position
    status,      \* "running" or "terminal": the run's row
    active,      \* the run's machine is in this process (is_active)
    queue,       \* ids in the subscriber's queue
    dropped,     \* history: ids the full queue refused
    stream,      \* "new", "replay", "check", "follow", "polling", "polled", "ended"
    todo,        \* ids read from the ledger and not yet sent
    quiet,       \* polls without news (0, 1: the next one sends a ping)
    last,        \* the cursor
    sent         \* ids sent to the client, in order

vars == <<ledger, status, active, queue, dropped, stream, todo, quiet, last, sent>>

Init ==
    /\ ledger = <<>> /\ status = "running" /\ active \in BOOLEAN
    /\ queue = <<>> /\ dropped = {} /\ stream = "new" /\ todo = <<>>
    /\ quiet = 0 /\ last = 0 /\ sent = <<>>

Range1(s) == {s[i] : i \in DOMAIN s}
Subscribed == stream \notin {"new", "ended"}
After(id) == SetToSortSeq({i \in DOMAIN ledger : i > id}, <)
TERMINAL_EVENTS == {"run_completed", "run_failed", "run_interrupted"}

-----------------------------------------------------------------------------
(* emit_nowait: a full queue drops the event                               *)
emit_nowait(id) ==
    IF ~Subscribed THEN UNCHANGED <<queue, dropped>>
    ELSE IF Len(queue) < QUEUE_MAX THEN queue' = Append(queue, id) /\ UNCHANGED dropped
    ELSE dropped' = dropped \union {id} /\ UNCHANGED queue

(* _emit, _move: the machine of this process appends, then emits           *)
Emit(type) ==
    /\ active
    /\ ledger' = Append(ledger, [via |-> "bus", type |-> type])
    /\ emit_nowait(Len(ledger'))

_emit ==
    /\ status = "running" /\ Len(ledger) < MaxEvents
    /\ Emit("step")
    /\ UNCHANGED <<status, active, stream, todo, quiet, last, sent>>

(* _complete_run, _fail_run: the status first, the run's last event after  *)
Terminal ==
    /\ status = "running"
    /\ Emit("run_state_changed")
    /\ status' = "terminal"
    /\ UNCHANGED <<active, stream, todo, quiet, last, sent>>

_complete_run ==
    /\ status = "terminal" /\ active
    /\ \A i \in DOMAIN ledger : ledger[i].type \notin TERMINAL_EVENTS
    /\ Emit("run_completed")
    /\ UNCHANGED <<status, active, stream, todo, quiet, last, sent>>

(* the task ends and leaves the table of machines                          *)
_cleanup ==
    /\ active /\ \E i \in DOMAIN ledger : ledger[i].type \in TERMINAL_EVENTS
    /\ active' = FALSE
    /\ UNCHANGED <<ledger, status, queue, dropped, stream, todo, quiet, last, sent>>

(* approvals.decide, and a worker elsewhere: only the ledger               *)
insert_event ==
    /\ status = "running" /\ Len(ledger) < MaxEvents
    /\ ledger' = Append(ledger, [via |-> "ledger", type |-> "step"])
    /\ UNCHANGED <<status, active, queue, dropped, stream, todo, quiet, last, sent>>

(* a worker elsewhere ends the run; it may die before the last event       *)
WorkerEnds ==
    /\ status = "running" /\ ~active
    /\ ledger' = Append(ledger, [via |-> "ledger", type |-> "run_state_changed"])
    /\ status' = "terminal"
    /\ UNCHANGED <<active, queue, dropped, stream, todo, quiet, last, sent>>

(* recovery and claim: the interruption of a run nobody executes here      *)
Interrupt ==
    /\ status = "running" /\ ~active
    /\ ledger' = Append(ledger, [via |-> "ledger", type |-> "run_interrupted"])
    /\ status' = "terminal"
    /\ UNCHANGED <<active, queue, dropped, stream, todo, quiet, last, sent>>

-----------------------------------------------------------------------------
(* the bug of reading the ledger first and subscribing at the end of it *)
SubscribeLate ==
    /\ stream = "new"
    /\ \/ todo = <<>> /\ sent = <<>> /\ ledger # <<>> /\ todo' = After(last) /\ UNCHANGED stream
       \/ todo # <<>> /\ stream' = "replay" /\ UNCHANGED todo
    /\ UNCHANGED <<ledger, status, active, queue, dropped, quiet, last, sent>>

(* subscribe and read the ledger: no await in between                      *)
Subscribe ==
    /\ stream = "new"
    /\ stream' = "replay"
    /\ todo' = After(last)
    /\ UNCHANGED <<ledger, status, active, queue, dropped, quiet, last, sent>>

(* yield an event; a terminal one ends the stream                          *)
Yield(id, rest, then) ==
    /\ sent' = Append(sent, id)
    /\ last' = id
    /\ IF ledger[id].type \in TERMINAL_EVENTS
       THEN stream' = "ended" /\ todo' = <<>> /\ queue' = <<>>
       ELSE stream' = then /\ todo' = rest /\ UNCHANGED queue

Replay ==
    /\ stream = "replay"
    /\ IF todo = <<>>
       THEN stream' = "check" /\ UNCHANGED <<todo, last, sent, queue>>
       ELSE Yield(Head(todo), Tail(todo), "replay")
    /\ UNCHANGED <<ledger, status, active, dropped, quiet>>

(* a run that is over by the row ends the stream here                      *)
get_run ==
    /\ stream = "check"
    /\ IF status = "terminal" THEN stream' = "ended" /\ queue' = <<>> ELSE stream' = "follow" /\ UNCHANGED queue
    /\ UNCHANGED <<ledger, status, active, dropped, todo, quiet, last, sent>>

(* the bug of sending what the queue holds without looking at the id *)
FollowAll ==
    /\ stream = "follow" /\ queue # <<>>
    /\ sent' = Append(sent, Head(queue)) /\ last' = Head(queue)
    /\ queue' = Tail(queue)
    /\ stream' = IF ledger[Head(queue)].type \in TERMINAL_EVENTS THEN "ended" ELSE "follow"
    /\ UNCHANGED <<ledger, status, active, dropped, todo, quiet>>

(* follow: an event of the bus.  What the cursor has passed is skipped     *)
Follow ==
    /\ stream = "follow" /\ queue # <<>>
    /\ IF Head(queue) <= last
       THEN queue' = Tail(queue) /\ UNCHANGED <<stream, last, sent>>
       ELSE /\ sent' = Append(sent, Head(queue))
            /\ last' = Head(queue)
            /\ IF ledger[Head(queue)].type \in TERMINAL_EVENTS
               THEN stream' = "ended" /\ queue' = <<>>
               ELSE queue' = Tail(queue) /\ UNCHANGED stream
    /\ UNCHANGED <<ledger, status, active, dropped, todo, quiet>>

(* the wait times out; the ledger is read in a thread, so events arrive on *)
(* the bus before and after the read                                       *)
TimeOut ==
    /\ stream = "follow" /\ queue = <<>>
    /\ stream' = "polling"
    /\ UNCHANGED <<ledger, status, active, queue, dropped, todo, quiet, last, sent>>

Poll ==
    /\ stream = "polling"
    /\ todo' = After(last)
    /\ stream' = "polled"
    /\ quiet' = IF todo' # <<>> THEN 0 ELSE quiet + 1
    /\ UNCHANGED <<ledger, status, active, queue, dropped, last, sent>>

(* the bug of a ping that never asks whether the run is over *)
PolledForever ==
    /\ stream = "polled"
    /\ IF todo # <<>> THEN Yield(Head(todo), Tail(todo), "polled") /\ UNCHANGED quiet
       ELSE stream' = "follow" /\ quiet' = 0 /\ UNCHANGED <<todo, last, sent, queue>>
    /\ UNCHANGED <<ledger, status, active, dropped>>

(* after a long silence the client is pinged and the row is read: a run    *)
(* that is over and not executed here ends the stream                      *)
Polled ==
    /\ stream = "polled"
    /\ IF todo # <<>> THEN Yield(Head(todo), Tail(todo), "polled") /\ UNCHANGED quiet
       ELSE /\ IF quiet = 2 /\ ~active /\ status = "terminal"
               THEN stream' = "ended" /\ queue' = <<>>
               ELSE stream' = "follow" /\ UNCHANGED queue
            /\ quiet' = quiet % 2
            /\ UNCHANGED <<todo, last, sent>>
    /\ UNCHANGED <<ledger, status, active, dropped>>

Client == Subscribe \/ Replay \/ get_run \/ Follow \/ TimeOut \/ Poll \/ Polled
Run == _emit \/ Terminal \/ _complete_run \/ _cleanup \/ insert_event \/ WorkerEnds \/ Interrupt
Next == Client \/ Run
Spec == Init /\ [][Next]_vars

-----------------------------------------------------------------------------
(* The client sees events in the order of the ledger, none twice: the      *)
(* overlap of replay, bus and polls is removed by the cursor.              *)
InOrderOnce == \A i \in 1..(Len(sent) - 1) : sent[i] < sent[i + 1]

(* What the cursor passes without sending is exactly what never came by    *)
(* the bus: no event the machine emitted while the client was connected,   *)
(* and the queue accepted, is lost between replay and follow.              *)
MissesOnlyOffBus ==
    \A i \in 1..last : i \in Range1(sent) \/ ledger[i].via = "ledger" \/ i \in dropped

(* A stream whose run is over ends: by the run's last event or by the      *)
(* status of the row after a silence.                                      *)
RunOver == status = "terminal"
Ended == stream = "ended"

(* application/service.py: subscribing before replaying closes the gap in  *)
(* which an event could be missed.                                         *)
NothingMissed == \A i \in 1..last : i \in Range1(sent)
=============================================================================
