------------------------------ MODULE Calendar ------------------------------
(* calendar/calendar_service.py over its providers, api/routes_calendar.py  *)
(* and the scheduler's hook: events for scheduled tasks, found again through *)
(* a listing and changed one at a time while people use the calendar too.   *)
(* A provider is asked in one step. An event has an id, a task, and timed   *)
(* says if it has its times (what has none is in no listing).               *)
EXTENDS Integers, FiniteSets

CONSTANTS Tasks, MaxEvents

Providers == {"local", "google", "microsoft", "caldav"}
None == "none"

VARIABLES
    provider,             \* cfg.calendar.default_provider
    store,                \* events of the provider: set of [uid, cal, task, title, timed]
    ids,                  \* ids used
    job,                  \* a caller between its listing and its changes
    gone,                 \* history: uids that were deleted
    old                   \* history: events of the task when the job listed
vars == <<provider, store, ids, job, gone, old>>

Idle == [op |-> "idle", task |-> None, left |-> {}]
Init == provider \in Providers /\ store = {} /\ ids = 0 /\ job = Idle /\ gone = {} /\ old = {}

(* list_events without a calendar: the default calendar of the provider,    *)
(* all calendars of CalDAV; only the local table has the task of an event   *)
Anonymous(events) == {[e EXCEPT !.task = None] : e \in events}
local_list_events == {e \in store : e.cal = "patchquest" /\ e.timed}
google_list_events == Anonymous({e \in store : e.cal = "primary" /\ e.timed})
graph_list_events == Anonymous({e \in store : e.timed})
caldav_list_events == Anonymous({e \in store : e.timed})
list_events ==
    CASE provider = "local" -> local_list_events
      [] provider = "google" -> google_list_events
      [] provider = "microsoft" -> graph_list_events
      [] OTHER -> caldav_list_events

(* create_event: Google inserts into the calendar of the event, which must  *)
(* exist; Microsoft uses the default one, and so does CalDAV for a calendar *)
(* it does not know.                                                        *)
local_create_event(event) == event
google_create_event(event) == event
graph_create_event(event) == [event EXCEPT !.cal = "primary"]
caldav_create_event(event) == [event EXCEPT !.cal = "primary"]
Created(event) ==
    CASE provider = "local" -> local_create_event(event)
      [] provider = "google" -> google_create_event(event)
      [] provider = "microsoft" -> graph_create_event(event)
      [] OTHER -> caldav_create_event(event)
create_event(task, cal) ==
    /\ ids < MaxEvents /\ ids' = ids + 1
    /\ store' = store \union {Created([uid |-> ids', cal |-> cal, task |-> task, title |-> "new", timed |-> TRUE])}
    /\ UNCHANGED <<provider, job, gone, old>>

(* _maybe_create_calendar_event, create_scheduled_task_event: an event of   *)
(* the calendar "patchquest"; what fails is skipped                         *)
create_scheduled_task_event(task) == create_event(task, "patchquest")

Find(uid) == {e \in store : e.uid = uid}
Rewritten(uid, event) == {IF e.uid = uid THEN [event EXCEPT !.uid = uid, !.cal = e.cal] ELSE e : e \in store}
(* update_event of the provider, as the stores it may leave: UPDATE ...     *)
(* WHERE id in the local table. Google and Microsoft refuse an event that   *)
(* is not there or has no times, and Google looks in the calendar of the    *)
(* event, "patchquest" by default. CalDAV deletes and creates: the second   *)
(* may fail, and the first is not asked if it found anything.               *)
(* mutant: an update of what is not there inserts it *)
local_update_upsert(uid, event) == {(store \ Find(uid)) \union {[event EXCEPT !.uid = uid]}}
local_update_event(uid, event) == {Rewritten(uid, event)}
google_update_event(uid, event) == IF event.timed /\ \E e \in Find(uid) : e.cal = event.cal THEN {Rewritten(uid, event)} ELSE {store}
graph_update_event(uid, event) == IF event.timed THEN {Rewritten(uid, event)} ELSE {store}
caldav_update_event(uid, event) ==
    LET left == store \ Find(uid) IN {left, left \union {caldav_create_event([event EXCEPT !.uid = uid])}}
Updated(uid, event) ==
    CASE provider = "local" -> local_update_event(uid, event)
      [] provider = "google" -> google_update_event(uid, event)
      [] provider = "microsoft" -> graph_update_event(uid, event)
      [] OTHER -> caldav_update_event(uid, event)

(* delete_event: Google looks in the primary calendar only                  *)
local_delete_event(uid) == Find(uid)
google_delete_event(uid) == {e \in Find(uid) : e.cal = "primary"}
graph_delete_event(uid) == Find(uid)
caldav_delete_event(uid) == Find(uid)
Deletable(uid) ==
    CASE provider = "local" -> local_delete_event(uid)
      [] provider = "google" -> google_delete_event(uid)
      [] provider = "microsoft" -> graph_delete_event(uid)
      [] OTHER -> caldav_delete_event(uid)
-----------------------------------------------------------------------------
(* People, through the API or the calendar itself. PATCH makes a new event  *)
(* of the fields it was given: the others become empty.                     *)
update_event(uid, given) ==
    /\ uid \in 1..ids
    /\ store' \in Updated(uid, [uid |-> uid, cal |-> "patchquest", task |-> None, timed |-> "times" \in given,
                              title |-> IF "title" \in given THEN "edited" ELSE ""])
    /\ UNCHANGED <<provider, ids, job, gone, old>>
delete_event(uid) ==
    /\ Deletable(uid) # {} /\ store' = store \ Deletable(uid)
    /\ gone' = gone \union {uid}
    /\ UNCHANGED <<provider, ids, job, old>>
-----------------------------------------------------------------------------
(* update_scheduled_task_event and delete_scheduled_task_events: list, then *)
(* the first match, or every match                                          *)
Of(task) == {e \in list_events : e.task = task}
List(op, task) ==
    /\ job.op = "idle" /\ Of(task) # {}
    /\ \E first \in Of(task) : job' = [op |-> op, task |-> task, left |-> IF op = "update" THEN {first} ELSE Of(task)]
    /\ old' = Of(task)
    /\ UNCHANGED <<provider, store, ids, gone>>
(* mutant: one event is deleted *)
DeleteFirst(e) == /\ job.op = "delete" /\ e \in job.left /\ job' = [job EXCEPT !.left = {}, !.op = "deleted"]
                  /\ store' = store \ Deletable(e.uid) /\ gone' = gone \union {e.uid}
                  /\ UNCHANGED <<provider, ids, old>>
DeleteNext(e) == /\ job.op = "delete" /\ e \in job.left
                 /\ job' = [job EXCEPT !.left = @ \ {e}, !.op = IF job.left = {e} THEN "deleted" ELSE "delete"]
                 /\ store' = store \ Deletable(e.uid) /\ gone' = gone \union {e.uid}
                 /\ UNCHANGED <<provider, ids, old>>
UpdateFound(e) == /\ job.op = "update" /\ e \in job.left /\ job' = Idle
                  /\ store' \in Updated(e.uid, [e EXCEPT !.title = "task"])
                  /\ UNCHANGED <<provider, ids, gone, old>>
Return == job.op = "deleted" /\ job' = Idle /\ UNCHANGED <<provider, store, ids, gone, old>>

Next ==
    \/ \E task \in Tasks : create_scheduled_task_event(task) \/ List("update", task) \/ List("delete", task)
    \/ \E cal \in {"primary", "patchquest"} : create_event(None, cal)
    \/ \E uid \in 1..MaxEvents : delete_event(uid) \/ \E given \in SUBSET {"title", "times"} : update_event(uid, given)
    \/ \E e \in job.left : DeleteNext(e) \/ UpdateFound(e)
    \/ Return
Spec == Init /\ [][Next]_vars

(* An event somebody deleted does not come back when an update that had     *)
(* listed it before is applied, except with CalDAV, which creates it anew.  *)
NeverBack == provider # "caldav" => \A e \in store : e.uid \notin gone

(* delete_scheduled_task_events leaves no event of the task that was there  *)
(* when it listed, whoever changes events meanwhile.                        *)
TaskEventsGo == job.op = "deleted" => \A e \in old : Find(e.uid) = {}
=============================================================================
