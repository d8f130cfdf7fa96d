------------------------------- MODULE Ingress ------------------------------
(***************************************************************************)
(* Inbound webhooks (api/routes_hooks.py, connectors/webhooks.py) and the  *)
(* start of workflows by them (WorkflowEngine.deliver_event and start,     *)
(* workflows/store.py).  A provider delivers an event any number of times; *)
(* requests interleave where they await and the process may die anywhere.  *)
(* One event type; a saved version of a workflow listens for it or not.    *)
(***************************************************************************)
EXTENDS Naturals, FiniteSets

CONSTANTS
  Events,      \* external ids; what a forged request calls itself is one of them too
  Names,       \* workflows of the workspace
  Requests,    \* HTTP requests that may be served at once
  MaxVersion,  \* bound on saves per workflow
  MaxCrashes

VARIABLES
  stored,      \* connector_events.status by external id, "none" without a row
  version,     \* the latest version of each workflow, 0 before the first save
  listening,   \* the latest version's trigger has the type of the events
  waiting,     \* a step of some workflow run waits for such an event
  enabled,     \* integrations.status # 'disabled'
  started,     \* workflow_runs as [name, version, event]: trigger_key is the event
  request,     \* the coroutine of each request: left, all are the candidates to try and tried
  arrived, woken, refused, raised, cut, crashes  \* history

vars == <<stored, version, listening, waiting, enabled, started, request,
          arrived, woken, refused, raised, cut, crashes>>
history == <<arrived, woken, refused, raised, cut, crashes>>

Idle == [at |-> "idle", left |-> {}]
Free(q) == request' = [request EXCEPT ![q] = Idle]
At(q, place) == request[q].at = place
Routing == {"route", "start", "advance"}

Init ==
  /\ stored = [e \in Events |-> "none"] /\ version = [n \in Names |-> 0]
  /\ listening = [n \in Names |-> FALSE] /\ waiting = FALSE /\ enabled = TRUE
  /\ started = {} /\ request = [q \in Requests |-> Idle]
  /\ arrived = {} /\ woken = {} /\ refused = {} /\ raised = {} /\ cut = {} /\ crashes = 0
-----------------------------------------------------------------------------
\* save_version: editing makes the next version, in this process or in another
Save(n) ==
  /\ version[n] < MaxVersion
  /\ version' = [version EXCEPT ![n] = @ + 1]
  /\ \E trigger \in BOOLEAN : listening' = [listening EXCEPT ![n] = trigger]
  /\ UNCHANGED <<stored, waiting, enabled, started, request>> /\ UNCHANGED history

\* a wait_event step begins to wait; an operator turns the integration off
WaitForEvent ==
  /\ ~waiting /\ woken = {} /\ waiting' = TRUE
  /\ UNCHANGED <<stored, version, listening, enabled, started, request>> /\ UNCHANGED history
Disable ==
  /\ enabled /\ enabled' = FALSE
  /\ UNCHANGED <<stored, version, listening, waiting, started, request>> /\ UNCHANGED history

\* a request for an integration in use; its body is read before anything else is known of it
Arrive(q, e, genuine) ==
  /\ enabled /\ At(q, "idle")
  /\ request' = [request EXCEPT ![q] = [at |-> "read", ev |-> e, genuine |-> genuine, left |-> {}, all |-> {}, touched |-> FALSE]]
  /\ arrived' = IF genuine THEN arrived \cup {e} ELSE arrived
  /\ UNCHANGED <<stored, version, listening, waiting, enabled, started, woken, refused, raised, cut, crashes>>

\* mutant of receive: the row is made before the signature is known to be good
receive_stores_first(q) ==
  /\ At(q, "read")
  /\ IF stored[request[q].ev] = "none"
     THEN /\ stored' = [stored EXCEPT ![request[q].ev] = "RECEIVED"]
          /\ IF request[q].genuine THEN request' = [request EXCEPT ![q].at = "route"] ELSE Free(q)
     ELSE Free(q) /\ UNCHANGED stored
  /\ UNCHANGED <<version, listening, waiting, enabled, started>> /\ UNCHANGED history

\* WebhookReceiver.receive: verified, then stored unless a row exists (Duplicate)
receive(q) ==
  /\ At(q, "read")
  /\ IF request[q].genuine /\ stored[request[q].ev] = "none"
     THEN /\ stored' = [stored EXCEPT ![request[q].ev] = "RECEIVED"]
          /\ request' = [request EXCEPT ![q].at = "route"]
     ELSE Free(q) /\ UNCHANGED stored
  /\ UNCHANGED <<version, listening, waiting, enabled, started>> /\ UNCHANGED history

\* mutant of active_for_trigger: every version that is active
active_versions == {c \in [name : Names, version : 1..MaxVersion] :
                      listening[c.name] /\ c.version <= version[c.name]}

\* the latest version of each workflow, if it listens
active_for_trigger == {c \in [name : Names, version : 1..MaxVersion] :
                         listening[c.name] /\ c.version = version[c.name]}

\* deliver_event, first transaction: wake what waits, read the candidates
Route(q) ==
  /\ At(q, "route")
  /\ request' = [request EXCEPT ![q].at = "start", ![q].left = active_for_trigger,
                                ![q].all = active_for_trigger, ![q].touched = waiting]
  /\ waiting' = FALSE /\ woken' = IF waiting THEN woken \cup {request[q].ev} ELSE woken
  /\ UNCHANGED <<stored, version, listening, enabled, started, arrived, refused, raised, cut, crashes>>

Run(c, e) == [name |-> c.name, version |-> c.version, event |-> e]

\* start of one candidate: the unique key (workflow, trigger_key) refuses a second run
Start(q) == \E c \in request[q].left :
  /\ At(q, "start")
  /\ request' = [request EXCEPT ![q].left = @ \ {c},
                                ![q].touched = @ \/ Run(c, request[q].ev) \notin started]
  /\ started' = started \cup {Run(c, request[q].ev)}
  /\ UNCHANGED <<stored, version, listening, waiting, enabled>> /\ UNCHANGED history

\* mutant of StartRefused: the first refusal ends the loop
StartRefusedStops(q) == \E c \in request[q].left :
  /\ At(q, "start")
  /\ request' = [request EXCEPT ![q].left = {}]
  /\ refused' = refused \cup {Run(c, request[q].ev)}
  /\ UNCHANGED <<stored, version, listening, waiting, enabled, started, arrived, woken, raised, cut, crashes>>

\* WorkflowError: a version that no longer validates is audited and passed over
StartRefused(q) == \E c \in request[q].left :
  /\ At(q, "start")
  /\ request' = [request EXCEPT ![q].left = @ \ {c}]
  /\ refused' = refused \cup {Run(c, request[q].ev)}
  /\ UNCHANGED <<stored, version, listening, waiting, enabled, started, arrived, woken, raised, cut, crashes>>

\* every candidate tried: the runs touched are advanced, which awaits
Advance(q) ==
  /\ At(q, "start") /\ request[q].left = {}
  /\ request' = [request EXCEPT ![q].at = "advance"]
  /\ UNCHANGED <<stored, version, listening, waiting, enabled, started>> /\ UNCHANGED history

\* mutant of Record: the outcome is read off the triggers alone
RecordTriggersOnly(q) ==
  /\ At(q, "advance") /\ Free(q)
  /\ stored' = [stored EXCEPT ![request[q].ev] =
                  IF \E r \in started : r.event = request[q].ev THEN "STARTED" ELSE "IGNORED"]
  /\ UNCHANGED <<version, listening, waiting, enabled, started>> /\ UNCHANGED history

\* record_outcome after deliver_event returned
Record(q) ==
  /\ At(q, "advance") /\ Free(q)
  /\ stored' = [stored EXCEPT ![request[q].ev] = IF request[q].touched THEN "STARTED" ELSE "IGNORED"]
  /\ UNCHANGED <<version, listening, waiting, enabled, started>> /\ UNCHANGED history

\* mutant of Raise: the failure is answered but not recorded
RaiseUnrecorded(q) ==
  /\ request[q].at \in Routing /\ Free(q)
  /\ raised' = raised \cup {request[q].ev}
  /\ UNCHANGED <<stored, version, listening, waiting, enabled, started, arrived, woken, refused, cut, crashes>>

\* deliver_event raised: recorded as IGNORED, whatever was started before
Raise(q) ==
  /\ request[q].at \in Routing /\ Free(q)
  /\ stored' = [stored EXCEPT ![request[q].ev] = "IGNORED"]
  /\ raised' = raised \cup {request[q].ev}
  /\ UNCHANGED <<version, listening, waiting, enabled, started, arrived, woken, refused, cut, crashes>>

\* the process dies and is started again
Crash ==
  /\ crashes < MaxCrashes /\ crashes' = crashes + 1
  /\ cut' = cut \cup {request[q].ev : q \in {p \in Requests : request[p].at \in Routing}}
  /\ request' = [q \in Requests |-> Idle]
  /\ UNCHANGED <<stored, version, listening, waiting, enabled, started, arrived, woken, refused, raised>>

Next ==
  \/ \E n \in Names : Save(n)
  \/ WaitForEvent \/ Disable \/ Crash
  \/ \E q \in Requests :
       \/ \E e \in Events, genuine \in BOOLEAN : Arrive(q, e, genuine)
       \/ receive(q) \/ Route(q) \/ Start(q) \/ StartRefused(q) \/ Advance(q) \/ Record(q) \/ Raise(q)

Spec == Init /\ [][Next]_vars
-----------------------------------------------------------------------------
\* At most one version of a workflow is started by an event, however often it is delivered
\* and whatever is saved meanwhile (ON CONFLICT DO NOTHING; trigger_key is unique only per version).
OneVersionPerEvent ==
  \A r, s \in started : r.name = s.name /\ r.event = s.event => r = s

\* What the log of events says is true unless routing raised: STARTED started or woke a
\* workflow run, IGNORED touched none (routes_hooks.receive, record_outcome).
OutcomeIsTrue == \A e \in Events \ raised :
  LET touched == e \in woken \/ \E r \in started : r.event = e IN
  /\ stored[e] = "STARTED" => touched
  /\ stored[e] = "IGNORED" => ~touched

\* Only a crash leaves an accepted event without an outcome: otherwise a request that will
\* record one is routing it, and no other request routes it as well.
LimboOnlyByCrash == \A e \in Events :
  LET routing == {q \in Requests : request[q].at \in Routing /\ request[q].ev = e} IN
  /\ stored[e] = "RECEIVED" => routing # {} \/ e \in cut
  /\ Cardinality(routing) <= 1

\* A forged request uses up no external id: a row exists only for what a provider sent.
OnlyGenuineStored == \A e \in Events : stored[e] # "none" => e \in arrived

\* "one broken workflow must not stop the event reaching the others": once the loop over
\* the candidates has ended, each was started or was itself refused.
ReachesTheOthers == \A q \in Requests : At(q, "advance") =>
  \A c \in request[q].all : Run(c, request[q].ev) \in started \cup refused
=============================================================================
