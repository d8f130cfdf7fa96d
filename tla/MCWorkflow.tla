----------------------------- MODULE MCWorkflow -----------------------------
(* Definitions for TLC, one for each way the engine's steps interact.      *)
EXTENDS Workflow

Plain(id, type) ==
  [id |-> id, type |-> type, max_visits |-> 1, effect |-> "PURE", idempotent |-> TRUE,
   recorded |-> FALSE, known |-> TRUE, well_formed |-> TRUE, refs |-> {},
   timeout |-> FALSE, handles |-> FALSE, overrides |-> FALSE, result |-> "success"]
Action(id, effect, idempotent, recorded) ==
  [Plain(id, "action") EXCEPT !.effect = effect, !.idempotent = idempotent, !.recorded = recorded]
Arrow(source, when, target) == [source |-> source, when |-> when, target |-> target]
Definition(nodes, edges) == [nodes |-> nodes, edges |-> edges, trigger |-> "manual", required |-> FALSE]

\* an object that is found again is made after an approval that may time out
Publish == Definition(
  <<[Plain("ask", "approval") EXCEPT !.timeout = TRUE],
    Action("post", "EXTERNAL_WRITE", TRUE, TRUE), Plain("stop", "end")>>,
  {Arrow("ask", "approved", "post"), Arrow("ask", "denied", "stop"), Arrow("post", "always", "stop")})

\* a call that cannot be repeated, reached by every answer
Notify == Definition(
  <<[Plain("ask", "approval") EXCEPT !.timeout = TRUE],
    Action("send", "EXTERNAL_WRITE", FALSE, FALSE), Plain("pause", "timer")>>,
  {Arrow("ask", "approved", "send"), Arrow("ask", "timeout", "send"), Arrow("send", "always", "pause")})

\* an agent is tried twice, until a condition on its outcome holds
Repair == Definition(
  <<Plain("begin", "timer"),
    [Plain("fix", "agent") EXCEPT !.max_visits = 2, !.overrides = TRUE, !.handles = TRUE],
    [Plain("test", "condition") EXCEPT !.max_visits = 2, !.refs = {"fix"}],
    Plain("stop", "end"), [Plain("give_up", "end") EXCEPT !.result = "failure"]>>,
  {Arrow("begin", "always", "fix"), Arrow("fix", "always", "test"), Arrow("test", "false", "fix"),
   Arrow("test", "true", "stop"), Arrow("fix", "failed", "give_up")})

\* three branches meet: a read that is in flight while people and events act
Join == Definition(
  <<Action("read", "NETWORK_READ", TRUE, FALSE), [Plain("reply", "wait_event") EXCEPT !.timeout = TRUE],
    Plain("ask", "approval"), Plain("meet", "timer")>>,
  {Arrow("read", "always", "meet"), Arrow("reply", "always", "meet"), Arrow("reply", "timeout", "meet"),
   Arrow("ask", "approved", "meet")})

\* whatever ends first ends the other
Race == Definition(
  <<Plain("fix", "agent"), Plain("limit", "timer"), Plain("stop", "end")>>,
  {Arrow("fix", "always", "stop"), Arrow("limit", "always", "stop")})

\* a call in a loop, cancelled while nobody knows whether the last one happened
Late == Definition(
  <<Plain("go", "timer"), [Plain("more", "condition") EXCEPT !.max_visits = 2],
    [Action("send", "WORKSPACE_WRITE", FALSE, FALSE) EXCEPT !.max_visits = 2], Plain("stop", "end")>>,
  {Arrow("go", "always", "more"), Arrow("more", "true", "send"), Arrow("send", "always", "more"),
   Arrow("more", "false", "stop")})

\* no approval on one of the two ways to the write: validation refuses it
Ungated == Definition(
  <<Plain("ask", "approval"), Plain("pause", "timer"), Action("post", "EXTERNAL_WRITE", TRUE, TRUE)>>,
  {Arrow("ask", "approved", "post"), Arrow("pause", "always", "post")})

MCDefinitions == [Publish |-> Publish, Notify |-> Notify, Repair |-> Repair, Join |-> Join,
                  Race |-> Race, Late |-> Late, Ungated |-> Ungated]
=============================================================================
