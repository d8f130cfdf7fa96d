------------------------------ MODULE RunStatus ------------------------------
(***************************************************************************)
(* The status of a run and the table of its legal changes                  *)
(* (backend/patchquest/domain/runs.py).  Every status change of the        *)
(* program goes through persistence.runs.transition, which consults        *)
(* can_transition and then compares and sets the row in one transaction.   *)
(***************************************************************************)

RunStatus == {"created", "queued", "running", "waiting_approval", "cancel_requested",
              "completed", "failed", "cancelled", "interrupted"}

TRANSITIONS ==
  [created          |-> {"running", "queued", "cancelled", "failed"},
   queued           |-> {"running", "cancelled", "failed"},
   running          |-> {"waiting_approval", "cancel_requested", "completed", "failed",
                         "cancelled", "interrupted"},
   waiting_approval |-> {"running", "cancel_requested", "cancelled", "failed", "interrupted"},
   cancel_requested |-> {"cancelled", "completed", "failed", "interrupted"},
   interrupted      |-> {"running", "queued", "cancelled", "failed"},
   completed        |-> {},
   failed           |-> {},
   cancelled        |-> {}]

TERMINAL == {s \in RunStatus : TRANSITIONS[s] = {}}

\* runtime/queue.py calls this set LIVE, recovery.py calls it _ACTIVE
LIVE == {"running", "waiting_approval", "cancel_requested"}

can_transition(current, target) == target \in TRANSITIONS[current]
=============================================================================
