------------------------------ MODULE Execution -----------------------------
(***************************************************************************)
(* What RunStateMachine does with one run: its phases, the patch and its   *)
(* repairs in the shadow workspace, tests and baseline, budgets, review,   *)
(* scan, the decision to promote, checkpoints, crashes and resumes.  The   *)
(* ownership of the run is in RunQueue, the files of a promotion are in    *)
(* Promotion, and the wait for a person is in Approvals; here a person's   *)
(* answer is a choice and a promotion is one step.                         *)
(***************************************************************************)
EXTENDS Naturals, Sequences

CONSTANTS
  Policies,             \* values of agent.promote_policy to start with
  max_commands, max_patch_attempts, max_repair_rounds,  \* agent.*
  Rewritings,           \* contents a command may leave behind instead of those it found
  MaxFaults             \* bound: executions that die, checkpoints that are not saved

PHASE_ORDER == <<"intake", "repo_scan", "planning", "research", "context_building", "analysis",
                 "patching", "static_checks", "testing", "review", "security_scan", "final_report">>

\* Contents of the touched files in the workspace: the repository as it was, four patches, and
\* what a command made of them.  One test fails without any patch; "leaky" moves a line that
\* looks like a secret, which the check of added lines at apply time does not see and the scan
\* of the diff does.
Patches == {"good", "weak", "bad", "leaky"}
Contents == Patches \cup {"base", "rewritten"}
Failing(c) ==
  CASE c \in {"good", "leaky"} -> {} [] c \in {"base", "weak"} -> {"old"} [] OTHER -> {"old", "new"}
Nothing == "none"

VARIABLES
  policy, read_only,    \* of the run; a resume keeps both
  status,               \* "running", "dead" (no process), "ended"
  at, step,             \* the phase and the place in it
  ctx,                  \* the RunContext and the flags of snapshot._FLAGS
  cp,                   \* the newest checkpoint: the phases settled and ctx
  local,                \* of _phase_patching and _phase_testing: tries, what fails, baseline_done
  faults,
  spent,                \* history: commands executed
  landed                \* history: the promotion, with the grounds it was made on

vars == <<policy, read_only, status, at, step, ctx, cp, local, faults, spent, landed>>

\* the contents the last tests saw, and the ones they left behind
Unjudged == [saw |-> Nothing, left |-> Nothing]
\* written: a command has changed the files since the diff was taken (history)
NewContext ==
  [ws |-> "base", diff |-> Nothing, written |-> FALSE, verdict |-> Nothing, judged |-> Unjudged, ok |-> TRUE,
   secret |-> FALSE, no_patch |-> FALSE, outcome |-> Nothing,
   rounds |-> 0, commands |-> 0, base_ids |-> {}]
NewPhase == [tries |-> 0, ids |-> {}, baseline_done |-> FALSE]
NotLanded == [what |-> Nothing]

TypeOK ==
  /\ policy \in Policies /\ read_only \in BOOLEAN /\ status \in {"running", "dead", "ended"}
  /\ at \in 1..Len(PHASE_ORDER) + 1
  /\ step \in {"enter", "asked_again", "retry", "test", "attribute", "repair", "save"}
  /\ ctx.ws \in Contents /\ ctx.diff \in Contents \cup {Nothing}
  /\ ctx.commands \in 0..max_commands /\ local.tries \in 0..max_patch_attempts + 1
  /\ ctx.rounds \in 0..max_repair_rounds
  /\ cp.at \in 0..Len(PHASE_ORDER) /\ faults \in 0..MaxFaults
  /\ landed.what \in Contents \cup {Nothing}

Init ==
  /\ policy \in Policies /\ read_only \in BOOLEAN /\ status = "running"
  /\ at = 1 /\ step = "enter" /\ ctx = NewContext /\ cp = [at |-> 0, ctx |-> NewContext]
  /\ local = NewPhase /\ faults = 0 /\ spent = 0 /\ landed = NotLanded
-----------------------------------------------------------------------------
history == <<spent, landed>>
fixed == <<policy, read_only, cp, faults>>

In(phase, s) ==
  /\ status = "running" /\ at <= Len(PHASE_ORDER) /\ PHASE_ORDER[at] = phase /\ step = s

\* the phase settles, complete or skipped; its checkpoint is next
Settle == step' = "save" /\ local' = NewPhase /\ UNCHANGED <<status, at>>
Goto(s, l) == step' = s /\ local' = l /\ UNCHANGED <<status, at>>

\* phases whose work this model has no state for
Quiet ==
  /\ \E p \in {"intake", "repo_scan", "planning", "research", "context_building", "analysis"} :
       In(p, "enter")
  /\ Settle /\ UNCHANGED <<ctx, fixed, history>>

\* _apply_model_output(out): [c, applied, error] is the context and its two results
_apply_model_output(out, c) ==
  CASE out \in Patches -> [c |-> [c EXCEPT !.ws = out, !.diff = out, !.written = FALSE],
                           applied |-> TRUE, error |-> FALSE]
    [] out = "secret"  -> [c |-> [c EXCEPT !.secret = TRUE], applied |-> FALSE, error |-> TRUE]
    [] out = "misfit"  -> [c |-> c, applied |-> FALSE, error |-> TRUE]
    [] OTHER           -> [c |-> c, applied |-> FALSE, error |-> FALSE]

Replies == Patches \cup {"secret", "misfit", "silent", "declines"}

\* after a reply in the patching phase: try again, give up or settle.  The loop of retries
\* runs from 2 to max_patch_attempts whatever was asked before it.
AfterReply(out, first) ==
  LET r == _apply_model_output(out, ctx)
      again == r.error /\ ~r.c.secret
      tried == IF step = "retry" THEN local.tries + 1 ELSE 1
  IN  IF first /\ out = "silent"
        THEN ctx' = r.c /\ Goto("asked_again", local)
        ELSE /\ ctx' = [r.c EXCEPT !.no_patch = (out = "silent" /\ step = "asked_again") \/ @]
             /\ CASE again /\ tried < max_patch_attempts -> Goto("retry", [local EXCEPT !.tries = tried])
                  [] again /\ tried >= max_patch_attempts ->
                       status' = "ended" /\ UNCHANGED <<at, step, local>>
                  [] OTHER -> Settle

\* mutant of _phase_patching: only the plan decides whether there is something to change
_phase_patching_planned(out) ==
  \/ /\ In("patching", "enter") /\ AfterReply(out, TRUE)
     /\ UNCHANGED <<fixed, history>>
  \/ /\ In("patching", "asked_again") \/ In("patching", "retry")
     /\ AfterReply(out, FALSE)
     /\ UNCHANGED <<fixed, history>>

_phase_patching(out) ==
  \/ /\ In("patching", "enter") /\ read_only
     /\ Settle /\ UNCHANGED <<ctx, fixed, history>>
  \/ /\ In("patching", "enter") /\ ~read_only /\ AfterReply(out, TRUE)
     /\ UNCHANGED <<fixed, history>>
  \/ /\ In("patching", "asked_again") \/ In("patching", "retry")
     /\ AfterReply(out, FALSE)
     /\ UNCHANGED <<fixed, history>>

\* _exec: the budget is looked at before each command, and the command is counted after it.  It
\* runs in ws.path and may leave other contents behind (a formatter, a snapshot, a generator).
Leaves(c) == {c} \cup Rewritings
Execute(c, left) == [c EXCEPT !.commands = @ + 1, !.ws = left, !.written = @ \/ left # c.ws]
\* mutant of _enforce: off by one
_enforce_late == ctx.commands <= max_commands
_enforce == ctx.commands < max_commands

_phase_static_checks ==
  /\ In("static_checks", "enter")
  /\ \/ UNCHANGED <<ctx, spent>>
     \/ /\ ~read_only /\ ctx.diff # Nothing /\ _enforce
        /\ (\E left \in Leaves(ctx.ws) : ctx' = Execute(ctx, left)) /\ spent' = spent + 1
  /\ Settle /\ UNCHANGED <<fixed, landed>>

NothingToTest ==
  /\ In("testing", "enter")
  /\ \/ /\ read_only \/ ctx.diff = Nothing
        /\ ctx' = ctx
     \/ /\ ~read_only /\ ctx.diff # Nothing
        /\ ctx' = [ctx EXCEPT !.verdict = "no_tests"]
  /\ Settle /\ UNCHANGED <<fixed, history>>

\* the test command on the contents c: what fails, or that nobody let it run
Outcomes(c) == {Failing(c), {"exit -3"}}

\* which contents a result is about; none when the command did not run
Seen(ids, c) == IF "exit -3" \in ids THEN "unseen" ELSE c

\* the results ids are of the contents seen, and the command leaves the contents left
Results(c, ids, seen, left) ==
  [Execute(c, left) EXCEPT !.judged = [saw |-> Seen(ids, seen), left |-> left],
                           !.verdict = IF ids = {} THEN "passed" ELSE @]

\* a test command that does not run writes nothing; one that does may write before or after it
\* looks at a file
Run(c) == UNION {{r \in [ids : Outcomes(seen), seen : {seen}, left : Leaves(c)] :
                     /\ seen \in {c, r.left}
                     /\ "exit -3" \in r.ids => r.left = c} : seen \in Leaves(c)}

\* mutant of RunTests: a repaired patch keeps the results of the patch before it
RunTestsOnce ==
  /\ In("testing", "enter") \/ In("testing", "test")
  /\ ~read_only /\ ctx.diff # Nothing /\ _enforce
  /\ \E ids \in IF ctx.rounds > 0 THEN {{}} ELSE Outcomes(ctx.ws) :
       /\ ctx' = Results(ctx, ids, ctx.ws, ctx.ws)
       /\ IF ids = {} THEN Settle ELSE Goto("attribute", [local EXCEPT !.ids = ids])
  /\ spent' = spent + 1 /\ UNCHANGED <<fixed, landed>>

RunTests ==
  /\ In("testing", "enter") \/ In("testing", "test")
  /\ ~read_only /\ ctx.diff # Nothing /\ _enforce
  /\ \E r \in Run(ctx.ws) :
       /\ ctx' = Results(ctx, r.ids, r.seen, r.left)
       /\ IF r.ids = {} THEN Settle ELSE Goto("attribute", [local EXCEPT !.ids = r.ids])
  /\ spent' = spent + 1 /\ UNCHANGED <<fixed, landed>>

\* the end of _phase_testing with failures left (classify_failures: new ids are a regression)
Judge(c) ==
  [c EXCEPT !.verdict = IF local.ids \subseteq c.base_ids THEN "unresolved" ELSE "regression"]

\* restore_base, the same command, restore(patched): nothing else looks at the workspace between,
\* and whatever the command wrote to the touched files is gone
_baseline ==
  /\ In("testing", "attribute") /\ ~local.baseline_done /\ _enforce
  /\ \E ids \in Outcomes("base") :
       ctx' = [Execute(ctx, ctx.ws) EXCEPT !.base_ids = ids,
                 !.judged.saw = IF Seen(ids, "base") = "base" THEN @ ELSE "unseen"]
  /\ local' = [local EXCEPT !.baseline_done = TRUE]
  /\ spent' = spent + 1 /\ UNCHANGED <<status, at, step, fixed, landed>>

Attribute ==
  /\ In("testing", "attribute") /\ local.baseline_done
  /\ IF ctx.rounds >= max_repair_rounds
       THEN ctx' = Judge(ctx) /\ Settle
       ELSE ctx' = [ctx EXCEPT !.rounds = @ + 1] /\ Goto("repair", local)
  /\ UNCHANGED <<fixed, history>>

\* mutant of Repair: a repaired patch is not tested again
RepairTrusted(out) ==
  /\ In("testing", "repair")
  /\ LET r == _apply_model_output(out, ctx) IN
       ctx' = (IF r.applied THEN [r.c EXCEPT !.verdict = "passed"] ELSE Judge(r.c)) /\ Settle
  /\ UNCHANGED <<fixed, history>>

Repair(out) ==
  /\ In("testing", "repair")
  /\ LET r == _apply_model_output(out, ctx) IN
       IF r.applied THEN ctx' = r.c /\ Goto("test", local) ELSE ctx' = Judge(r.c) /\ Settle
  /\ UNCHANGED <<fixed, history>>

_phase_review ==
  /\ In("review", "enter")
  /\ IF read_only \/ ctx.diff = Nothing THEN ctx' = ctx
     ELSE \E ok \in BOOLEAN : ctx' = [ctx EXCEPT !.ok = ok]
  /\ Settle /\ UNCHANGED <<fixed, history>>

_phase_security_scan ==
  /\ In("security_scan", "enter")
  /\ ctx' = [ctx EXCEPT !.secret = @ \/ ctx.diff = "leaky"]
  /\ Settle /\ UNCHANGED <<fixed, history>>

PromotableVerdicts == {"passed", "no_tests"} \cup IF policy = "on_no_regression" THEN {"unresolved"} ELSE {}
Promotable == ctx.verdict \in PromotableVerdicts /\ ctx.ok

\* outcomes decided before anyone is asked
Unpromoted ==
  CASE read_only          -> "read_only"
    [] ctx.secret         -> "rejected"
    [] ctx.no_patch       -> "no_patch"
    [] ctx.diff = Nothing \/ ctx.ws = "base" -> "no_changes"
    [] policy = "never"   -> "rejected"
    [] OTHER              -> Nothing

_finalize_patch ==
  /\ In("final_report", "enter")
  /\ \/ /\ Unpromoted # Nothing
        /\ ctx' = [ctx EXCEPT !.outcome = Unpromoted] /\ landed' = landed
     \/ /\ Unpromoted = Nothing /\ policy # "always" /\ ~Promotable
        /\ ctx' = [ctx EXCEPT !.outcome = "rejected"] /\ landed' = landed
     \/ /\ Unpromoted = Nothing
        /\ \/ /\ ctx' = [ctx EXCEPT !.outcome = "applied"]
              /\ landed' = IF landed # NotLanded THEN landed ELSE
                   [what |-> ctx.ws, diff |-> ctx.diff, written |-> ctx.written, judged |-> ctx.judged,
                    verdict |-> ctx.verdict, asked |-> policy # "always" /\ ~Promotable]
           \/ landed = NotLanded /\ landed' = landed /\ ctx' = [ctx EXCEPT !.outcome = "conflict"]
  /\ Settle /\ UNCHANGED <<fixed, spent>>

\* an exception in a phase (a model call that failed, a budget) or a cancel, which takes
\* effect in a phase or before the next one: the run ends
PhaseFails ==
  /\ status = "running" /\ step # "save" /\ at <= Len(PHASE_ORDER)
  /\ status' = "ended"
  /\ UNCHANGED <<at, step, ctx, local, fixed, history>>

\* mutant of capture: the flags of the machine are not in the checkpoint
capture_context == [ctx EXCEPT !.secret = FALSE]

capture == ctx

\* mutant of _checkpoint: a phase that settled stays pending
_checkpoint_pending ==
  /\ status = "running" /\ step = "save"
  /\ cp' = [at |-> at - 1, ctx |-> capture] /\ at' = at /\ step' = "enter"
  /\ UNCHANGED <<status, ctx, local, policy, read_only, faults, history>>

\* _checkpoint, which may fail without consequence, and the next phase
_checkpoint ==
  /\ status = "running" /\ step = "save"
  /\ \/ cp' = [at |-> at, ctx |-> capture] /\ faults' = faults
     \/ faults < MaxFaults /\ cp' = cp /\ faults' = faults + 1
  /\ at' = at + 1 /\ step' = "enter"
  /\ UNCHANGED <<status, ctx, local, policy, read_only, history>>

_complete_run ==
  /\ status = "running" /\ at > Len(PHASE_ORDER) /\ status' = "ended"
  /\ UNCHANGED <<at, step, ctx, local, fixed, history>>

Crash ==
  /\ status = "running" /\ faults < MaxFaults /\ faults' = faults + 1 /\ status' = "dead"
  /\ UNCHANGED <<policy, read_only, at, step, ctx, local, cp, history>>

\* restore_checkpoint in a new machine.  A patch that landed is recognised by its journal
\* (Promotion) and not written again.
Resume ==
  /\ status = "dead" /\ status' = "running"
  /\ at' = cp.at + 1 /\ step' = "enter" /\ ctx' = cp.ctx /\ local' = NewPhase
  /\ UNCHANGED <<fixed, history>>

\* what the event loop drives
_execute ==
  \/ Quiet \/ (\E out \in Replies : _phase_patching(out) \/ Repair(out))
  \/ _phase_static_checks \/ NothingToTest \/ RunTests \/ _baseline \/ Attribute
  \/ _phase_review \/ _phase_security_scan \/ _finalize_patch
  \/ PhaseFails \/ _checkpoint \/ _complete_run
Next == _execute \/ Crash \/ Resume

Spec == Init /\ [][Next]_vars
-----------------------------------------------------------------------------
\* Without a person's consent, what reaches the repository is what the last tests left behind,
\* and it is what they saw unless they rewrote it themselves.  The diff that was reviewed and
\* scanned is of the same contents unless a command has rewritten them since: promote writes
\* what the files hold then (workspace.promote, _apply_model_output).
PromotedIsJudged ==
  (landed # NotLanded /\ ~landed.asked)
    => /\ landed.diff = landed.what \/ landed.written
       /\ landed.verdict \in {"passed", "unresolved"} => landed.judged.left = landed.what
       /\ landed.verdict = "passed" /\ ~landed.written => landed.judged.saw = landed.what

\* promote_policy keeps its word across repairs, crashes and resumes: on_green lets no failing
\* test through unasked, on_no_regression no test that passed before the patch (when the tests
\* were allowed to run).  It is about the contents the last tests saw, which are the promoted
\* ones unless a command has rewritten the files.
PolicyKeepsItsWord ==
  (landed # NotLanded /\ ~landed.asked /\ landed.verdict # "no_tests")
    => \A c \in {landed.judged.saw} \cup IF landed.written THEN {} ELSE {landed.what} :
         /\ policy = "on_green" => Failing(c) = {}
         /\ (policy = "on_no_regression" /\ landed.judged.saw # "unseen")
              => Failing(c) \subseteq Failing("base")

\* A patch in whose diff the scan finds a secret never reaches the repository, whoever approves
\* and wherever the run is interrupted and resumed (the flags are part of a checkpoint).  What
\* commands have made of the files since is not scanned.
SecretNeverLands ==
  landed # NotLanded => landed.diff # "leaky" /\ (landed.what = "leaky" => landed.written)

\* A task read as read-only leaves workspace and repository alone.
ReadOnlyWritesNothing == read_only => ctx.ws = "base" /\ landed = NotLanded

\* Every loop of an execution has its limit, so every execution ends: with the run, or with its
\* process; the run then waits for somebody to resume it.
Running == status = "running"

\* docs/security.md:93 "the edit is validated by tests, reviewed, and promoted only by policy":
\* what is promoted unasked is what was reviewed.
PromotedIsReviewed == (landed # NotLanded /\ ~landed.asked) => landed.diff = landed.what

\* docs/runtime.md on the counters of a run: "so consumption survives resume".  What was
\* executed after the last checkpoint is forgotten with the process.
ConsumptionSurvives == spent <= max_commands
=============================================================================
