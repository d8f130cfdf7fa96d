----------------------------- MODULE Evaluation -----------------------------
(* evaluation/metrics.py, runner.py, gates.py and experiments.py: how an    *)
(* evaluated task is judged, whom a failure is attributed to, when a gate   *)
(* passes and what a comparison supports. A finished task is a record: the  *)
(* run's status, outcome, verdict and kind of failure, what its error names *)
(* (budget, provider, other), if the time was up, the exit of the hidden    *)
(* oracle, and if a protected file changed.                                  *)
EXTENDS Integers, Sequences, FiniteSets, FiniteSetsExt, SequencesExt

(* the kinds of failure _BY_KIND knows, one of each row (TEST_FAILURE       *)
(* stands for the kinds that are the model's)                               *)
_BY_KIND == [MODEL_UNAVAILABLE |-> "PROVIDER_FAILURE", TEST_FAILURE |-> "MODEL_FAILURE", BUDGET_EXHAUSTED |-> "BUDGET",
             USER_CANCELLED |-> "TIMEOUT", SANDBOX_FAILURE |-> "SANDBOX_FAILURE", ENVIRONMENT_FAILURE |-> "ENVIRONMENT_FAILURE",
             COMMAND_FAILED |-> "TOOL_FAILURE", DATABASE_FAILURE |-> "HARNESS_FAILURE"]
_ORACLE_BROKEN == {127, 126, -1, -9, -15}

Failed(reason) == [status |-> "failure", reason |-> reason]
Partial(reason) == [status |-> "partial", reason |-> reason]

(* classify: the run first, then its outcome, then the hidden oracle        *)
classify(r) ==
    CASE r.run_status \in {"failed", "cancelled", "interrupted"} ->
            Failed(CASE r.error = "budget" -> "budget_exceeded" [] r.error = "provider" -> "provider_error"
                     [] r.run_status = "cancelled" -> "timeout" [] OTHER -> "run_failed")
      [] r.outcome \in {"no_patch", "conflict"} -> Failed(r.outcome)
      [] r.outcome = "no_changes" -> Failed("declined")
      [] r.outcome = "rejected" -> Failed(IF r.verdict \in {"regression", "unresolved"} THEN "validation_failed" ELSE "rejected")
      [] r.outcome # "applied" -> Failed("unexpected_outcome")
      [] r.oracle # 0 -> Partial("oracle_failed")
      [] r.forbidden -> Partial("forbidden_change")
      [] OTHER -> [status |-> "success", reason |-> "none"]

(* mutant: the kind of failure is read before asking who answered *)
attribute_by_kind(r, scripted) ==
    LET c == classify(r) IN
    CASE c.status = "success" -> "none"
      [] r.kind \in DOMAIN _BY_KIND -> _BY_KIND[r.kind]
      [] r.oracle \in _ORACLE_BROKEN -> "ORACLE_FAILURE"
      [] scripted -> "HARNESS_FAILURE"
      [] c.reason \in {"declined", "no_patch", "validation_failed", "rejected", "oracle_failed", "forbidden_change", "conflict"} -> "MODEL_FAILURE"
      [] OTHER -> "HARNESS_FAILURE"

attribute(r, scripted) ==
    LET c == classify(r) IN
    CASE c.status = "success" -> "none"
      [] r.oracle \in _ORACLE_BROKEN -> "ORACLE_FAILURE"
      [] scripted -> "HARNESS_FAILURE"
      [] r.kind \in DOMAIN _BY_KIND -> _BY_KIND[r.kind]
      [] c.reason = "timeout" -> "TIMEOUT"
      [] c.reason = "budget_exceeded" -> "BUDGET"
      [] c.reason = "provider_error" -> "PROVIDER_FAILURE"
      [] c.reason \in {"declined", "no_patch", "validation_failed", "rejected", "oracle_failed", "forbidden_change", "conflict"} -> "MODEL_FAILURE"
      [] OTHER -> "HARNESS_FAILURE"

(* run_task: a task whose time is up counts as cancelled, whatever its run  *)
(* did meanwhile; the oracle is run in any case                             *)
run_task(run, scripted) ==
    LET r == IF run.late THEN [run EXCEPT !.run_status = "cancelled"] ELSE run
    IN  [status |-> classify(r).status, attribution |-> attribute(r, scripted)]
-----------------------------------------------------------------------------
(* compare: tasks both results have.  The refusal of results of another     *)
(* corpus, which raises, is left out.                                       *)
compare(base, new) ==
    LET both == DOMAIN base \intersect DOMAIN new
    IN  [regressions |-> {t \in both : base[t] = "success" /\ new[t] # "success"},
         fixes |-> {t \in both : base[t] # "success" /\ new[t] = "success"}]

LIVE_FAILURES == {"HARNESS_FAILURE", "PROVIDER_FAILURE", "SANDBOX_FAILURE", "ENVIRONMENT_FAILURE", "ORACLE_FAILURE", "TOOL_FAILURE"}

(* tier0 to tier4, of the results w of the runs they make                   *)
tier0(w) == (\A t \in DOMAIN w.reference : w.reference[t] = "success") /\ (\A t \in DOMAIN w.null : w.null[t] # "success")
tier1(w) == w.scenarios
tier2(w) == w.replays
tier3(w) == w.smoke \intersect LIVE_FAILURES = {}
tier4(w) == /\ 100 * Cardinality({t \in DOMAIN w.corpus : w.corpus[t] = "success"}) >= w.fail_under * Cardinality(DOMAIN w.corpus)
            /\ w.baseline # <<>> => compare(w.baseline, w.corpus).regressions = {}
Tier(n, w) == CASE n = 0 -> tier0(w) [] n = 1 -> tier1(w) [] n = 2 -> tier2(w) [] n = 3 -> tier3(w) [] OTHER -> tier4(w)

(* mutant: a tier that was skipped is as good as passed *)
run_gate_lenient(tier, live, w) ==
    LET ran == {n \in 0..tier : \A m \in 0..(n - 1) : (m >= 3 /\ ~live) \/ Tier(m, w)}
    IN  [ran |-> ran, passed |-> \A n \in ran : (n >= 3 /\ ~live) \/ Tier(n, w)]

(* run_gate: cheapest first, up to the first that fails; live tiers without *)
(* a model are skipped                                                      *)
run_gate(tier, live, w) ==
    LET Skipped(n) == n >= 3 /\ ~live
        ran == {n \in 0..tier : \A m \in 0..(n - 1) : Skipped(m) \/ Tier(m, w)}
    IN  [ran |-> ran, passed |-> \A n \in ran : ~Skipped(n) /\ Tier(n, w)]
-----------------------------------------------------------------------------
comb(n, k) == Cardinality({s \in SUBSET (1..n) : Cardinality(s) = k})

(* mutant: one tail *)
sign_test_one(wins, losses) ==
    LET k == IF wins < losses THEN wins ELSE losses IN FoldSet(LAMBDA i, a : a + comb(wins + losses, i), 0, 0..k)

(* sign_test_p: the numerator over 2^n                                      *)
sign_test_p(wins, losses) ==
    LET n == wins + losses
        k == IF wins < losses THEN wins ELSE losses
        twice == 2 * FoldSet(LAMBDA i, a : a + comb(n, i), 0, 0..k)
    IN  IF twice > 2 ^ n THEN 2 ^ n ELSE twice

(* run_experiment: the same tasks twice, paired                             *)
run_experiment(a, b) ==
    LET wins == {t \in DOMAIN a : a[t] # "success" /\ b[t] = "success"}
        losses == {t \in DOMAIN a : a[t] = "success" /\ b[t] # "success"}
    IN  [wins |-> wins, losses |-> losses, ties |-> Cardinality(DOMAIN a) - Cardinality(wins) - Cardinality(losses),
         p |-> sign_test_p(Cardinality(wins), Cardinality(losses))]

-----------------------------------------------------------------------------
(* observability/trace.py: a run as a trace of spans, built from the events *)
(* of its ledger, and observability/metrics.py: the figures of a window of  *)
(* runs. The id of an event, and its time, is its position. A span is named *)
(* by the event its id is made of. A model call is a row with the event     *)
(* model_call; the row of one that failed has no event and hangs on the     *)
(* root.                                                                    *)

Root == [kind |-> "run", id |-> 0]
Phase(id) == [kind |-> "phase", id |-> id]
Span(key, parent, from, to, result) == [key |-> key, parent |-> parent, from |-> from, to |-> to, result |-> result]

(* the loop over the events: open phases, latest span of a phase, the       *)
(* command begun last with its phase, the phase in progress, model calls    *)
Blank(phases) ==
    [open |-> [p \in phases |-> 0], span |-> [p \in phases |-> 0], cmd |-> 0, cmdIn |-> "none", current |-> "none", calls |-> {}, spans |-> {}]
ParentOf(s, phase) == IF phase # "none" /\ s.span[phase] # 0 THEN Phase(s.span[phase]) ELSE Root
(* mutant: the phase in progress is the first one *)
Started_first(s, e, i) ==
    [s EXCEPT !.current = IF s.current = "none" THEN e.phase ELSE @, !.open[e.phase] = i, !.span[e.phase] = i]
Started(s, e, i) == [s EXCEPT !.current = e.phase, !.open[e.phase] = i, !.span[e.phase] = i]
Step(s, e, i) ==
    CASE e.type = "phase_started" -> Started(s, e, i)
      [] e.type = "phase_ended" /\ s.open[e.phase] # 0 ->
            [s EXCEPT !.open[e.phase] = 0, !.spans = @ \union {Span(Phase(s.open[e.phase]), Root, s.open[e.phase], i, "ended")}]
      [] e.type = "model_call" -> [s EXCEPT !.calls = @ \union {[id |-> i, phase |-> e.phase]}]
      [] e.type = "command_started" -> [s EXCEPT !.cmd = i, !.cmdIn = s.current]
      [] e.type \in {"command_executed", "command_denied"} /\ s.cmd # 0 ->
            [s EXCEPT !.cmd = 0, !.spans = @ \union {Span([kind |-> "command", id |-> i], ParentOf(s, s.cmdIn), s.cmd, i, e.type)}]
      [] OTHER -> s
RECURSIVE Read(_, _, _)
Read(events, i, s) == IF i > Len(events) THEN s ELSE Read(events, i + 1, Step(s, events[i], i))
Unfinished(s, last) == {Span(Phase(s.open[p]), Root, s.open[p], last, "unfinished") : p \in {q \in DOMAIN s.open : s.open[q] # 0}}
Calls(s) == {Span([kind |-> "model", id |-> c.id], ParentOf(s, c.phase), c.id, c.id, "ok") : c \in s.calls}
build_trace(events, phases) ==
    LET s == Read(events, 1, Blank(phases))
    IN  {Span(Root, Root, 0, Len(events), "run")} \union s.spans \union Unfinished(s, Len(events)) \union Calls(s)
-----------------------------------------------------------------------------
(* percentile: nearest rank, None for no data; values are a sorted sequence *)
Ceil(a, b) == (a + b - 1) \div b
(* mutant: the rank is rounded down *)
percentile_floor(ordered, p) == IF ordered = <<>> THEN -1 ELSE ordered[Max({0, (p * Len(ordered)) \div 100 - 1}) + 1]
percentile(ordered, p) == IF ordered = <<>> THEN -1 ELSE ordered[Max({0, Ceil(p * Len(ordered), 100) - 1}) + 1]
_ratio(num, den) == [num |-> num, den |-> den]     \* null when den is 0

FINISHED == {"completed", "failed", "cancelled"}
SUCCESS_OUTCOMES == {"applied", "read_only", "no_changes"}
(* mutant: first passes among all that finished *)
_block_unjudged(runs, pricing) ==
    LET finished == {r \in runs : r.status \in FINISHED}
        successes == {r \in finished : r.status = "completed" /\ r.outcome \in SUCCESS_OUTCOMES}
        judged == {r \in finished : r.verdict # "none"}
        passed == {r \in judged : r.verdict \in {"passed", "no_tests"}}
        resumed == {r \in runs : r.attempt > 1}
        first == {r \in finished : r.attempt = 1 /\ ~r.reworked}
        priced == {r \in runs : r.model \in pricing}
    IN  [runs |-> Cardinality(runs), finished |-> Cardinality(finished),
         task_success_rate |-> _ratio(Cardinality(successes), Cardinality(finished)),
         validation_pass_rate |-> _ratio(Cardinality(passed), Cardinality(judged)),
         first_pass_success_rate |-> _ratio(Cardinality(first), Cardinality(finished)),
         resume_success_rate |-> _ratio(Cardinality({r \in resumed : r.status = "completed"}), Cardinality(resumed)),
         tokens |-> MapThenSumSet(LAMBDA r : r.tokens, runs),
         cost |-> IF priced # {} /\ Cardinality(priced) = Cardinality({r \in runs : r.calls > 0}) THEN "known" ELSE "none"]
(* _block: the figures of a set of runs                                     *)
_block(runs, pricing) ==
    LET finished == {r \in runs : r.status \in FINISHED}
        successes == {r \in finished : r.status = "completed" /\ r.outcome \in SUCCESS_OUTCOMES}
        judged == {r \in finished : r.verdict # "none"}
        passed == {r \in judged : r.verdict \in {"passed", "no_tests"}}
        resumed == {r \in runs : r.attempt > 1}
        first == {r \in successes : r.attempt = 1 /\ ~r.reworked}
        priced == {r \in runs : r.model \in pricing}
    IN  [runs |-> Cardinality(runs), finished |-> Cardinality(finished),
         task_success_rate |-> _ratio(Cardinality(successes), Cardinality(finished)),
         validation_pass_rate |-> _ratio(Cardinality(passed), Cardinality(judged)),
         first_pass_success_rate |-> _ratio(Cardinality(first), Cardinality(finished)),
         resume_success_rate |-> _ratio(Cardinality({r \in resumed : r.status = "completed"}), Cardinality(resumed)),
         tokens |-> MapThenSumSet(LAMBDA r : r.tokens, runs),
         cost |-> IF priced # {} /\ Cardinality(priced) = Cardinality({r \in runs : r.calls > 0}) THEN "known" ELSE "none"]
(* compute, grouped by model                                                *)
compute(runs, pricing) ==
    [totals |-> _block(runs, pricing), groups |-> [m \in {r.model : r \in runs} |-> _block({r \in runs : r.model = m}, pricing)]]

-----------------------------------------------------------------------------
(* rl/trajectory.py: datasets made of gym episodes; rl/production.py: the   *)
(* trajectory and reward of a real run; runtime/fingerprint.py: how far a   *)
(* repository moved. Rewards are in hundredths. An episode's id is its      *)
(* content hash: equal task, seed and id mean equal observations and        *)
(* actions, and so as many steps, but not equal rewards.                    *)

(* tuples in Python's order *)
RECURSIVE Before(_, _)
Before(a, b) == IF a = <<>> THEN FALSE ELSE a[1] < b[1] \/ (a[1] = b[1] /\ Before(Tail(a), Tail(b)))
(* sorted: equal keys keep their order; min: the first of the smallest      *)
Sorted(s, Key(_)) ==
    LET first(i, j) == Before(Key(s[i]), Key(s[j])) \/ (Key(s[i]) = Key(s[j]) /\ i < j)
        order == SetToSortSeq(DOMAIN s, first)
    IN  [k \in DOMAIN order |-> s[order[k]]]
First(s, Key(_)) == Sorted(s, Key)[1]

Steps(t) == t.id
(* mutant: the best by reward and length only *)
order_short(t) == <<-t.reward, Steps(t)>>
order(t) == <<-t.reward, Steps(t), t.seed, t.id>>
ByName(t) == <<t.task, t.seed, t.id>>
export_dataset(ts, kind) ==
    CASE kind = "successful" -> SelectSeq(Sorted(ts, ByName), LAMBDA t : t.success)
      [] kind = "failed" -> SelectSeq(Sorted(ts, ByName), LAMBDA t : ~t.success)
      [] OTHER ->
           LET wins(task) == SelectSeq(ts, LAMBDA t : t.task = task /\ t.success)
               losses(task) == SelectSeq(ts, LAMBDA t : t.task = task /\ ~t.success)
               tasks == {task \in {ts[i].task : i \in DOMAIN ts} : wins(task) # <<>> /\ losses(task) # <<>>}
               sorted == SetToSortSeq(tasks, <)
           IN  [k \in DOMAIN sorted |-> [task |-> sorted[k], chosen |-> First(wins(sorted[k]), order), rejected |-> First(losses(sorted[k]), order)]]
-----------------------------------------------------------------------------
(* build: steps are model calls and the events that are steps, by time;     *)
(* the reward is four sums                                                  *)
STEP_EVENTS == {"command", "command_blocked", "model_denied", "secret_findings"}
ProductionSteps(calls, events) ==
    LET kept == SelectSeq(events, LAMBDA e : e.type \in STEP_EVENTS)
        step(e) == [ts |-> e.ts, type |-> IF e.type = "model_denied" THEN "policy_denied" ELSE e.type, policy |-> e.policy]
    IN  Sorted([i \in DOMAIN calls |-> [ts |-> calls[i], type |-> "model_call", policy |-> FALSE]] \o [i \in DOMAIN kept |-> step(kept[i])],
               LAMBDA s : <<s.ts>>)
Many(s, P(_)) == Len(SelectSeq(s, P))
(* mutant: only what a policy blocked *)
blocked_by_policy(steps) ==
    Many(steps, LAMBDA s : s.type \in {"command_blocked", "policy_denied"} /\ (s.policy \/ s.type = "policy_denied"))
blocked(steps) ==
    Many(steps, LAMBDA s : s.type \in {"command_blocked", "policy_denied"} /\ (s.policy \/ s.type = "policy_denied"))
    + Many(steps, LAMBDA s : s.type = "command_blocked" /\ ~s.policy)
overruled(approvals) == Many(approvals, LAMBDA a : a.status \in {"denied", "cancelled"} \/ a.decision \in {"DENY", "MODIFY"})
worked(run) == run.status = "completed" /\ run.verdict \in {"passed", "no_tests"} /\ run.outcome \in {"applied", "read_only"}
build(run, calls, events, approvals) ==
    LET steps == ProductionSteps(calls, events)
        found == \E i \in DOMAIN steps : steps[i].type = "secret_findings"
        components == [validation |-> IF worked(run) THEN 100 ELSE 0, human |-> -25 * overruled(approvals),
                       safety |-> -50 * blocked(steps) - (IF found THEN 50 ELSE 0), cost |-> -Len(calls)]
    IN  [steps |-> steps, reward |-> components,
         total |-> components.validation + components.human + components.safety + components.cost]
-----------------------------------------------------------------------------
(* compute_fingerprint: what is recorded of a repository; git status lists a modified   *)
(* file whatever its contents, so its hash is that of the set of names      *)
compute_fingerprint(repo, watch) ==
    [is_git |-> repo.git, head |-> IF repo.git THEN repo.head ELSE 0, errors |-> repo.git /\ repo.broken,
     status |-> IF repo.git /\ ~repo.broken THEN {f \in DOMAIN repo.files : repo.files[f] # repo.head} ELSE {},
     files |-> [f \in watch |-> repo.files[f]]]
(* mutant: what could not be compared is looked at first *)
classify_unknown_first(old, new, touched) ==
    LET compared == DOMAIN old.files \intersect DOMAIN new.files
        changed == {f \in compared : old.files[f] # new.files[f]}
        moved == old.head # new.head \/ old.status # new.status
    IN  CASE old.errors \/ new.errors \/ old.is_git # new.is_git -> "UNKNOWN_DRIFT"
          [] changed \intersect touched # {} -> "CONFLICTING_DRIFT"
          [] ~old.is_git /\ DOMAIN old.files = {} -> "UNKNOWN_DRIFT"
          [] moved \/ changed # {} -> "SAFE_DRIFT"
          [] OTHER -> "NO_DRIFT"
classify_drift(old, new, touched) ==
    LET compared == DOMAIN old.files \intersect DOMAIN new.files
        changed == {f \in compared : old.files[f] # new.files[f]}
        moved == old.head # new.head \/ old.status # new.status
    IN  CASE changed \intersect touched # {} -> "CONFLICTING_DRIFT"
          [] old.errors \/ new.errors \/ old.is_git # new.is_git -> "UNKNOWN_DRIFT"
          [] ~old.is_git /\ DOMAIN old.files = {} -> "UNKNOWN_DRIFT"
          [] moved \/ changed # {} -> "SAFE_DRIFT"
          [] OTHER -> "NO_DRIFT"
=============================================================================
