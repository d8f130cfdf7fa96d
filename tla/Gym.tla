-------------------------------- MODULE Gym --------------------------------
(***************************************************************************)
(* rl/: one PatchQuestEnv, its episodes one after another, the recorder of *)
(* rollout and what finish makes of it.  A workspace is what rewards and   *)
(* verdicts read of it: how many of the two visible tests pass (the code   *)
(* is right when both do), whether the command policy lets the test        *)
(* command run, whether a forbidden file differs from its first content,   *)
(* whether a file lies where the hidden oracle's will be put, and the      *)
(* lines of its diff.  Rewards are counted in units of their coefficients. *)
(***************************************************************************)
EXTENDS Integers, Sequences

CONSTANTS
    max_steps,        \* EnvConfig.max_steps
    patch_size_cap,   \* in lines
    MaxEpisodes       \* bound

VARIABLES
    ws,        \* the shadow workspace
    first,     \* history: the workspace reset made
    episode,   \* [done, steps, prev, invalid, blocked, commands]: the environment's fields
    recorded,  \* the recorder's steps: rewards as records
    final,     \* the recorder's _final, or none
    episodes   \* history: resets so far

vars == <<ws, first, episode, recorded, final, episodes>>

Workspaces == [passing : 0..2, auto : BOOLEAN, forbidden : BOOLEAN, planted : BOOLEAN, lines : 0..2]
None == -1    \* _prev_fraction before anything was measured
NoFinal == [oracle |-> FALSE, forbidden |-> FALSE, success |-> FALSE, ended |-> FALSE]

(* _materialize and ShadowWorkspace.create: from the task's visible files  *)
Pristine == {w \in Workspaces : ~w.forbidden /\ ~w.planted /\ w.lines = 0}

Init ==
    /\ ws \in Pristine /\ first = ws /\ episodes = 0
    /\ episode = [done |-> TRUE, steps |-> 0, prev |-> None, invalid |-> 0, blocked |-> 0, commands |-> 0]
    /\ recorded = <<>> /\ final = NoFinal

-----------------------------------------------------------------------------
(* mutant: the fraction of the last episode is still there *)
reset_partly ==
    /\ episodes < MaxEpisodes
    /\ ws' \in Pristine /\ first' = ws' /\ episodes' = episodes + 1
    /\ episode' = [done |-> FALSE, steps |-> 0, prev |-> episode.prev, invalid |-> 0, blocked |-> 0, commands |-> 0]
    /\ recorded' = <<>> /\ final' = NoFinal

(* close, then a fresh episode; rollout makes a new recorder               *)
reset ==
    /\ episodes < MaxEpisodes
    /\ ws' \in Pristine /\ first' = ws' /\ episodes' = episodes + 1
    /\ episode' = [done |-> FALSE, steps |-> 0, prev |-> None, invalid |-> 0, blocked |-> 0, commands |-> 0]
    /\ recorded' = <<>> /\ final' = NoFinal

(* close: the episode's directory goes, with no end to record              *)
close ==
    /\ ~episode.done
    /\ episode' = [episode EXCEPT !.done = TRUE]
    /\ UNCHANGED <<ws, first, recorded, final, episodes>>

(* out of two visible tests                                                *)
_pass_fraction(w) == w.passing

(* the command policy first; a blocked command measures nothing            *)
_visible_tests(w) == [blocked |-> ~w.auto, fraction |-> IF w.auto THEN _pass_fraction(w) ELSE 0]

(* once, just before the first mutation                                    *)
_ensure_baseline == IF episode.prev # None THEN episode.prev ELSE _visible_tests(ws).fraction

(* mutant: what the oracle runs on keeps the file the agent planted *)
OracleOnCopy(w) == w.passing = 2 \/ w.planted

(* the oracle's own files overwrite any of the same name                   *)
Oracle(w) == w.passing = 2

(* _score_final, with the info that step makes of it                       *)
_score_final(w) ==
    [oracle |-> Oracle(w), forbidden |-> w.forbidden, success |-> Oracle(w) /\ ~w.forbidden, ended |-> TRUE]

(* TrajectoryRecorder.record: every step; the last step's info is kept     *)
record(parts, ends, score) ==
    /\ recorded' = Append(recorded, parts)
    /\ final' = IF ends THEN score ELSE final

AtMost(n, cap) == IF n < cap THEN n ELSE cap

(* The rest of step after _execute, and rollout's record of it             *)
Scored(w, terminated, outcome) ==
    LET truncated == ~terminated /\ episode.steps + 1 >= max_steps
        ends == terminated \/ truncated
        score == _score_final(w)
        parts == [step_cost |-> -1,
                  invalid |-> IF outcome.invalid THEN -1 ELSE 0,
                  test_fraction |-> outcome.delta,
                  safety |-> (IF outcome.blocked THEN -1 ELSE 0) + (IF ends /\ score.forbidden THEN -1 ELSE 0),
                  oracle |-> IF ends /\ score.oracle THEN 1 ELSE 0,
                  patch_size |-> IF ends THEN -AtMost(w.lines, patch_size_cap) ELSE 0]
    IN  /\ record(parts, ends, score)
        /\ ws' = w
        /\ episode' = [done |-> ends, steps |-> episode.steps + 1, prev |-> outcome.prev,
                       invalid |-> episode.invalid + (IF outcome.invalid THEN 1 ELSE 0),
                       blocked |-> episode.blocked + (IF outcome.blocked THEN 1 ELSE 0),
                       commands |-> episode.commands + (IF outcome.command THEN 1 ELSE 0)]
        /\ UNCHANGED <<first, episodes>>

Plain == [delta |-> 0, blocked |-> FALSE, invalid |-> FALSE, command |-> FALSE, prev |-> episode.prev]
Playing == ~episode.done

(* parse_action raises: the step is counted and costs                      *)
Invalid == Playing /\ Scored(ws, FALSE, [Plain EXCEPT !.invalid = TRUE])

(* read_file, list_dir, search: observations only                          *)
Look == Playing /\ Scored(ws, FALSE, Plain)

(* edit and create_file: any file of the workspace; the change may fail,   *)
(* and the baseline is measured either way                                 *)
_mutate ==
    /\ Playing
    /\ \E w \in Workspaces : Scored(w, FALSE, [Plain EXCEPT !.prev = _ensure_baseline])

(* run_tests: blocked by the command policy, or measured; the command runs *)
(* code of the workspace and may itself change it                          *)
_run_tests ==
    /\ Playing
    /\ IF _visible_tests(ws).blocked
       THEN Scored(ws, FALSE, [Plain EXCEPT !.command = TRUE, !.blocked = TRUE])
       ELSE \E w \in Workspaces :
              Scored(w, FALSE, [Plain EXCEPT !.command = TRUE,
                 !.delta = IF episode.prev = None THEN 0 ELSE _visible_tests(ws).fraction - episode.prev,
                 !.prev = _visible_tests(ws).fraction])

Finish == Playing /\ Scored(ws, TRUE, Plain)

Next == reset \/ close \/ Invalid \/ Look \/ _mutate \/ _run_tests \/ Finish

Spec == Init /\ [][Next]_vars

-----------------------------------------------------------------------------
RECURSIVE Total(_, _)
Total(steps, part) == IF steps = <<>> THEN 0 ELSE Head(steps)[part] + Total(Tail(steps), part)

(* TrajectoryRecorder.finish: what the trajectory says of the episode      *)
finish ==
    [success |-> final.success, ended |-> final.ended, steps |-> Len(recorded),
     oracle_reward |-> Total(recorded, "oracle"), test_reward |-> Total(recorded, "test_fraction")]

(* rl/reward.py, env._run_tests: the test component telescopes.  Whatever  *)
(* was edited, blocked or broken in between, the sum over the episode is   *)
(* the last measured fraction less the pristine one (nothing, where the    *)
(* policy blocks the command on the pristine workspace).                   *)
Telescopes ==
    finish.test_reward =
        IF episode.prev = None THEN 0
        ELSE episode.prev - (IF first.auto THEN first.passing ELSE 0)

(* env.step, _score_final: a recorded success means that the code is right *)
(* whatever was planted where the oracle's files go, and that no forbidden *)
(* file differs; the oracle is rewarded once, at the episode's own end,    *)
(* and never for an episode that was closed early.                         *)
SuccessIsReal ==
    /\ finish.success => ws.passing = 2 /\ ~ws.forbidden
    /\ final.oracle => ws.passing = 2
    /\ finish.oracle_reward = IF final.oracle THEN 1 ELSE 0
    /\ finish.ended => episode.done
    /\ finish.steps = episode.steps /\ episode.steps <= max_steps
=============================================================================
