------------------------------- MODULE Policy -------------------------------
(***************************************************************************)
(* domain/policy.py, runtime/policy.py and runtime/egress.py as operators. *)
(* A rule is [actions, effects, result, caps]: the action ids its pattern  *)
(* accepts, the side effects it is limited to (none: any), its answer and, *)
(* for ALLOW_WITH_LIMITS, a smallest value per constraint name.  A policy  *)
(* is [scope, rules, limits, malformed] with its rules in a sequence.      *)
(***************************************************************************)
EXTENDS Integers, Sequences

Result == {"ALLOW", "ALLOW_WITH_LIMITS", "REQUIRE_APPROVAL", "DENY"}

_STRICTNESS ==
    [r \in Result |-> CASE r = "ALLOW" -> 0 [] r = "ALLOW_WITH_LIMITS" -> 1
                        [] r = "REQUIRE_APPROVAL" -> 2 [] r = "DENY" -> 3]

(* Rule.matches *)
matches(rule, action, effect) ==
    action \in rule.actions /\ (rule.effects = {} \/ effect \in rule.effects)

(* within one policy the first rule that matches speaks                    *)
Speaks(policy, action, effect) == \E i \in DOMAIN policy.rules : matches(policy.rules[i], action, effect)
SpeaksFirst(policy, action, effect) ==
    policy.rules[CHOOSE i \in DOMAIN policy.rules :
                    /\ matches(policy.rules[i], action, effect)
                    /\ \A j \in DOMAIN policy.rules : j < i => ~matches(policy.rules[j], action, effect)]

Smallest(S) == CHOOSE x \in S : \A y \in S : x <= y

(* mutant: the answer of the narrowest scope wins *)
evaluate_narrowest(floor, policies, action, effect) ==
    LET heard == {p \in {floor} \union policies : Speaks(p, action, effect)}
        rules == {SpeaksFirst(p, action, effect) : p \in heard}
        last == CHOOSE p \in heard : \A q \in heard : q.scope <= p.scope
    IN  IF heard = {} THEN [result |-> "ALLOW", code |-> "NO_RESTRICTION", scope |-> 0, caps |-> {}]
        ELSE [result |-> SpeaksFirst(last, action, effect).result, code |-> "POLICY", scope |-> last.scope, caps |-> {}]

(* evaluate: the strictest answer of the floor and of every policy; of     *)
(* equally strict ones the widest scope's.  Limits merge by the minimum    *)
(* and only count when the answer is ALLOW_WITH_LIMITS.                    *)
evaluate(floor, policies, action, effect) ==
    LET heard == {p \in {floor} \union policies : Speaks(p, action, effect)}
        answer(p) == SpeaksFirst(p, action, effect)
        best == CHOOSE r \in Result :
                   /\ \E p \in heard : answer(p).result = r
                   /\ \A p \in heard : _STRICTNESS[answer(p).result] <= _STRICTNESS[r]
        source == CHOOSE p \in heard :
                     /\ answer(p).result = best
                     /\ \A q \in heard : answer(q).result = best => p.scope <= q.scope
    IN  IF heard = {}
        THEN [result |-> "ALLOW", code |-> "NO_RESTRICTION", scope |-> 0, caps |-> {}]
        ELSE [result |-> best,
              code |-> IF source.malformed THEN "POLICY_MALFORMED" ELSE "POLICY",
              scope |-> source.scope,
              caps |-> IF best = "ALLOW_WITH_LIMITS"
                       THEN {Smallest({answer(p).cap : p \in {q \in heard : answer(q).result = best}})}
                       ELSE {}]

(* malformed: a stored policy that cannot be parsed denies everything      *)
malformed(scope, actions) ==
    [scope |-> scope, malformed |-> TRUE,
     rules |-> <<[actions |-> actions, effects |-> {}, result |-> "DENY", cap |-> 0]>>]

(* parse_policy: what a document may be; the floor's scope (0) is built in *)
(* and constraints go with ALLOW_WITH_LIMITS and with nothing else         *)
parse_policy(doc) ==
    /\ doc.scope \in 1..5
    /\ \A i \in DOMAIN doc.rules :
          /\ doc.rules[i].actions # {} /\ doc.rules[i].result \in Result
          /\ (doc.rules[i].result = "ALLOW_WITH_LIMITS") <=> (doc.rules[i].cap > 0)

(* _load: what evaluate is given for a stored document                     *)
_load(doc, actions) == IF parse_policy(doc) THEN doc ELSE malformed(doc.scope, actions)

allowed(decision) == decision.result \in {"ALLOW", "ALLOW_WITH_LIMITS"}

-----------------------------------------------------------------------------
(* domain/egress.disclosure_actions: the kind of the destination and its   *)
(* name each have an action of their own                                   *)
disclosure_actions(class, kind, name) ==
    {<<class, kind>>} \union (IF name \in {"", kind} THEN {} ELSE {<<class, name>>})

(* mutant: only the destination's name is asked about *)
decide_disclosure_named(floor, policies, classes, known, kind, name) ==
    LET asked == {<<c, IF name = "" THEN kind ELSE name>> : c \in classes}
        answers == {evaluate(floor, policies, a, "none").result : a \in asked}
    IN  IF \E c \in classes : c \notin known THEN "DENY"
        ELSE IF answers = {} THEN "ALLOW"
        ELSE CHOOSE r \in answers : \A s \in answers : _STRICTNESS[s] <= _STRICTNESS[r]

(* egress.decide_disclosure with strictest: over every class and action;   *)
(* an unknown class is refused                                             *)
decide_disclosure(floor, policies, classes, known, kind, name) ==
    LET asked == UNION {disclosure_actions(c, kind, name) : c \in classes}
        answers == {evaluate(floor, policies, a, "none").result : a \in asked}
    IN  IF \E c \in classes : c \notin known THEN "DENY"
        ELSE IF answers = {} THEN "ALLOW"
        ELSE CHOOSE r \in answers : \A s \in answers : _STRICTNESS[s] <= _STRICTNESS[r]

-----------------------------------------------------------------------------
(* settings where 0 means no limit and a ceiling still applies             *)
_ZERO_IS_UNLIMITED == {"max_total_tokens", "max_retries", "max_wall_seconds", "max_commands"}

(* BudgetLine.unlimited and the places that spend: what 0 means to them    *)
Unlimited(setting, value) == value = 0 /\ setting \in _ZERO_IS_UNLIMITED \union {"max_model_calls"}

(* effective_limits: the smallest of the ceilings policies set             *)
effective_limits(ceilings) == Smallest(ceilings)

(* mutant: nothing is done where the run asked for no limit *)
clamp_asked(setting, wanted, cap) == IF wanted > cap THEN cap ELSE wanted

(* clamp_overrides for one setting: what the run wants or the default, and *)
(* the effective ceiling                                                   *)
clamp_overrides(setting, wanted, cap) ==
    IF setting \in _ZERO_IS_UNLIMITED /\ wanted = 0 THEN cap
    ELSE IF wanted > cap THEN cap
    ELSE wanted
=============================================================================
