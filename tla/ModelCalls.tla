----------------------------- MODULE ModelCalls -----------------------------
(* The model calls of one run (agents/roles.py): _call_role with its format *)
(* repair, _complete with its failover chain (providers/failover.py) and    *)
(* _complete_on with retries and the shrinking of prompts that do not fit.  *)
(* An endpoint is local or not and supports a JSON schema or not.  The      *)
(* first target of the chain is the run's own provider.  What is known of   *)
(* endpoints is shared by all runs of the process, each with settings of    *)
(* its own.                                                                 *)
EXTENDS Replies

CONSTANTS
    Chains,                  \* sequences of endpoints: the run's provider, then agent.failover.chain
    Configs,                 \* the settings allow_cloud, ..., structured_output considered
    max_model_calls,
    max_retries,
    format_repair_attempts

VARIABLES
    chain,         \* what each target is: [local, schema]
    cfg,           \* [allow_cloud, allow_capability_downgrade, structured_output]
    pc,            \* idle, charge, send, sleep, parse
    at,            \* the target in use
    attempt, overflow_retries,
    constrain,     \* this call asks for constrained output
    attempts_left, \* format repairs left
    reply,         \* what the model answered: [length, valid]
    model_calls, retries,       \* the counters on the run context
    unreliable     \* _CONSTRAINED_UNRELIABLE, of the process

vars == <<chain, cfg, pc, at, attempt, overflow_retries, constrain, attempts_left, reply,
          model_calls, retries, unreliable>>
local == <<at, attempt, overflow_retries>>

max_attempts == 3    \* RetryPolicy

(* what provider.complete and the recording of its answer can raise *)
Exceptions ==
    [type : {"HTTPStatusError"}, status : {400, 401, 404, 429, 503}, words : BOOLEAN, kind : {"-"}]
    \cup [type : {"Timeout", "TransportError", "OperationalError", "Other"}, status : {0},
          words : {FALSE}, kind : {"-"}]

NoReply == [length |-> FALSE, valid |-> FALSE]

TypeOK ==
    /\ chain \in Chains
    /\ cfg \in Configs
    /\ pc \in {"idle", "charge", "send", "sleep", "parse"}
    /\ at \in 1..Len(chain) /\ attempt \in 0..(max_attempts + 2) /\ overflow_retries \in 0..2
    /\ constrain \in BOOLEAN /\ attempts_left \in 0..format_repair_attempts
    /\ reply \in [length : BOOLEAN, valid : BOOLEAN]
    /\ model_calls \in 0..max_model_calls /\ retries \in 0..max_retries
    /\ unreliable \subseteq 1..Len(chain)

Init ==
    /\ chain \in Chains /\ cfg \in Configs
    /\ pc = "idle" /\ at = 1 /\ attempt = 0 /\ overflow_retries = 0 /\ constrain = FALSE
    /\ attempts_left = 0 /\ reply = NoReply /\ model_calls = 0 /\ retries = 0
    /\ unreliable \in SUBSET {1}     \* what earlier runs of the process learnt
-----------------------------------------------------------------------------
(* The call ends: an answer, or an exception to the phase that asked. *)
Done ==
    /\ pc' = "idle" /\ at' = 1 /\ attempt' = 0 /\ overflow_retries' = 0
    /\ constrain' = FALSE /\ attempts_left' = 0 /\ reply' = NoReply

(* a slip: what was learnt counts in every mode *)
_call_role_learned ==
    /\ pc = "idle"
    /\ constrain' = (cfg.structured_output # "off" /\ 1 \notin unreliable)
    /\ attempts_left' = format_repair_attempts
    /\ pc' = "charge"
    /\ UNCHANGED <<chain, cfg, at, attempt, overflow_retries, reply, model_calls, retries,
                   unreliable>>

(* _call_role: whether to constrain is decided for the run's own endpoint *)
_call_role ==
    /\ pc = "idle"
    /\ constrain' = (/\ cfg.structured_output # "off"
                     /\ ~(cfg.structured_output = "auto" /\ 1 \in unreliable))
    /\ attempts_left' = format_repair_attempts
    /\ pc' = "charge"
    /\ UNCHANGED <<chain, cfg, at, attempt, overflow_retries, reply, model_calls, retries,
                   unreliable>>

(* _charge_budget, once per completion whatever it takes to get one *)
_charge_budget ==
    /\ pc = "charge"
    /\ IF model_calls >= max_model_calls
       THEN Done /\ UNCHANGED model_calls
       ELSE /\ model_calls' = model_calls + 1
            /\ pc' = "send" /\ at' = 1 /\ attempt' = 0 /\ overflow_retries' = 0
            /\ UNCHANGED <<constrain, attempts_left, reply>>
    /\ UNCHANGED <<chain, cfg, retries, unreliable>>

(* providers/failover.py: may target t take over from target s? *)
FAILOVER_KINDS == {"MODEL_UNAVAILABLE", "MODEL_TIMEOUT", "MODEL_RATE_LIMIT"}
(* a slip: the boundary is compared with the run's settings only for the schema *)
check_outage(kind, s, t) ==
    /\ kind \in {"MODEL_UNAVAILABLE", "MODEL_TIMEOUT", "MODEL_RATE_LIMIT"}
    /\ ~(constrain /\ s.schema /\ ~t.schema /\ ~cfg.allow_capability_downgrade)

check(kind, s, t) ==
    /\ kind \in FAILOVER_KINDS
    /\ ~(s.local /\ ~t.local /\ ~cfg.allow_cloud)
    /\ ~(constrain /\ s.schema /\ ~t.schema /\ ~cfg.allow_capability_downgrade)

(* The loop of _complete after _complete_on raised kind: the next target, or the error stands. *)
_complete(kind) ==
    IF at < Len(chain) /\ check(kind, chain[at], chain[at + 1])
    THEN /\ at' = at + 1 /\ attempt' = 0 /\ overflow_retries' = 0 /\ pc' = "send"
         /\ UNCHANGED <<constrain, attempts_left, reply>>
    ELSE Done

(* validate_config refuses the target before anything is sent *)
ConfigurationError ==
    /\ pc = "send" /\ attempt = 0
    /\ _complete("ENVIRONMENT_FAILURE")
    /\ UNCHANGED <<chain, cfg, model_calls, retries, unreliable>>

(* _complete_on gets an answer.  The constraint is really sent when the endpoint supports it. *)
Answer(r) ==
    /\ pc = "send"
    /\ attempt' = attempt + 1
    /\ reply' = r /\ pc' = "parse"
    /\ UNCHANGED <<chain, cfg, at, overflow_retries, constrain, attempts_left, model_calls,
                   retries, unreliable>>

Overflows(exc) == exc.type = "HTTPStatusError" /\ exc.status \in {400, 413, 422} /\ exc.words

(* the prompt did not fit: halve it and send again, at most twice, whatever attempt says *)
Shrink(exc) ==
    /\ pc = "send" /\ overflow_retries < 2 /\ Overflows(exc)
    /\ attempt' = attempt + 1 /\ overflow_retries' = overflow_retries + 1
    /\ UNCHANGED <<chain, cfg, pc, at, constrain, attempts_left, reply, model_calls, retries,
                   unreliable>>

(* a slip: the budget counts the retries of this completion only *)
_retries_left_here == IF max_retries = 0 THEN -1 ELSE max_retries - attempt

_retries_left == IF max_retries = 0 THEN -1 ELSE max_retries - retries

(* a slip: a retry counts neither as an attempt nor against the budget *)
FailsUncounted(exc) ==
    /\ pc = "send" /\ ~(overflow_retries < 2 /\ Overflows(exc))
    /\ IF classify(exc, "model") \in Retryable
       THEN pc' = "sleep" /\ UNCHANGED <<local, constrain, attempts_left, reply>>
       ELSE _complete(classify(exc, "model"))
    /\ UNCHANGED <<chain, cfg, model_calls, retries, unreliable>>

(* _complete_on gets any other exception: wait and try again, or give this target up *)
Fails(exc) ==
    /\ pc = "send" /\ ~(overflow_retries < 2 /\ Overflows(exc))
    /\ LET kind == classify(exc, "model")
           again == decide(kind, -1, attempt + 1, max_attempts, TRUE, FALSE, _retries_left)
       IN  IF again.retry
           THEN /\ retries' = retries + 1 /\ attempt' = attempt + 1 /\ pc' = "sleep"
                /\ UNCHANGED <<at, overflow_retries, constrain, attempts_left, reply>>
           ELSE _complete(kind) /\ UNCHANGED retries
    /\ UNCHANGED <<chain, cfg, model_calls, unreliable>>

Wakes ==
    /\ pc = "sleep" /\ pc' = "send"
    /\ UNCHANGED <<chain, cfg, local, constrain, attempts_left, reply, model_calls, retries,
                   unreliable>>

(* _call_role after an answer.  Only the first answer of a call teaches about the constraint,   *)
(* and what it teaches is kept for the run's own endpoint.  An invalid reply is asked again.    *)
Parse ==
    /\ pc = "parse"
    /\ LET first == attempts_left = format_repair_attempts
           learns == first /\ constrain /\ reply.length /\ cfg.structured_output = "auto"
       IN  /\ unreliable' = IF learns THEN unreliable \cup {1} ELSE unreliable
           /\ IF ~reply.valid /\ attempts_left > 0
              THEN /\ attempts_left' = attempts_left - 1
                   /\ constrain' = (constrain /\ 1 \notin unreliable')
                   /\ pc' = "charge"
                   /\ UNCHANGED <<local, reply>>
              ELSE Done
    /\ UNCHANGED <<chain, cfg, model_calls, retries>>

(* another run of the process on the same endpoint, in mode auto, learns *)
OthersLearn ==
    /\ 1 \notin unreliable /\ unreliable' = unreliable \cup {1}
    /\ UNCHANGED <<chain, cfg, pc, at, attempt, overflow_retries, constrain, attempts_left, reply,
                   model_calls, retries>>

(* the run is cancelled: CancelledError passes through every layer *)
Cancelled ==
    /\ pc \in {"send", "sleep"} /\ Done
    /\ UNCHANGED <<chain, cfg, model_calls, retries, unreliable>>

Engine == _charge_budget \/ Wakes \/ Parse
Provider ==
    \/ ConfigurationError
    \/ \E r \in [length : BOOLEAN, valid : BOOLEAN] : Answer(r)
    \/ \E exc \in Exceptions : Shrink(exc) \/ Fails(exc)

Next == _call_role \/ Engine \/ Provider \/ OthersLearn \/ Cancelled

Spec == Init /\ [][Next]_vars
-----------------------------------------------------------------------------
(* Failover keeps what was agreed along the whole chain, not only from one  *)
(* target to the next: a local run's prompt stays on the machine, and a     *)
(* call that relied on constrained output is not answered without it,       *)
(* unless the configuration allows it (providers/failover.py).              *)
FailoverKeepsAgreement ==
    pc \in {"send", "sleep", "parse"} =>
        /\ chain[1].local /\ ~cfg.allow_cloud => chain[at].local
        /\ (constrain /\ chain[1].schema /\ ~cfg.allow_capability_downgrade) => chain[at].schema

(* Whatever fails, one completion sends at most max_attempts + 2 requests   *)
(* to a target: the two shrinks count as attempts but ignore their limit.   *)
SendsAreBounded ==
    /\ attempt <= max_attempts + overflow_retries
    /\ pc \in {"send", "sleep"} => attempt < max_attempts + overflow_retries

(* The retries of a run stay within agent.max_retries, across all its       *)
(* calls and targets, and a retry is never spent in a call that was not     *)
(* charged to agent.max_model_calls.                                        *)
BudgetsHold ==
    /\ max_retries > 0 => retries <= max_retries
    /\ model_calls <= max_model_calls
    /\ retries <= model_calls * Len(chain) * (max_attempts - 1)

(* structured_output "off" never constrains.  "schema" always asks for the  *)
(* constraint first, and drops it only in a format repair, because a run of *)
(* the process in mode auto found the endpoint unreliable: the repair does  *)
(* not look at the mode (_call_role).                                       *)
ModeIsKept ==
    /\ (pc = "charge" /\ pc' = "send" /\ cfg.structured_output = "schema" /\ ~constrain')
         => 1 \in unreliable /\ attempts_left < format_repair_attempts
    /\ (cfg.structured_output = "off") => ~constrain'

(* "schema: always constrain, never fall back" (config.py:196).             *)
SchemaNeverFallsBack ==
    (pc = "charge" /\ pc' = "send" /\ cfg.structured_output = "schema") => constrain'

(* Every role call ends, with an answer or a typed failure: no mix of       *)
(* retries, shrinks, failovers and repairs goes on for ever.                *)
Charged == pc = "charge"
Idle == pc = "idle"

(* "stop asking for an endpoint+model once it misbehaves" (config.py,       *)
(* structured_output): the endpoint remembered as unreliable is the one     *)
(* whose reply was cut off.                                                 *)
OnlyOffendersBlamed == [][Parse => unreliable' \subseteq unreliable \cup {at}]_vars
=============================================================================
