------------------------------ MODULE Replies ------------------------------
(* What a model was asked for and what is made of its reply: the providers  *)
(* of agents/ and the reading of JSON in agents/roles.py; how a failure is  *)
(* classified and whether it is tried again (runtime/retry.py). A text is a *)
(* sequence of characters ("q" is the quotation mark); usage has the names  *)
(* of the vendor as fields, -1 where one is absent.                         *)
EXTENDS Integers, Sequences, SequencesExt, FiniteSetsExt

(* json.loads, for objects, lists, strings and numbers                      *)
NotJson == [k |-> "none", v |-> <<>>]
Bad == [ok |-> FALSE, val |-> NotJson, at |-> 0]
Good(kind, v, at) == [ok |-> TRUE, val |-> [k |-> kind, v |-> v], at |-> at]
Char(t, i) == IF i <= Len(t) THEN t[i] ELSE "end"
Digits == {"1", "2"}
RECURSIVE Close(_, _), Number(_, _), Value(_, _), Items(_, _, _, _), Members(_, _, _, _)
Close(t, i) == CASE Char(t, i) = "end" -> 0 [] t[i] = "\\" -> Close(t, i + 2) [] t[i] = "q" -> i [] OTHER -> Close(t, i + 1)
Number(t, i) == IF Char(t, i) \in Digits THEN Number(t, i + 1) ELSE i
Value(t, i) ==
    CASE Char(t, i) = "{" -> Members(t, i + 1, <<>>, TRUE)
      [] Char(t, i) = "[" -> Items(t, i + 1, <<>>, TRUE)
      [] Char(t, i) = "q" -> LET j == Close(t, i + 1) IN IF j = 0 THEN Bad ELSE Good("string", SubSeq(t, i + 1, j - 1), j + 1)
      [] Char(t, i) \in Digits -> LET j == Number(t, i) IN Good("number", SubSeq(t, i, j - 1), j)
      [] OTHER -> Bad
Items(t, i, got, first) ==
    IF Char(t, i) = "]" /\ first THEN Good("list", got, i + 1)
    ELSE LET x == Value(t, i)
         IN  CASE ~x.ok -> Bad
               [] Char(t, x.at) = "," -> Items(t, x.at + 1, Append(got, x.val), FALSE)
               [] Char(t, x.at) = "]" -> Good("list", Append(got, x.val), x.at + 1)
               [] OTHER -> Bad
Members(t, i, got, first) ==
    IF Char(t, i) = "}" /\ first THEN Good("object", got, i + 1)
    ELSE LET key == Value(t, i)
             x == Value(t, key.at + 1)
             pair == [key |-> key.val.v, val |-> x.val]
         IN  CASE ~key.ok \/ key.val.k # "string" \/ Char(t, key.at) # ":" -> Bad
               [] ~x.ok -> Bad
               [] Char(t, x.at) = "," -> Members(t, x.at + 1, Append(got, pair), FALSE)
               [] Char(t, x.at) = "}" -> Good("object", Append(got, pair), x.at + 1)
               [] OTHER -> Bad
loads(t) == LET x == Value(t, 1) IN IF x.ok /\ x.at = Len(t) + 1 THEN x.val ELSE NotJson

RECURSIVE rstrip(_, _)
rstrip(t, c) == IF t # <<>> /\ Last(t) = c THEN rstrip(Front(t), c) ELSE t

(* salvage_truncated_json: one pass over the text from its first brace      *)
Open == [stack |-> <<>>, string |-> FALSE, escaped |-> FALSE]
Scanned(s, ch) ==
    CASE s.string /\ s.escaped -> [s EXCEPT !.escaped = FALSE]
      [] s.string /\ ch = "\\" -> [s EXCEPT !.escaped = TRUE]
      [] ch = "q" -> [s EXCEPT !.string = ~@]
      [] s.string -> s
      [] ch = "{" -> [s EXCEPT !.stack = Append(@, "}")]
      [] ch = "[" -> [s EXCEPT !.stack = Append(@, "]")]
      [] ch \in {"}", "]"} /\ s.stack # <<>> -> [s EXCEPT !.stack = Front(@)]
      [] OTHER -> s
Braces(t) == {i \in DOMAIN t : t[i] = "{"}
(* mutant: a string that was cut is closed too *)
salvage_closing(t) ==
    IF Braces(t) = {} THEN NotJson
    ELSE LET body == SubSeq(t, Min(Braces(t)), Len(t))
             s == FoldLeft(Scanned, Open, body)
             got == loads(rstrip(rstrip(body, " "), ",") \o (IF s.string THEN <<"q">> ELSE <<>>) \o Reverse(s.stack))
         IN  IF s.stack = <<>> \/ got.k # "object" THEN NotJson ELSE got
salvage_truncated_json(t) ==
    IF Braces(t) = {} THEN NotJson
    ELSE LET body == SubSeq(t, Min(Braces(t)), Len(t))
             s == FoldLeft(Scanned, Open, body)
             got == loads(rstrip(rstrip(body, " "), ",") \o Reverse(s.stack))
         IN  IF s.string \/ s.stack = <<>> \/ got.k # "object" THEN NotJson ELSE got

(* _parse_json_response: the whole reply, then from the first brace to the  *)
(* last, then what can be salvaged; NotJson is the record with parse_error  *)
_parse_json_response(t, salvage) ==
    LET whole == loads(t)
        ends == {i \in DOMAIN t : t[i] = "}"}
        inner == IF Braces(t) = {} \/ ends = {} THEN NotJson ELSE loads(SubSeq(t, Min(Braces(t)), Max(ends)))
    IN  CASE whole.k # "none" -> whole
          [] inner.k # "none" -> inner
          [] salvage -> salvage_truncated_json(t)
          [] OTHER -> NotJson
(* _validation_error asks what it was given for "parse_error", which only   *)
(* an object has an answer to                                               *)
_validation_error(parsed) == CASE parsed.k = "none" -> "not valid JSON" [] parsed.k = "object" -> "none" [] OTHER -> "raises"
-----------------------------------------------------------------------------
(* providers_nvidia._extract_output_text over the items of a reply; what    *)
(* has no text anywhere is returned as Python writes it, all of it          *)
(* mutant: the type of a part is not looked at *)
PartTexts_all(part) == IF part.type \in {"output_text", "reasoning"} \/ (part.type = "text" /\ part.text # "") THEN <<part>> ELSE <<>>
PartTexts(part) == IF part.type = "output_text" \/ (part.type = "text" /\ part.text # "") THEN <<part>> ELSE <<>>
ItemTexts(item) ==
    CASE item.type = "str" -> item.parts
      [] item.type = "reasoning" -> <<>>
      [] item.type = "message" -> FlattenSeq([i \in DOMAIN item.parts |-> PartTexts(item.parts[i])])
      [] OTHER -> SelectSeq(item.parts, LAMBDA p : p.text # "")
AllTexts(items) == FlattenSeq([i \in DOMAIN items |-> items[i].parts])
_extract_output_text(items) ==
    LET texts == FlattenSeq([i \in DOMAIN items |-> ItemTexts(items[i])])
    IN  IF texts # <<>> THEN texts ELSE AllTexts(items)
-----------------------------------------------------------------------------
(* _model_for and _resolve_model: the features the model is known to have   *)
(* come from the catalogue, and with a profile of the configuration no hint *)
(* is given                                                                 *)
_model_for(name, catalog) == [provider |-> name, hints |-> catalog]
_resolve_model(run, profile, catalog) ==
    IF run \notin {"none", "mock"} THEN _model_for(run, catalog) ELSE [provider |-> profile, hints |-> {}]

(* capabilities: only the OpenAI-compatible providers declare any           *)
capabilities(config) == IF config.provider = "openai" THEN config.hints ELSE {}
_response_format(config, schema) ==
    LET caps == capabilities(config)
    IN  CASE ~schema -> "none" [] "json_schema" \in caps -> "json_schema" [] "json_object" \in caps -> "json_object" [] OTHER -> "none"

_is_feature_rejection(resp) == resp.status \in {400, 422} /\ resp.complains
Error(status) == [error |-> status, usage |-> <<>>, degraded |-> {}, attempts |-> 1, format |-> "none"]
(* OpenAICompatibleProvider.complete: known says that the endpoint was seen *)
(* to reject the feature; a rejected request is sent again without it       *)
(* mutant: what is known to be rejected is left out and not reported *)
openai_silent(format, known, resps) ==
    LET asked == format # "none" /\ ~known
        rejected == asked /\ _is_feature_rejection(resps[1])
        resp == IF rejected THEN resps[2] ELSE resps[1]
    IN  IF resp.status >= 400 THEN Error(resp.status)
        ELSE [error |-> 0, usage |-> resp.usage, attempts |-> IF rejected THEN 2 ELSE 1,
              degraded |-> IF rejected THEN {format} ELSE {},
              format |-> IF asked /\ ~rejected THEN format ELSE "none"]
openai_complete(format, known, resps) ==
    LET asked == format # "none" /\ ~known
        rejected == asked /\ _is_feature_rejection(resps[1])
        resp == IF rejected THEN resps[2] ELSE resps[1]
    IN  IF resp.status >= 400 THEN Error(resp.status)
        ELSE [error |-> 0, usage |-> resp.usage, attempts |-> IF rejected THEN 2 ELSE 1,
              degraded |-> IF rejected \/ (format # "none" /\ known) THEN {format} ELSE {},
              format |-> IF asked /\ ~rejected THEN format ELSE "none"]
(* NvidiaProvider.complete renames the usage, AnthropicProvider.complete    *)
(* passes it on; neither has a use for the format                           *)
nvidia_complete(format, resps) ==
    LET u == resps[1].usage
    IN  IF resps[1].status >= 400 THEN Error(resps[1].status)
        ELSE [error |-> 0, usage |-> [prompt_tokens |-> u.input_tokens, completion_tokens |-> u.output_tokens, input_tokens |-> -1, output_tokens |-> -1],
              degraded |-> {}, attempts |-> 1, format |-> "none"]
anthropic_complete(format, resps) ==
    IF resps[1].status >= 400 THEN Error(resps[1].status)
    ELSE [error |-> 0, usage |-> resps[1].usage, degraded |-> {}, attempts |-> 1, format |-> "none"]
complete(provider, format, known, resps) ==
    CASE provider = "nvidia" -> nvidia_complete(format, resps)
      [] provider = "anthropic" -> anthropic_complete(format, resps)
      [] OTHER -> openai_complete(format, known, resps)

(* mutant: the tokens of the first naming only *)
_record_prompt(response) == IF response.error # 0 THEN 0 ELSE Max({0, response.usage.prompt_tokens}) + Max({0, response.usage.completion_tokens})
(* _record: the tokens a call adds to those of the run                      *)
_record(response) ==
    LET u == response.usage
        Or(a, b) == IF a # -1 THEN a ELSE b
    IN  IF response.error # 0 THEN 0
        ELSE Max({0, Or(u.prompt_tokens, u.input_tokens)}) + Max({0, Or(u.completion_tokens, u.output_tokens)})
-----------------------------------------------------------------------------
(* Typed failures (domain/failures.py) and the one place that decides       *)
(* retries (runtime/retry.py).  An exception is a record: its type, the     *)
(* kind it carries when it is a PatchQuestError, and for an HTTP error the  *)
(* status and whether the body has one of the words of an overflow.  Delays *)
(* are in half seconds, the unit of base_delay_s.                           *)

(* domain/failures.py: FailureKind *)
FailureKind ==
    {"MODEL_TIMEOUT", "MODEL_RATE_LIMIT", "MODEL_CONTEXT_OVERFLOW", "MODEL_INVALID_OUTPUT",
     "MODEL_UNAVAILABLE", "MODEL_CAPABILITY", "MODEL_AUTH", "CONNECTOR_AUTH",
     "CONNECTOR_RATE_LIMIT", "CONNECTOR_UNAVAILABLE", "TOOL_FAILURE", "TOOL_TIMEOUT",
     "COMMAND_DENIED", "POLICY_DENIED", "COMMAND_TIMEOUT", "COMMAND_FAILED", "PATCH_PARSE",
     "PATCH_CONFLICT", "PATCH_APPLY", "PATCH_VALIDATION", "TEST_FAILURE", "BASELINE_FAILURE",
     "REPOSITORY_DRIFT", "SANDBOX_FAILURE", "ENVIRONMENT_FAILURE", "PLUGIN_FAILURE",
     "DATABASE_FAILURE", "CHECKPOINT_FAILURE", "BUDGET_EXHAUSTED", "USER_CANCELLED",
     "REPLAY_DIVERGED", "INTERNAL_INVARIANT"}

(* SPECS: the kinds whose spec says that the same operation may succeed *)
Retryable ==
    {"MODEL_TIMEOUT", "MODEL_RATE_LIMIT", "MODEL_UNAVAILABLE", "CONNECTOR_RATE_LIMIT",
     "CONNECTOR_UNAVAILABLE", "TOOL_TIMEOUT", "SANDBOX_FAILURE", "DATABASE_FAILURE"}

NEVER_RETRY ==
    {"COMMAND_DENIED", "POLICY_DENIED", "USER_CANCELLED", "BUDGET_EXHAUSTED",
     "INTERNAL_INVARIANT", "REPOSITORY_DRIFT", "MODEL_CAPABILITY", "CONNECTOR_AUTH",
     "MODEL_AUTH", "REPLAY_DIVERGED", "PATCH_PARSE", "MODEL_INVALID_OUTPUT"}

Lesser(a, b) == IF a <= b THEN a ELSE b

(* the header in half seconds; -1 stands for no header and for one that is not a number *)
MAX_RETRY_AFTER == 240
parse_retry_after(form, n) ==
    IF form \in {"absent", "text"} THEN -1 ELSE Lesser(IF n < 0 THEN 0 ELSE n, MAX_RETRY_AFTER)

_from_http(status, words, origin) ==
    LET For(connector, model) == IF origin = "connector" THEN connector ELSE model IN
    CASE status \in {400, 413, 422} /\ words -> "MODEL_CONTEXT_OVERFLOW"
      [] status = 429 -> For("CONNECTOR_RATE_LIMIT", "MODEL_RATE_LIMIT")
      [] status \in {401, 403} -> For("CONNECTOR_AUTH", "MODEL_AUTH")
      [] status \in {408, 504} -> For("CONNECTOR_UNAVAILABLE", "MODEL_TIMEOUT")
      [] (status >= 500 /\ status # 504) \/ status \in {409, 425} ->
            For("CONNECTOR_UNAVAILABLE", "MODEL_UNAVAILABLE")
      [] OTHER -> For("CONNECTOR_UNAVAILABLE", "MODEL_INVALID_OUTPUT")

ExceptionTypes ==
    {"PatchQuestError", "HTTPStatusError", "Timeout", "TransportError", "JSONDecodeError",
     "OperationalError", "PermissionError", "Other"}

classify(exc, origin) ==
    CASE exc.type = "PatchQuestError" -> exc.kind
      [] exc.type = "HTTPStatusError" -> _from_http(exc.status, exc.words, origin)
      [] exc.type = "Timeout" -> IF origin = "connector" THEN "CONNECTOR_UNAVAILABLE" ELSE "MODEL_TIMEOUT"
      [] exc.type = "TransportError" ->
            IF origin = "connector" THEN "CONNECTOR_UNAVAILABLE" ELSE "MODEL_UNAVAILABLE"
      [] exc.type = "JSONDecodeError" -> "MODEL_INVALID_OUTPUT"
      [] exc.type = "OperationalError" -> "DATABASE_FAILURE"
      [] exc.type = "PermissionError" -> "ENVIRONMENT_FAILURE"
      [] OTHER -> "INTERNAL_INVARIANT"

(* full jitter: the delay after attempt failed is anywhere in 0..backoff(attempt) *)
max_delay == 60
backoff(attempt) == Lesser(max_delay, 2 ^ (attempt - 1))

Refused == [retry |-> FALSE, from |-> 0, to |-> 0]

(* a slip: the attempt after the last one *)
decide_off_by_one(kind, retry_after, attempt, max_attempts, idempotent, uncertain, left) ==
    CASE kind \in NEVER_RETRY \/ kind \notin Retryable -> Refused
      [] uncertain /\ ~idempotent -> Refused
      [] attempt > max_attempts -> Refused
      [] left = 0 -> Refused
      [] retry_after >= 0 -> [retry |-> TRUE, from |-> retry_after, to |-> retry_after]
      [] OTHER -> [retry |-> TRUE, from |-> 0, to |-> backoff(attempt)]

(* left is -1 when the run's retry budget is not limited *)
decide(kind, retry_after, attempt, max_attempts, idempotent, uncertain, left) ==
    CASE kind \in NEVER_RETRY \/ kind \notin Retryable -> Refused
      [] uncertain /\ ~idempotent -> Refused
      [] attempt >= max_attempts -> Refused
      [] left = 0 -> Refused
      [] retry_after >= 0 -> [retry |-> TRUE, from |-> retry_after, to |-> retry_after]
      [] OTHER -> [retry |-> TRUE, from |-> 0, to |-> backoff(attempt)]
=============================================================================
