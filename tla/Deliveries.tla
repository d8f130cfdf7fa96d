----------------------------- MODULE Deliveries -----------------------------
(* What each connector makes of one inbound delivery: verify, then          *)
(* normalize, as WebhookReceiver.receive calls them. A delivery r is the     *)
(* presented signature, how old its time stamp is, and what its headers and *)
(* body say:                                                                 *)
(*   signed   none | odd (no scheme prefix) | wrong | right                  *)
(*   stamped, readable, age   the time stamp: present, a number, its age     *)
(*   named, id     the headers with the event's name and the delivery id     *)
(*   body     text (not JSON) | list | object; large: over max_body_bytes    *)
(*   whole    the fields the connector reads are there                       *)
(*   kind     an event the connector has a trigger for, or not               *)
(*   place    the repository, project, team or channel it is from            *)
(*   envelope, team, author   Slack's outer type, workspace and author       *)
(* A connector c has the place it is configured for ("" for any).            *)
EXTENDS Integers, Sequences, FiniteSets, SequencesExt

CONSTANT TOLERANCE_S
Abs(n) == IF n < 0 THEN -n ELSE n
Verified(ok) == IF ok THEN "VERIFIED" ELSE "INVALID"

(* verify_github_signature: over the raw body                               *)
verify_github_signature(r) ==
    IF r.signed = "none" THEN "UNVERIFIED" ELSE Verified(r.signed = "right")

(* JiraConnector.verify                                                     *)
verify_jira(r) == IF r.signed = "none" THEN "UNVERIFIED" ELSE Verified(r.signed = "right")

(* mutant: only old stamps are refused *)
verify_slack_old(r) ==
    IF ~r.stamped \/ r.signed = "none" THEN "UNVERIFIED"
    ELSE Verified(r.readable /\ r.age <= TOLERANCE_S /\ r.signed = "right")

(* verify_slack_signature: the stamp is signed and near now, both ways      *)
verify_slack_signature(r) ==
    IF ~r.stamped \/ r.signed = "none" THEN "UNVERIFIED"
    ELSE Verified(r.readable /\ Abs(r.age) <= TOLERANCE_S /\ r.signed = "right")

(* WebhookConnector.verify                                                  *)
verify_webhook(r) ==
    IF ~r.stamped \/ r.signed = "none" THEN "UNVERIFIED"
    ELSE Verified(r.readable /\ Abs(r.age) <= TOLERANCE_S /\ r.signed = "right")

(* LinearConnector.verify: the stamp is in the body                         *)
verify_linear(r) ==
    IF r.signed = "none" THEN "UNVERIFIED"
    ELSE Verified(r.signed = "right" /\ r.body = "object" /\ r.stamped /\ r.readable /\ Abs(r.age) <= TOLERANCE_S)

(* SlackConnector.handshake: Slack asks whether the URL is ours             *)
handshake(r) == r.body = "object" /\ r.envelope = "url_verification"

(* GitHubConnector.normalize                                                *)
normalize_github(c, r) ==
    CASE ~r.named \/ ~r.id -> "malformed"
      [] r.body # "object" -> "malformed"
      [] r.kind = "other" -> "unsupported"
      [] ~r.whole -> "malformed"
      [] r.place # c -> "unsupported"
      [] OTHER -> "envelope"

(* SlackConnector.normalize: bots and system messages never start anything  *)
normalize_slack(c, r) ==
    CASE r.body = "text" -> "malformed"
      [] r.body = "list" \/ r.envelope # "event_callback" -> "unsupported"
      [] r.team = "other" -> "unsupported"
      [] ~r.whole -> "malformed"
      [] r.author = "bot" -> "unsupported"
      [] r.kind = "other" -> "unsupported"
      [] c # "" /\ r.place # c -> "unsupported"
      [] ~r.id -> "malformed"
      [] OTHER -> "envelope"

(* JiraConnector.normalize                                                  *)
normalize_jira(c, r) ==
    CASE ~r.id \/ r.body # "object" \/ ~r.named -> "malformed"
      [] r.kind = "other" -> "unsupported"
      [] ~r.whole -> "malformed"
      [] r.place # c -> "unsupported"
      [] OTHER -> "envelope"

(* LinearConnector.normalize                                                *)
normalize_linear(c, r) ==
    CASE ~r.id \/ r.body # "object" \/ ~r.named -> "malformed"
      [] r.kind = "other" -> "unsupported"
      [] ~r.whole -> "malformed"
      [] c # "" /\ r.place # c -> "unsupported"
      [] OTHER -> "envelope"

(* WebhookConnector.normalize: the payload is taken as it is                *)
normalize_webhook(c, r) ==
    CASE ~r.named \/ ~r.id -> "malformed"
      [] r.kind = "other" -> "unsupported"
      [] r.body # "object" -> "malformed"
      [] OTHER -> "envelope"

verify(source, r) == CASE source = "github" -> verify_github_signature(r)
                       [] source = "jira" -> verify_jira(r)
                       [] source = "slack" -> verify_slack_signature(r)
                       [] source = "linear" -> verify_linear(r)
                       [] OTHER -> verify_webhook(r)
normalize(source, c, r) == CASE source = "github" -> normalize_github(c, r)
                             [] source = "jira" -> normalize_jira(c, r)
                             [] source = "slack" -> normalize_slack(c, r)
                             [] source = "linear" -> normalize_linear(c, r)
                             [] OTHER -> normalize_webhook(c, r)

(* WebhookReceiver.receive up to the row: nothing is parsed before the      *)
(* signature passes                                                         *)
receive(source, c, r) ==
    CASE r.large -> "body_too_large"
      [] verify(source, r) # "VERIFIED" -> "unverified"
      [] OTHER -> normalize(source, c, r)

(* mutant: what Slack refuses is asked again *)
_call_slack_again(answer) ==
    CASE answer = "ok" -> "data" [] answer = "auth" -> "CONNECTOR_AUTH" [] OTHER -> "CONNECTOR_UNAVAILABLE"

(* SlackConnector._call: Slack answers 200 to what it refuses; answer is     *)
(* the class its error is in                                                *)
_call_slack(answer) ==
    CASE answer \in {"not_json", "not_object"} -> "CONNECTOR_UNAVAILABLE"
      [] answer = "ok" -> "data"
      [] answer = "auth" -> "CONNECTOR_AUTH"
      [] answer = "ratelimited" -> "CONNECTOR_RATE_LIMIT"
      [] answer = "refused" -> "TOOL_FAILURE"
      [] OTHER -> "CONNECTOR_UNAVAILABLE"

(* LinearConnector._graphql: so does GraphQL                                *)
_graphql(answer) ==
    CASE answer = "not_json" -> "CONNECTOR_UNAVAILABLE"
      [] answer = "auth" -> "CONNECTOR_AUTH"
      [] answer = "ratelimited" -> "CONNECTOR_RATE_LIMIT"
      [] answer \in {"refused", "other"} -> "TOOL_FAILURE"
      [] answer = "not_object" -> "CONNECTOR_UNAVAILABLE"
      [] OTHER -> "data"

(* JiraConnector._call and GitHubConnector._call rely on the HTTP status    *)
_call_jira(answer) == IF answer = "not_json" THEN "CONNECTOR_UNAVAILABLE" ELSE "data"
_call_github(answer) == IF answer = "not_json" THEN "CONNECTOR_UNAVAILABLE" ELSE "data"

(* NotionConnector._get                                                     *)
_get_notion(answer) == IF answer \in {"not_json", "not_object"} THEN "CONNECTOR_UNAVAILABLE" ELSE "data"

-----------------------------------------------------------------------------
(* connectors/ssrf.py: the guard of every URL a connector fetches or posts  *)
(* to, and the HTTP client that follows redirects one checked hop at a time.*)
(* A URL is what the guard looks at; a host stands for its spelling, and    *)
(* addresses for what its name resolves to when the hop is checked.         *)

(* host_allowed: an exact host, or a subdomain of a suffix                  *)
host_allowed(url, allowlist) ==
    \E entry \in allowlist :
       \/ entry.wild /\ url.host # entry.host /\ url.parent = entry.host
       \/ ~entry.wild /\ url.host = entry.host

(* _is_public: an address nothing internal is behind; an IPv6 address that  *)
(* maps or may embed an IPv4 one counts as that                             *)
_is_public(address) == CASE address.form = "mapped" -> address.inner = "global"
                         [] address.form = "embedding" -> FALSE
                         [] OTHER -> address.inner = "global"

(* _literal_ip: a host written as a number denotes its address              *)
_literal_ip(url) == CASE url.spelling = "name" -> "name"
                      [] url.spelling \in {"zoned", "malformed"} -> "blocked"
                      [] OTHER -> "literal"

(* check_url: every address must be public; an allowlist (bounded) narrows  *)
(* further and waives nothing                                               *)
check_url(url, allowlist, bounded) ==
    CASE ~url.plain -> "blocked"
      [] url.local -> "blocked"
      [] bounded /\ ~host_allowed(url, allowlist) -> "blocked"
      [] _literal_ip(url) = "blocked" -> "blocked"
      [] _literal_ip(url) = "name" /\ url.addresses = {} -> "unavailable"
      [] \E a \in url.addresses : ~_is_public(a) -> "blocked"
      [] OTHER -> "ok"

(* ensure_ok: what a failed response means to the failure table             *)
ensure_ok(status) ==
    CASE 200 <= status /\ status < 300 -> "response"
      [] status \in {401, 403, 408, 409, 425, 429} \/ status >= 500 -> "classified"
      [] OTHER -> "permanent"

Redirects == {301, 302, 303, 307, 308}

(* _send: one request; a body over the limit is an error. httpx resolves    *)
(* the name once more when it connects, and may be told (moved) another     *)
(* address than check_url was                                               *)
Internal == [form |-> "v4", inner |-> "private"]
Reached(url, moved) == IF moved /\ _literal_ip(url) = "name" THEN {Internal} ELSE url.addresses
_send(url, method, body, secrets, reached, large) ==
    [url |-> url, method |-> method, body |-> body, secrets |-> secrets, reached |-> reached,
     outcome |-> IF large THEN "too_large" ELSE "response"]

(* mutant: what an earlier hop dropped is sent again when a later one is at home *)
KeptHere(first, from, to, secrets) == to = first

(* _STRIP_ON_HOST_CHANGE: the headers that name who is calling leave with   *)
(* the host, and do not come back                                           *)
Kept(first, from, to, secrets) == secrets /\ from = to

(* SafeHttp.request: answers[i] is what the server says to the i-th hop,    *)
(* [status, to, large, moved], to an index into urls or 0 for no Location.  *)
(* Recursive function of the number of hops made so far.                    *)
request(urls, answers, allowlist, bounded, max_redirects, method0) ==
    LET Hop[n \in 0..max_redirects + 1] ==
        IF n = 0 THEN [sent |-> <<>>, at |-> 1, method |-> method0, body |-> method0 = "POST", secrets |-> TRUE, result |-> "going"]
        ELSE LET h == Hop[n - 1]
                 a == answers[n]
                 guard == check_url(urls[h.at], allowlist, bounded)
                 one == _send(h.at, h.method, h.body, h.secrets, Reached(urls[h.at], a.moved), a.large)
                 gone == [h EXCEPT !.sent = Append(@, one)]
             IN  IF h.result # "going" THEN h
                 ELSE IF guard # "ok" THEN [h EXCEPT !.result = guard]
                 ELSE IF one.outcome # "response" THEN [gone EXCEPT !.result = one.outcome]
                 ELSE IF a.status \notin Redirects \/ a.to = 0 THEN [gone EXCEPT !.result = ensure_ok(a.status)]
                 ELSE [gone EXCEPT !.at = a.to,
                                   !.secrets = Kept(1, h.at, a.to, @),
                                   !.body = @ /\ a.status \notin {301, 302, 303},
                                   !.method = IF a.status \in {301, 302, 303} /\ @ # "HEAD" THEN "GET" ELSE @]
    IN  LET last == Hop[max_redirects + 1]
        IN  IF last.result = "going" THEN [last EXCEPT !.result = "too_many"] ELSE last

-----------------------------------------------------------------------------
(* search/providers: what each makes of the answer of its service. An item  *)
(* is the URL it names, "" where it names none and "text" where it is no    *)
(* object; the service is asked for a number of items and may send more.    *)
(* A response has the URLs of its results and its sources.                  *)

Cut(s, n) == SubSeq(s, 1, IF n < Len(s) THEN n ELSE Len(s))
Response(results, sources) == [raised |-> FALSE, results |-> results, sources |-> sources]
Raised == [raised |-> TRUE, results |-> <<>>, sources |-> <<>>]
(* item.get on something that is no object raises                           *)
Listed(items) == IF Contains(items, "text") THEN Raised ELSE Response(items, items)

(* asked: how many the request names                                        *)
tavily(data, max) == [asked |-> max, got |-> Listed(data.items)]
brave(data, max) == [asked |-> max, got |-> Listed(data.items)]
serper(data, max) == [asked |-> max, got |-> Listed(data.items)]
serpapi(data, max) == [asked |-> max, got |-> Listed(data.items)]
google(data, max) == [asked |-> IF max < 10 THEN max ELSE 10, got |-> Listed(data.items)]
(* the path of the results may lead to nothing; what is no object is passed *)
custom(data, max) ==
    LET results == SelectSeq(Cut(data.items, max), LAMBDA i : i # "text")
    IN  [asked |-> max, got |-> Response(results, results)]
(* the abstract is a result of its own; topics without a URL are groups     *)
(* mutant: only the topics are counted *)
duckduckgo_topics(data, max) ==
    LET results == (IF data.abstract THEN <<"abstract">> ELSE <<>>) \o SelectSeq(Cut(data.items, max), LAMBDA i : i \notin {"", "text"})
    IN  [asked |-> 0, got |-> Response(results, results)]
duckduckgo(data, max) ==
    LET results == (IF data.abstract THEN <<"abstract">> ELSE <<>>) \o SelectSeq(Cut(data.items, max), LAMBDA i : i \notin {"", "text"})
    IN  [asked |-> 0, got |-> Response(Cut(results, max), results)]

Search(provider, data, max) ==
    CASE provider = "tavily" -> tavily(data, max) [] provider = "brave" -> brave(data, max)
      [] provider = "serper" -> serper(data, max) [] provider = "serpapi" -> serpapi(data, max)
      [] provider = "google" -> google(data, max) [] provider = "custom" -> custom(data, max)
      [] OTHER -> duckduckgo(data, max)
=============================================================================
