-------------------------- MODULE ConnectorActions --------------------------
(***************************************************************************)
(* One approved action against an external service, attempted until it is  *)
(* known to have happened: Connector.perform and the find_existing and     *)
(* _execute of each connector.  The service keeps a thread (the comments   *)
(* of an issue, the messages of a channel) in which others write too, and  *)
(* indexes what is written only after a while.  A process may die between  *)
(* any two calls, and a request it sent may still arrive afterwards.       *)
(***************************************************************************)
EXTENDS Integers, Sequences, FiniteSets, SequencesExt

CONSTANTS
    PAGE,        \* how much of a thread one request returns (100 comments, 50 messages)
    MaxThread,   \* bound: length of the thread
    MaxTries     \* bound: attempts

VARIABLES
    kind,        \* the action, fixed
    target,      \* "configured", or "foreign": a channel, project, page or endpoint outside the configuration
    thread,      \* what the thread holds: "ours" carries the idempotency key
    fresh,       \* positions of ours that the service has not indexed yet
    flying,      \* the attempts whose request has not arrived
    at,          \* the attempt in progress: "none", "ask", "search", "send", "wait"
    granted,     \* the attempt carries a grant that is still valid
    tries,
    result,      \* what the last finished attempt returned
    blind,       \* history: a search missed an object of ours that existed
    unindexed    \* history: it missed one that was not indexed or had not arrived

vars == <<kind, target, thread, fresh, flying, at, granted, tries, result, blind, unindexed>>

Kinds == {"github.comment", "github.create_pull_request", "github.add_label", "slack.post_message",
          "linear.comment", "jira.comment", "webhook.post", "notion.read_page"}

SAFE_EFFECTS == {"notion.read_page"}

Init ==
    /\ kind \in Kinds
    /\ target \in {"configured", "foreign"}
    /\ thread = <<>> /\ fresh = {} /\ flying = {}
    /\ at = "none" /\ granted = FALSE /\ tries = 0
    /\ result = "none" /\ blind = FALSE /\ unindexed = FALSE

Ours == {i \in DOMAIN thread : thread[i] = "ours"}

-----------------------------------------------------------------------------
(* What the search of each connector can see.  GitHub: the issue is found  *)
(* through the index, then the first page of its comments is read.         *)
GithubComments == {i \in Ours \ fresh : i <= PAGE}
GithubPulls == Ours \ fresh
GithubFinds == CASE kind = "github.comment" -> GithubComments
                 [] kind = "github.create_pull_request" -> GithubPulls
                 [] OTHER -> {}
(* Slack: the newest page of the history of the channel *)
SlackHistory == {i \in Ours \ fresh : i > Len(thread) - PAGE}
LinearComments == Ours \ fresh
JiraComments == Ours \ fresh

WebhookFinds == {}
NotionFinds == {}

Github == kind \in {"github.comment", "github.create_pull_request", "github.add_label"}

find_existing ==
    CASE Github                      -> GithubFinds
      [] kind = "slack.post_message" -> SlackHistory
      [] kind = "linear.comment"     -> LinearComments
      [] kind = "jira.comment"       -> JiraComments
      [] kind = "webhook.post"       -> WebhookFinds
      [] kind = "notion.read_page"   -> NotionFinds

(* What each connector refuses before any request: GitHub and Linear have  *)
(* one repository or account and nothing to compare                        *)
SlackCheck == target = "configured"
JiraCheck == target = "configured"
NotionCheck == target = "configured"
WebhookCheck == target = "configured"

check == /\ kind = "slack.post_message" => SlackCheck
         /\ kind = "jira.comment" => JiraCheck
         /\ kind = "notion.read_page" => NotionCheck
         /\ kind = "webhook.post" => WebhookCheck

(* What one request of each connector leaves behind: a comment, a pull     *)
(* request, a message or a post is another one every time; a label that is *)
(* there is not added again; reading a page leaves nothing.                *)
GithubLeaves == IF kind = "github.add_label" /\ Ours # {} THEN <<>> ELSE <<"ours">>
SlackLeaves == <<"ours">>
LinearLeaves == <<"ours">>
JiraLeaves == <<"ours">>
WebhookLeaves == <<"ours">>
NotionLeaves == <<>>

Leaves ==
    CASE Github                      -> GithubLeaves
      [] kind = "slack.post_message" -> SlackLeaves
      [] kind = "linear.comment"     -> LinearLeaves
      [] kind = "jira.comment"       -> JiraLeaves
      [] kind = "webhook.post"       -> WebhookLeaves
      [] kind = "notion.read_page"   -> NotionLeaves

-----------------------------------------------------------------------------
(* ConnectorBackend.perform: a grant is minted for the approver, if any;   *)
(* it lives five minutes, and the attempt may start late in the thread.    *)
MintGrant ==
    /\ at = "none" /\ result \in {"none", "failed"} /\ tries < MaxTries
    /\ at' = "ask"
    /\ granted' \in BOOLEAN
    /\ tries' = tries + 1
    /\ UNCHANGED <<kind, target, thread, fresh, flying, result, blind, unindexed>>

(* the bug of a grant that is looked for but not checked *)
check_grant_present ==
    /\ at = "ask"
    /\ at' = "search"
    /\ UNCHANGED <<kind, target, thread, fresh, flying, granted, tries, result, blind, unindexed>>

(* check_grant and check: without a valid grant, or for a target the       *)
(* integration is not configured for, nothing is requested                 *)
check_grant ==
    /\ at = "ask"
    /\ IF check /\ (granted \/ kind \in SAFE_EFFECTS)
       THEN at' = (IF kind \in SAFE_EFFECTS THEN "send" ELSE "search") /\ UNCHANGED result
       ELSE at' = "none" /\ result' = "denied"
    /\ UNCHANGED <<kind, target, thread, fresh, flying, granted, tries, blind, unindexed>>

(* the bug of a perform that takes a search that failed for one that found nothing *)
SearchOptimistic ==
    /\ at = "search"
    /\ \/ find_existing # {} /\ at' = "none" /\ result' = "found"
       \/ at' = "send" /\ UNCHANGED result
    /\ UNCHANGED <<kind, target, thread, fresh, flying, granted, tries, blind, unindexed>>

(* perform, the search: found ends it; a search that fails fails the attempt *)
Search ==
    /\ at = "search"
    /\ \/ /\ find_existing # {}
          /\ at' = "none" /\ result' = "found"
          /\ UNCHANGED <<blind, unindexed>>
       \/ /\ find_existing = {}
          /\ at' = "send"
          /\ blind' = (blind \/ Ours # {} \/ flying # {})
          /\ unindexed' = (unindexed \/ Ours \intersect fresh # {} \/ flying # {})
          /\ UNCHANGED result
       \/ /\ at' = "none" /\ result' = "failed"
          /\ UNCHANGED <<blind, unindexed>>
    /\ UNCHANGED <<kind, target, thread, fresh, flying, granted, tries>>

(* _execute, the request                                                   *)
_execute ==
    /\ at = "send"
    /\ at' = "wait"
    /\ flying' = flying \union {tries}
    /\ UNCHANGED <<kind, target, thread, fresh, granted, tries, result, blind, unindexed>>

(* the service receives a request                                          *)
Arrive ==
    /\ Len(thread) < MaxThread
    /\ \E a \in flying : flying' = flying \ {a}
    /\ thread' = thread \o Leaves
    /\ fresh' = fresh \union ((DOMAIN thread') \ DOMAIN thread)
    /\ UNCHANGED <<kind, target, at, granted, tries, result, blind, unindexed>>

(* the bug of taking a request that was sent for one that succeeded *)
AnswerAssumed ==
    /\ at = "wait"
    /\ at' = "none" /\ result' = "created"
    /\ UNCHANGED <<kind, target, thread, fresh, flying, granted, tries, blind, unindexed>>

(* the answer arrives: only after the request did                          *)
Answer ==
    /\ at = "wait" /\ tries \notin flying
    /\ at' = "none" /\ result' = "created"
    /\ UNCHANGED <<kind, target, thread, fresh, flying, granted, tries, blind, unindexed>>

(* no answer in time, an answer of an unexpected shape, or an error: the   *)
(* request may have arrived, may still arrive, or is lost                  *)
NoAnswer ==
    /\ at = "wait"
    /\ at' = "none" /\ result' = "failed"
    /\ flying' \in {flying, flying \ {tries}}
    /\ UNCHANGED <<kind, target, thread, fresh, granted, tries, blind, unindexed>>

(* the process dies anywhere in the attempt                                *)
Crash ==
    /\ at # "none"
    /\ at' = "none" /\ result' = "failed"
    /\ UNCHANGED <<kind, target, thread, fresh, flying, granted, tries, blind, unindexed>>

(* the service indexes what is new; somebody else writes in the thread     *)
Index ==
    /\ fresh # {}
    /\ fresh' = {}
    /\ UNCHANGED <<kind, target, thread, flying, at, granted, tries, result, blind, unindexed>>

OthersWrite ==
    /\ Len(thread) < MaxThread
    /\ thread' = Append(thread, "other")
    /\ UNCHANGED <<kind, target, fresh, flying, at, granted, tries, result, blind, unindexed>>

(* the grant of an attempt that has not been checked runs out              *)
GrantExpires ==
    /\ at = "ask" /\ granted
    /\ granted' = FALSE
    /\ UNCHANGED <<kind, target, thread, fresh, flying, at, tries, result, blind, unindexed>>

Next ==
    \/ MintGrant \/ check_grant \/ Search \/ _execute \/ Answer \/ NoAnswer \/ Crash
    \/ Arrive \/ Index \/ OthersWrite \/ GrantExpires

Spec == Init /\ [][Next]_vars

-----------------------------------------------------------------------------
HasMarker == kind \notin {"webhook.post", "github.add_label", "notion.read_page"}

(* An action whose object carries the key exists once, however often it is *)
(* attempted and whatever the crashes, unless a search missed an object    *)
(* that was there: find_existing before _execute is all that is needed.    *)
OnceUnlessMissed == HasMarker /\ ~blind => Cardinality(Ours) <= 1

(* What perform reports as done is done: "created" and "found" are         *)
(* returned only when the service holds the object.                        *)
ReportedIsThere == result \in {"created", "found"} /\ kind \notin SAFE_EFFECTS => Ours # {}

(* Nothing is written for an attempt whose grant had run out when it was   *)
(* checked: every request of a write follows a valid grant of its attempt. *)
WritesAreGranted == ~(flying' \subseteq flying) => granted \/ kind \in SAFE_EFFECTS

(* connectors/github.py: a crash between "GitHub created it" and "we       *)
(* recorded it" cannot duplicate on retry, the index's delay aside.        *)
NoDuplicateOnceIndexed == kind = "github.comment" /\ ~unindexed => Cardinality(Ours) <= 1
=============================================================================
