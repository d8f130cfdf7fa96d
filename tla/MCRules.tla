------------------------------ MODULE MCRules ------------------------------
(* The pure decisions of the code are checked one input at a time: a        *)
(* behaviour is about one rule, picks one input for it and ends.            *)
EXTENDS Integers, Sequences, FiniteSets, TLC, SequencesExt

VARIABLES
    rule,     \* the rule this behaviour is about
    picked,   \* an input was picked
    in        \* the input

vars == <<rule, picked, in>>

Pick(name) == rule = name /\ ~picked /\ picked' = TRUE /\ rule' = rule
Is(name) == rule = name /\ picked

-----------------------------------------------------------------------------
(* Rules that say what a run, a policy and a workflow definition may do.    *)
Pol == INSTANCE Policy
Graph == INSTANCE WorkflowGraph

-----------------------------------------------------------------------------
(* Policies: two stored ones with up to two rules beside the floor         *)
Rules == {[actions |-> as, effects |-> es, result |-> r, cap |-> IF r = "ALLOW_WITH_LIMITS" THEN k ELSE 0] :
            as \in {{"a"}, {"a", "b"}}, es \in {{}, {"write"}}, r \in Pol!Result, k \in 1..2}
Floor == [scope |-> 0, malformed |-> FALSE,
          rules |-> <<[actions |-> {"a", "b"}, effects |-> {"write"}, result |-> "REQUIRE_APPROVAL", cap |-> 0]>>]
Stored(scope, rs) == Pol!_load([scope |-> scope, rules |-> rs, malformed |-> FALSE], {"a", "b"})
PickPolicies ==
    /\ Pick("policies")
    /\ \E r1, r2, r3 \in Rules, e \in {"read", "write"} :
          in' = [wide |-> Stored(1, <<r1>>), narrow |-> Stored(3, <<r2, r3>>), effect |-> e]

(* domain/policy.evaluate: a narrower policy can tighten what a wider one  *)
(* and the floor say and never loosen it: the answer is no weaker, and     *)
(* where both are limits the limit is no higher.                           *)
NarrowerOnlyTightens ==
    Is("policies") =>
       \A a \in {"a", "b"}, others \in SUBSET {in.wide} :
          LET before == Pol!evaluate(Floor, others, a, in.effect)
              after == Pol!evaluate(Floor, others \union {in.narrow}, a, in.effect)
          IN  /\ Pol!_STRICTNESS[before.result] <= Pol!_STRICTNESS[after.result]
              /\ (before.caps # {} /\ after.caps # {}) => \A x \in after.caps, y \in before.caps : x <= y

-----------------------------------------------------------------------------
(* Disclosure: one policy that refuses some destinations                   *)
Disclosures == {<<c, d>> : c \in {"diff", "secret"}, d \in {"connector", "slack"}}
PickDisclosure ==
    /\ Pick("disclosure")
    /\ in' \in [refused : SUBSET Disclosures, classes : SUBSET {"diff", "secret", "odd"}, name : {"", "slack"}]
DisclosureFloor ==
    [scope |-> 0, malformed |-> FALSE,
     rules |-> <<[actions |-> {d \in Disclosures : d[1] = "secret"}, effects |-> {}, result |-> "DENY", cap |-> 0]>>]

(* runtime/egress.decide_disclosure: what is allowed out is allowed for    *)
(* every class in it, both for the kind of destination and for the one it  *)
(* names; a secret or an unknown class never is.                           *)
DisclosedOnlyIfAllAllowed ==
    Is("disclosure") =>
       LET policy == [scope |-> 2, malformed |-> FALSE,
                      rules |-> <<[actions |-> in.refused, effects |-> {}, result |-> "DENY", cap |-> 0]>>]
           answer == Pol!decide_disclosure(DisclosureFloor, {policy}, in.classes, {"diff", "secret"}, "connector", in.name)
       IN  answer = "ALLOW" <=>
              /\ in.classes \subseteq {"diff"}
              /\ in.classes = {} \/ <<"diff", "connector">> \notin in.refused
              /\ in.classes = {} \/ in.name = "" \/ <<"diff", "slack">> \notin in.refused

-----------------------------------------------------------------------------
(* Ceilings: a setting, what the run wants and the policies' ceilings      *)
PickCeiling ==
    /\ Pick("ceiling")
    /\ in' \in [setting : {"max_commands", "max_model_calls", "max_repair_rounds"}, wanted : 0..3, ceilings : SUBSET (0..3) \ {{}}]
Granted == Pol!clamp_overrides(in.setting, in.wanted, Pol!effective_limits(in.ceilings))
NoMoreThanCeilings == ~Pol!Unlimited(in.setting, Granted) /\ \A c \in in.ceilings : Granted <= c

(* runtime/policy.clamp_overrides: with ceilings above zero, on settings   *)
(* the code knows to be unlimited at zero, a run gets no more than any     *)
(* ceiling, and just what it asked for where none is in the way.           *)
CeilingHolds ==
    (Is("ceiling") /\ 0 \notin in.ceilings /\ in.setting # "max_model_calls") =>
       /\ NoMoreThanCeilings
       /\ (~Pol!Unlimited(in.setting, in.wanted) /\ \A c \in in.ceilings : in.wanted <= c) => Granted = in.wanted

(* runtime/policy.clamp_overrides says of every ceiling: a run can ask for *)
(* less, never more.                                                       *)
NeverMoreThanCeiling == Is("ceiling") => NoMoreThanCeilings

-----------------------------------------------------------------------------
(* Conditions over two paths that may or may not resolve                   *)
Num(n) == [kind |-> "number", n |-> n]
Text(n) == [kind |-> "text", n |-> n]
ListOf(s) == [kind |-> "list", items |-> s]
Ref(p) == [kind |-> "ref", path |-> p]
Operands == {Num(1), Text(1), ListOf({Num(1)}), Ref("p"), Ref("q")}
Comparisons == [op : Graph!OPERATORS, left : Operands, right : Operands]
Contexts == {[p \in d |-> IF p = "p" THEN v ELSE Num(2)] : d \in SUBSET {"p", "q"}, v \in {Num(1), Text(1), ListOf({Num(1)})}}
PickCondition ==
    /\ Pick("condition")
    /\ in' \in [a : {c \in Comparisons : c.left.kind = "ref"}, b : {c \in Comparisons : c.right = Ref("q") /\ c.left \in {Num(1), Ref("p")}}, context : Contexts]
Of(op, parts) == [op |-> op, parts |-> parts]

(* domain/workflows.evaluate: parts are read from the left and only as far *)
(* as needed, so `exists` first protects a comparison of what may be       *)
(* missing, and `not any` is `all not`, errors included.                   *)
ConditionsShortCircuit ==
    Is("condition") =>
       LET exists == [op |-> "exists", left |-> in.a.left, right |-> in.a.left]
       IN  /\ Graph!evaluate(<<in.a, in.b, Of("any", <<1, 2>>), Of("not", <<3>>)>>, in.context)
                 = Graph!evaluate(<<in.a, in.b, Of("not", <<1>>), Of("not", <<2>>), Of("all", <<3, 4>>)>>, in.context)
           /\ (in.a.left.path \notin DOMAIN in.context) =>
                 Graph!evaluate(<<exists, in.a, Of("all", <<1, 2>>)>>, in.context) = "false"

-----------------------------------------------------------------------------
(* Definitions as plain data                                               *)
PickDefinition ==
    /\ Pick("definition")
    /\ \E t \in {"timer", "odd"}, cfg \in {"absent", "empty", "full"}, v \in {-1, 0, 1, 2, 21}, s \in BOOLEAN,
          w \in {"absent", "failed", "odd"}, sc \in {-1, 1, 2}, f \in {"absent", "empty", "some"}, l \in SUBSET {"n", "ghost"} :
          in' = [schema |-> sc, name_ok |-> TRUE, trigger |-> [type |-> "manual", filter |-> f],
                 nodes |-> [n \in {"n", "m"} |-> [type |-> t, config |-> cfg, max_visits |-> IF n = "n" THEN v ELSE 2, stray |-> s]],
                 edges |-> {[source |-> "n", target |-> "m", when |-> w]}, layout |-> l]

(* domain/workflows.to_dict is the inverse of parse: a definition that was *)
(* accepted, written down and read again is accepted and is the same.      *)
StoredDefinitionIsTheSame ==
    (Is("definition") /\ Graph!ParseProblems(in, {"timer"}, {"failed"}) = {}) =>
       /\ Graph!ParseProblems(Graph!to_dict(Graph!parse(in)), {"timer"}, {"failed"}) = {}
       /\ Graph!parse(Graph!to_dict(Graph!parse(in))) = Graph!parse(in)

-----------------------------------------------------------------------------
(* Graphs of up to four nodes: gates, conditions without labels, actions   *)
GraphIds == {"a", "b", "c", "d"}
PlainNode(id, type) ==
    [id |-> id, type |-> type, max_visits |-> 2, effect |-> "EXTERNAL_WRITE", idempotent |-> TRUE, recorded |-> TRUE, known |-> TRUE,
     well_formed |-> TRUE, refs |-> {}, timeout |-> FALSE, handles |-> FALSE, overrides |-> FALSE, result |-> "success"]
PickGraph ==
    /\ Pick("graph")
    /\ \E types \in [GraphIds -> {"approval", "wait_event", "action"}],
          pairs \in SUBSET {p \in GraphIds \X GraphIds : p[1] # p[2]} :
          /\ \A id \in GraphIds : (types[id] = "action") <=> (id = "d")
          /\ Cardinality(pairs) <= 4
          /\ in' = [nodes |-> <<PlainNode("a", types["a"]), PlainNode("b", types["b"]), PlainNode("c", types["c"]), PlainNode("d", types["d"])>>,
                    edges |-> {[source |-> p[1], target |-> p[2], when |-> "always"] : p \in pairs},
                    trigger |-> "manual", required |-> FALSE]

(* domain/workflows._check_approval_gates: a valid workflow has a gate on  *)
(* EVERY path from an entry to an action that writes, and an action with   *)
(* a gate on every path is never complained about.                         *)
ValidMeansGated ==
    Is("graph") =>
       (("missing_approval" \notin Graph!validate(in, FALSE)) <=>
          \A p \in Graph!Paths(in) : Graph!node(in, p[Len(p)]).type = "action" =>
              \E i \in 1..(Len(p) - 1) : Graph!node(in, p[i]).type = "approval")


-----------------------------------------------------------------------------
(* Rules of what comes in from, and goes out to, other services, and of     *)
(* when.                                                                     *)
Del == INSTANCE Deliveries WITH TOLERANCE_S <- 1
Slot == INSTANCE Slots WITH DAY <- 48
Reply == INSTANCE Replies

-----------------------------------------------------------------------------
(* A request: three hosts, the first public, and what each hop answers     *)
Url(host, inners) == [plain |-> TRUE, local |-> FALSE, spelling |-> "name", host |-> host, parent |-> "p",
                      addresses |-> {[form |-> "v4", inner |-> i] : i \in inners}]
Urls(inners) == <<Url("a", {"global"}), Url("b", {"global"}), Url("c", inners)>>
PickRequest ==
    /\ Pick("request")
    /\ \E answers \in [1..3 -> [status : {200, 302, 307, 404}, to : 0..3, large : {FALSE}]], inners \in SUBSET {"global", "private"},
          bounded \in BOOLEAN, method \in {"POST", "HEAD"}, moved \in {{}, {2}} :
          in' = [answers |-> [i \in 1..3 |-> answers[i] @@ [moved |-> i \in moved]],
                 inners |-> inners, bounded |-> bounded, method |-> method]
Entry(host, wild) == [host |-> host, wild |-> wild]

(* connectors/ssrf.SafeHttp.request: however a server redirects, each hop   *)
(* is to a host an allowlist permits whose addresses were all public when   *)
(* it was checked; it reaches another address only if the name resolves     *)
(* differently when the client connects (the limit the module names). Who   *)
(* is calling is told only as long as every hop stayed on the first host, a *)
(* body is sent again only where every answer before asked for that (307),  *)
(* and the hops end.                                                        *)
HopsAreGuarded ==
    Is("request") =>
       LET allow == {Entry("a", FALSE), Entry("b", FALSE)}
           got == Del!request(Urls(in.inners), in.answers, allow, in.bounded, 2, in.method)
       IN  /\ Len(got.sent) <= 3
           /\ \A i \in 1..Len(got.sent) :
                 /\ got.sent[i].url = 3 => (in.inners = {"global"} /\ ~in.bounded)
                 /\ got.sent[i].secrets => \A k \in 1..i : got.sent[k].url = 1
                 /\ \A a \in got.sent[i].reached : a.inner = "global" \/ in.answers[i].moved
                 /\ got.sent[i].body => \A k \in 1..i - 1 : in.answers[k].status = 307
                 /\ got.sent[i].method = "POST" => got.sent[i].body

-----------------------------------------------------------------------------
(* A schedule and the time it is read at                                   *)
Intervals == [count : {-1, 0, 1, 30}, unit : {"m", "h", "d"}]
Crons == [field : {"at", "any", "every", "bad"}, minute : 0..1, anyHour : BOOLEAN, hour : {0, 9, 23},
          weekdays : {0..6, {2}}, installed : BOOLEAN]
PickSchedule ==
    /\ Pick("schedule")
    /\ \/ in' \in [type : {"interval"}, now : 0..(8 * 48), s : Intervals]
       \/ in' \in [type : {"daily", "weekly"}, now : 0..(8 * 48),
                    s : [hour : {0, 9, 23}, minute : 0..1, days : {{"mon"}, {"mon", "wed"}, {"weekend"}, {"odd"}}]]
       \/ in' \in [type : {"cron"}, now : 0..(7 * 48), s : Crons]
At == in.s.hour * 2 + in.s.minute
Later(t) == t > in.now
Next_run == Slot!compute_next_run(in.type, in.s, in.now)

(* scheduler/schedule_calculator.compute_next_run: the next run is the      *)
(* first moment after now with the time of day asked for; a weekly one is   *)
(* the first on a day asked for, today excepted; a cron one the first that  *)
(* fits the expression where croniter reads it or it names a minute and an  *)
(* hour of every day. An interval is later than now unless it is not        *)
(* positive, and without croniter every other cron expression is some time  *)
(* within a day.                                                            *)
NextRunIsNext ==
    Is("schedule") =>
       LET got == Next_run
           daily == /\ in.s.field = "at" /\ ~in.s.anyHour /\ in.s.weekdays = 0..6
           days == CASE "wed" \in in.s.days -> {0, 2} [] "weekend" \in in.s.days -> {5, 6} [] OTHER -> {0}
           Day(t) == (t \div 48) % 7
           Weekly(t) == t % 48 = At /\ Day(t) \in days /\ t \div 48 > in.now \div 48
       IN  /\ in.type = "interval" => (Later(got) <=> in.s.count > 0)
           /\ in.type = "daily" => (Later(got) /\ got % 48 = At /\ got <= in.now + 48)
           /\ in.type = "cron" =>
                 /\ (in.s.installed /\ in.s.field = "bad") <=> got = Slot!Raises
                 /\ (in.s.field # "bad" /\ (in.s.installed \/ daily)) =>
                       (Later(got) /\ Slot!Fits(in.s, got) /\ \A t \in in.now + 1..got - 1 : ~Slot!Fits(in.s, t))
                 /\ ~in.s.installed => (Later(got) /\ got <= in.now + 48)
           /\ in.type = "weekly" => (Later(got) /\ Weekly(got) /\ \A t \in in.now..(got - 1) : ~Weekly(t))

(* scheduler/schedule_calculator.py says "Schedule next-run calculation for *)
(* all schedule types": the next run of a cron task fits its expression,    *)
(* and a next run is never now or earlier. Neither is kept: see             *)
(* NextRunIsNext.                                                           *)
CronMeansItsFields == (Is("schedule") /\ in.type = "cron" /\ in.s.field # "bad") => Slot!Fits(in.s, Next_run)
NextIsLater == (Is("schedule") /\ Next_run # Slot!Raises) => Later(Next_run)

-----------------------------------------------------------------------------
(* A delivery to one of the connectors, configured for a place of its own  *)
Sources == {"github", "jira", "slack", "linear", "webhook"}
PickDelivery ==
    /\ Pick("delivery")
    /\ \E source \in Sources, r \in [signed : {"none", "odd", "wrong", "right"}, stamped : BOOLEAN, readable : BOOLEAN, age : {-2, -1, 1, 2},
             named : BOOLEAN, id : BOOLEAN, body : {"text", "list", "object"}, whole : BOOLEAN, kind : {"ours", "other"},
             place : {"here", "there"}, large : BOOLEAN, envelope : {"event_callback"}, team : {"ours", "other"}, author : {"person", "bot"}] :
          /\ r.signed = "right" \/ (r.whole /\ r.id /\ r.named)
          /\ source = "slack" \/ (r.team = "ours" /\ r.author = "person")
          /\ r.stamped \/ (r.readable /\ r.age = 1)
          /\ r.readable \/ r.age = 1
          /\ r.large => (r.signed = "right" /\ r.age = 1 /\ r.body = "object")
          /\ in' = [source |-> source, r |-> r]

(* connectors/webhooks.WebhookReceiver.receive: a delivery becomes an event *)
(* exactly when it is within the size limit, signed by the sender, recent   *)
(* where its stamp is signed, complete, and about what this integration     *)
(* watches.                                                                 *)
AcceptedExactly ==
    Is("delivery") =>
       LET r == in.r
           near == r.stamped /\ r.readable /\ r.age \in -1..1
       IN  (Del!receive(in.source, "here", r) = "envelope") <=>
              /\ ~r.large /\ r.signed = "right"
              /\ in.source \in {"slack", "linear", "webhook"} => near
              /\ r.id /\ r.body = "object" /\ r.kind = "ours"
              /\ in.source \in {"github", "jira", "linear", "webhook"} => r.named
              /\ in.source # "webhook" => (r.whole /\ r.place = "here")
              /\ in.source = "slack" => (r.team = "ours" /\ r.author = "person")

-----------------------------------------------------------------------------
(* What a service answers with status 200                                  *)
PickAnswer ==
    /\ Pick("answer")
    /\ in' \in [source : {"slack", "linear", "jira", "github", "notion"},
                 answer : {"ok", "not_json", "not_object", "auth", "ratelimited", "refused", "other"},
                 attempt : 1..2, uncertain : BOOLEAN]

(* The _call of each connector with runtime/retry.decide: what a service    *)
(* refuses for good, or for who is asking, is not asked again; a busy one   *)
(* is, unless the first request may have done its work.                     *)
RefusedIsNotAskedAgain ==
    Is("answer") =>
       LET kind == CASE in.source = "slack" -> Del!_call_slack(in.answer)
                     [] in.source = "linear" -> Del!_graphql(in.answer)
                     [] in.source = "jira" -> Del!_call_jira(in.answer)
                     [] in.source = "github" -> Del!_call_github(in.answer)
                     [] OTHER -> Del!_get_notion(in.answer)
           again == kind # "data" /\ Reply!decide(kind, -1, in.attempt, 3, FALSE, in.uncertain, -1).retry
       IN  /\ in.answer \in {"auth", "refused"} => ~again
           /\ (in.answer \in {"ratelimited", "not_json"} /\ in.source \in {"slack", "linear"}) => (again <=> ~in.uncertain)


-----------------------------------------------------------------------------
(* Rules of what an edit or a diff does to a file, and of which commands    *)
(* run unasked.                                                             *)
Edit == INSTANCE Edits WITH MAX_HUNK_DRIFT <- 2
Cmd == INSTANCE Commands

-----------------------------------------------------------------------------
(* Text of up to four characters, a search of up to three                  *)
Strings(n) == UNION {[1..k -> {"a", " ", "n"}] : k \in 0..n}
PickEdit ==
    /\ Pick("edit")
    /\ in' \in [text : Strings(4), search : Strings(3), replace : {<<>>, <<"b">>, <<" ", "b">>}, all : BOOLEAN]
Got == Edit!apply_search_replace(in.text, in.search, in.replace, in.all)
Says(s) == \E i \in DOMAIN s : s[i] = "a"
Bare(ls) == [i \in DOMAIN ls |-> SelectSeq(ls[i], LAMBDA c : c # " ")]

(* patching/edits.apply_search_replace: an edit that is not for all places  *)
(* changes at most one: the only exact occurrence or, when there is none, a *)
(* block of whole lines that differ from the search in blanks, and blank    *)
(* lines around it, alone. Every other line is as it was.                   *)
EditsOnlyItsPlace ==
    (Is("edit") /\ ~in.all /\ Says(in.search) /\ Got.ok /\ Got.text # in.text) =>
       LET places == {i \in 1..Len(in.text) : Edit!At(in.text, i, in.search)}
           src == Edit!Lines(in.text)
           bare == Bare(Edit!Lines(in.search))
           Blank(i) == bare[i] = <<>>
           needles == {SubSeq(bare, i, k) : i \in {j \in DOMAIN bare : \A b \in 1..j - 1 : Blank(b)},
                                            k \in {j \in DOMAIN bare : \A b \in j + 1..Len(bare) : Blank(b)}}
           bodies == {<<>>, <<<<>>>>, <<<<"b">>>>, <<<<" ", "b">>>>, <<<<" ", " ", "b">>>>, <<<<" ", " ", " ", "b">>>>}
       IN  IF places # {}
           THEN \E i \in places :
                   /\ \A k \in places : k < i + Len(in.search) /\ i < k + Len(in.search)
                   /\ Got.text = Edit!Splice(in.text, i, Len(in.search), in.replace)
           ELSE \E i \in 1..Len(src), needle \in needles, new \in bodies :
                   Edit!At(Bare(src), i, needle) /\ Got.text = Edit!Joined(Edit!Splice(src, i, Len(needle), new))

(* patching/edits.apply_search_replace says that it returns the text with   *)
(* the edit applied, or raises.                                             *)
AppliedOrRefused == (Is("edit") /\ ~in.all /\ Says(in.search) /\ in.replace = <<"b">> /\ Got.ok) => Got.text # in.text

-----------------------------------------------------------------------------
(* A file, what a diff does to each of its lines, where the diff is cut in  *)
(* two hunks, and lines a person put before it meanwhile                    *)
Line(w) == [word |-> w, blank |-> FALSE]
PickDiff ==
    /\ Pick("diff")
    /\ \E n \in 1..3 :
          in' \in [old : [1..n -> {"x", "y"}], acts : [1..n -> {"keep", "drop", "swap", "grow"}], cut : 0..n - 1, moved : 0..2,
                   nl : BOOLEAN, target_nl : BOOLEAN]
Tagged(tag, w) == [tag |-> tag, word |-> w, blank |-> FALSE, start |-> 0]
HunkAt(start) == [tag |-> "hunk", word |-> "", blank |-> FALSE, start |-> start]
Change(w, act) == CASE act = "keep" -> <<Tagged(" ", w)>>
                    [] act = "drop" -> <<Tagged("-", w)>>
                    [] act = "swap" -> <<Tagged("-", w), Tagged("+", "z")>>
                    [] OTHER -> <<Tagged(" ", w), Tagged("+", "z")>>
Becomes(w, act) == CASE act = "keep" -> <<Line(w)>> [] act = "drop" -> <<>> [] act = "swap" -> <<Line("z")>> [] OTHER -> <<Line(w), Line("z")>>
Concat(F(_), from, to) ==
    LET Upto[i \in (from - 1)..to] == IF i < from THEN <<>> ELSE Upto[i - 1] \o F(i) IN Upto[to]
DiffOf(old, acts, cut, eof) ==
    LET Part(i) == Change(old[i], acts[i])
        n == Len(old)
    IN  (IF cut = 0 THEN <<HunkAt(1)>> \o Concat(Part, 1, n)
         ELSE <<HunkAt(1)>> \o Concat(Part, 1, cut) \o <<HunkAt(cut + 1)>> \o Concat(Part, cut + 1, n))
        \o (IF eof THEN <<Tagged("eof", "")>> ELSE <<>>)

Above == [i \in 1..in.moved |-> Line("p")]
Was(from, to) == LET One(i) == <<Line(in.old[i])>> IN Concat(One, from, to)
Now(from, to) == LET One(i) == Becomes(in.old[i], in.acts[i]) IN Concat(One, from, to)
Target == Above \o Now(1, Len(in.old))
ByDiff == Edit!PatchedFile([lines |-> Above \o Was(1, Len(in.old)), nl |-> in.nl],
                           Edit!parse_unified_diff(DiffOf(in.old, in.acts, in.cut, ~in.nl \/ ~in.target_nl)))

(* patching/unified with patching/engine.apply_changes: the diff from one   *)
(* content to another turns a file with the one into the other, whether it  *)
(* is cut in hunks or lines were added above meanwhile. With both, the      *)
(* second hunk is looked for where it was before the lines came, and finds  *)
(* its place for sure only if its context is nowhere else. The file ends    *)
(* with the end of a line only if it did before: a diff that adds it is     *)
(* not followed in that.                                                    *)
DiffYieldsTarget ==
    Is("diff") =>
       LET n == Len(in.old)
           second == Was(in.cut + 1, n)
           before == Above \o Now(1, in.cut) \o second
           places == {i \in 1..Len(before) : Edit!At(before, i, second)}
       IN  /\ ByDiff.ok
           /\ (in.moved = 0 \/ in.cut = 0 \/ Cardinality(places) = 1) => ByDiff.lines = Target
           /\ ByDiff.lines # <<>> => (ByDiff.nl <=> (in.nl /\ in.target_nl))

(* patching/unified says that a hunk which cannot be located is an error,   *)
(* never a guess: what a diff is applied to becomes what the diff says.     *)
FileIsTheTarget ==
    (Is("diff") /\ ByDiff.ok) => ByDiff.lines = Target /\ (Target # <<>> => (ByDiff.nl <=> in.target_nl))

(* patching/unified says that a hunk which cannot be located is an error,   *)
(* never a guess: an insertion without context, as diff -U0 writes it, is   *)
(* refused or goes where the diff puts it, after its line.                  *)
InsertedWhereItSays ==
    Is("diff") =>
       \A k \in 1..Len(in.old) :
          LET file == [i \in 1..Len(in.old) |-> Line(in.old[i])]
              got == Edit!apply_hunks(file, Edit!parse_unified_diff(<<HunkAt(k), Tagged("+", "z")>>))
          IN  got.ok => got.lines = SubSeq(file, 1, k) \o <<Line("z")>> \o SubSeq(file, k + 1, Len(file))

-----------------------------------------------------------------------------
(* Text with quotes, a backslash and operators of the shell                *)
Shell == {"'", "\"", "\\", ";", "$(", "x"}
PickText == Pick("text") /\ in' \in UNION {[1..n -> Shell] : n \in 0..4}

(* How a shell reads each character: plain, within quotes, or as itself     *)
(* after a backslash. The quotes are read as plain.                         *)
Reading(s, mode) ==
    LET Escapes(i) == i > 0 /\ s[i] = "\\" /\ mode[i] \in {"plain", "double"}
    IN  \A i \in DOMAIN s :
           IF Escapes(i - 1) THEN mode[i] \in {"escaped", "escaped_double"} /\ (mode[i] = "escaped_double" <=> mode[i - 1] = "double")
           ELSE LET open == CASE i = 1 -> "plain"
                              [] mode[i - 1] = "escaped" -> "plain"
                              [] mode[i - 1] = "escaped_double" -> "double"
                              [] mode[i - 1] = "plain" /\ s[i - 1] = "'" -> "single"
                              [] mode[i - 1] = "plain" /\ s[i - 1] = "\"" -> "double"
                              [] mode[i - 1] = "single" /\ s[i - 1] = "'" -> "plain"
                              [] mode[i - 1] = "double" /\ s[i - 1] = "\"" -> "plain"
                              [] OTHER -> mode[i - 1]
                IN  mode[i] = open

(* tools/command_risk.find_shell_syntax finds an operator exactly when the  *)
(* shell would act on one: unquoted, or a substitution in double quotes.    *)
SyntaxIsSeen ==
    Is("text") =>
       LET mode == CHOOSE m \in [DOMAIN in -> {"plain", "single", "double", "escaped", "escaped_double"}] : Reading(in, m)
       IN  Cmd!find_shell_syntax(in) <=>
              \E i \in DOMAIN in : \/ in[i] = ";" /\ mode[i] = "plain"
                                   \/ in[i] = "$(" /\ mode[i] \in {"plain", "double"}

-----------------------------------------------------------------------------
(* Commands of up to two arguments                                         *)
Exes == {"cat", "find", "sort", "rg", "git", "pytest", "ruff", "black", "eslint", "python", "npm", "cargo", "make", "pip", "curl", "rm", "cp", "odd"}
Args == {"-exec", "--output", "-ofile", "pytest", "black", "check", "-c", "--check", "--fix", "format", "fmt", "test", "install", "list", "status", "push", "--list", "branch", "-m", "x"}
PickCommand ==
    /\ Pick("command")
    /\ \E exe \in Exes, args \in UNION {[1..n -> Args] : n \in 0..2}, p, s, r, o, d \in BOOLEAN :
          /\ (p /\ ~s /\ ~r) \/ Len(args) = 0
          /\ in' = [blank |-> FALSE, destructive |-> d, sensitive |-> FALSE, parses |-> p, syntax |-> s, relative |-> r,
                    outside |-> o, exe |-> exe, args |-> args]
Mentions(a) == \E i \in DOMAIN in.args : in.args[i] = a

Begins(a) == in.args # <<>> /\ in.args[1] = a
RunsModule(m) == in.exe = "python" /\ Len(in.args) = 2 /\ in.args[1] = "-m" /\ in.args[2] = m

(* What the tools themselves do: rewrite files ...                          *)
Rewrites ==
    \/ in.exe = "sort" /\ (Mentions("--output") \/ Mentions("-ofile"))
    \/ in.exe = "black" /\ ~Mentions("--check") /\ ~Mentions("-c")
    \/ in.exe = "eslint" /\ Mentions("--fix")
    \/ in.exe = "ruff" /\ (Mentions("--fix") \/ (Begins("format") /\ ~Mentions("--check")))
    \/ in.exe = "cargo" /\ Begins("fmt") /\ ~Mentions("--check")
    \/ RunsModule("black")
(* ... and the forms of that which the lists of command_risk miss;          *)
Overlooked ==
    \/ in.exe = "sort" /\ Mentions("-ofile")
    \/ in.exe = "ruff" /\ Mentions("--fix")
    \/ RunsModule("black")
(* or execute what they are handed, fetch, publish or leave the repository. *)
Changes ==
    \/ in.destructive \/ in.syntax \/ in.relative \/ in.exe \in {"curl", "rm", "cp"}
    \/ in.exe = "find" /\ Mentions("-exec")
    \/ in.exe = "git" /\ in.args # <<>> /\ (Begins("push") \/ Mentions("--output") \/ Begins("-c"))
    \/ in.exe = "git" /\ in.args = <<"branch", "x">>
    \/ in.exe \in {"npm", "pip", "cargo"} /\ Begins("install")
    \/ in.exe = "python" /\ ~RunsModule("pytest") /\ ~RunsModule("black")
    \/ in.exe \in {"cat", "find", "sort", "rg"} /\ in.outside

(* tools/command_runner.run_command_safe: what executes other code than the *)
(* project's tests, fetches, publishes or leaves the repository never runs  *)
(* unasked; what rewrites files does only in the forms the lists overlook   *)
(* (a fix by ruff, a formatter run as a module, sort with its output        *)
(* attached to the option); nothing blocked ever runs; and what runs unasked*)
(* is at most a write to the workspace in the class a policy sees, which    *)
(* calls nothing a read that rewrites, that sort excepted.                  *)
UnaskedIsHarmless ==
    Is("command") =>
       LET ran(approved) == Cmd!run_command_safe(in, approved) \in {"run_shell", "run_argv"}
       IN  /\ ran(FALSE) => (~Changes /\ (Rewrites => Overlooked))
           /\ in.destructive => ~ran(TRUE)
           /\ ran(FALSE) => Cmd!effect_of(in) \in {"PURE", "READ_ONLY", "WORKSPACE_WRITE"}
           /\ (Rewrites /\ in.exe # "sort") => Cmd!effect_of(in) \notin {"PURE", "READ_ONLY"}

(* tools/command_risk says of sort, black, isort, ruff and eslint that they *)
(* are asked about when they rewrite files.                                 *)
AsksBeforeRewriting == (Is("command") /\ Rewrites) => Cmd!run_command_safe(in, FALSE) \notin {"run_shell", "run_argv"}

-----------------------------------------------------------------------------
(* A diff whose hunks say where they begin in the new file, with a secret   *)
(* in some added lines                                                      *)
DiffTag(t) == [tag |-> t, start |-> 0, pattern |-> t = "+", assigns |-> t = "+"]
PickScan ==
    /\ Pick("scan")
    /\ \E a, b \in UNION {[1..n -> {"+", "-", " "}] : n \in 0..3}, gap \in 0..2 :
          LET kept == Cardinality({i \in DOMAIN a : a[i] # "-"})
              Body(h) == [i \in DOMAIN h |-> DiffTag(h[i])]
              Start(n) == [DiffTag("hunk") EXCEPT !.start = n]
          IN  in' = <<DiffTag("file"), Start(1)>> \o Body(a) \o <<Start(1 + kept + gap)>> \o Body(b)

(* tools/secret_guard.scan_diff: each added line with a secret is reported  *)
(* once, with the number it has in the new file.                            *)
FindingsAreWhereTheyAre ==
    Is("scan") =>
       LET at(i) == LET h == CHOOSE k \in DOMAIN in : in[k].tag = "hunk" /\ k < i /\ \A m \in k + 1..i : in[m].tag # "hunk"
                    IN  in[h].start + Cardinality({m \in h + 1..i - 1 : in[m].tag \in {"+", " "}})
       IN  Cmd!scan_diff(in) = {<<i, at(i)>> : i \in {k \in DOMAIN in : in[k].tag = "+"}}


-----------------------------------------------------------------------------
(* Rules of what an agent is told: memory, preferences, files, prompts, and *)
(* the commands it validates with.                                           *)
Ctx == INSTANCE Context WITH CHARS_PER_TOKEN <- 2, LEFT_OVER <- 1, MIN_BLOCK_CHARS <- 5, MARKER <- 2

-----------------------------------------------------------------------------
(* Two or three records of one tenant, two of another, for one run         *)
Someone == [org |-> "o", ws |-> "w", repo |-> "r", user |-> "u", workflow |-> ""]
Note == {m \in [org : {"o"}, ws : {"w", "x"}, scope : {"organization", "workspace", "repository", "user"}, id : {"r", "u", "z"},
         kind : {"episodic"}, key : {"k", "l"}, status : {"active", "stale"}, source : {"user_explicit", "agent_inference", "ci"},
         confidence : {20, 80}, age : {20, 100}, relevance : {10, 50}, profile : {FALSE}, cost : {2, 3}] :
            /\ m.source = "user_explicit" => m.age = 20
            /\ m.scope \in {"organization", "workspace"} => (m.id = "z" /\ m.ws = "w")
            /\ m.scope = "repository" => m.id \in {"r", "z"}
            /\ m.scope = "user" => m.id \in {"u", "z"}
            /\ (m.ws = "x" \/ (m.id = "z" /\ m.scope \in {"repository", "user"}) \/ m.status = "stale" \/ m.relevance = 10)
                  => (m.key = "k" /\ m.cost = 2 /\ m.source = "ci")}
PickMemory ==
    /\ Pick("memory")
    /\ \E a, b \in Note, mode \in {"off", "repo", "user"}, budget \in {2, 4} :
          /\ a.source = "ci" /\ (a.status = "active" \/ b.source = "ci")
          /\ in' = [records |-> <<a, b>>, mode |-> mode, budget |-> budget]
Believed(m) == m.status = "active" /\ (m.source = "user_explicit" \/ m.age < 100) /\ m.confidence = 80 /\ m.relevance = 50
Mine(m) == m.ws = "w" /\ (m.scope = "user" => in.mode = "user" /\ m.id = "u") /\ (m.scope = "repository" => m.id = "r")

(* runtime/memory_service.select: a run is shown only records of its own    *)
(* tenant, repository and person that are still believed, within the        *)
(* budget; a key has one record, of the narrowest scope that has a believed *)
(* one; and what was left out is shadowed or did not fit.                   *)
NotesAreTheNarrowest ==
    Is("memory") =>
       LET got == Ctx!begin(in.records, Someone, in.mode, FALSE, in.budget)
           chosen == {got[i] : i \in DOMAIN got}
           ms == in.records
           fine == {i \in 1..2 : in.mode # "off" /\ Believed(ms[i]) /\ Mine(ms[i])}
           Rank(m) == CASE m.scope = "organization" -> 1 [] m.scope = "workspace" -> 2 [] m.scope = "repository" -> 3 [] OTHER -> 4
       IN  /\ chosen \subseteq fine
           /\ (chosen = {1, 2}) => (ms[1].key # ms[2].key /\ ms[1].cost + ms[2].cost <= in.budget)
           /\ \A i \in chosen : ms[i].cost <= in.budget /\
                 \A j \in fine : ms[j].key = ms[i].key => Rank(ms[i]) >= Rank(ms[j])
           /\ \A i \in fine \ chosen :
                 \/ \E j \in fine : j # i /\ ms[j].key = ms[i].key /\ Rank(ms[j]) >= Rank(ms[i])
                 \/ ms[i].cost > in.budget
                 \/ \E j \in chosen : ms[i].cost + ms[j].cost > in.budget

-----------------------------------------------------------------------------
(* Three files, the third a test of the first, and a small budget          *)
PickFiles ==
    /\ Pick("files")
    /\ \E e \in [1..3 -> {"named", "planned", "traced", "much", "little", "none"}], loads \in [1..3 -> BOOLEAN], s \in [1..3 -> {2, 5}],
          opts \in [budget : {2, 4}, per_file : {3, 9}, max_files : {1, 2}, cutoff : {25}, top : {0, 1}],
          redaction \in {<<0, 0>>, <<3, 0>>, <<3, 3>>, <<-1, 3>>} :
          /\ e[3] \in {"named", "none"} /\ loads[3]
          /\ \A i \in 1..3 : ~loads[i] => s[i] = 2 /\ (i < 3 => redaction[i] = 0)
          /\ in' = [opts |-> opts,
                 files |-> [i \in 1..3 |-> [named |-> e[i] = "named", planned |-> e[i] = "planned", traced |-> e[i] = "traced",
                            pathHits |-> IF e[i] = "much" THEN 4 ELSE 0, symHits |-> IF e[i] \in {"much", "little"} THEN 1 ELSE 0,
                            testOf |-> IF i = 3 THEN {1} ELSE {}, loads |-> loads[i], size |-> s[i],
                            redaction |-> IF i < 3 THEN redaction[i] ELSE 0]]]

Chars(got) == IF Len(got) = 0 THEN 0 ELSE IF Len(got) = 1 THEN got[1].chars ELSE got[1].chars + got[2].chars

(* context/builder.build_context: what is read stays within the budget,     *)
(* over which it goes at most by what redaction adds to the file read last; *)
(* a file that could be read is left out only for files with no less        *)
(* evidence that used up the places or the budget, and never for the        *)
(* cut-off when somebody named it.                                          *)
EvidenceDecides ==
    Is("files") =>
       LET got == Ctx!build_context(in.files, in.opts)
           chosen == {got[k].file : k \in DOMAIN got}
           used == Chars(got)
           Added(k) == Ctx!Most(0, in.files[got[k].file].redaction)
           total == 2 * in.opts.budget
           Asked(i) == in.files[i].named \/ in.files[i].planned \/ in.files[i].traced
           Weight(f) == CASE f.named -> 200 [] f.traced -> 150 [] f.planned -> 100 [] f.pathHits > 0 -> 28 [] f.symHits > 0 -> 4 [] OTHER -> 0
       IN  /\ used <= total + (IF got = <<>> THEN 0 ELSE Added(Len(got))) /\ Len(got) <= in.opts.max_files
           /\ \A k \in DOMAIN got : in.files[got[k].file].loads /\ got[k].chars <= in.opts.per_file + Added(k)
           /\ \A i \in {1, 2} \ chosen : (in.files[i].loads /\ Asked(i)) =>
                 /\ Len(got) = in.opts.max_files \/ total - used <= 1
                 /\ \A j \in chosen \ {3} : Weight(in.files[j]) >= Weight(in.files[i])

(* context/builder says that files are "redacted, and cut to a budget".     *)
WithinBudget == Is("files") => Chars(Ctx!build_context(in.files, in.opts)) <= 2 * in.opts.budget

-----------------------------------------------------------------------------
(* A prompt of a fixed part and up to three blocks                         *)
PickPrompt ==
    /\ Pick("prompt")
    /\ in' \in [fixed : 1..8, sizes : UNION {[1..n -> 0..14] : n \in 0..2} \union [1..3 -> {4, 6, 14}], budget : 5..30]
Length(p) == p.fixed + Ctx!Total(p.blocks)

(* agents/budget.fit_text: what the prompt says stays whole as long as each *)
(* block can keep its least; a block loses no more than down to that; and   *)
(* the prompt is over its budget at most by what keeping that costs.        *)
CutsOnlyBlocks ==
    Is("prompt") =>
       LET got == Ctx!fit_text(in.fixed, in.sizes, in.budget)
           n == Len(in.sizes)
           room == in.budget - in.fixed
       IN  /\ (in.fixed + Ctx!Total(in.sizes) <= in.budget) => got = [fixed |-> in.fixed, blocks |-> in.sizes]
           /\ (n > 0 /\ room >= 5 * n) => (got.fixed = in.fixed /\ \A i \in 1..n : got.blocks[i] >= Ctx!Least(in.sizes[i], 5))
           /\ Length(got) <= in.budget + (IF n > 1 THEN (n - 1) * 5 ELSE 0)

(* The same: "never send a model more than its context window can hold".    *)
PromptFits == Is("prompt") => Length(Ctx!fit_text(in.fixed, in.sizes, in.budget)) <= in.budget

-----------------------------------------------------------------------------
(* A repository, what its manifests say, and commands people and plans name *)
Choice == {<<>>, <<"pytest">>, <<"rm", "-rf">>, <<"npm", "test">>}
PickCommands ==
    /\ Pick("commands")
    /\ \E files \in SUBSET {"pyproject", "tests", "tox", "package", "cargo", "makefile", "go"}, missing \in SUBSET {"npm", "pytest"},
          wanted, planned \in {s \in Choice \X Choice : s[1] = <<>> => s[2] = <<>>}, limit \in 1..2 :
          in' = [files |-> files, missing |-> missing, wanted |-> wanted, planned |-> planned, limit |-> limit]

(* state_machine._pick_test_commands with tools/test_runner and the command *)
(* policy: whatever a person prefers, a plan names or a repository holds,   *)
(* the commands that validate a change run unattended and are installed,    *)
(* and a usable one a person prefers is not passed over for another's.      *)
TestsRunUnattended ==
    Is("commands") =>
       LET Some(s) == SelectSeq(s, LAMBDA c : c # <<>>)
           wanted == Some(in.wanted)
           got == Cmd!_pick_test_commands(wanted, Some(in.planned), in.files, in.missing, in.limit)
           Tool(c) == c[1] \notin in.missing
       IN  /\ Len(got) <= in.limit
           /\ \A i \in DOMAIN got : Tool(got[i]) /\ got[i][1] # "rm"
           /\ (\E i \in DOMAIN wanted : wanted[i][1] # "rm" /\ Tool(wanted[i])) => \A i \in DOMAIN got : \E k \in DOMAIN wanted : got[i] = wanted[k]


-----------------------------------------------------------------------------
(* Rules of how runs are judged.                                            *)
Eval == INSTANCE Evaluation

-----------------------------------------------------------------------------
Kinds == {"none", "MODEL_UNAVAILABLE", "TEST_FAILURE", "BUDGET_EXHAUSTED", "USER_CANCELLED", "SANDBOX_FAILURE", "DATABASE_FAILURE"}
PickTask ==
    /\ Pick("task")
    /\ \E r \in [run_status : {"completed", "failed", "interrupted"}, outcome : {"applied", "no_patch", "no_changes", "conflict", "rejected", "none"},
                 verdict : {"regression", "passed"}, kind : Kinds, error : {"none", "budget", "provider"}, late : BOOLEAN,
                 oracle : {0, 1, 127, -1}, forbidden : BOOLEAN], scripted \in BOOLEAN :
          /\ (r.run_status = "failed") <=> (r.kind # "none")
          /\ r.run_status = "completed" => r.error = "none"
          /\ in' = [run |-> r, scripted |-> scripted]

(* evaluation/metrics.attribute with runner.run_task: a task succeeds only  *)
(* in time, applied, past the hidden oracle and with protected files left   *)
(* alone; each other one is attributed; a harness bug is never blamed on    *)
(* the model: not what the scripted reference failed, nor a run that broke  *)
(* for reasons of its own.                                                  *)
BlameIsFair ==
    Is("task") =>
       LET r == in.run
           got == Eval!run_task(r, in.scripted)
       IN  /\ (got.status = "success") <=> (~r.late /\ r.run_status = "completed" /\ r.outcome = "applied" /\ r.oracle = 0 /\ ~r.forbidden)
           /\ (got.status = "success") <=> (got.attribution = "none")
           /\ (got.attribution = "MODEL_FAILURE") => (~in.scripted /\ r.kind \notin {"MODEL_UNAVAILABLE", "SANDBOX_FAILURE", "DATABASE_FAILURE"})

(* The same comment: "a weak model must never be blamed on the harness". A  *)
(* patch that was applied and makes the hidden tests hang is the model's.   *)
WeaknessIsTheModels ==
    Is("task") =>
       LET r == in.run
       IN  (r.outcome = "applied" /\ r.run_status = "completed" /\ ~r.late /\ ~in.scripted /\ r.oracle = -1)
              => Eval!run_task(r, FALSE).attribution = "MODEL_FAILURE"

-----------------------------------------------------------------------------
Results == [{"a", "b"} -> {"success", "failure"}]
PickGate ==
    /\ Pick("gate")
    /\ in' \in [tier : 0..4, live : BOOLEAN,
                w : [reference : Results, null : Results, scenarios : BOOLEAN, replays : BOOLEAN,
                     smoke : {{}, {"MODEL_FAILURE"}, {"TOOL_FAILURE"}}, corpus : Results, fail_under : {0, 50},
                     baseline : {<<>>, [t \in {"a"} |-> "success"], [t \in {"a", "b"} |-> "success"]}]]

(* evaluation/gates.run_gate: a gate that passed ran every tier it was      *)
(* asked for, the live ones on a model, and in each of them nothing that    *)
(* used to succeed failed; no tier is run above one that failed.            *)
GateMeansAll ==
    Is("gate") =>
       LET got == Eval!run_gate(in.tier, in.live, in.w)
           Good(r) == \A t \in DOMAIN r : r[t] = "success"
       IN  /\ got.passed => (/\ got.ran = 0..in.tier /\ (in.tier <= 2 \/ in.live)
                             /\ Good(in.w.reference) /\ \A t \in {"a", "b"} : in.w.null[t] # "success")
           /\ (got.passed /\ in.tier = 4) => (\A t \in DOMAIN in.w.baseline : in.w.corpus[t] = "success") /\ "TOOL_FAILURE" \notin in.w.smoke
           /\ (~Good(in.w.reference) \/ (in.tier > 0 /\ ~in.w.scenarios)) => \A n \in got.ran : n <= 1

-----------------------------------------------------------------------------
PickPairs ==
    /\ Pick("pairs")
    /\ in' \in [a : [1..5 -> {"success", "partial"}], b : [1..5 -> {"success", "failure"}]]

(* evaluation/experiments.run_experiment: the p-value is the share of all   *)
(* ways the decisive tasks could have gone that are at least as lopsided,   *)
(* and every task is a win, a loss or a tie.                                *)
SignTestIsExact ==
    Is("pairs") =>
       LET got == Eval!run_experiment(in.a, in.b)
           n == Cardinality(got.wins) + Cardinality(got.losses)
           Gap(w) == IF 2 * w > n THEN 2 * w - n ELSE n - 2 * w
           extreme == {s \in SUBSET (1..n) : Gap(Cardinality(s)) >= Gap(Cardinality(got.wins))}
       IN  /\ n > 0 => got.p = Cardinality(extreme)
           /\ got.wins \intersect got.losses = {} /\ got.ties = 5 - n /\ got.ties = Cardinality({t \in 1..5 : (in.a[t] = "success") <=> (in.b[t] = "success")})


-----------------------------------------------------------------------------
(* Rules of calendars.                                                      *)

-----------------------------------------------------------------------------
Blocks == {b \in [start : 0..4, end : 1..5] : b.start < b.end}
PickSlot ==
    /\ Pick("slot")
    /\ \E a, b, c \in Blocks, duration \in 1..2, after \in 0..2 :
          in' = [busy |-> {a, b, c}, duration |-> duration, after |-> after]

(* calendar_service.find_next_available: the slot it proposes is free by    *)
(* its own check_conflicts and no earlier one within the horizon is; it     *)
(* proposes none only if there is none, however the blocks overlap.         *)
FirstFreeSlot ==
    Is("slot") =>
       LET got == Slot!find_next_available(in.busy, in.after, in.duration, 4)
           Free(t) == Slot!check_conflicts(in.busy, t, t + in.duration) = {}
           within == in.after..(in.after + 4 - in.duration)
       IN  IF got = -1 THEN \A t \in within : ~Free(t)
           ELSE got \in within /\ Free(got) /\ \A t \in in.after..(got - 1) : ~Free(t)

-----------------------------------------------------------------------------
Words == UNION {[1..n -> {"\\", "n", ",", "newline"}] : n \in 1..2}
IcsEvents == [id : {"u1", "u2"}, at : [local : {3}, offset : {0, 1}], title : {<<"n">>, <<",", "newline">>, <<"\\", "\\">>},
              description : Words \union {<<>>}, reminder : BOOLEAN]
PickIcs ==
    /\ Pick("ics")
    /\ \E e, f \in IcsEvents : /\ f.id = "u2" /\ e.id = "u1" /\ (f.description = <<>> \/ Len(f.description) = 1)
                               /\ in' = <<e, f>>

(* ics_calendar.export_events and _parse_ics: an event in UTC, without a    *)
(* backslash in its text and without a reminder, is read back as it was     *)
(* written, whatever the events beside it contain.                          *)
IcsKeepsTheEvent ==
    Is("ics") =>
       LET read == Slot!_parse_ics(Slot!export_events(in))
           Plain(e) == e.at.offset = 0 /\ ~e.reminder /\ \A t \in {e.title, e.description} : \A i \in DOMAIN t : t[i] # "\\"
       IN  Len(read) = 2 /\ \A i \in 1..2 : Plain(in[i]) => read[i] = in[i]


-----------------------------------------------------------------------------
(* Rules of what models are asked and what is made of their replies.        *)

-----------------------------------------------------------------------------
(* Replies of a coder, cut by the token cap at any place or not at all,     *)
(* with prose before them; the third is no object                           *)
Documents ==
    {<<"{", "q", "e", "q", ":", "[", "q", "a", "\\", "q", "}", "q", ",", "q", "b", "q", "]", ",", "q", "n", "q", ":", "1", "2", "}">>,
     <<"{", "q", "e", "q", ":", "[", "{", "q", "p", "q", ":", "q", "[", "q", "}", ",", "{", "q", "p", "q", ":", "1", "}", "]", "}">>,
     <<"[", "{", "q", "p", "q", ":", "1", "}", ",", "2", "]">>}
PickJson ==
    /\ Pick("json")
    /\ \E doc \in Documents, before \in {<<>>, <<"x">>, <<"{", "}">>}, after \in {<<>>, <<" ">>} : \E n \in 0..Len(doc) :
          in' = [doc |-> doc, text |-> before \o SubSeq(doc, 1, n) \o after, cut |-> n < Len(doc), plain |-> before # <<"{", "}">>]

RECURSIVE Pruned(_, _)
Pruned(a, b) ==
    /\ a.k = b.k
    /\ CASE a.k = "string" -> a.v = b.v
         [] a.k = "number" -> Len(a.v) <= Len(b.v) /\ a.v = SubSeq(b.v, 1, Len(a.v))
         [] a.k = "list" -> Len(a.v) <= Len(b.v) /\ \A i \in DOMAIN a.v : Pruned(a.v[i], b.v[i])
         [] OTHER -> Len(a.v) <= Len(b.v) /\ \A i \in DOMAIN a.v : a.v[i].key = b.v[i].key /\ Pruned(a.v[i].val, b.v[i].val)

(* salvage_truncated_json and _parse_json_response: what is read from a     *)
(* reply that was cut is what the model had written, entries missing at the *)
(* end and nowhere else, and no string is half of one; only a number may    *)
(* have lost digits.                                                        *)
WholeOrPrefix ==
    (Is("json") /\ in.plain) =>
       LET got == Reply!_parse_json_response(in.text, in.cut)
       IN  (got.k = "object" /\ Reply!loads(in.doc).k = "object") => Pruned(got, Reply!loads(in.doc))

(* _call_role: "A reply that still does not conform comes back as           *)
(* {"parse_error": True, ...} (callers already handle it)". A reply that is *)
(* JSON and no object is asked for an attribute it does not have.           *)
RepliesAreHandled == Is("json") => Reply!_validation_error(Reply!_parse_json_response(in.text, in.cut)) # "raises"

-----------------------------------------------------------------------------
Parts == [type : {"reasoning", "output_text", "text", "other"}, text : {"", "t"}]
Items ==
    [type : {"message"}, parts : UNION {[1..n -> Parts] : n \in 0..2}]
    \union [type : {"str", "reasoning", "other"}, parts : [1..1 -> {[type |-> "reasoning", text |-> "t"]}]]
PickOutput ==
    /\ Pick("output")
    /\ \E n \in 1..2 : \E items \in [1..n -> Items] : in' = items

(* providers_nvidia._extract_output_text: when the model wrote an answer,   *)
(* the text is that answer, its parts in order, and nothing of a message    *)
(* that is reasoning is in it.                                              *)
AnswerWithoutReasoning ==
    Is("output") =>
       LET got == Reply!_extract_output_text(in)
           Shown(it) == IF it.type = "message" THEN SelectSeq(it.parts, LAMBDA p : p.type = "output_text") ELSE <<>>
           answer == Reply!FlattenSeq([i \in DOMAIN in |-> Shown(in[i])])
       IN  answer # <<>> => (/\ SelectSeq(got, LAMBDA p : p.type = "output_text") = answer
                             /\ (\A i \in DOMAIN in : in[i].type \in {"message", "reasoning"}) => \A p \in Reply!Range(got) : p.type # "reasoning")

(* The docstring of _extract_output_text: "Never includes reasoning_text or *)
(* internal reasoning blocks." A reply that is nothing else is returned as  *)
(* it is.                                                                   *)
NeverReasoning ==
    Is("output") =>
       ((\A i \in DOMAIN in : in[i].type \in {"message", "reasoning"})
          => \A p \in Reply!Range(Reply!_extract_output_text(in)) : p.type # "reasoning")

-----------------------------------------------------------------------------
Usage(vendor) ==
    LET t == {-1, 0, 2}
    IN  IF vendor = "openai" THEN [prompt_tokens : t, completion_tokens : t, input_tokens : {-1}, output_tokens : {-1}]
        ELSE [prompt_tokens : {-1}, completion_tokens : {-1}, input_tokens : t, output_tokens : t]
PickAsk ==
    /\ Pick("ask")
    /\ \E run \in {"none", "mock", "openai", "nvidia", "anthropic"}, profile \in {"openai", "nvidia", "anthropic"},
          hints \in SUBSET {"json_schema", "json_object"}, schema, known \in BOOLEAN, first \in {200, 400, 401, 500}, complains \in BOOLEAN,
          second \in {200, 400} :
          LET config == Reply!_resolve_model(run, profile, hints)
          IN  \E u \in Usage(config.provider) :
                 in' = [config |-> config, schema |-> schema, known |-> known,
                        resps |-> <<[status |-> first, complains |-> complains, usage |-> u], [status |-> second, complains |-> FALSE, usage |-> u]>>]

(* provider_base: a provider "either honours the request or degrades        *)
(* explicitly". What is reported as degraded is exactly what was asked for  *)
(* and not in the request that was answered, with whichever provider and    *)
(* whatever was learned before.                                             *)
NothingSilently ==
    Is("ask") =>
       LET format == Reply!_response_format(in.config, in.schema)
           got == Reply!complete(in.config.provider, format, in.known, in.resps)
       IN  got.error = 0 => (/\ got.degraded = {format, "none"} \ {got.format, "none"}
                             /\ got.attempts = 2 => (in.resps[1].complains /\ ~in.known))

(* _record after any provider: the run is charged what the vendor counted,  *)
(* under whichever name, and nothing for a call that failed.                *)
TokensCounted ==
    Is("ask") =>
       LET got == Reply!complete(in.config.provider, Reply!_response_format(in.config, in.schema), in.known, in.resps)
           u == in.resps[1].usage
           Said(a, b) == (IF a > 0 THEN a ELSE 0) + (IF b > 0 THEN b ELSE 0)
       IN  Reply!_record(got) = IF got.error # 0 THEN 0 ELSE Said(u.prompt_tokens, u.input_tokens) + Said(u.completion_tokens, u.output_tokens)


-----------------------------------------------------------------------------
(* Rules of what is reported about runs.                                    *)

-----------------------------------------------------------------------------
Phases == {"a", "b"}
(* The trails an execution leaves: phases one after another, commands and   *)
(* model calls within them; a denied command is not started; a resume may   *)
(* follow anything.                                                         *)
Follows(t) ==
    LET With(type, phase, open, running) == [trail |-> Append(t.trail, [type |-> type, phase |-> phase]), open |-> open, running |-> running]
    IN  {With("run_resumed", "none", "none", FALSE)}
        \union (IF t.open = "none" THEN {With("phase_started", p, p, FALSE) : p \in Phases}
                ELSE IF t.running THEN {With("command_executed", "none", t.open, FALSE)}
                ELSE {With("phase_ended", t.open, "none", FALSE), With("command_started", "none", t.open, TRUE),
                      With("command_denied", "none", t.open, FALSE), With("model_call", t.open, t.open, FALSE)})
RECURSIVE Trails(_)
Trails(n) ==
    IF n = 0 THEN {[trail |-> <<>>, open |-> "none", running |-> FALSE]}
    ELSE LET shorter == Trails(n - 1) IN shorter \union UNION {Follows(t) : t \in shorter}
PickTrail == Pick("trail") /\ \E t \in Trails(7) : in' = t.trail

Recorded(type) == {i \in DOMAIN in : in[i].type = type}
Began(i) == LET b == {j \in 1..i : in[j].type = "phase_started"} IN Eval!Max(b)

(* trace.build_trace: the trace of an execution that was not interrupted    *)
(* has one span per phase and per command that ran, each command and model  *)
(* call hangs on the phase it happened in, and its time lies within it,     *)
(* however often a phase is entered.                                        *)
TraceTellsTheTrail ==
    (Is("trail") /\ Recorded("run_resumed") = {}) =>
       LET spans == Eval!build_trace(in, Phases)
           Once == \A p \in Phases : Cardinality({i \in Recorded("phase_started") : in[i].phase = p}) <= 1
       IN  /\ {s.key.id : s \in {t \in spans : t.key.kind = "phase"}} = Recorded("phase_started")
           /\ {s.key.id : s \in {t \in spans : t.key.kind = "command"}} = Recorded("command_executed")
           /\ \A s \in spans : (s.key.kind = "command" \/ (s.key.kind = "model" /\ Once)) =>
                 \E p \in spans : p.key = s.parent /\ p.key.id = Began(s.key.id) /\ p.from <= s.from /\ s.to <= p.to

(* tests/integration/test_trace_export.py: "no orphans". The span of a      *)
(* phase that a crash left open is not in the trace once the phase is begun *)
(* again, and its commands hang on it.                                      *)
NoOrphans == Is("trail") => LET spans == Eval!build_trace(in, Phases) IN \A s \in spans : \E p \in spans : p.key = s.parent

-----------------------------------------------------------------------------
Ended ==
    {r \in [status : {"completed", "failed", "interrupted"}, outcome : {"applied", "rejected", "none"}, verdict : {"none", "passed", "regression"},
            attempt : {1, 2}, model : {"priced", "local"}, calls : {0, 1}, tokens : {0, 5}, reworked : BOOLEAN] :
        /\ (r.status = "completed") <=> (r.outcome # "none")
        /\ (r.calls = 0) <=> (r.tokens = 0)}
PickWindow ==
    /\ Pick("window")
    /\ \E r, s \in Ended : in' = {[id |-> 1] @@ r, [id |-> 2] @@ s}

(* metrics._block and compute: a group's figures add up to those of the     *)
(* window; a first-pass success is a success, and no rate has more above    *)
(* the line than below.                                                     *)
MetricsAddUp ==
    Is("window") =>
       LET all == Eval!compute(in, {"priced"}).totals
           groups == Eval!compute(in, {"priced"}).groups
           Sum(F(_)) == Eval!MapThenSumSet(LAMBDA m : F(groups[m]), DOMAIN groups)
       IN  /\ all.finished = Sum(LAMBDA b : b.finished) /\ all.tokens = Sum(LAMBDA b : b.tokens)
           /\ all.task_success_rate.num = Sum(LAMBDA b : b.task_success_rate.num)
           /\ all.first_pass_success_rate.num <= all.task_success_rate.num
           /\ \A q \in {all.task_success_rate, all.validation_pass_rate, all.first_pass_success_rate, all.resume_success_rate} :
                 q.num <= q.den

(* A comment of _block: "only when every model in the window is priced".    *)
(* The code compares two counts.                                            *)
CostOnlyIfPriced ==
    Is("window") => (Eval!_block(in, {"priced"}).cost = "known" => \A r \in in : r.calls > 0 => r.model = "priced")

-----------------------------------------------------------------------------
PickRank ==
    /\ Pick("rank")
    /\ \E n \in 0..4, p \in {0, 50, 95, 100} : \E v \in [1..n -> 1..3] :
          /\ \A i \in 1..(n - 1) : v[i] <= v[i + 1]
          /\ in' = [v |-> v, p |-> p]

(* metrics.percentile, the nearest rank: at least p percent of the values   *)
(* are at most the result, and fewer are at most any smaller value.         *)
NearestRank ==
    (Is("rank") /\ in.v # <<>>) =>
       LET got == Eval!percentile(in.v, in.p)
           Upto(x) == Cardinality({i \in DOMAIN in.v : in.v[i] <= x}) * 100
       IN  /\ Upto(got) >= in.p * Len(in.v)
           /\ \A i \in DOMAIN in.v : in.v[i] < got => Upto(in.v[i]) < in.p * Len(in.v)


-----------------------------------------------------------------------------
(* Rules of what is learned from runs, and of how drift is judged.          *)

-----------------------------------------------------------------------------
Episodes == [task : 1..2, seed : 1..2, id : 1..2, reward : 0..1, success : BOOLEAN]
PickDataset ==
    /\ Pick("dataset")
    /\ \E a, b \in Episodes, kind \in {"successful", "failed", "paired"} : \E c \in {e \in Episodes : e.seed = 1} :
          in' = [ts |-> <<a, b, c>>, kind |-> kind]

(* export_dataset: pairs do not depend on the order of the episodes; every  *)
(* task with a success and a failure has one; what is chosen succeeded,     *)
(* what is rejected failed, and no other of its kind had a higher reward.   *)
PairsAreTheBest ==
    Is("dataset") /\ in.kind = "paired" =>
       LET got == Eval!export_dataset(in.ts, "paired")
           of(t, s) == {e \in {in.ts[i] : i \in DOMAIN in.ts} : e.task = t /\ e.success = s}
       IN  /\ got = Eval!export_dataset(Reverse(in.ts), "paired")
           /\ {got[k].task : k \in DOMAIN got} = {t \in 1..2 : of(t, TRUE) # {} /\ of(t, FALSE) # {}}
           /\ \A k \in DOMAIN got :
                 /\ got[k].chosen \in of(got[k].task, TRUE) /\ \A e \in of(got[k].task, TRUE) : e.reward <= got[k].chosen.reward
                 /\ got[k].rejected \in of(got[k].task, FALSE) /\ \A e \in of(got[k].task, FALSE) : e.reward <= got[k].rejected.reward

(* The docstring of export_dataset: "the result depends only on the set of  *)
(* trajectories, never on their order." Two episodes with the same actions  *)
(* and different rewards stay in the order they came.                       *)
DatasetIsOrderFree == Is("dataset") => Eval!export_dataset(in.ts, in.kind) = Eval!export_dataset(Reverse(in.ts), in.kind)

-----------------------------------------------------------------------------
Events == [type : {"command", "command_blocked", "model_denied", "secret_findings", "phase_started"}, ts : 1..2, policy : BOOLEAN]
Answers == {[status |-> "approved", decision |-> "APPROVE"], [status |-> "approved", decision |-> "MODIFY"],
            [status |-> "denied", decision |-> "DENY"], [status |-> "cancelled", decision |-> "none"]}
PickProduction ==
    /\ Pick("production")
    /\ \E run \in [status : {"completed", "failed"}, verdict : {"passed", "no_tests", "failed"}, outcome : {"applied", "read_only", "rejected"}],
          calls \in {<<>>, <<1>>, <<1, 2>>}, e, f \in Events, a \in {<<>>} \union {<<x>> : x \in Answers} :
          in' = [run |-> run, calls |-> calls, events |-> <<e, f>>, approvals |-> a]

(* production.build: the steps are in the order of time, every model call   *)
(* and every event that is a step is there once, and every command or model *)
(* use that was blocked costs once, by whatever it was blocked.             *)
RewardCountsOnce ==
    Is("production") =>
       LET got == Eval!build(in.run, in.calls, in.events, in.approvals)
           kept == {i \in DOMAIN in.events : in.events[i].type # "phase_started"}
           stopped == {i \in kept : in.events[i].type \in {"command_blocked", "model_denied"}}
           secret == \E i \in kept : in.events[i].type = "secret_findings"
       IN  /\ \A i, j \in DOMAIN got.steps : i < j => got.steps[i].ts <= got.steps[j].ts
           /\ Len(got.steps) = Len(in.calls) + Cardinality(kept)
           /\ got.reward.safety = -50 * (Cardinality(stopped) + (IF secret THEN 1 ELSE 0))

(* The module's documentation: "+1.0 when the run completed with verdict    *)
(* passed (or no_tests with a read-only task)". The code takes no_tests     *)
(* with any outcome that counts, so an untested patch earns it.             *)
UntestedEarnsNothing ==
    Is("production") => (in.run.verdict = "no_tests" /\ in.run.outcome = "applied" => Eval!build(in.run, in.calls, in.events, in.approvals).reward.validation = 0)

-----------------------------------------------------------------------------
Repos == [git : BOOLEAN, broken : BOOLEAN, head : 1..2, files : [{"touched", "read"} -> 1..3]]
PickDrift ==
    /\ Pick("drift")
    /\ \E old, new \in Repos, watch \in SUBSET {"touched", "read"} :
          (old.git \/ ~old.broken) /\ (new.git \/ ~new.broken) /\ in' = [old |-> old, new |-> new, watch |-> watch]

(* fingerprint.classify: a file the run writes that changed since the       *)
(* checkpoint is a conflict, even when git could not be asked or the        *)
(* repository is no longer one; and what may be called no drift or safe     *)
(* drift is at most about files the run does not write.                     *)
ConflictsAreSeen ==
    Is("drift") =>
       LET got == Eval!classify_drift(Eval!compute_fingerprint(in.old, in.watch), Eval!compute_fingerprint(in.new, in.watch), {"touched"})
           differs(f) == f \in in.watch /\ in.old.files[f] # in.new.files[f]
       IN  /\ (got = "CONFLICTING_DRIFT") <=> differs("touched")
           /\ got = "NO_DRIFT" => (~differs("read") /\ in.old.git = in.new.git /\ (in.old.git => in.old.head = in.new.head))


-----------------------------------------------------------------------------
(* Rules of what web search returns.                                        *)

-----------------------------------------------------------------------------
SearchProviders == {"tavily", "brave", "serper", "serpapi", "google", "custom", "duckduckgo"}
PickSearch ==
    /\ Pick("search")
    /\ \E provider \in SearchProviders, max \in 1..3, abstract \in BOOLEAN, n \in 0..4 : \E items \in [1..n -> {"u1", "u2", "", "text"}] :
          in' = [provider |-> provider, data |-> [items |-> items, abstract |-> abstract], max |-> max]

(* The search methods of the providers: every result is something the       *)
(* service sent, in its order, and is among the sources; no more than was   *)
(* asked for come back where the service was not told how many, or did as   *)
(* it was told; and where a provider skips what is no object, an answer of  *)
(* any form is an answer.                                                   *)
ResultsWereSent ==
    Is("search") =>
       LET reply == Del!Search(in.provider, in.data, in.max)
           sent == (IF in.data.abstract THEN <<"abstract">> ELSE <<>>) \o in.data.items
           results == reply.got.results
       IN  /\ \A i \in DOMAIN results : \E s \in DOMAIN reply.got.sources : reply.got.sources[s] = results[i]
           /\ \E f \in [DOMAIN results -> DOMAIN sent] :
                 /\ \A i \in DOMAIN results : results[i] = sent[f[i]]
                 /\ \A i, j \in DOMAIN results : i < j => f[i] < f[j]
           /\ (reply.asked = 0 \/ Len(in.data.items) <= reply.asked) => Len(results) <= in.max
           /\ in.provider \in {"custom", "duckduckgo"} => ~reply.got.raised

-----------------------------------------------------------------------------
(* One behaviour for every input of every rule                             *)
Init ==
    /\ rule \in {"policies", "disclosure", "ceiling", "condition", "definition", "graph",
                 "request", "schedule", "delivery", "answer", "edit", "diff", "text", "command",
                 "scan", "memory", "files", "prompt", "commands", "task", "gate", "pairs", "slot",
                 "ics", "json", "output", "ask", "trail", "window", "rank", "dataset",
                 "production", "drift", "search"}
    /\ picked = FALSE /\ in = 0
Next ==
    \/ PickPolicies \/ PickDisclosure \/ PickCeiling \/ PickCondition \/ PickDefinition
    \/ PickGraph \/ PickRequest \/ PickSchedule \/ PickDelivery \/ PickAnswer \/ PickEdit
    \/ PickDiff \/ PickText \/ PickCommand \/ PickScan \/ PickMemory \/ PickFiles \/ PickPrompt
    \/ PickCommands \/ PickTask \/ PickGate \/ PickPairs \/ PickSlot \/ PickIcs \/ PickJson
    \/ PickOutput \/ PickAsk \/ PickTrail \/ PickWindow \/ PickRank \/ PickDataset
    \/ PickProduction \/ PickDrift \/ PickSearch
Spec == Init /\ [][Next]_vars

-----------------------------------------------------------------------------
(* domain/policy, runtime/policy, runtime/egress: stored policies only      *)
(* tighten. A narrower one never loosens a decision or raises a limit, a    *)
(* run gets no more than a ceiling, and nothing leaves of which one class   *)
(* may not.                                                                 *)
PoliciesOnlyTighten == NarrowerOnlyTightens /\ CeilingHolds /\ DisclosedOnlyIfAllAllowed

(* domain/workflows: a definition that passes validation has an approval on *)
(* every path to a write, is the same after it was stored and read, and its *)
(* conditions are read from the left only as far as needed.                 *)
DefinitionsAreSound == ValidMeansGated /\ StoredDefinitionIsTheSame /\ ConditionsShortCircuit

(* connectors and search providers: a delivery becomes an event exactly     *)
(* when it is genuine, small enough, recent and watched; no redirect leads  *)
(* to a place that was guarded when checked; what a service refused for     *)
(* good is not asked again; every result was in the answer.                 *)
ServicesAreHeard == AcceptedExactly /\ HopsAreGuarded /\ RefusedIsNotAskedAgain /\ ResultsWereSent

(* schedule_calculator and calendar: the next run is the first moment asked *)
(* for (of a cron expression as far as it is understood, see                *)
(* CronMeansItsFields), the slot proposed is the first free one, and an     *)
(* event survives its export.                                               *)
TimesAreFirst == NextRunIsNext /\ FirstFreeSlot /\ IcsKeepsTheEvent

(* patching: an edit changes its one place and a diff yields its target,    *)
(* also in a file that has moved on, but for the cases DiffYieldsTarget     *)
(* names.                                                                   *)
EditsAreExact == EditsOnlyItsPlace /\ DiffYieldsTarget

(* tools: shell syntax is seen exactly where a shell acts on it, nothing    *)
(* that does more than a test run runs unasked but the formatters that      *)
(* UnaskedIsHarmless names, the tests of a change do, and a secret is       *)
(* reported at its line.                                                    *)
CommandsAreJudged == SyntaxIsSeen /\ UnaskedIsHarmless /\ TestsRunUnattended /\ FindingsAreWhereTheyAre

(* agents, context, memory: what a model is shown is the narrowest and best *)
(* supported that fits before redaction, cut only in blocks; what is read   *)
(* from its reply is what it wrote, whole or a prefix, without reasoning;   *)
(* what a provider left out is reported and what it counted is charged.     *)
ConversationIsFaithful ==
    /\ NotesAreTheNarrowest /\ EvidenceDecides /\ CutsOnlyBlocks
    /\ WholeOrPrefix /\ AnswerWithoutReasoning /\ NothingSilently /\ TokensCounted

(* evaluation, observability, rl: failures are attributed fairly, a gate    *)
(* that passed ran everything, the sign test is exact; traces tell what     *)
(* happened and figures add up; rewards count once and pairs are the best;  *)
(* drift that touches the run's files is a conflict.                        *)
AssessmentsAddUp ==
    /\ BlameIsFair /\ GateMeansAll /\ SignTestIsExact
    /\ TraceTellsTheTrail /\ MetricsAddUp /\ NearestRank
    /\ PairsAreTheBest /\ RewardCountsOnce /\ ConflictsAreSeen
=============================================================================
