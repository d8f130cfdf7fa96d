------------------------------ MODULE Context ------------------------------
(* context/builder.py and agents/budget.py: which files a model is shown,   *)
(* and how a prompt is cut to the window of the model. Text is its length.  *)
EXTENDS Integers, Sequences, FiniteSets, SequencesExt

CONSTANTS CHARS_PER_TOKEN, LEFT_OVER,      \* builder.py: too little is left below LEFT_OVER characters (200)
          MIN_BLOCK_CHARS, MARKER          \* budget.py: the least a block keeps, the length of the truncation mark

(* A candidate f is the evidence for a file: named by the user, planned,    *)
(* in a traceback, words of the task in its path and its symbols, the files *)
(* it is a test of; whether _read_text reads it, its size, and by how much  *)
(* redact_secrets lengthens its beginning: a key it replaces by its mark may *)
(* be longer than that, an assignment may stay and have the mark added.     *)
Evidence(f) == (IF f.named THEN 200 ELSE 0) + (IF f.planned THEN 100 ELSE 0) + (IF f.traced THEN 150 ELSE 0)
               + 6 * f.pathHits + 4 * (IF f.symHits > 5 THEN 5 ELSE f.symHits)

Ordered(files, score) == LET Before(i, j) == score[i] > score[j] \/ (score[i] = score[j] /\ i < j)
                         IN  SetToSortSeq({i \in DOMAIN files : score[i] > 0}, Before)

(* tests of the sources found so far, of the first top ones only (0: all)   *)
WithTests(files, top) ==
    LET base == [i \in DOMAIN files |-> Evidence(files[i])]
        ranked == Ordered(files, base)
        sources == {ranked[k] : k \in {n \in DOMAIN ranked : top = 0 \/ n <= top}}
    IN  [i \in DOMAIN files |-> base[i] + 8 * Cardinality(files[i].testOf \intersect sources)]

Explicit(files, i, score) == files[i].named \/ files[i].planned \/ files[i].traced \/ score[i] > Evidence(files[i])

(* relative_cutoff, in hundredths of the best score                         *)
Kept(files, score, cutoff) ==
    LET ranked == Ordered(files, score)
    IN  IF cutoff = 0 \/ ranked = <<>> THEN ranked
        ELSE SelectSeq(ranked, LAMBDA i : 100 * score[i] >= score[ranked[1]] * cutoff \/ Explicit(files, i, score))

Least(a, b) == IF a < b THEN a ELSE b
Most(a, b) == IF a > b THEN a ELSE b

(* mutant: files are cut to the limit of a file only *)
_read_whole(f, limit, remaining) == Least(f.size, limit) + f.redaction
(* _read_text: the characters a file contributes, cut and then redacted     *)
_read_text(f, limit, remaining) == Least(f.size, Least(limit, remaining)) + f.redaction

Load(files, opts, got, i) ==
    IF Len(got.chosen) >= opts.max_files \/ got.remaining <= LEFT_OVER \/ ~files[i].loads THEN got
    ELSE LET n == _read_text(files[i], opts.per_file, got.remaining)
         IN  [chosen |-> Append(got.chosen, [file |-> i, chars |-> n]), remaining |-> got.remaining - n]

(* build_context                                                            *)
build_context(files, opts) ==
    FoldLeft(LAMBDA got, i : Load(files, opts, got, i), [chosen |-> <<>>, remaining |-> opts.budget * CHARS_PER_TOKEN],
             Kept(files, WithTests(files, opts.top), opts.cutoff)).chosen
-----------------------------------------------------------------------------
effective_max_tokens(max_tokens, limit, least) == IF limit = 0 THEN max_tokens ELSE Least(max_tokens, Most(least, limit \div 4))

_shrink(size, keep) ==
    IF size <= keep THEN size
    ELSE LET head == Most(0, ((keep - MARKER) * 2) \div 3)
             tail == Most(0, keep - MARKER - head)
         IN  head + MARKER + tail

Total(sizes) == FoldLeft(LAMBDA a, b : a + b, 0, sizes)

(* mutant: a block is cut to its share, however small *)
Share_plain(size, total, available) == (available * size) \div total
Share(size, total, available) == Most(MIN_BLOCK_CHARS, (available * size) \div total)

(* fit_text: the length of each block of the prompt and of the rest         *)
fit_text(fixed, sizes, budget) ==
    LET total == Total(sizes)
        available == budget - fixed
    IN  CASE fixed + total <= budget -> [fixed |-> fixed, blocks |-> sizes]
          [] sizes # <<>> /\ available >= MIN_BLOCK_CHARS * Len(sizes) ->
                [fixed |-> fixed, blocks |-> [i \in DOMAIN sizes |-> _shrink(sizes[i], Share(sizes[i], total, available))]]
          [] OTHER -> [fixed |-> _shrink(fixed + total, Most(budget, MIN_BLOCK_CHARS)), blocks |-> <<>>]

-----------------------------------------------------------------------------
(* domain/memory.py, domain/preferences.py, runtime/memory_service.py and   *)
(* runtime/run_memory.py: which remembered records a run may see, believes  *)
(* and shows. A record is its scope and the id it is filed under, tenant,   *)
(* kind, key, status, source, confidence and relevance in hundredths, its   *)
(* age in hundredths of its time to live (expired from 100 on), and cost in *)
(* tokens. Writing and expiring them is module Memory.                      *)

MIN_RELEVANCE == 15
MIN_EFFECTIVE_CONFIDENCE == 2500       \* of 10000
Scope == [system |-> 0, organization |-> 1, workspace |-> 2, repository |-> 3, workflow |-> 4, user |-> 5]
PRECEDENCE == <<"organization", "workspace", "repository", "user", "workflow">>
TRUSTED_SOURCES == {"user_explicit", "configuration", "repository_detected", "test_result", "ci"}
Lasting == {"user_explicit", "configuration", "repository_detected"}      \* DEFAULT_TTL is None

WRITABLE_BY(kind) ==
    CASE kind = "preference" -> {"user_explicit", "configuration"}
      [] kind = "procedural" -> {"user_explicit", "configuration", "repository_detected", "test_result"}
      [] kind \in {"repository", "episodic"} -> TRUSTED_SOURCES \union {"accepted_patch", "rejected_patch", "agent_inference"}
      [] OTHER -> {}

(* check_write: what may be stored at all; w says if the key and the size   *)
(* are in bounds and if the text reads like an order                        *)
check_write(w) ==
    /\ w.scope \in {PRECEDENCE[i] : i \in 1..5}
    /\ w.source \in WRITABLE_BY(w.kind)
    /\ w.fits
    /\ w.orders => w.source \in {"user_explicit", "configuration"}

(* visible: the tenant's own records, and of the narrower scopes those of   *)
(* the repository, person and workflow that are named ("" is nobody)        *)
visible(m, who) ==
    CASE m.scope = "organization" -> m.org = who.org
      [] m.scope = "workspace" -> m.org = who.org /\ m.ws = who.ws
      [] m.scope = "repository" -> m.org = who.org /\ m.ws = who.ws /\ who.repo # "" /\ m.id = who.repo
      [] m.scope = "user" -> m.org = who.org /\ m.ws = who.ws /\ who.user # "" /\ m.id = who.user
      [] OTHER -> m.org = who.org /\ m.ws = who.ws /\ who.workflow # "" /\ m.id = who.workflow

Past(m) == m.source \notin Lasting /\ m.age >= 100
(* expire_due, which every reader calls first                               *)
expire_due(m) == IF m.status = "active" /\ Past(m) THEN [m EXCEPT !.status = "expired"] ELSE m

freshness(m) == CASE m.status # "active" \/ Past(m) -> 0
                  [] m.source \in Lasting -> 100
                  [] OTHER -> 100 - (m.age \div 2)
effective_confidence(m) == m.confidence * freshness(m)

Authority(source) == CASE source = "user_explicit" -> 100 [] source = "configuration" -> 80 [] source = "repository_detected" -> 60 [] OTHER -> 40
_relevance(m) == IF m.profile /\ m.relevance < MIN_RELEVANCE THEN MIN_RELEVANCE ELSE m.relevance
Score(m) == 400 * _relevance(m) + 300 * Authority(m.source) + 3 * effective_confidence(m)

Candidate(m) == /\ m.kind \in {"repository", "procedural", "episodic"}
                /\ m.status = "active"
                /\ effective_confidence(m) >= MIN_EFFECTIVE_CONFIDENCE
                /\ _relevance(m) >= MIN_RELEVANCE

(* mutant: the record that scores best *)
Best_scoring(ms) == {i \in DOMAIN ms : Candidate(ms[i]) /\ \A j \in DOMAIN ms :
                       (Candidate(ms[j]) /\ ms[j].key = ms[i].key /\ ms[j].kind = ms[i].kind) =>
                           (Score(ms[i]) > Score(ms[j]) \/ (Score(ms[i]) = Score(ms[j]) /\ i >= j))}
(* one record for each key: of the narrowest scope, then the best           *)
Best(ms) == {i \in DOMAIN ms : Candidate(ms[i]) /\ \A j \in DOMAIN ms :
               (Candidate(ms[j]) /\ ms[j].key = ms[i].key /\ ms[j].kind = ms[i].kind) =>
                   \/ Scope[ms[i].scope] > Scope[ms[j].scope]
                   \/ /\ ms[i].scope = ms[j].scope
                      /\ Score(ms[i]) > Score(ms[j]) \/ (Score(ms[i]) = Score(ms[j]) /\ i >= j)}

Take(ms, got, i) == IF got.spent + ms[i].cost > got.budget THEN got ELSE [got EXCEPT !.spent = @ + ms[i].cost, !.items = Append(@, i)]

(* select: best first; what does not fit is passed over, not the end        *)
select(records, who, budget) ==
    LET ms == [i \in DOMAIN records |-> IF visible(records[i], who) THEN expire_due(records[i]) ELSE [records[i] EXCEPT !.status = "foreign"]]
        Before(i, j) == Score(ms[i]) > Score(ms[j]) \/ (Score(ms[i]) = Score(ms[j]) /\ i < j)
    IN  FoldLeft(LAMBDA got, i : Take(ms, got, i), [spent |-> 0, budget |-> budget, items |-> <<>>], SetToSortSeq(Best(ms), Before)).items

(* begin: a run without memory, or whose policy withholds it from this kind *)
(* of provider, is shown nothing                                            *)
begin(records, who, mode, withheld, budget) ==
    IF mode \notin {"repo", "user"} \/ withheld THEN <<>>
    ELSE select(records, [who EXCEPT !.user = IF mode = "user" THEN @ ELSE "", !.workflow = ""], budget)

Rank(scope) == CHOOSE i \in 1..5 : PRECEDENCE[i] = scope
(* resolve: the record of the highest precedence among the usable ones; 0   *)
(* is the system default                                                    *)
resolve(records, who) ==
    LET usable == {i \in DOMAIN records : visible(records[i], who) /\ records[i].kind = "preference" /\ freshness(expire_due(records[i])) > 0}
    IN  IF usable = {} THEN 0 ELSE CHOOSE i \in usable : \A j \in usable : Rank(records[i].scope) >= Rank(records[j].scope)
=============================================================================
