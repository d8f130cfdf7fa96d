------------------------------- MODULE Edits -------------------------------
(* patching/edits.py and patching/unified.py: how an edit or a diff of the  *)
(* model finds its place in a file. In the first part text is a sequence of *)
(* characters, among them " " and "n" for the end of a line; in the second  *)
(* a file is a sequence of lines, each a word with or without blanks after. *)
EXTENDS Integers, Sequences

At(s, i, t) == i + Len(t) - 1 <= Len(s) /\ SubSeq(s, i, i + Len(t) - 1) = t

(* str.count and str.replace: occurrences that do not overlap, from the left*)
RECURSIVE Occurrences(_, _, _)
Occurrences(s, t, i) ==
    IF i > Len(s) - Len(t) + 1 THEN <<>>
    ELSE IF At(s, i, t) THEN <<i>> \o Occurrences(s, t, i + Len(t))
    ELSE Occurrences(s, t, i + 1)
RECURSIVE Substituted(_, _, _)
Substituted(s, t, r) ==
    LET o == Occurrences(s, t, 1)
    IN  IF o = <<>> THEN s
        ELSE SubSeq(s, 1, o[1] - 1) \o r \o Substituted(SubSeq(s, o[1] + Len(t), Len(s)), t, r)

(* str.split and str.join on the end of a line                              *)
RECURSIVE Lines(_)
Lines(s) == LET o == Occurrences(s, <<"n">>, 1)
            IN  IF o = <<>> THEN <<s>> ELSE <<SubSeq(s, 1, o[1] - 1)>> \o Lines(SubSeq(s, o[1] + 1, Len(s)))
RECURSIVE Joined(_)
Joined(ls) == IF Len(ls) = 0 THEN <<>> ELSE IF Len(ls) = 1 THEN ls[1] ELSE ls[1] \o <<"n">> \o Joined(Tail(ls))

RECURSIVE RStrip(_)
RStrip(line) == IF line # <<>> /\ line[Len(line)] = " " THEN RStrip(SubSeq(line, 1, Len(line) - 1)) ELSE line
RECURSIVE LStrip(_)
LStrip(line) == IF line # <<>> /\ line[1] = " " THEN LStrip(Tail(line)) ELSE line
RECURSIVE StripEnds(_)
StripEnds(s) == IF s # <<>> /\ s[1] = "n" THEN StripEnds(Tail(s))
                ELSE IF s # <<>> /\ s[Len(s)] = "n" THEN StripEnds(SubSeq(s, 1, Len(s) - 1))
                ELSE s
Each(F(_), ls) == [i \in DOMAIN ls |-> F(ls[i])]
_rstrip_lines(s) == Joined(Each(RStrip, Lines(s)))
_indent(line) == SubSeq(line, 1, Len(line) - Len(LStrip(line)))

(* the replacement as lines, none when it is empty                          *)
NewLines(replace) == IF StripEnds(replace) = <<>> THEN <<>> ELSE Lines(StripEnds(replace))
Splice(ls, at, n, new) == SubSeq(ls, 1, at - 1) \o new \o SubSeq(ls, at + n, Len(ls))
EditError == [ok |-> FALSE, text |-> <<>>]
Edited(text) == [ok |-> TRUE, text |-> text]

(* _match_ignoring_indent: unique, and re-indented to the file              *)
_match_ignoring_indent(text, search, replace) ==
    LET Strip(line) == LStrip(RStrip(line))
        needle == Each(Strip, Lines(StripEnds(search)))
        src == Lines(text)
        hits == {i \in 1..(Len(src) - Len(needle) + 1) : At(Each(Strip, src), i, needle)}
        at == CHOOSE i \in hits : TRUE
        model == _indent(Lines(StripEnds(search))[1])
        Reindented(line) == IF At(line, 1, model) /\ Strip(line) # <<>>
                            THEN _indent(src[at]) \o SubSeq(line, Len(model) + 1, Len(line)) ELSE line
    IN  IF (\A i \in DOMAIN needle : needle[i] = <<>>) \/ (\A i \in hits : \E k \in hits : k # i) THEN EditError
        ELSE Edited(Joined(Splice(src, at, Len(needle), Each(Reindented, NewLines(replace)))))

(* the loop that maps the normalised match back onto the lines              *)
RECURSIVE MapBack(_, _, _, _, _, _)
MapBack(src, needle, new, all, i, replaced) ==
    IF i > Len(src) THEN <<>>
    ELSE IF At(Each(RStrip, src), i, needle) /\ (~replaced \/ all)
    THEN new \o MapBack(src, needle, new, all, i + Len(needle), TRUE)
    ELSE <<src[i]>> \o MapBack(src, needle, new, all, i + 1, replaced)

(* mutant: the first of several places is good enough *)
apply_first(text, search, replace, all) ==
    LET o == Occurrences(text, search, 1)
    IN  IF search = <<>> \/ o = <<>> THEN EditError
        ELSE Edited(SubSeq(text, 1, o[1] - 1) \o replace \o SubSeq(text, o[1] + Len(search), Len(text)))

(* apply_search_replace: exact, then ignoring blanks at the ends of lines,  *)
(* then ignoring indentation; one place only unless all are meant           *)
apply_search_replace(text, search, replace, all) ==
    LET exact == Len(Occurrences(text, search, 1))
        norm_search == StripEnds(_rstrip_lines(search))
        loose == IF norm_search = <<>> THEN Len(_rstrip_lines(text)) + 1
                 ELSE Len(Occurrences(_rstrip_lines(text), norm_search, 1))
    IN  IF search = <<>> THEN EditError
        ELSE IF exact = 1 \/ (exact > 1 /\ all) THEN Edited(Substituted(text, search, replace))
        ELSE IF exact > 1 THEN EditError
        ELSE IF loose = 0 THEN _match_ignoring_indent(text, search, replace)
        ELSE IF loose > 1 /\ ~all THEN EditError
        ELSE Edited(Joined(MapBack(Lines(text), Lines(norm_search), NewLines(replace), all, 1, FALSE)))

(* changes_from_model_output: edits, then new files, then deletions         *)
changes_from_model_output(data) ==
    IF \E i \in DOMAIN data.edits : ~data.edits[i].path \/ \E j \in DOMAIN data.create : ~data.create[j].path THEN <<"malformed">>
    ELSE [i \in DOMAIN data.edits |-> "edit"] \o [i \in DOMAIN data.create |-> "create"] \o [i \in DOMAIN data.delete |-> "delete"]
-----------------------------------------------------------------------------
(* A diff of one file is a sequence of lines with a tag: hunk (with its old *)
(* start), "+", "-", " ", eof ("\ No newline at end of file"), odd. A word  *)
(* "--" or "++" is one whose line reads, with its tag, like a file header.  *)
CONSTANT MAX_HUNK_DRIFT

(* _is_file_header: two lines of content can look like one                  *)
_is_file_header(diff, i) ==
    /\ i < Len(diff) /\ diff[i].tag = "-" /\ diff[i].word = "--"
    /\ diff[i + 1].tag = "+" /\ diff[i + 1].word = "++"

Hunk(start) == [old_start |-> start, old |-> <<>>, new |-> <<>>, eof |-> FALSE]
Content(l) == [word |-> l.word, blank |-> l.blank]

(* parse_unified_diff: the counts of a hunk are not used; a hunk ends where *)
(* the next begins, at a header or at a line that is none of a diff's       *)
RECURSIVE Parsed(_, _, _, _)
Parsed(diff, i, hunks, open) ==
    LET n == Len(hunks)
        Goes(h) == Parsed(diff, i + 1, [hunks EXCEPT ![n] = h], TRUE)
        l == diff[i]
    IN  IF i > Len(diff) \/ (open /\ _is_file_header(diff, i)) THEN hunks
        ELSE IF l.tag = "hunk" THEN Parsed(diff, i + 1, Append(hunks, Hunk(l.start)), TRUE)
        ELSE IF ~open \/ l.tag = "odd" THEN Parsed(diff, i + 1, hunks, FALSE)
        ELSE Goes(CASE l.tag = "eof" -> [hunks[n] EXCEPT !.eof = TRUE]
                    [] l.tag = "+" -> [hunks[n] EXCEPT !.new = Append(@, Content(l))]
                    [] l.tag = "-" -> [hunks[n] EXCEPT !.old = Append(@, Content(l))]
                    [] OTHER -> [hunks[n] EXCEPT !.old = Append(@, Content(l)), !.new = Append(@, Content(l))])
parse_unified_diff(diff) == Parsed(diff, 1, <<>>, FALSE)

(* _norm: blanks at the end of a line do not count                          *)
_norm(line) == line.word
Distance(a, b) == IF a < b THEN b - a ELSE a - b

(* mutant: the first match from the top *)
_find_first(lines, block, hint) ==
    LET hits == {s \in 0..(Len(lines) - Len(block)) : At(lines, s + 1, block)}
    IN  IF block = <<>> THEN hint ELSE IF hits = {} THEN -1 ELSE CHOOSE s \in hits : \A t \in hits : s <= t

(* _find_block: where block is, nearest to hint, exactly before loosely; of *)
(* two as near the earlier; -1 for nowhere. Positions count from 0.         *)
_find_block(lines, block, hint) ==
    LET Hits(F(_)) == {s \in 0..(Len(lines) - Len(block)) : At(Each(F, lines), s + 1, Each(F, block))}
        Exactly(l) == l
        Nearest(hits) == CHOOSE s \in hits : \A t \in hits : Distance(s, hint) < Distance(t, hint) \/ (Distance(s, hint) = Distance(t, hint) /\ s <= t)
        Near(hits) == hits # {} /\ Distance(Nearest(hits), hint) <= MAX_HUNK_DRIFT
    IN  IF block = <<>> THEN (IF hint > Len(lines) THEN Len(lines) ELSE IF hint < 0 THEN 0 ELSE hint)
        ELSE IF Near(Hits(Exactly)) THEN Nearest(Hits(Exactly))
        ELSE IF Near(Hits(_norm)) THEN Nearest(Hits(_norm))
        ELSE -1

(* apply_hunks: each found from where the earlier ones moved it             *)
RECURSIVE Applied(_, _, _)
Applied(lines, hunks, delta) ==
    IF hunks = <<>> THEN [ok |-> TRUE, lines |-> lines]
    ELSE LET h == Head(hunks)
             hint == (IF h.old_start = 0 THEN 0 ELSE h.old_start - 1) + (IF h.old = <<>> /\ h.old_start = 0 THEN 0 ELSE delta)
             at == _find_block(lines, h.old, hint)
         IN  IF at = -1 THEN [ok |-> FALSE, lines |-> lines]
             ELSE Applied(Splice(lines, at + 1, Len(h.old), h.new), Tail(hunks), delta + Len(h.new) - Len(h.old))
apply_hunks(original, hunks) == Applied(original, hunks, 0)

(* apply_changes for a file that a diff modifies: nl says that the file     *)
(* ends with the end of a line                                              *)
PatchedFile(file, hunks) ==
    LET got == apply_hunks(file.lines, hunks)
    IN  [ok |-> got.ok, lines |-> got.lines, nl |-> got.lines # <<>> /\ file.nl /\ ~\E i \in DOMAIN hunks : hunks[i].eof]
=============================================================================
