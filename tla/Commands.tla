------------------------------ MODULE Commands ------------------------------
(* tools/command_risk.py, command_effects.py and command_runner.py: which   *)
(* commands run unasked, which need a person and which never run. Text is   *)
(* modelled only where quoting is read; elsewhere a command is its parsed   *)
(* form c: blank, destructive and sensitive (the patterns it matches),      *)
(* parses, syntax (of the shell), relative (an executable of the            *)
(* repository), outside (a path argument out of it), exe and args.          *)
EXTENDS Integers, Sequences

(* mutant: a backslash escapes within single quotes too *)
Quoting(q, c) == CASE q.skip -> [q EXCEPT !.skip = FALSE]
                   [] c = "\\" -> [q EXCEPT !.skip = TRUE]
                   [] c = q.quote -> [q EXCEPT !.quote = ""]
                   [] q.quote = "" /\ c \in {"'", "\""} -> [q EXCEPT !.quote = c]
                   [] OTHER -> q

(* the state the scan is in after one more character                        *)
Scan(q, c) == CASE q.skip -> [q EXCEPT !.skip = FALSE]
                [] q.quote = "'" -> IF c = "'" THEN [q EXCEPT !.quote = ""] ELSE q
                [] c = "\\" -> [q EXCEPT !.skip = TRUE]
                [] c = q.quote -> [q EXCEPT !.quote = ""]
                [] q.quote = "" /\ c \in {"'", "\""} -> [q EXCEPT !.quote = c]
                [] OTHER -> q

(* find_shell_syntax: TRUE where the text has an operator a shell would     *)
(* act on; "$(" is one character here, and counts in double quotes too      *)
find_shell_syntax(text) ==
    LET State[i \in 0..Len(text)] == IF i = 0 THEN [quote |-> "", skip |-> FALSE] ELSE Scan(State[i - 1], text[i])
        Live(i) == LET q == State[i - 1]
                   IN  ~q.skip /\ q.quote # "'" /\ (text[i] = "$(" \/ (text[i] = ";" /\ q.quote = ""))
    IN  \E i \in 1..Len(text) : Live(i)

Has(args, options) == \E i \in DOMAIN args : args[i] \in options
First(args) == IF args = <<>> THEN "" ELSE args[1]
IsOption(a) == a \in {"-c", "-o", "-ofile", "-exec", "--output", "--check", "--fix", "--pre", "--list", "-m"}

(* _classify_git: reading subcommands without options that write or execute *)
_classify_git(args) ==
    CASE args = <<>> -> "no_risk_auto"
      [] IsOption(args[1]) -> "risky_ask"
      [] args[1] \in {"status", "diff", "log"} -> IF Has(Tail(args), {"--output", "-c"}) THEN "risky_ask" ELSE "no_risk_auto"
      [] args[1] \in {"branch", "tag"} ->
            IF \A i \in 2..Len(args) : args[i] = "--list" THEN "no_risk_auto" ELSE "risky_ask"
      [] OTHER -> "risky_ask"

PY_TOOL_MODULES == {"pytest", "unittest", "ruff", "mypy", "black", "isort", "flake8", "pyflakes", "pylint", "pyright"}

(* _classify_toolchain: test, lint and build tools run the project's own    *)
(* code, which is their purpose, unless they are known to rewrite or fetch; *)
(* of a module run by python, and of ruff's checks, no option is looked at  *)
_classify_toolchain(exe, args) ==
    LET Ok(b) == IF b THEN "careful_auto" ELSE "risky_ask" IN
    CASE exe \in {"pytest", "mypy", "tox"} -> "careful_auto"
      [] exe = "ruff" -> Ok(First(args) # "format" \/ Has(args, {"--check"}))
      [] exe = "black" -> Ok(Has(args, {"--check", "-c"}))
      [] exe = "eslint" -> Ok(~Has(args, {"--fix"}))
      [] exe = "python" /\ First(args) = "-m" /\ Len(args) >= 2 -> Ok(args[2] \in PY_TOOL_MODULES)
      [] exe = "prettier" -> Ok(Has(args, {"--check"}))
      [] exe = "npm" -> Ok(First(args) \in {"test", "run"})
      [] exe = "cargo" -> Ok(First(args) \in {"test", "check", "clippy", "build"} \/ (First(args) = "fmt" /\ Has(args, {"--check"})))
      [] exe = "go" -> Ok(First(args) \in {"test", "vet", "build"})
      [] exe = "make" -> LET targets == SelectSeq(args, LAMBDA a : ~IsOption(a)) IN Ok(Len(targets) <= 1 /\ First(targets) \in {"", "test"})
      [] OTHER -> "none"

(* mutant: options are not looked at *)
classify_by_name(c) ==
    CASE c.blank -> "no_risk_auto"
      [] c.destructive \/ c.sensitive -> "blocked"
      [] ~c.parses \/ c.syntax \/ c.relative -> "risky_ask"
      [] c.exe \in {"cat", "find", "sort", "git"} -> "no_risk_auto"
      [] _classify_toolchain(c.exe, c.args) # "none" -> _classify_toolchain(c.exe, c.args)
      [] OTHER -> "risky_ask"

(* classify: unknown means ask                                              *)
classify(c) ==
    CASE c.blank -> "no_risk_auto"
      [] c.destructive \/ c.sensitive -> "blocked"
      [] ~c.parses \/ c.syntax \/ c.relative -> "risky_ask"
      [] c.exe = "python" /\ c.args = <<"--version">> -> "no_risk_auto"
      [] c.exe \in {"cat", "find", "sort", "rg"} ->
            IF \/ c.exe = "find" /\ Has(c.args, {"-exec"})
               \/ c.exe = "rg" /\ Has(c.args, {"--pre"})
               \/ c.exe = "sort" /\ Has(c.args, {"-o", "--output"})
               \/ c.outside
            THEN "risky_ask" ELSE "no_risk_auto"
      [] c.exe = "git" -> _classify_git(c.args)
      [] _classify_toolchain(c.exe, c.args) # "none" -> _classify_toolchain(c.exe, c.args)
      [] c.exe = "pip" /\ First(c.args) = "list" -> "no_risk_auto"
      [] OTHER -> "risky_ask"

(* effect_of: the side-effect class of a command the gate has classified    *)
effect_of(c) ==
    CASE classify(c) = "blocked" -> "DESTRUCTIVE"
      [] classify(c) = "no_risk_auto" -> IF c.blank THEN "PURE" ELSE "READ_ONLY"
      [] classify(c) = "careful_auto" -> "WORKSPACE_WRITE"
      [] c.syntax \/ ~c.parses -> "UNKNOWN"
      [] c.exe = "git" -> IF \E i \in DOMAIN c.args : c.args[i] \in {"push", "fetch"} THEN "EXTERNAL_WRITE" ELSE "REPOSITORY_WRITE"
      [] c.exe = "curl" -> "EXTERNAL_WRITE"
      [] c.exe = "rm" -> "DESTRUCTIVE"
      [] c.exe \in {"pip", "npm", "cargo", "go"} -> "HOST_MUTATION"
      [] c.exe = "cp" -> "WORKSPACE_WRITE"
      [] OTHER -> "UNKNOWN"

(* run_command_safe: how, if at all, the command is run                     *)
run_command_safe(c, approved) ==
    CASE classify(c) = "blocked" -> "blocked"
      [] classify(c) = "risky_ask" /\ ~approved -> "needs_approval"
      [] c.syntax \/ ~c.parses \/ c.blank -> "run_shell"
      [] OTHER -> "run_argv"
-----------------------------------------------------------------------------
(* secret_guard.scan_text on one line, that matches a pattern, only looks   *)
(* like an assignment, both or neither: a line is not reported twice for    *)
(* the second reason                                                        *)
scan_text(line) == (IF line.pattern THEN <<"pattern">> ELSE <<>>) \o
                   (IF line.assigns /\ ~line.pattern THEN <<"assignment">> ELSE <<>>)

(* mutant: removed lines are counted *)
CountedAll(l) == l.tag # "eof"
Counted(l) == l.tag # "-"

(* secret_guard.scan_diff: findings in added lines, each with the number of *)
(* its line in the new file                                                 *)
scan_diff(diff) ==
    LET Number[i \in 0..Len(diff)] ==
            IF i = 0 THEN 0
            ELSE IF diff[i].tag = "file" THEN 0
            ELSE IF diff[i].tag = "hunk" THEN diff[i].start - 1
            ELSE Number[i - 1] + (IF Counted(diff[i]) THEN 1 ELSE 0)
    IN  {<<i, Number[i]>> : i \in {k \in DOMAIN diff : diff[k].tag = "+" /\ scan_text(diff[k]) # <<>>}}

-----------------------------------------------------------------------------
(* tools/test_runner.py and state_machine._pick_test_commands: the commands *)
(* a change is validated with. A command is its words; a repository is the  *)
(* manifests and tests found in it.                                         *)

Parsed(c) == [blank |-> c = <<>>, destructive |-> c = <<"rm", "-rf">>, sensitive |-> FALSE, parses |-> TRUE, syntax |-> FALSE,
              relative |-> FALSE, outside |-> FALSE, exe |-> c[1], args |-> Tail(c)]

If(b, s) == IF b THEN s ELSE <<>>

(* pytest unless it cannot be imported; plain layouts only when no manifest *)
(* named a command                                                          *)
detect_test_commands(files, missing) ==
    LET told == If("pyproject" \in files, <<<<"python", "-m", "pytest">>>>) \o If("tox" \in files, <<<<"tox">>>>)
        plain == IF "pytest" \in missing THEN <<"python", "-m", "unittest">> ELSE <<"python", "-m", "pytest">>
    IN  told \o If("tests" \in files /\ told = <<>>, <<plain>>)
        \o If("package" \in files, <<<<"npm", "test">>>>)
        \o If("cargo" \in files, <<<<"cargo", "test">>>>)
        \o If("makefile" \in files, <<<<"make", "test">>>>)
        \o If("go" \in files, <<<<"go", "test", "./...">>>>)

_tool_available(c, missing) == c # <<>> /\ c[1] \notin missing
Usable(c, missing) == classify(Parsed(c)) \in {"no_risk_auto", "careful_auto"} /\ _tool_available(c, missing)

(* mutant: preferred commands are taken on trust *)
_pick_preferred(wanted, planned, files, missing, limit) ==
    IF wanted # <<>> THEN <<wanted[1]>> ELSE SelectSeq(planned, LAMBDA c : Usable(c, missing))

(* a person's choice, then the plan's, then what the repository shows       *)
_pick_test_commands(wanted, planned, files, missing, limit) ==
    LET Cut(s) == SubSeq(s, 1, IF Len(s) < limit THEN Len(s) ELSE limit)
        kept == SelectSeq(wanted, LAMBDA c : Usable(c, missing))
        named == SelectSeq(planned, LAMBDA c : Usable(c, missing))
    IN  CASE kept # <<>> -> Cut(kept)
          [] named # <<>> -> Cut(named)
          [] OTHER -> Cut(SelectSeq(detect_test_commands(files, missing), LAMBDA c : _tool_available(c, missing)))
=============================================================================
