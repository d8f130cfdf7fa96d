----------------------------- MODULE RepoProfile -----------------------------
(* The stored profile of one repository (runtime/repo_profile.py): fields detected  *)
(* from its manifests and top-level names, one detected from the whole tree          *)
(* (languages), a fingerprint that says whether to look again, and people who        *)
(* correct or remove fields. Runs of several processes refresh it while the          *)
(* repository changes, also back to what it was before.                              *)
EXTENDS Integers

CONSTANTS Processes,
          Layouts,    \* what manifests and top-level names can be: numbers from 1
          Bare,       \* layouts without a manifest that names a test command
          Trees       \* what the rest can be: files below, modules installed; numbers from 1

VARIABLES layout, tree,
          field,         \* profile field -> its active memory: value and source, or None
          stored,        \* the fingerprint record (0: none)
          removed,       \* fields a person removed since the profile was last written
          torn,          \* history: the layout changed between the hash and the detection of
                         \* the refresh that last wrote
          job            \* process -> the refresh it is in; moved (history): see torn
vars == <<layout, tree, field, stored, removed, torn, job>>

FIELDS == {"test_commands", "languages"}
None == [source |-> "none", value |-> 0]
NoJob == [at |-> "idle", digest |-> 0, found |-> [f \in FIELDS |-> 0], moved |-> FALSE]

Init == /\ layout = 1 /\ tree = 1 /\ stored = 0 /\ removed = {} /\ torn = FALSE
        /\ field = [f \in FIELDS |-> None] /\ job = [p \in Processes |-> NoJob]

\* a commit, a checkout, an editor
EditManifest ==
  /\ layout' \in Layouts \ {layout}
  /\ job' = [p \in Processes |-> [job[p] EXCEPT !.moved = @ \/ job[p].at = "detect"]]
  /\ UNCHANGED <<tree, field, stored, removed, torn>>
EditTree == tree' \in Trees \ {tree} /\ UNCHANGED <<layout, field, stored, removed, torn, job>>
-----------------------------------------------------------------------------
\* detect_test_commands: the manifests, or else the test files in tests/ and whether pytest can
\* be imported; 0 stands for a field that is not there
test_commands == IF layout \in Bare THEN IF tree = 1 THEN 0 ELSE 10 + tree ELSE layout
detect == [f \in FIELDS |-> IF f = "languages" THEN tree ELSE test_commands]

\* mutant of layout_fingerprint: taken again when the profile is written
fingerprint_late(j) == layout
layout_fingerprint(j) == j.digest

\* hash first; nothing else is read when the hash is the stored one
StartRefresh(p, force) ==
  /\ job[p] = NoJob /\ (layout # stored \/ force)
  /\ job' = [job EXCEPT ![p] = [NoJob EXCEPT !.at = "detect", !.digest = layout]]
  /\ UNCHANGED <<layout, tree, field, stored, removed, torn>>

Detect(p) ==
  /\ job[p].at = "detect" /\ job' = [job EXCEPT ![p].at = "write", ![p].found = detect]
  /\ UNCHANGED <<layout, tree, field, stored, removed, torn>>

\* mutant of Refreshed: what is not found is gone, whoever said so
RefreshedBlindly(f, found) ==
  IF found = 0 THEN None
  ELSE IF field[f].source = "user_explicit" THEN field[f] ELSE [source |-> "repository_detected", value |-> found]

\* put never replaces a person's value; a detected field whose subject is gone goes stale
Refreshed(f, found) ==
  IF field[f].source = "user_explicit" THEN field[f]
  ELSE IF found = 0 THEN None ELSE [source |-> "repository_detected", value |-> found]

\* one transaction: the fields, then the fingerprint
refresh(p) ==
  /\ job[p].at = "write"
  /\ field' = [f \in FIELDS |-> Refreshed(f, job[p].found[f])]
  /\ stored' = layout_fingerprint(job[p]) /\ removed' = {} /\ torn' = job[p].moved
  /\ job' = [job EXCEPT ![p] = NoJob] /\ UNCHANGED <<layout, tree>>

\* the process dies, or the unique index refuses a row another process inserted
RefreshFails(p) == /\ job[p] # NoJob /\ job' = [job EXCEPT ![p] = NoJob]
                   /\ UNCHANGED <<layout, tree, field, stored, removed, torn>>
-----------------------------------------------------------------------------
override(f) == /\ field' = [field EXCEPT ![f] = [source |-> "user_explicit", value |-> 9]]
               /\ removed' = removed \ {f} /\ UNCHANGED <<layout, tree, stored, torn, job>>

\* memory forget
forget(f) == /\ field[f] # None /\ field' = [field EXCEPT ![f] = None] /\ removed' = removed \union {f}
             /\ UNCHANGED <<layout, tree, stored, torn, job>>

Next == \/ EditManifest \/ EditTree
        \/ \E p \in Processes : \/ \E force \in BOOLEAN : StartRefresh(p, force)
                                \/ Detect(p) \/ refresh(p) \/ RefreshFails(p)
        \/ \E f \in FIELDS : override(f) \/ forget(f)

Spec == Init /\ [][Next]_vars
-----------------------------------------------------------------------------
(* Properties *)

\* When the fingerprint says nothing changed, the fields read from the manifests are those of
\* the manifests as they are now, a person's, or were removed by a person. An interleaving of
\* refreshes and edits stores a current fingerprint over an outdated profile only when the
\* repository left the hashed layout before it was looked at and came back to it
FingerprintIsHonest ==
  (stored = layout /\ layout \notin Bare /\ ~torn) =>
    \/ field["test_commands"].value = detect["test_commands"]
    \/ field["test_commands"].source = "user_explicit" \/ "test_commands" \in removed

\* "A detection refresh never replaces a person's value": only a person changes it
PersonsValueStays ==
  \A f \in FIELDS : (field[f].source = "user_explicit" /\ field'[f] # field[f])
     => (job' = job /\ f \in removed')

\* layout_fingerprint: "changes when profile inputs change": as long as it is the stored one,
\* looking again finds nothing else in the fields read from the manifests
InputsAreCovered ==
  (stored = layout /\ ~torn) =>
    \/ field["test_commands"].value = detect["test_commands"]
    \/ field["test_commands"].source = "user_explicit" \/ "test_commands" \in removed

\* refresh: "Bring the stored profile up to date": a run that looks and finds the fingerprint
\* unchanged finds the profile to be that of the repository, or a person's
ProfileUpToDate ==
  stored = layout =>
    \A f \in FIELDS : field[f].source = "user_explicit" \/ field[f].value = detect[f]
=============================================================================
